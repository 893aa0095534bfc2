-------------------------- MODULE PipelineRunProofs --------------------------
(***************************************************************************)
(* Proofs about PipelineRun: its safety properties hold for every pipeline *)
(* definition, any number of handler slots and any number of faults.       *)
(***************************************************************************)
EXTENDS PipelineRun, TLAPS

\* Overwriting the status of all rows of a stage keeps their number.
LEMMA UpdateRows ==
    ASSUME NEW rows \in Seq(JobStatus), NEW status \in JobStatus
    PROVE  /\ [i \in DOMAIN rows |-> status] \in Seq(JobStatus)
           /\ [i \in DOMAIN rows |-> status] = <<>> <=> rows = <<>>
<1> DEFINE new == [i \in DOMAIN rows |-> status]
<1>1. DOMAIN rows = 1 .. Len(rows) /\ Len(rows) \in Nat
  OBVIOUS
<1>2. new \in [1 .. Len(rows) -> JobStatus]
  BY <1>1
<1>3. new \in Seq(JobStatus)
  BY <1>1, <1>2
<1>4. Len(new) = Len(rows)
  BY <1>1, <1>2, <1>3
<1>5. QED
  BY <1>3, <1>4

\* Writing one entry of an artifact map keeps it one.
LEMMA WriteArtifact ==
    ASSUME NEW map \in ArtifactMap, NEW s \in Stages,
           NEW value \in {"output", "skipped"}
    PROVE  /\ [map EXCEPT ![s] = value] \in ArtifactMap
           /\ completed([map EXCEPT ![s] = value]) = completed(map) \cup {s}
  BY DEF ArtifactMap, completed

\* The three kinds of event are told apart by their names and stages.
LEMMA EventFacts ==
    /\ Queued \in Event /\ NoEvent \notin Event
    /\ \A s \in Stages : /\ StageCompleted(s) \in Event
                         /\ StageFailed(s) \in Event
                         /\ StageCompleted(s) # Queued /\ StageFailed(s) # Queued
                         /\ StageFailed(s).stage = s /\ StageCompleted(s).stage = s
                         /\ StageFailed(s).name = "pipeline.stage_failed"
                         /\ StageCompleted(s).name = "pipeline.stage_completed"
    /\ \A s, t \in Stages : StageCompleted(s) # StageFailed(t)
    /\ \A e \in Event : \/ e = Queued
                        \/ \E s \in Stages : e = StageCompleted(s) \/ e = StageFailed(s)
    /\ Queued.name = "video.queued"
    /\ \A e \in Event : e.name \in {"video.queued", "pipeline.stage_completed",
                                    "pipeline.stage_failed"}
<1>1. \A e \in Event : \/ e = Queued
                       \/ \E s \in Stages : e = StageCompleted(s) \/ e = StageFailed(s)
  BY DEF Event
<1>2. /\ Queued.name = "video.queued"
      /\ \A s \in Stages : /\ StageFailed(s).stage = s /\ StageCompleted(s).stage = s
                           /\ StageFailed(s).name = "pipeline.stage_failed"
                           /\ StageCompleted(s).name = "pipeline.stage_completed"
  BY DEF Queued, StageCompleted, StageFailed
<1>3. \A e \in Event : e.name \in {"video.queued", "pipeline.stage_completed",
                                   "pipeline.stage_failed"}
  BY <1>1, <1>2
<1>4. NoEvent.name = "none"
  BY DEF NoEvent
<1>5. /\ Queued \in Event
      /\ \A s \in Stages : StageCompleted(s) \in Event /\ StageFailed(s) \in Event
  BY DEF Event
<1>6. QED
  BY <1>1, <1>2, <1>3, <1>4, <1>5

-----------------------------------------------------------------------------
(* Type correctness.                                                       *)

\* A handler that is not idle, or whose event the broker holds, has an event.
HoldsEvent ==
    \A h \in Handlers : hpc[h] # "idle" \/ h \in unacked => held[h] \in Event

\* onStageFailed and what follows it concern the stage of a failure event.
HoldsFailure ==
    \A h \in Handlers :
        /\ hpc[h] \in {"onStageFailed", "skipStage", "failRun"}
               => \E s \in Stages : held[h] = StageFailed(s)
        /\ hpc[h] = "skipStage" => held[h].stage \in Optional
        /\ hpc[h] = "failRun" => held[h].stage \notin Optional
        /\ hpc[h] \in {"onVideoQueued", "startRun"} => held[h] = Queued
        /\ hpc[h] = "addJob" => hcur[h] \in Stages

TypeInv == TypeOK /\ HoldsEvent /\ HoldsFailure

\* A run that was just enqueued is type correct, and no handler holds anything.
LEMMA InitType == Init => TypeInv
<1> USE EventFacts
<1> SUFFICES ASSUME Init PROVE TypeInv
  OBVIOUS
<1>1. NoArtifacts \in ArtifactMap
  BY DEF NoArtifacts, ArtifactMap
<1>2. QED
  BY <1>1 DEF Init, TypeInv, TypeOK, HoldsEvent, HoldsFailure, RunStatus,
     VideoStatus,
              HandlerLabel, WorkerLabel

\* A run starts with no artifact.
LEMMA EmptyMap == NoArtifacts \in ArtifactMap /\ completed(NoArtifacts) = {}
  BY DEF NoArtifacts, ArtifactMap, completed

\* Every step of the pipeline keeps TypeOK.
LEMMA NextTypeOK == TypeInv /\ [Next]_vars => TypeOK'
<1> SUFFICES ASSUME TypeOK, HoldsEvent, HoldsFailure, [Next]_vars PROVE TypeOK'
  BY DEF TypeInv
<1> USE DEF TypeOK, HandlerLabel, WorkerLabel, dbVars, bullVars, handlerVars,
   workerVars
<1>1. ASSUME NEW h \in Handlers, NEW e \in Event, Deliver(h, e)
      PROVE  TypeOK'
  <2>1. e.name \in {"video.queued", "pipeline.stage_completed", "pipeline.stage_failed"}
    BY EventFacts
  <2>2. hpc' \in [Handlers -> HandlerLabel]
    BY <1>1, <2>1 DEF Deliver, HandlerGoto
  <2>3. inbox' \in [Event -> Nat]
    BY <1>1, <2>1 DEF Deliver
  <2>4. held' \in [Handlers -> Event \cup {NoEvent}]
    BY <1>1 DEF Deliver
  <2>5. QED
    BY <1>1, <2>2, <2>3, <2>4 DEF Deliver
<1>2. ASSUME NEW h \in Handlers, Ack(h)
      PROVE  TypeOK'
  BY <1>2, EmptyMap DEF Ack, FreeHandler, HandlerGoto
<1>3. ASSUME NEW h \in Handlers, ReadQueued(h)
      PROVE  TypeOK'
  BY <1>3 DEF ReadQueued, HandlerGoto
<1>4. ASSUME NEW h \in Handlers, StartRun(h)
      PROVE  TypeOK'
  BY <1>4 DEF StartRun, HandlerGoto, RunStatus, VideoStatus
<1>5. ASSUME NEW h \in Handlers, ReadCompleted(h)
      PROVE  TypeOK'
  BY <1>5 DEF ReadCompleted, HandlerGoto
<1>6. ASSUME NEW h \in Handlers, CompleteRun(h)
      PROVE  TypeOK'
  BY <1>6 DEF CompleteRun, HandlerGoto, RunStatus
<1>7. ASSUME NEW h \in Handlers, ReadFailed(h)
      PROVE  TypeOK'
  BY <1>7 DEF ReadFailed, HandlerGoto
<1>8. ASSUME NEW h \in Handlers, SkipStage(h)
      PROVE  TypeOK'
  <2>1. held[h].stage \in Stages
    <3>1. PICK s \in Stages : held[h] = StageFailed(s)
      BY <1>8 DEF SkipStage, HoldsFailure
    <3>2. StageFailed(s).stage = s
      BY EventFacts
    <3>3. QED
      BY <3>1, <3>2
  <2>2. artifacts' \in ArtifactMap
    BY <1>8, <2>1, WriteArtifact DEF SkipStage
  <2>3. QED
    BY <1>8, <2>1, <2>2 DEF SkipStage, HandlerGoto
<1>9. ASSUME NEW h \in Handlers, FailRun(h)
      PROVE  TypeOK'
  BY <1>9 DEF FailRun, HandlerGoto, RunStatus, VideoStatus
<1>10. ASSUME NEW h \in Handlers, FindJobs(h)
      PROVE  TypeOK'
  BY <1>10 DEF FindJobs, HandlerGoto, readyStages
<1>11. ASSUME NEW h \in Handlers, NEW s \in Stages, CreateJob(h, s)
      PROVE  TypeOK'
  BY <1>11 DEF CreateJob, HandlerGoto, JobStatus
<1>12. ASSUME NEW h \in Handlers, AddJob(h)
      PROVE  TypeOK'
  BY <1>12 DEF AddJob, HandlerGoto, HoldsFailure
<1>13. ASSUME NEW s \in Stages, TakeJob(s)
      PROVE  TypeOK'
  BY <1>13 DEF TakeJob, WorkerGoto
<1>14. ASSUME NEW s \in Stages, LoadArtifacts(s)
      PROVE  TypeOK'
  BY <1>14 DEF LoadArtifacts, WorkerGoto
<1>15. ASSUME NEW s \in Stages, BodySucceeds(s)
      PROVE  TypeOK'
  BY <1>15 DEF BodySucceeds, WorkerGoto
<1>16. CASE FinalizeVideo
  BY <1>16, DefinitionAssumption DEF FinalizeVideo, WorkerGoto, VideoStatus
<1>17. ASSUME NEW s \in Stages, BodyFails(s)
      PROVE  TypeOK'
  BY <1>17 DEF BodyFails, WorkerGoto
<1>18. ASSUME NEW s \in Stages, SaveRead(s)
      PROVE  TypeOK'
  BY <1>18 DEF SaveRead, WorkerGoto
<1>19. ASSUME NEW s \in Stages, SaveWrite(s)
      PROVE  TypeOK'
  BY <1>19, WriteArtifact DEF SaveWrite, WorkerGoto
<1>20. ASSUME NEW s \in Stages, MarkCompleted(s)
      PROVE  TypeOK'
  BY <1>20, UpdateRows DEF MarkCompleted, WorkerGoto, updateJobs, JobStatus
<1>21. ASSUME NEW s \in Stages, PublishCompleted(s)
      PROVE  TypeOK'
  <2>1. StageCompleted(s) \in Event
    BY EventFacts
  <2>2. QED
    BY <1>21, <2>1 DEF PublishCompleted, WorkerGoto, publish
<1>22. ASSUME NEW s \in Stages, FinishJob(s)
      PROVE  TypeOK'
  BY <1>22, EmptyMap DEF FinishJob, WorkerGoto, LeaveJob
<1>23. ASSUME NEW s \in Stages, CatchError(s)
      PROVE  TypeOK'
  BY <1>23 DEF CatchError, WorkerGoto
<1>24. ASSUME NEW s \in Stages, MarkFailed(s)
      PROVE  TypeOK'
  BY <1>24, UpdateRows DEF MarkFailed, WorkerGoto, updateJobs, JobStatus
<1>25. ASSUME NEW s \in Stages, PublishFailed(s)
      PROVE  TypeOK'
  <2>1. StageFailed(s) \in Event
    BY EventFacts
  <2>2. QED
    BY <1>25, <2>1 DEF PublishFailed, WorkerGoto, publish
<1>26. ASSUME NEW s \in Stages, Rethrow(s)
      PROVE  TypeOK'
  BY <1>26, EmptyMap DEF Rethrow, WorkerGoto, LeaveJob
<1>27. CASE Cancel
  BY <1>27 DEF Cancel, CancelRead, CancelVideo, CancelRuns, RunStatus, VideoStatus
<1>28. ASSUME NEW h \in Handlers, HandlerCrash(h)
      PROVE  TypeOK'
  <2>1. inbox' \in [Event -> Nat]
    BY <1>28 DEF HandlerCrash, Requeue, HoldsEvent
  <2>2. QED
    BY <1>28, <2>1, EmptyMap DEF HandlerCrash, Strike, FreeHandler, HandlerGoto
<1>29. ASSUME NEW h \in Handlers, ConnectionLost(h)
      PROVE  TypeOK'
  <2>1. inbox' \in [Event -> Nat]
    BY <1>29 DEF ConnectionLost, Requeue, HoldsEvent
  <2>2. QED
    BY <1>29, <2>1 DEF ConnectionLost, Strike
<1>30. ASSUME NEW h \in Handlers, HandlerThrow(h)
      PROVE  TypeOK'
  BY <1>30, EmptyMap DEF HandlerThrow, Strike, FreeHandler, HandlerGoto
<1>31. ASSUME NEW s \in Stages, WorkerIoError(s)
      PROVE  TypeOK'
  <2>1. WorkerGoto(s, "catch") \/ WorkerGoto(s, "rethrow")
    BY <1>31, Zenon DEF WorkerIoError
  <2>2. wpc' \in [Stages -> WorkerLabel]
    BY <2>1 DEF WorkerGoto
  <2>3. QED
    BY <1>31, <2>2 DEF WorkerIoError, Strike
<1>32. ASSUME NEW s \in Stages, WorkerCrash(s)
      PROVE  TypeOK'
  BY <1>32, EmptyMap DEF WorkerCrash, Strike, WorkerGoto, LeaveJob
<1>33. CASE UNCHANGED vars
  BY <1>33 DEF vars
<1>34. QED
  BY <1>1, <1>2, <1>3, <1>4, <1>5, <1>6, <1>7, <1>8, <1>9, <1>10, <1>11, <1>12,
     <1>13, <1>14, <1>15, <1>16, <1>17, <1>18, <1>19, <1>20, <1>21, <1>22,
     <1>23, <1>24, <1>25, <1>26, <1>27, <1>28, <1>29, <1>30, <1>31, <1>32, <1>33
     DEF Next, Orchestrator, Worker, Fault

\* Every step keeps each handler holding the event its position calls for.
LEMMA NextHolds == TypeInv /\ [Next]_vars => HoldsEvent' /\ HoldsFailure'
<1> SUFFICES ASSUME TypeOK, HoldsEvent, HoldsFailure, [Next]_vars
             PROVE  HoldsEvent' /\ HoldsFailure'
  BY DEF TypeInv
<1> USE DEF TypeOK, dbVars, bullVars, handlerVars, workerVars
<1> USE DEF HoldsEvent, HoldsFailure
<1>1. ASSUME NEW h \in Handlers, NEW e \in Event, Deliver(h, e)
      PROVE  HoldsEvent' /\ HoldsFailure'
  <2>1. /\ held'[h] = e /\ e \in Event
        /\ \A g \in Handlers \ {h} : hpc'[g] = hpc[g] /\ held'[g] = held[g]
        /\ \A g \in Handlers \ {h} : g \in unacked' <=> g \in unacked
        /\ \A g \in Handlers : hcur'[g] = hcur[g]
    BY <1>1 DEF Deliver, HandlerGoto
  <2>2. CASE e = Queued
    <3>1. e.name = "video.queued"
      BY <2>2, EventFacts
    <3>2. hpc'[h] = "onVideoQueued"
      <4>1. HandlerGoto(h, "onVideoQueued")
        BY <1>1, <3>1 DEF Deliver
      <4>2. QED
        BY <4>1 DEF HandlerGoto
    <3>3. held'[h] \in Event /\ held'[h] = Queued
      BY <2>1, <2>2
    <3>4. HoldsEvent'
      BY <2>1, <3>3
    <3>5. HoldsFailure'
      BY <2>1, <3>2, <3>3
    <3>6. QED
      BY <3>4, <3>5, Zenon
  <2>3. ASSUME NEW s \in Stages, e = StageCompleted(s)
        PROVE  HoldsEvent' /\ HoldsFailure'
    <3>1. e.name = "pipeline.stage_completed"
      BY <2>3, EventFacts
    <3>2. hpc'[h] = "onStageCompleted"
      BY <1>1, <3>1 DEF Deliver, HandlerGoto
    <3>3. QED
      BY <2>1, <3>2
  <2>4. ASSUME NEW s \in Stages, e = StageFailed(s)
        PROVE  HoldsEvent' /\ HoldsFailure'
    <3>1. e.name = "pipeline.stage_failed"
      BY <2>4, EventFacts
    <3>2. hpc'[h] = "onStageFailed"
      <4>1. HandlerGoto(h, "onStageFailed")
        BY <1>1, <3>1 DEF Deliver
      <4>2. QED
        BY <4>1 DEF HandlerGoto
    <3>3. held'[h] \in Event /\ held'[h] = StageFailed(s)
      BY <2>1, <2>4
    <3>4. HoldsEvent'
      BY <2>1, <3>3
    <3>5. HoldsFailure'
      BY <2>1, <3>2, <3>3
    <3>6. QED
      BY <3>4, <3>5, Zenon
  <2>5. e = Queued \/ \E s \in Stages : e = StageCompleted(s) \/ e = StageFailed(s)
    BY EventFacts
  <2>6. QED
    BY <2>2, <2>3, <2>4, <2>5
<1>2. ASSUME NEW h \in Handlers, Ack(h)
      PROVE  HoldsEvent' /\ HoldsFailure'
  BY <1>2 DEF Ack, FreeHandler, HandlerGoto
<1>3. ASSUME NEW h \in Handlers, ReadQueued(h)
      PROVE  HoldsEvent' /\ HoldsFailure'
  BY <1>3 DEF ReadQueued, HandlerGoto
<1>4. ASSUME NEW h \in Handlers, StartRun(h)
      PROVE  HoldsEvent' /\ HoldsFailure'
  BY <1>4 DEF StartRun, HandlerGoto
<1>5. ASSUME NEW h \in Handlers, ReadCompleted(h)
      PROVE  HoldsEvent' /\ HoldsFailure'
  BY <1>5 DEF ReadCompleted, HandlerGoto
<1>6. ASSUME NEW h \in Handlers, CompleteRun(h)
      PROVE  HoldsEvent' /\ HoldsFailure'
  BY <1>6 DEF CompleteRun, HandlerGoto
<1>7. ASSUME NEW h \in Handlers, ReadFailed(h)
      PROVE  HoldsEvent' /\ HoldsFailure'
  BY <1>7 DEF ReadFailed, HandlerGoto
<1>8. ASSUME NEW h \in Handlers, SkipStage(h)
      PROVE  HoldsEvent' /\ HoldsFailure'
  BY <1>8 DEF SkipStage, HandlerGoto
<1>9. ASSUME NEW h \in Handlers, FailRun(h)
      PROVE  HoldsEvent' /\ HoldsFailure'
  BY <1>9 DEF FailRun, HandlerGoto
<1>10. ASSUME NEW h \in Handlers, FindJobs(h)
      PROVE  HoldsEvent' /\ HoldsFailure'
  BY <1>10 DEF FindJobs, HandlerGoto
<1>11. ASSUME NEW h \in Handlers, NEW s \in Stages, CreateJob(h, s)
      PROVE  HoldsEvent' /\ HoldsFailure'
  BY <1>11 DEF CreateJob, HandlerGoto
<1>12. ASSUME NEW h \in Handlers, AddJob(h)
      PROVE  HoldsEvent' /\ HoldsFailure'
  BY <1>12 DEF AddJob, HandlerGoto
<1>13. ASSUME NEW s \in Stages, TakeJob(s)
      PROVE  HoldsEvent' /\ HoldsFailure'
  BY <1>13 DEF TakeJob, WorkerGoto
<1>14. ASSUME NEW s \in Stages, LoadArtifacts(s)
      PROVE  HoldsEvent' /\ HoldsFailure'
  BY <1>14 DEF LoadArtifacts, WorkerGoto
<1>15. ASSUME NEW s \in Stages, BodySucceeds(s)
      PROVE  HoldsEvent' /\ HoldsFailure'
  BY <1>15 DEF BodySucceeds, WorkerGoto
<1>16. CASE FinalizeVideo
  BY <1>16 DEF FinalizeVideo, WorkerGoto
<1>17. ASSUME NEW s \in Stages, BodyFails(s)
      PROVE  HoldsEvent' /\ HoldsFailure'
  BY <1>17 DEF BodyFails, WorkerGoto
<1>18. ASSUME NEW s \in Stages, SaveRead(s)
      PROVE  HoldsEvent' /\ HoldsFailure'
  BY <1>18 DEF SaveRead, WorkerGoto
<1>19. ASSUME NEW s \in Stages, SaveWrite(s)
      PROVE  HoldsEvent' /\ HoldsFailure'
  BY <1>19 DEF SaveWrite, WorkerGoto
<1>20. ASSUME NEW s \in Stages, MarkCompleted(s)
      PROVE  HoldsEvent' /\ HoldsFailure'
  BY <1>20 DEF MarkCompleted, WorkerGoto, updateJobs
<1>21. ASSUME NEW s \in Stages, PublishCompleted(s)
      PROVE  HoldsEvent' /\ HoldsFailure'
  BY <1>21 DEF PublishCompleted, WorkerGoto, publish
<1>22. ASSUME NEW s \in Stages, FinishJob(s)
      PROVE  HoldsEvent' /\ HoldsFailure'
  BY <1>22 DEF FinishJob, WorkerGoto, LeaveJob
<1>23. ASSUME NEW s \in Stages, CatchError(s)
      PROVE  HoldsEvent' /\ HoldsFailure'
  BY <1>23 DEF CatchError, WorkerGoto
<1>24. ASSUME NEW s \in Stages, MarkFailed(s)
      PROVE  HoldsEvent' /\ HoldsFailure'
  BY <1>24 DEF MarkFailed, WorkerGoto, updateJobs
<1>25. ASSUME NEW s \in Stages, PublishFailed(s)
      PROVE  HoldsEvent' /\ HoldsFailure'
  BY <1>25 DEF PublishFailed, WorkerGoto, publish
<1>26. ASSUME NEW s \in Stages, Rethrow(s)
      PROVE  HoldsEvent' /\ HoldsFailure'
  BY <1>26 DEF Rethrow, WorkerGoto, LeaveJob
<1>27. CASE Cancel
  BY <1>27 DEF Cancel, CancelRead, CancelVideo, CancelRuns
<1>28. ASSUME NEW h \in Handlers, HandlerCrash(h)
      PROVE  HoldsEvent' /\ HoldsFailure'
  BY <1>28 DEF HandlerCrash, Strike, Requeue, FreeHandler, HandlerGoto
<1>29. ASSUME NEW h \in Handlers, ConnectionLost(h)
      PROVE  HoldsEvent' /\ HoldsFailure'
  BY <1>29 DEF ConnectionLost, Strike, Requeue
<1>30. ASSUME NEW h \in Handlers, HandlerThrow(h)
      PROVE  HoldsEvent' /\ HoldsFailure'
  BY <1>30 DEF HandlerThrow, Strike, FreeHandler, HandlerGoto
<1>31. ASSUME NEW s \in Stages, WorkerIoError(s)
      PROVE  HoldsEvent' /\ HoldsFailure'
  BY <1>31 DEF WorkerIoError, Strike, WorkerGoto
<1>32. ASSUME NEW s \in Stages, WorkerCrash(s)
      PROVE  HoldsEvent' /\ HoldsFailure'
  BY <1>32 DEF WorkerCrash, Strike, WorkerGoto, LeaveJob
<1>33. CASE UNCHANGED vars
  BY <1>33 DEF vars
<1>34. QED
  BY <1>1, <1>2, <1>3, <1>4, <1>5, <1>6, <1>7, <1>8, <1>9, <1>10, <1>11, <1>12,
     <1>13, <1>14, <1>15, <1>16, <1>17, <1>18, <1>19, <1>20, <1>21, <1>22,
     <1>23, <1>24, <1>25, <1>26, <1>27, <1>28, <1>29, <1>30, <1>31, <1>32, <1>33
     DEF Next, Orchestrator, Worker, Fault

\* PipelineRun is type correct, and each handler holds the event that its
\* position in the orchestrator's code calls for.
THEOREM TypeCorrect == Spec => []TypeInv
<1>1. TypeInv /\ [Next]_vars => TypeInv'
  BY NextTypeOK, NextHolds DEF TypeInv
<1>2. QED
  BY InitType, <1>1, PTL DEF Spec

\* The type invariant of the runs.
COROLLARY TypeOKHolds == Spec => []TypeOK
<1>1. TypeInv => TypeOK
  BY DEF TypeInv
<1>2. QED
  BY <1>1, TypeCorrect, PTL

-----------------------------------------------------------------------------
(* The inductive invariant.                                                *)

\* Whatever a row holds or a process has read was recorded.
RecordedInv ==
    \A t \in Stages :
        /\ artifacts[t] # "absent" => t \in recorded
        /\ \A h \in Handlers : hsnap[h][t] # "absent" => t \in recorded
        /\ \A s \in Stages : wsnap[s][t] # "absent" => t \in recorded

\* A stage a handler found ready, or has given a Job row, had its dependencies
\* recorded; a BullMQ job has a row; a worker only runs an active job.
OrderInv ==
    /\ \A h \in Handlers : \A s \in htodo[h] : DependsOn[s] \subseteq recorded
    /\ \A h \in Handlers : hcur[h] # NoStage => jobs[hcur[h]] # <<>>
    /\ \A s \in Stages :
          /\ jobs[s] # <<>> => DependsOn[s] \subseteq recorded
          /\ bull[s] # "absent" => jobs[s] # <<>>
          /\ wpc[s] # "idle" => bull[s] = "active"

\* finalize has billed before its artifact is written, and a handler closes a
\* run only if it saw all artifacts.
CompleteInv ==
    /\ Finalize \in recorded => usage > 0
    /\ wpc[Finalize] \in {"saveRead", "saveWrite"} => usage > 0
    /\ \A h \in Handlers : hpc[h] = "completeRun" => recorded = Stages
    /\ runStatus = "completed" => recorded = Stages

\* The stage was handed out and has no attempt left.
GivenUp(s) == jobs[s] # <<>> /\ exhausted(s)

\* A failure is reported, delivered and acted upon only for a stage given up.
GiveUpInv ==
    /\ \A s \in Stages :
          /\ wpc[s] \in {"markFailed", "publishFailed"} => GivenUp(s)
          /\ inbox[StageFailed(s)] > 0 => GivenUp(s)
          /\ \A h \in Handlers : held[h] = StageFailed(s) => GivenUp(s)
    /\ runStatus = "failed" => \E s \in Stages \ Optional : exhausted(s)

\* Only an optional stage that was given up is marked skipped.
SkippedInv ==
    \A t \in Stages :
        /\ artifacts[t] = "skipped" => t \in Optional /\ exhausted(t)
        /\ \A h \in Handlers : hsnap[h][t] = "skipped" => t \in Optional /\ exhausted(t)
        /\ \A s \in Stages : wsnap[s][t] = "skipped" => t \in Optional /\ exhausted(t)

\* Unless a connection may be lost, there is one video.queued event, in the
\* queue or in one slot.
TokenInv ==
    "connectionLost" \notin FaultKinds
        => /\ \A h \in Handlers : hpc[h] = "idle" => held[h] = NoEvent
           /\ inbox[Queued] \in {0, 1}
           /\ \A h \in Handlers : held[h] = Queued => inbox[Queued] = 0
           /\ \A g, h \in Handlers : held[g] = Queued /\ held[h] = Queued => g = h

\* No stage was handed out and no handler works on the run.
Untouched ==
    /\ \A s \in Stages : jobs[s] = <<>>
    /\ \A h \in Handlers : hpc[h] \in {"idle", "onVideoQueued", "startRun",
                                       "onStageCompleted", "onStageFailed", "ack"}

\* Until the run is started it is untouched.
FreshInv ==
    /\ runStatus = "pending" => Untouched
    /\ "connectionLost" \notin FaultKinds /\ (\E h \in Handlers : hpc[h] = "startRun")
           => Untouched /\ runStatus \in {"pending", "cancelled"}

\* No stage has an artifact in the row of a new run.
LEMMA EmptyEntry == \A t \in Stages : NoArtifacts[t] = "absent"
  BY DEF NoArtifacts

\* Creating a Job row leaves the stage with at least one.
LEMMA AppendRow ==
    ASSUME NEW rows \in Seq(JobStatus)
    PROVE  Append(rows, "queued") # <<>>
<1>1. Len(Append(rows, "queued")) = Len(rows) + 1 /\ Len(rows) \in Nat
  OBVIOUS
<1>2. QED
  BY <1>1

\* A failure event names one stage, and no slot holds it by being free.
LEMMA FailureEvents ==
    /\ \A s \in Stages : StageFailed(s).stage = s /\ StageFailed(s) # NoEvent
    /\ \A s, t \in Stages : StageFailed(s) = StageFailed(t) => s = t
<1>1. \A s \in Stages : /\ StageFailed(s).stage = s
                         /\ StageFailed(s).name = "pipeline.stage_failed"
  BY DEF StageFailed
<1>2. NoEvent.name = "none"
  BY DEF NoEvent
<1>3. \A s, t \in Stages : StageFailed(s) = StageFailed(t) => s = t
  <2>1. TAKE s, t \in Stages
  <2>2. HAVE StageFailed(s) = StageFailed(t)
  <2>3. StageFailed(s).stage = StageFailed(t).stage
    BY <2>2
  <2>4. QED
    BY <1>1, <2>3
<1>4. \A s \in Stages : StageFailed(s) # NoEvent
  BY <1>1, <1>2
<1>5. QED
  BY <1>1, <1>3, <1>4

\* RecordedInv is kept: writes add to recorded, reads copy a row.
LEMMA NextRecorded == TypeInv /\ RecordedInv /\ [Next]_vars => RecordedInv'
<1> SUFFICES ASSUME TypeOK, HoldsEvent, HoldsFailure, RecordedInv, [Next]_vars
             PROVE  RecordedInv'
  BY DEF TypeInv
<1> USE DEF TypeOK, ArtifactMap, RecordedInv, dbVars, bullVars, handlerVars,
   workerVars
<1>1. ASSUME NEW h \in Handlers, Ack(h)
      PROVE  RecordedInv'
  BY <1>1, EmptyEntry DEF Ack, FreeHandler, HandlerGoto
<1>2. ASSUME NEW h \in Handlers, ReadCompleted(h)
      PROVE  RecordedInv'
  BY <1>2 DEF ReadCompleted, HandlerGoto
<1>3. ASSUME NEW h \in Handlers, ReadFailed(h)
      PROVE  RecordedInv'
  BY <1>3 DEF ReadFailed, HandlerGoto
<1>4. ASSUME NEW h \in Handlers, SkipStage(h)
      PROVE  RecordedInv'
  BY <1>4 DEF SkipStage, HandlerGoto
<1>5. ASSUME NEW s \in Stages, LoadArtifacts(s)
      PROVE  RecordedInv'
  BY <1>5 DEF LoadArtifacts, WorkerGoto
<1>6. ASSUME NEW s \in Stages, SaveRead(s)
      PROVE  RecordedInv'
  BY <1>6 DEF SaveRead, WorkerGoto
<1>7. ASSUME NEW s \in Stages, SaveWrite(s)
      PROVE  RecordedInv'
  BY <1>7 DEF SaveWrite, WorkerGoto
<1>8. ASSUME NEW s \in Stages, FinishJob(s)
      PROVE  RecordedInv'
  BY <1>8, EmptyEntry DEF FinishJob, WorkerGoto, LeaveJob
<1>9. ASSUME NEW s \in Stages, Rethrow(s)
      PROVE  RecordedInv'
  BY <1>9, EmptyEntry DEF Rethrow, WorkerGoto, LeaveJob
<1>10. ASSUME NEW h \in Handlers, HandlerCrash(h)
      PROVE  RecordedInv'
  BY <1>10, EmptyEntry DEF HandlerCrash, Strike, Requeue, FreeHandler, HandlerGoto
<1>11. ASSUME NEW h \in Handlers, HandlerThrow(h)
      PROVE  RecordedInv'
  BY <1>11, EmptyEntry DEF HandlerThrow, Strike, FreeHandler, HandlerGoto
<1>12. ASSUME NEW s \in Stages, WorkerCrash(s)
      PROVE  RecordedInv'
  BY <1>12, EmptyEntry DEF WorkerCrash, Strike, WorkerGoto, LeaveJob
<1>13. CASE UNCHANGED <<artifacts, hsnap, wsnap, recorded>>
  BY <1>13
<1>14. QED
  BY <1>1, <1>2, <1>3, <1>4, <1>5, <1>6, <1>7, <1>8, <1>9, <1>10, <1>11, <1>12,
     <1>13
     DEF Next, Orchestrator, Worker, Fault, vars, Deliver,
         HandlerGoto, ReadQueued, StartRun, CompleteRun, FailRun,
         FindJobs, CreateJob, AddJob, TakeJob, WorkerGoto,
         BodySucceeds, FinalizeVideo, BodyFails, MarkCompleted,
         updateJobs, PublishCompleted, publish, CatchError,
         MarkFailed, PublishFailed, Cancel, CancelRead, CancelVideo,
         CancelRuns, ConnectionLost, Strike, Requeue, WorkerIoError

\* OrderInv is kept.  A handler finds a stage ready from the row it read, all
\* of which was recorded; that the row may be stale only makes it more cautious.
LEMMA NextOrder == TypeInv /\ RecordedInv /\ OrderInv /\ [Next]_vars => OrderInv'
<1> SUFFICES ASSUME TypeOK, HoldsEvent, HoldsFailure, RecordedInv, OrderInv,
                    [Next]_vars
             PROVE  OrderInv'
  BY DEF TypeInv
<1> USE DEF TypeOK, OrderInv, dbVars, bullVars, handlerVars, workerVars
<1>1. ASSUME NEW h \in Handlers, Ack(h)
      PROVE  OrderInv'
  BY <1>1 DEF Ack, FreeHandler, HandlerGoto
<1>2. ASSUME NEW h \in Handlers, SkipStage(h)
      PROVE  OrderInv'
  BY <1>2 DEF SkipStage, HandlerGoto
<1>3. ASSUME NEW h \in Handlers, FindJobs(h)
      PROVE  OrderInv'
  <2>1. ASSUME NEW s \in readyStages(completed(hsnap[h]), started)
        PROVE  DependsOn[s] \subseteq recorded
    BY <2>1, DefinitionAssumption DEF readyStages, completed, RecordedInv
  <2>2. QED
    BY <1>3, <2>1 DEF FindJobs, HandlerGoto
<1>4. ASSUME NEW h \in Handlers, NEW s \in Stages, CreateJob(h, s)
      PROVE  OrderInv'
  <2>1. /\ jobs'[s] # <<>>
        /\ \A t \in Stages \ {s} : jobs'[t] = jobs[t]
    BY <1>4, AppendRow DEF CreateJob
  <2>2. DependsOn[s] \subseteq recorded
    BY <1>4 DEF CreateJob
  <2>3. QED
    BY <1>4, <2>1, <2>2 DEF CreateJob
<1>5. ASSUME NEW h \in Handlers, AddJob(h)
      PROVE  OrderInv'
  <2>1. hcur[h] \in Stages /\ hcur[h] # NoStage
    BY <1>5, RunAssumption DEF AddJob, HoldsFailure
  <2>2. jobs[hcur[h]] # <<>>
    BY <2>1
  <2>3. QED
    BY <1>5, <2>1, <2>2 DEF AddJob
<1>6. ASSUME NEW s \in Stages, TakeJob(s)
      PROVE  OrderInv'
  BY <1>6 DEF TakeJob, WorkerGoto
<1>7. ASSUME NEW s \in Stages, LoadArtifacts(s)
      PROVE  OrderInv'
  BY <1>7 DEF LoadArtifacts, WorkerGoto
<1>8. ASSUME NEW s \in Stages, BodySucceeds(s)
      PROVE  OrderInv'
  BY <1>8 DEF BodySucceeds, WorkerGoto
<1>9. CASE FinalizeVideo
  BY <1>9 DEF FinalizeVideo, WorkerGoto
<1>10. ASSUME NEW s \in Stages, BodyFails(s)
      PROVE  OrderInv'
  BY <1>10 DEF BodyFails, WorkerGoto
<1>11. ASSUME NEW s \in Stages, SaveRead(s)
      PROVE  OrderInv'
  BY <1>11 DEF SaveRead, WorkerGoto
<1>12. ASSUME NEW s \in Stages, SaveWrite(s)
      PROVE  OrderInv'
  BY <1>12 DEF SaveWrite, WorkerGoto
<1>13. ASSUME NEW s \in Stages, MarkCompleted(s)
      PROVE  OrderInv'
  <2>1. jobs'[s] = <<>> <=> jobs[s] = <<>>
    BY <1>13, UpdateRows DEF MarkCompleted, updateJobs, JobStatus
  <2>2. \A t \in Stages : jobs'[t] = <<>> <=> jobs[t] = <<>>
    BY <1>13, <2>1 DEF MarkCompleted, updateJobs
  <2>3. QED
    BY <1>13, <2>2 DEF MarkCompleted, WorkerGoto
<1>14. ASSUME NEW s \in Stages, PublishCompleted(s)
      PROVE  OrderInv'
  BY <1>14 DEF PublishCompleted, WorkerGoto, publish
<1>15. ASSUME NEW s \in Stages, FinishJob(s)
      PROVE  OrderInv'
  BY <1>15 DEF FinishJob, WorkerGoto, LeaveJob
<1>16. ASSUME NEW s \in Stages, CatchError(s)
      PROVE  OrderInv'
  BY <1>16 DEF CatchError, WorkerGoto
<1>17. ASSUME NEW s \in Stages, MarkFailed(s)
      PROVE  OrderInv'
  <2>1. jobs'[s] = <<>> <=> jobs[s] = <<>>
    BY <1>17, UpdateRows DEF MarkFailed, updateJobs, JobStatus
  <2>2. \A t \in Stages : jobs'[t] = <<>> <=> jobs[t] = <<>>
    BY <1>17, <2>1 DEF MarkFailed, updateJobs
  <2>3. QED
    BY <1>17, <2>2 DEF MarkFailed, WorkerGoto
<1>18. ASSUME NEW s \in Stages, PublishFailed(s)
      PROVE  OrderInv'
  BY <1>18 DEF PublishFailed, WorkerGoto, publish
<1>19. ASSUME NEW s \in Stages, Rethrow(s)
      PROVE  OrderInv'
  BY <1>19 DEF Rethrow, WorkerGoto, LeaveJob
<1>20. ASSUME NEW h \in Handlers, HandlerCrash(h)
      PROVE  OrderInv'
  BY <1>20 DEF HandlerCrash, Strike, Requeue, FreeHandler, HandlerGoto
<1>21. ASSUME NEW h \in Handlers, HandlerThrow(h)
      PROVE  OrderInv'
  BY <1>21 DEF HandlerThrow, Strike, FreeHandler, HandlerGoto
<1>22. ASSUME NEW s \in Stages, WorkerIoError(s)
      PROVE  OrderInv'
  BY <1>22 DEF WorkerIoError, Strike, WorkerGoto
<1>23. ASSUME NEW s \in Stages, WorkerCrash(s)
      PROVE  OrderInv'
  BY <1>23 DEF WorkerCrash, Strike, WorkerGoto, LeaveJob
<1>24. CASE UNCHANGED <<htodo, hcur, jobs, bull, wpc, recorded>>
  BY <1>24
<1>25. QED
  BY <1>1, <1>2, <1>3, <1>4, <1>5, <1>6, <1>7, <1>8, <1>9, <1>10, <1>11, <1>12,
     <1>13, <1>14, <1>15, <1>16, <1>17, <1>18, <1>19, <1>20, <1>21, <1>22,
     <1>23, <1>24
     DEF Next, Orchestrator, Worker, Fault, vars, Deliver,
         HandlerGoto, ReadQueued, StartRun, ReadCompleted,
         CompleteRun, ReadFailed, FailRun, Cancel, CancelRead,
         CancelVideo, CancelRuns, ConnectionLost, Strike, Requeue

\* CompleteInv is kept.  Nothing is ever removed from recorded, so what a
\* handler concluded from the row it read stays true while it waits.
LEMMA NextComplete ==
    TypeInv /\ RecordedInv /\ CompleteInv /\ [Next]_vars
        => CompleteInv'
<1> SUFFICES ASSUME TypeOK, HoldsEvent, HoldsFailure, RecordedInv, CompleteInv,
                    [Next]_vars
             PROVE  CompleteInv'
  BY DEF TypeInv
<1> USE DEF TypeOK, CompleteInv, dbVars, bullVars, handlerVars, workerVars
<1>1. ASSUME NEW h \in Handlers, NEW e \in Event, Deliver(h, e)
      PROVE  CompleteInv'
  <2>1. hpc'[h] \in {"onVideoQueued", "onStageCompleted", "onStageFailed"}
    <3>1. e.name \in {"video.queued", "pipeline.stage_completed", "pipeline.stage_failed"}
      BY EventFacts
    <3>2. QED
      BY <1>1, <3>1 DEF Deliver, HandlerGoto
  <2>2. \A g \in Handlers \ {h} : hpc'[g] = hpc[g]
    BY <1>1 DEF Deliver, HandlerGoto
  <2>3. QED
    BY <1>1, <2>1, <2>2 DEF Deliver
<1>2. ASSUME NEW h \in Handlers, Ack(h)
      PROVE  CompleteInv'
  BY <1>2 DEF Ack, FreeHandler, HandlerGoto
<1>3. ASSUME NEW h \in Handlers, ReadQueued(h)
      PROVE  CompleteInv'
  BY <1>3 DEF ReadQueued, HandlerGoto
<1>4. ASSUME NEW h \in Handlers, StartRun(h)
      PROVE  CompleteInv'
  BY <1>4 DEF StartRun, HandlerGoto
<1>5. ASSUME NEW h \in Handlers, ReadCompleted(h)
      PROVE  CompleteInv'
  <2>1. completed(artifacts) = Stages => recorded = Stages
    BY DEF completed, RecordedInv
  <2>2. QED
    BY <1>5, <2>1 DEF ReadCompleted, HandlerGoto
<1>6. ASSUME NEW h \in Handlers, CompleteRun(h)
      PROVE  CompleteInv'
  BY <1>6 DEF CompleteRun, HandlerGoto
<1>7. ASSUME NEW h \in Handlers, ReadFailed(h)
      PROVE  CompleteInv'
  BY <1>7 DEF ReadFailed, HandlerGoto
<1>8. ASSUME NEW h \in Handlers, SkipStage(h)
      PROVE  CompleteInv'
  <2>1. held[h].stage # Finalize /\ held[h].stage \in Stages
    BY <1>8, DefinitionAssumption DEF SkipStage, HoldsFailure
  <2>2. recorded = Stages => recorded' = Stages
    BY <1>8, <2>1 DEF SkipStage
  <2>3. QED
    BY <1>8, <2>1, <2>2 DEF SkipStage, HandlerGoto
<1>9. ASSUME NEW h \in Handlers, FailRun(h)
      PROVE  CompleteInv'
  BY <1>9 DEF FailRun, HandlerGoto
<1>10. ASSUME NEW h \in Handlers, FindJobs(h)
      PROVE  CompleteInv'
  BY <1>10 DEF FindJobs, HandlerGoto
<1>11. ASSUME NEW h \in Handlers, NEW s \in Stages, CreateJob(h, s)
      PROVE  CompleteInv'
  BY <1>11 DEF CreateJob, HandlerGoto
<1>12. ASSUME NEW h \in Handlers, AddJob(h)
      PROVE  CompleteInv'
  BY <1>12 DEF AddJob, HandlerGoto
<1>13. ASSUME NEW s \in Stages, TakeJob(s)
      PROVE  CompleteInv'
  BY <1>13 DEF TakeJob, WorkerGoto
<1>14. ASSUME NEW s \in Stages, LoadArtifacts(s)
      PROVE  CompleteInv'
  BY <1>14 DEF LoadArtifacts, WorkerGoto
<1>15. ASSUME NEW s \in Stages, BodySucceeds(s)
      PROVE  CompleteInv'
  BY <1>15 DEF BodySucceeds, WorkerGoto
<1>16. CASE FinalizeVideo
  BY <1>16, DefinitionAssumption DEF FinalizeVideo, WorkerGoto
<1>17. ASSUME NEW s \in Stages, BodyFails(s)
      PROVE  CompleteInv'
  BY <1>17 DEF BodyFails, WorkerGoto
<1>18. ASSUME NEW s \in Stages, SaveRead(s)
      PROVE  CompleteInv'
  BY <1>18 DEF SaveRead, WorkerGoto
<1>19. ASSUME NEW s \in Stages, SaveWrite(s)
      PROVE  CompleteInv'
  <2>1. recorded = Stages => recorded' = Stages
    BY <1>19 DEF SaveWrite
  <2>2. QED
    BY <1>19, <2>1 DEF SaveWrite, WorkerGoto
<1>20. ASSUME NEW s \in Stages, MarkCompleted(s)
      PROVE  CompleteInv'
  BY <1>20 DEF MarkCompleted, WorkerGoto, updateJobs
<1>21. ASSUME NEW s \in Stages, PublishCompleted(s)
      PROVE  CompleteInv'
  BY <1>21 DEF PublishCompleted, WorkerGoto, publish
<1>22. ASSUME NEW s \in Stages, FinishJob(s)
      PROVE  CompleteInv'
  BY <1>22 DEF FinishJob, WorkerGoto, LeaveJob
<1>23. ASSUME NEW s \in Stages, CatchError(s)
      PROVE  CompleteInv'
  BY <1>23 DEF CatchError, WorkerGoto
<1>24. ASSUME NEW s \in Stages, MarkFailed(s)
      PROVE  CompleteInv'
  BY <1>24 DEF MarkFailed, WorkerGoto, updateJobs
<1>25. ASSUME NEW s \in Stages, PublishFailed(s)
      PROVE  CompleteInv'
  BY <1>25 DEF PublishFailed, WorkerGoto, publish
<1>26. ASSUME NEW s \in Stages, Rethrow(s)
      PROVE  CompleteInv'
  BY <1>26 DEF Rethrow, WorkerGoto, LeaveJob
<1>27. CASE Cancel
  BY <1>27 DEF Cancel, CancelRead, CancelVideo, CancelRuns
<1>28. ASSUME NEW h \in Handlers, HandlerCrash(h)
      PROVE  CompleteInv'
  BY <1>28 DEF HandlerCrash, Strike, Requeue, FreeHandler, HandlerGoto
<1>29. ASSUME NEW h \in Handlers, HandlerThrow(h)
      PROVE  CompleteInv'
  BY <1>29 DEF HandlerThrow, Strike, FreeHandler, HandlerGoto
<1>30. ASSUME NEW s \in Stages, WorkerIoError(s)
      PROVE  CompleteInv'
  <2>1. /\ wpc'[s] \in {"catch", "rethrow"}
        /\ \A t \in Stages \ {s} : wpc'[t] = wpc[t]
    BY <1>30 DEF WorkerIoError, WorkerGoto
  <2>2. QED
    BY <1>30, <2>1, DefinitionAssumption DEF WorkerIoError
<1>31. ASSUME NEW s \in Stages, WorkerCrash(s)
      PROVE  CompleteInv'
  BY <1>31 DEF WorkerCrash, Strike, WorkerGoto, LeaveJob
<1>32. CASE UNCHANGED <<hpc, wpc, runStatus, recorded, usage>>
  BY <1>32
<1>33. QED
  BY <1>1, <1>2, <1>3, <1>4, <1>5, <1>6, <1>7, <1>8, <1>9, <1>10, <1>11, <1>12,
     <1>13, <1>14, <1>15, <1>16, <1>17, <1>18, <1>19, <1>20, <1>21, <1>22,
     <1>23, <1>24, <1>25, <1>26, <1>27, <1>28, <1>29, <1>30, <1>31, <1>32
     DEF Next, Orchestrator, Worker, Fault, vars, ConnectionLost,
         Strike, Requeue

\* Attempts are only ever added.
LEMMA AttemptsGrow ==
    TypeInv /\ [Next]_vars
        => \A t \in Stages : attemptsMade'[t] >= attemptsMade[t]
<1> SUFFICES ASSUME TypeOK, HoldsEvent, HoldsFailure, [Next]_vars
             PROVE  \A t \in Stages : attemptsMade'[t] >= attemptsMade[t]
  BY DEF TypeInv
<1> USE DEF TypeOK, dbVars, bullVars, handlerVars, workerVars
<1>1. ASSUME NEW s \in Stages, Rethrow(s)
      PROVE  \A t \in Stages : attemptsMade'[t] >= attemptsMade[t]
  BY <1>1 DEF Rethrow, WorkerGoto, LeaveJob
<1>2. ASSUME NEW h \in Handlers, Orchestrator(h)
      PROVE  attemptsMade' = attemptsMade
  BY <1>2
     DEF Orchestrator, Deliver, Ack, ReadQueued, StartRun, ReadCompleted, CompleteRun,
         ReadFailed, SkipStage, FailRun, FindJobs, CreateJob, AddJob
<1>3. ASSUME NEW s \in Stages, Worker(s), ~Rethrow(s)
      PROVE  attemptsMade' = attemptsMade
  BY <1>3
     DEF Worker, TakeJob, LoadArtifacts, BodySucceeds, FinalizeVideo, BodyFails, SaveRead,
         SaveWrite, MarkCompleted, PublishCompleted, FinishJob, CatchError, MarkFailed,
         PublishFailed
<1>4. ASSUME Cancel \/ Fault
      PROVE  attemptsMade' = attemptsMade
  BY <1>4
     DEF Cancel, CancelRead, CancelVideo, CancelRuns, Fault, HandlerCrash, ConnectionLost,
         HandlerThrow, WorkerIoError, WorkerCrash
<1>5. CASE attemptsMade' = attemptsMade
  BY <1>5
<1>6. QED
  BY <1>1, <1>2, <1>3, <1>4, <1>5 DEF Next, vars

\* A Job row is never removed.
LEMMA RowsStay ==
    TypeInv /\ [Next]_vars => \A t \in Stages : jobs[t] # <<>>
        => jobs'[t] # <<>>
<1> SUFFICES ASSUME TypeOK, HoldsEvent, HoldsFailure, [Next]_vars
             PROVE  \A t \in Stages : jobs[t] # <<>> => jobs'[t] # <<>>
  BY DEF TypeInv
<1> USE DEF TypeOK, dbVars, bullVars, handlerVars, workerVars
<1>1. ASSUME NEW h \in Handlers, NEW s \in Stages, CreateJob(h, s)
      PROVE  \A t \in Stages : jobs[t] # <<>> => jobs'[t] # <<>>
  <2>1. jobs'[s] # <<>>
    BY <1>1, AppendRow DEF CreateJob
  <2>2. QED
    BY <1>1, <2>1 DEF CreateJob
<1>2. ASSUME NEW s \in Stages, MarkCompleted(s)
      PROVE  \A t \in Stages : jobs[t] # <<>> => jobs'[t] # <<>>
  <2>1. jobs'[s] = <<>> <=> jobs[s] = <<>>
    BY <1>2, UpdateRows DEF MarkCompleted, updateJobs, JobStatus
  <2>2. QED
    BY <1>2, <2>1 DEF MarkCompleted, updateJobs
<1>3. ASSUME NEW s \in Stages, MarkFailed(s)
      PROVE  \A t \in Stages : jobs[t] # <<>> => jobs'[t] # <<>>
  <2>1. jobs'[s] = <<>> <=> jobs[s] = <<>>
    BY <1>3, UpdateRows DEF MarkFailed, updateJobs, JobStatus
  <2>2. QED
    BY <1>3, <2>1 DEF MarkFailed, updateJobs
<1>4. ASSUME NEW h \in Handlers, Orchestrator(h), ~\E s \in Stages : CreateJob(h, s)
      PROVE  jobs' = jobs
  BY <1>4
     DEF Orchestrator, Deliver, Ack, ReadQueued, StartRun, ReadCompleted, CompleteRun,
         ReadFailed, SkipStage, FailRun, FindJobs, AddJob
<1>5. ASSUME NEW s \in Stages, Worker(s), ~MarkCompleted(s), ~MarkFailed(s)
      PROVE  jobs' = jobs
  BY <1>5
     DEF Worker, TakeJob, LoadArtifacts, BodySucceeds, FinalizeVideo, BodyFails, SaveRead,
         SaveWrite, PublishCompleted, FinishJob, CatchError, PublishFailed, Rethrow
<1>6. ASSUME Cancel \/ Fault
      PROVE  jobs' = jobs
  BY <1>6
     DEF Cancel, CancelRead, CancelVideo, CancelRuns, Fault, HandlerCrash, ConnectionLost,
         HandlerThrow, WorkerIoError, WorkerCrash
<1>7. CASE jobs' = jobs
  BY <1>7
<1>8. QED
  BY <1>1, <1>2, <1>3, <1>4, <1>5, <1>6, <1>7 DEF Next, vars

\* What was given up stays given up.
LEMMA GivenUpStays ==
    TypeInv /\ [Next]_vars
        => \A t \in Stages : /\ exhausted(t) => exhausted(t)'
                             /\ GivenUp(t) => GivenUp(t)'
<1> SUFFICES ASSUME TypeInv, [Next]_vars, NEW t \in Stages
             PROVE  /\ exhausted(t) => exhausted(t)'
                    /\ GivenUp(t) => GivenUp(t)'
  OBVIOUS
<1>1. MaxAttempts[t] \in Nat
  BY DefinitionAssumption
<1>2. attemptsMade[t] \in Nat /\ attemptsMade'[t] \in Nat
  BY NextTypeOK DEF TypeInv, TypeOK
<1>3. exhausted(t) => exhausted(t)'
  BY <1>1, <1>2, AttemptsGrow DEF exhausted
<1>4. QED
  BY <1>3, RowsStay DEF GivenUp

\* GiveUpInv is kept: catch reports a failure only on the last attempt, and the
\* count of attempts never goes down.
LEMMA NextGiveUp == TypeInv /\ OrderInv /\ GiveUpInv /\ [Next]_vars => GiveUpInv'
<1> SUFFICES ASSUME TypeOK, HoldsEvent, HoldsFailure, OrderInv, GiveUpInv,
                    [Next]_vars
             PROVE  GiveUpInv'
  BY DEF TypeInv
<1> USE DEF TypeOK, GiveUpInv, dbVars, bullVars, handlerVars, workerVars
<1>1. \A t \in Stages : /\ exhausted(t) => exhausted(t)'
                        /\ GivenUp(t) => GivenUp(t)'
  BY GivenUpStays DEF TypeInv
<1>2. ASSUME NEW h \in Handlers, NEW e \in Event, Deliver(h, e)
      PROVE  GiveUpInv'
  <2>1. \A t \in Stages : inbox'[StageFailed(t)] > 0 => inbox[StageFailed(t)] > 0
    BY <1>2, EventFacts DEF Deliver
  <2>2. \A g \in Handlers \ {h} : held'[g] = held[g]
    BY <1>2 DEF Deliver
  <2>3. held'[h] = e /\ inbox[e] > 0
    BY <1>2 DEF Deliver
  <2>4. QED
    BY <1>2, <1>1, <2>1, <2>2, <2>3 DEF Deliver
<1>3. ASSUME NEW h \in Handlers, Ack(h)
      PROVE  GiveUpInv'
  BY <1>3, <1>1, FailureEvents DEF Ack, FreeHandler, HandlerGoto
<1>4. ASSUME NEW h \in Handlers, StartRun(h)
      PROVE  GiveUpInv'
  BY <1>4, <1>1 DEF StartRun, HandlerGoto
<1>5. ASSUME NEW h \in Handlers, CompleteRun(h)
      PROVE  GiveUpInv'
  BY <1>5, <1>1 DEF CompleteRun, HandlerGoto
<1>6. ASSUME NEW h \in Handlers, FailRun(h)
      PROVE  GiveUpInv'
  <2>1. PICK s \in Stages : held[h] = StageFailed(s)
    BY <1>6 DEF FailRun, HoldsFailure
  <2>2. s \notin Optional
    BY <1>6, <2>1, FailureEvents DEF FailRun, HoldsFailure
  <2>3. exhausted(s)
    BY <2>1 DEF GivenUp
  <2>4. QED
    BY <1>6, <1>1, <2>2, <2>3 DEF FailRun
<1>7. ASSUME NEW s \in Stages, TakeJob(s)
      PROVE  GiveUpInv'
  BY <1>7, <1>1 DEF TakeJob, WorkerGoto
<1>8. ASSUME NEW s \in Stages, LoadArtifacts(s)
      PROVE  GiveUpInv'
  BY <1>8, <1>1 DEF LoadArtifacts, WorkerGoto
<1>9. ASSUME NEW s \in Stages, BodySucceeds(s)
      PROVE  GiveUpInv'
  BY <1>9, <1>1 DEF BodySucceeds, WorkerGoto
<1>10. CASE FinalizeVideo
  BY <1>10, <1>1 DEF FinalizeVideo, WorkerGoto
<1>11. ASSUME NEW s \in Stages, BodyFails(s)
      PROVE  GiveUpInv'
  BY <1>11, <1>1 DEF BodyFails, WorkerGoto
<1>12. ASSUME NEW s \in Stages, SaveRead(s)
      PROVE  GiveUpInv'
  BY <1>12, <1>1 DEF SaveRead, WorkerGoto
<1>13. ASSUME NEW s \in Stages, SaveWrite(s)
      PROVE  GiveUpInv'
  BY <1>13, <1>1 DEF SaveWrite, WorkerGoto
<1>14. ASSUME NEW s \in Stages, MarkCompleted(s)
      PROVE  GiveUpInv'
  BY <1>14, <1>1 DEF MarkCompleted, WorkerGoto, updateJobs
<1>15. ASSUME NEW s \in Stages, PublishCompleted(s)
      PROVE  GiveUpInv'
  <2>1. StageCompleted(s) \in Event /\ \A t \in Stages : StageCompleted(s) # StageFailed(t)
    BY EventFacts
  <2>2. \A t \in Stages : inbox'[StageFailed(t)] = inbox[StageFailed(t)]
    BY <1>15, <2>1 DEF PublishCompleted, publish
  <2>3. QED
    BY <1>15, <1>1, <2>2 DEF PublishCompleted, WorkerGoto
<1>16. ASSUME NEW s \in Stages, FinishJob(s)
      PROVE  GiveUpInv'
  BY <1>16, <1>1 DEF FinishJob, WorkerGoto, LeaveJob
<1>17. ASSUME NEW s \in Stages, CatchError(s)
      PROVE  GiveUpInv'
  <2>1. /\ wpc'[s] = "markFailed" => exhausted(s)
        /\ wpc'[s] # "publishFailed"
    BY <1>17, DefinitionAssumption DEF CatchError, WorkerGoto, exhausted
  <2>2. jobs[s] # <<>>
    BY <1>17 DEF CatchError, OrderInv
  <2>3. \A t \in Stages \ {s} : wpc'[t] = wpc[t]
    BY <1>17 DEF CatchError, WorkerGoto
  <2>4. inbox' = inbox /\ held' = held /\ runStatus' = runStatus
    BY <1>17 DEF CatchError
  <2>5. QED
    BY <1>1, <2>1, <2>2, <2>3, <2>4 DEF GivenUp
<1>18. ASSUME NEW s \in Stages, MarkFailed(s)
      PROVE  GiveUpInv'
  BY <1>18, <1>1 DEF MarkFailed, WorkerGoto, updateJobs
<1>19. ASSUME NEW s \in Stages, PublishFailed(s)
      PROVE  GiveUpInv'
  <2>1. \A t \in Stages \ {s} : StageFailed(t) # StageFailed(s)
    BY FailureEvents
  <2>2. \A t \in Stages \ {s} : inbox'[StageFailed(t)] = inbox[StageFailed(t)]
    BY <1>19, <2>1 DEF PublishFailed, publish
  <2>3. GivenUp(s)
    BY <1>19 DEF PublishFailed
  <2>4. \A t \in Stages \ {s} : wpc'[t] = wpc[t]
    BY <1>19 DEF PublishFailed, WorkerGoto
  <2>5. held' = held /\ runStatus' = runStatus
    BY <1>19 DEF PublishFailed, handlerVars, dbVars
  <2>6. QED
    BY <1>1, <2>2, <2>3, <2>4, <2>5
<1>20. ASSUME NEW s \in Stages, Rethrow(s)
      PROVE  GiveUpInv'
  BY <1>20, <1>1 DEF Rethrow, WorkerGoto, LeaveJob
<1>21. CASE Cancel
  BY <1>21, <1>1 DEF Cancel, CancelRead, CancelVideo, CancelRuns
<1>22. ASSUME NEW h \in Handlers, HandlerCrash(h)
      PROVE  GiveUpInv'
  <2>1. held[h] \in Event
    BY <1>22 DEF HandlerCrash, HoldsEvent
  <2>2. \A t \in Stages : inbox'[StageFailed(t)] > 0
            => inbox[StageFailed(t)] > 0 \/ held[h] = StageFailed(t)
    BY <1>22, <2>1, EventFacts DEF HandlerCrash, Requeue
  <2>3. \A g \in Handlers : held'[g] = held[g] \/ held'[g] = NoEvent
    BY <1>22 DEF HandlerCrash, FreeHandler
  <2>4. \A t \in Stages : NoEvent # StageFailed(t)
    BY EventFacts
  <2>5. wpc' = wpc /\ runStatus' = runStatus
    BY <1>22 DEF HandlerCrash
  <2>6. QED
    BY <1>1, <2>2, <2>3, <2>4, <2>5
<1>23. ASSUME NEW h \in Handlers, ConnectionLost(h)
      PROVE  GiveUpInv'
  <2>1. held[h] \in Event
    BY <1>23 DEF ConnectionLost, HoldsEvent
  <2>2. \A t \in Stages : inbox'[StageFailed(t)] > 0
            => inbox[StageFailed(t)] > 0 \/ held[h] = StageFailed(t)
    BY <1>23, <2>1, EventFacts DEF ConnectionLost, Requeue
  <2>3. wpc' = wpc /\ runStatus' = runStatus /\ held' = held
    BY <1>23 DEF ConnectionLost
  <2>4. QED
    BY <1>1, <2>2, <2>3
<1>24. ASSUME NEW h \in Handlers, HandlerThrow(h)
      PROVE  GiveUpInv'
  BY <1>24, <1>1, FailureEvents DEF HandlerThrow, Strike, FreeHandler, HandlerGoto
<1>25. ASSUME NEW s \in Stages, WorkerIoError(s)
      PROVE  GiveUpInv'
  <2>1. /\ wpc'[s] \in {"catch", "rethrow"}
        /\ \A t \in Stages \ {s} : wpc'[t] = wpc[t]
    BY <1>25 DEF WorkerIoError, WorkerGoto
  <2>2. QED
    BY <1>25, <2>1, <1>1 DEF WorkerIoError
<1>26. ASSUME NEW s \in Stages, WorkerCrash(s)
      PROVE  GiveUpInv'
  BY <1>26, <1>1 DEF WorkerCrash, Strike, WorkerGoto, LeaveJob
<1>27. CASE UNCHANGED <<wpc, inbox, held, runStatus>>
  BY <1>27, <1>1
<1>28. QED
  BY <1>2, <1>3, <1>4, <1>5, <1>6, <1>7, <1>8, <1>9, <1>10, <1>11, <1>12, <1>13,
     <1>14, <1>15, <1>16, <1>17, <1>18, <1>19, <1>20, <1>21, <1>22, <1>23,
     <1>24, <1>25, <1>26, <1>27
     DEF Next, Orchestrator, Worker, Fault, vars, ReadQueued,
         HandlerGoto, ReadCompleted, ReadFailed, SkipStage, FindJobs,
         CreateJob, AddJob

\* SkippedInv is kept: skipStage only marks an optional stage that was given up.
LEMMA NextSkipped ==
    TypeInv /\ GiveUpInv /\ SkippedInv /\ [Next]_vars
        => SkippedInv'
<1> SUFFICES ASSUME TypeOK, HoldsEvent, HoldsFailure, GiveUpInv, SkippedInv,
                    [Next]_vars
             PROVE  SkippedInv'
  BY DEF TypeInv
<1> USE DEF TypeOK, ArtifactMap, SkippedInv, dbVars, bullVars, handlerVars,
   workerVars
<1>1. \A t \in Stages : exhausted(t) => exhausted(t)'
  BY GivenUpStays DEF TypeInv
<1>2. ASSUME NEW h \in Handlers, Ack(h)
      PROVE  SkippedInv'
  BY <1>2, <1>1, EmptyEntry DEF Ack, FreeHandler, HandlerGoto
<1>3. ASSUME NEW h \in Handlers, ReadCompleted(h)
      PROVE  SkippedInv'
  BY <1>3, <1>1 DEF ReadCompleted, HandlerGoto
<1>4. ASSUME NEW h \in Handlers, ReadFailed(h)
      PROVE  SkippedInv'
  BY <1>4, <1>1 DEF ReadFailed, HandlerGoto
<1>5. ASSUME NEW h \in Handlers, SkipStage(h)
      PROVE  SkippedInv'
  <2>1. PICK s \in Stages : held[h] = StageFailed(s)
    BY <1>5 DEF SkipStage, HoldsFailure
  <2>2. held[h].stage = s
    BY <2>1, FailureEvents
  <2>3. s \in Optional /\ exhausted(s)
    BY <1>5, <2>1, <2>2 DEF SkipStage, HoldsFailure, GiveUpInv, GivenUp
  <2>4. \A t \in Stages : artifacts'[t] = IF t = s THEN "skipped" ELSE hsnap[h][t]
    BY <1>5, <2>2 DEF SkipStage
  <2>5. hsnap' = hsnap /\ wsnap' = wsnap
    BY <1>5 DEF SkipStage
  <2>6. QED
    BY <1>1, <2>3, <2>4, <2>5
<1>6. ASSUME NEW s \in Stages, LoadArtifacts(s)
      PROVE  SkippedInv'
  BY <1>6, <1>1 DEF LoadArtifacts, WorkerGoto
<1>7. ASSUME NEW s \in Stages, SaveRead(s)
      PROVE  SkippedInv'
  BY <1>7, <1>1 DEF SaveRead, WorkerGoto
<1>8. ASSUME NEW s \in Stages, SaveWrite(s)
      PROVE  SkippedInv'
  BY <1>8, <1>1 DEF SaveWrite, WorkerGoto
<1>9. ASSUME NEW s \in Stages, FinishJob(s)
      PROVE  SkippedInv'
  BY <1>9, <1>1, EmptyEntry DEF FinishJob, WorkerGoto, LeaveJob
<1>10. ASSUME NEW s \in Stages, Rethrow(s)
      PROVE  SkippedInv'
  BY <1>10, <1>1, EmptyEntry DEF Rethrow, WorkerGoto, LeaveJob
<1>11. ASSUME NEW h \in Handlers, HandlerCrash(h)
      PROVE  SkippedInv'
  BY <1>11, <1>1, EmptyEntry DEF HandlerCrash, Strike, Requeue, FreeHandler,
     HandlerGoto
<1>12. ASSUME NEW h \in Handlers, HandlerThrow(h)
      PROVE  SkippedInv'
  BY <1>12, <1>1, EmptyEntry DEF HandlerThrow, Strike, FreeHandler, HandlerGoto
<1>13. ASSUME NEW s \in Stages, WorkerCrash(s)
      PROVE  SkippedInv'
  BY <1>13, <1>1, EmptyEntry DEF WorkerCrash, Strike, WorkerGoto, LeaveJob
<1>14. CASE UNCHANGED <<artifacts, hsnap, wsnap>>
  BY <1>14, <1>1
<1>15. QED
  BY <1>2, <1>3, <1>4, <1>5, <1>6, <1>7, <1>8, <1>9, <1>10, <1>11, <1>12, <1>13,
     <1>14
     DEF Next, Orchestrator, Worker, Fault, vars, Deliver,
         HandlerGoto, ReadQueued, StartRun, CompleteRun, FailRun,
         FindJobs, CreateJob, AddJob, TakeJob, WorkerGoto,
         BodySucceeds, FinalizeVideo, BodyFails, MarkCompleted,
         updateJobs, PublishCompleted, publish, CatchError,
         MarkFailed, PublishFailed, Cancel, CancelRead, CancelVideo,
         CancelRuns, ConnectionLost, Strike, Requeue, WorkerIoError

\* video.queued is none of the stage events.
LEMMA QueuedEvent ==
    /\ Queued \in Event /\ Queued # NoEvent
    /\ \A s \in Stages : StageCompleted(s) # Queued /\ StageFailed(s) # Queued
  BY EventFacts

\* TokenInv is kept: video.queued is published once, and only a crash of its
\* handler puts it back into the queue.
LEMMA NextToken == TypeInv /\ TokenInv /\ [Next]_vars => TokenInv'
<1> SUFFICES ASSUME TypeOK, HoldsEvent, HoldsFailure, TokenInv, [Next]_vars
             PROVE  TokenInv'
  BY DEF TypeInv
<1> USE DEF TypeOK, TokenInv, dbVars, bullVars, handlerVars, workerVars
<1>1. ASSUME NEW h \in Handlers, NEW e \in Event, Deliver(h, e)
      PROVE  TokenInv'
  <2>1. /\ hpc[h] = "idle" /\ held'[h] = e /\ inbox[e] > 0
        /\ \A g \in Handlers \ {h} : hpc'[g] = hpc[g] /\ held'[g] = held[g]
    BY <1>1 DEF Deliver, HandlerGoto
  <2>2. hpc'[h] # "idle"
    <3>1. e.name \in {"video.queued", "pipeline.stage_completed", "pipeline.stage_failed"}
      BY EventFacts
    <3>2. QED
      BY <1>1, <3>1 DEF Deliver, HandlerGoto
  <2>3. inbox'[Queued] = IF e = Queued THEN inbox[Queued] - 1 ELSE inbox[Queued]
    BY <1>1, QueuedEvent DEF Deliver
  <2> SUFFICES ASSUME "connectionLost" \notin FaultKinds
               PROVE  TokenInv'
    BY DEF TokenInv
  <2>4. \A g \in Handlers : hpc'[g] = "idle" => held'[g] = NoEvent
    BY <2>1, <2>2
  <2>5. inbox'[Queued] \in {0, 1}
    BY <2>1, <2>3
  <2>6. e = Queued => \A g \in Handlers : held[g] # Queued
    BY <2>1
  <2>7. \A g \in Handlers : held'[g] = Queued => inbox'[Queued] = 0
    BY <2>1, <2>3, <2>6
  <2>8. ASSUME NEW f \in Handlers, NEW g \in Handlers, held'[f] = Queued, held'[g] = Queued
        PROVE  f = g
    BY <2>1, <2>6, <2>8
  <2>9. QED
    BY <2>4, <2>5, <2>7, <2>8
<1>2. ASSUME NEW h \in Handlers, Ack(h)
      PROVE  TokenInv'
  <2>1. NoEvent # Queued
    BY QueuedEvent
  <2>2. QED
    BY <1>2, <2>1 DEF Ack, FreeHandler, HandlerGoto
<1>3. ASSUME NEW h \in Handlers, ReadQueued(h)
      PROVE  TokenInv'
  BY <1>3 DEF ReadQueued, HandlerGoto
<1>4. ASSUME NEW h \in Handlers, StartRun(h)
      PROVE  TokenInv'
  BY <1>4 DEF StartRun, HandlerGoto
<1>5. ASSUME NEW h \in Handlers, ReadCompleted(h)
      PROVE  TokenInv'
  BY <1>5 DEF ReadCompleted, HandlerGoto
<1>6. ASSUME NEW h \in Handlers, CompleteRun(h)
      PROVE  TokenInv'
  BY <1>6 DEF CompleteRun, HandlerGoto
<1>7. ASSUME NEW h \in Handlers, ReadFailed(h)
      PROVE  TokenInv'
  BY <1>7 DEF ReadFailed, HandlerGoto
<1>8. ASSUME NEW h \in Handlers, SkipStage(h)
      PROVE  TokenInv'
  BY <1>8 DEF SkipStage, HandlerGoto
<1>9. ASSUME NEW h \in Handlers, FailRun(h)
      PROVE  TokenInv'
  BY <1>9 DEF FailRun, HandlerGoto
<1>10. ASSUME NEW h \in Handlers, FindJobs(h)
      PROVE  TokenInv'
  BY <1>10 DEF FindJobs, HandlerGoto
<1>11. ASSUME NEW h \in Handlers, NEW s \in Stages, CreateJob(h, s)
      PROVE  TokenInv'
  BY <1>11 DEF CreateJob, HandlerGoto
<1>12. ASSUME NEW h \in Handlers, AddJob(h)
      PROVE  TokenInv'
  BY <1>12 DEF AddJob, HandlerGoto
<1>13. ASSUME NEW s \in Stages, PublishCompleted(s)
      PROVE  TokenInv'
  <2>1. inbox'[Queued] = inbox[Queued]
    BY <1>13, QueuedEvent DEF PublishCompleted, publish
  <2>2. QED
    BY <1>13, <2>1 DEF PublishCompleted
<1>14. ASSUME NEW s \in Stages, PublishFailed(s)
      PROVE  TokenInv'
  <2>1. inbox'[Queued] = inbox[Queued]
    BY <1>14, QueuedEvent DEF PublishFailed, publish
  <2>2. QED
    BY <1>14, <2>1 DEF PublishFailed
<1>15. ASSUME NEW h \in Handlers, HandlerCrash(h)
      PROVE  TokenInv'
  <2>1. /\ held[h] \in Event /\ held'[h] = NoEvent
        /\ \A g \in Handlers \ {h} : hpc'[g] = hpc[g] /\ held'[g] = held[g]
    BY <1>15 DEF HandlerCrash, FreeHandler, HandlerGoto, HoldsEvent
  <2>2. inbox'[Queued] \in {inbox[Queued], IF held[h] = Queued THEN inbox[Queued] + 1
                                                             ELSE inbox[Queued]}
    BY <1>15, <2>1, QueuedEvent DEF HandlerCrash, Requeue
  <2>3. NoEvent # Queued
    BY QueuedEvent
  <2> SUFFICES ASSUME "connectionLost" \notin FaultKinds
               PROVE  TokenInv'
    BY DEF TokenInv
  <2>4. \A g \in Handlers : hpc'[g] = "idle" => held'[g] = NoEvent
    BY <2>1
  <2>5. inbox'[Queued] \in {0, 1}
    BY <2>1, <2>2
  <2>6. held[h] = Queued => \A g \in Handlers \ {h} : held[g] # Queued
    BY <2>1
  <2>7. \A g \in Handlers : held'[g] = Queued => inbox'[Queued] = 0
    BY <2>1, <2>2, <2>3, <2>6
  <2>8. ASSUME NEW f \in Handlers, NEW g \in Handlers, held'[f] = Queued, held'[g] = Queued
        PROVE  f = g
    BY <2>1, <2>3, <2>8
  <2>9. QED
    BY <2>4, <2>5, <2>7, <2>8
<1>16. ASSUME NEW h \in Handlers, ConnectionLost(h)
      PROVE  TokenInv'
  BY <1>16 DEF ConnectionLost, Strike, Requeue
<1>17. ASSUME NEW h \in Handlers, HandlerThrow(h)
      PROVE  TokenInv'
  <2>1. NoEvent # Queued
    BY QueuedEvent
  <2>2. QED
    BY <1>17, <2>1 DEF HandlerThrow, FreeHandler, HandlerGoto
<1>18. CASE UNCHANGED <<hpc, held, inbox>>
  BY <1>18
<1>19. QED
  BY <1>1, <1>2, <1>3, <1>4, <1>5, <1>6, <1>7, <1>8, <1>9, <1>10, <1>11, <1>12,
     <1>13, <1>14, <1>15, <1>16, <1>17, <1>18
     DEF Next, Orchestrator, Worker, Fault, vars, TakeJob, WorkerGoto,
         LoadArtifacts, BodySucceeds, FinalizeVideo, BodyFails,
         SaveRead, SaveWrite, MarkCompleted, updateJobs, FinishJob,
         LeaveJob, CatchError, MarkFailed, Rethrow, Cancel,
         CancelRead, CancelVideo, CancelRuns, WorkerIoError, Strike,
         WorkerCrash

\* FreshInv is kept: no handler works on the run before the transaction of
\* onVideoQueued, and only one handler can be about to commit it.
LEMMA NextFresh ==
    TypeInv /\ OrderInv /\ TokenInv /\ FreshInv /\ [Next]_vars
        => FreshInv'
<1> SUFFICES ASSUME TypeOK, HoldsEvent, HoldsFailure, OrderInv, TokenInv,
                    FreshInv, [Next]_vars
             PROVE  FreshInv'
  BY DEF TypeInv
<1> USE DEF TypeOK, FreshInv, Untouched, dbVars, bullVars, handlerVars, workerVars
<1>1. ASSUME NEW h \in Handlers, NEW e \in Event, Deliver(h, e)
      PROVE  FreshInv'
  <2>1. hpc'[h] \in {"onVideoQueued", "onStageCompleted", "onStageFailed"}
    <3>1. e.name \in {"video.queued", "pipeline.stage_completed", "pipeline.stage_failed"}
      BY EventFacts
    <3>2. QED
      BY <1>1, <3>1 DEF Deliver, HandlerGoto
  <2>2. \A g \in Handlers \ {h} : hpc'[g] = hpc[g]
    BY <1>1 DEF Deliver, HandlerGoto
  <2>3. QED
    BY <1>1, <2>1, <2>2 DEF Deliver
<1>2. ASSUME NEW h \in Handlers, Ack(h)
      PROVE  FreshInv'
  BY <1>2 DEF Ack, FreeHandler, HandlerGoto
<1>3. ASSUME NEW h \in Handlers, ReadQueued(h)
      PROVE  FreshInv'
  BY <1>3 DEF ReadQueued, HandlerGoto
<1>4. ASSUME NEW h \in Handlers, StartRun(h)
      PROVE  FreshInv'
  <2>1. /\ \A g \in Handlers \ {h} : hpc'[g] = hpc[g]
        /\ "connectionLost" \notin FaultKinds
               => \A g \in Handlers \ {h} : hpc[g] # "startRun"
    BY <1>4 DEF StartRun, HandlerGoto, HoldsFailure, TokenInv
  <2>2. hpc'[h] = "findJobs" /\ runStatus' = "running"
    BY <1>4 DEF StartRun, HandlerGoto
  <2>3. QED
    BY <2>1, <2>2
<1>5. ASSUME NEW h \in Handlers, ReadCompleted(h)
      PROVE  FreshInv'
  BY <1>5 DEF ReadCompleted, HandlerGoto
<1>6. ASSUME NEW h \in Handlers, CompleteRun(h)
      PROVE  FreshInv'
  BY <1>6 DEF CompleteRun, HandlerGoto
<1>7. ASSUME NEW h \in Handlers, ReadFailed(h)
      PROVE  FreshInv'
  BY <1>7 DEF ReadFailed, HandlerGoto
<1>8. ASSUME NEW h \in Handlers, SkipStage(h)
      PROVE  FreshInv'
  BY <1>8 DEF SkipStage, HandlerGoto
<1>9. ASSUME NEW h \in Handlers, FailRun(h)
      PROVE  FreshInv'
  BY <1>9 DEF FailRun, HandlerGoto
<1>10. ASSUME NEW h \in Handlers, FindJobs(h)
      PROVE  FreshInv'
  BY <1>10 DEF FindJobs, HandlerGoto
<1>11. ASSUME NEW h \in Handlers, NEW s \in Stages, CreateJob(h, s)
      PROVE  FreshInv'
  BY <1>11 DEF CreateJob, HandlerGoto
<1>12. ASSUME NEW h \in Handlers, AddJob(h)
      PROVE  FreshInv'
  BY <1>12 DEF AddJob, HandlerGoto
<1>13. ASSUME NEW s \in Stages, MarkCompleted(s)
      PROVE  FreshInv'
  <2>1. jobs[s] # <<>>
    BY <1>13 DEF MarkCompleted, OrderInv
  <2>2. QED
    BY <1>13, <2>1 DEF MarkCompleted
<1>14. ASSUME NEW s \in Stages, MarkFailed(s)
      PROVE  FreshInv'
  <2>1. jobs[s] # <<>>
    BY <1>14 DEF MarkFailed, OrderInv
  <2>2. QED
    BY <1>14, <2>1 DEF MarkFailed
<1>15. CASE Cancel
  BY <1>15 DEF Cancel, CancelRead, CancelVideo, CancelRuns
<1>16. ASSUME NEW h \in Handlers, HandlerCrash(h)
      PROVE  FreshInv'
  BY <1>16 DEF HandlerCrash, Strike, Requeue, FreeHandler, HandlerGoto
<1>17. ASSUME NEW h \in Handlers, HandlerThrow(h)
      PROVE  FreshInv'
  BY <1>17 DEF HandlerThrow, Strike, FreeHandler, HandlerGoto
<1>18. CASE UNCHANGED <<runStatus, jobs, hpc>>
  BY <1>18
<1>19. QED
  BY <1>1, <1>2, <1>3, <1>4, <1>5, <1>6, <1>7, <1>8, <1>9, <1>10, <1>11, <1>12,
     <1>13, <1>14, <1>15, <1>16, <1>17, <1>18
     DEF Next, Orchestrator, Worker, Fault, vars, TakeJob, WorkerGoto,
         LoadArtifacts, BodySucceeds, FinalizeVideo, BodyFails,
         SaveRead, SaveWrite, PublishCompleted, publish, FinishJob,
         LeaveJob, CatchError, PublishFailed, Rethrow, ConnectionLost,
         Strike, Requeue, WorkerIoError, WorkerCrash

-----------------------------------------------------------------------------
(* The theorems.                                                           *)

Inv == /\ TypeInv /\ RecordedInv /\ OrderInv /\ CompleteInv
       /\ GiveUpInv /\ SkippedInv /\ TokenInv /\ FreshInv

\* The invariant holds for a run that was just enqueued.
LEMMA InitInv == Init => Inv
<1> SUFFICES ASSUME Init PROVE Inv
  OBVIOUS
<1>1. TypeInv
  BY InitType
<1>2. RecordedInv /\ OrderInv /\ SkippedInv
  BY EmptyEntry DEF Init, RecordedInv, OrderInv, SkippedInv
<1>3. CompleteInv
  BY DefinitionAssumption DEF Init, CompleteInv
<1>4. GiveUpInv
  <2>1. \A s \in Stages : StageFailed(s) \in Event /\ StageFailed(s) # Queued
    BY EventFacts
  <2>2. \A s \in Stages : inbox[StageFailed(s)] = 0
    BY <2>1 DEF Init
  <2>3. /\ \A s \in Stages : wpc[s] = "idle"
        /\ \A h \in Handlers : held[h] = NoEvent
        /\ runStatus = "pending"
    BY DEF Init
  <2>4. QED
    BY <2>2, <2>3, FailureEvents DEF GiveUpInv
<1>5. TokenInv
  BY QueuedEvent DEF Init, TokenInv
<1>6. FreshInv
  BY DEF Init, FreshInv, Untouched
<1>7. QED
  BY <1>1, <1>2, <1>3, <1>4, <1>5, <1>6 DEF Inv

\* The inductive invariant holds in every reachable state.
THEOREM Invariance == Spec => []Inv
<1>1. Inv /\ [Next]_vars => Inv'
  BY NextTypeOK, NextHolds, NextRecorded, NextOrder, NextComplete, NextGiveUp,
     NextSkipped, NextToken, NextFresh DEF Inv, TypeInv
<1>2. QED
  BY InitInv, <1>1, PTL DEF Spec

\* enqueueReady never hands out a stage before the artifact of each of its
\* dependencies was recorded.
THEOREM EnqueuedAfterDependenciesHolds == Spec => []EnqueuedAfterDependencies
<1>1. Inv => EnqueuedAfterDependencies
  BY DEF Inv, OrderInv, EnqueuedAfterDependencies
<1>2. QED
  BY <1>1, Invariance, PTL

\* completeRun only closes a run that recorded every artifact and was billed.
THEOREM CompletedRunIsCompleteHolds == Spec => []CompletedRunIsComplete
<1>1. Inv => CompletedRunIsComplete
  BY DefinitionAssumption DEF Inv, CompleteInv, CompletedRunIsComplete
<1>2. QED
  BY <1>1, Invariance, PTL

\* A stage is skipped, or fails the run, only on its last attempt.
THEOREM NoPrematureGiveUpHolds == Spec => []NoPrematureGiveUp
<1>1. Inv => NoPrematureGiveUp
  BY DEF Inv, GiveUpInv, SkippedInv, NoPrematureGiveUp
<1>2. QED
  BY <1>1, Invariance, PTL

-----------------------------------------------------------------------------
(* Refinement: every step of a run is a step of the protocol.              *)

\* A run that was just enqueued is an initial state of the protocol.
LEMMA InitProtocol == Init => Protocol!PInit
  BY DEF Init, Protocol!PInit, started

\* The step of the protocol that each step of the code amounts to.
LEMMA NextProtocol ==
    TypeInv /\ OrderInv /\ CompleteInv /\ GiveUpInv /\ FreshInv /\ [Next]_vars
        => [Protocol!PNext]_(Protocol!pvars)
<1> SUFFICES ASSUME TypeOK, HoldsEvent, HoldsFailure, OrderInv, CompleteInv,
                    GiveUpInv, FreshInv, [Next]_vars
             PROVE  [Protocol!PNext]_(Protocol!pvars)
  BY DEF TypeInv
<1> USE DEF dbVars, bullVars, handlerVars, workerVars
<1>1. ASSUME NEW h \in Handlers, StartRun(h)
      PROVE  [Protocol!PNext]_(Protocol!pvars)
  <2>1. \/ started = {} /\ runStatus \in {"pending", "cancelled"}
        \/ "connectionLost" \in FaultKinds /\ runStatus # "pending"
    BY <1>1 DEF StartRun, FreshInv, Untouched, started
  <2>2. runStatus' = "running" /\ started' = started /\ recorded' = recorded
    BY <1>1 DEF StartRun, started
  <2>3. QED
    BY <2>1, <2>2 DEF Protocol!PNext, Protocol!BeginRun, Protocol!RestartRun
<1>2. ASSUME NEW h \in Handlers, CompleteRun(h)
      PROVE  [Protocol!PNext]_(Protocol!pvars)
  <2>1. recorded = Stages
    BY <1>2 DEF CompleteRun, CompleteInv
  <2>2. runStatus' = "completed" /\ started' = started /\ recorded' = recorded
    BY <1>2 DEF CompleteRun, started
  <2>3. QED
    BY <2>1, <2>2 DEF Protocol!PNext, Protocol!Complete
<1>3. ASSUME NEW h \in Handlers, SkipStage(h)
      PROVE  [Protocol!PNext]_(Protocol!pvars)
  <2>1. PICK s \in Stages : held[h] = StageFailed(s)
    BY <1>3 DEF SkipStage, HoldsFailure
  <2>2. held[h].stage = s
    BY <2>1, FailureEvents
  <2>3. s \in started
    BY <2>1 DEF GiveUpInv, GivenUp, started
  <2>4. /\ recorded' = recorded \cup {s}
        /\ runStatus' = runStatus /\ started' = started
    BY <1>3, <2>2 DEF SkipStage, started
  <2>5. QED
    BY <2>3, <2>4 DEF Protocol!PNext, Protocol!ProduceArtifact
<1>4. ASSUME NEW h \in Handlers, FailRun(h)
      PROVE  [Protocol!PNext]_(Protocol!pvars)
  <2>1. PICK s \in Stages : held[h] = StageFailed(s)
    BY <1>4 DEF FailRun, HoldsFailure
  <2>2. s \notin Optional
    BY <1>4, <2>1, FailureEvents DEF FailRun, HoldsFailure
  <2>3. s \in started
    BY <2>1 DEF GiveUpInv, GivenUp, started
  <2>4. runStatus' = "failed" /\ started' = started /\ recorded' = recorded
    BY <1>4 DEF FailRun, started
  <2>5. QED
    BY <2>2, <2>3, <2>4 DEF Protocol!PNext, Protocol!Fail
<1>5. ASSUME NEW h \in Handlers, NEW s \in Stages, CreateJob(h, s)
      PROVE  [Protocol!PNext]_(Protocol!pvars)
  <2>1. runStatus # "pending"
    BY <1>5 DEF CreateJob, FreshInv, Untouched
  <2>2. DependsOn[s] \subseteq recorded
    BY <1>5 DEF CreateJob, OrderInv
  <2>3. jobs'[s] # <<>>
    BY <1>5, AppendRow DEF CreateJob, TypeOK
  <2>4. \A t \in Stages \ {s} : jobs'[t] = jobs[t]
    BY <1>5 DEF CreateJob, TypeOK
  <2>5. started' = started \cup {s}
    BY <2>3, <2>4 DEF started
  <2>6. runStatus' = runStatus /\ recorded' = recorded
    BY <1>5 DEF CreateJob
  <2>7. QED
    BY <2>1, <2>2, <2>5, <2>6 DEF Protocol!PNext, Protocol!BeginStage
<1>6. ASSUME NEW s \in Stages, SaveWrite(s)
      PROVE  [Protocol!PNext]_(Protocol!pvars)
  <2>1. s \in started
    BY <1>6 DEF SaveWrite, OrderInv, started
  <2>2. /\ recorded' = recorded \cup {s}
        /\ runStatus' = runStatus /\ started' = started
    BY <1>6 DEF SaveWrite, started
  <2>3. QED
    BY <2>1, <2>2 DEF Protocol!PNext, Protocol!ProduceArtifact
<1>7. ASSUME NEW s \in Stages, MarkCompleted(s)
      PROVE  [Protocol!PNext]_(Protocol!pvars)
  <2>1. \A t \in Stages : jobs'[t] = <<>> <=> jobs[t] = <<>>
    <3>1. jobs'[s] = <<>> <=> jobs[s] = <<>>
      BY <1>7, UpdateRows DEF MarkCompleted, updateJobs, JobStatus, TypeOK
    <3>2. QED
      BY <1>7, <3>1 DEF MarkCompleted, updateJobs, TypeOK
  <2>2. started' = started
    BY <2>1 DEF started
  <2>3. QED
    BY <1>7, <2>2 DEF MarkCompleted, Protocol!pvars
<1>8. ASSUME NEW s \in Stages, MarkFailed(s)
      PROVE  [Protocol!PNext]_(Protocol!pvars)
  <2>1. \A t \in Stages : jobs'[t] = <<>> <=> jobs[t] = <<>>
    <3>1. jobs'[s] = <<>> <=> jobs[s] = <<>>
      BY <1>8, UpdateRows DEF MarkFailed, updateJobs, JobStatus, TypeOK
    <3>2. QED
      BY <1>8, <3>1 DEF MarkFailed, updateJobs, TypeOK
  <2>2. started' = started
    BY <2>1 DEF started
  <2>3. QED
    BY <1>8, <2>2 DEF MarkFailed, Protocol!pvars
<1>9. CASE Cancel
  <2>1. started' = started /\ recorded' = recorded
    BY <1>9 DEF Cancel, CancelRead, CancelVideo, CancelRuns, started
  <2>2. \/ runStatus' = runStatus
        \/ runStatus \in {"pending", "running"} /\ runStatus' = "cancelled"
    BY <1>9 DEF Cancel, CancelRead, CancelVideo, CancelRuns
  <2>3. QED
    BY <2>1, <2>2 DEF Protocol!PNext, Protocol!CancelRun, Protocol!pvars
<1>10. CASE UNCHANGED <<runStatus, jobs, recorded>>
  BY <1>10 DEF started, Protocol!pvars
<1>11. QED
  BY <1>1, <1>2, <1>3, <1>4, <1>5, <1>6, <1>7, <1>8, <1>9, <1>10
     DEF Next, Orchestrator, Worker, Fault, vars, Deliver,
         HandlerGoto, Ack, FreeHandler, ReadQueued, ReadCompleted,
         ReadFailed, FindJobs, AddJob, TakeJob, WorkerGoto,
         LoadArtifacts, BodySucceeds, FinalizeVideo, BodyFails,
         SaveRead, PublishCompleted, publish, FinishJob, LeaveJob,
         CatchError, PublishFailed, Rethrow, HandlerCrash, Strike,
         Requeue, ConnectionLost, HandlerThrow, WorkerIoError,
         WorkerCrash

\* PipelineRun implements RunProtocol: whatever crashes, is delivered twice or is
\* read stale, the status, the stages handed out and the artifacts recorded
\* change only in the ways the protocol allows.
THEOREM ProtocolImplemented == Spec => ImplementsProtocol
<1>1. Inv /\ [Next]_vars => [Protocol!PNext]_(Protocol!pvars)
  BY NextProtocol DEF Inv
<1>2. QED
  BY InitProtocol, Invariance, <1>1, PTL DEF Spec, ImplementsProtocol,
     Protocol!PSpec

-----------------------------------------------------------------------------
(* Billing: a run that fails was not billed, if no worker dies, no call    *)
(* that a worker makes is rejected, and every stage that can fail the run  *)
(* comes before finalize.  A mandatory stage whose artifact was recorded   *)
(* has then succeeded for good, and one whose failure is reported has      *)
(* failed for good; finalize starts only after the others succeeded.       *)

\* The worker of a stage has its body behind it.
succeeded(s) ==
    \/ wpc[s] \in {"saveRead", "saveWrite", "mark", "publish", "done"}
    \/ bull[s] = "completed"

\* The last attempt of a stage has failed.
failedForGood(s) == exhausted(s) /\ (wpc[s] = "rethrow" \/ bull[s] = "failed")

\* An event says that the stage failed.
reported(s) ==
    inbox[StageFailed(s)] > 0 \/ \E h \in Handlers : held[h] = StageFailed(s)

\* Workers do not die and their calls are not rejected.
SafeWorkers == FaultKinds \cap {"workerCrash", "ioError"} = {}

\* What was recorded had been handed out.
StartedInv == recorded \subseteq started

BillInv ==
    SafeWorkers =>
        /\ \A s \in Stages \ Optional : s \in recorded => succeeded(s)
        /\ usage > 0 => succeeded(Finalize)
        /\ \A s \in Stages : reported(s) => failedForGood(s)
        /\ runStatus = "failed" => \E s \in Stages \ Optional : failedForGood(s)

\* StartedInv is kept: an artifact is written for a job that runs, or for a
\* stage that was given up, and both have a Job row.
LEMMA NextStarted ==
    TypeInv /\ OrderInv /\ GiveUpInv /\ StartedInv /\ [Next]_vars => StartedInv'
<1> SUFFICES ASSUME TypeOK, HoldsEvent, HoldsFailure, OrderInv, GiveUpInv, StartedInv,
                    [Next]_vars
             PROVE  StartedInv'
  BY DEF TypeInv
<1>1. \A t \in Stages : jobs[t] # <<>> => jobs'[t] # <<>>
  BY RowsStay DEF TypeInv
<1>2. ASSUME NEW s \in Stages, SaveWrite(s)
      PROVE  recorded' = recorded \cup {s} /\ jobs[s] # <<>>
  BY <1>2 DEF SaveWrite, OrderInv
<1>3. ASSUME NEW h \in Handlers, SkipStage(h)
      PROVE  \E s \in Stages : recorded' = recorded \cup {s} /\ jobs[s] # <<>>
  <2>1. PICK s \in Stages : held[h] = StageFailed(s)
    BY <1>3 DEF SkipStage, HoldsFailure
  <2>2. held[h].stage = s /\ jobs[s] # <<>>
    BY <2>1, FailureEvents DEF GiveUpInv, GivenUp
  <2>3. QED
    BY <1>3, <2>2 DEF SkipStage
<1>4. \/ recorded' = recorded
      \/ \E s \in Stages : recorded' = recorded \cup {s} /\ jobs[s] # <<>>
  <2>1. CASE recorded' = recorded
    BY <2>1
  <2>2. CASE recorded' # recorded
    BY <1>2, <1>3, <2>2
       DEF Next, Orchestrator, Worker, Fault, vars, dbVars, Deliver, Ack, ReadQueued, StartRun,
           ReadCompleted, CompleteRun, ReadFailed, FailRun, FindJobs, CreateJob, AddJob,
           TakeJob, LoadArtifacts, BodySucceeds, FinalizeVideo, BodyFails, SaveRead,
           MarkCompleted, PublishCompleted, FinishJob, CatchError, MarkFailed,
           PublishFailed, Rethrow, Cancel, CancelRead, CancelVideo, CancelRuns,
           HandlerCrash, ConnectionLost, HandlerThrow, WorkerIoError, WorkerCrash
  <2>3. QED
    BY <2>1, <2>2
<1>5. QED
  BY <1>1, <1>4 DEF StartedInv, started, TypeOK

\* What comes before a stage that was handed out was recorded.
LEMMA BeforeRecorded ==
    ASSUME TypeInv, OrderInv, StartedInv, NEW s \in Stages, DependsOn[s] \subseteq recorded
    PROVE  before(s) \subseteq recorded
<1>1. recorded \in SUBSET Stages
  BY DEF TypeInv, TypeOK
<1>2. \A a \in recorded : DependsOn[a] \subseteq recorded
  BY DEF StartedInv, started, OrderInv
<1>3. QED
  BY <1>1, <1>2 DEF before

\* BillInv is kept.  A stage that failed for good runs no more, and one that
\* succeeded neither fails nor starts again.
LEMMA NextBill ==
    TypeInv /\ RecordedInv /\ OrderInv /\ GiveUpInv /\ BillInv /\ [Next]_vars => BillInv'
<1> SUFFICES ASSUME TypeOK, HoldsEvent, HoldsFailure, RecordedInv, OrderInv, GiveUpInv,
                    BillInv, [Next]_vars, SafeWorkers
             PROVE  BillInv'
  BY DEF TypeInv, BillInv
<1> USE DEF TypeOK, dbVars, bullVars, handlerVars, workerVars
<1>1. /\ \A s \in Stages \ Optional : s \in recorded => succeeded(s)
      /\ usage > 0 => succeeded(Finalize)
      /\ \A s \in Stages : reported(s) => failedForGood(s)
      /\ runStatus = "failed" => \E s \in Stages \ Optional : failedForGood(s)
  BY DEF BillInv
<1>2. \A s \in Stages : exhausted(s) => exhausted(s)'
  BY GivenUpStays DEF TypeInv
<1>3. \A s \in Stages : wpc[s] # "idle" => bull[s] = "active"
  BY DEF OrderInv
<1>4. \A s \in Stages : StageFailed(s) \in Event /\ StageFailed(s) # Queued
  BY EventFacts
<1>f. Finalize \in Stages \ Optional /\ Optional \subseteq Stages
  BY DefinitionAssumption
\* What has been decided stays decided.
<1>5. \A s \in Stages : /\ succeeded(s) => succeeded(s)'
                        /\ failedForGood(s) => failedForGood(s)'
  <2> SUFFICES ASSUME NEW s \in Stages
               PROVE  /\ succeeded(s) => succeeded(s)'
                      /\ failedForGood(s) => failedForGood(s)'
    OBVIOUS
  <2> USE <1>2, <1>3 DEF succeeded, failedForGood
  <2>1. CASE UNCHANGED <<wpc, bull>>
    BY <2>1
  <2>2. ASSUME NEW h \in Handlers, AddJob(h)
        PROVE  wpc' = wpc /\ (bull[s] # "absent" => bull'[s] = bull[s])
    BY <2>2 DEF AddJob
  <2>3. ASSUME NEW t \in Stages, Worker(t), t # s
        PROVE  wpc'[s] = wpc[s] /\ bull'[s] = bull[s]
    BY <2>3 DEF Worker, WorkerGoto, LeaveJob, TakeJob, LoadArtifacts, BodySucceeds,
       FinalizeVideo, BodyFails, SaveRead, SaveWrite, MarkCompleted, PublishCompleted,
       FinishJob, CatchError, MarkFailed, PublishFailed, Rethrow
  <2>4. CASE Worker(s)
    <3>1. CASE succeeded(s)
      BY <3>1, <2>4 DEF Worker, WorkerGoto, LeaveJob, TakeJob, LoadArtifacts, BodySucceeds,
         FinalizeVideo, BodyFails, SaveRead, SaveWrite, MarkCompleted, PublishCompleted,
         FinishJob, CatchError, MarkFailed, PublishFailed, Rethrow
    <3>2. CASE failedForGood(s)
      <4>1. wpc[s] = "rethrow"
        <5>1. wpc[s] # "idle" \/ bull[s] = "waiting"
          BY <2>4 DEF Worker, TakeJob, LoadArtifacts, BodySucceeds, FinalizeVideo, BodyFails,
             SaveRead, SaveWrite, MarkCompleted, PublishCompleted, FinishJob, CatchError,
             MarkFailed, PublishFailed, Rethrow
        <5>2. QED
          BY <5>1, <3>2, <1>3
      <4>2. Rethrow(s)
        BY <4>1, <2>4 DEF Worker, TakeJob, LoadArtifacts, BodySucceeds, FinalizeVideo,
           BodyFails, SaveRead, SaveWrite, MarkCompleted, PublishCompleted, FinishJob,
           CatchError, MarkFailed, PublishFailed
      <4>3. bull'[s] = "failed"
        <5>1. attemptsMade[s] \in Nat /\ MaxAttempts[s] \in Nat
          BY DefinitionAssumption
        <5>2. attemptsMade[s] + 1 >= MaxAttempts[s]
          BY <3>2 DEF exhausted
        <5>3. QED
          BY <5>1, <5>2, <4>1, <4>2 DEF Rethrow
      <4>4. ~succeeded(s)
        BY <4>1, <1>3
      <4>5. QED
        BY <4>3, <4>4, <3>2
    <3>3. QED
      BY <3>1, <3>2
  <2>5. QED
    BY <2>1, <2>2, <2>3, <2>4
       DEF Next, Orchestrator, Fault, vars, Deliver, Ack, FreeHandler, HandlerGoto,
           ReadQueued, StartRun, ReadCompleted, CompleteRun, ReadFailed, SkipStage, FailRun,
           FindJobs, CreateJob, Cancel, CancelRead, CancelVideo, CancelRuns, HandlerCrash,
           ConnectionLost, HandlerThrow, WorkerIoError, WorkerCrash, Strike, SafeWorkers
\* A mandatory stage is only recorded by its worker.
<1>6. ASSUME NEW s \in Stages \ Optional, s \in recorded', s \notin recorded
      PROVE  succeeded(s)'
  <2>1. \A h \in Handlers : ~SkipStage(h) \/ s \notin recorded'
    BY <1>6 DEF SkipStage, HoldsFailure
  <2>2. \A t \in Stages : SaveWrite(t) => t = s
    BY <1>6 DEF SaveWrite
  <2>3. SaveWrite(s)
    BY <1>6, <2>1, <2>2
       DEF Next, Orchestrator, Worker, Fault, vars, Deliver, Ack, ReadQueued, StartRun,
           ReadCompleted, CompleteRun, ReadFailed, FailRun, FindJobs, CreateJob, AddJob,
           TakeJob, LoadArtifacts, BodySucceeds, FinalizeVideo, BodyFails, SaveRead,
           MarkCompleted, PublishCompleted, FinishJob, CatchError, MarkFailed,
           PublishFailed, Rethrow, Cancel, CancelRead, CancelVideo, CancelRuns,
           HandlerCrash, ConnectionLost, HandlerThrow, WorkerIoError, WorkerCrash
  <2>4. QED
    BY <2>3, <1>f DEF SaveWrite, WorkerGoto, succeeded
\* Only finalize bills.
<1>7. ASSUME usage' > 0, ~(usage > 0)
      PROVE  succeeded(Finalize)'
  <2>1. FinalizeVideo
    BY <1>7
       DEF Next, Orchestrator, Worker, Fault, vars, Deliver, Ack, ReadQueued, StartRun,
           ReadCompleted, CompleteRun, ReadFailed, SkipStage, FailRun, FindJobs, CreateJob,
           AddJob, TakeJob, LoadArtifacts, BodySucceeds, BodyFails, SaveRead, SaveWrite,
           MarkCompleted, PublishCompleted, FinishJob, CatchError, MarkFailed,
           PublishFailed, Rethrow, Cancel, CancelRead, CancelVideo, CancelRuns,
           HandlerCrash, ConnectionLost, HandlerThrow, WorkerIoError, WorkerCrash
  <2>2. QED
    BY <2>1, <1>f DEF FinalizeVideo, WorkerGoto, succeeded
\* A report is new only when the worker of a stage that was given up makes it.
<1>8. ASSUME NEW s \in Stages, reported(s)', ~reported(s)
      PROVE  failedForGood(s)'
  <2> USE <1>4 DEF reported
  <2>1. ASSUME NEW h \in Handlers, NEW e \in Event, Deliver(h, e)
        PROVE  FALSE
    <3>1. inbox'[StageFailed(s)] > 0 => inbox[StageFailed(s)] > 0
      BY <2>1 DEF Deliver
    <3>2. \A g \in Handlers : held'[g] = StageFailed(s) => e = StageFailed(s) \/ held[g] = StageFailed(s)
      BY <2>1 DEF Deliver
    <3>3. inbox[e] > 0
      BY <2>1 DEF Deliver
    <3>4. QED
      BY <1>8, <3>1, <3>2, <3>3
  <2>2. ASSUME NEW h \in Handlers, FreeHandler(h)
        PROVE  \A g \in Handlers : held'[g] = StageFailed(s) => held[g] = StageFailed(s)
    BY <2>2, FailureEvents DEF FreeHandler
  <2>3. ASSUME NEW h \in Handlers, Requeue(h)
        PROVE  inbox'[StageFailed(s)] > 0 => reported(s)
    <3>1. CASE h \in unacked /\ held[h] \in Event
      BY <2>3, <3>1 DEF Requeue
    <3>2. CASE h \notin unacked
      BY <2>3, <3>2 DEF Requeue
    <3>3. QED
      BY <3>1, <3>2 DEF HoldsEvent
  <2>4. ASSUME NEW h \in Handlers, HandlerCrash(h) \/ ConnectionLost(h)
        PROVE  FALSE
    BY <1>8, <2>2, <2>3, <2>4 DEF HandlerCrash, ConnectionLost
  <2>5. ASSUME NEW h \in Handlers, Ack(h) \/ HandlerThrow(h)
        PROVE  FALSE
    BY <1>8, <2>2, <2>5 DEF Ack, HandlerThrow
  <2>6. ASSUME NEW t \in Stages, PublishCompleted(t)
        PROVE  FALSE
    <3>1. StageCompleted(t) # StageFailed(s)
      BY EventFacts DEF StageCompleted, StageFailed
    <3>2. inbox'[StageFailed(s)] = inbox[StageFailed(s)] /\ held' = held
      BY <2>6, <3>1, EventFacts DEF PublishCompleted, publish
    <3>3. QED
      BY <3>2, <1>8
  <2>7. ASSUME NEW t \in Stages, PublishFailed(t)
        PROVE  failedForGood(s)'
    <3>1. t = s
      <4>1. \/ StageFailed(s) = StageFailed(t)
            \/ inbox'[StageFailed(s)] = inbox[StageFailed(s)] /\ held' = held
        BY <2>7, EventFacts DEF PublishFailed, publish
      <4>2. QED
        BY <4>1, <1>8, FailureEvents
    <3>2. exhausted(s)'
      BY <2>7, <3>1, <1>2 DEF PublishFailed, GiveUpInv, GivenUp
    <3>3. QED
      BY <2>7, <3>1, <3>2 DEF PublishFailed, WorkerGoto, failedForGood
  <2>8. CASE UNCHANGED <<inbox, held>>
    BY <2>8, <1>8
  <2>9. QED
    BY <2>1, <2>4, <2>5, <2>6, <2>7, <2>8
       DEF Next, Orchestrator, Worker, Fault, vars, ReadQueued, StartRun, ReadCompleted,
           CompleteRun, ReadFailed, SkipStage, FailRun, FindJobs, CreateJob, AddJob,
           TakeJob, LoadArtifacts, BodySucceeds, FinalizeVideo, BodyFails, SaveRead,
           SaveWrite, MarkCompleted, FinishJob, CatchError, MarkFailed, Rethrow, Cancel,
           CancelRead, CancelVideo, CancelRuns, WorkerIoError, WorkerCrash
\* A run fails by the report of a mandatory stage.
<1>9. ASSUME runStatus' = "failed", runStatus # "failed"
      PROVE  \E s \in Stages \ Optional : failedForGood(s)
  <2>1. PICK h \in Handlers : FailRun(h)
    BY <1>9
       DEF Next, Orchestrator, Worker, Fault, vars, Deliver, Ack, ReadQueued, StartRun,
           ReadCompleted, CompleteRun, ReadFailed, SkipStage, FindJobs, CreateJob, AddJob,
           TakeJob, LoadArtifacts, BodySucceeds, FinalizeVideo, BodyFails, SaveRead,
           SaveWrite, MarkCompleted, PublishCompleted, FinishJob, CatchError, MarkFailed,
           PublishFailed, Rethrow, Cancel, CancelRead, CancelVideo, CancelRuns,
           HandlerCrash, ConnectionLost, HandlerThrow, WorkerIoError, WorkerCrash
  <2>2. PICK s \in Stages : held[h] = StageFailed(s)
    BY <2>1 DEF FailRun, HoldsFailure
  <2>3. s \notin Optional /\ reported(s)
    BY <2>1, <2>2, FailureEvents DEF FailRun, HoldsFailure, reported
  <2>4. QED
    BY <2>3, <1>1
<1>10. QED
  BY <1>1, <1>5, <1>6, <1>7, <1>8, <1>9, <1>f DEF BillInv

\* A run that was just enqueued.
LEMMA InitBill == Init => StartedInv /\ BillInv
<1> SUFFICES ASSUME Init PROVE StartedInv /\ BillInv
  OBVIOUS
<1>1. \A s \in Stages : ~reported(s)
  <2>1. \A s \in Stages : StageFailed(s) \in Event /\ StageFailed(s) # Queued
    BY EventFacts
  <2>2. \A s \in Stages : inbox[StageFailed(s)] = 0
    BY <2>1 DEF Init
  <2>3. \A h \in Handlers : held[h] = NoEvent
    BY DEF Init
  <2>4. ASSUME NEW s \in Stages PROVE ~(inbox[StageFailed(s)] > 0)
    BY <2>2
  <2>5. ASSUME NEW s \in Stages, NEW h \in Handlers PROVE held[h] # StageFailed(s)
    BY <2>3, FailureEvents
  <2>6. QED
    BY <2>4, <2>5 DEF reported
<1>2. QED
  BY <1>1 DEF Init, StartedInv, BillInv

\* StartedInv and BillInv hold in every reachable state.
THEOREM BillInvariance == Spec => [](StartedInv /\ BillInv)
<1>1. Inv /\ StartedInv /\ BillInv /\ [Next]_vars => (StartedInv /\ BillInv)'
  BY NextStarted, NextBill DEF Inv
<1>2. QED
  BY InitBill, <1>1, Invariance, PTL DEF Spec

\* A run that failed was not billed, where workers are safe and every stage
\* that can fail the run comes before finalize.
THEOREM FailedRunIsUnbilledHolds ==
    ASSUME SafeWorkers, FinalizeIsLast
    PROVE  Spec => []FailedRunIsUnbilled
<1>1. Inv /\ StartedInv /\ BillInv => FailedRunIsUnbilled
  <2> SUFFICES ASSUME Inv, StartedInv, BillInv, runStatus = "failed", usage # 0
               PROVE  FALSE
    BY DEF FailedRunIsUnbilled
  <2>1. TypeInv /\ OrderInv /\ usage > 0
    BY DEF Inv, TypeInv, TypeOK
  <2>2. PICK s \in Stages \ Optional : failedForGood(s)
    BY SafeWorkers DEF BillInv
  <2>3. succeeded(Finalize)
    BY <2>1, SafeWorkers DEF BillInv
  <2>4. ~succeeded(s)
    BY <2>1, <2>2 DEF OrderInv, failedForGood, succeeded
  <2>5. DependsOn[Finalize] \subseteq recorded
    BY <2>1, <2>3, DefinitionAssumption DEF OrderInv, succeeded
  <2>6. before(Finalize) \subseteq recorded
    BY <2>1, <2>5, BeforeRecorded, DefinitionAssumption
  <2>7. s \in recorded
    BY <2>2, <2>3, <2>4, <2>6, FinalizeIsLast DEF FinalizeIsLast
  <2>8. QED
    BY <2>2, <2>4, <2>7, SafeWorkers DEF BillInv
<1>2. QED
  BY <1>1, Invariance, BillInvariance, PTL

-----------------------------------------------------------------------------
(* Inputs: without faults, and in a definition whose branches join, a      *)
(* body finds all that comes before its stage in the row it loaded.        *)
(* saveArtifact and the skipping of a stage write the whole column back    *)
(* and may drop what another wrote meanwhile (see NoArtifactLost); what a  *)
(* stage waited for is safe, because every stage that is still to be       *)
(* written then comes later, and its writer read the row later too.        *)

NoFaults == FaultKinds = {}

\* The failure of a stage is reported by one event, which is in the queue or in
\* one slot.
ReportInv ==
    NoFaults =>
        \A s \in Stages :
            /\ inbox[StageFailed(s)] \in {0, 1}
            /\ \A h \in Handlers : held[h] = StageFailed(s) => inbox[StageFailed(s)] = 0
            /\ \A g, h \in Handlers :
                   held[g] = StageFailed(s) /\ held[h] = StageFailed(s) => g = h

\* Something may still write the artifact of the stage.
unwritten(s) ==
    \/ wpc[s] \in {"load", "body", "saveRead", "saveWrite", "catch", "markFailed",
                   "publishFailed"}
    \/ wpc[s] = "rethrow" /\ ~exhausted(s)
    \/ bull[s] \in {"absent", "waiting"}
    \/ inbox[StageFailed(s)] > 0
    \/ \E h \in Handlers :
           held[h] = StageFailed(s) /\ hpc[h] \in {"onStageFailed", "skipStage"}

\* An artifact is written once.
OnceInv == NoFaults => \A s \in Stages : unwritten(s) => s \notin recorded

\* The row, and every copy of it that will be written back, has all that comes
\* before the stage.
kept(s) ==
    /\ before(s) \subseteq completed(artifacts)
    /\ \A x \in Stages : wpc[x] = "saveWrite" => before(s) \subseteq completed(wsnap[x])
    /\ \A h \in Handlers : hpc[h] = "skipStage" => before(s) \subseteq completed(hsnap[h])

\* The row, or somebody's copy of it, had all that the stage waits for.
waitedFor(s) ==
    \/ DependsOn[s] \subseteq completed(artifacts)
    \/ \E h \in Handlers : DependsOn[s] \subseteq completed(hsnap[h]) \/ s \in htodo[h]
    \/ jobs[s] # <<>>

KeptInv == NoFaults /\ BranchesJoin => \A s \in Stages : waitedFor(s) => kept(s)

BodyInv ==
    NoFaults /\ BranchesJoin =>
        \A s \in Stages : wpc[s] = "body" => before(s) \subseteq completed(wsnap[s])

\* ReportInv is kept: a stage whose failure is about to be reported has not
\* been reported, and without faults no event comes back.
LEMMA NextReport ==
    TypeInv /\ OrderInv /\ BillInv /\ TokenInv /\ ReportInv /\ [Next]_vars => ReportInv'
<1> SUFFICES ASSUME TypeOK, OrderInv, BillInv, TokenInv, ReportInv, [Next]_vars, NoFaults,
                    NEW s \in Stages
             PROVE  /\ inbox'[StageFailed(s)] \in {0, 1}
                    /\ \A h \in Handlers :
                           held'[h] = StageFailed(s) => inbox'[StageFailed(s)] = 0
                    /\ \A g, h \in Handlers :
                           held'[g] = StageFailed(s) /\ held'[h] = StageFailed(s) => g = h
  BY DEF TypeInv, ReportInv
<1> USE DEF TypeOK, dbVars, bullVars, handlerVars, workerVars
<1>1. /\ inbox[StageFailed(s)] \in {0, 1}
      /\ \A h \in Handlers : held[h] = StageFailed(s) => inbox[StageFailed(s)] = 0
      /\ \A g, h \in Handlers :
             held[g] = StageFailed(s) /\ held[h] = StageFailed(s) => g = h
  BY DEF ReportInv
<1>2. StageFailed(s) \in Event /\ StageFailed(s) # NoEvent
  BY EventFacts, FailureEvents
<1>3. ASSUME NEW h \in Handlers, NEW e \in Event, Deliver(h, e)
      PROVE  /\ inbox'[StageFailed(s)] = 0 \/ inbox'[StageFailed(s)] = inbox[StageFailed(s)]
             /\ e = StageFailed(s) => inbox[StageFailed(s)] = 1 /\ inbox'[StageFailed(s)] = 0
             /\ \A g \in Handlers : held'[g] = IF g = h THEN e ELSE held[g]
  BY <1>1, <1>2, <1>3 DEF Deliver
<1>4. ASSUME NEW h \in Handlers, Ack(h)
      PROVE  /\ inbox' = inbox
             /\ \A g \in Handlers : held'[g] = StageFailed(s) => held[g] = StageFailed(s)
  BY <1>2, <1>4 DEF Ack, FreeHandler
<1>5. ASSUME NEW t \in Stages, PublishCompleted(t)
      PROVE  inbox'[StageFailed(s)] = inbox[StageFailed(s)] /\ held' = held
  <2>1. StageCompleted(t) # StageFailed(s)
    BY EventFacts DEF StageCompleted, StageFailed
  <2>2. QED
    BY <1>5, <2>1, EventFacts DEF PublishCompleted, publish
<1>6. ASSUME NEW t \in Stages, PublishFailed(t), t # s
      PROVE  inbox'[StageFailed(s)] = inbox[StageFailed(s)] /\ held' = held
  <2>1. StageFailed(t) # StageFailed(s)
    BY <1>6, FailureEvents
  <2>2. QED
    BY <1>6, <2>1, EventFacts DEF PublishFailed, publish
<1>7. ASSUME PublishFailed(s)
      PROVE  /\ inbox'[StageFailed(s)] = 1
             /\ \A g \in Handlers : held'[g] # StageFailed(s)
  <2>1. wpc[s] = "publishFailed" /\ bull[s] = "active"
    BY <1>7 DEF PublishFailed, OrderInv
  <2>2. ~reported(s)
    BY <2>1 DEF BillInv, SafeWorkers, NoFaults, failedForGood
  <2>3. inbox[StageFailed(s)] = 0 /\ \A g \in Handlers : held[g] # StageFailed(s)
    BY <1>1, <2>2 DEF reported
  <2>4. QED
    BY <1>2, <1>7, <2>3 DEF PublishFailed, publish
<1>8. CASE UNCHANGED <<inbox, held>>
  BY <1>1, <1>8
<1>9. CASE \E h \in Handlers, e \in Event : Deliver(h, e)
  <2>1. PICK h \in Handlers, e \in Event : Deliver(h, e)
    BY <1>9
  <2>2. CASE e = StageFailed(s)
    BY <1>1, <1>3, <2>1, <2>2
  <2>3. CASE e # StageFailed(s)
    BY <1>1, <1>3, <2>1, <2>3
  <2>4. QED
    BY <2>2, <2>3
<1>10. CASE (\E h \in Handlers : Ack(h)) \/ (\E t \in Stages : PublishCompleted(t) \/ PublishFailed(t))
  BY <1>1, <1>4, <1>5, <1>6, <1>7, <1>10
<1>11. ASSUME NEW h \in Handlers, Orchestrator(h),
              ~Ack(h), ~\E e \in Event : Deliver(h, e)
       PROVE  UNCHANGED <<inbox, held>>
  BY <1>11
     DEF Orchestrator, ReadQueued, StartRun, ReadCompleted, CompleteRun, ReadFailed,
         SkipStage, FailRun, FindJobs, CreateJob, AddJob
<1>12. ASSUME NEW t \in Stages, Worker(t), ~PublishCompleted(t), ~PublishFailed(t)
       PROVE  UNCHANGED <<inbox, held>>
  BY <1>12
     DEF Worker, TakeJob, LoadArtifacts, BodySucceeds, FinalizeVideo, BodyFails, SaveRead,
         SaveWrite, MarkCompleted, FinishJob, CatchError, MarkFailed, Rethrow
<1>13. ASSUME Cancel
       PROVE  UNCHANGED <<inbox, held>>
  BY <1>13 DEF Cancel, CancelRead, CancelVideo, CancelRuns
<1>14. ~Fault
  BY DEF Fault, HandlerCrash, ConnectionLost, HandlerThrow, WorkerIoError, WorkerCrash,
         Strike, NoFaults
<1>15. QED
  BY <1>8, <1>9, <1>10, <1>11, <1>12, <1>13, <1>14 DEF Next, vars

\* Without faults, a step is one of the code's.
LEMMA NoFaultStep ==
    ASSUME NoFaults, [Next]_vars
    PROVE  \/ \E h \in Handlers : Orchestrator(h)
           \/ \E s \in Stages : Worker(s)
           \/ Cancel
           \/ UNCHANGED vars
  BY DEF Next, Fault, HandlerCrash, ConnectionLost, HandlerThrow, WorkerIoError,
     WorkerCrash, Strike, NoFaults

\* OnceInv is kept: who writes an artifact is then done, and who is done does
\* not begin again.
LEMMA NextOnce ==
    TypeInv /\ RecordedInv /\ OrderInv /\ GiveUpInv /\ BillInv /\ ReportInv /\ OnceInv
        /\ [Next]_vars => OnceInv'
<1> SUFFICES ASSUME TypeOK, HoldsFailure, RecordedInv, OrderInv, GiveUpInv, BillInv,
                    ReportInv, OnceInv, [Next]_vars, NoFaults, TypeInv,
                    NEW s \in Stages, s \in recorded'
             PROVE  ~unwritten(s)'
  BY DEF TypeInv, OnceInv
<1> USE DEF TypeOK, dbVars, bullVars, handlerVars, workerVars
<1>1. exhausted(s) => exhausted(s)'
  BY GivenUpStays
<1>2. StageFailed(s) \in Event /\ StageFailed(s) # NoEvent /\ inbox[StageFailed(s)] \in Nat
  BY EventFacts, FailureEvents
<1>3. wpc[s] # "idle" => bull[s] = "active"
  BY DEF OrderInv
<1>4. reported(s) => failedForGood(s)
  BY DEF BillInv, SafeWorkers, NoFaults
\* Those who write.
<1>5. ASSUME SaveWrite(s)
      PROVE  ~unwritten(s)'
  <2>1. wpc[s] = "saveWrite" /\ bull[s] = "active"
    BY <1>5, <1>3 DEF SaveWrite
  <2>2. ~reported(s)
    BY <2>1, <1>4 DEF failedForGood
  <2>3. ~(inbox[StageFailed(s)] > 0) /\ \A h \in Handlers : held[h] # StageFailed(s)
    BY <2>2 DEF reported
  <2>4. wpc'[s] = "mark" /\ bull' = bull /\ inbox' = inbox /\ held' = held /\ hpc' = hpc
    BY <1>5 DEF SaveWrite, WorkerGoto
  <2>5. QED
    BY <2>1, <2>3, <2>4 DEF unwritten
<1>6. ASSUME NEW h \in Handlers, SkipStage(h), held[h] = StageFailed(s)
      PROVE  ~unwritten(s)'
  <2>1. failedForGood(s)
    BY <1>6, <1>4 DEF reported
  <2>2. inbox[StageFailed(s)] = 0 /\ \A g \in Handlers : held[g] = StageFailed(s) => g = h
    BY <1>6 DEF ReportInv
  <2>3. UNCHANGED <<wpc, bull, inbox, held, attemptsMade>> /\ hpc'[h] = "onStageCompleted"
    BY <1>6 DEF SkipStage, HandlerGoto
  <2>4. wpc[s] = "rethrow" \/ (wpc[s] = "idle" /\ bull[s] = "failed")
    BY <2>1, <1>3 DEF failedForGood
  <2>5. exhausted(s)' /\ bull[s] \notin {"absent", "waiting"}
    BY <2>1, <2>4, <1>1, <1>3 DEF failedForGood
  <2>6. ~(inbox'[StageFailed(s)] > 0)
    BY <2>2, <2>3
  <2>7. \A g \in Handlers : held'[g] = StageFailed(s) => hpc'[g] = "onStageCompleted"
    BY <2>2, <2>3
  <2>8. QED
    BY <2>3, <2>4, <2>5, <2>6, <2>7 DEF unwritten
\* Those who come later.
<1>7. ASSUME s \in recorded
      PROVE  ~unwritten(s)'
  <2>1. ~unwritten(s)
    BY <1>7 DEF OnceInv
  <2> USE <1>1, <1>3 DEF unwritten
  <2>2. \A h \in Handlers :
            held'[h] = StageFailed(s) /\ hpc'[h] \in {"onStageFailed", "skipStage"} =>
                held[h] = StageFailed(s) /\ hpc[h] \in {"onStageFailed", "skipStage"}
    <3> SUFFICES ASSUME NEW h \in Handlers, held'[h] = StageFailed(s),
                        hpc'[h] \in {"onStageFailed", "skipStage"}
                 PROVE  held[h] = StageFailed(s) /\ hpc[h] \in {"onStageFailed", "skipStage"}
      OBVIOUS
    <3>1. CASE UNCHANGED <<hpc, held>>
      BY <3>1
    <3>2. ASSUME NEW g \in Handlers, Orchestrator(g), g # h
          PROVE  hpc'[h] = hpc[h] /\ held'[h] = held[h]
      BY <3>2 DEF Orchestrator, HandlerGoto, FreeHandler, Deliver, Ack, ReadQueued, StartRun,
         ReadCompleted, CompleteRun, ReadFailed, SkipStage, FailRun, FindJobs, CreateJob,
         AddJob
    <3>3. ASSUME NEW e \in Event, Deliver(h, e)
          PROVE  FALSE
      <4>1. e = StageFailed(s) /\ inbox[e] > 0
        BY <3>3 DEF Deliver
      <4>2. QED
        BY <2>1, <4>1
    <3>4. CASE Ack(h)
      BY <3>4 DEF Ack, FreeHandler, HandlerGoto
    <3>5. CASE ReadFailed(h)
      BY <3>5 DEF ReadFailed, HandlerGoto
    <3>6. CASE /\ ~Ack(h) /\ ~ReadFailed(h) /\ ~(\E e \in Event : Deliver(h, e))
               /\ Orchestrator(h)
      BY <3>6 DEF Orchestrator, HandlerGoto, ReadQueued, StartRun, ReadCompleted,
         CompleteRun, SkipStage, FailRun, FindJobs, CreateJob, AddJob
    <3>7. QED
      BY <3>1, <3>2, <3>3, <3>4, <3>5, <3>6, NoFaultStep
         DEF vars, Worker, TakeJob, LoadArtifacts, BodySucceeds, FinalizeVideo, BodyFails,
             SaveRead, SaveWrite, MarkCompleted, PublishCompleted, FinishJob, CatchError,
             MarkFailed, PublishFailed, Rethrow, Cancel, CancelRead, CancelVideo, CancelRuns
  <2>3. inbox'[StageFailed(s)] > 0 => inbox[StageFailed(s)] > 0
    <3>1. ASSUME NEW h \in Handlers, NEW e \in Event, Deliver(h, e)
          PROVE  inbox'[StageFailed(s)] > 0 => inbox[StageFailed(s)] > 0
      BY <1>2, <3>1 DEF Deliver
    <3>2. ASSUME NEW t \in Stages, PublishCompleted(t)
          PROVE  inbox'[StageFailed(s)] = inbox[StageFailed(s)]
      <4>1. StageCompleted(t) # StageFailed(s)
        BY EventFacts DEF StageCompleted, StageFailed
      <4>2. QED
        BY <3>2, <4>1, EventFacts DEF PublishCompleted, publish
    <3>3. ASSUME NEW t \in Stages, PublishFailed(t)
          PROVE  inbox'[StageFailed(s)] = inbox[StageFailed(s)]
      <4>1. t # s
        BY <2>1, <3>3 DEF PublishFailed
      <4>2. StageFailed(t) # StageFailed(s)
        BY <4>1, FailureEvents
      <4>3. QED
        BY <3>3, <4>2, EventFacts DEF PublishFailed, publish
    <3>4. CASE inbox' = inbox
      BY <3>4
    <3>5. QED
      BY <3>1, <3>2, <3>3, <3>4, NoFaultStep
         DEF vars, Orchestrator, Worker, Ack, ReadQueued, StartRun, ReadCompleted,
             CompleteRun, ReadFailed, SkipStage, FailRun, FindJobs, CreateJob, AddJob,
             TakeJob, LoadArtifacts, BodySucceeds, FinalizeVideo, BodyFails, SaveRead,
             SaveWrite, MarkCompleted, FinishJob, CatchError, MarkFailed, Rethrow, Cancel,
             CancelRead, CancelVideo, CancelRuns
  <2>4. /\ wpc'[s] \in {"idle", "mark", "publish", "done", "rethrow"}
        /\ wpc'[s] = "rethrow" => exhausted(s)'
        /\ bull'[s] \notin {"absent", "waiting"}
    <3>0. /\ wpc[s] \in {"idle", "mark", "publish", "done", "rethrow"}
          /\ wpc[s] = "rethrow" => exhausted(s)
          /\ bull[s] \notin {"absent", "waiting"}
      BY <2>1 DEF WorkerLabel
    <3>1. CASE UNCHANGED <<wpc, bull>>
      BY <3>0, <3>1
    <3>2. ASSUME NEW h \in Handlers, AddJob(h)
          PROVE  wpc' = wpc /\ bull'[s] = bull[s]
      BY <3>0, <3>2 DEF AddJob
    <3>3. ASSUME NEW t \in Stages, Worker(t), t # s
          PROVE  wpc'[s] = wpc[s] /\ bull'[s] = bull[s]
      BY <3>3 DEF Worker, WorkerGoto, LeaveJob, TakeJob, LoadArtifacts, BodySucceeds,
         FinalizeVideo, BodyFails, SaveRead, SaveWrite, MarkCompleted, PublishCompleted,
         FinishJob, CatchError, MarkFailed, PublishFailed, Rethrow
    <3>4. CASE Worker(s)
      <4>1. CASE Rethrow(s)
        <5>1. attemptsMade[s] \in Nat /\ MaxAttempts[s] \in Nat
          BY DefinitionAssumption
        <5>2. attemptsMade[s] + 1 >= MaxAttempts[s]
          BY <3>0, <4>1 DEF Rethrow, exhausted
        <5>3. QED
          BY <5>1, <5>2, <4>1 DEF Rethrow, LeaveJob, WorkerGoto
      <4>2. CASE MarkCompleted(s) \/ PublishCompleted(s) \/ FinishJob(s)
        BY <3>0, <4>2 DEF MarkCompleted, PublishCompleted, FinishJob, LeaveJob, WorkerGoto
      <4>3. QED
        BY <3>0, <3>4, <4>1, <4>2 DEF Worker, TakeJob, LoadArtifacts, BodySucceeds,
           FinalizeVideo, BodyFails, SaveRead, SaveWrite, CatchError, MarkFailed,
           PublishFailed
    <3>5. QED
      BY <3>0, <3>1, <3>2, <3>3, <3>4, NoFaultStep
         DEF vars, Orchestrator, Deliver, Ack, ReadQueued, StartRun, ReadCompleted,
             CompleteRun, ReadFailed, SkipStage, FailRun, FindJobs, CreateJob, Cancel,
             CancelRead, CancelVideo, CancelRuns
  <2>5. QED
    BY <2>1, <2>2, <2>3, <2>4
<1>8. ASSUME s \notin recorded
      PROVE  SaveWrite(s) \/ \E h \in Handlers : SkipStage(h) /\ held[h] = StageFailed(s)
  <2>1. ASSUME NEW h \in Handlers, SkipStage(h)
        PROVE  held[h] = StageFailed(s)
    <3>1. PICK t \in Stages : held[h] = StageFailed(t)
      BY <2>1 DEF SkipStage, HoldsFailure
    <3>2. recorded' = recorded \cup {t}
      BY <2>1, <3>1, FailureEvents DEF SkipStage
    <3>3. QED
      BY <1>8, <3>1, <3>2
  <2>2. ASSUME NEW t \in Stages, SaveWrite(t)
        PROVE  t = s
    BY <1>8, <2>2 DEF SaveWrite
  <2>3. recorded' # recorded
    BY <1>8
  <2>4. QED
    BY <2>1, <2>2, <2>3, NoFaultStep
       DEF vars, Orchestrator, Worker, Deliver, Ack, ReadQueued, StartRun, ReadCompleted,
           CompleteRun, ReadFailed, FailRun, FindJobs, CreateJob, AddJob, TakeJob,
           LoadArtifacts, BodySucceeds, FinalizeVideo, BodyFails, SaveRead, MarkCompleted,
           PublishCompleted, FinishJob, CatchError, MarkFailed, PublishFailed, Rethrow,
           Cancel, CancelRead, CancelVideo, CancelRuns
<1>9. QED
  BY <1>5, <1>6, <1>7, <1>8

\* What comes before a stage holds what it waits for, and what those wait for.
LEMMA BeforeIsClosed ==
    ASSUME NEW s \in Stages
    PROVE  /\ before(s) \in SUBSET Stages
           /\ DependsOn[s] \subseteq before(s)
           /\ \A t \in before(s) : DependsOn[t] \subseteq before(s)
<1>1. \A t \in Stages : DependsOn[t] \subseteq Stages
  BY DefinitionAssumption
<1>2. ASSUME NEW t \in before(s), NEW d \in DependsOn[t]
      PROVE  d \in before(s)
  <2>1. t \in Stages /\ d \in Stages
    BY <1>1, <1>2 DEF before
  <2>2. ASSUME NEW A \in SUBSET Stages, DependsOn[s] \subseteq A,
               \A a \in A : DependsOn[a] \subseteq A
        PROVE  d \in A
    BY <1>2, <2>2 DEF before
  <2>3. QED
    BY <2>1, <2>2 DEF before
<1>3. QED
  BY <1>1, <1>2 DEF before

\* It holds nothing else: a set with what a stage waits for, and with what
\* comes before each of those, has all that comes before the stage.
LEMMA BeforeUnfold ==
    ASSUME NEW s \in Stages, NEW A, DependsOn[s] \subseteq A,
           \A d \in DependsOn[s] : before(d) \subseteq A
    PROVE  before(s) \subseteq A
<1> DEFINE B == {t \in Stages : t \in DependsOn[s] \/ \E d \in DependsOn[s] : t \in before(d)}
<1>1. DependsOn[s] \subseteq Stages
  BY DefinitionAssumption
<1>2. DependsOn[s] \subseteq B
  BY <1>1
<1>3. ASSUME NEW b \in B, NEW t \in DependsOn[b]
      PROVE  t \in B
  <2>1. t \in Stages
    BY <1>3, DefinitionAssumption
  <2>2. CASE b \in DependsOn[s]
    BY <1>1, <2>1, <2>2, BeforeIsClosed
  <2>3. ASSUME NEW d \in DependsOn[s], b \in before(d)
        PROVE  t \in B
    BY <1>1, <2>1, <2>3, BeforeIsClosed
  <2>4. QED
    BY <2>2, <2>3
<1>4. before(s) \subseteq B
  BY <1>2, <1>3 DEF before
<1>5. QED
  BY <1>4

\* A column write of stage x from the copy map, by its worker or by a handler
\* that skips it.
columnWrite(x, map) ==
    /\ completed(artifacts') = completed(map) \cup {x}
    /\ recorded' = recorded \cup {x}
    /\ \/ wpc[x] = "saveWrite" /\ map = wsnap[x] /\ wpc'[x] = "mark"
       \/ \E h \in Handlers :
              hpc[h] = "skipStage" /\ held[h] = StageFailed(x) /\ map = hsnap[h]
    /\ UNCHANGED <<jobs, htodo, hsnap, wsnap, held, inbox>>
    /\ \A y \in Stages : wpc'[y] = "saveWrite" => wpc[y] = "saveWrite"
    /\ \A h \in Handlers : hpc'[h] = "skipStage" => hpc[h] = "skipStage"

\* The column is only written from a copy of it.
LEMMA ColumnSteps ==
    ASSUME TypeInv, [Next]_vars
    PROVE  \/ artifacts' = artifacts /\ recorded' = recorded
           \/ \E x \in Stages, map \in ArtifactMap : columnWrite(x, map)
<1> USE DEF TypeInv, TypeOK, dbVars, bullVars, handlerVars, workerVars
<1>1. ASSUME NEW x \in Stages, SaveWrite(x)
      PROVE  columnWrite(x, wsnap[x])
  BY <1>1, WriteArtifact DEF SaveWrite, WorkerGoto, columnWrite
<1>2. ASSUME NEW h \in Handlers, SkipStage(h)
      PROVE  \E x \in Stages : columnWrite(x, hsnap[h])
  <2>1. PICK x \in Stages : held[h] = StageFailed(x)
    BY <1>2 DEF SkipStage, HoldsFailure
  <2>2. held[h].stage = x
    BY <2>1, FailureEvents
  <2>3. columnWrite(x, hsnap[h])
    BY <1>2, <2>1, <2>2, WriteArtifact DEF SkipStage, HandlerGoto, columnWrite
  <2>4. QED
    BY <2>3
<1>3. QED
  BY <1>1, <1>2
     DEF Next, vars, Orchestrator, Worker, Fault, Deliver, Ack, ReadQueued, StartRun,
         ReadCompleted, CompleteRun, ReadFailed, FailRun, FindJobs, CreateJob, AddJob,
         TakeJob, LoadArtifacts, BodySucceeds, FinalizeVideo, BodyFails, SaveRead,
         MarkCompleted, PublishCompleted, FinishJob, CatchError, MarkFailed, PublishFailed,
         Rethrow, Cancel, CancelRead, CancelVideo, CancelRuns, HandlerCrash,
         ConnectionLost, HandlerThrow, WorkerIoError, WorkerCrash

\* A handler's copy is the old one, the row or empty; it finds
\* ready what its copy says; and a copy that is going to be written back is
\* the old one or the row.
LEMMA CopySteps ==
    ASSUME TypeInv, [Next]_vars
    PROVE  /\ \A h \in Handlers :
                 /\ hsnap'[h] \in {hsnap[h], artifacts, NoArtifacts}
                 /\ \A s \in htodo'[h] : s \in htodo[h] \/ DependsOn[s] \subseteq completed(hsnap[h])
                 /\ hpc'[h] = "skipStage" =>
                        \/ hsnap'[h] = artifacts
                        \/ hpc[h] = "skipStage" /\ hsnap'[h] = hsnap[h]
           /\ \A x \in Stages :
                 /\ jobs'[x] # <<>> => jobs[x] # <<>> \/ \E h \in Handlers : x \in htodo[h]
                 /\ wpc'[x] = "saveWrite" =>
                        \/ wsnap'[x] = artifacts
                        \/ wpc[x] = "saveWrite" /\ wsnap'[x] = wsnap[x]
<1> USE DEF TypeInv, TypeOK, dbVars, bullVars, handlerVars, workerVars
<1>1. ASSUME NEW h \in Handlers
      PROVE  /\ hsnap'[h] \in {hsnap[h], artifacts, NoArtifacts}
             /\ \A s \in htodo'[h] : s \in htodo[h] \/ DependsOn[s] \subseteq completed(hsnap[h])
             /\ hpc'[h] = "skipStage" =>
                    \/ hsnap'[h] = artifacts
                    \/ hpc[h] = "skipStage" /\ hsnap'[h] = hsnap[h]
  <2>1. CASE UNCHANGED <<hsnap, htodo, hpc>>
    BY <2>1
  <2>2. ASSUME NEW g \in Handlers, Orchestrator(g), g # h
        PROVE  hsnap'[h] = hsnap[h] /\ htodo'[h] = htodo[h] /\ hpc'[h] = hpc[h]
    BY <2>2 DEF Orchestrator, HandlerGoto, FreeHandler, Deliver, Ack, ReadQueued, StartRun,
       ReadCompleted, CompleteRun, ReadFailed, SkipStage, FailRun, FindJobs, CreateJob,
       AddJob
  <2>3. CASE Orchestrator(h)
    <3>1. ASSUME NEW e \in Event, Deliver(h, e)
          PROVE  hsnap' = hsnap /\ htodo' = htodo /\ hpc'[h] # "skipStage"
      <4>1. e.name \in {"video.queued", "pipeline.stage_completed", "pipeline.stage_failed"}
        BY EventFacts
      <4>2. QED
        BY <3>1, <4>1 DEF Deliver, HandlerGoto
    <3>2. CASE Ack(h)
      BY <3>2 DEF Ack, FreeHandler, HandlerGoto
    <3>3. CASE ReadQueued(h) \/ StartRun(h) \/ CompleteRun(h) \/ SkipStage(h) \/ FailRun(h)
      BY <3>3 DEF ReadQueued, StartRun, CompleteRun, SkipStage, FailRun, HandlerGoto
    <3>4. CASE ReadCompleted(h) \/ ReadFailed(h)
      BY <3>4 DEF ReadCompleted, ReadFailed, HandlerGoto
    <3>5. CASE FindJobs(h)
      BY <3>5 DEF FindJobs, HandlerGoto, readyStages
    <3>6. CASE AddJob(h) \/ \E t \in Stages : CreateJob(h, t)
      BY <3>6 DEF AddJob, CreateJob, HandlerGoto
    <3>7. QED
      BY <2>3, <3>1, <3>2, <3>3, <3>4, <3>5, <3>6 DEF Orchestrator
  <2>4. ASSUME NEW g \in Handlers, HandlerCrash(g) \/ HandlerThrow(g) \/ ConnectionLost(g)
        PROVE  \/ UNCHANGED <<hsnap, htodo, hpc>>
               \/ hsnap'[h] = NoArtifacts /\ htodo'[h] = {} /\ hpc'[h] = "idle"
               \/ hsnap'[h] = hsnap[h] /\ htodo'[h] = htodo[h] /\ hpc'[h] = hpc[h]
    BY <2>4 DEF HandlerCrash, HandlerThrow, ConnectionLost, FreeHandler, HandlerGoto
  <2>5. QED
    BY <2>1, <2>2, <2>3, <2>4
       DEF Next, vars, Worker, Fault, TakeJob, LoadArtifacts, BodySucceeds, FinalizeVideo,
           BodyFails, SaveRead, SaveWrite, MarkCompleted, PublishCompleted, FinishJob,
           CatchError, MarkFailed, PublishFailed, Rethrow, Cancel, CancelRead, CancelVideo,
           CancelRuns, WorkerIoError, WorkerCrash
<1>2. ASSUME NEW x \in Stages
      PROVE  jobs'[x] # <<>> => jobs[x] # <<>> \/ \E h \in Handlers : x \in htodo[h]
  <2>1. ASSUME NEW h \in Handlers, NEW t \in Stages, CreateJob(h, t)
        PROVE  jobs'[x] # <<>> => jobs[x] # <<>> \/ x \in htodo[h]
    BY <2>1 DEF CreateJob
  <2>2. ASSUME NEW t \in Stages, MarkCompleted(t) \/ MarkFailed(t)
        PROVE  jobs'[x] # <<>> => jobs[x] # <<>>
    <3>1. PICK status \in JobStatus : updateJobs(t, status)
      BY <2>2 DEF MarkCompleted, MarkFailed, JobStatus
    <3>2. QED
      BY <3>1, UpdateRows DEF updateJobs
  <2>3. QED
    BY <2>1, <2>2
       DEF Next, vars, Orchestrator, Worker, Fault, Deliver, Ack, ReadQueued, StartRun,
           ReadCompleted, CompleteRun, ReadFailed, SkipStage, FailRun, FindJobs, AddJob,
           TakeJob, LoadArtifacts, BodySucceeds, FinalizeVideo, BodyFails, SaveRead,
           SaveWrite, PublishCompleted, FinishJob, CatchError, PublishFailed, Rethrow,
           Cancel, CancelRead, CancelVideo, CancelRuns, HandlerCrash, ConnectionLost,
           HandlerThrow, WorkerIoError, WorkerCrash
<1>3. ASSUME NEW x \in Stages
      PROVE  wpc'[x] = "saveWrite" =>
                 \/ wsnap'[x] = artifacts
                 \/ wpc[x] = "saveWrite" /\ wsnap'[x] = wsnap[x]
  <2>1. CASE UNCHANGED <<wsnap, wpc>>
    BY <2>1
  <2>2. ASSUME NEW t \in Stages, Worker(t), t # x
        PROVE  wsnap'[x] = wsnap[x] /\ wpc'[x] = wpc[x]
    BY <2>2 DEF Worker, WorkerGoto, LeaveJob, TakeJob, LoadArtifacts, BodySucceeds,
       FinalizeVideo, BodyFails, SaveRead, SaveWrite, MarkCompleted, PublishCompleted,
       FinishJob, CatchError, MarkFailed, PublishFailed, Rethrow
  <2>3. CASE Worker(x)
    BY <2>3 DEF Worker, WorkerGoto, LeaveJob, TakeJob, LoadArtifacts, BodySucceeds,
       FinalizeVideo, BodyFails, SaveRead, SaveWrite, MarkCompleted, PublishCompleted,
       FinishJob, CatchError, MarkFailed, PublishFailed, Rethrow
  <2>4. ASSUME NEW t \in Stages, WorkerIoError(t) \/ WorkerCrash(t)
        PROVE  wpc'[x] # "saveWrite" \/ (wsnap'[x] = wsnap[x] /\ wpc'[x] = wpc[x])
    BY <2>4 DEF WorkerIoError, WorkerCrash, WorkerGoto, LeaveJob
  <2>5. QED
    BY <2>1, <2>2, <2>3, <2>4
       DEF Next, vars, Orchestrator, Fault, Deliver, Ack, ReadQueued, StartRun,
           ReadCompleted, CompleteRun, ReadFailed, SkipStage, FailRun, FindJobs, CreateJob,
           AddJob, Cancel, CancelRead, CancelVideo, CancelRuns, HandlerCrash,
           ConnectionLost, HandlerThrow
<1>4. QED
  BY <1>1, <1>2, <1>3

\* KeptInv is kept.  A copy that is still to be written back belongs to a stage
\* that is not recorded, hence comes no earlier than a stage whose turn it
\* now is, and so holds what comes before both.
LEMMA NextKept ==
    TypeInv /\ RecordedInv /\ OrderInv /\ GiveUpInv /\ StartedInv /\ KeptInv /\ [Next]_vars
        /\ TypeInv' /\ RecordedInv' /\ StartedInv' /\ OnceInv' => KeptInv'
<1> SUFFICES ASSUME TypeInv, OrderInv, GiveUpInv, KeptInv, [Next]_vars,
                    TypeInv', RecordedInv', StartedInv', OnceInv',
                    NoFaults, BranchesJoin, NEW s \in Stages, waitedFor(s)'
             PROVE  kept(s)'
  BY DEF KeptInv, NoFaults, BranchesJoin
<1>1. ASSUME NEW t \in Stages, waitedFor(t)
      PROVE  kept(t)
  BY <1>1 DEF KeptInv
<1>2. CASE artifacts' = artifacts
  <2>1. waitedFor(s) \/ DependsOn[s] = {}
    BY <1>2, CopySteps, EmptyMap DEF waitedFor
  <2>2. kept(s) \/ before(s) = {}
    <3>1. DependsOn[s] = {} => before(s) \subseteq {}
      BY BeforeUnfold
    <3>2. QED
      BY <1>1, <2>1, <3>1
  <2>3. QED
    BY <1>2, <2>2, CopySteps DEF kept
<1>3. ASSUME NEW x \in Stages, NEW map \in ArtifactMap, columnWrite(x, map)
      PROVE  kept(s)'
  <2>1. ASSUME NEW t \in Stages, kept(t)
        PROVE  before(t) \subseteq completed(map)
    BY <1>3, <2>1 DEF columnWrite, kept
  <2>2. ASSUME waitedFor(s)
        PROVE  kept(s)'
    BY <1>1, <1>3, <2>1, <2>2 DEF columnWrite, kept
  <2>3. ASSUME DependsOn[s] \subseteq completed(artifacts')
        PROVE  kept(s)'
    <3>1. completed(artifacts') \subseteq recorded'
      BY DEF RecordedInv, completed
    <3>2. \A d \in DependsOn[s] : d \in Stages /\ jobs[d] # <<>>
      BY <1>3, <2>3, <3>1, DefinitionAssumption DEF StartedInv, started, columnWrite
    <3>3. \A d \in DependsOn[s] : before(d) \subseteq completed(artifacts')
      BY <1>1, <1>3, <2>1, <3>2 DEF waitedFor, columnWrite
    <3>4. before(s) \subseteq completed(artifacts')
      BY <2>3, <3>3, BeforeUnfold
    <3>5. ASSUME NEW y \in Stages, y \notin recorded', jobs[y] # <<>>
          PROVE  kept(y) /\ before(s) \subseteq before(y)
      <4>1. y \notin before(s)
        BY <3>1, <3>4, <3>5
      <4>2. QED
        BY <1>1, <3>5, <4>1 DEF waitedFor, BranchesJoin
    <3>6. ASSUME NEW y \in Stages, wpc'[y] = "saveWrite"
          PROVE  before(s) \subseteq completed(wsnap'[y])
      <4>1. y \notin recorded'
        BY <3>6 DEF OnceInv, NoFaults, unwritten
      <4>2. wpc[y] = "saveWrite" /\ wsnap' = wsnap
        BY <1>3, <3>6 DEF columnWrite
      <4>3. jobs[y] # <<>>
        BY <4>2 DEF OrderInv
      <4>4. QED
        BY <3>5, <4>1, <4>2, <4>3 DEF kept
    <3>7. ASSUME NEW h \in Handlers, hpc'[h] = "skipStage"
          PROVE  before(s) \subseteq completed(hsnap'[h])
      <4>1. hpc[h] = "skipStage" /\ hsnap' = hsnap /\ held' = held
        BY <1>3, <3>7 DEF columnWrite
      <4>2. PICK y \in Stages : held[h] = StageFailed(y)
        BY <4>1 DEF TypeInv, HoldsFailure
      <4>3. y \notin recorded'
        BY <3>7, <4>1, <4>2 DEF OnceInv, NoFaults, unwritten
      <4>4. jobs[y] # <<>>
        BY <4>2 DEF GiveUpInv, GivenUp
      <4>5. QED
        BY <3>5, <4>1, <4>3, <4>4 DEF kept
    <3>8. QED
      BY <3>4, <3>6, <3>7 DEF kept
  <2>4. waitedFor(s) \/ DependsOn[s] \subseteq completed(artifacts')
    BY <1>3 DEF columnWrite, waitedFor
  <2>5. QED
    BY <2>2, <2>3, <2>4
<1>4. QED
  BY <1>2, <1>3, ColumnSteps

\* BodyInv is kept: a stage that has a Job row finds all that comes before it
\* in the row it loads.
LEMMA NextBody ==
    TypeInv /\ OrderInv /\ KeptInv /\ BodyInv /\ [Next]_vars => BodyInv'
<1> SUFFICES ASSUME TypeOK, OrderInv, KeptInv, BodyInv, [Next]_vars, NoFaults,
                    BranchesJoin, NEW s \in Stages, wpc'[s] = "body"
             PROVE  before(s) \subseteq completed(wsnap'[s])
  BY DEF TypeInv, BodyInv, NoFaults, BranchesJoin
<1> USE DEF TypeOK, dbVars, bullVars, handlerVars, workerVars
<1>1. CASE UNCHANGED <<wpc, wsnap>>
  BY <1>1 DEF BodyInv
<1>2. ASSUME NEW t \in Stages, Worker(t), t # s
      PROVE  wpc'[s] = wpc[s] /\ wsnap'[s] = wsnap[s]
  BY <1>2 DEF Worker, WorkerGoto, LeaveJob, TakeJob, LoadArtifacts, BodySucceeds,
     FinalizeVideo, BodyFails, SaveRead, SaveWrite, MarkCompleted, PublishCompleted,
     FinishJob, CatchError, MarkFailed, PublishFailed, Rethrow
<1>3. CASE LoadArtifacts(s)
  <2>1. jobs[s] # <<>> /\ wsnap'[s] = artifacts
    BY <1>3 DEF LoadArtifacts, OrderInv
  <2>2. QED
    BY <2>1 DEF KeptInv, waitedFor, kept
<1>4. CASE Worker(s) /\ ~LoadArtifacts(s)
  BY <1>4 DEF Worker, WorkerGoto, LeaveJob, TakeJob, BodySucceeds, FinalizeVideo, BodyFails,
     SaveRead, SaveWrite, MarkCompleted, PublishCompleted, FinishJob, CatchError,
     MarkFailed, PublishFailed, Rethrow
<1>5. QED
  BY <1>1, <1>2, <1>3, <1>4, NoFaultStep
     DEF BodyInv, vars, Orchestrator, Deliver, Ack, ReadQueued, StartRun, ReadCompleted,
         CompleteRun, ReadFailed, SkipStage, FailRun, FindJobs, CreateJob, AddJob, Cancel,
         CancelRead, CancelVideo, CancelRuns

InputInv == ReportInv /\ OnceInv /\ KeptInv /\ BodyInv

\* A run that was just enqueued: nothing is reported, recorded or running.
LEMMA InitInput == Init => InputInv
<1> SUFFICES ASSUME Init PROVE InputInv
  OBVIOUS
<1>1. \A s \in Stages : StageFailed(s) \in Event /\ StageFailed(s) # Queued
  BY EventFacts
<1>2. \A s \in Stages : inbox[StageFailed(s)] = 0
  BY <1>1 DEF Init
<1>3. \A s \in Stages, h \in Handlers : held[h] # StageFailed(s)
  BY FailureEvents DEF Init
<1>4. ASSUME NEW s \in Stages, waitedFor(s)
      PROVE  kept(s)
  <2>1. DependsOn[s] = {}
    BY <1>4, EmptyMap DEF Init, waitedFor
  <2>2. before(s) \subseteq {}
    BY <2>1, BeforeUnfold
  <2>3. QED
    BY <2>2 DEF kept
<1>5. QED
  BY <1>2, <1>3, <1>4 DEF Init, InputInv, ReportInv, OnceInv, KeptInv, BodyInv

\* InputInv holds in every reachable state.
THEOREM InputInvariance == Spec => []InputInv
<1> DEFINE All == Inv /\ StartedInv /\ BillInv
<1>1. All /\ All' /\ InputInv /\ [Next]_vars => InputInv'
  <2> SUFFICES ASSUME All, All', InputInv, [Next]_vars PROVE InputInv'
    OBVIOUS
  <2>1. ReportInv' /\ OnceInv'
    BY NextReport, NextOnce DEF Inv, InputInv
  <2>2. KeptInv' /\ BodyInv'
    BY <2>1, NextKept, NextBody DEF Inv, InputInv
  <2>3. QED
    BY <2>1, <2>2 DEF InputInv
<1>2. QED
  BY InitInput, <1>1, Invariance, BillInvariance, PTL DEF Spec

\* Without faults, and in a definition whose branches join, the row a worker
\* loaded has the inputs of its body and the artifact of every stage it
\* waited for.
THEOREM RunningStageSeesInputsHolds ==
    ASSUME NoFaults, BranchesJoin, InputsComeBefore
    PROVE  Spec => []RunningStageSeesInputs
<1>1. Inv /\ InputInv => RunningStageSeesInputs
  <2> SUFFICES ASSUME Inv, InputInv, NEW s \in Stages, wpc[s] = "body"
               PROVE  inputsPresent(s) /\ DependsOn[s] \subseteq completed(wsnap[s])
    BY DEF RunningStageSeesInputs
  <2>1. before(s) \subseteq completed(wsnap[s])
    BY NoFaults, BranchesJoin DEF InputInv, BodyInv
  <2>2. ASSUME NEW r \in Requires[s]
        PROVE  wsnap[s][r] = "output"
    <3>1. r \in Stages \ Optional /\ r \in before(s)
      BY DefinitionAssumption, InputsComeBefore DEF InputsComeBefore
    <3>2. wsnap[s] \in ArtifactMap /\ wsnap[s][r] # "absent" /\ wsnap[s][r] # "skipped"
      BY <2>1, <3>1 DEF completed, Inv, SkippedInv, TypeInv, TypeOK
    <3>3. QED
      BY <3>1, <3>2 DEF ArtifactMap
  <2>3. QED
    BY <2>1, <2>2, BeforeIsClosed DEF inputsPresent
<1>2. QED
  BY <1>1, Invariance, InputInvariance, PTL

-----------------------------------------------------------------------------
(* Lost artifacts: where no two stages run side by side, what was recorded *)
(* stays in the row.  A stage whose artifact is about to be written is not *)
(* yet recorded, if nothing is optional or nothing goes wrong (an optional *)
(* stage may be skipped while its job, stalled and started again, still    *)
(* runs); of two such stages one would wait for the other, so there is one *)
(* writer at a time, and the copy it writes back has everything.           *)

\* A worker or a handler has read the row and is about to write it back with
\* the artifact of the stage.
writing(s) ==
    \/ wpc[s] = "saveWrite"
    \/ \E h \in Handlers : hpc[h] = "skipStage" /\ held[h] = StageFailed(s)

\* The row, and every copy of it that will be written back, has what was recorded.
WholeInv ==
    /\ recorded \subseteq completed(artifacts)
    /\ \A s \in Stages : wpc[s] = "saveWrite" => recorded \subseteq completed(wsnap[s])
    /\ \A h \in Handlers : hpc[h] = "skipStage" => recorded \subseteq completed(hsnap[h])

\* Where nothing is optional, a worker that runs its body has not recorded it.
BodyOnceInv ==
    Optional = {} =>
        \A s \in Stages : wpc[s] \in {"body", "saveRead", "saveWrite"} => s \notin recorded

OneWriter == OneAtATime /\ (Optional = {} \/ NoFaults)

LossInv == OneWriter => WholeInv /\ BodyOnceInv

\* A stage that is being written was handed out and is not recorded.
LEMMA WriterIsNew ==
    ASSUME TypeInv, OrderInv, GiveUpInv, OnceInv, BodyOnceInv, Optional = {} \/ NoFaults,
           NEW s \in Stages, writing(s)
    PROVE  jobs[s] # <<>> /\ s \notin recorded
<1>1. CASE wpc[s] = "saveWrite"
  <2>1. jobs[s] # <<>>
    BY <1>1 DEF OrderInv
  <2>2. s \notin recorded
    BY <1>1 DEF OnceInv, unwritten, BodyOnceInv
  <2>3. QED
    BY <2>1, <2>2
<1>2. ASSUME NEW h \in Handlers, hpc[h] = "skipStage", held[h] = StageFailed(s)
      PROVE  jobs[s] # <<>> /\ s \notin recorded
  <2>1. jobs[s] # <<>>
    BY <1>2 DEF GiveUpInv, GivenUp
  <2>2. Optional # {}
    BY <1>2 DEF TypeInv, HoldsFailure
  <2>3. s \notin recorded
    BY <1>2, <2>2 DEF OnceInv, unwritten
  <2>4. QED
    BY <2>1, <2>3
<1>3. QED
  BY <1>1, <1>2 DEF writing

\* There is one writer at a time.
LEMMA WriterIsAlone ==
    ASSUME OneAtATime, TypeInv, OrderInv, StartedInv,
           NEW s \in Stages, jobs[s] # <<>>, s \notin recorded,
           NEW t \in Stages, jobs[t] # <<>>, t \notin recorded
    PROVE  s = t
<1>1. DependsOn[s] \subseteq recorded /\ DependsOn[t] \subseteq recorded
  BY DEF OrderInv
<1>2. before(s) \subseteq recorded /\ before(t) \subseteq recorded
  BY <1>1, BeforeRecorded
<1>3. QED
  BY <1>2 DEF OneAtATime

\* BodyOnceInv is kept: a worker runs its body only if the row it loads, which
\* has all that was recorded, lacks its artifact.
LEMMA NextBodyOnce ==
    ASSUME TypeInv, WholeInv, BodyOnceInv, [Next]_vars
    PROVE  BodyOnceInv'
<1> SUFFICES ASSUME Optional = {}, NEW s \in Stages,
                    wpc'[s] \in {"body", "saveRead", "saveWrite"}
             PROVE  s \notin recorded'
  BY DEF BodyOnceInv
<1> USE DEF TypeInv, TypeOK, dbVars, bullVars, handlerVars, workerVars
<1>1. CASE Worker(s)
  <2>1. CASE LoadArtifacts(s)
    BY <1>1, <2>1 DEF LoadArtifacts, WorkerGoto, WholeInv, completed
  <2>2. CASE BodySucceeds(s) \/ (s = Finalize /\ FinalizeVideo) \/ SaveRead(s)
    BY <2>2 DEF BodySucceeds, FinalizeVideo, SaveRead, BodyOnceInv
  <2>3. QED
    BY <1>1, <2>1, <2>2 DEF Worker, WorkerGoto, LeaveJob, TakeJob, BodyFails, SaveWrite,
       MarkCompleted, PublishCompleted, FinishJob, CatchError, MarkFailed, PublishFailed,
       Rethrow
<1>2. CASE WorkerIoError(s) \/ WorkerCrash(s)
  BY <1>2 DEF WorkerIoError, WorkerCrash, WorkerGoto, LeaveJob
<1>3. ASSUME NEW t \in Stages, Worker(t) \/ WorkerIoError(t) \/ WorkerCrash(t), t # s
      PROVE  wpc'[s] = wpc[s] /\ (s \in recorded' => s \in recorded)
  BY <1>3 DEF Worker, WorkerGoto, LeaveJob, TakeJob, LoadArtifacts, BodySucceeds,
     FinalizeVideo, BodyFails, SaveRead, SaveWrite, MarkCompleted, PublishCompleted,
     FinishJob, CatchError, MarkFailed, PublishFailed, Rethrow, WorkerIoError, WorkerCrash
<1>4. ASSUME NEW h \in Handlers, SkipStage(h)
      PROVE  FALSE
  BY <1>4 DEF SkipStage, HoldsFailure
<1>5. CASE UNCHANGED <<wpc, recorded>>
  BY <1>5 DEF BodyOnceInv
<1>6. QED
  BY <1>1, <1>2, <1>3, <1>4, <1>5
     DEF BodyOnceInv, Next, vars, Orchestrator, Fault, Deliver, Ack, ReadQueued, StartRun,
         ReadCompleted, CompleteRun, ReadFailed, FailRun, FindJobs, CreateJob, AddJob,
         Cancel, CancelRead, CancelVideo, CancelRuns, HandlerCrash, ConnectionLost,
         HandlerThrow

\* LossInv is kept: the column is written from a copy that has everything, and
\* nobody else is about to write it back.
LEMMA NextLoss ==
    /\ TypeInv /\ OrderInv /\ GiveUpInv /\ StartedInv /\ OnceInv /\ LossInv /\ [Next]_vars
    /\ TypeInv' /\ OrderInv' /\ GiveUpInv' /\ StartedInv' /\ OnceInv'
    => LossInv'
<1> SUFFICES ASSUME TypeInv, OrderInv, GiveUpInv, StartedInv, OnceInv, WholeInv,
                    BodyOnceInv, [Next]_vars,
                    TypeInv', OrderInv', GiveUpInv', StartedInv', OnceInv',
                    OneAtATime, Optional = {} \/ NoFaults
             PROVE  WholeInv' /\ BodyOnceInv'
  BY DEF LossInv, OneWriter, NoFaults, OneAtATime
<1>1. BodyOnceInv'
  BY NextBodyOnce
<1>2. CASE artifacts' = artifacts /\ recorded' = recorded
  <2>1. ASSUME NEW s \in Stages, wpc'[s] = "saveWrite"
        PROVE  recorded \subseteq completed(wsnap'[s])
    <3>1. wsnap'[s] = artifacts \/ (wpc[s] = "saveWrite" /\ wsnap'[s] = wsnap[s])
      BY <2>1, CopySteps
    <3>2. QED
      BY <3>1 DEF WholeInv
  <2>2. ASSUME NEW h \in Handlers, hpc'[h] = "skipStage"
        PROVE  recorded \subseteq completed(hsnap'[h])
    <3>1. hsnap'[h] = artifacts \/ (hpc[h] = "skipStage" /\ hsnap'[h] = hsnap[h])
      BY <2>2, CopySteps
    <3>2. QED
      BY <3>1 DEF WholeInv
  <2>3. QED
    BY <1>1, <1>2, <2>1, <2>2 DEF WholeInv
<1>3. ASSUME NEW x \in Stages, NEW map \in ArtifactMap, columnWrite(x, map)
      PROVE  WholeInv'
  <2>1. recorded \subseteq completed(map)
    BY <1>3 DEF columnWrite, WholeInv
  <2>2. recorded' \subseteq completed(artifacts')
    BY <1>3, <2>1 DEF columnWrite
  <2>3. jobs[x] # <<>> /\ x \notin recorded
    BY <1>3, WriterIsNew DEF columnWrite, writing
  <2>4. ASSUME NEW y \in Stages, writing(y), writing(y)'
        PROVE  FALSE
    <3>1. jobs[y] # <<>> /\ y \notin recorded
      BY <2>4, WriterIsNew
    <3>2. y = x
      BY <2>3, <3>1, WriterIsAlone
    <3>3. y \notin recorded'
      <4>1. CASE wpc'[y] = "saveWrite"
        BY <1>1, <4>1 DEF OnceInv, unwritten, BodyOnceInv, NoFaults
      <4>2. ASSUME NEW h \in Handlers, hpc'[h] = "skipStage", held'[h] = StageFailed(y)
            PROVE  y \notin recorded'
        <5>1. Optional # {}
          BY <4>2 DEF TypeInv, HoldsFailure
        <5>2. QED
          BY <4>2, <5>1 DEF OnceInv, unwritten, NoFaults
      <4>3. QED
        BY <2>4, <4>1, <4>2 DEF writing
    <3>4. QED
      BY <1>3, <3>2, <3>3 DEF columnWrite
  <2>5. \A y \in Stages : wpc'[y] # "saveWrite"
    BY <1>3, <2>4 DEF columnWrite, writing
  <2>6. ASSUME NEW h \in Handlers, hpc'[h] = "skipStage"
        PROVE  FALSE
    <3>1. hpc[h] = "skipStage" /\ held' = held
      BY <1>3, <2>6 DEF columnWrite
    <3>2. PICK y \in Stages : held[h] = StageFailed(y)
      BY <3>1 DEF TypeInv, HoldsFailure
    <3>3. writing(y) /\ writing(y)'
      BY <2>6, <3>1, <3>2 DEF writing
    <3>4. QED
      BY <2>4, <3>3
  <2>7. QED
    BY <2>2, <2>5, <2>6 DEF WholeInv
<1>4. QED
  BY <1>1, <1>2, <1>3, ColumnSteps

\* Where no two stages run side by side, and nothing is optional or nothing
\* goes wrong, no write of the column drops an artifact.
THEOREM NoArtifactLostHolds ==
    ASSUME OneAtATime, Optional = {} \/ NoFaults
    PROVE  Spec => []NoArtifactLost
<1> DEFINE All == Inv /\ StartedInv /\ OnceInv
<1>1. Spec => []All
  BY Invariance, BillInvariance, InputInvariance, PTL DEF InputInv
<1>2. Init => LossInv
  BY DEF Init, LossInv, WholeInv, BodyOnceInv
<1>3. All /\ All' /\ LossInv /\ [Next]_vars => LossInv'
  BY NextLoss DEF Inv
<1>4. LossInv => NoArtifactLost
  BY DEF LossInv, OneWriter, WholeInv, NoArtifactLost, NoFaults, OneAtATime
<1>5. QED
  BY <1>1, <1>2, <1>3, <1>4, PTL DEF Spec

-----------------------------------------------------------------------------
(* Double billing: without a crash or a rejected call, finalize has        *)
(* succeeded for good once it has billed, and its body does not run again. *)

\* Where workers are safe, a run is billed at most once, whatever is
\* redelivered, enqueued twice or lost by the orchestrator.
THEOREM BilledAtMostOnceHolds ==
    ASSUME SafeWorkers
    PROVE  Spec => []BilledAtMostOnce
<1>1. Init => BilledAtMostOnce
  BY DEF Init, BilledAtMostOnce
<1>2. Inv /\ BillInv /\ BilledAtMostOnce /\ [Next]_vars => BilledAtMostOnce'
  <2> SUFFICES ASSUME TypeOK, OrderInv, BillInv, BilledAtMostOnce, [Next]_vars
               PROVE  BilledAtMostOnce'
    BY DEF Inv, TypeInv
  <2> USE DEF TypeOK, dbVars, bullVars, handlerVars, workerVars
  <2>1. CASE FinalizeVideo
    <3>1. wpc[Finalize] = "body" /\ bull[Finalize] = "active"
      BY <2>1, DefinitionAssumption DEF FinalizeVideo, OrderInv
    <3>2. ~succeeded(Finalize)
      BY <3>1 DEF succeeded
    <3>3. usage = 0
      BY <3>2, SafeWorkers DEF BillInv
    <3>4. QED
      BY <2>1, <3>3 DEF FinalizeVideo, BilledAtMostOnce
  <2>2. CASE usage' = usage
    BY <2>2 DEF BilledAtMostOnce
  <2>3. QED
    BY <2>1, <2>2
       DEF Next, Orchestrator, Worker, Fault, vars, Deliver, Ack, ReadQueued, StartRun,
           ReadCompleted, CompleteRun, ReadFailed, SkipStage, FailRun, FindJobs, CreateJob,
           AddJob, TakeJob, LoadArtifacts, BodySucceeds, BodyFails, SaveRead, SaveWrite,
           MarkCompleted, PublishCompleted, FinishJob, CatchError, MarkFailed,
           PublishFailed, Rethrow, Cancel, CancelRead, CancelVideo, CancelRuns,
           HandlerCrash, ConnectionLost, HandlerThrow, WorkerIoError, WorkerCrash
<1>3. QED
  BY <1>1, <1>2, Invariance, BillInvariance, PTL DEF Spec
==============================================================================
