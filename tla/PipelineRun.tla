---------------------------- MODULE PipelineRun -----------------------------
(***************************************************************************)
(* One run of the video pipeline: the replicated, stateless orchestrator   *)
(* (orchestrator.ts), the stage workers (stages/handlers.ts, runtime.ts),  *)
(* the BullMQ jobs and the RabbitMQ queues between them, the rows of the   *)
(* run in Postgres, and the API's cancel request (videos.service.ts).      *)
(*                                                                         *)
(* A handler is split wherever the code awaits: what it read before the    *)
(* await is kept in a variable of its own and may be stale when it writes. *)
(***************************************************************************)
EXTENDS PipelineDefinition, Sequences

CONSTANTS
    Handlers,     \* message slots of all orchestrator replicas (prefetch 10 each)
    NoStage,      \* a value that is not a stage
    FaultKinds,   \* the kinds of fault that may strike
    MaxFaults,    \* how many strike in all: the model's bound
    CancelAsked,  \* whether the user asks for a cancellation
    KvAnswers     \* whether the store of cancellation flags that the workers
                  \* ask before each job can be asked: see TakeJob

ASSUME RunAssumption ==
    /\ NoStage \notin Stages
    /\ FaultKinds \subseteq {"handlerCrash", "handlerThrow", "connectionLost",
                       "workerCrash", "ioError"}
    /\ MaxFaults \in Nat
    /\ CancelAsked \in BOOLEAN
    /\ KvAnswers \in BOOLEAN

VARIABLES
    runStatus,    \* PipelineRun.status
    videoStatus,  \* Video.status
    artifacts,    \* PipelineRun.artifacts: one JSON column, written whole
    jobs,         \* the Job rows of the run, by stage, oldest first
    usage,        \* number of UsageRecord rows written for the run
    bull,         \* state of the BullMQ job `runId:stage`
    attemptsMade, \* BullMQ's count of failed attempts of that job
    inbox,        \* events in the orchestrator's durable queues, as a bag
    hpc,          \* where each handler slot stands
    held,         \* the event the slot handles
    unacked,      \* slots whose event the broker still holds for them
    hsnap,        \* the artifacts it read
    htodo,        \* the stages it found ready and has not enqueued
    hcur,         \* the stage whose Job row it created last
    wpc,          \* where the worker of each stage's job stands
    wsnap,        \* the artifacts that worker read
    cpc,          \* where the cancel request stands
    faults,       \* faults so far
    recorded      \* history: stages whose artifact has been written

dbVars == <<runStatus, videoStatus, artifacts, jobs, usage, recorded>>
bullVars == <<bull, attemptsMade>>
handlerVars == <<hpc, held, unacked, hsnap, htodo, hcur>>
workerVars == <<wpc, wsnap>>
vars == <<dbVars, bullVars, inbox, handlerVars, workerVars, cpc, faults>>

-----------------------------------------------------------------------------
RunStatus == {"pending", "running", "completed", "failed", "cancelled"}
VideoStatus == {"queued", "generating", "ready", "failed", "cancelled"}
JobStatus == {"queued", "completed", "failed"}
ArtifactMap == [Stages -> {"absent", "output", "skipped"}]

NoArtifacts == [s \in Stages |-> "absent"]
completed(map) == {s \in Stages : map[s] # "absent"}
started == {s \in Stages : jobs[s] # <<>>}

Queued == [name |-> "video.queued", stage |-> NoStage]
StageCompleted(s) == [name |-> "pipeline.stage_completed", stage |-> s]
StageFailed(s) == [name |-> "pipeline.stage_failed", stage |-> s]
NoEvent == [name |-> "none", stage |-> NoStage]
Event == {Queued} \cup {StageCompleted(s) : s \in Stages}
                  \cup {StageFailed(s) : s \in Stages}

\* The state a committed enqueueGeneration leaves behind.
Init ==
    /\ runStatus = "pending"
    /\ videoStatus = "queued"
    /\ artifacts = NoArtifacts
    /\ jobs = [s \in Stages |-> <<>>]
    /\ usage = 0
    /\ bull = [s \in Stages |-> "absent"]
    /\ attemptsMade = [s \in Stages |-> 0]
    /\ inbox = [e \in Event |-> IF e = Queued THEN 1 ELSE 0]
    /\ hpc = [h \in Handlers |-> "idle"]
    /\ held = [h \in Handlers |-> NoEvent]
    /\ unacked = {}
    /\ hsnap = [h \in Handlers |-> NoArtifacts]
    /\ htodo = [h \in Handlers |-> {}]
    /\ hcur = [h \in Handlers |-> NoStage]
    /\ wpc = [s \in Stages |-> "idle"]
    /\ wsnap = [s \in Stages |-> NoArtifacts]
    /\ cpc = "idle"
    /\ faults = 0
    /\ recorded = {}

Strike(kind) ==
    /\ kind \in FaultKinds
    /\ faults < MaxFaults
    /\ faults' = faults + 1

publish(e) == inbox' = [inbox EXCEPT ![e] = @ + 1]

-----------------------------------------------------------------------------
(* The orchestrator's handlers.                                            *)

HandlerGoto(h, label) == hpc' = [hpc EXCEPT ![h] = label]

\* The slot forgets its event and everything it read.
FreeHandler(h) ==
    /\ HandlerGoto(h, "idle")
    /\ held' = [held EXCEPT ![h] = NoEvent]
    /\ unacked' = unacked \ {h}
    /\ hsnap' = [hsnap EXCEPT ![h] = NoArtifacts]
    /\ htodo' = [htodo EXCEPT ![h] = {}]
    /\ hcur' = [hcur EXCEPT ![h] = NoStage]

\* A free slot is handed an event of one of the three queues.
Deliver(h, e) ==
    /\ hpc[h] = "idle"
    /\ inbox[e] > 0
    /\ inbox' = [inbox EXCEPT ![e] = @ - 1]
    /\ held' = [held EXCEPT ![h] = e]
    /\ unacked' = unacked \cup {h}
    /\ HandlerGoto(h, CASE e.name = "video.queued" -> "onVideoQueued"
                        [] e.name = "pipeline.stage_completed" -> "onStageCompleted"
                        [] e.name = "pipeline.stage_failed" -> "onStageFailed")
    /\ UNCHANGED <<dbVars, bullVars, hsnap, htodo, hcur, workerVars, cpc,
                   faults>>

\* The handler's promise resolves: the event is acknowledged.
Ack(h) ==
    /\ hpc[h] = "ack"
    /\ FreeHandler(h)
    /\ UNCHANGED <<dbVars, bullVars, inbox, workerVars, cpc, faults>>

\* onVideoQueued reads the run and stops unless it is pending.
ReadQueued(h) ==
    /\ hpc[h] = "onVideoQueued"
    /\ HandlerGoto(h, IF runStatus = "pending" THEN "startRun" ELSE "ack")
    /\ UNCHANGED <<dbVars, bullVars, inbox, held, unacked, hsnap, htodo, hcur,
                   workerVars, cpc, faults>>

\* The transaction of onVideoQueued: it looks at neither status again.
StartRun(h) ==
    /\ hpc[h] = "startRun"
    /\ runStatus' = "running"
    /\ videoStatus' = "generating"
    /\ HandlerGoto(h, "findJobs")
    /\ UNCHANGED <<artifacts, jobs, usage, recorded, bullVars, inbox, held,
                   unacked, hsnap, htodo, hcur, workerVars, cpc, faults>>

\* Mutant: the run is complete once nothing that was started is outstanding.
ReadCompletedStarted(h) ==
    /\ hpc[h] = "onStageCompleted"
    /\ IF runStatus # "running"
       THEN HandlerGoto(h, "ack") /\ UNCHANGED hsnap
       ELSE /\ hsnap' = [hsnap EXCEPT ![h] = artifacts]
            /\ HandlerGoto(h, IF started \subseteq completed(artifacts)
                              THEN "completeRun" ELSE "findJobs")
    /\ UNCHANGED <<dbVars, bullVars, inbox, held, unacked, htodo, hcur,
                   workerVars, cpc, faults>>

\* onStageCompleted reads the run row, status and artifacts at once.
ReadCompleted(h) ==
    /\ hpc[h] = "onStageCompleted"
    /\ IF runStatus # "running"
       THEN HandlerGoto(h, "ack") /\ UNCHANGED hsnap
       ELSE /\ hsnap' = [hsnap EXCEPT ![h] = artifacts]
            /\ HandlerGoto(h, IF completed(artifacts) = Stages
                              THEN "completeRun" ELSE "findJobs")
    /\ UNCHANGED <<dbVars, bullVars, inbox, held, unacked, htodo, hcur,
                   workerVars, cpc, faults>>

CompleteRun(h) ==
    /\ hpc[h] = "completeRun"
    /\ runStatus' = "completed"
    /\ HandlerGoto(h, "ack")
    /\ UNCHANGED <<videoStatus, artifacts, jobs, usage, recorded, bullVars,
                   inbox, held, unacked, hsnap, htodo, hcur, workerVars, cpc,
                   faults>>

\* onStageFailed reads the run row and decides whether the stage is optional.
ReadFailed(h) ==
    /\ hpc[h] = "onStageFailed"
    /\ IF runStatus # "running"
       THEN HandlerGoto(h, "ack") /\ UNCHANGED hsnap
       ELSE /\ hsnap' = [hsnap EXCEPT ![h] = artifacts]
            /\ HandlerGoto(h, IF held[h].stage \in Optional
                              THEN "skipStage" ELSE "failRun")
    /\ UNCHANGED <<dbVars, bullVars, inbox, held, unacked, htodo, hcur,
                   workerVars, cpc, faults>>

\* The whole column is written back with a skipped artifact added, and the
\* handler goes on as if the stage had completed.
SkipStage(h) ==
    /\ hpc[h] = "skipStage"
    /\ artifacts' = [hsnap[h] EXCEPT ![held[h].stage] = "skipped"]
    /\ recorded' = recorded \cup {held[h].stage}
    /\ HandlerGoto(h, "onStageCompleted")
    /\ UNCHANGED <<runStatus, videoStatus, jobs, usage, bullVars, inbox, held,
                   unacked, hsnap, htodo, hcur, workerVars, cpc, faults>>

FailRun(h) ==
    /\ hpc[h] = "failRun"
    /\ runStatus' = "failed"
    /\ videoStatus' = "failed"
    /\ HandlerGoto(h, "ack")
    /\ UNCHANGED <<artifacts, jobs, usage, recorded, bullVars, inbox, held,
                   unacked, hsnap, htodo, hcur, workerVars, cpc, faults>>

\* enqueueReady, first await: the stages that already have a Job row.
FindJobs(h) ==
    /\ hpc[h] = "findJobs"
    /\ LET ready == readyStages(completed(hsnap[h]), started)
       IN  /\ htodo' = [htodo EXCEPT ![h] = ready]
           /\ HandlerGoto(h, IF ready = {} THEN "ack" ELSE "createJob")
    /\ UNCHANGED <<dbVars, bullVars, inbox, held, unacked, hsnap, hcur,
                   workerVars, cpc, faults>>

\* Second await: a Job row for the next ready stage.  Nothing in the schema
\* keeps a second row of the same stage out.
CreateJob(h, s) ==
    /\ hpc[h] = "createJob"
    /\ s \in htodo[h]
    /\ jobs' = [jobs EXCEPT ![s] = Append(@, "queued")]
    /\ htodo' = [htodo EXCEPT ![h] = @ \ {s}]
    /\ hcur' = [hcur EXCEPT ![h] = s]
    /\ HandlerGoto(h, "addJob")
    /\ UNCHANGED <<runStatus, videoStatus, artifacts, usage, recorded, bullVars,
                   inbox, held, unacked, hsnap, workerVars, cpc, faults>>

\* Mutant: the job is added without the id that keeps a second one out.
AddJobTwice(h) ==
    /\ hpc[h] = "addJob"
    /\ bull' = [bull EXCEPT ![hcur[h]] = "waiting"]
    /\ hcur' = [hcur EXCEPT ![h] = NoStage]
    /\ HandlerGoto(h, IF htodo[h] = {} THEN "ack" ELSE "createJob")
    /\ UNCHANGED <<dbVars, attemptsMade, inbox, held, unacked, hsnap, htodo,
                   workerVars, cpc, faults>>

\* Third await: queue.add, which does nothing when the job id is taken.
AddJob(h) ==
    /\ hpc[h] = "addJob"
    /\ bull' = [bull EXCEPT ![hcur[h]] = IF @ = "absent" THEN "waiting" ELSE @]
    /\ hcur' = [hcur EXCEPT ![h] = NoStage]
    /\ HandlerGoto(h, IF htodo[h] = {} THEN "ack" ELSE "createJob")
    /\ UNCHANGED <<dbVars, attemptsMade, inbox, held, unacked, hsnap, htodo,
                   workerVars, cpc, faults>>

\* The broker puts an event that was not acknowledged back into its queue.
Requeue(h) ==
    inbox' = IF h \in unacked THEN [inbox EXCEPT ![held[h]] = @ + 1] ELSE inbox

\* The replica dies with its connection to the broker.
HandlerCrash(h) ==
    /\ hpc[h] # "idle"
    /\ Strike("handlerCrash")
    /\ Requeue(h)
    /\ FreeHandler(h)
    /\ UNCHANGED <<dbVars, bullVars, workerVars, cpc>>

\* The connection is lost and made again.  The handler is not told: it goes on
\* while its event is delivered once more.
ConnectionLost(h) ==
    /\ h \in unacked
    /\ Strike("connectionLost")
    /\ Requeue(h)
    /\ unacked' = unacked \ {h}
    /\ UNCHANGED <<dbVars, bullVars, hpc, held, hsnap, htodo, hcur, workerVars,
                   cpc>>

\* An awaited call rejects: the bus nacks without requeue, the event is
\* dead-lettered and nothing reads it again.
HandlerThrow(h) ==
    /\ hpc[h] \notin {"idle", "ack"}
    /\ Strike("handlerThrow")
    /\ FreeHandler(h)
    /\ UNCHANGED <<dbVars, bullVars, inbox, workerVars, cpc>>

Orchestrator(h) ==
    \/ \E e \in Event : Deliver(h, e)
    \/ Ack(h)
    \/ ReadQueued(h)
    \/ StartRun(h)
    \/ ReadCompleted(h)
    \/ CompleteRun(h)
    \/ ReadFailed(h)
    \/ SkipStage(h)
    \/ FailRun(h)
    \/ FindJobs(h)
    \/ \E s \in Stages : CreateJob(h, s)
    \/ AddJob(h)

-----------------------------------------------------------------------------
(* The stage workers: stage(), saveArtifact() and the body of finalize.    *)

WorkerGoto(s, label) == wpc' = [wpc EXCEPT ![s] = label]

\* A worker takes the waiting job and asks for its cancellation flag, which
\* nothing sets.  createStageWorker asks its connection as a Redis client; what
\* main.ts passes are BullMQ's connection options, which have no get: with
\* those every job fails here, outside stage().
TakeJob(s) ==
    /\ bull[s] = "waiting"
    /\ bull' = [bull EXCEPT ![s] = "active"]
    /\ WorkerGoto(s, IF KvAnswers THEN "load" ELSE "rethrow")
    /\ UNCHANGED <<dbVars, attemptsMade, inbox, handlerVars, wsnap, cpc,
                   faults>>

\* An artifact of an earlier attempt makes the stage skip its body.
LoadArtifacts(s) ==
    /\ wpc[s] = "load"
    /\ wsnap' = [wsnap EXCEPT ![s] = artifacts]
    /\ WorkerGoto(s, IF artifacts[s] # "absent" THEN "mark" ELSE "body")
    /\ UNCHANGED <<dbVars, bullVars, inbox, handlerVars, cpc, faults>>

inputsPresent(s) == \A r \in Requires[s] : wsnap[s][r] = "output"

\* The body of a stage other than finalize returns its artifact.
BodySucceeds(s) ==
    /\ wpc[s] = "body"
    /\ s # Finalize
    /\ inputsPresent(s)
    /\ WorkerGoto(s, "saveRead")
    /\ UNCHANGED <<dbVars, bullVars, inbox, handlerVars, wsnap, cpc, faults>>

\* The body of finalize: one transaction publishes the video and bills for
\* it, whatever has become of the run meanwhile.
FinalizeVideo ==
    /\ wpc[Finalize] = "body"
    /\ inputsPresent(Finalize)
    /\ videoStatus' = "ready"
    /\ usage' = usage + 1
    /\ WorkerGoto(Finalize, "saveRead")
    /\ UNCHANGED <<runStatus, artifacts, jobs, recorded, bullVars, inbox,
                   handlerVars, wsnap, cpc, faults>>

\* A provider, ffmpeg or the storage fails, or an input is missing.
BodyFails(s) ==
    /\ wpc[s] = "body"
    /\ WorkerGoto(s, "catch")
    /\ UNCHANGED <<dbVars, bullVars, inbox, handlerVars, wsnap, cpc, faults>>

\* saveArtifact reads the row inside its transaction ...
SaveRead(s) ==
    /\ wpc[s] = "saveRead"
    /\ wsnap' = [wsnap EXCEPT ![s] = artifacts]
    /\ WorkerGoto(s, "saveWrite")
    /\ UNCHANGED <<dbVars, bullVars, inbox, handlerVars, cpc, faults>>

\* ... and writes the whole column.  READ COMMITTED, Postgres's default, lets
\* another transaction write between the two.
SaveWrite(s) ==
    /\ wpc[s] = "saveWrite"
    /\ artifacts' = [wsnap[s] EXCEPT ![s] = "output"]
    /\ recorded' = recorded \cup {s}
    /\ WorkerGoto(s, "mark")
    /\ UNCHANGED <<runStatus, videoStatus, jobs, usage, bullVars, inbox,
                   handlerVars, wsnap, cpc, faults>>

\* Mutant: the rows of the stage are replaced by one status.
updateJobsScalar(s, status) == jobs' = [jobs EXCEPT ![s] = status]

updateJobs(s, status) ==
    jobs' = [jobs EXCEPT ![s] = [i \in DOMAIN jobs[s] |-> status]]

MarkCompleted(s) ==
    /\ wpc[s] = "mark"
    /\ updateJobs(s, "completed")
    /\ WorkerGoto(s, "publish")
    /\ UNCHANGED <<runStatus, videoStatus, artifacts, usage, recorded, bullVars,
                   inbox, handlerVars, wsnap, cpc, faults>>

\* Mutant: the completion is not announced.
PublishCompletedLost(s) ==
    /\ wpc[s] = "publish"
    /\ WorkerGoto(s, "done")
    /\ UNCHANGED <<dbVars, bullVars, inbox, handlerVars, wsnap, cpc, faults>>

PublishCompleted(s) ==
    /\ wpc[s] = "publish"
    /\ publish(StageCompleted(s))
    /\ WorkerGoto(s, "done")
    /\ UNCHANGED <<dbVars, bullVars, handlerVars, wsnap, cpc, faults>>

LeaveJob(s) ==
    /\ WorkerGoto(s, "idle")
    /\ wsnap' = [wsnap EXCEPT ![s] = NoArtifacts]

FinishJob(s) ==
    /\ wpc[s] = "done"
    /\ bull' = [bull EXCEPT ![s] = "completed"]
    /\ LeaveJob(s)
    /\ UNCHANGED <<dbVars, attemptsMade, inbox, handlerVars, cpc, faults>>

\* Mutant: the last attempt is taken to be one earlier.
CatchErrorEarly(s) ==
    /\ wpc[s] = "catch"
    /\ WorkerGoto(s, IF attemptsMade[s] + 2 >= MaxAttempts[s]
                     THEN "markFailed" ELSE "rethrow")
    /\ UNCHANGED <<dbVars, bullVars, inbox, handlerVars, wsnap, cpc, faults>>

\* The catch block: only the final attempt is reported.
CatchError(s) ==
    /\ wpc[s] = "catch"
    /\ WorkerGoto(s, IF attemptsMade[s] + 1 >= MaxAttempts[s]
                     THEN "markFailed" ELSE "rethrow")
    /\ UNCHANGED <<dbVars, bullVars, inbox, handlerVars, wsnap, cpc, faults>>

MarkFailed(s) ==
    /\ wpc[s] = "markFailed"
    /\ updateJobs(s, "failed")
    /\ WorkerGoto(s, "publishFailed")
    /\ UNCHANGED <<runStatus, videoStatus, artifacts, usage, recorded, bullVars,
                   inbox, handlerVars, wsnap, cpc, faults>>

PublishFailed(s) ==
    /\ wpc[s] = "publishFailed"
    /\ publish(StageFailed(s))
    /\ WorkerGoto(s, "rethrow")
    /\ UNCHANGED <<dbVars, bullVars, handlerVars, wsnap, cpc, faults>>

\* Mutant: the job is tried again without end.
RethrowForever(s) ==
    /\ wpc[s] = "rethrow"
    /\ bull' = [bull EXCEPT ![s] = "waiting"]
    /\ LeaveJob(s)
    /\ UNCHANGED <<dbVars, attemptsMade, inbox, handlerVars, cpc, faults>>

\* BullMQ counts the attempt and delays the job or gives it up.
Rethrow(s) ==
    /\ wpc[s] = "rethrow"
    /\ attemptsMade' = [attemptsMade EXCEPT ![s] = @ + 1]
    /\ bull' = [bull EXCEPT ![s] = IF attemptsMade[s] + 1 < MaxAttempts[s]
                                   THEN "waiting" ELSE "failed"]
    /\ LeaveJob(s)
    /\ UNCHANGED <<dbVars, inbox, handlerVars, cpc, faults>>

\* Postgres or RabbitMQ rejects the call of this step: inside the try block
\* the error is caught, inside the catch block it replaces the first error.
WorkerIoError(s) ==
    /\ Strike("ioError")
    /\ \/ /\ wpc[s] \in {"load", "saveRead", "saveWrite", "mark", "publish"}
          /\ WorkerGoto(s, "catch")
       \/ /\ wpc[s] \in {"catch", "markFailed", "publishFailed"}
          /\ WorkerGoto(s, "rethrow")
    /\ UNCHANGED <<dbVars, bullVars, inbox, handlerVars, wsnap, cpc>>

\* The worker dies: BullMQ finds the job stalled and makes it wait again.
WorkerCrash(s) ==
    /\ wpc[s] # "idle"
    /\ Strike("workerCrash")
    /\ bull' = [bull EXCEPT ![s] = "waiting"]
    /\ LeaveJob(s)
    /\ UNCHANGED <<dbVars, attemptsMade, inbox, handlerVars, cpc>>

Worker(s) ==
    \/ TakeJob(s)
    \/ LoadArtifacts(s)
    \/ BodySucceeds(s)
    \/ s = Finalize /\ FinalizeVideo
    \/ BodyFails(s)
    \/ SaveRead(s)
    \/ SaveWrite(s)
    \/ MarkCompleted(s)
    \/ PublishCompleted(s)
    \/ FinishJob(s)
    \/ CatchError(s)
    \/ MarkFailed(s)
    \/ PublishFailed(s)
    \/ Rethrow(s)

-----------------------------------------------------------------------------
(* The API's cancel request, while the pipeline runs.                      *)

\* The video is read and the transition checked against VIDEO_TRANSITIONS.
CancelRead ==
    /\ cpc = "idle"
    /\ CancelAsked
    /\ cpc' = IF videoStatus \in {"queued", "generating"}
              THEN "cancelVideo" ELSE "refused"
    /\ UNCHANGED <<dbVars, bullVars, inbox, handlerVars, workerVars, faults>>

CancelVideo ==
    /\ cpc = "cancelVideo"
    /\ videoStatus' = "cancelled"
    /\ cpc' = "cancelRuns"
    /\ UNCHANGED <<runStatus, artifacts, jobs, usage, recorded, bullVars, inbox,
                   handlerVars, workerVars, faults>>

\* Mutant: the update of the runs is not restricted to those still open.
CancelRunsAnyway ==
    /\ cpc = "cancelRuns"
    /\ runStatus' = "cancelled"
    /\ cpc' = "cancelled"
    /\ UNCHANGED <<videoStatus, artifacts, jobs, usage, recorded, bullVars,
                   inbox, handlerVars, workerVars, faults>>

\* video.cancelled is then published; the orchestrator does not subscribe.
CancelRuns ==
    /\ cpc = "cancelRuns"
    /\ runStatus' = IF runStatus \in {"pending", "running"}
                    THEN "cancelled" ELSE runStatus
    /\ cpc' = "cancelled"
    /\ UNCHANGED <<videoStatus, artifacts, jobs, usage, recorded, bullVars,
                   inbox, handlerVars, workerVars, faults>>

Cancel == CancelRead \/ CancelVideo \/ CancelRuns

Fault ==
    \/ \E h \in Handlers : HandlerCrash(h) \/ HandlerThrow(h) \/ ConnectionLost(h)
    \/ \E s \in Stages : WorkerIoError(s) \/ WorkerCrash(s)

Next ==
    \/ \E h \in Handlers : Orchestrator(h)
    \/ \E s \in Stages : Worker(s)
    \/ Cancel
    \/ Fault

(***************************************************************************)
(* RabbitMQ keeps delivering to a connected consumer, Node keeps running   *)
(* the handlers' continuations and BullMQ keeps handing out waiting jobs.  *)
(* Nothing obliges a fault to strike or a user to cancel.                  *)
(***************************************************************************)
Fairness ==
    /\ \A h \in Handlers : WF_vars(Orchestrator(h))
    /\ \A s \in Stages : WF_vars(Worker(s))

Spec == Init /\ [][Next]_vars
FairSpec == Spec /\ Fairness

-----------------------------------------------------------------------------
(* Properties.                                                             *)

HandlerLabel == {"idle", "onVideoQueued", "startRun", "onStageCompleted",
                 "completeRun", "onStageFailed", "skipStage", "failRun",
                 "findJobs", "createJob", "addJob", "ack"}
WorkerLabel == {"idle", "load", "body", "saveRead", "saveWrite", "mark",
                "publish", "done", "catch", "markFailed", "publishFailed",
                "rethrow"}

\* Every variable holds a value of its type.
TypeOK ==
    /\ runStatus \in RunStatus
    /\ videoStatus \in VideoStatus
    /\ artifacts \in ArtifactMap
    /\ jobs \in [Stages -> Seq(JobStatus)]
    /\ usage \in Nat
    /\ bull \in [Stages -> {"absent", "waiting", "active", "completed", "failed"}]
    /\ attemptsMade \in [Stages -> Nat]
    /\ inbox \in [Event -> Nat]
    /\ hpc \in [Handlers -> HandlerLabel]
    /\ held \in [Handlers -> Event \cup {NoEvent}]
    /\ unacked \in SUBSET Handlers
    /\ hsnap \in [Handlers -> ArtifactMap]
    /\ htodo \in [Handlers -> SUBSET Stages]
    /\ hcur \in [Handlers -> Stages \cup {NoStage}]
    /\ wpc \in [Stages -> WorkerLabel]
    /\ wsnap \in [Stages -> ArtifactMap]
    /\ cpc \in {"idle", "cancelVideo", "cancelRuns", "cancelled", "refused"}
    /\ faults \in Nat
    /\ recorded \in SUBSET Stages

\* enqueueReady hands out a stage only after the artifact of each stage it
\* depends on was recorded, however stale the row a handler read and whatever
\* crashed, was redelivered or was overwritten in between.
EnqueuedAfterDependencies ==
    \A s \in Stages : jobs[s] # <<>> \/ bull[s] # "absent"
                          => DependsOn[s] \subseteq recorded

\* completeRun closes a run only when every stage left an artifact and
\* finalize billed for it, although the column it read may since have lost some.
CompletedRunIsComplete ==
    runStatus = "completed" => recorded = Stages /\ usage > 0

exhausted(s) == attemptsMade[s] + 1 >= MaxAttempts[s]

\* A stage is given up (skipped, or fatal to the run) only on its last attempt:
\* neither a crash nor a redelivered event cuts its attempts short.
NoPrematureGiveUp ==
    /\ \A s \in Stages : artifacts[s] = "skipped" => s \in Optional /\ exhausted(s)
    /\ runStatus = "failed" => \E s \in Stages \ Optional : exhausted(s)

\* The inputs a body throws without, and the artifacts of every stage it waited
\* for, are in the row its worker loaded.
RunningStageSeesInputs ==
    \A s \in Stages :
        wpc[s] = "body" => inputsPresent(s) /\ DependsOn[s] \subseteq completed(wsnap[s])

\* A run that failed was not billed: no stage that can fail the run is still
\* going when finalize writes its usage record.
FailedRunIsUnbilled == runStatus = "failed" => usage = 0

\* saveArtifact and the skipping of an optional stage never drop an artifact
\* another stage recorded: what was written once stays in the row.
NoArtifactLost == recorded \subseteq completed(artifacts)

\* finalize bills a run at most once.
BilledAtMostOnce == usage <= 1

\* A run the orchestrator started comes to an end.
RunTerminates == runStatus = "running" ~> runStatus # "running"

\* A mandatory stage that exhausts its retries takes the run with it: its
\* last attempt is reported and the run marked failed.
ExhaustedStageEndsRun ==
    \A s \in Stages \ Optional : bull[s] = "failed" ~> runStatus # "running"

quiet ==
    /\ \A h \in Handlers : hpc[h] = "idle"
    /\ \A e \in Event : inbox[e] = 0
    /\ \A s \in Stages : bull[s] \notin {"waiting", "active"}

\* Whatever becomes of the run, its jobs, retries and events die out.
EventuallyQuiet == <>[]quiet

\* The run as the abstract protocol sees it.
Protocol == INSTANCE RunProtocol
    WITH MayRestart <- "connectionLost" \in FaultKinds,
         status <- runStatus, begun <- started, produced <- recorded

\* Every step of the code is a step of the protocol or changes nothing of it.
ImplementsProtocol == Protocol!PSpec
=============================================================================
