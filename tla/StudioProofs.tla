---------------------------- MODULE StudioProofs ----------------------------
(***************************************************************************)
(* Theorems about the studio and what it works on: videos, the editor's    *)
(* drafts, the lists of a workspace, the queries the pages cache and the   *)
(* live channel, for any number of requests, runs, rows and failures.      *)
(***************************************************************************)
EXTENDS Videos, Editor, Workspace, Studio, LiveEvents, SequenceTheorems, FiniteSetTheorems, TLAPS

-----------------------------------------------------------------------------
(* Videos.  Every write of "queued" or "generating" comes with somebody    *)
(* who will write the video again: a request that has not published, an    *)
(* event that waits, or a run that has not ended; unless the video was     *)
(* deleted, when nobody will.  What a run finds in its own row is what it  *)
(* wrote there, as long as nobody cancels.                                 *)

CallLabel == {"idle", "generate", "publish", "cancel", "cancelRuns"}
FlowLabel == {"idle", "starting", "stages", "finalize", "finalized", "broken", "completing",
              "failing", "over"}
VideoRunStatus == {"none", "pending", "running", "completed", "failed", "cancelled"}

VideosTypeOK ==
    /\ run \in [Runs -> VideoRunStatus]
    /\ announced \subseteq Runs
    /\ flow \in [Runs -> FlowLabel]
    /\ vcall \in [VideoCalls -> [at : CallLabel, run : Runs \cup {NoRun}]]
    /\ \A c \in VideoCalls : vcall[c].at = "publish" => vcall[c].run \in Runs
    /\ \A c \in VideoCalls : vcall[c].at = "idle" => vcall[c] = NoCall
    /\ deaths \in Nat /\ aborts \in Nat
    /\ raced \in BOOLEAN

publishing(c, r) == vcall[c].at = "publish" /\ vcall[c].run = r

\* A run whose pipeline goes on.
inFlow(r) == flow[r] \in {"stages", "finalize", "finalized", "broken", "completing", "failing"}

\* As long as the video is there, a run that is not decided is announced, about
\* to be or under way.
UndecidedInv ==
    deaths = 0 /\ ~videoGone =>
        \A r \in Runs :
            /\ run[r] = "pending" => \/ r \in announced
                                     \/ flow[r] = "starting"
                                     \/ \E c \in VideoCalls : publishing(c, r)
            /\ run[r] = "running" => inFlow(r)

\* Where nobody cancels, the row of a run says where its pipeline stands, and
\* a run is announced once.
FlowInv ==
    aborts = 0 =>
        /\ \A c \in VideoCalls : vcall[c].at \notin {"cancel", "cancelRuns"}
        /\ \A r \in Runs :
              /\ run[r] = "none" => flow[r] = "idle"
              /\ r \in announced => run[r] = "pending" /\ flow[r] = "idle"
              /\ flow[r] = "starting" => run[r] = "pending"
              /\ inFlow(r) => run[r] = "running"
              /\ \A c \in VideoCalls : publishing(c, r) =>
                     /\ run[r] = "pending" /\ flow[r] = "idle" /\ r \notin announced
                     /\ \A d \in VideoCalls : publishing(d, r) => c = d

\* The run will write the video's status again, unless it was deleted.
willWrite(r) ==
    \/ r \in announced
    \/ flow[r] \in {"starting", "stages", "finalize", "broken", "failing"}
    \/ \E c \in VideoCalls : publishing(c, r)

WaitingInv ==
    deaths = 0 /\ aborts = 0 /\ ~videoGone /\ video \in {"queued", "generating"} =>
        \E r \in Runs : willWrite(r)

\* The run is not decided, and its video not ready.
unfinished(r) ==
    run[r] \in {"pending", "running"} /\ flow[r] \notin {"finalized", "completing"}

\* Where requests do not overlap and nothing is cancelled or breaks, one run
\* at most is unfinished, even one that nobody will take up, and the video says so.
AloneInv ==
    ~raced =>
        /\ aborts = 0
        /\ \A c, d \in VideoCalls : vcall[c] # NoCall /\ vcall[d] # NoCall => c = d
        /\ \A q, r \in Runs : unfinished(q) /\ unfinished(r) => q = r
        /\ (\E r \in Runs : unfinished(r)) =>
               /\ video \in {"queued", "generating"}
               /\ \A c \in VideoCalls : vcall[c].at # "generate"

VideosInv == VideosTypeOK /\ UndecidedInv /\ FlowInv /\ WaitingInv /\ AloneInv

\* Every step keeps the types, and the positions of requests and runs.
LEMMA NextVideosTypeOK == VideosTypeOK /\ [VideosNext]_videoVars => VideosTypeOK'
<1> SUFFICES ASSUME VideosTypeOK, [VideosNext]_videoVars PROVE VideosTypeOK'
  OBVIOUS
<1> USE VideosAssumption DEF VideosTypeOK, CallLabel, FlowLabel, VideoRunStatus,
    NoCall, NoRun
<1>1. ASSUME NEW c \in VideoCalls, CreateVideo(c)
      PROVE  VideosTypeOK'
  BY <1>1 DEF CreateVideo
<1>2. ASSUME NEW c \in VideoCalls, CheckGenerate(c)
      PROVE  VideosTypeOK'
  BY <1>2 DEF CheckGenerate, VideoGoto, found, canTransition, VideoTransitions
<1>3. ASSUME NEW c \in VideoCalls, EnqueueGeneration(c)
      PROVE  VideosTypeOK'
  BY <1>3 DEF EnqueueGeneration, VideoGoto
<1>4. ASSUME NEW c \in VideoCalls, PublishQueued(c)
      PROVE  VideosTypeOK'
  BY <1>4 DEF PublishQueued, VideoGoto
<1>5. ASSUME NEW c \in VideoCalls, CheckCancel(c)
      PROVE  VideosTypeOK'
  BY <1>5 DEF CheckCancel, VideoGoto, found, canTransition, VideoTransitions
<1>6. ASSUME NEW c \in VideoCalls, CancelVideo(c)
      PROVE  VideosTypeOK'
  BY <1>6 DEF CancelVideo, VideoGoto
<1>7. ASSUME NEW c \in VideoCalls, CancelRuns(c)
      PROVE  VideosTypeOK'
  BY <1>7 DEF CancelRuns, VideoGoto
<1>8. ASSUME NEW c \in VideoCalls, SoftDelete(c)
      PROVE  VideosTypeOK'
  BY <1>8 DEF SoftDelete, found
<1>9. ASSUME NEW c \in VideoCalls, RequestDies(c)
      PROVE  VideosTypeOK'
  BY <1>9 DEF RequestDies, VideoGoto
<1>10. ASSUME NEW r \in Runs, OnVideoQueued(r)
      PROVE  VideosTypeOK'
  BY <1>10 DEF OnVideoQueued, FlowGoto
<1>11. ASSUME NEW r \in Runs, StartRun(r)
      PROVE  VideosTypeOK'
  BY <1>11 DEF StartRun, writesBoth, FlowGoto
<1>12. ASSUME NEW r \in Runs, OnStage(r)
      PROVE  VideosTypeOK'
  BY <1>12 DEF OnStage, FlowGoto
<1>13. ASSUME NEW r \in Runs, Finalize(r)
      PROVE  VideosTypeOK'
  BY <1>13 DEF Finalize, FlowGoto
<1>14. ASSUME NEW r \in Runs, OnFinalized(r)
      PROVE  VideosTypeOK'
  BY <1>14 DEF OnFinalized, FlowGoto
<1>15. ASSUME NEW r \in Runs, CompleteRun(r)
      PROVE  VideosTypeOK'
  BY <1>15 DEF CompleteRun, FlowGoto
<1>16. ASSUME NEW r \in Runs, FailRun(r)
      PROVE  VideosTypeOK'
  BY <1>16 DEF FailRun, writesBoth, FlowGoto
<1>17. CASE UNCHANGED videoVars
  BY <1>17 DEF videoVars
<1>18. QED
  BY <1>1, <1>2, <1>3, <1>4, <1>5, <1>6, <1>7, <1>8, <1>9, <1>10, <1>11, <1>12,
     <1>13, <1>14, <1>15, <1>16, <1>17 DEF VideosNext

\* UndecidedInv is kept: whoever takes a run up, or moves it on, leaves it where
\* somebody will find it.
LEMMA NextUndecided == VideosTypeOK /\ UndecidedInv /\ [VideosNext]_videoVars => UndecidedInv'
<1> SUFFICES ASSUME VideosTypeOK, UndecidedInv, [VideosNext]_videoVars PROVE UndecidedInv'
  OBVIOUS
<1> USE VideosAssumption DEF VideosTypeOK, UndecidedInv, CallLabel, FlowLabel, VideoRunStatus,
    NoCall, NoRun, publishing, inFlow
<1>1. ASSUME NEW c \in VideoCalls, CreateVideo(c)
      PROVE  UndecidedInv'
  BY <1>1 DEF CreateVideo
<1>2. ASSUME NEW c \in VideoCalls, CheckGenerate(c)
      PROVE  UndecidedInv'
  BY <1>2 DEF CheckGenerate, VideoGoto, found, canTransition, VideoTransitions
<1>3. ASSUME NEW c \in VideoCalls, EnqueueGeneration(c)
      PROVE  UndecidedInv'
  BY <1>3 DEF EnqueueGeneration, VideoGoto
<1>4. ASSUME NEW c \in VideoCalls, PublishQueued(c)
      PROVE  UndecidedInv'
  BY <1>4 DEF PublishQueued, VideoGoto
<1>5. ASSUME NEW c \in VideoCalls, CheckCancel(c)
      PROVE  UndecidedInv'
  BY <1>5 DEF CheckCancel, VideoGoto, found, canTransition, VideoTransitions
<1>6. ASSUME NEW c \in VideoCalls, CancelVideo(c)
      PROVE  UndecidedInv'
  BY <1>6 DEF CancelVideo, VideoGoto
<1>7. ASSUME NEW c \in VideoCalls, CancelRuns(c)
      PROVE  UndecidedInv'
  BY <1>7 DEF CancelRuns, VideoGoto
<1>8. ASSUME NEW c \in VideoCalls, SoftDelete(c)
      PROVE  UndecidedInv'
  BY <1>8 DEF SoftDelete, found
<1>9. ASSUME NEW c \in VideoCalls, RequestDies(c)
      PROVE  UndecidedInv'
  BY <1>9 DEF RequestDies, VideoGoto
<1>10. ASSUME NEW r \in Runs, OnVideoQueued(r)
      PROVE  UndecidedInv'
  BY <1>10 DEF OnVideoQueued, FlowGoto
<1>11. ASSUME NEW r \in Runs, StartRun(r)
      PROVE  UndecidedInv'
  BY <1>11 DEF StartRun, writesBoth, FlowGoto
<1>12. ASSUME NEW r \in Runs, OnStage(r)
      PROVE  UndecidedInv'
  BY <1>12 DEF OnStage, FlowGoto
<1>13. ASSUME NEW r \in Runs, Finalize(r)
      PROVE  UndecidedInv'
  BY <1>13 DEF Finalize, FlowGoto
<1>14. ASSUME NEW r \in Runs, OnFinalized(r)
      PROVE  UndecidedInv'
  BY <1>14 DEF OnFinalized, FlowGoto
<1>15. ASSUME NEW r \in Runs, CompleteRun(r)
      PROVE  UndecidedInv'
  BY <1>15 DEF CompleteRun, FlowGoto
<1>16. ASSUME NEW r \in Runs, FailRun(r)
      PROVE  UndecidedInv'
  BY <1>16 DEF FailRun, writesBoth, FlowGoto
<1>17. CASE UNCHANGED videoVars
  BY <1>17 DEF videoVars
<1>18. QED
  BY <1>1, <1>2, <1>3, <1>4, <1>5, <1>6, <1>7, <1>8, <1>9, <1>10, <1>11, <1>12,
     <1>13, <1>14, <1>15, <1>16, <1>17 DEF VideosNext

\* FlowInv is kept: a run is given out once, and only its own pipeline writes it.
LEMMA NextFlow == VideosTypeOK /\ FlowInv /\ [VideosNext]_videoVars => FlowInv'
<1> SUFFICES ASSUME VideosTypeOK, FlowInv, [VideosNext]_videoVars PROVE FlowInv'
  OBVIOUS
<1> USE VideosAssumption DEF VideosTypeOK, FlowInv, CallLabel, FlowLabel, VideoRunStatus,
    NoCall, NoRun, publishing, inFlow
<1>1. ASSUME NEW c \in VideoCalls, CreateVideo(c)
      PROVE  FlowInv'
  BY <1>1 DEF CreateVideo
<1>2. ASSUME NEW c \in VideoCalls, CheckGenerate(c)
      PROVE  FlowInv'
  BY <1>2 DEF CheckGenerate, VideoGoto, found, canTransition, VideoTransitions
<1>3. ASSUME NEW c \in VideoCalls, EnqueueGeneration(c)
      PROVE  FlowInv'
  BY <1>3 DEF EnqueueGeneration, VideoGoto
<1>4. ASSUME NEW c \in VideoCalls, PublishQueued(c)
      PROVE  FlowInv'
  BY <1>4 DEF PublishQueued, VideoGoto
<1>5. ASSUME NEW c \in VideoCalls, CheckCancel(c)
      PROVE  FlowInv'
  BY <1>5 DEF CheckCancel, VideoGoto, found, canTransition, VideoTransitions
<1>6. ASSUME NEW c \in VideoCalls, CancelVideo(c)
      PROVE  FlowInv'
  BY <1>6 DEF CancelVideo, VideoGoto
<1>7. ASSUME NEW c \in VideoCalls, CancelRuns(c)
      PROVE  FlowInv'
  BY <1>7 DEF CancelRuns, VideoGoto
<1>8. ASSUME NEW c \in VideoCalls, SoftDelete(c)
      PROVE  FlowInv'
  BY <1>8 DEF SoftDelete, found
<1>9. ASSUME NEW c \in VideoCalls, RequestDies(c)
      PROVE  FlowInv'
  BY <1>9 DEF RequestDies, VideoGoto
<1>10. ASSUME NEW r \in Runs, OnVideoQueued(r)
      PROVE  FlowInv'
  BY <1>10 DEF OnVideoQueued, FlowGoto
<1>11. ASSUME NEW r \in Runs, StartRun(r)
      PROVE  FlowInv'
  BY <1>11 DEF StartRun, writesBoth, FlowGoto
<1>12. ASSUME NEW r \in Runs, OnStage(r)
      PROVE  FlowInv'
  BY <1>12 DEF OnStage, FlowGoto
<1>13. ASSUME NEW r \in Runs, Finalize(r)
      PROVE  FlowInv'
  BY <1>13 DEF Finalize, FlowGoto
<1>14. ASSUME NEW r \in Runs, OnFinalized(r)
      PROVE  FlowInv'
  BY <1>14 DEF OnFinalized, FlowGoto
<1>15. ASSUME NEW r \in Runs, CompleteRun(r)
      PROVE  FlowInv'
  BY <1>15 DEF CompleteRun, FlowGoto
<1>16. ASSUME NEW r \in Runs, FailRun(r)
      PROVE  FlowInv'
  BY <1>16 DEF FailRun, writesBoth, FlowGoto
<1>17. CASE UNCHANGED videoVars
  BY <1>17 DEF videoVars
<1>18. QED
  BY <1>1, <1>2, <1>3, <1>4, <1>5, <1>6, <1>7, <1>8, <1>9, <1>10, <1>11, <1>12,
     <1>13, <1>14, <1>15, <1>16, <1>17 DEF VideosNext

\* WaitingInv is kept: who writes "queued" or "generating" will write again, and
\* who has written for the last time wrote something else.
LEMMA NextWaiting == VideosTypeOK /\ FlowInv /\ WaitingInv /\ [VideosNext]_videoVars => WaitingInv'
<1> SUFFICES ASSUME VideosTypeOK, FlowInv, WaitingInv, [VideosNext]_videoVars PROVE WaitingInv'
  OBVIOUS
<1> USE VideosAssumption DEF VideosTypeOK, WaitingInv, FlowInv, CallLabel, FlowLabel, VideoRunStatus,
    NoCall, NoRun, publishing, inFlow, willWrite
<1>1. ASSUME NEW c \in VideoCalls, CreateVideo(c)
      PROVE  WaitingInv'
  BY <1>1 DEF CreateVideo
<1>2. ASSUME NEW c \in VideoCalls, CheckGenerate(c)
      PROVE  WaitingInv'
  BY <1>2 DEF CheckGenerate, VideoGoto, found, canTransition, VideoTransitions
<1>3. ASSUME NEW c \in VideoCalls, EnqueueGeneration(c)
      PROVE  WaitingInv'
  BY <1>3 DEF EnqueueGeneration, VideoGoto
<1>4. ASSUME NEW c \in VideoCalls, PublishQueued(c)
      PROVE  WaitingInv'
  BY <1>4 DEF PublishQueued, VideoGoto
<1>5. ASSUME NEW c \in VideoCalls, CheckCancel(c)
      PROVE  WaitingInv'
  BY <1>5 DEF CheckCancel, VideoGoto, found, canTransition, VideoTransitions
<1>6. ASSUME NEW c \in VideoCalls, CancelVideo(c)
      PROVE  WaitingInv'
  BY <1>6 DEF CancelVideo, VideoGoto
<1>7. ASSUME NEW c \in VideoCalls, CancelRuns(c)
      PROVE  WaitingInv'
  BY <1>7 DEF CancelRuns, VideoGoto
<1>8. ASSUME NEW c \in VideoCalls, SoftDelete(c)
      PROVE  WaitingInv'
  BY <1>8 DEF SoftDelete, found
<1>9. ASSUME NEW c \in VideoCalls, RequestDies(c)
      PROVE  WaitingInv'
  BY <1>9 DEF RequestDies, VideoGoto
<1>10. ASSUME NEW r \in Runs, OnVideoQueued(r)
      PROVE  WaitingInv'
  BY <1>10 DEF OnVideoQueued, FlowGoto
<1>11. ASSUME NEW r \in Runs, StartRun(r)
      PROVE  WaitingInv'
  BY <1>11 DEF StartRun, writesBoth, FlowGoto
<1>12. ASSUME NEW r \in Runs, OnStage(r)
      PROVE  WaitingInv'
  BY <1>12 DEF OnStage, FlowGoto
<1>13. ASSUME NEW r \in Runs, Finalize(r)
      PROVE  WaitingInv'
  BY <1>13 DEF Finalize, FlowGoto
<1>14. ASSUME NEW r \in Runs, OnFinalized(r)
      PROVE  WaitingInv'
  BY <1>14 DEF OnFinalized, FlowGoto
<1>15. ASSUME NEW r \in Runs, CompleteRun(r)
      PROVE  WaitingInv'
  BY <1>15 DEF CompleteRun, FlowGoto
<1>16. ASSUME NEW r \in Runs, FailRun(r)
      PROVE  WaitingInv'
  BY <1>16 DEF FailRun, writesBoth, FlowGoto
<1>17. CASE UNCHANGED videoVars
  BY <1>17 DEF videoVars
<1>18. QED
  BY <1>1, <1>2, <1>3, <1>4, <1>5, <1>6, <1>7, <1>8, <1>9, <1>10, <1>11, <1>12,
     <1>13, <1>14, <1>15, <1>16, <1>17 DEF VideosNext

\* AloneInv is kept: while a run is on its way the video cannot be queued again.
LEMMA NextAlone == VideosTypeOK /\ FlowInv /\ AloneInv /\ [VideosNext]_videoVars => AloneInv'
<1> SUFFICES ASSUME VideosTypeOK, FlowInv, AloneInv, [VideosNext]_videoVars PROVE AloneInv'
  OBVIOUS
<1> USE VideosAssumption DEF VideosTypeOK, AloneInv, FlowInv, CallLabel, FlowLabel, VideoRunStatus,
    NoCall, NoRun, publishing, inFlow, unfinished
<1>1. ASSUME NEW c \in VideoCalls, CreateVideo(c)
      PROVE  AloneInv'
  BY <1>1 DEF CreateVideo
<1>2. ASSUME NEW c \in VideoCalls, CheckGenerate(c)
      PROVE  AloneInv'
  <2>1. video \notin {"queued", "generating"}
    BY <1>2 DEF CheckGenerate, canTransition, VideoTransitions
  <2>2. \A r \in Runs : ~raced => ~unfinished(r)
    BY <2>1
  <2>3. vcall' = [vcall EXCEPT ![c] = [at |-> "generate", run |-> NoRun]]
    BY <1>2 DEF CheckGenerate, VideoGoto
  <2>4. \A r \in Runs : ~raced => ~unfinished(r)'
    BY <1>2, <2>2, <2>3 DEF CheckGenerate
  <2>5. ~raced' => ~raced /\ \A d \in VideoCalls \ {c} : vcall[d] = NoCall
    BY <1>2 DEF CheckGenerate
  <2>6. QED
    BY <1>2, <2>3, <2>4, <2>5 DEF CheckGenerate
<1>3. ASSUME NEW c \in VideoCalls, EnqueueGeneration(c)
      PROVE  AloneInv'
  BY <1>3 DEF EnqueueGeneration, VideoGoto
<1>4. ASSUME NEW c \in VideoCalls, PublishQueued(c)
      PROVE  AloneInv'
  BY <1>4 DEF PublishQueued, VideoGoto
<1>5. ASSUME NEW c \in VideoCalls, CheckCancel(c)
      PROVE  AloneInv'
  BY <1>5 DEF CheckCancel, VideoGoto, found, canTransition, VideoTransitions
<1>6. ASSUME NEW c \in VideoCalls, CancelVideo(c)
      PROVE  AloneInv'
  BY <1>6 DEF CancelVideo, VideoGoto
<1>7. ASSUME NEW c \in VideoCalls, CancelRuns(c)
      PROVE  AloneInv'
  BY <1>7 DEF CancelRuns, VideoGoto
<1>8. ASSUME NEW c \in VideoCalls, SoftDelete(c)
      PROVE  AloneInv'
  BY <1>8 DEF SoftDelete, found
<1>9. ASSUME NEW c \in VideoCalls, RequestDies(c)
      PROVE  AloneInv'
  BY <1>9 DEF RequestDies, VideoGoto
<1>10. ASSUME NEW r \in Runs, OnVideoQueued(r)
      PROVE  AloneInv'
  BY <1>10 DEF OnVideoQueued, FlowGoto
<1>11. ASSUME NEW r \in Runs, StartRun(r)
      PROVE  AloneInv'
  BY <1>11 DEF StartRun, writesBoth, FlowGoto
<1>12. ASSUME NEW r \in Runs, OnStage(r)
      PROVE  AloneInv'
  BY <1>12 DEF OnStage, FlowGoto
<1>13. ASSUME NEW r \in Runs, Finalize(r)
      PROVE  AloneInv'
  BY <1>13 DEF Finalize, FlowGoto
<1>14. ASSUME NEW r \in Runs, OnFinalized(r)
      PROVE  AloneInv'
  BY <1>14 DEF OnFinalized, FlowGoto
<1>15. ASSUME NEW r \in Runs, CompleteRun(r)
      PROVE  AloneInv'
  BY <1>15 DEF CompleteRun, FlowGoto
<1>16. ASSUME NEW r \in Runs, FailRun(r)
      PROVE  AloneInv'
  BY <1>16 DEF FailRun, writesBoth, FlowGoto
<1>17. CASE UNCHANGED videoVars
  BY <1>17 DEF videoVars
<1>18. QED
  BY <1>1, <1>2, <1>3, <1>4, <1>5, <1>6, <1>7, <1>8, <1>9, <1>10, <1>11, <1>12,
     <1>13, <1>14, <1>15, <1>16, <1>17 DEF VideosNext


\* A video nobody has asked anything of.
LEMMA InitVideos == VideosInit => VideosInv
<1> SUFFICES ASSUME VideosInit PROVE VideosInv
  OBVIOUS
<1> USE DEF VideosInit, NoCall, NoRun
<1>1. VideosTypeOK
  BY DEF VideosTypeOK, CallLabel, FlowLabel, VideoRunStatus
<1>2. UndecidedInv /\ FlowInv /\ WaitingInv /\ AloneInv
  BY DEF UndecidedInv, FlowInv, WaitingInv, AloneInv, willWrite, unfinished, publishing, inFlow
<1>3. QED
  BY <1>1, <1>2 DEF VideosInv

\* The inductive invariant holds in every reachable state.
THEOREM VideosInvariance == VideosSpec => []VideosInv
<1>1. VideosInv /\ [VideosNext]_videoVars => VideosInv'
  BY NextVideosTypeOK, NextUndecided, NextFlow, NextWaiting, NextAlone DEF VideosInv
<1>2. QED
  BY InitVideos, <1>1, PTL DEF VideosSpec

\* When all is over every run is decided, and the video says how it ended.
THEOREM NothingIsLeftWaitingHolds == VideosSpec => []NothingIsLeftWaiting
<1>1. VideosInv => NothingIsLeftWaiting
  BY DEF VideosInv, VideosTypeOK, UndecidedInv, WaitingInv, AloneInv, willWrite, unfinished,
     inFlow, publishing, NothingIsLeftWaiting, VideoIsQuiet, undecided, NoCall
<1>2. QED
  BY <1>1, VideosInvariance, PTL

\* One run at a time renders, as long as requests do not overlap and nothing
\* is cancelled or breaks.
THEOREM RendersAloneHolds == VideosSpec => []RendersAlone
<1>1. VideosInv => RendersAlone
  <2> DEFINE rendering == {r \in Runs : flow[r] \in {"starting", "stages", "finalize"}}
  <2> SUFFICES ASSUME VideosInv, ~raced PROVE Cardinality(rendering) <= 1
    BY DEF RendersAlone
  <2>1. \A q, r \in rendering : q = r
    BY DEF VideosInv, FlowInv, AloneInv, unfinished, inFlow
  <2>2. CASE rendering = {}
    BY <2>2, FS_EmptySet
  <2>3. CASE rendering # {}
    <3>1. PICK r \in rendering : rendering = {r}
      BY <2>1, <2>3
    <3>2. Cardinality({r}) = 1
      BY FS_Singleton
    <3>3. QED
      BY <3>1, <3>2
  <2>4. QED
    BY <2>2, <2>3
<1>2. QED
  BY <1>1, VideosInvariance, PTL

\* Where requests do not overlap and nothing is cancelled or breaks, the status
\* of the video is the one that the next write of it follows.
MoveInv ==
    /\ video \in {"none", "draft", "queued", "generating", "ready", "failed", "cancelled"}
    /\ ~raced =>
           /\ \A c \in VideoCalls :
                  vcall[c].at = "generate" => video \in {"draft", "ready", "failed", "cancelled"}
           /\ \A r \in Runs :
                  /\ (\/ r \in announced \/ flow[r] = "starting"
                      \/ \E c \in VideoCalls : publishing(c, r)) => video = "queued"
                  /\ flow[r] \in {"stages", "finalize", "broken", "failing"} =>
                         video = "generating"

\* MoveInv is kept: whoever writes the status is the only one on its way.
LEMMA NextMove ==
    VideosTypeOK /\ FlowInv /\ AloneInv /\ MoveInv /\ [VideosNext]_videoVars => MoveInv'
<1> SUFFICES ASSUME VideosTypeOK, FlowInv, AloneInv, MoveInv, [VideosNext]_videoVars
             PROVE  MoveInv'
  OBVIOUS
<1> USE VideosAssumption DEF VideosTypeOK, AloneInv, FlowInv, MoveInv, CallLabel, FlowLabel,
    VideoRunStatus, NoCall, NoRun, publishing, inFlow, unfinished
<1>1. ASSUME NEW c \in VideoCalls, CreateVideo(c)
      PROVE  MoveInv'
  BY <1>1 DEF CreateVideo
<1>2. ASSUME NEW c \in VideoCalls, CheckGenerate(c)
      PROVE  MoveInv'
  <2>1. video \in {"draft", "ready", "failed", "cancelled"}
    BY <1>2 DEF CheckGenerate, found, canTransition, VideoTransitions
  <2>2. /\ vcall' = [vcall EXCEPT ![c] = [at |-> "generate", run |-> 0]]
        /\ vcall[c] = NoCall
    BY <1>2 DEF CheckGenerate, VideoGoto, found
  <2>3. \A r \in Runs : \A d \in VideoCalls : publishing(d, r)' = publishing(d, r)
    BY <2>2
  <2>4. UNCHANGED <<video, announced, flow>> /\ (~raced' => ~raced)
    BY <1>2 DEF CheckGenerate
  <2>5. QED
    BY <2>1, <2>3, <2>4
<1>3. ASSUME NEW c \in VideoCalls, EnqueueGeneration(c)
      PROVE  MoveInv'
  BY <1>3 DEF EnqueueGeneration, VideoGoto
<1>4. ASSUME NEW c \in VideoCalls, PublishQueued(c)
      PROVE  MoveInv'
  BY <1>4 DEF PublishQueued, VideoGoto
<1>5. ASSUME NEW c \in VideoCalls, CheckCancel(c)
      PROVE  MoveInv'
  BY <1>5 DEF CheckCancel
<1>6. ASSUME NEW c \in VideoCalls, CancelVideo(c)
      PROVE  MoveInv'
  BY <1>6 DEF CancelVideo, VideoGoto
<1>7. ASSUME NEW c \in VideoCalls, CancelRuns(c)
      PROVE  MoveInv'
  BY <1>7 DEF CancelRuns, VideoGoto
<1>8. ASSUME NEW c \in VideoCalls, SoftDelete(c)
      PROVE  MoveInv'
  BY <1>8 DEF SoftDelete
<1>9. ASSUME NEW c \in VideoCalls, RequestDies(c)
      PROVE  MoveInv'
  BY <1>9 DEF RequestDies, VideoGoto
<1>10. ASSUME NEW r \in Runs, OnVideoQueued(r)
      PROVE  MoveInv'
  BY <1>10 DEF OnVideoQueued, FlowGoto
<1>11. ASSUME NEW r \in Runs, StartRun(r)
      PROVE  MoveInv'
  BY <1>11 DEF StartRun, writesBoth, FlowGoto
<1>12. ASSUME NEW r \in Runs, OnStage(r)
      PROVE  MoveInv'
  BY <1>12 DEF OnStage, FlowGoto
<1>13. ASSUME NEW r \in Runs, Finalize(r)
      PROVE  MoveInv'
  BY <1>13 DEF Finalize, FlowGoto
<1>14. ASSUME NEW r \in Runs, OnFinalized(r)
      PROVE  MoveInv'
  BY <1>14 DEF OnFinalized, FlowGoto
<1>15. ASSUME NEW r \in Runs, CompleteRun(r)
      PROVE  MoveInv'
  BY <1>15 DEF CompleteRun, FlowGoto
<1>16. ASSUME NEW r \in Runs, FailRun(r)
      PROVE  MoveInv'
  BY <1>16 DEF FailRun, writesBoth, FlowGoto
<1>17. CASE UNCHANGED videoVars
  BY <1>17 DEF videoVars
<1>18. QED
  BY <1>1, <1>2, <1>3, <1>4, <1>5, <1>6, <1>7, <1>8, <1>9, <1>10, <1>11, <1>12,
     <1>13, <1>14, <1>15, <1>16, <1>17 DEF VideosNext

\* Who writes the status writes one that follows it.
LEMMA NextStatus ==
    ASSUME VideosTypeOK, FlowInv, AloneInv, MoveInv, VideosNext, ~raced', video' # video
    PROVE  \/ video = "none" /\ video' = "draft"
           \/ video # "none" /\ video' \in VideoTransitions[video]
           \/ video = "generating" /\ video' = "ready"
<1> USE DEF VideoTransitions
<1>1. ASSUME NEW c \in VideoCalls, CreateVideo(c)
      PROVE  video = "none" /\ video' = "draft"
  BY <1>1 DEF CreateVideo
<1>2. ASSUME NEW c \in VideoCalls, EnqueueGeneration(c)
      PROVE  video # "none" /\ video' \in VideoTransitions[video]
  BY <1>2 DEF EnqueueGeneration, MoveInv
<1>3. ASSUME NEW c \in VideoCalls, CancelVideo(c)
      PROVE  FALSE
  <2>1. ~raced /\ vcall[c].at = "cancel"
    BY <1>3 DEF CancelVideo
  <2>2. QED
    BY <2>1 DEF FlowInv, AloneInv
<1>4. ASSUME NEW r \in Runs, StartRun(r)
      PROVE  video # "none" /\ video' \in VideoTransitions[video]
  BY <1>4 DEF StartRun, writesBoth, MoveInv
<1>5. ASSUME NEW r \in Runs, Finalize(r)
      PROVE  video = "generating" /\ video' = "ready"
  BY <1>5 DEF Finalize, MoveInv
<1>6. ASSUME NEW r \in Runs, FailRun(r)
      PROVE  video # "none" /\ video' \in VideoTransitions[video]
  BY <1>6 DEF FailRun, writesBoth, MoveInv
<1>7. QED
  BY <1>1, <1>2, <1>3, <1>4, <1>5, <1>6
     DEF VideosNext, CheckGenerate, PublishQueued, CheckCancel, CancelRuns, SoftDelete,
         RequestDies, OnVideoQueued, OnStage, OnFinalized, CompleteRun

\* Every change of the status follows VIDEO_TRANSITIONS, as long as requests do
\* not overlap and nothing is cancelled or breaks.
THEOREM StatusMovesLegallyHolds == VideosSpec => StatusMovesLegally
<1>1. VideosInit => MoveInv
  BY DEF VideosInit, MoveInv, NoCall, publishing
<1>2. VideosInv /\ MoveInv /\ [VideosNext]_videoVars => MoveInv'
  BY NextMove DEF VideosInv
<1>3. VideosInv /\ MoveInv /\ [VideosNext]_videoVars =>
          [~raced' /\ video' # video =>
               \/ video = "none" /\ video' = "draft"
               \/ video # "none" /\ video' \in VideoTransitions[video]
               \/ video = "generating" /\ video' = "ready"]_videoVars
  BY NextStatus DEF VideosInv
<1>4. QED
  BY <1>1, <1>2, <1>3, VideosInvariance, PTL DEF VideosSpec, StatusMovesLegally

-----------------------------------------------------------------------------
(* Editor.                                                                 *)

\* The page renders again with the draft of the scene it shows, or with the
\* draft it had, of a scene that has not changed.
LEMMA RerenderKeepsDraft ==
    ASSUME DraftIsOfTheScene, NEW list, NEW n, Rerender(list, n)
    PROVE  DraftIsOfTheScene'
<1> DEFINE now == shownAt(list, n)
<1>1. currentScene' = now
  BY DEF Rerender, currentScene, shownAt
<1>2. CASE now = currentScene
  BY <1>1, <1>2 DEF Rerender, resync, DraftIsOfTheScene
<1>3. CASE now # currentScene
  BY <1>1, <1>3 DEF Rerender, resync, DraftIsOfTheScene
<1>4. QED
  BY <1>2, <1>3

\* A script that can be saved was typed for the scene that is shown, for any
\* number of scenes, requests and other clients.
THEOREM DraftIsOfTheSceneHolds == EditorSpec => []DraftIsOfTheScene
<1>1. EditorInit => DraftIsOfTheScene
  BY DEF EditorInit, DraftIsOfTheScene, currentScene, shownAt
<1>2. DraftIsOfTheScene /\ [EditorNext]_editorVars => DraftIsOfTheScene'
  <2> SUFFICES ASSUME DraftIsOfTheScene, [EditorNext]_editorVars
               PROVE  DraftIsOfTheScene'
    OBVIOUS
  <2>1. CASE UNCHANGED <<shown, active, draft, typedOn>>
    BY <2>1 DEF DraftIsOfTheScene, currentScene, shownAt
  <2>2. ASSUME NEW text \in Scripts, TypeScript(text)
        PROVE  DraftIsOfTheScene'
    BY <2>2 DEF TypeScript, DraftIsOfTheScene, currentScene, shownAt
  <2>3. ASSUME NEW n, SelectScene(n)
        PROVE  DraftIsOfTheScene'
    BY <2>3, RerenderKeepsDraft DEF SelectScene
  <2>4. ASSUME NEW c \in SceneCalls, Answered(c)
        PROVE  DraftIsOfTheScene'
    BY <2>4, RerenderKeepsDraft DEF Answered
  <2>5. CASE ShowVideo
    BY <2>5, RerenderKeepsDraft DEF ShowVideo
  <2>6. QED
    BY <2>1, <2>2, <2>3, <2>4, <2>5
       DEF EditorNext, editorVars, pageVars, RemoveScene, SaveScript, AddScene, AssignAvatar,
           Ask, Rejected, FindScene, UpdateScene, DeleteScene, CreateScene, Invalidate,
           GetVideo
<1>3. QED
  BY <1>1, <1>2, PTL DEF EditorSpec

\* Every row has its two fields.
RowsInv ==
    /\ scene = [s \in SceneIds |-> scene[s]]
    /\ written = [s \in SceneIds |-> written[s]]
    /\ \A s \in SceneIds : scene[s] = [order |-> scene[s].order, content |-> scene[s].content]

EditorInv == RowsInv /\ OtherFieldsSurvive

\* EditorInv is kept: a merge into the content the scene still has changes what
\* was asked for, and a merge into any other marks the scene.
LEMMA NextEditor == EditorInv /\ [EditorNext]_editorVars => EditorInv'
<1> SUFFICES ASSUME EditorInv, [EditorNext]_editorVars
             PROVE  EditorInv'
  OBVIOUS
<1> USE DEF EditorInv, RowsInv, OtherFieldsSurvive, present
<1>1. CASE UNCHANGED <<scene, written, overlaid>>
  BY <1>1
<1>2. ASSUME NEW c \in SceneCalls, UpdateScene(c), scene[scall[c].scene] # NoRow
      PROVE  EditorInv'
  <2> DEFINE s == scall[c].scene
             change == scall[c].change
             read == scall[c].read
  <2>1. /\ scene' = [scene EXCEPT ![s].content = change @@ read]
        /\ written' = [written EXCEPT ![s] = change @@ written[s]]
        /\ overlaid' = IF read = scene[s].content THEN overlaid ELSE overlaid \cup {s}
    BY <1>2 DEF UpdateScene, merged
  <2>2. RowsInv'
    BY <2>1
  <2>3. \A t \in SceneIds \ {s} : scene'[t] = scene[t] /\ written'[t] = written[t]
    BY <2>1
  <2>4. ASSUME s \in SceneIds, s \notin overlaid'
        PROVE  scene'[s].content = written'[s]
    <3>1. read = scene[s].content /\ s \notin overlaid
      BY <2>1, <2>4
    <3>2. scene[s].content = written[s]
      BY <1>2, <2>4, <3>1
    <3>3. scene'[s].content = change @@ read /\ written'[s] = change @@ written[s]
      BY <2>1, <2>4
    <3>4. QED
      BY <3>1, <3>2, <3>3
  <2>5. QED
    BY <2>1, <2>2, <2>3, <2>4
<1>3. ASSUME NEW c \in SceneCalls, DeleteScene(c), scene[scall[c].scene] # NoRow
      PROVE  EditorInv'
  BY <1>3 DEF DeleteScene, NoRow
<1>4. ASSUME NEW c \in SceneCalls, CreateScene(c)
      PROVE  EditorInv'
  <2>1. PICK s \in SceneIds :
            /\ scene' = [scene EXCEPT ![s] = [order |-> lastOrder + 1, content |-> Blank]]
            /\ written' = [written EXCEPT ![s] = Blank]
    BY <1>4 DEF CreateScene
  <2>2. QED
    BY <1>4, <2>1 DEF CreateScene
<1>5. QED
  BY <1>1, <1>2, <1>3, <1>4
     DEF EditorNext, editorVars, pageVars, RemoveScene, SaveScript, AddScene, AssignAvatar,
         Ask, Answered, Rejected, FindScene, UpdateScene, DeleteScene, Invalidate, GetVideo,
         ShowVideo, SelectScene, TypeScript

\* A scene keeps every field a request did not name, unless two requests read
\* it before either wrote, for any number of scenes and requests.
THEOREM OtherFieldsSurviveHolds == EditorSpec => []OtherFieldsSurvive
<1>1. EditorInit => EditorInv
  <2> SUFFICES ASSUME EditorInit PROVE EditorInv
    OBVIOUS
  <2>1. \A s \in SceneIds : scene[s] = NoRow
    BY DEF EditorInit
  <2>2. RowsInv
    BY <2>1 DEF EditorInit, RowsInv, NoRow
  <2>3. QED
    BY <2>1, <2>2 DEF EditorInv, OtherFieldsSurvive, present
<1>2. QED
  BY <1>1, NextEditor, PTL DEF EditorSpec, EditorInv

-----------------------------------------------------------------------------
(* Workspace.  The cursor is the last row that was given, and every row    *)
(* that is expected and not yet given is older.                            *)

falls(s) == \A m, n \in DOMAIN s : m < n => s[m] > s[n]

WorkspaceTypeOK ==
    /\ created \in Nat
    /\ live \subseteq 1 .. created
    /\ limit \in Nat \ {0}
    /\ cursor \in Nat
    /\ given \in Seq(1 .. created)
    /\ reading \in {"no", "yes", "done"}
    /\ expected \subseteq live
    /\ dangling \in BOOLEAN

\* The cursor is the last row that was given, and the rows that are to come are
\* older than it.
ReaderIsAtCursor ==
    /\ cursor = NoCursor /\ reading # "done" => given = <<>>
    /\ cursor # NoCursor => given # <<>> /\ cursor = given[Len(given)]
    /\ reading = "yes" /\ ~dangling /\ cursor # NoCursor =>
           \A n \in expected : n \in Range(given) \/ n < cursor
    /\ reading = "no" => cursor = NoCursor

WorkspaceInv == WorkspaceTypeOK /\ ReaderIsAtCursor /\ PagesAreWhole

\* What is known of a sequence of the newest rows.
LEMMA NewestRows ==
    ASSUME NEW S, S \subseteq Nat, NEW take \in Nat, NEW rows \in newest(S, take)
    PROVE  /\ rows \in Seq(S) /\ Len(rows) <= take /\ falls(rows)
           /\ \A n \in S : \/ \E i \in 1 .. Len(rows) : n = rows[i]
                           \/ Len(rows) = take /\ rows[take] > n
<1>1. PICK k \in 0 .. take : rows \in [1 .. k -> S]
  BY DEF newest
<1>2. rows \in Seq(S) /\ Len(rows) = k
  BY <1>1, SeqDef
<1>3. falls(rows)
  BY DEF newest, falls
<1>4. ASSUME NEW n \in S, ~\E i \in 1 .. Len(rows) : n = rows[i]
      PROVE  Len(rows) = take /\ rows[take] > n
  <2>1. n \notin Range(rows)
    BY <1>2, <1>4 DEF Range
  <2>2. QED
    BY <2>1 DEF newest
<1>5. QED
  BY <1>2, <1>3, <1>4

\* The rows from the row after the cursor on.
LEMMA FetchedRows ==
    ASSUME WorkspaceTypeOK, NEW rows \in fetched
    PROVE  /\ rows \in Seq(live) /\ Len(rows) <= limit + 1 /\ falls(rows)
           /\ cursor # NoCursor => \A i \in 1 .. Len(rows) : rows[i] < cursor
           /\ cursor \in live \cup {NoCursor} =>
                  \A n \in live :
                      \/ cursor # NoCursor /\ n >= cursor
                      \/ \E i \in 1 .. Len(rows) : n = rows[i]
                      \/ Len(rows) = limit + 1 /\ rows[limit + 1] > n
<1>0. live \subseteq Nat /\ limit \in Nat /\ cursor \in Nat /\ limit + 1 \in Nat
      /\ limit + 1 + 1 = limit + 2 /\ limit + 2 \in Nat
  BY DEF WorkspaceTypeOK
<1>1. CASE cursor = NoCursor
  <2>1. rows \in newest(live, limit + 1)
    BY <1>1 DEF fetched, findMany
  <2>2. QED
    BY <1>0, <1>1, <2>1, NewestRows
<1>2. CASE cursor # NoCursor /\ rows = <<>> /\ cursor \notin live
  BY <1>0, <1>2 DEF falls, NoCursor
<1>3. ASSUME cursor # NoCursor, ~(rows = <<>> /\ cursor \notin live)
      PROVE  \E all \in newest({n \in live : n <= cursor}, limit + 1 + 1) :
                 rows = SubSeq(all, 2, Len(all))
  <2>1. 1 + 1 = 2
    OBVIOUS
  <2>2. QED
    BY <1>3, <2>1 DEF fetched, findMany
<1>4. ASSUME NEW all \in newest({n \in live : n <= cursor}, limit + 1 + 1),
             cursor # NoCursor, rows = SubSeq(all, 2, Len(all))
      PROVE  /\ rows \in Seq(live) /\ Len(rows) <= limit + 1 /\ falls(rows)
             /\ \A i \in 1 .. Len(rows) : rows[i] < cursor
             /\ cursor \in live =>
                    \A n \in live :
                        \/ n >= cursor
                        \/ \E i \in 1 .. Len(rows) : n = rows[i]
                        \/ Len(rows) = limit + 1 /\ rows[limit + 1] > n
  <2> DEFINE S == {n \in live : n <= cursor}
  <2>1. /\ all \in Seq(S) /\ Len(all) <= limit + 2 /\ falls(all)
        /\ \A n \in S : \/ \E i \in 1 .. Len(all) : n = all[i]
                        \/ Len(all) = limit + 2 /\ all[limit + 2] > n
    <3>1. S \subseteq Nat
      BY <1>0
    <3>2. all \in newest(S, limit + 2)
      BY <1>0, <1>4
    <3>3. limit + 2 \in Nat
      BY <1>0
    <3> HIDE DEF S
    <3>4. QED
      BY <3>1, <3>2, <3>3, NewestRows, Zenon
  <2>2. \A i \in 1 .. Len(all) : all[i] \in live /\ all[i] <= cursor /\ all[i] \in Nat
    <3>1. S \subseteq live /\ S \subseteq Nat /\ \A n \in S : n <= cursor
      BY <1>0
    <3>2. all \in Seq(S)
      BY <2>1
    <3> HIDE DEF S
    <3>3. \A i \in 1 .. Len(all) : all[i] \in S
      BY <3>2
    <3>4. QED
      BY <3>1, <3>3
  <2>3. /\ rows \in Seq(S)
        /\ Len(rows) = IF Len(all) = 0 THEN 0 ELSE Len(all) - 1
        /\ \A i \in 1 .. Len(rows) : rows[i] = all[i + 1] /\ i + 1 \in 1 .. Len(all)
    <3> HIDE DEF S
    <3>1. Len(all) \in Nat
      BY <2>1
    <3>2. QED
      BY <1>4, <2>1, <3>1
  <2>4. falls(rows)
    <3> SUFFICES ASSUME NEW m \in 1 .. Len(rows), NEW n \in 1 .. Len(rows), m < n
                 PROVE  rows[m] > rows[n]
      BY <2>3 DEF falls
    <3>1. m + 1 \in DOMAIN all /\ n + 1 \in DOMAIN all /\ m + 1 < n + 1
      BY <2>1, <2>3
    <3>2. all[m + 1] > all[n + 1]
      BY <2>1, <3>1 DEF falls
    <3>3. QED
      BY <2>3, <3>2
  <2>5. \A i \in 1 .. Len(rows) : rows[i] < cursor
    <3> SUFFICES ASSUME NEW i \in 1 .. Len(rows)
                 PROVE  rows[i] < cursor
      OBVIOUS
    <3>1. all[1] > all[i + 1] /\ all[1] <= cursor /\ all[1] \in Nat /\ all[i + 1] \in Nat
      BY <2>1, <2>2, <2>3 DEF falls
    <3>2. QED
      BY <1>0, <2>3, <3>1
  <2>6. ASSUME cursor \in live, NEW n \in live, n < cursor
        PROVE  \/ \E i \in 1 .. Len(rows) : n = rows[i]
               \/ Len(rows) = limit + 1 /\ rows[limit + 1] > n
    <3>1. Len(all) \in Nat /\ n \in S /\ cursor \in S
      BY <1>0, <2>1, <2>6
    <3>2. Len(all) # 0 /\ all[1] = cursor
      <4>1. PICK i \in 1 .. Len(all) : all[i] = cursor
        BY <1>0, <2>1, <2>2, <3>1
      <4>2. i > 1 => all[1] > all[i]
        BY <2>1, <4>1 DEF falls
      <4>3. QED
        BY <1>0, <2>2, <3>1, <4>1, <4>2
    <3>3. CASE \E i \in 1 .. Len(all) : n = all[i]
      <4>1. PICK i \in 1 .. Len(all) : n = all[i]
        BY <3>3
      <4>2. i # 1 /\ i - 1 \in 1 .. Len(rows) /\ i - 1 + 1 = i
        BY <1>0, <2>3, <2>6, <3>1, <3>2, <4>1
      <4>3. n = rows[i - 1]
        BY <2>3, <4>1, <4>2
      <4>4. QED
        BY <4>2, <4>3
    <3>4. CASE Len(all) = limit + 2 /\ all[limit + 2] > n
      <4>1. Len(rows) = limit + 1 /\ limit + 1 + 1 = limit + 2 /\ limit + 1 \in 1 .. Len(rows)
        BY <1>0, <2>3, <3>4
      <4>2. QED
        BY <2>3, <3>4, <4>1
    <3>5. QED
      BY <2>1, <3>1, <3>3, <3>4
  <2>7. rows \in Seq(live) /\ Len(rows) <= limit + 1
    <3>1. Len(all) \in Nat
      BY <2>1
    <3>2. QED
      BY <1>0, <2>1, <2>3, <3>1
  <2>8. QED
    BY <1>0, <2>4, <2>5, <2>6, <2>7
<1>5. QED
  BY <1>1, <1>2, <1>3, <1>4

LEMMA InitWorkspace == WorkspaceInit => WorkspaceInv
<1> SUFFICES ASSUME WorkspaceInit
             PROVE  WorkspaceInv
  OBVIOUS
<1>1. WorkspaceTypeOK
  <2>1. <<>> \in Seq(1 .. 0)
    OBVIOUS
  <2>2. created = 0 /\ 0 \in Nat /\ 1 \in Nat \ {0} /\ {} \subseteq 1 .. 0
    BY DEF WorkspaceInit
  <2>3. /\ live = {} /\ limit = 1 /\ cursor = 0 /\ given = <<>> /\ reading = "no"
        /\ expected = {} /\ dangling = FALSE
    BY DEF WorkspaceInit, NoCursor
  <2>4. QED
    BY <2>1, <2>2, <2>3, Zenon DEF WorkspaceTypeOK
<1>2. ReaderIsAtCursor
  BY DEF WorkspaceInit, ReaderIsAtCursor
<1>3. PagesAreWhole
  BY DEF WorkspaceInit, PagesAreWhole
<1>4. QED
  BY <1>1, <1>2, <1>3 DEF WorkspaceInv

\* What was given, and then a page of it.
LEMMA PageAppended ==
    ASSUME NEW c \in Nat, NEW s \in Seq(1 .. c), falls(s), NEW data \in Seq(1 .. c), falls(data),
           \A m \in 1 .. Len(s), n \in 1 .. Len(data) : data[n] < s[m]
    PROVE  /\ s \o data \in Seq(1 .. c) /\ falls(s \o data)
           /\ \A i \in 1 .. Len(s) : s[i] \in Range(s \o data)
           /\ \A i \in 1 .. Len(data) : data[i] \in Range(s \o data)
           /\ data # <<>> => s \o data # <<>> /\ (s \o data)[Len(s \o data)] = data[Len(data)]
<1> DEFINE t == s \o data
           a == Len(s)
           b == Len(data)
<1>1. /\ t \in Seq(1 .. c) /\ Len(t) = a + b /\ a \in Nat /\ b \in Nat
      /\ \A i \in 1 .. a : t[i] = s[i]
      /\ \A i \in a + 1 .. a + b : t[i] = data[i - a] /\ i - a \in 1 .. b
  OBVIOUS
<1>2. \A i \in 1 .. b : i + a \in 1 .. a + b /\ t[i + a] = data[i]
  BY <1>1
<1>0. /\ \A i \in 1 .. a : s[i] \in Nat
      /\ \A i \in 1 .. b : data[i] \in Nat
      /\ \A i, j \in 1 .. a : i < j => s[i] > s[j]
      /\ \A i, j \in 1 .. b : i < j => data[i] > data[j]
  <2>1. \A i \in 1 .. a : s[i] \in Nat
    OBVIOUS
  <2>2. \A i \in 1 .. b : data[i] \in Nat
    OBVIOUS
  <2>3. DOMAIN s = 1 .. a /\ DOMAIN data = 1 .. b
    OBVIOUS
  <2>4. /\ \A i, j \in 1 .. a : i < j => s[i] > s[j]
        /\ \A i, j \in 1 .. b : i < j => data[i] > data[j]
    BY <2>3, Zenon DEF falls
  <2>5. QED
    BY <2>1, <2>2, <2>4
<1> HIDE DEF t, a, b
<1>3. falls(t)
  <2> SUFFICES ASSUME NEW m \in 1 .. a + b, NEW n \in 1 .. a + b, m < n
               PROVE  t[m] > t[n]
    BY <1>1 DEF falls
  <2>1. CASE n <= a
    <3>1. m \in 1 .. a /\ n \in 1 .. a
      BY <1>1, <2>1
    <3>2. QED
      BY <1>0, <1>1, <3>1
  <2>2. CASE m > a
    <3>1. /\ m - a \in 1 .. b /\ n - a \in 1 .. b /\ m - a < n - a
          /\ m \in a + 1 .. a + b /\ n \in a + 1 .. a + b
      BY <1>1, <2>2
    <3>2. QED
      BY <1>0, <1>1, <3>1
  <2>3. CASE m <= a /\ n > a
    <3>1. m \in 1 .. a /\ n - a \in 1 .. b /\ n \in a + 1 .. a + b
      BY <1>1, <2>3
    <3>2. data[n - a] < s[m] /\ t[m] = s[m] /\ t[n] = data[n - a]
      BY <1>1, <3>1 DEF a, b
    <3>3. QED
      BY <1>0, <3>1, <3>2
  <2>4. QED
    BY <1>1, <2>1, <2>2, <2>3
<1>4. /\ \A i \in 1 .. a : s[i] \in Range(t)
      /\ \A i \in 1 .. b : data[i] \in Range(t)
  <2>1. DOMAIN t = 1 .. a + b
    BY <1>1
  <2>2. 1 .. a \subseteq 1 .. a + b
    BY <1>1
  <2>3. QED
    BY <1>1, <1>2, <2>1, <2>2 DEF Range
<1>5. data # <<>> => t # <<>> /\ t[Len(t)] = data[Len(data)]
  <2>1. ASSUME data # <<>>
        PROVE  b \in 1 .. b /\ b + a = Len(t)
    BY <1>1, <2>1 DEF b
  <2>2. data # <<>> => t[Len(t)] = data[b]
    BY <1>2, <2>1
  <2>3. data # <<>> => t # <<>>
    BY <1>1, <2>1
  <2>4. QED
    BY <2>2, <2>3 DEF b
<1>6. QED
  BY <1>1, <1>3, <1>4, <1>5 DEF t, a, b

LEMMA ListPageKeepsInv ==
    ASSUME WorkspaceInv, NEW kind, listPage(kind)
    PROVE  WorkspaceInv'
<1>1. /\ reading = "yes"
      /\ dangling' = (dangling \/ cursor \notin live \cup {NoCursor})
      /\ UNCHANGED <<created, live, limit, expected>>
  BY DEF listPage
<1>2. PICK rows \in fetched :
          /\ given' = given \o pageResult(rows).data
          /\ cursor' = pageResult(rows).cursor
          /\ reading' = IF pageResult(rows).cursor = NoCursor THEN "done" ELSE "yes"
  BY DEF listPage
<1>3. /\ rows \in Seq(live) /\ Len(rows) <= limit + 1 /\ falls(rows)
      /\ cursor # NoCursor => \A i \in 1 .. Len(rows) : rows[i] < cursor
      /\ cursor \in live \cup {NoCursor} =>
             \A n \in live :
                 \/ cursor # NoCursor /\ n >= cursor
                 \/ \E i \in 1 .. Len(rows) : n = rows[i]
                 \/ Len(rows) = limit + 1 /\ rows[limit + 1] > n
  BY FetchedRows DEF WorkspaceInv
<1>4. /\ created \in Nat /\ live \subseteq 1 .. created /\ limit \in Nat \ {0} /\ cursor \in Nat
      /\ given \in Seq(1 .. created) /\ falls(given) /\ Len(given) \in Nat /\ Len(rows) \in Nat
      /\ expected \subseteq live /\ live \subseteq Nat \ {0}
  BY <1>3 DEF WorkspaceInv, WorkspaceTypeOK, PagesAreWhole, falls
<1> DEFINE more == Len(rows) > limit
           data == pageResult(rows).data
<1>5. /\ more => /\ data \in Seq(live) /\ Len(data) = limit
                 /\ cursor' = rows[limit] /\ reading' = "yes"
                 /\ cursor' = data[limit]
                 /\ \A i \in 1 .. limit : data[i] = rows[i]
      /\ ~more => data = rows /\ cursor' = NoCursor /\ reading' = "done"
  <2>1. CASE more
    <3>1. data = SubSeq(rows, 1, limit) /\ cursor' = rows[limit]
      BY <1>2, <2>1 DEF pageResult
    <3>2. rows[limit] \in Nat \ {0}
      <4>1. limit \in 1 .. Len(rows)
        BY <1>4, <2>1
      <4>2. rows[limit] \in live
        BY <1>3, <4>1
      <4>3. QED
        BY <1>4, <4>2
    <3>3. QED
      BY <1>2, <1>3, <1>4, <2>1, <3>1, <3>2 DEF NoCursor, pageResult
  <2>2. CASE ~more
    BY <1>2, <2>2 DEF pageResult
  <2>3. QED
    BY <2>1, <2>2
<1>6. /\ data \in Seq(live) /\ Len(data) <= Len(rows)
      /\ \A i \in 1 .. Len(data) : data[i] = rows[i] /\ i \in 1 .. Len(rows)
  BY <1>3, <1>4, <1>5
<1>7. given' = given \o data
  BY <1>2
<1> HIDE DEF data
<1>8. data \in Seq(1 .. created)
  <2> DEFINE Row == 1 .. created
  <2>1. live \subseteq Row
    BY <1>4
  <2> HIDE DEF Row
  <2>2. data \in Seq(Row)
    BY <1>6, <2>1
  <2>3. QED
    BY <2>2 DEF Row
<1>9. falls(data)
  BY <1>3, <1>6, <1>8 DEF falls
<1>10. \A m \in 1 .. Len(given), n \in 1 .. Len(data) : data[n] < given[m]
  <2> SUFFICES ASSUME NEW m \in 1 .. Len(given), NEW n \in 1 .. Len(data)
               PROVE  data[n] < given[m]
    OBVIOUS
  <2>1. cursor # NoCursor /\ cursor = given[Len(given)]
    BY <1>1 DEF WorkspaceInv, ReaderIsAtCursor
  <2>2. data[n] < cursor /\ data[n] \in Nat
    <3>1. data[n] = rows[n] /\ n \in 1 .. Len(rows)
      BY <1>6
    <3>2. data[n] \in live
      BY <1>6
    <3>3. QED
      BY <1>3, <1>4, <2>1, <3>1, <3>2
  <2>3. given[m] \in Nat /\ (m = Len(given) \/ given[m] > cursor)
    BY <1>4, <2>1 DEF falls
  <2>4. QED
    BY <1>4, <2>1, <2>2, <2>3
<1>11. /\ given' \in Seq(1 .. created) /\ falls(given')
       /\ \A i \in 1 .. Len(given) : given[i] \in Range(given')
       /\ \A i \in 1 .. Len(data) : data[i] \in Range(given')
       /\ data # <<>> => given' # <<>> /\ given'[Len(given')] = data[Len(data)]
  BY <1>4, <1>7, <1>8, <1>9, <1>10, PageAppended
<1>12. WorkspaceTypeOK'
  <2>1. cursor' \in Nat /\ reading' \in {"no", "yes", "done"}
    <3>1. more => data[limit] \in Nat
      BY <1>4, <1>5, <1>8
    <3>2. QED
      BY <1>5, <3>1 DEF NoCursor
  <2>2. QED
    BY <1>1, <1>4, <1>11, <2>1 DEF WorkspaceInv, WorkspaceTypeOK
\* Unless its cursor dangles, the reader was given all that is not older than
\* the last row it was shown.
<1>13. ASSUME ~dangling', NEW n \in expected
       PROVE  \/ n \in Range(given')
              \/ more /\ n < rows[limit]
  <2>1. ~dangling /\ cursor \in live \cup {NoCursor} /\ n \in live /\ n \in Nat
    <3>1. ~dangling /\ cursor \in live \cup {NoCursor}
      BY <1>1, <1>13
    <3>2. n \in live
      BY <1>4
    <3>3. n \in 1 .. created
      BY <1>4, <3>2
    <3>4. QED
      BY <3>1, <3>2, <3>3
  <2>2. CASE cursor # NoCursor /\ n >= cursor
    <3>1. n \in Range(given)
      BY <1>1, <1>4, <2>1, <2>2 DEF WorkspaceInv, ReaderIsAtCursor
    <3>2. PICK i \in 1 .. Len(given) : n = given[i]
      BY <1>4, <3>1 DEF Range
    <3>3. QED
      BY <1>11, <3>2
  <2>3. ASSUME NEW i \in 1 .. Len(rows), n = rows[i]
        PROVE  n \in Range(given') \/ (more /\ n < rows[limit])
    <3>1. CASE i \in 1 .. Len(data)
      BY <1>6, <1>11, <2>3, <3>1
    <3>2. CASE i \notin 1 .. Len(data)
      <4>1. more /\ i > limit
        BY <1>3, <1>4, <1>5, <3>2
      <4>2. rows[limit] > rows[i]
        BY <1>3, <1>4, <4>1 DEF falls
      <4>3. QED
        BY <1>4, <2>1, <2>3, <4>1, <4>2
    <3>3. QED
      BY <3>1, <3>2
  <2>4. CASE Len(rows) = limit + 1 /\ rows[limit + 1] > n
    <3>1. rows[limit] > rows[limit + 1] /\ rows[limit] \in Nat /\ rows[limit + 1] \in Nat /\ more
      <4>1. limit \in 1 .. Len(rows) /\ limit + 1 \in 1 .. Len(rows) /\ limit < limit + 1 /\ more
        BY <1>4, <2>4
      <4>2. rows[limit] > rows[limit + 1]
        BY <1>3, <4>1 DEF falls
      <4>3. rows[limit] \in live /\ rows[limit + 1] \in live
        BY <1>3, <4>1
      <4>4. QED
        BY <1>4, <4>1, <4>2, <4>3
    <3>2. QED
      BY <2>1, <2>4, <3>1
  <2>5. QED
    BY <1>3, <2>1, <2>2, <2>3, <2>4
<1>14. ReaderIsAtCursor'
  <2>1. CASE more
    <3>1. data # <<>> /\ Len(data) = limit /\ cursor' = data[limit] /\ cursor' = rows[limit]
          /\ reading' = "yes" /\ cursor' # 0
      BY <1>4, <1>5, <1>8, <2>1
    <3>2. QED
      BY <1>1, <1>11, <1>13, <3>1 DEF ReaderIsAtCursor, NoCursor
  <2>2. CASE ~more
    BY <1>5, <2>2 DEF ReaderIsAtCursor
  <2>3. QED
    BY <2>1, <2>2
<1>15. PagesAreWhole'
  <2>1. reading' = "done" /\ ~dangling' => expected \subseteq Range(given')
    BY <1>5, <1>13
  <2>2. QED
    BY <1>1, <1>11, <2>1 DEF PagesAreWhole, falls
<1>16. QED
  BY <1>12, <1>14, <1>15 DEF WorkspaceInv

LEMMA NextWorkspace == WorkspaceInv /\ [WorkspaceNext]_workspaceVars => WorkspaceInv'
<1> SUFFICES ASSUME WorkspaceInv, [WorkspaceNext]_workspaceVars
             PROVE  WorkspaceInv'
  OBVIOUS
<1> USE DEF WorkspaceInv
<1>1. ASSUME NEW kind, createRow(kind)
      PROVE  WorkspaceInv'
  <2>1. /\ created' = created + 1 /\ live' = live \cup {created'}
        /\ UNCHANGED <<limit, cursor, given, reading, expected, dangling>>
    BY <1>1 DEF createRow, readerVars
  <2>2. WorkspaceTypeOK'
    <3>1. 1 .. created \subseteq 1 .. created' /\ created' \in Nat /\ created' \in 1 .. created'
      BY <2>1 DEF WorkspaceTypeOK
    <3>2. given \in Seq(1 .. created')
      <4> DEFINE A == 1 .. created
                 B == 1 .. created'
      <4>1. given \in Seq(A) /\ A \subseteq B
        BY <3>1 DEF WorkspaceTypeOK
      <4> HIDE DEF A, B
      <4>2. given \in Seq(B)
        BY <4>1
      <4>3. QED
        BY <4>2 DEF B
    <3>3. QED
      BY <2>1, <3>1, <3>2 DEF WorkspaceTypeOK
  <2>3. QED
    BY <2>1, <2>2 DEF ReaderIsAtCursor, PagesAreWhole
<1>2. ASSUME MarkDeleted
      PROVE  WorkspaceInv'
  <2>1. PICK n : /\ live' = live \ {n} /\ expected' = expected \ {n}
                 /\ UNCHANGED <<created, limit, cursor, given, reading, dangling>>
    BY <1>2 DEF MarkDeleted, readerVars
  <2>2. WorkspaceTypeOK'
    BY <2>1 DEF WorkspaceTypeOK
  <2>3. QED
    BY <2>1, <2>2 DEF ReaderIsAtCursor, PagesAreWhole
<1>3. ASSUME BeginList
      PROVE  WorkspaceInv'
  <2>1. /\ reading = "no" /\ reading' = "yes" /\ limit' \in 1 .. MaxLimit /\ expected' = live
        /\ UNCHANGED <<created, live, cursor, given, dangling>>
    BY <1>3 DEF BeginList
  <2>2. WorkspaceTypeOK'
    BY <2>1, WorkspaceAssumption DEF WorkspaceTypeOK
  <2>3. QED
    BY <2>1, <2>2 DEF ReaderIsAtCursor, PagesAreWhole
<1>4. ASSUME UNCHANGED <<created, live, limit, cursor, given, reading, expected, dangling>>
      PROVE  WorkspaceInv'
  BY <1>4 DEF WorkspaceTypeOK, ReaderIsAtCursor, PagesAreWhole
<1>5. CASE PickList
  BY <1>4, <1>5 DEF PickList, readerVars
<1>6. ASSUME NEW kind, findRow(kind)
      PROVE  WorkspaceInv'
  BY <1>4, <1>6 DEF findRow, readerVars
<1>7. CASE UNCHANGED workspaceVars
  BY <1>4, <1>7 DEF workspaceVars, readerVars
<1> HIDE DEF WorkspaceInv
<1>8. CASE CreateProject \/ CreateVideoRow \/ CreateAvatar \/ CreateVoice \/ CreateWorkflow
  BY <1>1, <1>8 DEF CreateProject, CreateVideoRow, CreateAvatar, CreateVoice, CreateWorkflow
<1>9. CASE DeleteProject \/ DeleteVideoRow \/ DeleteAvatar
  BY <1>6, <1>9 DEF DeleteProject, DeleteVideoRow, DeleteAvatar
<1>10. CASE ListProjects \/ ListVideos \/ ListAvatars \/ ListVoices \/ ListWorkflows
  BY <1>10, ListPageKeepsInv DEF ListProjects, ListVideos, ListAvatars, ListVoices, ListWorkflows
<1>11. QED
  BY <1>2, <1>3, <1>5, <1>7, <1>8, <1>9, <1>10 DEF WorkspaceNext

\* Whoever reads a list to its end is given every row that lived all the time,
\* and none twice, unless the row of a cursor was deleted (cursorArgs, pageResult).
THEOREM PagesAreWholeHolds == WorkspaceSpec => []PagesAreWhole
<1>1. WorkspaceInv => PagesAreWhole
  BY DEF WorkspaceInv
<1>2. QED
  BY <1>1, InitWorkspace, NextWorkspace, PTL DEF WorkspaceSpec

-----------------------------------------------------------------------------
(* Studio.  A fetch that no news met since it read the rows brings all     *)
(* that the tab was told of, and data that is behind is being fetched, was *)
(* joined by the news, failed to be fetched, or is not shown and will be   *)
(* fetched when it is.  Who writes what a query reads either invalidates   *)
(* it or publishes an event that does, but for what LeftBehind lists.      *)

\* Until a query is followed nothing happens to it.
UnfollowedInv ==
    IF watched = NoQuery
    THEN /\ cached = NoData /\ fetching = Idle /\ asked = {} /\ emitted = {}
         /\ unnoticed = {}
         /\ onPage = ProvidersPage /\ ~modalOpen
    ELSE watched \in followed

\* The tab is told of writes that were made, and a mutation that wrote the
\* rows of the query reads them.
ToldInv ==
    /\ version \in Nat /\ told \in 0 .. version
    /\ emitted \subseteq 0 .. version
    /\ asked \subseteq [hook : Hooks, at : {"sent", "done"}, wrote : 0 .. version]

\* The event of this write will invalidate the query, or it is told of it.
willTell(n) == (n \in emitted /\ watched.key \in INVALIDATE_ON_EVENT) \/ n <= told

\* The write of a mutation that does not invalidate the query, and one whose
\* news did not, comes with an event that does, or is left behind.
NewsInv ==
    /\ \A a \in asked : a.wrote > 0 =>
           \/ watched.key \in a.hook.keys
           \/ willTell(a.wrote)
           \/ <<a.hook.name, watched.key>> \in LeftBehind
    /\ \A n \in emitted : \/ watched.key \in INVALIDATE_ON_EVENT
                           \/ <<"event", watched.key>> \in LeftBehind
    /\ \A u \in unnoticed : /\ u.write \in 0 .. version
                             /\ \/ willTell(u.write)
                                \/ <<u.by, watched.key>> \in LeftBehind

\* What was fetched may be fetched again.
EnabledInv == cached.known \/ fetching # Idle => enabledIn(scoped)

ShownInv ==
    /\ fetching \in [at : {"idle", "sent", "read"}, data : Nat, failures : Nat]
    /\ cached \in [known : BOOLEAN, data : Nat, stale : BOOLEAN, error : BOOLEAN]
    /\ joined \in BOOLEAN
    /\ fetching.at = "read" /\ ~joined => fetching.data >= told
    /\ cached.known /\ ~joined /\ fetching = Idle /\ ~cached.error /\ ~(cached.data >= told)
           => ~mounted /\ cached.stale

StudioInv == UnfollowedInv /\ ToldInv /\ EnabledInv /\ ShownInv

\* Every mutation the pages offer.
LEMMA HooksListed ==
    Hooks \subseteq
        {useCreateAvatar, useCreateProject, useCreateVideo, useCreateBrandKit,
         useUpdateBrandKit, useTogglePlugin, useCreateApiKey, useRevokeApiKey,
         useCreateWebhook, useCreateScene, useUpdateScene, useDeleteScene,
         useGenerateVideo, useUpdateGateway, useCreatePlan, useUpdatePlan,
         useExtractBrand, useRunWorkflow, useCheckout}
<1>1. ASSUME NEW p \in StudioPages \cup {NewProjectModal}, NEW m \in p.offers
      PROVE  m \in {useCreateAvatar, useCreateProject, useCreateVideo, useCreateBrandKit,
                    useUpdateBrandKit, useTogglePlugin, useCreateApiKey, useRevokeApiKey,
                    useCreateWebhook, useCreateScene, useUpdateScene, useDeleteScene,
                    useGenerateVideo, useUpdateGateway, useCreatePlan, useUpdatePlan,
                    useExtractBrand, useRunWorkflow, useCheckout}
  BY <1>1 DEF StudioPages, pageOf, DashboardPage, StudioPage, BrandsPage, WorkflowsPage,
     PluginsPage, ProvidersPage, MonitorPage, DeveloperPage, EditorContent, GatewayCard,
     PlanEditor, PaymentsPage, BillingPage, NewProjectModal
<1>2. QED
  BY <1>1 DEF Hooks

\* What a mutation writes of a query it invalidates, or publishes an event that
\* does, or leaves behind.
LEMMA HooksTell ==
    \A m \in Hooks :
        /\ m.name # "event" /\ "none" \notin m.keys \cup m.writes
        /\ m.publishes => m.writes \subseteq INVALIDATE_ON_EVENT \cup {"video-output"}
        /\ \A key \in m.writes : \/ key \in m.keys
                                 \/ m.publishes /\ key \in INVALIDATE_ON_EVENT
                                 \/ <<m.name, key>> \in LeftBehind
<1> USE DEF planMutation, useCreateAvatar, useCreateProject, useCreateVideo, useCreateBrandKit,
            useUpdateBrandKit, useTogglePlugin, useCreateApiKey, useRevokeApiKey,
            useCreateWebhook, useCreateScene, useUpdateScene, useDeleteScene, useGenerateVideo,
            useUpdateGateway, useCreatePlan, useUpdatePlan, useExtractBrand, useRunWorkflow,
            useCheckout, useOrgMutation, useVideoMutation, mutation
<1>1. \A m \in Hooks : m.name # "event" /\ "none" \notin m.keys \cup m.writes
  BY HooksListed
<1>2. ASSUME NEW m \in Hooks, m.publishes
      PROVE  m.writes \subseteq INVALIDATE_ON_EVENT \cup {"video-output"}
  <2>1. m \in {useCreateVideo, useGenerateVideo}
    BY <1>2, HooksListed
  <2>2. QED
    BY <2>1 DEF INVALIDATE_ON_EVENT
<1>3. ASSUME NEW m \in Hooks, NEW key \in m.writes, key \notin m.keys
      PROVE  (m.publishes /\ key \in INVALIDATE_ON_EVENT) \/ <<m.name, key>> \in LeftBehind
  <2>1. m \in {useCreateVideo, useGenerateVideo, useUpdateGateway, useCreatePlan, useUpdatePlan,
               useCheckout}
    BY <1>3, HooksListed
  <2>2. CASE m = useCreateVideo
    BY <1>3, <2>2 DEF INVALIDATE_ON_EVENT
  <2>3. CASE m = useGenerateVideo
    BY <1>3, <2>3 DEF INVALIDATE_ON_EVENT, LeftBehind
  <2>4. CASE m \in {useUpdateGateway, useCreatePlan, useUpdatePlan, useCheckout}
    BY <1>3, <2>4 DEF LeftBehind
  <2>5. QED
    BY <2>1, <2>2, <2>3, <2>4
<1>4. QED
  BY <1>1, <1>2, <1>3

\* A query that is followed has a key of its own.
LEMMA FollowedHasKey == \A q \in followed : q.key # "none"
BY HooksTell DEF followed, INVALIDATE_ON_EVENT, pipelineWrites

\* NoQuery is on no page.
LEMMA NoQueryIsNotMounted ==
    /\ \A p \in StudioPages \cup {NewProjectModal, Shell} : NoQuery \notin p.mounts
    /\ NoQuery \notin followed
    /\ NoQuery.key = "none" /\ ~NoQuery.polls
    /\ ProvidersPage.offers = {}
<1>1. NoQuery.key = "none" /\ ~NoQuery.polls
  BY DEF NoQuery, query
<1>2. ASSUME NEW p \in StudioPages \cup {NewProjectModal, Shell}, NEW q \in p.mounts
      PROVE  q \in {useHealth, useMe, useOrg, useStats, useAvatars, useVoices, useBrandKits,
                    useWorkflows, useApiKeys, useWebhooks, useProviders, usePlugins,
                    useMonitor, useWorkspace, useVideoDetail, useVideoOutput,
                    useGatewaySettings, useAdminPlans, useBillingPlans,
                    useOrgSubscription}
  BY <1>2 DEF StudioPages, pageOf, DashboardPage, StudioPage, BrandsPage, WorkflowsPage,
     PluginsPage, ProvidersPage, MonitorPage, DeveloperPage, EditorContent, GatewayCard,
     PlanEditor, PaymentsPage, BillingPage, NewProjectModal, Shell
<1>3. \A q \in {useHealth, useMe, useOrg, useStats, useAvatars, useVoices, useBrandKits,
                useWorkflows, useApiKeys, useWebhooks, useProviders, usePlugins, useMonitor,
                useWorkspace, useVideoDetail, useVideoOutput, useGatewaySettings,
                useAdminPlans, useBillingPlans, useOrgSubscription} : q.key # "none"
  BY DEF useHealth, useMe, useOrg, useStats, useAvatars, useVoices, useBrandKits,
     useWorkflows, useApiKeys, useWebhooks, useProviders, usePlugins, useMonitor,
     useWorkspace, useVideoDetail, useVideoOutput, useGatewaySettings, useAdminPlans,
     useBillingPlans, useOrgSubscription, useOrgResource, query
<1>4. ProvidersPage.offers = {}
  BY DEF ProvidersPage, pageOf
<1>5. QED
  BY <1>1, <1>2, <1>3, <1>4, FollowedHasKey

\* A mutation that wrote.
LEMMA HookWrites ==
    ASSUME NEW a \in [hook : Hooks, at : {"sent", "done"}, wrote : Nat], NEW w \in Nat,
           NEW d, d = [a EXCEPT !.at = "done", !.wrote = w]
    PROVE  d = [hook |-> a.hook, at |-> "done", wrote |-> w]
OBVIOUS

\* News of the rows: the query is fetched again, or joins the news to the fetch
\* that is under way, or will be fetched when it is shown.
LEMMA Invalidated ==
    ASSUME StudioInv, NEW keys, invalidate(keys),
           UNCHANGED <<watched, onPage, modalOpen, scoped>>,
           told' \in Nat, watched.key \notin keys => told' = told
    PROVE  EnabledInv' /\ ShownInv'
<1> USE DEF StudioInv, EnabledInv, ShownInv, enabledIn, Idle, Sent
<1>1. mounted' = mounted
  BY DEF mounted, mountedOn
<1>2. CASE watched.key \notin keys
  BY <1>1, <1>2 DEF invalidate
<1>3. CASE watched.key \in keys
  <2> DEFINE is == mounted /\ enabledIn(scoped)
             restarts == fetching = Idle \/ cached.known
  <2>1. /\ cached' = [cached EXCEPT !.stale = TRUE, !.error = @ /\ ~(is /\ restarts)]
        /\ fetching' = IF is /\ restarts THEN Sent ELSE fetching
        /\ joined' = (fetching # Idle /\ ~(is /\ restarts))
    BY <1>3 DEF invalidate
  <2>2. CASE is /\ restarts
    BY <1>1, <2>1, <2>2
  <2>3. CASE ~(is /\ restarts) /\ fetching # Idle
    BY <1>1, <2>1, <2>3
  <2>4. CASE ~is /\ fetching = Idle
    BY <1>1, <2>1, <2>4
  <2>5. QED
    BY <2>2, <2>3, <2>4
<1>4. QED
  BY <1>2, <1>3

\* What a query that begins to be shown does: it fetches what is behind.
LEMMA Mounted ==
    ASSUME StudioInv, NEW is \in BOOLEAN, fetchOnMount(is), told' = told, watched' = watched,
           scoped \subseteq scoped', is => enabledIn(scoped'),
           mounted' /\ enabledIn(scoped') => mounted \/ is
    PROVE  EnabledInv' /\ ShownInv'
<1> USE DEF StudioInv, EnabledInv, ShownInv, enabledIn, Idle, Sent
<1>1. CASE is /\ fetching = Idle /\ cached.stale
  BY <1>1 DEF fetchOnMount
<1>2. CASE ~(is /\ fetching = Idle /\ cached.stale)
  <2>1. UNCHANGED <<fetching, cached, joined>>
    BY <1>2 DEF fetchOnMount
  <2>2. QED
    BY <1>2, <2>1
<1>3. QED
  BY <1>1, <1>2

\* StudioInv is kept.
LEMMA NextStudio == StudioInv /\ [StudioNext]_studioVars => StudioInv'
<1> SUFFICES ASSUME StudioInv, [StudioNext]_studioVars PROVE StudioInv'
  OBVIOUS
<1> USE StudioAssumption
<1>a. UnfollowedInv /\ ToldInv /\ EnabledInv /\ ShownInv
  BY DEF StudioInv
<1>b. ASSUME UNCHANGED <<watched, onPage, modalOpen>>
      PROVE  mounted' = mounted
  BY <1>b DEF mounted, mountedOn
<1>c. watched = NoQuery => ~mounted
  BY <1>a, NoQueryIsNotMounted DEF UnfollowedInv, mounted, mountedOn, StudioPages
<1>d. watched = NoQuery \/ watched.key # "none"
  BY <1>a, FollowedHasKey DEF UnfollowedInv
\* Fetches.
<1>1. CASE GetRows
  <2>1. watched # NoQuery /\ fetching # Idle
    BY <1>1, <1>a DEF GetRows, UnfollowedInv, Idle
  <2>2. UnfollowedInv' /\ ToldInv' /\ EnabledInv'
    BY <1>1, <1>a, <2>1 DEF GetRows, UnfollowedInv, ToldInv, EnabledInv, enabledIn
  <2>3. /\ version \in Nat /\ told \in Nat /\ version >= told
        /\ fetching.at = "sent" /\ fetching.failures \in Nat
    BY <1>1, <1>a DEF GetRows, ToldInv, ShownInv
  <2>4. fetching' = [at |-> "read", data |-> version, failures |-> fetching.failures]
    BY <1>1, <1>a DEF GetRows, ShownInv
  <2>5. fetching' # Idle
    BY <2>4 DEF Idle
  <2>6. ShownInv'
    BY <1>1, <1>a, <2>3, <2>4, <2>5 DEF GetRows, ShownInv
  <2>7. QED
    BY <2>2, <2>6 DEF StudioInv
<1>2. CASE ShowRows
  BY <1>2, <1>a, <1>b DEF ShowRows, StudioInv, UnfollowedInv, ToldInv, EnabledInv, ShownInv,
     enabledIn, Idle
<1>3. CASE FetchFails
  <2>1. watched # NoQuery
    BY <1>3, <1>a DEF FetchFails, UnfollowedInv
  <2>2. UnfollowedInv' /\ ToldInv'
    BY <1>3, <1>a, <2>1 DEF FetchFails, UnfollowedInv, ToldInv
  <2>3. EnabledInv'
    BY <1>3, <1>a DEF FetchFails, EnabledInv, ShownInv, enabledIn
  <2>4. CASE fetching.failures < watched.retries
    <3>1. fetching' = [Sent EXCEPT !.failures = fetching.failures + 1] /\ joined' = FALSE
      BY <1>3, <2>4 DEF FetchFails
    <3>2. fetching.failures \in Nat
      BY <1>a DEF ShownInv
    <3>3. fetching' = [at |-> "sent", data |-> 0, failures |-> fetching.failures + 1]
      BY <3>1 DEF Sent, Idle
    <3>7. fetching' # Idle /\ fetching'.at # "read"
      BY <3>3 DEF Idle
    <3>8. fetching' \in [at : {"idle", "sent", "read"}, data : Nat, failures : Nat]
      BY <3>2, <3>3
    <3>4. cached' = cached /\ joined' = FALSE
      BY <1>3, <2>4 DEF FetchFails
    <3>5. ShownInv'
      BY <1>a, <3>4, <3>7, <3>8 DEF ShownInv
    <3>6. QED
      BY <2>2, <2>3, <3>5 DEF StudioInv
  <2>5. CASE ~(fetching.failures < watched.retries)
    <3>1. /\ fetching' = Idle /\ joined' = joined
          /\ cached' = [cached EXCEPT !.error = TRUE, !.stale = TRUE]
      BY <1>3, <2>5 DEF FetchFails
    <3>2. ShownInv'
      BY <1>a, <3>1 DEF ShownInv, Idle
    <3>3. QED
      BY <2>2, <2>3, <3>2 DEF StudioInv
  <2>6. QED
    BY <2>4, <2>5
<1>4. CASE BecomeStale
  <2>1. watched # NoQuery
    BY <1>4, <1>a DEF BecomeStale, UnfollowedInv, NoData
  <2>2. QED
    BY <1>4, <1>a, <1>b, <2>1 DEF BecomeStale, StudioInv, UnfollowedInv, ToldInv, EnabledInv,
       ShownInv, enabledIn
<1>5. CASE ForgetQuery
  BY <1>5, <1>a, <1>b DEF ForgetQuery, StudioInv, UnfollowedInv, ToldInv, EnabledInv, ShownInv,
     enabledIn, NoData
<1>6. CASE PollRows
  <2>1. watched # NoQuery
    BY <1>6, NoQueryIsNotMounted DEF PollRows
  <2>2. QED
    BY <1>6, <1>a, <1>b, <2>1 DEF PollRows, StudioInv, UnfollowedInv, ToldInv, EnabledInv,
       ShownInv, enabledIn, Idle, Sent
\* The tab.
<1>7. CASE FollowQuery
  BY <1>7, <1>a DEF FollowQuery, StudioInv, UnfollowedInv, ToldInv, EnabledInv, ShownInv,
     NoData, Idle
<1>8. CASE LoadScope
  <2>1. PICK s \in {{"org"}, {"org", "project"}} :
            scoped \subseteq s /\ scoped' = s /\ fetchOnMount(mounted /\ enabledIn(s))
    BY <1>8 DEF LoadScope
  <2>2. EnabledInv' /\ ShownInv'
    <3> DEFINE is == mounted /\ enabledIn(s)
    <3>1. is \in BOOLEAN /\ fetchOnMount(is)
      BY <2>1 DEF mounted, mountedOn, enabledIn
    <3>2. mounted' = mounted
      BY <1>8, <1>b DEF LoadScope
    <3> HIDE DEF is
    <3>3. is => enabledIn(scoped')
      BY <2>1 DEF is
    <3>4. mounted' /\ enabledIn(scoped') => mounted \/ is
      BY <3>2
    <3>5. QED
      BY <1>8, <2>1, <3>1, <3>3, <3>4, Mounted DEF LoadScope
  <2>3. QED
    BY <1>8, <1>a, <2>2 DEF LoadScope, StudioInv, UnfollowedInv, ToldInv
<1>9. ASSUME NEW p \in StudioPages, Navigate(p)
      PROVE  StudioInv'
  <2> DEFINE is == ~mounted /\ mountedOn(p, FALSE) /\ enabledIn(scoped)
  <2>1. mounted' = mountedOn(p, FALSE)
    BY <1>9 DEF Navigate, mounted, mountedOn
  <2>2. EnabledInv' /\ ShownInv'
    <3>1. is \in BOOLEAN /\ fetchOnMount(is)
      BY <1>9 DEF Navigate, mounted, mountedOn, enabledIn
    <3>2. is => enabledIn(scoped')
      BY <1>9 DEF Navigate
    <3>3. mounted' /\ enabledIn(scoped') => mounted \/ is
      BY <1>9, <2>1 DEF Navigate, enabledIn, mounted, mountedOn
    <3> HIDE DEF is
    <3>4. QED
      BY <1>9, <3>1, <3>2, <3>3, Mounted DEF Navigate
  <2>3. QED
    BY <1>9, <1>a, <2>2 DEF Navigate, StudioInv, UnfollowedInv, ToldInv
<1>10. CASE OpenModal
  <2> DEFINE is == ~mounted /\ mountedOn(onPage, TRUE) /\ enabledIn(scoped)
  <2>1. mounted' = mountedOn(onPage, TRUE)
    BY <1>10 DEF OpenModal, mounted, mountedOn
  <2>4. watched # NoQuery
    <3>1. NewProjectModal.offers \subseteq Hooks
      BY DEF Hooks
    <3>2. QED
      BY <1>10, <3>1, NoQueryIsNotMounted, HooksTell DEF OpenModal, concerns
  <2>2. EnabledInv' /\ ShownInv'
    <3>1. is \in BOOLEAN /\ fetchOnMount(is)
      BY <1>10 DEF OpenModal, mounted, mountedOn, enabledIn
    <3>2. is => enabledIn(scoped')
      BY <1>10 DEF OpenModal
    <3>3. mounted' /\ enabledIn(scoped') => mounted \/ is
      BY <1>10, <2>1, <2>4 DEF OpenModal, enabledIn, mounted, mountedOn
    <3> HIDE DEF is
    <3>4. QED
      BY <1>10, <3>1, <3>2, <3>3, Mounted DEF OpenModal
  <2>3. QED
    BY <1>10, <1>a, <2>2, <2>4 DEF OpenModal, StudioInv, UnfollowedInv, ToldInv
<1>11. CASE OpenEditor \/ CloseEditor
  <2>1. UNCHANGED <<watched, onPage, modalOpen, scoped, version, cached, fetching, asked,
                    emitted, told, unnoticed, joined>>
    BY <1>11 DEF OpenEditor, CloseEditor
  <2>2. QED
    BY <1>a, <1>b, <2>1 DEF StudioInv, UnfollowedInv, ToldInv, EnabledInv, ShownInv, enabledIn
\* Mutations.
<1>12. ASSUME NEW m \in Hooks, Mutate(m)
       PROVE  StudioInv'
  <2>1. watched # NoQuery
    BY <1>12, HooksTell, NoQueryIsNotMounted DEF Mutate
  <2>2. ToldInv'
    BY <1>12, <1>a DEF Mutate, ToldInv
  <2>3. QED
    BY <1>12, <1>a, <1>b, <2>1, <2>2 DEF Mutate, StudioInv, UnfollowedInv, EnabledInv, ShownInv,
       enabledIn
<1>13. ASSUME NEW a \in asked, WriteRows(a)
       PROVE  StudioInv'
  <2>1. watched # NoQuery /\ a.hook \in Hooks
    BY <1>13, <1>a DEF UnfollowedInv, ToldInv
  <2>3. a = [hook |-> a.hook, at |-> a.at, wrote |-> a.wrote] /\ a.wrote \in 0 .. version
    BY <1>a DEF ToldInv
  <2>4. CASE watched.key \in a.hook.writes
    <3> DEFINE c == [hook |-> a.hook, at |-> "done", wrote |-> version + 1]
    <3>1. version' = version + 1 /\ asked' = (asked \ {a}) \cup {c}
      <4>1. asked' = (asked \ {a}) \cup {[a EXCEPT !.at = "done", !.wrote = version']}
        BY <1>13, <2>4 DEF WriteRows
      <4>2. version' = version + 1
        BY <1>13, <2>4 DEF WriteRows
      <4>3. \A d : d = [a EXCEPT !.at = "done", !.wrote = version'] => d = c
        <5>1. a \in [hook : Hooks, at : {"sent", "done"}, wrote : Nat] /\ version + 1 \in Nat
          BY <1>a DEF ToldInv
        <5>2. QED
          BY <4>2, <5>1, HookWrites
      <4>4. QED
        BY <4>1, <4>2, <4>3
    <3>2. ToldInv'
      <4>1. /\ emitted' \subseteq emitted \cup {version + 1} /\ told' = told
            /\ 0 .. version \subseteq 0 .. version' /\ version' \in Nat
            /\ version + 1 \in 0 .. version'
        BY <1>13, <1>a, <2>4, <3>1 DEF WriteRows, ToldInv
      <4>2. c \in [hook : Hooks, at : {"sent", "done"}, wrote : 0 .. version']
        BY <2>1, <4>1
      <4>3. asked' \subseteq [hook : Hooks, at : {"sent", "done"}, wrote : 0 .. version']
        BY <1>a, <3>1, <4>1, <4>2 DEF ToldInv
      <4>4. QED
        BY <1>a, <4>1, <4>3 DEF ToldInv
    <3>3. QED
      BY <1>13, <1>a, <1>b, <2>1, <3>2 DEF WriteRows, StudioInv, UnfollowedInv, EnabledInv,
         ShownInv, enabledIn
  <2>5. CASE watched.key \notin a.hook.writes
    <3> DEFINE c == [hook |-> a.hook, at |-> "done", wrote |-> a.wrote]
    <3>1. version' = version /\ asked' = (asked \ {a}) \cup {c}
      BY <1>13, <2>3, <2>5 DEF WriteRows
    <3>2. ToldInv'
      BY <1>13, <1>a, <2>1, <2>3, <3>1 DEF WriteRows, ToldInv
    <3>3. QED
      BY <1>13, <1>a, <1>b, <2>1, <3>2 DEF WriteRows, StudioInv, UnfollowedInv, EnabledInv,
         ShownInv, enabledIn
  <2>6. QED
    BY <2>4, <2>5
<1>14. ASSUME NEW a \in asked, MutationSucceeds(a)
       PROVE  StudioInv'
  <2>1. watched # NoQuery /\ a.wrote \in 0 .. version /\ told \in 0 .. version
    BY <1>14, <1>a DEF UnfollowedInv, ToldInv
  <2>2. told' \in 0 .. version /\ (watched.key \notin a.hook.keys => told' = told)
    BY <1>14, <1>a, <2>1 DEF MutationSucceeds, ToldInv, learns, newer
  <2>3. EnabledInv' /\ ShownInv'
    BY <1>14, <1>a, <2>2, Invalidated DEF MutationSucceeds, ToldInv
  <2>4. QED
    BY <1>14, <1>a, <2>1, <2>2, <2>3 DEF MutationSucceeds, StudioInv, UnfollowedInv, ToldInv
<1>15. ASSUME NEW a \in asked, MutationFails(a)
       PROVE  StudioInv'
  BY <1>15, <1>a, <1>b DEF MutationFails, StudioInv, UnfollowedInv, ToldInv, EnabledInv,
     ShownInv, enabledIn
\* The pipeline.
<1>16. CASE PipelineWrites
  <2>1. watched # NoQuery
    BY <1>16, NoQueryIsNotMounted DEF PipelineWrites, pipelineWrites
  <2>2. QED
    BY <1>16, <1>a, <1>b, <2>1 DEF PipelineWrites, StudioInv, UnfollowedInv, ToldInv,
       EnabledInv, ShownInv, enabledIn
<1>17. CASE LiveEvent
  <2>1. PICK v \in emitted :
            /\ emitted' = emitted \ {v}
            /\ invalidate(INVALIDATE_ON_EVENT)
            /\ learns("event", v, INVALIDATE_ON_EVENT)
            /\ UNCHANGED <<watched, onPage, modalOpen, editMode, scoped, version, asked, misses>>
    BY <1>17 DEF LiveEvent
  <2>2. watched # NoQuery
    BY <1>a DEF UnfollowedInv
  <2>3. told' \in 0 .. version /\ (watched.key \notin INVALIDATE_ON_EVENT => told' = told)
    BY <1>a, <2>1 DEF ToldInv, learns, newer
  <2>4. EnabledInv' /\ ShownInv'
    BY <1>a, <2>1, <2>3, Invalidated DEF ToldInv
  <2>5. QED
    BY <1>a, <2>1, <2>2, <2>3, <2>4 DEF StudioInv, UnfollowedInv, ToldInv
<1>18. CASE UNCHANGED studioVars
  BY <1>18, <1>a, <1>b DEF studioVars, StudioInv, UnfollowedInv, ToldInv, EnabledInv, ShownInv,
     enabledIn
<1>19. QED
  BY <1>1, <1>2, <1>3, <1>4, <1>5, <1>6, <1>7, <1>8, <1>9, <1>10, <1>11, <1>12, <1>13, <1>14,
     <1>15, <1>16, <1>17, <1>18 DEF StudioNext

\* NewsInv is kept.
LEMMA NextNews == StudioInv /\ NewsInv /\ [StudioNext]_studioVars => NewsInv'
<1> SUFFICES ASSUME StudioInv, NewsInv, [StudioNext]_studioVars PROVE NewsInv'
  OBVIOUS
<1>a. UnfollowedInv /\ ToldInv
  BY DEF StudioInv
<1>1. ASSUME UNCHANGED <<watched, version, asked, emitted, told, unnoticed>>
      PROVE  NewsInv'
  BY <1>1 DEF NewsInv, willTell
<1>2. CASE \/ LoadScope \/ GetRows \/ ShowRows \/ FetchFails \/ BecomeStale \/ ForgetQuery
           \/ PollRows \/ OpenModal \/ OpenEditor \/ CloseEditor \/ UNCHANGED studioVars
           \/ \E p \in StudioPages : Navigate(p)
  BY <1>1, <1>2 DEF LoadScope, GetRows, ShowRows, FetchFails, BecomeStale, ForgetQuery, PollRows,
     OpenModal, OpenEditor, CloseEditor, Navigate, studioVars
<1>3. CASE FollowQuery
  BY <1>3, <1>a DEF FollowQuery, UnfollowedInv, NewsInv
<1>4. ASSUME NEW m \in Hooks, Mutate(m)
      PROVE  NewsInv'
  <2>1. /\ asked' = asked \cup {[hook |-> m, at |-> "sent", wrote |-> 0]}
        /\ UNCHANGED <<watched, version, emitted, told, unnoticed>>
    BY <1>4 DEF Mutate
  <2>2. QED
    BY <2>1 DEF NewsInv, willTell
<1>5. ASSUME NEW a \in asked, WriteRows(a)
      PROVE  NewsInv'
  <2>1. /\ a.hook \in Hooks /\ version \in Nat
        /\ a \in [hook : Hooks, at : {"sent", "done"}, wrote : Nat]
        /\ UNCHANGED <<watched, told, unnoticed>>
    BY <1>5, <1>a DEF WriteRows, ToldInv
  <2>2. CASE watched.key \in a.hook.writes
    <3> DEFINE c == [hook |-> a.hook, at |-> "done", wrote |-> version + 1]
    <3>1. /\ version' = version + 1
          /\ emitted' = IF a.hook.publishes THEN emitted \cup {version'} ELSE emitted
          /\ asked' = (asked \ {a}) \cup {[a EXCEPT !.at = "done", !.wrote = version']}
      BY <1>5, <2>2 DEF WriteRows
    <3>2. \A d : d = [a EXCEPT !.at = "done", !.wrote = version'] => d = c
      <4>1. version' = version + 1 /\ version + 1 \in Nat
        BY <2>1, <3>1
      <4>2. QED
        BY <2>1, <4>1, HookWrites
    <3>3. asked' = (asked \ {a}) \cup {c}
      BY <3>1, <3>2
    <3>4. \/ watched.key \in a.hook.keys
          \/ version' \in emitted' /\ watched.key \in INVALIDATE_ON_EVENT
          \/ <<a.hook.name, watched.key>> \in LeftBehind
      BY <2>1, <2>2, <3>1, HooksTell
    <3>5. a.hook.publishes =>
              watched.key \in INVALIDATE_ON_EVENT \/ <<"event", watched.key>> \in LeftBehind
      BY <2>1, <2>2, HooksTell DEF LeftBehind
    <3>6. emitted \subseteq emitted' /\ emitted' \subseteq emitted \cup {version'}
      BY <3>1
    <3>7. \A d \in asked' : d.wrote > 0 =>
              \/ watched.key \in d.hook.keys
              \/ willTell(d.wrote)'
              \/ <<d.hook.name, watched.key>> \in LeftBehind
      BY <2>1, <3>1, <3>3, <3>4, <3>6 DEF NewsInv, willTell
    <3>8. \A n \in emitted' : watched.key \in INVALIDATE_ON_EVENT
                              \/ <<"event", watched.key>> \in LeftBehind
      BY <3>1, <3>5 DEF NewsInv
    <3>9. \A u \in unnoticed : /\ u.write \in 0 .. version'
                               /\ willTell(u.write)' \/ <<u.by, watched.key>> \in LeftBehind
      BY <2>1, <3>1, <3>6 DEF NewsInv, willTell
    <3>10. QED
      BY <2>1, <3>7, <3>8, <3>9 DEF NewsInv
  <2>3. CASE watched.key \notin a.hook.writes
    <3> DEFINE c == [hook |-> a.hook, at |-> "done", wrote |-> a.wrote]
    <3>1. /\ asked' = (asked \ {a}) \cup {c}
          /\ UNCHANGED <<version, emitted>>
      BY <1>5, <2>1, <2>3 DEF WriteRows
    <3>2. QED
      BY <2>1, <3>1 DEF NewsInv, willTell
  <2>4. QED
    BY <2>2, <2>3
<1>6. ASSUME NEW by, NEW write \in 0 .. version, NEW keys, learns(by, write, keys),
             UNCHANGED <<watched, version>>, emitted' \subseteq emitted, asked' \subseteq asked,
             \A n \in emitted \ emitted' : n = write /\ by = "event",
             \/ watched.key \in keys
             \/ willTell(write)'
             \/ <<by, watched.key>> \in LeftBehind,
             by = "event" => keys = INVALIDATE_ON_EVENT
      PROVE  NewsInv'
  <2>1. /\ told \in Nat /\ version \in Nat /\ told' \in Nat /\ told' >= told
        /\ watched.key \in keys => told' >= write
    BY <1>6, <1>a DEF ToldInv, learns, newer
  <2>2. \A n \in Nat : willTell(n) => willTell(n)'
    BY <1>6, <2>1 DEF willTell
  <2>3. \A d \in asked : d.wrote \in Nat
    BY <1>a DEF ToldInv
  <2>4. \A u \in unnoticed' : \/ u \in unnoticed
                              \/ watched.key \notin keys /\ u = [by |-> by, write |-> write]
    BY <1>6 DEF learns
  <2>5. \A u \in unnoticed' : /\ u.write \in 0 .. version
                              /\ willTell(u.write)' \/ <<u.by, watched.key>> \in LeftBehind
    BY <1>6, <2>1, <2>2, <2>4 DEF NewsInv
  <2>6. QED
    BY <1>6, <2>2, <2>3, <2>5 DEF NewsInv
<1>7. ASSUME NEW a \in asked, MutationSucceeds(a)
      PROVE  NewsInv'
  <2>1. /\ asked' = asked \ {a} /\ UNCHANGED <<watched, version, emitted>>
        /\ a.wrote \in 0 .. version /\ version \in Nat
    BY <1>7, <1>a DEF MutationSucceeds, ToldInv
  <2>2. CASE a.wrote > 0
    <3>1. learns(a.hook.name, a.wrote, a.hook.keys)
      BY <1>7, <2>2 DEF MutationSucceeds
    <3>2. \/ watched.key \in a.hook.keys
          \/ willTell(a.wrote)
          \/ <<a.hook.name, watched.key>> \in LeftBehind
      BY <2>2 DEF NewsInv
    <3>3. willTell(a.wrote) => willTell(a.wrote)'
      BY <1>a, <2>1, <3>1 DEF ToldInv, willTell, learns, newer
    <3>4. a.hook.name # "event"
      BY <1>a, HooksTell DEF ToldInv
    <3> DEFINE name == a.hook.name
               write == a.wrote
               keys == a.hook.keys
    <3>5. /\ learns(name, write, keys) /\ write \in 0 .. version /\ name # "event"
          /\ emitted' = emitted /\ asked' \subseteq asked /\ UNCHANGED <<watched, version>>
          /\ \/ watched.key \in keys
             \/ willTell(write)'
             \/ <<name, watched.key>> \in LeftBehind
      BY <2>1, <3>1, <3>2, <3>3, <3>4
    <3> HIDE DEF name, write, keys
    <3>6. QED
      BY <1>6, <3>5
  <2>3. CASE ~(a.wrote > 0)
    <3>1. UNCHANGED <<told, unnoticed>>
      BY <1>7, <2>3 DEF MutationSucceeds
    <3>2. QED
      BY <2>1, <3>1 DEF NewsInv, willTell
  <2>4. QED
    BY <2>2, <2>3
<1>8. ASSUME NEW a \in asked, MutationFails(a)
      PROVE  NewsInv'
  BY <1>8 DEF MutationFails, NewsInv, willTell
<1>9. CASE PipelineWrites
  BY <1>9, <1>a DEF PipelineWrites, pipelineWrites, INVALIDATE_ON_EVENT, LeftBehind, NewsInv,
     willTell, ToldInv
<1>10. CASE LiveEvent
  <2>1. PICK v \in emitted :
            /\ emitted' = emitted \ {v}
            /\ learns("event", v, INVALIDATE_ON_EVENT)
            /\ UNCHANGED <<watched, version, asked>>
    BY <1>10 DEF LiveEvent
  <2>2. QED
    BY <1>6, <1>a, <2>1 DEF ToldInv, NewsInv
<1>11. QED
  BY <1>2, <1>3, <1>4, <1>5, <1>7, <1>8, <1>9, <1>10 DEF StudioNext

\* A page shows what its user did and what the tab was told of, and is behind
\* only where LeftBehind says so or an event is on its way (hooks.ts,
\* live.tsx), for any number of writes, mutations at once and failures.
THEOREM OwnWritesAreShownHolds == StudioSpec => []OwnWritesAreShown
<1>1. StudioInit => StudioInv /\ NewsInv
  <2> SUFFICES ASSUME StudioInit PROVE StudioInv /\ NewsInv
    OBVIOUS
  <2>1. UnfollowedInv /\ ToldInv /\ NewsInv
    BY DEF StudioInit, UnfollowedInv, ToldInv, NewsInv
  <2>2. EnabledInv /\ ShownInv
    BY DEF StudioInit, EnabledInv, ShownInv, NoData, Idle
  <2>3. QED
    BY <2>1, <2>2 DEF StudioInv
<1>2. StudioInv /\ NewsInv => OwnWritesAreShown
  <2> SUFFICES ASSUME StudioInv, NewsInv, mounted, fetching = Idle, cached.known, ~cached.error,
                      ~joined
               PROVE  /\ cached.data >= told
                      /\ \A u \in unnoticed :
                             \/ cached.data >= u.write
                             \/ u.write \in emitted
                             \/ <<u.by, watched.key>> \in LeftBehind
    BY DEF OwnWritesAreShown
  <2>1. cached.data \in Nat /\ told \in Nat /\ version \in Nat /\ cached.data >= told
    BY DEF StudioInv, ShownInv, ToldInv
  <2>2. QED
    BY <2>1 DEF NewsInv, willTell
<1>3. QED
  BY <1>1, <1>2, NextStudio, NextNews, PTL DEF StudioSpec

-----------------------------------------------------------------------------
(* LiveEvents.  While the tab is signed in exactly one thing keeps its     *)
(* channel: a socket of the effect's last run, or that run's retry timer.  *)

LiveTypeOK ==
    /\ authed \in BOOLEAN
    /\ effect \in Nat
    /\ effectAt \in [Effects -> [closed : BOOLEAN, retry : BOOLEAN]]
    /\ wire \in [Wires -> {"none", "connecting", "open", "closed"}]
    /\ owner \in [Wires -> Nat]

isAlive(s) == wire[s] \in {"connecting", "open"}

\* Only the last run of the effect goes on, and only while the tab is signed in.
LastRunInv ==
    /\ authed => effect \in Effects /\ ~effectAt[effect].closed
    /\ \A e \in Effects : ~effectAt[e].closed \/ effectAt[e].retry => authed /\ e = effect
    /\ \A s \in Wires : isAlive(s) => authed /\ owner[s] = effect

\* One socket or one timer.
KeeperInv ==
    /\ \A r, s \in Wires : isAlive(r) /\ isAlive(s) => r = s
    /\ \A e \in Effects, s \in Wires : ~(effectAt[e].retry /\ isAlive(s))
    /\ authed => effectAt[effect].retry \/ \E s \in Wires : isAlive(s)

LiveInv == LiveTypeOK /\ LastRunInv /\ KeeperInv

\* Only a socket that was opened sends a token.
MailInv ==
    /\ mail \in [Wires -> {"none", "fresh", "expired"}]
    /\ token \in {"fresh", "expired"}
    /\ \A s \in Wires : mail[s] # "none" => wire[s] # "none"

\* MailInv is kept.
LEMMA NextMail == LiveTypeOK /\ MailInv /\ [LiveNext]_liveVars => MailInv'
<1> SUFFICES ASSUME LiveTypeOK, MailInv, [LiveNext]_liveVars PROVE MailInv'
  OBVIOUS
<1>1. ASSUME NEW e, connects(e)
      PROVE  \A s \in Wires : wire[s] # "none" => wire'[s] # "none"
  BY <1>1 DEF connects, unopened, LiveTypeOK
<1>2. CASE SignsIn
  BY <1>1, <1>2 DEF SignsIn, gatewayVars, MailInv
<1>3. CASE SignsOut
  BY <1>3 DEF SignsOut, cleanup, gatewayVars, MailInv
<1>4. CASE TokenExpires \/ TokenRefreshed
  BY <1>4 DEF TokenExpires, TokenRefreshed, gatewayVars, MailInv
<1>5. ASSUME NEW s \in Wires, WireOpens(s) \/ WireCloses(s)
      PROVE  MailInv'
  BY <1>5 DEF WireOpens, WireCloses, browserVars, gatewayVars, MailInv, LiveTypeOK
<1>6. ASSUME NEW s \in Wires, VerifySocket(s) \/ RegisterClient(s) \/ HandleDisconnect(s)
      PROVE  MailInv'
  BY <1>6 DEF VerifySocket, RegisterClient, HandleDisconnect, browserVars, MailInv, LiveTypeOK
<1>7. ASSUME NEW e \in Effects, RetryFires(e)
      PROVE  MailInv'
  BY <1>1, <1>7 DEF RetryFires, gatewayVars, MailInv
<1>8. CASE UNCHANGED liveVars
  BY <1>8 DEF liveVars, MailInv
<1>9. QED
  BY <1>2, <1>3, <1>4, <1>5, <1>6, <1>7, <1>8 DEF LiveNext

\* A socket that is lost leaves the retry timer in its place.
LEMMA SocketLost ==
    ASSUME LiveInv, NEW s \in Wires, isAlive(s),
           wire' = [wire EXCEPT ![s] = "closed"],
           effectAt' = [effectAt EXCEPT ![owner[s]].retry = @ \/ ~effectAt[owner[s]].closed],
           UNCHANGED <<authed, effect, owner>>
    PROVE  LiveInv'
<1>1. authed /\ owner[s] = effect /\ effect \in Effects /\ ~effectAt[effect].closed
  BY DEF LiveInv, LastRunInv
<1>2. /\ LiveTypeOK' /\ effectAt'[effect].retry /\ ~effectAt'[effect].closed
      /\ \A e \in Effects : e # effect => effectAt'[e] = effectAt[e]
      /\ \A r \in Wires : isAlive(r)' => isAlive(r) /\ r # s
  <2>1. effectAt' = [effectAt EXCEPT ![effect].retry = TRUE]
    <3>1. (effectAt[effect].retry \/ ~effectAt[effect].closed) = TRUE
      BY <1>1
    <3>2. QED
      BY <1>1, <3>1, Zenon
  <2>2. effectAt' \in [Effects -> [closed : BOOLEAN, retry : BOOLEAN]]
    <3>1. effectAt \in [Effects -> [closed : BOOLEAN, retry : BOOLEAN]]
      BY DEF LiveInv, LiveTypeOK
    <3>2. [effectAt[effect] EXCEPT !.retry = TRUE] \in [closed : BOOLEAN, retry : BOOLEAN]
      BY <1>1, <3>1
    <3>3. effectAt' = [effectAt EXCEPT ![effect] = [effectAt[effect] EXCEPT !.retry = TRUE]]
      BY <2>1
    <3>4. QED
      BY <3>1, <3>2, <3>3
  <2>3. effectAt'[effect].retry /\ ~effectAt'[effect].closed
    BY <1>1, <2>1 DEF LiveInv, LiveTypeOK
  <2>4. \A e \in Effects : e # effect => effectAt'[e] = effectAt[e]
    BY <1>1, <2>1 DEF LiveInv, LiveTypeOK
  <2>5. /\ wire' \in [Wires -> {"none", "connecting", "open", "closed"}]
        /\ \A r \in Wires : isAlive(r)' => isAlive(r) /\ r # s
    BY DEF LiveInv, LiveTypeOK, isAlive
  <2>6. QED
    BY <2>2, <2>3, <2>4, <2>5 DEF LiveInv, LiveTypeOK
<1>3. LastRunInv'
  BY <1>1, <1>2 DEF LiveInv, LiveTypeOK, LastRunInv, isAlive
<1>4. \A r \in Wires : ~isAlive(r)'
  BY <1>2 DEF LiveInv, KeeperInv
<1>5. KeeperInv'
  BY <1>1, <1>2, <1>4 DEF KeeperInv, isAlive
<1>6. QED
  BY <1>2, <1>3, <1>5 DEF LiveInv

\* A run of the effect that connects, when no socket is there, has one then.
LEMMA Connects ==
    ASSUME LiveTypeOK, NEW e \in Effects, connects(e), \A s \in Wires : ~isAlive(s)
    PROVE  /\ wire' \in [Wires -> {"none", "connecting", "open", "closed"}]
           /\ owner' \in [Wires -> Nat]
           /\ \E s \in Wires : /\ isAlive(s)' /\ owner'[s] = e
                               /\ \A r \in Wires : isAlive(r)' => r = s
<1>1. PICK s \in Wires : /\ wire' = [wire EXCEPT ![s] = "connecting"]
                         /\ owner' = [owner EXCEPT ![s] = e]
  BY DEF connects, unopened
<1>2. e \in Nat
  BY LiveEventsAssumption DEF Effects
<1>3. /\ wire' \in [Wires -> {"none", "connecting", "open", "closed"}]
      /\ owner' \in [Wires -> Nat]
  BY <1>1, <1>2 DEF LiveTypeOK
<1>4. isAlive(s)' /\ owner'[s] = e
  BY <1>1 DEF LiveTypeOK, isAlive
<1>5. \A r \in Wires : isAlive(r)' => r = s
  BY <1>1 DEF LiveTypeOK, isAlive
<1>6. QED
  BY <1>3, <1>4, <1>5

\* LiveInv is kept.
LEMMA NextLive == LiveInv /\ MailInv /\ [LiveNext]_liveVars => LiveInv'
<1> SUFFICES ASSUME LiveInv, MailInv, [LiveNext]_liveVars PROVE LiveInv'
  OBVIOUS
<1>a. LiveTypeOK /\ LastRunInv /\ KeeperInv
  BY DEF LiveInv
<1>1. CASE SignsIn
  <2>1. /\ ~authed /\ authed' /\ effect' = effect + 1
        /\ effectAt' = [effectAt EXCEPT ![effect + 1] = [closed |-> FALSE, retry |-> FALSE]]
        /\ connects(effect + 1) /\ authed' \in BOOLEAN
    BY <1>1 DEF SignsIn
  <2>2. effect + 1 \in Effects /\ effect + 1 \in Nat
    BY <1>1, <1>a, LiveEventsAssumption DEF SignsIn, LiveTypeOK, Effects
  <2>3. \A s \in Wires : ~isAlive(s)
    BY <1>a, <2>1 DEF LastRunInv
  <2>4. PICK s \in Wires : /\ isAlive(s)' /\ owner'[s] = effect + 1
                           /\ \A r \in Wires : isAlive(r)' => r = s
    BY <1>a, <2>1, <2>2, <2>3, Connects
  <2>5. LiveTypeOK'
    BY <1>a, <2>1, <2>2, <2>3, Connects DEF LiveTypeOK
  <2>6. /\ effectAt'[effect + 1] = [closed |-> FALSE, retry |-> FALSE]
        /\ \A e \in Effects : e # effect + 1 => effectAt'[e] = effectAt[e]
    BY <1>a, <2>1, <2>2 DEF LiveTypeOK
  <2>7. \A e \in Effects : ~effectAt[e].retry /\ effectAt[e].closed
    BY <1>a, <2>1 DEF LastRunInv
  <2>8. LastRunInv' /\ KeeperInv'
    BY <2>1, <2>2, <2>4, <2>6, <2>7 DEF LastRunInv, KeeperInv
  <2>9. QED
    BY <2>5, <2>8 DEF LiveInv
<1>2. CASE SignsOut
  <2>1. /\ ~authed' /\ authed' \in BOOLEAN /\ effect' = effect /\ owner' = owner
        /\ effectAt' = [effectAt EXCEPT ![effect] = NoEffectRun]
        /\ wire' = [s \in Wires |-> IF owner[s] = effect /\ wire[s] # "none"
                                    THEN "closed" ELSE wire[s]]
        /\ authed
    BY <1>2 DEF SignsOut, cleanup
  <2>2. effect \in Effects
    BY <1>a, <2>1 DEF LastRunInv
  <2>3. LiveTypeOK'
    BY <1>a, <2>1 DEF LiveTypeOK, NoEffectRun
  <2>4. \A e \in Effects : effectAt'[e].closed /\ ~effectAt'[e].retry
    BY <1>a, <2>1, <2>2 DEF LiveTypeOK, LastRunInv, NoEffectRun
  <2>5. \A s \in Wires : ~isAlive(s)'
    BY <1>a, <2>1 DEF LastRunInv, isAlive
  <2>6. LastRunInv' /\ KeeperInv'
    BY <2>1, <2>4, <2>5 DEF LastRunInv, KeeperInv
  <2>7. QED
    BY <2>3, <2>6 DEF LiveInv
<1>3. CASE TokenExpires \/ TokenRefreshed
  BY <1>3 DEF TokenExpires, TokenRefreshed, LiveInv, LiveTypeOK, LastRunInv, KeeperInv, isAlive
<1>4. ASSUME NEW s \in Wires, WireOpens(s)
      PROVE  LiveInv'
  <2>1. /\ UNCHANGED <<authed, effect, effectAt, owner>>
        /\ isAlive(s) /\ wire' = [wire EXCEPT ![s] = "open"]
    BY <1>4 DEF WireOpens, browserVars, isAlive
  <2>2. LiveTypeOK' /\ \A r \in Wires : isAlive(r)' <=> isAlive(r)
    BY <1>a, <2>1 DEF LiveTypeOK, isAlive
  <2>3. LastRunInv' /\ KeeperInv'
    BY <1>a, <2>1, <2>2 DEF LastRunInv, KeeperInv
  <2>4. QED
    BY <2>2, <2>3 DEF LiveInv
<1>5. ASSUME NEW s \in Wires, WireCloses(s)
      PROVE  LiveInv'
  BY <1>5, SocketLost DEF WireCloses, isAlive
<1>6. ASSUME NEW s \in Wires, VerifySocket(s)
      PROVE  LiveInv'
  <2>1. CASE isAlive(s) /\ mail[s] # "fresh"
    BY <1>6, <2>1, SocketLost DEF VerifySocket, isAlive
  <2>3. CASE ~isAlive(s) /\ mail[s] # "fresh" /\ wire[s] = "closed"
    <3>1. UNCHANGED <<authed, effect, effectAt, owner, wire>>
      BY <1>6, <2>3, <1>a DEF VerifySocket, LiveTypeOK
    <3>2. QED
      BY <1>a, <3>1 DEF LiveInv, LiveTypeOK, LastRunInv, KeeperInv, isAlive
  <2>4. CASE mail[s] = "fresh"
    <3>1. UNCHANGED <<authed, effect, effectAt, owner, wire>>
      BY <1>6, <2>4 DEF VerifySocket
    <3>2. QED
      BY <1>a, <3>1 DEF LiveInv, LiveTypeOK, LastRunInv, KeeperInv, isAlive
  <2>5. QED
    BY <1>a, <1>6, <2>1, <2>3, <2>4 DEF VerifySocket, MailInv, LiveTypeOK, isAlive
<1>7. ASSUME NEW s \in Wires, RegisterClient(s) \/ HandleDisconnect(s)
      PROVE  LiveInv'
  BY <1>7, <1>a DEF RegisterClient, HandleDisconnect, browserVars, LiveInv, LiveTypeOK,
     LastRunInv, KeeperInv, isAlive
<1>8. ASSUME NEW e \in Effects, RetryFires(e)
      PROVE  LiveInv'
  <2>1. /\ effectAt[e].retry /\ connects(e) /\ UNCHANGED <<authed, effect>>
        /\ effectAt' = [effectAt EXCEPT ![e].retry = FALSE]
    BY <1>8 DEF RetryFires
  <2>2. authed /\ e = effect /\ \A s \in Wires : ~isAlive(s)
    BY <1>a, <2>1 DEF LastRunInv, KeeperInv
  <2>3. PICK s \in Wires : /\ isAlive(s)' /\ owner'[s] = e
                           /\ \A r \in Wires : isAlive(r)' => r = s
    BY <1>a, <2>1, <2>2, Connects
  <2>4. LiveTypeOK'
    <3>1. /\ wire' \in [Wires -> {"none", "connecting", "open", "closed"}]
          /\ owner' \in [Wires -> Nat]
      BY <1>a, <2>1, <2>2, Connects
    <3>2. effectAt' \in [Effects -> [closed : BOOLEAN, retry : BOOLEAN]]
      BY <1>a, <2>1 DEF LiveTypeOK
    <3>3. QED
      BY <1>a, <2>1, <3>1, <3>2 DEF LiveTypeOK
  <2>5. \A d \in Effects : ~effectAt'[d].retry /\ effectAt'[d].closed = effectAt[d].closed
    BY <1>a, <2>1, <2>2 DEF LiveTypeOK, LastRunInv
  <2>6. LastRunInv' /\ KeeperInv'
    BY <1>a, <2>1, <2>2, <2>3, <2>5 DEF LastRunInv, KeeperInv
  <2>7. QED
    BY <2>4, <2>6 DEF LiveInv
<1>9. CASE UNCHANGED liveVars
  BY <1>9, <1>a DEF liveVars, LiveInv, LiveTypeOK, LastRunInv, KeeperInv, isAlive
<1>10. QED
  BY <1>1, <1>2, <1>3, <1>4, <1>5, <1>6, <1>7, <1>8, <1>9 DEF LiveNext

\* What keeps the channel is counted once.
LEMMA OneKeeper == LiveInv => OneChannel
<1> SUFFICES ASSUME LiveInv PROVE OneChannel
  OBVIOUS
<1> DEFINE waiting == {e \in Effects : effectAt[e].retry}
           alive == {s \in Wires : wire[s] \in {"connecting", "open"}}
<1>1. CASE ~authed
  <2>1. waiting = {} /\ alive = {}
    BY <1>1 DEF LiveInv, LastRunInv, isAlive
  <2>2. QED
    BY <1>1, <2>1, FS_EmptySet DEF OneChannel
<1>2. CASE authed /\ effectAt[effect].retry
  <2>1. waiting = {effect} /\ alive = {}
    BY <1>2 DEF LiveInv, LastRunInv, KeeperInv, isAlive
  <2>2. Cardinality(waiting) = 1 /\ Cardinality(alive) = 0
    BY <2>1, FS_EmptySet, FS_Singleton
  <2>3. QED
    BY <1>2, <2>2 DEF OneChannel
<1>3. CASE authed /\ ~effectAt[effect].retry
  <2>1. PICK s \in Wires : isAlive(s)
    BY <1>3 DEF LiveInv, KeeperInv
  <2>2. waiting = {} /\ alive = {s}
    BY <2>1 DEF LiveInv, KeeperInv, isAlive
  <2>3. Cardinality(waiting) = 0 /\ Cardinality(alive) = 1
    BY <2>2, FS_EmptySet, FS_Singleton
  <2>4. QED
    BY <1>3, <2>3 DEF OneChannel
<1>4. QED
  BY <1>1, <1>2, <1>3

\* A tab has one channel while it is signed in and none otherwise, however
\* often it signs in and however its sockets close.
THEOREM OneChannelHolds == LiveSpec => []OneChannel
<1>1. LiveInit => LiveInv /\ MailInv
  <2> SUFFICES ASSUME LiveInit PROVE LiveInv /\ MailInv
    OBVIOUS
  <2>1. LiveTypeOK /\ MailInv
    BY DEF LiveInit, LiveTypeOK, MailInv, NoEffectRun, NoEffect
  <2>2. LastRunInv /\ KeeperInv
    BY DEF LiveInit, LastRunInv, KeeperInv, isAlive, NoEffectRun
  <2>3. QED
    BY <2>1, <2>2 DEF LiveInv
<1>2. LiveInv /\ MailInv /\ [LiveNext]_liveVars => LiveInv' /\ MailInv'
  BY NextLive, NextMail DEF LiveInv
<1>3. QED
  BY <1>1, <1>2, OneKeeper, PTL DEF LiveSpec
=============================================================================
