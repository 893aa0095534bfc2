------------------------------- MODULE Videos -------------------------------
(***************************************************************************)
(* One video and all its runs: the requests of the API                     *)
(* (apps/api/src/videos/videos.service.ts), which check the status of the  *)
(* video before they write it, and what the pipeline writes to the same    *)
(* rows meanwhile (apps/workers/pipeline/src/orchestrator.ts and the       *)
(* finalize stage).  A single run is PipelineRun's subject; here a run is  *)
(* the handful of steps that touch the video.                              *)
(*                                                                         *)
(* The client of the workers hides deleted rows (withSoftDelete,           *)
(* packages/db): it neither finds nor updates a deleted video, and a       *)
(* transaction that has to update it rejects.  The client of the API does  *)
(* not, so a request that found the video still writes it.                 *)
(***************************************************************************)
EXTENDS Naturals, FiniteSets

CONSTANTS
    VideoCalls, \* requests in flight at one time
    MaxRuns,    \* how often the video is queued
    MaxDeaths,  \* how often the API dies with a request in flight
    MaxAborts   \* how many cancel requests are made

ASSUME VideosAssumption ==
    /\ MaxRuns \in Nat /\ MaxDeaths \in Nat /\ MaxAborts \in Nat

Runs == 1 .. MaxRuns
NoRun == 0

VARIABLES
    video,     \* Video.status, "none" before the row exists
    videoGone, \* Video.deletedAt is set
    run,       \* PipelineRun.status of each run
    announced, \* runs whose video.queued waits in the orchestrator's queue
    flow,      \* where the pipeline stands with each run
    vcall,     \* where each request stands
    deaths,
    aborts,
    raced      \* history: requests overlapped, or a run broke or was cancelled

videoVars == <<video, videoGone, run, announced, flow, vcall, deaths, aborts, raced>>

NoCall == [at |-> "idle", run |-> NoRun]

VideosInit ==
    /\ video = "none"
    /\ videoGone = FALSE
    /\ run = [r \in Runs |-> "none"]
    /\ announced = {}
    /\ flow = [r \in Runs |-> "idle"]
    /\ vcall = [c \in VideoCalls |-> NoCall]
    /\ deaths = 0
    /\ aborts = 0
    /\ raced = FALSE

VideoTransitions ==
    [draft           |-> {"queued", "archived"},
     queued          |-> {"generating", "cancelled"},
     generating      |-> {"rendering", "failed", "cancelled"},
     rendering       |-> {"post_processing", "failed", "cancelled"},
     post_processing |-> {"ready", "failed", "cancelled"},
     ready           |-> {"archived", "queued"},
     failed          |-> {"queued", "archived"},
     cancelled       |-> {"queued", "archived"},
     archived        |-> {}]

\* Mutant: a transition may also be taken back.
canTransitionBack(from, to) ==
    to \in VideoTransitions[from] \/ from \in VideoTransitions[to]

canTransition(from, to) == to \in VideoTransitions[from]

VideoGoto(c, label, r) == vcall' = [vcall EXCEPT ![c] = [at |-> label, run |-> r]]

-----------------------------------------------------------------------------
(* The API.                                                                *)

\* The project, the avatar and the voice of a new video are looked up first;
\* a missing one rejects the request and changes nothing.
CreateVideo(c) ==
    /\ vcall[c] = NoCall
    /\ video = "none"
    /\ video' = "draft"
    /\ UNCHANGED <<videoGone, run, announced, flow, vcall, deaths, aborts, raced>>

\* get: a deleted video is not found.
found(c, at) == vcall[c].at = at /\ video # "none" /\ ~videoGone

CheckGenerate(c) ==
    /\ found(c, "idle")
    /\ canTransition(video, "queued")
    /\ VideoGoto(c, "generate", NoRun)
    /\ raced' = (raced \/ \E d \in VideoCalls \ {c} : vcall[d] # NoCall)
    /\ UNCHANGED <<video, videoGone, run, announced, flow, deaths, aborts>>

\* One transaction, whatever the status is by now.
EnqueueGeneration(c) ==
    /\ vcall[c].at = "generate"
    /\ \E r \in Runs :
           /\ run[r] = "none"
           /\ \A q \in 1 .. r - 1 : run[q] # "none"
           /\ run' = [run EXCEPT ![r] = "pending"]
           /\ VideoGoto(c, "publish", r)
    /\ video' = "queued"
    /\ UNCHANGED <<videoGone, announced, flow, deaths, aborts, raced>>

PublishQueued(c) ==
    /\ vcall[c].at = "publish"
    /\ announced' = announced \cup {vcall[c].run}
    /\ VideoGoto(c, "idle", NoRun)
    /\ UNCHANGED <<video, videoGone, run, flow, deaths, aborts, raced>>

CheckCancel(c) ==
    /\ found(c, "idle")
    /\ aborts < MaxAborts
    /\ canTransition(video, "cancelled")
    /\ VideoGoto(c, "cancel", NoRun)
    /\ aborts' = aborts + 1
    /\ raced' = TRUE
    /\ UNCHANGED <<video, videoGone, run, announced, flow, deaths>>

CancelVideo(c) ==
    /\ vcall[c].at = "cancel"
    /\ video' = "cancelled"
    /\ VideoGoto(c, "cancelRuns", NoRun)
    /\ UNCHANGED <<videoGone, run, announced, flow, deaths, aborts, raced>>

CancelRuns(c) ==
    /\ vcall[c].at = "cancelRuns"
    /\ run' = [r \in Runs |-> IF run[r] \in {"pending", "running"}
                              THEN "cancelled" ELSE run[r]]
    /\ VideoGoto(c, "idle", NoRun)
    /\ UNCHANGED <<video, videoGone, announced, flow, deaths, aborts, raced>>

\* Only the row is marked, whatever its status is: its runs are left as they
\* are, but the pipeline no longer finds the video.
SoftDelete(c) ==
    /\ found(c, "idle")
    /\ videoGone' = TRUE
    /\ UNCHANGED <<video, run, announced, flow, vcall, deaths, aborts, raced>>

\* The API dies, or a query or the bus rejects: what was committed stays.
RequestDies(c) ==
    /\ vcall[c] # NoCall
    /\ deaths < MaxDeaths
    /\ deaths' = deaths + 1
    /\ VideoGoto(c, "idle", NoRun)
    /\ UNCHANGED <<video, videoGone, run, announced, flow, aborts, raced>>

-----------------------------------------------------------------------------
(* The pipeline.                                                           *)

FlowGoto(r, label) == flow' = [flow EXCEPT ![r] = label]

\* A video that is not found, or a run that is not pending, is left alone.
OnVideoQueued(r) ==
    /\ r \in announced
    /\ announced' = announced \ {r}
    /\ IF run[r] = "pending" /\ ~videoGone
       THEN FlowGoto(r, "starting")
       ELSE UNCHANGED flow
    /\ UNCHANGED <<video, videoGone, run, vcall, deaths, aborts, raced>>

\* A transaction of the workers that writes the run and its video: all of it
\* or, when the video was deleted, nothing.  The handler then throws, and the
\* event is dead-lettered.
writesBoth(r, runStatus, videoStatus) ==
    IF videoGone
    THEN UNCHANGED <<run, video>>
    ELSE run' = [run EXCEPT ![r] = runStatus] /\ video' = videoStatus

\* The transaction that starts a run does not look at either status again.
StartRun(r) ==
    /\ flow[r] = "starting"
    /\ writesBoth(r, "running", "generating")
    /\ FlowGoto(r, IF videoGone THEN "over" ELSE "stages")
    /\ UNCHANGED <<videoGone, announced, vcall, deaths, aborts, raced>>

\* A stage ended: the orchestrator goes on with a run it finds running.
OnStage(r) ==
    /\ flow[r] = "stages"
    /\ IF run[r] = "running"
       THEN \E next \in {"finalize", "failing"} : FlowGoto(r, next)
       ELSE FlowGoto(r, "over")
    /\ UNCHANGED <<video, videoGone, run, announced, vcall, deaths, aborts, raced>>

\* The stage may fail after it wrote: recording its artifact rejects.  For a
\* deleted video it fails before.
Finalize(r) ==
    /\ flow[r] = "finalize"
    /\ \/ ~videoGone /\ video' = "ready" /\ FlowGoto(r, "finalized") /\ UNCHANGED raced
       \/ ~videoGone /\ video' = "ready" /\ FlowGoto(r, "broken") /\ raced' = TRUE
       \/ videoGone /\ UNCHANGED <<video, raced>> /\ FlowGoto(r, "broken")
    /\ UNCHANGED <<videoGone, run, announced, vcall, deaths, aborts>>

OnFinalized(r) ==
    /\ flow[r] \in {"finalized", "broken"}
    /\ FlowGoto(r, IF run[r] # "running" THEN "over"
                   ELSE IF flow[r] = "finalized" THEN "completing" ELSE "failing")
    /\ UNCHANGED <<video, videoGone, run, announced, vcall, deaths, aborts, raced>>

CompleteRun(r) ==
    /\ flow[r] = "completing"
    /\ run' = [run EXCEPT ![r] = "completed"]
    /\ FlowGoto(r, "over")
    /\ UNCHANGED <<video, videoGone, announced, vcall, deaths, aborts, raced>>

\* Mutant: the run fails and its video is forgotten.
FailRunOnly(r) ==
    /\ flow[r] = "failing"
    /\ run' = [run EXCEPT ![r] = "failed"]
    /\ FlowGoto(r, "over")
    /\ UNCHANGED <<video, videoGone, announced, vcall, deaths, aborts, raced>>

FailRun(r) ==
    /\ flow[r] = "failing"
    /\ writesBoth(r, "failed", "failed")
    /\ FlowGoto(r, "over")
    /\ UNCHANGED <<videoGone, announced, vcall, deaths, aborts, raced>>

-----------------------------------------------------------------------------
VideosNext ==
    \/ \E c \in VideoCalls :
           \/ CreateVideo(c)
           \/ CheckGenerate(c) \/ EnqueueGeneration(c) \/ PublishQueued(c)
           \/ CheckCancel(c) \/ CancelVideo(c) \/ CancelRuns(c)
           \/ SoftDelete(c) \/ RequestDies(c)
    \/ \E r \in Runs :
           \/ OnVideoQueued(r) \/ StartRun(r) \/ OnStage(r) \/ Finalize(r)
           \/ OnFinalized(r) \/ CompleteRun(r) \/ FailRun(r)

VideosSpec == VideosInit /\ [][VideosNext]_videoVars

-----------------------------------------------------------------------------
(* Properties.                                                             *)

\* Nothing is on its way for the video: no request, no event, no run.
VideoIsQuiet ==
    /\ \A c \in VideoCalls : vcall[c] = NoCall
    /\ announced = {}
    /\ \A r \in Runs : flow[r] \in {"idle", "over"}

undecided == {r \in Runs : run[r] \in {"pending", "running"}}

\* Two requests may queue a video at once and its runs may overlap, but when
\* all is over every run is decided and the video says how it ended: only a
\* request that died leaves a run pending, and only a cancellation that meets
\* the start of a run leaves the video generating with nobody to move it on.
\* A video that was deleted meanwhile may leave its run pending or running for
\* ever; unless requests overlapped its row then says queued or generating
\* too, so deleting a video whose work had ended leaves nothing behind.
NothingIsLeftWaiting ==
    VideoIsQuiet /\ deaths = 0 =>
        /\ ~videoGone => undecided = {}
        /\ ~videoGone /\ aborts = 0 => video \notin {"queued", "generating"}
        /\ ~raced /\ undecided # {} => video \in {"queued", "generating"}

\* The status is what keeps a second run away while one renders.  It does as
\* long as requests do not overlap and no run is cancelled or breaks after it
\* declared the video ready.
RendersAlone ==
    ~raced => Cardinality({r \in Runs : flow[r] \in {"starting", "stages", "finalize"}}) <= 1

\* Only the API looks at the status before it writes it, yet under the same
\* proviso every change follows VIDEO_TRANSITIONS: nobody writes what another
\* decided meanwhile.  A run goes from generating to ready: no stage of it
\* says that the video renders or is processed.
StatusMovesLegally ==
    [][~raced' /\ video' # video =>
           \/ video = "none" /\ video' = "draft"
           \/ video # "none" /\ video' \in VideoTransitions[video]
           \/ video = "generating" /\ video' = "ready"]_videoVars
=============================================================================
