----------------------------- MODULE StageWork ------------------------------
(***************************************************************************)
(* One stage job inside a worker: the wrapper of its attempts              *)
(* (packages/queue/src/worker.ts), the cancellation that a queue offers    *)
(* (bull-queue.ts), and the work itself: what a provider of plugins/ or a  *)
(* stage body does step by step, its child process or request              *)
(* (cli-runner.ts, http-runner.ts, ffmpeg.ts) and its temporary files.     *)
(* Which provider a call takes is the subject of ProviderRegistry; how     *)
(* attempts make up a run, of PipelineRun.                                 *)
(*                                                                         *)
(* The store of cancellation flags answers; PipelineRun covers the one     *)
(* that main passes, which does not.                                       *)
(***************************************************************************)
EXTENDS Naturals, Sequences

CONSTANT maxTries  \* attempts of a job (EnqueueOptions.maxAttempts)

ASSUME StageWorkAssumption == maxTries \in Nat \ {0}

-----------------------------------------------------------------------------
(* What is done, in order.  A step may fail; a "run" or a "probe" is a     *)
(* child process, of which only a "run" heeds the signal; a "call", an     *)
(* "ask" and a "ping" are requests, of which only a "call" does: the       *)
(* stages script and translate ask without their signal.                   *)

cliHealth == <<"probe">>
httpHealth == <<"ping">>

SadTalkerAvatarProvider ==
    cliHealth \o <<"makeDir", "fetchInput", "fetchInput", "run", "read", "put">>
PiperTTSProvider == cliHealth \o <<"run", "read", "put">>
ElevenLabsTTSProvider == httpHealth \o <<"call", "check", "put">>
DeepLTranslationProvider == httpHealth \o <<"ask", "check">>
OpenAILLMProvider == httpHealth \o <<"ask">>
OllamaLLMProvider == httpHealth \o <<"ask">>
render == <<"makeDir", "fetchInput", "fetchInput", "run", "probe", "read", "put">>
thumbnail == <<"makeDir", "fetchInput", "run", "read", "put">>

recipes ==
    {SadTalkerAvatarProvider, PiperTTSProvider, ElevenLabsTTSProvider,
     DeepLTranslationProvider, OpenAILLMProvider, OllamaLLMProvider, render,
     thumbnail}

\* Piper writes to a file of its own, the others into their directory.
outputFile(r) == IF r = PiperTTSProvider THEN "file" ELSE "dir"

VARIABLES
    jobAt,     \* the job: "waiting", "active", "completed", "failed", "removed"
    tries,     \* attempts that began
    cancelled, \* the cancellation flag
    canceller, \* a call of cancel: the state it read, "idle" or "over"
    stageAt,   \* the attempt: "idle", "checking", "working", "leaving"
    recipe,    \* what the job does, and how far it came
    stepNo,
    signalled,   \* controller.signal.aborted
    call,      \* the promise of its process or request, whether the signal
    listens,   \*   reaches it,
    child,     \*   and its process
    scratch    \* its temporary files

workVars == <<jobAt, tries, cancelled, canceller, stageAt, recipe, stepNo, signalled,
              call, listens, child, scratch>>
jobVars == <<jobAt, tries, cancelled, canceller>>

WorkInit ==
    /\ jobAt = "waiting"
    /\ tries = 0
    /\ cancelled = FALSE
    /\ canceller = "idle"
    /\ stageAt = "idle"
    /\ recipe = <<>>
    /\ stepNo = 1
    /\ signalled = FALSE
    /\ call = "none"
    /\ listens = FALSE
    /\ child = "none"
    /\ scratch = {}

-----------------------------------------------------------------------------
(* cancel: the state of the job is read, and acted on later.               *)

CancelReads ==
    /\ canceller = "idle"
    /\ canceller' = jobAt
    /\ UNCHANGED <<jobAt, tries, cancelled, stageAt, recipe, stepNo, signalled, call,
                   listens, child, scratch>>

\* An active job is locked: to remove it is an error.
CancelActs ==
    /\ canceller \notin {"idle", "over"}
    /\ jobAt' = IF canceller = "waiting" /\ jobAt = "waiting" THEN "removed" ELSE jobAt
    /\ cancelled' = (cancelled \/ canceller = "active")
    /\ canceller' = "over"
    /\ UNCHANGED <<tries, stageAt, recipe, stepNo, signalled, call, listens, child, scratch>>

-----------------------------------------------------------------------------
(* A promise is settled once.                                              *)

\* Mutant: the process is left to itself.
failOnly ==
    /\ call = "open"
    /\ call' = "failed"
    /\ UNCHANGED child

fail ==
    /\ call = "open"
    /\ call' = "failed"
    /\ child' = IF child = "running" THEN "gone" ELSE child

at(steps) == stageAt = "working" /\ call = "none" /\ recipe[stepNo] \in steps

\* The steps that wait for nobody.
StepDone ==
    /\ at({"makeDir", "fetchInput", "read", "check", "put"})
    /\ scratch' = IF recipe[stepNo] = "makeDir" THEN scratch \cup {"dir"} ELSE scratch
    /\ stepNo' = stepNo + 1
    /\ stageAt' = IF stepNo = Len(recipe) THEN "leaving" ELSE "working"
    /\ UNCHANGED <<jobVars, recipe, signalled, call, listens, child>>

StepFails ==
    /\ at({"makeDir", "fetchInput", "read", "check", "put"})
    /\ call' = "failed"
    /\ stageAt' = "leaving"
    /\ UNCHANGED <<jobVars, recipe, stepNo, signalled, listens, child, scratch>>

\* A signal that was aborted already tells its listeners nothing.
Spawn ==
    /\ at({"run", "probe"})
    /\ \/ call' = "open" /\ child' = "running"
       \/ call' = "failed" /\ UNCHANGED child
    /\ listens' = (recipe[stepNo] = "run" /\ ~signalled)
    /\ UNCHANGED <<jobVars, stageAt, recipe, stepNo, signalled, scratch>>

ChildWrites ==
    /\ child = "running"
    /\ recipe[stepNo] = "run" /\ outputFile(recipe) = "file"
    /\ scratch' = scratch \cup {"file"}
    /\ UNCHANGED <<jobVars, stageAt, recipe, stepNo, signalled, call, listens, child>>

ChildCloses ==
    /\ child = "running"
    /\ child' = "gone"
    /\ IF call = "open" THEN call' \in {"ok", "failed"} ELSE UNCHANGED call
    /\ UNCHANGED <<jobVars, stageAt, recipe, stepNo, signalled, listens, scratch>>

Request ==
    /\ at({"call", "ask", "ping"})
    /\ listens' = (recipe[stepNo] = "call")
    /\ call' = IF signalled /\ recipe[stepNo] = "call" THEN "failed" ELSE "open"
    /\ UNCHANGED <<jobVars, stageAt, recipe, stepNo, signalled, child, scratch>>

RequestReplied ==
    /\ call = "open" /\ child # "running"
    /\ call' \in {"ok", "failed"}
    /\ UNCHANGED <<jobVars, stageAt, recipe, stepNo, signalled, listens, child, scratch>>

\* The time-out, of a process or a request, and an output that is too long.
TimesOut ==
    /\ fail
    /\ UNCHANGED <<jobVars, stageAt, recipe, stepNo, signalled, listens, scratch>>

CallSettled ==
    /\ stageAt = "working"
    /\ call \in {"ok", "failed"}
    /\ stageAt' = IF call = "failed" \/ stepNo = Len(recipe) THEN "leaving" ELSE "working"
    /\ call' = IF call = "failed" THEN "failed" ELSE "none"
    /\ stepNo' = IF call = "failed" THEN stepNo ELSE stepNo + 1
    /\ UNCHANGED <<jobVars, recipe, signalled, listens, child, scratch>>

-----------------------------------------------------------------------------
(* The attempts.                                                           *)

TakeJob ==
    /\ jobAt = "waiting" /\ stageAt = "idle"
    /\ jobAt' = "active"
    /\ tries' = tries + 1
    /\ recipe' \in IF tries = 0 THEN recipes ELSE {recipe}
    /\ stageAt' = "checking"
    /\ stepNo' = 1
    /\ signalled' = FALSE
    /\ call' = "none"
    /\ UNCHANGED <<cancelled, canceller, listens, child, scratch>>

\* An error counts as the cancellation when the signal was aborted.
endsIn(failed) ==
    CASE ~failed -> "completed"
      [] failed /\ (signalled \/ tries = maxTries) -> "failed"
      [] OTHER -> "waiting"

CheckCancelled ==
    /\ stageAt = "checking"
    /\ stageAt' = IF cancelled THEN "idle" ELSE "working"
    /\ jobAt' = IF cancelled THEN "failed" ELSE jobAt
    /\ UNCHANGED <<tries, cancelled, canceller, recipe, stepNo, signalled, call, listens,
                   child, scratch>>

PollCancelled ==
    /\ stageAt # "idle" /\ cancelled /\ ~signalled
    /\ signalled' = TRUE
    /\ IF call = "open" /\ listens THEN fail ELSE UNCHANGED <<call, child>>
    /\ UNCHANGED <<jobVars, stageAt, recipe, stepNo, listens, scratch>>

\* The finally of the body, and the end of the attempt.
EndAttempt ==
    /\ stageAt = "leaving"
    /\ stageAt' = "idle"
    /\ scratch' = {}
    /\ jobAt' = endsIn(call = "failed")
    /\ UNCHANGED <<tries, cancelled, canceller, recipe, stepNo, signalled, call, listens, child>>

WorkNext ==
    \/ CancelReads \/ CancelActs
    \/ TakeJob \/ CheckCancelled \/ PollCancelled \/ EndAttempt
    \/ StepDone \/ StepFails \/ CallSettled
    \/ Spawn \/ ChildWrites \/ ChildCloses \/ TimesOut
    \/ Request \/ RequestReplied

WorkSpec == WorkInit /\ [][WorkNext]_workVars

-----------------------------------------------------------------------------
(* Properties.                                                             *)

\* However an attempt ends (its process exits, times out, is cancelled or
\* cannot be started, a request or a step fails), between two attempts no
\* process of it runs on and none of its temporary files is left.
NothingLeftBehind == stageAt = "idle" => child # "running" /\ scratch = {}
=============================================================================
