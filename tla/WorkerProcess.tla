--------------------------- MODULE WorkerProcess ----------------------------
(***************************************************************************)
(* One worker process from its start to its end                            *)
(* (apps/workers/pipeline/src/main.ts): the configuration, the bus, the    *)
(* plugins (plugin-sdk/src/loader.ts) and local runtimes                   *)
(* (ai-sdk/src/discovery.ts) it finds, the parts it starts one after the   *)
(* other, and the shutdown that every SIGTERM or SIGINT begins, a second   *)
(* one while the first is still on its way included.                       *)
(***************************************************************************)
EXTENDS Naturals, FiniteSets

CONSTANTS
    Plugins,    \* directories under the plugins root
    WorkQueues, \* WORKER_QUEUES
    concurrency,\* jobs of a queue that are worked on at one time
    MaxSignals,
    MaxJobs     \* jobs that are taken in all

ASSUME WorkerProcessAssumption ==
    /\ WorkQueues \cap {"metrics", "database", "bus", "queue", "events", "webhooks", "exit"} = {}
    /\ concurrency \in Nat /\ MaxSignals \in Nat /\ MaxJobs \in Nat

VARIABLES
    mainAt,    \* where main stands
    plugin,    \* each plugin: "unread", "failed", "loaded", "registered", "skipped"
    listed,    \* Plugin rows of the database
    runtimes,  \* local runtimes that were found
    open,      \* what is open, of "metrics", "database", "bus", "queue", "events",
               \*   "webhooks" and the workers of each queue
    working,   \* jobs under way of each queue
    taken,
    shutdowns, \* where each call of shutdown stands
    signals

processVars == <<mainAt, plugin, listed, runtimes, open, working, taken, shutdowns, signals>>
startVars == <<working, taken, shutdowns, signals>>

WorkerProcessInit ==
    /\ mainAt = "config"
    /\ plugin = [p \in Plugins |-> "unread"]
    /\ listed = {}
    /\ runtimes = {}
    /\ open = {}
    /\ working = [q \in WorkQueues |-> 0]
    /\ taken = 0
    /\ shutdowns = {}
    /\ signals = 0

exit ==
    /\ mainAt' = "exited"
    /\ open' = {}
    /\ working' = [q \in WorkQueues |-> 0]
    /\ shutdowns' = {}

-----------------------------------------------------------------------------
(* The start, in the order of main.                                        *)

\* loadAll, the clients and the metrics server.
LoadBundle ==
    /\ mainAt = "config"
    /\ mainAt' = "bus"
    /\ open' = {"metrics", "database"}
    /\ UNCHANGED <<startVars, plugin, listed, runtimes>>

ConnectBus ==
    /\ mainAt = "bus"
    /\ mainAt' = "plugins"
    /\ open' = open \cup {"bus"}
    /\ UNCHANGED <<startVars, plugin, listed, runtimes>>

\* A directory without a manifest, with one that is not valid, with an entry
\* elsewhere, missing, or that cannot be imported or is no plugin of that name,
\* fails for itself.
loadFromDirectory(p) == {"failed", "loaded"}

LoadPlugins ==
    /\ mainAt = "plugins"
    /\ mainAt' = "register"
    /\ plugin' \in {f \in [Plugins -> {"failed", "loaded"}] :
                        \A p \in Plugins : f[p] \in loadFromDirectory(p)}
    /\ UNCHANGED <<startVars, listed, runtimes, open>>

\* The plugins are registered one by one; one that throws is skipped.
RegisterPlugin(p) ==
    /\ mainAt = "register"
    /\ plugin[p] = "loaded"
    /\ \E outcome \in {"registered", "skipped"} : plugin' = [plugin EXCEPT ![p] = outcome]
    /\ UNCHANGED <<startVars, mainAt, listed, runtimes, open>>

\* Every plugin that was loaded is listed, a skipped one too, unless its upsert fails.
ListPlugins ==
    /\ mainAt = "register"
    /\ \A p \in Plugins : plugin[p] # "loaded"
    /\ mainAt' = "discovery"
    /\ \E some \in SUBSET {p \in Plugins : plugin[p] # "failed"} : listed' = listed \cup some
    /\ UNCHANGED <<startVars, plugin, runtimes, open>>

\* Each probe, of an endpoint or of a command, finds its runtime or not in time;
\* two and one of the default probes stand for all.
probeHttp == {"ollama", "lm-studio"}
probeCli == {"ffmpeg"}

Discover ==
    /\ mainAt = "discovery"
    /\ mainAt' = "orchestrator"
    /\ runtimes' \in SUBSET (probeHttp \cup probeCli)
    /\ open' = open \cup {"queue"}
    /\ UNCHANGED <<startVars, plugin, listed>>

StartOrchestrator ==
    /\ mainAt = "orchestrator"
    /\ mainAt' = "webhooks"
    /\ open' = open \cup {"events"}
    /\ UNCHANGED <<startVars, plugin, listed, runtimes>>

StartWebhooks ==
    /\ mainAt = "webhooks"
    /\ mainAt' = "workers"
    /\ open' = open \cup {"webhooks"}
    /\ UNCHANGED <<startVars, plugin, listed, runtimes>>

StartWorkers ==
    /\ mainAt = "workers"
    /\ mainAt' = "running"
    /\ open' = open \cup WorkQueues
    /\ UNCHANGED <<startVars, plugin, listed, runtimes>>

\* Until main has come to its end an error, or a signal, ends the process.
StartFails ==
    /\ mainAt \notin {"running", "exited"}
    /\ exit
    /\ UNCHANGED <<plugin, listed, runtimes, taken, signals>>

-----------------------------------------------------------------------------
(* The work.                                                               *)

TakeStageJob(q) ==
    /\ q \in open
    /\ working[q] < concurrency
    /\ taken < MaxJobs
    /\ taken' = taken + 1
    /\ working' = [working EXCEPT ![q] = @ + 1]
    /\ UNCHANGED <<mainAt, plugin, listed, runtimes, open, shutdowns, signals>>

FinishStageJob(q) ==
    /\ working[q] > 0
    /\ working' = [working EXCEPT ![q] = @ - 1]
    /\ UNCHANGED <<mainAt, plugin, listed, runtimes, open, taken, shutdowns, signals>>

-----------------------------------------------------------------------------
(* The end.                                                                *)

\* Mutant: the bus is closed first.
ShutdownStepsBusFirst == <<"bus", "workers", "webhooks", "events", "queue", "database", "exit">>

\* The order of what every shutdown closes, each after the one before is closed.
ShutdownSteps == <<"workers", "webhooks", "events", "queue", "bus", "database", "exit">>

\* The metrics server, and the workers: they take no more jobs.
Signal ==
    /\ mainAt = "running"
    /\ signals < MaxSignals
    /\ signals' = signals + 1
    /\ shutdowns' = shutdowns \cup {<<signals', 1>>}
    /\ open' = open \ {"metrics"}
    /\ UNCHANGED <<mainAt, plugin, listed, runtimes, working, taken>>

\* close of a worker: no job is taken any more, and those under way end first.
CloseWorkers(t) ==
    /\ ShutdownSteps[t[2]] = "workers"
    /\ open \cap WorkQueues # {}
    /\ open' = open \ WorkQueues
    /\ UNCHANGED <<mainAt, plugin, listed, runtimes, working, taken, shutdowns, signals>>

ShutdownGoesOn(t) ==
    /\ LET step == ShutdownSteps[t[2]]
       IN  /\ step # "exit"
           /\ step = "workers" =>
                  open \cap WorkQueues = {} /\ \A q \in WorkQueues : working[q] = 0
           /\ open' = open \ {step}
    /\ shutdowns' = (shutdowns \ {t}) \cup {<<t[1], t[2] + 1>>}
    /\ UNCHANGED <<mainAt, plugin, listed, runtimes, working, taken, signals>>

ShutdownEnds(t) ==
    /\ ShutdownSteps[t[2]] = "exit"
    /\ exit
    /\ UNCHANGED <<plugin, listed, runtimes, taken, signals>>

WorkerProcessNext ==
    \/ LoadBundle \/ ConnectBus \/ LoadPlugins \/ ListPlugins \/ Discover
    \/ StartOrchestrator \/ StartWebhooks \/ StartWorkers \/ StartFails
    \/ \E p \in Plugins : RegisterPlugin(p)
    \/ \E q \in WorkQueues : TakeStageJob(q) \/ FinishStageJob(q)
    \/ Signal
    \/ \E t \in shutdowns : CloseWorkers(t) \/ ShutdownGoesOn(t) \/ ShutdownEnds(t)

WorkerProcessSpec == WorkerProcessInit /\ [][WorkerProcessNext]_processVars

-----------------------------------------------------------------------------
(* Properties.                                                             *)

\* From the first job to the last, however often the process is told to stop:
\* while a stage job is worked on, the plugins were registered, the database
\* and the bus on which it reports are open, and what follows up its report is
\* subscribed.
JobsHaveTheirServices ==
    (\E q \in WorkQueues : working[q] > 0) =>
        /\ {"database", "bus", "queue", "events"} \subseteq open
        /\ \A p \in Plugins : plugin[p] \notin {"unread", "loaded"}
=============================================================================
