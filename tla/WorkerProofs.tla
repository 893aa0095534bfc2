---------------------------- MODULE WorkerProofs ----------------------------
(***************************************************************************)
(* Theorems about a worker process, its stage jobs, the objects it puts,   *)
(* the providers it asks and the configuration it watches, for any         *)
(* plugins, queues, signals, attempts, writers, readers, providers, calls, *)
(* documents and variables.                                                *)
(***************************************************************************)
EXTENDS WorkerProcess, StageWork, Storage, ProviderRegistry, Configuration,
        SequenceTheorems, FiniteSetTheorems, TLAPS

-----------------------------------------------------------------------------
(* WorkerProcess.                                                          *)

starting == {"config", "bus", "plugins", "register", "discovery", "orchestrator",
             "webhooks", "workers"}
services == {"database", "bus", "queue", "events"}

ProcessTypeOK ==
    /\ mainAt \in starting \cup {"running", "exited"}
    /\ plugin \in [Plugins -> {"unread", "failed", "loaded", "registered", "skipped"}]
    /\ working \in [WorkQueues -> Nat]
    /\ shutdowns \subseteq Nat \X (1 .. 7)
    /\ signals \in Nat

\* Nothing is taken, and nobody shuts down, before main has come to its end.
StartInv ==
    /\ mainAt # "running" => shutdowns = {}
    /\ mainAt # "running" => \A q \in WorkQueues : q \notin open /\ working[q] = 0
    /\ mainAt \notin {"config", "bus", "plugins", "register", "exited"} =>
           \A p \in Plugins : plugin[p] \notin {"unread", "loaded"}
    /\ mainAt = "register" => \A p \in Plugins : plugin[p] # "unread"

\* What has been opened so far stays open until a shutdown is behind its workers.
OpenInv ==
    /\ mainAt \notin {"config", "exited", "running"} => "database" \in open
    /\ mainAt \in {"plugins", "register", "discovery", "orchestrator", "webhooks", "workers"}
           => "bus" \in open
    /\ mainAt \in {"orchestrator", "webhooks", "workers"} => "queue" \in open
    /\ mainAt \in {"webhooks", "workers"} => "events" \in open
    /\ mainAt = "running" /\ (\A t \in shutdowns : t[2] = 1) => services \subseteq open

\* A shutdown that is behind its workers found them idle, and they stay so.
DrainedInv ==
    (\E t \in shutdowns : t[2] > 1) =>
        \A q \in WorkQueues : q \notin open /\ working[q] = 0

ProcessInv == ProcessTypeOK /\ StartInv /\ OpenInv /\ DrainedInv

LEMMA ProcessInit == WorkerProcessInit => ProcessInv
BY DEF WorkerProcessInit, ProcessInv, ProcessTypeOK, StartInv, OpenInv, DrainedInv, starting

\* A step of the start: main goes from one place to the next.
LEMMA StartStep ==
    ASSUME ProcessInv,
           \/ LoadBundle \/ ConnectBus \/ LoadPlugins \/ ListPlugins \/ Discover
           \/ StartOrchestrator \/ StartWebhooks \/ StartWorkers
           \/ \E p \in Plugins : RegisterPlugin(p)
    PROVE  ProcessInv'
<1> USE WorkerProcessAssumption DEF ProcessInv, ProcessTypeOK, StartInv, OpenInv, DrainedInv,
        starting, startVars, services
<1>1. CASE LoadBundle
    BY <1>1 DEF LoadBundle
<1>2. CASE ConnectBus
    BY <1>2 DEF ConnectBus
<1>3. CASE LoadPlugins
    BY <1>3 DEF LoadPlugins, loadFromDirectory
<1>4. CASE ListPlugins
    BY <1>4 DEF ListPlugins
<1>5. CASE Discover
    BY <1>5 DEF Discover
<1>6. CASE StartOrchestrator
    BY <1>6 DEF StartOrchestrator
<1>7. CASE StartWebhooks
    BY <1>7 DEF StartWebhooks
<1>8. CASE StartWorkers
    BY <1>8 DEF StartWorkers
<1>9. ASSUME NEW p \in Plugins, RegisterPlugin(p) PROVE ProcessInv'
    BY <1>9 DEF RegisterPlugin
<1> QED
    BY <1>1, <1>2, <1>3, <1>4, <1>5, <1>6, <1>7, <1>8, <1>9

\* Jobs are taken only from a worker that is open.
LEMMA JobStep ==
    ASSUME ProcessInv, NEW q \in WorkQueues, TakeStageJob(q) \/ FinishStageJob(q)
    PROVE  ProcessInv'
<1> USE DEF ProcessInv, ProcessTypeOK, StartInv, OpenInv, DrainedInv, starting, services
<1>1. CASE TakeStageJob(q)
    BY <1>1 DEF TakeStageJob
<1>2. CASE FinishStageJob(q)
    BY <1>2 DEF FinishStageJob
<1> QED
    BY <1>1, <1>2

\* The first thing a shutdown closes is the workers, and it waits for them.
LEMMA ShutdownStep ==
    ASSUME ProcessInv, NEW t \in shutdowns,
           CloseWorkers(t) \/ ShutdownGoesOn(t)
    PROVE  ProcessInv'
<1> USE WorkerProcessAssumption DEF ProcessInv, ProcessTypeOK, StartInv, OpenInv, DrainedInv,
        starting, services
<1>1. t[1] \in Nat /\ t[2] \in 1 .. 7 /\ mainAt = "running"
    OBVIOUS
<1>2. CASE CloseWorkers(t)
    BY <1>2 DEF CloseWorkers
<1>3. CASE ShutdownGoesOn(t)
    <2>1. t[2] # 7
        BY <1>3 DEF ShutdownGoesOn, ShutdownSteps
    <2>2. \A q \in WorkQueues : q \notin open' /\ working'[q] = 0
        <3>1. CASE t[2] = 1
            BY <1>3, <3>1 DEF ShutdownGoesOn, ShutdownSteps
        <3>2. CASE t[2] # 1
            BY <1>1, <1>3, <3>2 DEF ShutdownGoesOn
        <3> QED
            BY <3>1, <3>2
    <2>3. /\ shutdowns' \subseteq Nat \X (1 .. 7)
          /\ <<t[1], t[2] + 1>> \in shutdowns' /\ t[2] + 1 # 1
        BY <1>1, <1>3, <2>1 DEF ShutdownGoesOn
    <2>4. UNCHANGED <<mainAt, plugin, working, signals>>
        BY <1>3 DEF ShutdownGoesOn
    <2>5. ProcessTypeOK' /\ StartInv'
        BY <1>1, <2>2, <2>3, <2>4
    <2>6. DrainedInv' /\ OpenInv'
        BY <1>1, <2>2, <2>3, <2>4
    <2> QED
        BY <2>5, <2>6
<1> QED
    BY <1>2, <1>3

\* The process ends, or is told to end.
LEMMA EndStep ==
    ASSUME ProcessInv, StartFails \/ Signal \/ \E t \in shutdowns : ShutdownEnds(t)
    PROVE  ProcessInv'
<1> USE WorkerProcessAssumption DEF ProcessInv, ProcessTypeOK, StartInv, OpenInv, DrainedInv,
        starting, services
<1>1. CASE StartFails
    BY <1>1 DEF StartFails, exit
<1>2. CASE Signal
    BY <1>2 DEF Signal
<1>3. CASE \E t \in shutdowns : ShutdownEnds(t)
    BY <1>3 DEF ShutdownEnds, exit
<1> QED
    BY <1>1, <1>2, <1>3

\* The invariant holds in every reachable state of the process.
THEOREM ProcessInvariance == WorkerProcessSpec => []ProcessInv
<1>1. ProcessInv /\ [WorkerProcessNext]_processVars => ProcessInv'
    <2> SUFFICES ASSUME ProcessInv, [WorkerProcessNext]_processVars PROVE ProcessInv'
        OBVIOUS
    <2>1. CASE \/ LoadBundle \/ ConnectBus \/ LoadPlugins \/ ListPlugins \/ Discover
               \/ StartOrchestrator \/ StartWebhooks \/ StartWorkers
               \/ \E p \in Plugins : RegisterPlugin(p)
        BY <2>1, StartStep
    <2>2. ASSUME NEW q \in WorkQueues, TakeStageJob(q) \/ FinishStageJob(q) PROVE ProcessInv'
        BY <2>2, JobStep
    <2>3. ASSUME NEW t \in shutdowns, CloseWorkers(t) \/ ShutdownGoesOn(t) PROVE ProcessInv'
        BY <2>3, ShutdownStep
    <2>4. CASE StartFails \/ Signal \/ \E t \in shutdowns : ShutdownEnds(t)
        BY <2>4, EndStep
    <2>5. CASE UNCHANGED processVars
        BY <2>5 DEF processVars, ProcessInv, ProcessTypeOK, StartInv, OpenInv, DrainedInv
    <2> QED
        BY <2>1, <2>2, <2>3, <2>4, <2>5 DEF WorkerProcessNext
<1> QED
    BY <1>1, ProcessInit, PTL DEF WorkerProcessSpec

\* main and shutdown: whenever a job is worked on, what it uses is open,
\* however many signals came and whichever shutdown is ahead.
THEOREM JobsHaveTheirServicesHolds == WorkerProcessSpec => []JobsHaveTheirServices
<1>1. ProcessInv => JobsHaveTheirServices
    BY DEF ProcessInv, ProcessTypeOK, StartInv, OpenInv, DrainedInv, JobsHaveTheirServices,
           starting, services
<1> QED
    BY <1>1, ProcessInvariance, PTL

-----------------------------------------------------------------------------
(* StageWork.                                                              *)

\* A process runs only under a promise that is open, a promise is open only
\* while the steps go on, and files are there only between the first step and
\* the finally of the body.
AttemptInv ==
    /\ child = "running" => call = "open"
    /\ call = "open" => stageAt = "working"
    /\ stageAt \in {"idle", "checking"} => scratch = {}

LEMMA AttemptStep ==
    ASSUME AttemptInv, [WorkNext]_workVars
    PROVE  AttemptInv'
<1> USE DEF AttemptInv, jobVars
<1>1. CASE CancelReads
    BY <1>1 DEF CancelReads
<1>2. CASE CancelActs
    BY <1>2 DEF CancelActs
<1>3. CASE TakeJob
    BY <1>3 DEF TakeJob
<1>4. CASE CheckCancelled
    BY <1>4 DEF CheckCancelled
<1>5. CASE PollCancelled
    BY <1>5 DEF PollCancelled, fail
<1>6. CASE EndAttempt
    BY <1>6 DEF EndAttempt
<1>7. CASE StepDone
    BY <1>7 DEF StepDone, at
<1>8. CASE StepFails
    BY <1>8 DEF StepFails, at
<1>9. CASE CallSettled
    BY <1>9 DEF CallSettled
<1>10. CASE Spawn
    BY <1>10 DEF Spawn, at
<1>11. CASE ChildWrites
    BY <1>11 DEF ChildWrites
<1>12. CASE ChildCloses
    BY <1>12 DEF ChildCloses
<1>13. CASE TimesOut
    BY <1>13 DEF TimesOut, fail
<1>14. CASE Request
    BY <1>14 DEF Request, at
<1>15. CASE RequestReplied
    BY <1>15 DEF RequestReplied
<1>16. CASE UNCHANGED workVars
    BY <1>16 DEF workVars
<1> QED
    BY <1>1, <1>2, <1>3, <1>4, <1>5, <1>6, <1>7, <1>8, <1>9, <1>10, <1>11, <1>12, <1>13,
       <1>14, <1>15, <1>16 DEF WorkNext

\* cli-runner, http-runner, ffmpeg and the bodies that use them: between two
\* attempts nothing of the last one is left, with any number of attempts.
THEOREM NothingLeftBehindHolds == WorkSpec => []NothingLeftBehind
<1>1. WorkInit => AttemptInv
    BY DEF WorkInit, AttemptInv
<1>2. AttemptInv => NothingLeftBehind
    BY DEF AttemptInv, NothingLeftBehind
<1> QED
    BY <1>1, <1>2, AttemptStep, PTL DEF WorkSpec

-----------------------------------------------------------------------------
(* Storage.                                                                *)

Length == Sizes \cup {NoLength}
ObjectType == [write : Nat, whole : BOOLEAN, size : Length]

GetType == [at : {"idle", "link", "input", "open", "served", "refused"},
            since : Nat, length : Length, met : Nat, got : ObjectType]

StorageTypeOK ==
    /\ object \in ObjectType
    /\ writes \in Nat
    /\ answered \in Nat
    /\ getAt \in [Gets -> GetType]

\* What is there is whole and no older than what was answered for; what a
\* reader was promised is no newer than what was or will be there.  Until it is
\* replaced, an object has the length that was announced.
ObjectInv ==
    /\ object.whole
    /\ object.write <= writes
    /\ answered <= object.write
    /\ \A g \in Gets : /\ getAt[g].since <= writes
                       /\ object # Nothing => getAt[g].since <= object.write
                       /\ getAt[g].met <= writes
                       /\ getAt[g].at = "open" /\ object # Nothing =>
                             \/ getAt[g].length \in {NoLength, object.size}
                             \/ object.write > getAt[g].met
    /\ ServedIsWhole

StorageInv == StorageTypeOK /\ ObjectInv

LEMMA StorageStep ==
    ASSUME StorageInv, [StorageNext]_storageVars
    PROVE  StorageInv'
<1> USE DEF StorageInv, StorageTypeOK, ObjectInv, ObjectType, Length, GetType, ServedIsWhole, fits,
            Nothing
<1>1. CASE BuildStorage
    BY <1>1 DEF BuildStorage
<1>2. ASSUME NEW p \in Puts, BeginPut(p) \/ WriteTemp(p) \/ WriteSidecar(p) PROVE StorageInv'
    BY <1>2 DEF BeginPut, WriteTemp, WriteSidecar, putGoes
<1>3. ASSUME NEW p \in Puts, RenameTemp(p) \/ SendObject(p) PROVE StorageInv'
    <2>1. CASE UNCHANGED <<writes, object>>
        BY <1>3, <2>1 DEF RenameTemp, SendObject
    <2>2. CASE replace(TRUE)
        <3>1. /\ writes' = writes + 1 /\ writes' \in Nat
              /\ object' \in ObjectType /\ object'.write = writes' /\ object'.whole
            BY <2>2 DEF replace
        <3>2. UNCHANGED <<getAt, answered>>
            BY <1>3 DEF RenameTemp, SendObject
        <3>3. \A g \in Gets : getAt[g].met < object'.write
            BY <3>1
        <3> QED
            BY <3>1, <3>2, <3>3
    <2> QED
        BY <1>3, <2>1, <2>2 DEF RenameTemp, SendObject
<1>4. ASSUME NEW p \in Puts, StatPut(p) PROVE StorageInv'
    BY <1>4 DEF StatPut
<1>5. CASE DeleteObject
    BY <1>5 DEF DeleteObject
<1>6. ASSUME NEW g \in Gets, ServeMedia(g) \/ Materialize(g) PROVE StorageInv'
    <2>1. PICK to \in {"link", "input"} :
              getAt' = [getAt EXCEPT ![g].at = to, ![g].since = answered]
        BY <1>6 DEF ServeMedia, Materialize, getBegins
    <2>2. UNCHANGED <<object, writes, answered>>
        BY <1>6 DEF ServeMedia, Materialize, getBegins
    <2>3. \A h \in Gets \ {g} : getAt'[h] = getAt[h]
        BY <2>1
    <2>4. getAt'[g] = [at |-> to, since |-> answered, length |-> getAt[g].length,
                       met |-> getAt[g].met, got |-> getAt[g].got]
        BY <2>1
    <2>5. StorageTypeOK'
        <3>1. getAt'[g] \in GetType
            BY <2>4
        <3>2. getAt' = [getAt EXCEPT ![g] = getAt'[g]]
            BY <2>1
        <3> QED
            BY <3>1, <3>2, <2>2
    <2>6. ObjectInv'
        BY <2>2, <2>3, <2>4
    <2> QED
        BY <2>5, <2>6
<1>7. ASSUME NEW g \in Gets, StatGet(g) \/ LinkExpired(g) PROVE StorageInv'
    <2>1. UNCHANGED <<object, writes, answered>>
        BY <1>7 DEF StatGet, LinkExpired
    <2>2. CASE getAt' = [getAt EXCEPT ![g].at = "refused"]
        BY <2>1, <2>2
    <2>3. CASE object # Nothing /\ StatGet(g)
        <3>1. PICK length \in {object.size, NoLength} :
                  getAt' = [getAt EXCEPT ![g].at = "open", ![g].met = writes,
                                         ![g].length = length]
            BY <2>3 DEF StatGet
        <3>2. \A h \in Gets \ {g} : getAt'[h] = getAt[h]
            BY <3>1
        <3>3. getAt'[g] = [at |-> "open", since |-> getAt[g].since, length |-> length,
                           met |-> writes, got |-> getAt[g].got]
            BY <3>1
        <3>4. StorageTypeOK'
            <4>1. getAt'[g] \in GetType
                BY <2>1, <3>3
            <4>2. getAt' = [getAt EXCEPT ![g] = getAt'[g]]
                BY <3>1
            <4> QED
                BY <4>1, <4>2, <2>1
        <3>5. ObjectInv'
            BY <2>1, <2>3, <3>2, <3>3
        <3> QED
            BY <3>4, <3>5
    <2> QED
        BY <1>7, <2>2, <2>3 DEF StatGet, LinkExpired, getGoes
<1>8. ASSUME NEW g \in Gets, OpenObject(g) PROVE StorageInv'
    BY <1>8 DEF OpenObject, getGoes
<1>9. CASE UNCHANGED storageVars
    BY <1>9 DEF storageVars
<1> QED
    BY <1>1, <1>2, <1>3, <1>4, <1>5, <1>6, <1>7, <1>8, <1>9 DEF StorageNext

\* put of both drivers and its readers: a reader is given one whole object, none
\* older than what a put had answered for, whoever writes; and the length the
\* API announced is wrong only for an object that was put after it was asked for.
THEOREM ServedIsWholeHolds == StorageSpec => []ServedIsWhole
<1>1. StorageInit => StorageInv
    BY DEF StorageInit, StorageInv, StorageTypeOK, ObjectInv, ObjectType, Length, GetType, ServedIsWhole,
           Nothing
<1>2. StorageInv => ServedIsWhole
    BY DEF StorageInv, ObjectInv
<1> QED
    BY <1>1, <1>2, StorageStep, PTL DEF StorageSpec

-----------------------------------------------------------------------------
(* ProviderRegistry.  The list is kept sorted, a call goes through the     *)
(* candidates it copied in that order, and what it gave up it found        *)
(* unhealthy or saw fail.                                                  *)

callLabel ==
    {"idle", "next", "probe", "use", "committed", "returned", "threw", "unavailable"}

RegistryTypeOK ==
    /\ list \in Seq(Providers) /\ sorted(list)
    /\ override \in Providers \cup {NoProvider}
    /\ health \in [Providers -> {"unknown", "healthy", "unhealthy"}]
    /\ fresh \subseteq Providers
    /\ pc \in [Calls -> callLabel]
    /\ chain \in [Calls -> Seq(Providers)]
    /\ current \in [Calls -> Providers \cup {NoProvider}]
    /\ planned \in [Calls -> SUBSET Providers]
    /\ outputs \in [Calls -> SUBSET Providers]
    /\ failed \in [Calls -> SUBSET Providers]
    /\ pin \in [Calls -> Providers \cup {NoProvider}]

lookingAt == {"probe", "use", "committed"}

\* A call has output of the provider it uses, and none before it is committed.
SpliceInv(c) ==
    /\ outputs[c] \subseteq {current[c]}
    /\ pc[c] \in {"next", "probe", "use"} => outputs[c] = {}

\* A candidate was given up, is looked at, or is still ahead.
PlannedInv(c) ==
    /\ pc[c] \in lookingAt => current[c] \in Providers
    /\ pc[c] \in lookingAt =>
           \A p \in planned[c] : p \in failed[c] \/ p = current[c] \/ p \in ToSet(chain[c])
    /\ pc[c] = "next" => \A p \in planned[c] : p \in failed[c] \/ p \in ToSet(chain[c])
    /\ pc[c] = "unavailable" => planned[c] \subseteq failed[c]

\* Those ahead go on in the order of the list; only the pinned one is out of it.
ChainInv(c) ==
    pc[c] \in lookingAt \cup {"next"} =>
        /\ \A i, j \in DOMAIN chain[c] : i < j =>
               chain[c][i] = pin[c] \/ Priority[chain[c][i]] <= Priority[chain[c][j]]
        /\ pc[c] \in lookingAt => \A j \in DOMAIN chain[c] :
               current[c] = pin[c] \/ Priority[current[c]] <= Priority[chain[c][j]]

\* What never fails counts as unhealthy, or was given up, after an abort only.
ReliableInv ==
    /\ \A p \in fresh : health[p] \in {"healthy", "unhealthy"}
    /\ \A p \in fresh \cap Reliable : health[p] = "unhealthy" => p \in aborted
    /\ \A c \in Calls : failed[c] \cap Reliable \subseteq aborted

RegistryInv ==
    /\ RegistryTypeOK
    /\ \A c \in Calls : SpliceInv(c) /\ PlannedInv(c) /\ ChainInv(c)
    /\ ReliableInv

\* A provider that is entered keeps the list sorted.
LEMMA InsertSorted ==
    ASSUME NEW entries \in Seq(Providers), sorted(entries), NEW p \in Providers,
           NEW l \in insert(p, entries)
    PROVE  l \in Seq(Providers) /\ sorted(l)
<1>1. PICK k \in 1 .. Len(entries) + 1 :
          /\ \A j \in DOMAIN entries : j < k <=> Priority[entries[j]] <= Priority[p]
          /\ l = InsertAt(entries, k, p)
  BY DEF insert
<1> DEFINE n == Len(entries)
           front == SubSeq(entries, 1, k - 1)
           back == SubSeq(entries, k, n)
<1>2. n \in Nat /\ k \in Nat /\ k - 1 \in Int /\ DOMAIN entries = 1 .. n
  BY LenProperties
<1>3. /\ front \in Seq(Providers) /\ Len(front) = k - 1
      /\ \A i \in 1 .. k - 1 : front[i] = entries[i]
  <2>1. \A i \in 1 .. k - 1 : entries[i] \in Providers
    BY <1>2, ElementOfSeq
  <2>2. /\ front \in Seq(Providers)
        /\ Len(front) = IF 1 <= k - 1 THEN k - 1 - 1 + 1 ELSE 0
        /\ \A i \in 1 .. k - 1 - 1 + 1 : front[i] = entries[1 + i - 1]
    BY <1>2, <2>1, SubSeqProperties
  <2>3. QED
    BY <1>2, <2>2
<1>4. /\ back \in Seq(Providers) /\ Len(back) = n - k + 1
      /\ \A i \in 1 .. n - k + 1 : back[i] = entries[k + i - 1]
  <2>1. \A i \in k .. n : entries[i] \in Providers
    BY <1>2, ElementOfSeq
  <2>2. /\ back \in Seq(Providers)
        /\ Len(back) = IF k <= n THEN n - k + 1 ELSE 0
        /\ \A i \in 1 .. n - k + 1 : back[i] = entries[k + i - 1]
    BY <1>2, <2>1, SubSeqProperties
  <2>3. QED
    BY <1>2, <2>2
<1> HIDE DEF front, back
<1> DEFINE head == front \o <<p>>
<1>5. /\ head \in Seq(Providers) /\ Len(head) = k
      /\ \A i \in 1 .. k : head[i] = IF i < k THEN entries[i] ELSE p
  <2>1. <<p>> \in Seq(Providers) /\ Len(<<p>>) = 1 /\ <<p>>[1] = p
    OBVIOUS
  <2>2. /\ head \in Seq(Providers)
        /\ Len(head) = Len(front) + 1
        /\ \A i \in 1 .. Len(front) + 1 :
               head[i] = IF i <= Len(front) THEN front[i] ELSE <<p>>[i - Len(front)]
    BY <1>3, <2>1, ConcatProperties
  <2>3. QED
    BY <1>2, <1>3, <2>1, <2>2
<1> HIDE DEF head
<1>6. /\ l \in Seq(Providers) /\ Len(l) = n + 1
      /\ \A i \in 1 .. n + 1 : l[i] = IF i <= k THEN head[i] ELSE back[i - k]
  <2>1. l = head \o back
    BY <1>1 DEF InsertAt, head, front, back
  <2>2. /\ head \o back \in Seq(Providers)
        /\ Len(head \o back) = Len(head) + Len(back)
        /\ \A i \in 1 .. Len(head) + Len(back) :
               (head \o back)[i] = IF i <= Len(head) THEN head[i] ELSE back[i - Len(head)]
    BY <1>4, <1>5, ConcatProperties
  <2>3. Len(head) + Len(back) = n + 1
    BY <1>2, <1>4, <1>5
  <2>4. QED
    BY <1>2, <1>5, <2>1, <2>2, <2>3
<1>7. ASSUME NEW i \in 1 .. n + 1
      PROVE  l[i] = IF i < k THEN entries[i] ELSE IF i = k THEN p ELSE entries[i - 1]
  <2>1. CASE i <= k
    BY <1>2, <1>5, <1>6, <2>1
  <2>2. CASE i > k
    <3>1. PICK d \in 1 .. n - k + 1 : d = i - k /\ k + d - 1 = i - 1
      BY <1>2, <2>2
    <3>2. back[d] = entries[k + d - 1]
      BY <1>4
    <3>3. l[i] = back[d]
      BY <1>2, <1>6, <2>2, <3>1
    <3>4. l[i] = entries[i - 1]
      BY <3>1, <3>2, <3>3
    <3>5. ~(i < k) /\ i # k
      BY <1>2, <2>2
    <3>6. QED
      BY <3>4, <3>5
  <2>3. QED
    BY <1>2, <2>1, <2>2
<1>8. \A i \in 1 .. n : Priority[entries[i]] \in Nat
  BY <1>2, ElementOfSeq, RegistryAssumption
<1>9. ASSUME NEW i \in 1 .. n + 1, NEW j \in 1 .. n + 1, i < j
      PROVE  Priority[l[i]] <= Priority[l[j]]
  <2>1. Priority[p] \in Nat
    BY RegistryAssumption
  <2>2. CASE j < k
    BY <1>2, <1>7, <1>9, <2>2 DEF sorted
  <2>3. CASE j = k
    BY <1>1, <1>2, <1>7, <1>9, <2>3
  <2>4. CASE i = k
    BY <1>1, <1>2, <1>7, <1>8, <1>9, <2>1, <2>4
  <2>5. CASE i < k /\ k < j
    <3>1. i \in 1 .. n /\ j - 1 \in 1 .. n /\ ~(j - 1 < k) /\ i < j - 1
      BY <1>2, <1>9, <2>5
    <3>2. Priority[entries[i]] <= Priority[entries[j - 1]]
      BY <1>2, <3>1 DEF sorted
    <3>3. QED
      BY <1>2, <1>7, <2>5, <3>2
  <2>6. CASE k < i
    <3>1. i - 1 \in 1 .. n /\ j - 1 \in 1 .. n /\ i - 1 < j - 1 /\ k < j
      BY <1>2, <1>9, <2>6
    <3>2. Priority[entries[i - 1]] <= Priority[entries[j - 1]]
      BY <1>2, <3>1 DEF sorted
    <3>3. QED
      BY <1>2, <1>7, <2>6, <3>1, <3>2
  <2>7. QED
    BY <1>2, <1>9, <2>2, <2>3, <2>4, <2>5, <2>6
<1>10. QED
  BY <1>2, <1>6, <1>9, LenProperties DEF sorted

\* So does one that is removed.
LEMMA RemoveSorted ==
    ASSUME NEW entries \in Seq(Providers), sorted(entries), NEW k \in DOMAIN entries
    PROVE  RemoveAt(entries, k) \in Seq(Providers) /\ sorted(RemoveAt(entries, k))
<1> DEFINE n == Len(entries)
           front == SubSeq(entries, 1, k - 1)
           back == SubSeq(entries, k + 1, n)
           l == front \o back
<1>2. n \in Nat /\ k \in 1 .. n /\ DOMAIN entries = 1 .. n
  BY LenProperties
<1>3. /\ front \in Seq(Providers) /\ Len(front) = k - 1
      /\ \A i \in 1 .. k - 1 : front[i] = entries[i]
  <2>1. \A i \in 1 .. k - 1 : entries[i] \in Providers
    BY <1>2, ElementOfSeq
  <2>2. /\ front \in Seq(Providers)
        /\ Len(front) = IF 1 <= k - 1 THEN k - 1 - 1 + 1 ELSE 0
        /\ \A i \in 1 .. k - 1 - 1 + 1 : front[i] = entries[1 + i - 1]
    BY <1>2, <2>1, SubSeqProperties
  <2>3. QED
    BY <1>2, <2>2
<1>4. /\ back \in Seq(Providers) /\ Len(back) = n - k
      /\ \A i \in 1 .. n - k : back[i] = entries[k + i]
  <2>1. \A i \in k + 1 .. n : entries[i] \in Providers
    BY <1>2, ElementOfSeq
  <2>2. /\ back \in Seq(Providers)
        /\ Len(back) = IF k + 1 <= n THEN n - (k + 1) + 1 ELSE 0
        /\ \A i \in 1 .. n - (k + 1) + 1 : back[i] = entries[k + 1 + i - 1]
    BY <1>2, <2>1, SubSeqProperties
  <2>3. QED
    BY <1>2, <2>2
<1> HIDE DEF front, back
<1>5. /\ l \in Seq(Providers)
      /\ Len(l) = Len(front) + Len(back)
      /\ \A i \in 1 .. Len(front) + Len(back) :
             l[i] = IF i <= Len(front) THEN front[i] ELSE back[i - Len(front)]
  BY <1>3, <1>4, ConcatProperties
<1> HIDE DEF l
<1>a. Len(l) = n - 1
  BY <1>2, <1>3, <1>4, <1>5
<1>b. ASSUME NEW i \in 1 .. n - 1
      PROVE  l[i] = IF i < k THEN entries[i] ELSE entries[i + 1]
  <2>1. CASE i < k
    <3>1. i \in 1 .. k - 1 /\ i \in 1 .. Len(front) + Len(back) /\ i <= Len(front)
      BY <1>2, <1>3, <1>4, <2>1
    <3>2. l[i] = front[i]
      BY <1>5, <3>1
    <3>3. QED
      BY <1>3, <2>1, <3>1, <3>2
  <2>2. CASE i >= k
    <3> DEFINE d == i - (k - 1)
    <3>0. k \in Int /\ n \in Int /\ i \in Int /\ i <= n - 1
      <4>1. n \in Nat /\ k \in 1 .. n
        BY <1>2
      <4>2. i \in 1 .. n - 1
        OBVIOUS
      <4> HIDE DEF n
      <4>3. QED
        BY <4>1, <4>2
    <3>1. d \in 1 .. n - k /\ d = i - (k - 1) /\ k + d = i + 1
      BY <2>2, <3>0
    <3> HIDE DEF d
    <3>2. back[d] = entries[k + d]
      BY <1>4, <3>1
    <3>3. i \in 1 .. Len(front) + Len(back) /\ ~(i <= Len(front)) /\ i - Len(front) = d
      <4>1. Len(front) = k - 1 /\ Len(back) = n - k
        BY <1>3, <1>4
      <4>2. QED
        BY <1>2, <2>2, <3>1, <4>1
    <3>4. l[i] = back[d]
      BY <1>5, <3>3
    <3>5. QED
      BY <1>2, <2>2, <3>1, <3>2, <3>4
  <2>3. QED
    BY <1>2, <2>1, <2>2
<1>6. ASSUME NEW i \in 1 .. n - 1, NEW j \in 1 .. n - 1, i < j
      PROVE  Priority[l[i]] <= Priority[l[j]]
  <2>1. PICK u \in 1 .. n, v \in 1 .. n : u < v /\ l[i] = entries[u] /\ l[j] = entries[v]
    <3>1. CASE j < k
      BY <1>2, <1>b, <1>6, <3>1
    <3>2. CASE i < k /\ k <= j
      BY <1>2, <1>b, <1>6, <3>2
    <3>3. CASE k <= i
      BY <1>2, <1>b, <1>6, <3>3
    <3>4. QED
      BY <1>2, <1>6, <3>1, <3>2, <3>3
  <2>2. QED
    BY <1>2, <2>1 DEF sorted
<1>7. DOMAIN l = 1 .. n - 1
  BY <1>5, <1>a, LenProperties
<1>8. RemoveAt(entries, k) = l
  BY DEF RemoveAt, l, front, back
<1>9. QED
  BY <1>5, <1>6, <1>7, <1>8 DEF sorted

\* The candidates of a call are in the order of the list, the pinned one first.
LEMMA CandidatesOrdered ==
    ASSUME RegistryTypeOK, NEW c \in Calls, NEW order \in candidates(c)
    PROVE  /\ order \in Seq(Providers)
           /\ \A i, j \in DOMAIN order : i < j =>
                  order[i] = override \/ Priority[order[i]] <= Priority[order[j]]
<1> DEFINE V == ToSet(list) \cap enabled \cap Eligible[c]
<1>1. V \subseteq Providers
  BY RegistryAssumption
<1>2. Cardinality(V) \in Nat
  BY <1>1, RegistryAssumption, FS_Subset, FS_CardinalityType
<1>3. /\ order \in [1 .. Cardinality(V) -> V]
      /\ \A i, j \in DOMAIN order : i < j => goesBefore(order[i], order[j])
  BY DEF candidates, SetToSeqs
<1> HIDE DEF V
<1>4. order \in Seq(Providers)
  BY <1>1, <1>2, <1>3, SeqDef
<1>5. ASSUME NEW i \in DOMAIN order, NEW j \in DOMAIN order, i < j, order[i] # override
      PROVE  Priority[order[i]] <= Priority[order[j]]
  <2>1. PICK u, v \in DOMAIN list : u < v /\ list[u] = order[i] /\ list[v] = order[j]
    BY <1>3, <1>5 DEF goesBefore
  <2>2. Priority[list[u]] <= Priority[list[v]]
    BY <2>1 DEF RegistryTypeOK, sorted
  <2>3. QED
    BY <2>1, <2>2
<1>6. QED
  BY <1>4, <1>5

\* A chain is its head and the rest.
LEMMA HeadAndTail ==
    ASSUME NEW s \in Seq(Providers), s # <<>>
    PROVE  /\ Head(s) \in Providers /\ Tail(s) \in Seq(Providers)
           /\ ToSet(s) = {Head(s)} \cup ToSet(Tail(s))
           /\ Head(s) = s[1] /\ 1 \in DOMAIN s
           /\ \A i \in DOMAIN Tail(s) : i + 1 \in DOMAIN s /\ Tail(s)[i] = s[i + 1] /\ i \in Nat \ {0}
<1>1. /\ Head(s) \in Providers /\ Tail(s) \in Seq(Providers) /\ Len(Tail(s)) = Len(s) - 1
      /\ \A i \in 1 .. Len(Tail(s)) : Tail(s)[i] = s[i + 1]
  BY HeadTailProperties
<1>2. Len(s) \in Nat \ {0} /\ DOMAIN s = 1 .. Len(s) /\ Head(s) = s[1]
  BY EmptySeq, LenProperties
<1>3. DOMAIN Tail(s) = 1 .. Len(s) - 1
  BY <1>1, LenProperties
<1>4. \A i \in 1 .. Len(s) - 1 : i + 1 \in 1 .. Len(s) /\ Tail(s)[i] = s[i + 1]
  BY <1>1, <1>2
<1>5. \A j \in 1 .. Len(s) : j = 1 \/ (j - 1 \in 1 .. Len(s) - 1 /\ s[j] = Tail(s)[j - 1])
  BY <1>2, <1>4
<1>6. ToSet(s) = {Head(s)} \cup ToSet(Tail(s))
  <2>1. ASSUME NEW x \in ToSet(s) PROVE x \in {Head(s)} \cup ToSet(Tail(s))
    <3>1. PICK j \in 1 .. Len(s) : x = s[j]
      BY <1>2, <2>1, Zenon DEF ToSet
    <3>2. j # 1 => j - 1 \in DOMAIN Tail(s) /\ x = Tail(s)[j - 1]
      BY <1>3, <1>5, <3>1, Zenon
    <3>3. QED
      BY <1>2, <3>1, <3>2, Zenon DEF ToSet
  <2>2. ASSUME NEW x \in ToSet(Tail(s)) PROVE x \in ToSet(s)
    BY <1>2, <1>3, <1>4, <2>2 DEF ToSet
  <2>3. Head(s) \in ToSet(s)
    BY <1>2 DEF ToSet
  <2>4. QED
    BY <2>1, <2>2, <2>3
<1>7. QED
  BY <1>1, <1>2, <1>3, <1>4, <1>6

\* A call that gives one more provider up, or hands its output on.
LEMMA OneMore ==
    ASSUME NEW f \in [Calls -> SUBSET Providers], NEW c \in Calls, NEW p \in Providers,
           NEW g, g = f \/ g = [f EXCEPT ![c] = @ \cup {p}]
    PROVE  g \in [Calls -> SUBSET Providers]
<1>1. CASE g = [f EXCEPT ![c] = @ \cup {p}]
  <2>1. f[c] \cup {p} \in SUBSET Providers
    OBVIOUS
  <2>2. QED
    BY <1>1, <2>1
<1>2. QED
  BY <1>1

\* Every step keeps the types, and the list sorted.
LEMMA NextRegistryTypeOK ==
    RegistryTypeOK /\ (\A c \in Calls : PlannedInv(c)) /\ [Next]_vars => RegistryTypeOK'
<1> SUFFICES ASSUME RegistryTypeOK, \A c \in Calls : PlannedInv(c), [Next]_vars
             PROVE  RegistryTypeOK'
  OBVIOUS
<1>a. \A c \in Calls : pc[c] \in lookingAt => current[c] \in Providers
  BY DEF PlannedInv
<1> USE DEF entryVars, healthVars, callVars
<1>1. ASSUME NEW p \in Providers, Register(p)
      PROVE  RegistryTypeOK'
  <2>1. list' \in Seq(Providers) /\ sorted(list')
    BY <1>1, InsertSorted DEF Register, RegistryTypeOK
  <2>2. QED
    BY <1>1, <2>1 DEF Register, RegistryTypeOK, sorted
<1>2. ASSUME NEW p \in Providers, Unregister(p)
      PROVE  RegistryTypeOK'
  <2>1. list' \in Seq(Providers) /\ sorted(list')
    BY <1>2, RemoveSorted DEF Unregister, RegistryTypeOK
  <2>2. QED
    BY <1>2, <2>1 DEF Unregister, RegistryTypeOK, sorted
<1>3. ASSUME NEW p \in Providers, NEW on, SetEnabled(p, on)
      PROVE  RegistryTypeOK'
  BY <1>3 DEF SetEnabled, RegistryTypeOK, sorted
<1>4. ASSUME NEW p \in Providers \cup {NoProvider}, SetOrgOverride(p)
      PROVE  RegistryTypeOK'
  BY <1>4 DEF SetOrgOverride, RegistryTypeOK, sorted
<1>5. ASSUME NEW p \in Providers, Expire(p)
      PROVE  RegistryTypeOK'
  BY <1>5 DEF Expire, RegistryTypeOK, sorted
<1>6. ASSUME NEW c \in Calls, Begin(c)
      PROVE  RegistryTypeOK'
  <2>1. PICK order \in candidates(c) : /\ chain' = [chain EXCEPT ![c] = order]
                                       /\ planned' = [planned EXCEPT ![c] = ToSet(order)]
    BY <1>6 DEF Begin
  <2>2. order \in Seq(Providers)
    BY CandidatesOrdered
  <2>3. ToSet(order) \subseteq Providers
    BY <2>2, LenProperties DEF ToSet
  <2>4. /\ UNCHANGED <<list, override, health, fresh>>
        /\ outputs' = [outputs EXCEPT ![c] = {}] /\ failed' = [failed EXCEPT ![c] = {}]
        /\ pin' = [pin EXCEPT ![c] = override] /\ pc' = [pc EXCEPT ![c] = "next"]
        /\ current' = [current EXCEPT ![c] = NoProvider]
    BY <1>6 DEF Begin, CallGoto
  <2>5. chain' \in [Calls -> Seq(Providers)] /\ planned' \in [Calls -> SUBSET Providers]
    BY <2>1, <2>2, <2>3 DEF RegistryTypeOK
  <2>6. QED
    BY <2>4, <2>5 DEF RegistryTypeOK, callLabel, sorted
<1>7. ASSUME NEW c \in Calls, Look(c)
      PROVE  RegistryTypeOK'
  <2>1. Head(chain[c]) \in Providers /\ Tail(chain[c]) \in Seq(Providers)
    BY <1>7, HeadAndTail DEF Look, RegistryTypeOK
  <2>2. /\ UNCHANGED <<list, override, health, fresh, planned, outputs, pin>>
        /\ current' = [current EXCEPT ![c] = Head(chain[c])]
        /\ chain' = [chain EXCEPT ![c] = Tail(chain[c])]
        /\ failed' = failed \/ failed' = [failed EXCEPT ![c] = @ \cup {Head(chain[c])}]
    BY <1>7 DEF Look
  <2>3. PICK l \in {"probe", "use", "next"} : pc' = [pc EXCEPT ![c] = l]
    BY <1>7 DEF Look, CallGoto
  <2>4. pc' \in [Calls -> callLabel]
    BY <2>3 DEF RegistryTypeOK, callLabel
  <2>7. failed' \in [Calls -> SUBSET Providers]
    BY <2>1, <2>2, OneMore DEF RegistryTypeOK
  <2>5. /\ current' \in [Calls -> Providers \cup {NoProvider}]
        /\ chain' \in [Calls -> Seq(Providers)]
    BY <2>1, <2>2 DEF RegistryTypeOK
  <2>6. QED
    BY <2>2, <2>4, <2>5, <2>7 DEF RegistryTypeOK, sorted
<1>8. ASSUME NEW c \in Calls, Exhausted(c) \/ Resolved(c) \/ Output(c) \/ End(c)
      PROVE  RegistryTypeOK'
  <2>1. /\ UNCHANGED <<list, override, health, fresh, chain, current, planned, failed, pin>>
        /\ outputs' = outputs \/ (outputs' = [outputs EXCEPT ![c] = @ \cup {current[c]}]
                                    /\ current[c] \in Providers)
    BY <1>a, <1>8 DEF Exhausted, Resolved, Output, End, lookingAt
  <2>2. PICK l \in callLabel : pc' = [pc EXCEPT ![c] = l]
    BY <1>8 DEF Exhausted, Resolved, Output, End, CallGoto, callLabel
  <2>3. pc' \in [Calls -> callLabel]
    BY <2>2 DEF RegistryTypeOK
  <2>4. outputs' \in [Calls -> SUBSET Providers]
    BY <2>1, OneMore DEF RegistryTypeOK
  <2>5. QED
    BY <2>1, <2>3, <2>4 DEF RegistryTypeOK, sorted
<1>9. ASSUME NEW c \in Calls, Probed(c) \/ Fail(c)
      PROVE  RegistryTypeOK'
  <2>1. current[c] \in Providers
    BY <1>a, <1>9 DEF Probed, Fail, lookingAt
  <2>2. /\ UNCHANGED <<list, override, chain, current, planned, outputs, pin>>
        /\ fresh' = fresh \cup {current[c]}
        /\ failed' = failed \/ failed' = [failed EXCEPT ![c] = @ \cup {current[c]}]
    BY <1>9 DEF Probed, Fail
  <2>3. PICK h \in {"healthy", "unhealthy"} : health' = [health EXCEPT ![current[c]] = h]
    BY <1>9 DEF Probed, Fail
  <2>4. PICK l \in callLabel : pc' = [pc EXCEPT ![c] = l]
    BY <1>9 DEF Probed, Fail, CallGoto, callLabel
  <2>5. pc' \in [Calls -> callLabel] /\ fresh' \subseteq Providers
    BY <2>1, <2>2, <2>4 DEF RegistryTypeOK
  <2>6. health' \in [Providers -> {"unknown", "healthy", "unhealthy"}]
    BY <2>1, <2>3 DEF RegistryTypeOK
  <2>7. failed' \in [Calls -> SUBSET Providers]
    BY <2>1, <2>2, OneMore DEF RegistryTypeOK
  <2>8. QED
    BY <2>2, <2>5, <2>6, <2>7 DEF RegistryTypeOK, sorted
<1>10. CASE UNCHANGED vars
  BY <1>10 DEF vars, RegistryTypeOK, sorted
<1>11. QED
  BY <1>1, <1>2, <1>3, <1>4, <1>5, <1>6, <1>7, <1>8, <1>9, <1>10 DEF Next, Admin, Call

\* What calls keep, each for itself.
CallInv(c) == SpliceInv(c) /\ PlannedInv(c) /\ ChainInv(c)

LEMMA NextCalls ==
    RegistryTypeOK /\ (\A c \in Calls : CallInv(c)) /\ [Next]_vars =>
        \A c \in Calls : CallInv(c)'
<1> SUFFICES ASSUME RegistryTypeOK, \A c \in Calls : CallInv(c), [Next]_vars,
                    NEW d \in Calls
             PROVE  CallInv(d)'
  OBVIOUS
<1> USE DEF entryVars, healthVars, callVars
<1>a. SpliceInv(d) /\ PlannedInv(d) /\ ChainInv(d)
  BY DEF CallInv
<1>b. ASSUME /\ pc'[d] = pc[d] /\ chain'[d] = chain[d] /\ current'[d] = current[d]
             /\ planned'[d] = planned[d] /\ outputs'[d] = outputs[d]
             /\ failed'[d] = failed[d] /\ pin'[d] = pin[d]
      PROVE  CallInv(d)'
  BY <1>a, <1>b DEF CallInv, SpliceInv, PlannedInv, ChainInv
\* Steps that are not this call's.
<1>1. ASSUME NEW p \in Providers, Admin(p) \/ Expire(p)
      PROVE  CallInv(d)'
  BY <1>1, <1>b DEF Admin, Register, Unregister, SetEnabled, Expire
<1>2. ASSUME NEW p, SetOrgOverride(p)
      PROVE  CallInv(d)'
  BY <1>2, <1>b DEF SetOrgOverride
<1>3. ASSUME NEW c \in Calls, Call(c), c # d
      PROVE  CallInv(d)'
  BY <1>3, <1>b DEF Call, Begin, Look, Exhausted, Probed, Resolved, Output, End, Fail, CallGoto,
     RegistryTypeOK
<1>4. CASE UNCHANGED vars
  BY <1>4, <1>b DEF vars
\* This call's.
<1>5. CASE Begin(d)
  <2>1. PICK order \in candidates(d) : /\ chain' = [chain EXCEPT ![d] = order]
                                       /\ planned' = [planned EXCEPT ![d] = ToSet(order)]
    BY <1>5 DEF Begin
  <2>2. /\ chain'[d] = order /\ planned'[d] = ToSet(order) /\ outputs'[d] = {}
        /\ failed'[d] = {} /\ pin'[d] = override /\ pc'[d] = "next"
    BY <1>5, <2>1 DEF Begin, CallGoto, RegistryTypeOK
  <2>3. \A i, j \in DOMAIN order : i < j =>
            order[i] = override \/ Priority[order[i]] <= Priority[order[j]]
    BY CandidatesOrdered
  <2>4. QED
    BY <2>2, <2>3 DEF CallInv, SpliceInv, PlannedInv, ChainInv, lookingAt
<1>6. CASE Look(d)
  <2> DEFINE s == chain[d]
             p == Head(s)
  <2>1. s \in Seq(Providers) /\ s # <<>> /\ pc[d] = "next"
    BY <1>6 DEF Look, RegistryTypeOK
  <2>2. /\ p \in Providers /\ Tail(s) \in Seq(Providers)
        /\ ToSet(s) = {p} \cup ToSet(Tail(s))
        /\ p = s[1] /\ 1 \in DOMAIN s
        /\ \A i \in DOMAIN Tail(s) :
               i + 1 \in DOMAIN s /\ Tail(s)[i] = s[i + 1] /\ i \in Nat \ {0}
    BY <2>1, HeadAndTail
  <2>3. /\ chain'[d] = Tail(s) /\ current'[d] = p
        /\ planned'[d] = planned[d] /\ outputs'[d] = outputs[d] /\ pin'[d] = pin[d]
    BY <1>6 DEF Look, RegistryTypeOK
  <2>4. \/ pc'[d] \in {"probe", "use"} /\ failed'[d] = failed[d]
        \/ pc'[d] = "next" /\ failed'[d] = failed[d] \cup {p}
    BY <1>6 DEF Look, CallGoto, RegistryTypeOK
  <2> HIDE DEF s, p
  <2>5. SpliceInv(d)'
    BY <1>a, <2>1, <2>3, <2>4 DEF SpliceInv
  <2>6. \A q \in planned[d] : q \in failed[d] \/ q = p \/ q \in ToSet(Tail(s))
    BY <1>a, <2>1, <2>2 DEF PlannedInv, s
  <2>7. PlannedInv(d)'
    BY <2>2, <2>3, <2>4, <2>6 DEF PlannedInv, lookingAt
  <2>8. /\ \A i, j \in DOMAIN s : i < j => s[i] = pin[d] \/ Priority[s[i]] <= Priority[s[j]]
    BY <1>a, <2>1 DEF ChainInv, lookingAt, s
  <2>9. \A i, j \in DOMAIN Tail(s) : i < j =>
            Tail(s)[i] = pin[d] \/ Priority[Tail(s)[i]] <= Priority[Tail(s)[j]]
    BY <2>2, <2>8
  <2>10. \A j \in DOMAIN Tail(s) : p = pin[d] \/ Priority[p] <= Priority[Tail(s)[j]]
    <3>1. \A j \in DOMAIN Tail(s) : 1 < j + 1
      BY <2>2
    <3>2. QED
      BY <2>2, <2>8, <3>1
  <2>11. ChainInv(d)'
    BY <2>3, <2>9, <2>10 DEF ChainInv
  <2>12. QED
    BY <2>5, <2>7, <2>11 DEF CallInv
<1>7. CASE Exhausted(d)
  <2>1. /\ pc[d] = "next" /\ chain[d] = <<>> /\ pc'[d] = "unavailable"
        /\ UNCHANGED <<chain, current, planned, outputs, failed, pin>>
    BY <1>7 DEF Exhausted, CallGoto, RegistryTypeOK
  <2>2. ToSet(chain[d]) = {}
    BY <2>1 DEF ToSet
  <2>3. QED
    BY <1>a, <2>1, <2>2 DEF CallInv, SpliceInv, PlannedInv, ChainInv, lookingAt
<1>8. CASE Probed(d)
  <2>1. /\ pc[d] = "probe"
        /\ UNCHANGED <<chain, current, planned, outputs, pin>>
        /\ \/ pc'[d] = "use" /\ failed'[d] = failed[d]
           \/ pc'[d] = "next" /\ failed'[d] = failed[d] \cup {current[d]}
    BY <1>8 DEF Probed, CallGoto, RegistryTypeOK
  <2>2. QED
    BY <1>a, <2>1 DEF CallInv, SpliceInv, PlannedInv, ChainInv, lookingAt
<1>9. CASE Resolved(d) \/ End(d)
  <2>1. /\ pc'[d] = "returned"
        /\ UNCHANGED <<chain, current, planned, outputs, failed, pin>>
    BY <1>9 DEF Resolved, End, CallGoto, RegistryTypeOK
  <2>2. QED
    BY <1>a, <2>1 DEF CallInv, SpliceInv, PlannedInv, ChainInv, lookingAt
<1>10. CASE Output(d)
  <2>1. /\ pc[d] \in {"use", "committed"} /\ pc'[d] = "committed"
        /\ outputs'[d] = outputs[d] \cup {current[d]}
        /\ UNCHANGED <<chain, current, planned, failed, pin>>
    BY <1>10 DEF Output, CallGoto, RegistryTypeOK
  <2>2. QED
    BY <1>a, <2>1 DEF CallInv, SpliceInv, PlannedInv, ChainInv, lookingAt
<1>11. CASE Fail(d)
  <2>1. /\ \/ pc[d] \in {"use", "committed"} /\ pc'[d] = "threw"
           \/ pc[d] = "use" /\ pc'[d] = "next"
        /\ failed'[d] = failed[d] \cup {current[d]}
        /\ UNCHANGED <<chain, current, planned, outputs, pin>>
    BY <1>11 DEF Fail, CallGoto, RegistryTypeOK
  <2>2. QED
    BY <1>a, <2>1 DEF CallInv, SpliceInv, PlannedInv, ChainInv, lookingAt
<1>12. QED
  BY <1>1, <1>2, <1>3, <1>4, <1>5, <1>6, <1>7, <1>8, <1>9, <1>10, <1>11 DEF Next, Call

\* What never fails is found unhealthy only after an abort.
LEMMA NextReliable ==
    RegistryTypeOK /\ (\A c \in Calls : PlannedInv(c)) /\ ReliableInv /\ [Next]_vars =>
        ReliableInv'
<1> SUFFICES ASSUME RegistryTypeOK, \A c \in Calls : PlannedInv(c), ReliableInv, [Next]_vars
             PROVE  ReliableInv'
  OBVIOUS
<1> USE DEF entryVars, healthVars, callVars
<1>a. \A c \in Calls : pc[c] \in lookingAt => current[c] \in Providers
  BY DEF PlannedInv
<1>1. ASSUME NEW p \in Providers, Admin(p) \/ Expire(p)
      PROVE  ReliableInv'
  BY <1>1 DEF Admin, Register, Unregister, SetEnabled, Expire, ReliableInv, RegistryTypeOK
<1>2. ASSUME NEW p, SetOrgOverride(p)
      PROVE  ReliableInv'
  BY <1>2 DEF SetOrgOverride, ReliableInv
<1>3. ASSUME NEW c \in Calls, Begin(c) \/ Exhausted(c) \/ Resolved(c) \/ Output(c) \/ End(c)
      PROVE  ReliableInv'
  BY <1>3 DEF Begin, Exhausted, Resolved, Output, End, ReliableInv, RegistryTypeOK
<1>4. ASSUME NEW c \in Calls, Look(c)
      PROVE  ReliableInv'
  <2> DEFINE p == Head(chain[c])
  <2>1. /\ UNCHANGED <<health, fresh, aborted>>
        /\ \/ failed' = failed
           \/ /\ p \in fresh /\ health[p] # "healthy"
              /\ failed' = [failed EXCEPT ![c] = @ \cup {p}]
    BY <1>4 DEF Look
  <2> HIDE DEF p
  <2>2. p \in fresh /\ health[p] # "healthy" /\ p \in Reliable => p \in aborted
    BY DEF ReliableInv
  <2>3. QED
    BY <2>1, <2>2 DEF ReliableInv, RegistryTypeOK
<1>5. ASSUME NEW c \in Calls, Probed(c)
      PROVE  ReliableInv'
  <2>1. PICK answer \in {"healthy", "unhealthy"} :
            /\ answer = "unhealthy" => current[c] \notin Reliable
            /\ health' = [health EXCEPT ![current[c]] = answer]
            /\ failed' = IF answer = "healthy" THEN failed
                         ELSE [failed EXCEPT ![c] = @ \cup {current[c]}]
    BY <1>5 DEF Probed
  <2>2. fresh' = fresh \cup {current[c]} /\ aborted' = aborted /\ current[c] \in Providers
    BY <1>5, <1>a DEF Probed, lookingAt
  <2>3. QED
    BY <2>1, <2>2 DEF ReliableInv, RegistryTypeOK
<1>6. ASSUME NEW c \in Calls, Fail(c)
      PROVE  ReliableInv'
  <2>1. /\ current[c] \in Reliable => current[c] \in aborted'
        /\ aborted \subseteq aborted'
    BY <1>6 DEF Fail
  <2>2. /\ health' = [health EXCEPT ![current[c]] = "unhealthy"]
        /\ fresh' = fresh \cup {current[c]}
        /\ failed' = [failed EXCEPT ![c] = @ \cup {current[c]}]
        /\ current[c] \in Providers
    BY <1>6, <1>a DEF Fail, lookingAt
  <2>3. QED
    BY <2>1, <2>2 DEF ReliableInv, RegistryTypeOK
<1>7. CASE UNCHANGED vars
  BY <1>7 DEF vars, ReliableInv
<1>8. QED
  BY <1>1, <1>2, <1>3, <1>4, <1>5, <1>6, <1>7 DEF Next, Call

\* The registry's inductive invariant, for any providers, priorities and calls.
THEOREM RegistryInvariance == Spec => []RegistryInv
<1>1. Init => RegistryInv
  <2> SUFFICES ASSUME Init PROVE RegistryInv
    OBVIOUS
  <2>1. PICK S \in SUBSET Providers : list \in SetToSeqs(S) /\ sorted(list)
    BY DEF Init
  <2>2. Cardinality(S) \in Nat
    BY RegistryAssumption, FS_Subset, FS_CardinalityType
  <2>3. list \in Seq(Providers)
    BY <2>1, <2>2, SeqDef DEF SetToSeqs
  <2>4. RegistryTypeOK
    BY <2>1, <2>3, EmptySeq DEF Init, RegistryTypeOK, callLabel
  <2>5. \A c \in Calls : SpliceInv(c) /\ PlannedInv(c) /\ ChainInv(c)
    BY DEF Init, SpliceInv, PlannedInv, ChainInv, lookingAt
  <2>6. ReliableInv
    BY DEF Init, ReliableInv
  <2>7. QED
    BY <2>4, <2>5, <2>6 DEF RegistryInv
<1>2. RegistryInv /\ [Next]_vars => RegistryInv'
  BY NextRegistryTypeOK, NextCalls, NextReliable DEF RegistryInv, CallInv
<1>3. QED
  BY <1>1, <1>2, PTL DEF Spec

\* What a call hands on comes from one provider.
THEOREM NoSplicingHolds == Spec => []NoSplicing
<1>1. RegistryInv => NoSplicing
  BY DEF RegistryInv, SpliceInv, NoSplicing
<1>2. QED
  BY <1>1, RegistryInvariance, PTL

\* A call that found nobody gave up every candidate, and one that never fails
\* only because of an abort.
THEOREM UnavailableIsJustifiedHolds == Spec => []UnavailableIsJustified
<1>1. RegistryInv => UnavailableIsJustified
  BY DEF RegistryInv, PlannedInv, ReliableInv, UnavailableIsJustified
<1>2. QED
  BY <1>1, RegistryInvariance, PTL

\* A call that uses a provider gave up those of a lower priority number.
THEOREM BetterProvidersFirstHolds == Spec => []BetterProvidersFirst
<1>1. ASSUME RegistryInv, NEW c \in Calls, pc[c] \in {"use", "committed"},
             current[c] # pin[c], NEW p \in planned[c],
             Priority[p] < Priority[current[c]]
      PROVE  p \in failed[c]
  <2>1. current[c] \in Providers /\ p \in Providers
    BY <1>1 DEF RegistryInv, PlannedInv, RegistryTypeOK, lookingAt
  <2>2. Priority[p] \in Nat /\ Priority[current[c]] \in Nat
    BY <2>1, RegistryAssumption
  <2>3. p \notin ToSet(chain[c])
    BY <1>1, <2>2 DEF RegistryInv, ChainInv, lookingAt, ToSet
  <2>4. QED
    BY <1>1, <2>2, <2>3 DEF RegistryInv, PlannedInv, lookingAt
<1>2. RegistryInv => BetterProvidersFirst
  BY <1>1 DEF BetterProvidersFirst
<1>3. QED
  BY <1>2, RegistryInvariance, PTL

-----------------------------------------------------------------------------
(* Configuration.                                                          *)

\* What a document says, once it is parsed, in known blocks and keys.
Spelled(d) ==
    \A b \in DOMAIN d : \A k \in DOMAIN d[b].members :
        /\ ~isMapping(d[b].members[k])
        /\ \A p \in Paths : k = lowerCase(p[2]) => k = p[2]

BlocksAreMappings(data) == \A b \in Blocks \cap DOMAIN data : isMapping(data[b])

\* No key stands beside the one that a variable for it would find.
KeysAreSpelled(data) ==
    \A b \in Blocks \cap DOMAIN data : \A p \in Paths :
        lowerCase(p[2]) \in DOMAIN data[b].members => lowerCase(p[2]) = p[2]

hasKey(data, p) == p[1] \in DOMAIN data /\ p[2] \in DOMAIN data[p[1]].members

\* A variable finds a block by the name it has.
LEMMA ResolveBlock ==
    ASSUME NEW data, NEW segment, NEW b \in Blocks
    PROVE  resolveKey(data, segment) = b <=> segment = b
<1> DEFINE meant == {k \in DOMAIN data : lowerCase(k) = segment}
           key == CHOOSE k \in DOMAIN data : lowerCase(k) = segment
<1>1. \A k : lowerCase(k) = b <=> k = b
  BY DEF lowerCase, Blocks
<1>2. CASE \E k \in DOMAIN data : lowerCase(k) = segment
  <2>1. key \in DOMAIN data /\ lowerCase(key) = segment
    BY <1>2
  <2>2. resolveKey(data, segment) = key
    BY <1>2 DEF resolveKey
  <2> HIDE DEF key
  <2>3. QED
    BY <1>1, <2>1, <2>2
<1>3. CASE ~\E k \in DOMAIN data : lowerCase(k) = segment
  BY <1>3 DEF resolveKey
<1>4. QED
  BY <1>2, <1>3

\* It finds the setting it means, unless the key has capitals and is not there.
LEMMA ResolveSetting ==
    ASSUME NEW m, NEW segment, segment = lowerCase(segment), NEW p \in Paths,
           lowerCase(p[2]) \in DOMAIN m => lowerCase(p[2]) = p[2]
    PROVE  resolveKey(m, segment) = p[2]
               <=> segment = lowerCase(p[2]) /\ (lowerCase(p[2]) = p[2] \/ p[2] \in DOMAIN m)
<1> DEFINE key == CHOOSE k \in DOMAIN m : lowerCase(k) = segment
<1>1. p[2] \in {"quality", "maxDurationSeconds", "enabled", "imagePath"}
  BY DEF Paths
<1>2. \A k : lowerCase(k) = lowerCase(p[2]) => k = p[2] \/ k = lowerCase(p[2])
  BY <1>1 DEF lowerCase
<1>3. CASE \E k \in DOMAIN m : lowerCase(k) = segment
  <2>1. key \in DOMAIN m /\ lowerCase(key) = segment
    BY <1>3
  <2>2. resolveKey(m, segment) = key
    BY <1>3 DEF resolveKey
  <2> HIDE DEF key
  <2>3. QED
    BY <1>2, <2>1, <2>2
<1>4. CASE ~\E k \in DOMAIN m : lowerCase(k) = segment
  BY <1>4 DEF resolveKey
<1>5. QED
  BY <1>3, <1>4

\* What deepMerge makes of the defaults and a document.
LEMMA Merged ==
    ASSUME NEW d, Spelled(d), BlocksAreMappings(d), NEW data,
           data = deepMerge(DEFAULT_VIDEO_CONFIG, d)
    PROVE  /\ DOMAIN data = DOMAIN DEFAULT_VIDEO_CONFIG \cup DOMAIN d
           /\ BlocksAreMappings(data) /\ KeysAreSpelled(data)
           /\ \A p \in Paths :
                  /\ valueAt(data, p) = IF valueAt(d, p) # Absent THEN valueAt(d, p)
                                        ELSE valueAt(DEFAULT_VIDEO_CONFIG, p)
                  /\ hasKey(data, p) <=>
                         valueAt(d, p) # Absent \/ valueAt(DEFAULT_VIDEO_CONFIG, p) # Absent
<1> DEFINE D == DEFAULT_VIDEO_CONFIG
<1>1. /\ DOMAIN D = {"defaults", "limits"}
      /\ isMapping(D["defaults"]) /\ isMapping(D["limits"])
      /\ DOMAIN D["defaults"].members = {"quality"}
      /\ D["defaults"].members["quality"].value = "23"
      /\ DOMAIN D["limits"].members = {"maxDurationSeconds"}
      /\ D["limits"].members["maxDurationSeconds"].value = "1800"
  BY DEF DEFAULT_VIDEO_CONFIG, isMapping, Mapping, Value
<1> HIDE DEF D
<1>2. DOMAIN data = DOMAIN D \cup DOMAIN d
  BY DEF deepMerge, D
<1>3. ASSUME NEW b \in Blocks, b \in DOMAIN data
      PROVE  /\ isMapping(data[b])
             /\ \A k : k \in DOMAIN data[b].members <=>
                    \/ b \in DOMAIN d /\ k \in DOMAIN d[b].members
                    \/ b \in DOMAIN D /\ k \in DOMAIN D[b].members
             /\ \A k \in DOMAIN data[b].members :
                    data[b].members[k] =
                        IF b \in DOMAIN d /\ k \in DOMAIN d[b].members
                        THEN d[b].members[k] ELSE D[b].members[k]
  <2>1. CASE b \notin DOMAIN d
    <3>1. data[b] = D[b] /\ b \in DOMAIN D
      BY <1>2, <1>3, <2>1 DEF deepMerge, D
    <3>2. isMapping(D[b])
      BY <1>1, <3>1
    <3>3. QED
      BY <2>1, <3>1, <3>2
  <2>2. CASE b \in DOMAIN d /\ b \notin DOMAIN D
    <3>1. data[b] = d[b]
      BY <1>2, <1>3, <2>2 DEF deepMerge, D
    <3>2. isMapping(d[b])
      BY <1>3, <2>2 DEF BlocksAreMappings
    <3>3. QED
      BY <2>2, <3>1, <3>2
  <2>3. CASE b \in DOMAIN d /\ b \in DOMAIN D
    <3>1. isMapping(d[b]) /\ isMapping(D[b])
      BY <1>1, <1>3, <2>3 DEF BlocksAreMappings
    <3>2. data[b] = Mapping(mergeMembers(D[b].members, d[b].members))
      BY <1>2, <1>3, <2>3, <3>1 DEF deepMerge, D
    <3>3. data[b].members = mergeMembers(D[b].members, d[b].members) /\ isMapping(data[b])
      BY <3>2 DEF Mapping, isMapping
    <3>4. QED
      BY <2>3, <3>3 DEF mergeMembers
  <2>4. QED
    BY <2>1, <2>2, <2>3
<1>4. \A p \in Paths : /\ p[1] \in Blocks
                       /\ lowerCase(p[2]) # p[2] => lowerCase(p[2]) # "quality"
                                                    /\ lowerCase(p[2]) # "maxDurationSeconds"
  BY DEF Paths, Blocks, lowerCase
<1>5. BlocksAreMappings(data)
  BY <1>3 DEF BlocksAreMappings
<1>6. KeysAreSpelled(data)
  <2> SUFFICES ASSUME NEW b \in Blocks \cap DOMAIN data, NEW p \in Paths,
                      lowerCase(p[2]) \in DOMAIN data[b].members
               PROVE  lowerCase(p[2]) = p[2]
    BY DEF KeysAreSpelled
  <2>1. CASE b \in DOMAIN d /\ lowerCase(p[2]) \in DOMAIN d[b].members
    BY <2>1 DEF Spelled
  <2>2. CASE b \in DOMAIN D /\ lowerCase(p[2]) \in DOMAIN D[b].members
    BY <1>1, <1>4, <2>2
  <2>3. QED
    BY <1>3, <2>1, <2>2
<1>7. ASSUME NEW p \in Paths
      PROVE  /\ valueAt(data, p) = IF valueAt(d, p) # Absent THEN valueAt(d, p)
                                   ELSE valueAt(D, p)
             /\ hasKey(data, p) <=> valueAt(d, p) # Absent \/ valueAt(D, p) # Absent
  <2>1. valueAt(d, p) # Absent <=> hasKey(d, p)
    BY DEF valueAt, hasKey, Spelled, isMapping
  <2>2. valueAt(D, p) # Absent <=> hasKey(D, p)
    BY <1>1 DEF valueAt, hasKey, Absent
  <2>3. hasKey(data, p) <=> hasKey(d, p) \/ hasKey(D, p)
    BY <1>2, <1>3, <1>4 DEF hasKey
  <2>4. CASE hasKey(d, p)
    BY <1>2, <1>3, <1>4, <2>1, <2>3, <2>4 DEF valueAt, hasKey
  <2>5. CASE ~hasKey(d, p) /\ hasKey(D, p)
    <3>1. p[1] \in Blocks /\ hasKey(data, p)
      BY <1>4, <2>3, <2>5
    <3>2. data[p[1]].members[p[2]] = D[p[1]].members[p[2]]
      BY <1>3, <2>5, <3>1 DEF hasKey
    <3>3. valueAt(data, p) = valueAt(D, p)
      BY <2>5, <3>1, <3>2 DEF valueAt, hasKey
    <3>4. QED
      BY <2>1, <2>2, <2>3, <2>5, <3>3
  <2>6. CASE ~hasKey(d, p) /\ ~hasKey(D, p)
    BY <2>1, <2>2, <2>3, <2>6 DEF valueAt, hasKey
  <2>7. QED
    BY <2>1, <2>2, <2>3, <2>4, <2>5, <2>6
<1>8. QED
  BY <1>2, <1>5, <1>6, <1>7 DEF D

\* What applyEnvOverrides makes of it.
LEMMA Applied ==
    ASSUME NEW data, BlocksAreMappings(data), KeysAreSpelled(data), NEW env,
           \A q \in DOMAIN env : q = <<lowerCase(q[1]), lowerCase(q[2])>>,
           NEW result, result = applyEnvOverrides(data, env)
    PROVE  /\ BlocksAreMappings(result)
           /\ \A b \in Blocks :
                  b \in DOMAIN result <=>
                      b \in DOMAIN data \/ \E q \in DOMAIN env : q[1] = b
           /\ \A p \in Paths :
                  valueAt(result, p) =
                      IF /\ variableOf(p) \in DOMAIN env
                         /\ lowerCase(p[2]) = p[2] \/ hasKey(data, p)
                      THEN env[variableOf(p)] ELSE valueAt(data, p)
<1> DEFINE found(k) == {q \in DOMAIN env : resolveKey(data, q[1]) = k}
<1>1. /\ \A k : k \in DOMAIN result <=>
                    k \in DOMAIN data \/ \E q \in DOMAIN env : resolveKey(data, q[1]) = k
      /\ \A k \in DOMAIN result :
             result[k] = IF found(k) = {} THEN data[k]
                         ELSE Mapping(setDeep(membersAt(data, k), found(k), env))
  BY Zenon DEF applyEnvOverrides
<1>2. \A b \in Blocks : found(b) = {q \in DOMAIN env : q[1] = b}
  BY ResolveBlock
<1> HIDE DEF found
<1>3. ASSUME NEW b \in Blocks
      PROVE  /\ b \in DOMAIN result <=> b \in DOMAIN data \/ found(b) # {}
             /\ b \in DOMAIN result /\ found(b) = {} => result[b] = data[b]
             /\ b \in DOMAIN result /\ found(b) # {} =>
                    /\ isMapping(result[b])
                    /\ result[b].members = setDeep(membersAt(data, b), found(b), env)
  <2>1. b \in DOMAIN result <=> b \in DOMAIN data \/ found(b) # {}
    BY <1>1, <1>2, ResolveBlock
  <2>2. CASE b \in DOMAIN result /\ found(b) # {}
    <3>1. result[b] = Mapping(setDeep(membersAt(data, b), found(b), env))
      BY <1>1, <2>2
    <3>2. QED
      BY <2>1, <2>2, <3>1 DEF Mapping, isMapping
  <2>3. CASE b \in DOMAIN result /\ found(b) = {}
    BY <1>1, <2>1, <2>3
  <2>4. QED
    BY <2>1, <2>2, <2>3
<1>4. BlocksAreMappings(result)
  BY <1>3 DEF BlocksAreMappings
<1>5. \A p \in Paths : p[1] \in Blocks /\ variableOf(p) = <<p[1], lowerCase(p[2])>>
  BY DEF Paths, Blocks, lowerCase, variableOf
<1>6. ASSUME NEW p \in Paths
      PROVE  valueAt(result, p) =
                 IF /\ variableOf(p) \in DOMAIN env
                    /\ lowerCase(p[2]) = p[2] \/ hasKey(data, p)
                 THEN env[variableOf(p)] ELSE valueAt(data, p)
  <2> DEFINE b == p[1]
             m == membersAt(data, b)
  <2>1. b \in Blocks
    BY <1>5
  <2>2. variableOf(p) \in DOMAIN env <=> variableOf(p) \in found(b)
    BY <1>2, <1>5
  <2>3. CASE found(b) = {}
    <3>1. b \in DOMAIN result <=> b \in DOMAIN data
      BY <1>3, <2>1, <2>3
    <3>2. b \in DOMAIN result => result[b] = data[b]
      BY <1>3, <2>1, <2>3
    <3>3. valueAt(result, p) = valueAt(data, p)
      BY <3>1, <3>2 DEF valueAt
    <3>4. QED
      BY <2>2, <2>3, <3>3
  <2>4. CASE found(b) # {}
    <3>1. b \in DOMAIN result /\ result[b].members = setDeep(m, found(b), env)
      BY <1>3, <2>1, <2>4
    <3>2. p[2] \in DOMAIN m <=> hasKey(data, p)
      BY <2>1 DEF membersAt, hasKey, BlocksAreMappings
    <3>3. lowerCase(p[2]) \in DOMAIN m => lowerCase(p[2]) = p[2]
      BY <2>1 DEF membersAt, KeysAreSpelled
    <3>4. ASSUME NEW q \in found(b)
          PROVE  resolveKey(m, q[2]) = p[2]
                     <=> q = variableOf(p) /\ (lowerCase(p[2]) = p[2] \/ p[2] \in DOMAIN m)
      <4>1. q \in DOMAIN env /\ q[1] = b
        BY <1>2, <2>1
      <4>2. q = <<b, q[2]>> /\ q[2] = lowerCase(q[2])
        BY <4>1
      <4>3. q = variableOf(p) <=> q[2] = lowerCase(p[2])
        BY <1>5, <4>2
      <4>4. resolveKey(m, q[2]) = p[2]
                <=> q[2] = lowerCase(p[2]) /\ (lowerCase(p[2]) = p[2] \/ p[2] \in DOMAIN m)
        BY <3>3, <4>2, ResolveSetting
      <4>5. QED
        BY <4>3, <4>4
    <3> HIDE DEF m
    <3>5. CASE /\ variableOf(p) \in found(b)
               /\ lowerCase(p[2]) = p[2] \/ p[2] \in DOMAIN m
      <4>1. \A q \in found(b) : resolveKey(m, q[2]) = p[2] <=> q = variableOf(p)
        BY <3>4, <3>5
      <4>2. (CHOOSE q \in found(b) : resolveKey(m, q[2]) = p[2]) = variableOf(p)
        BY <3>5, <4>1
      <4>3. /\ p[2] \in DOMAIN setDeep(m, found(b), env)
            /\ setDeep(m, found(b), env)[p[2]] = Value(env[variableOf(p)])
        BY <3>5, <4>1, <4>2 DEF setDeep
      <4>4. valueAt(result, p) = env[variableOf(p)]
        BY <3>1, <4>3 DEF valueAt, Value
      <4>5. QED
        BY <2>2, <3>2, <3>5, <4>4
    <3>6. CASE ~(/\ variableOf(p) \in found(b)
                 /\ lowerCase(p[2]) = p[2] \/ p[2] \in DOMAIN m)
      <4>1. \A q \in found(b) : resolveKey(m, q[2]) # p[2]
        BY <3>4, <3>6
      <4>2. /\ p[2] \in DOMAIN setDeep(m, found(b), env) <=> p[2] \in DOMAIN m
            /\ p[2] \in DOMAIN m => setDeep(m, found(b), env)[p[2]] = m[p[2]]
        BY <4>1 DEF setDeep
      <4>3. hasKey(data, p) => m[p[2]] = data[b].members[p[2]]
        BY <2>1 DEF m, membersAt, hasKey, BlocksAreMappings
      <4>4. valueAt(result, p) = valueAt(data, p)
        BY <3>1, <3>2, <4>2, <4>3 DEF valueAt, hasKey
      <4>5. QED
        BY <2>2, <3>2, <3>6, <4>4
    <3>7. QED
      BY <3>5, <3>6
  <2>5. QED
    BY <2>3, <2>4
<1>7. \A b \in Blocks :
          b \in DOMAIN result <=> b \in DOMAIN data \/ \E q \in DOMAIN env : q[1] = b
  BY <1>2, <1>3
<1>8. QED
  BY <1>4, <1>6, <1>7

\* The variables of a process have the form ConfigurationAssumption supposes.
VariablesAreSpelled == \A q \in DOMAIN environment : q = <<lowerCase(q[1]), lowerCase(q[2])>>

\* Where the layers agree, the file loads, and gives each setting from its layer.
LEMMA Layers ==
    ASSUME configFile \in ConfigFiles, VariablesAreSpelled, layersAgree
    PROVE  /\ loads(configFile, environment)
           /\ loadConfigFile(configFile, environment) = [p \in Paths |-> layered(p)]
<1> DEFINE d == configFile.data
           data == deepMerge(DEFAULT_VIDEO_CONFIG, d)
           result == applyEnvOverrides(data, environment)
<1>1. Spelled(d)
  <2>1. CASE configFile \in {MissingFile, TornFile}
    BY <2>1 DEF MissingFile, TornFile, Spelled
  <2>2. CASE \E doc \in Documents : configFile = fileWith(doc)
    <3>1. d \in Documents
      BY <2>2 DEF fileWith
    <3>2. QED
      BY <3>1, ConfigurationAssumption DEF Spelled
  <2>3. QED
    BY <2>1, <2>2 DEF ConfigFiles
<1>2. BlocksAreMappings(d)
  BY DEF layersAgree, BlocksAreMappings
<1>3. configFile.is # "malformed" /\ withEnv(configFile, environment) = result
  BY DEF layersAgree, withEnv
<1> HIDE DEF d
<1>4. /\ DOMAIN data = DOMAIN DEFAULT_VIDEO_CONFIG \cup DOMAIN d
      /\ BlocksAreMappings(data) /\ KeysAreSpelled(data)
      /\ \A p \in Paths :
             /\ valueAt(data, p) = IF valueAt(d, p) # Absent THEN valueAt(d, p)
                                   ELSE valueAt(DEFAULT_VIDEO_CONFIG, p)
             /\ hasKey(data, p) <=>
                    valueAt(d, p) # Absent \/ valueAt(DEFAULT_VIDEO_CONFIG, p) # Absent
  BY <1>1, <1>2, Merged
<1> HIDE DEF data
<1>5. /\ BlocksAreMappings(result)
      /\ \A b \in Blocks :
             b \in DOMAIN result <=>
                 b \in DOMAIN data \/ \E q \in DOMAIN environment : q[1] = b
      /\ \A p \in Paths :
             valueAt(result, p) =
                 IF /\ variableOf(p) \in DOMAIN environment
                    /\ lowerCase(p[2]) = p[2] \/ hasKey(data, p)
                 THEN environment[variableOf(p)] ELSE valueAt(data, p)
  BY <1>4, Applied DEF VariablesAreSpelled
<1> HIDE DEF result
<1>6. ASSUME NEW p \in Paths
      PROVE  valueAt(result, p) = layered(p)
  BY <1>4, <1>5, Zenon DEF layered, overridden, inFile, inDefaults, d
<1>7. \A b \in Blocks : lowerCase(b) = b
  BY DEF Blocks, lowerCase
<1>8. \A b \in Blocks : b \in DOMAIN result <=> hasBlock(b)
  BY <1>4, <1>5, <1>7 DEF hasBlock, d
<1>9. \A p \in Paths : p[1] \in Blocks /\ (p[1] = "watermark" \/ hasBlock(p[1]))
  BY DEF Paths, Blocks, hasBlock, DEFAULT_VIDEO_CONFIG
<1>10. \A b \in Blocks \cap DOMAIN result : isMapping(result[b])
  BY <1>5 DEF BlocksAreMappings
<1>11. \A p \in Paths : \/ allows(p, valueAt(result, p))
                        \/ p[1] = "watermark" /\ "watermark" \notin DOMAIN result
  <2> SUFFICES ASSUME NEW p \in Paths
               PROVE  \/ allows(p, valueAt(result, p))
                      \/ p[1] = "watermark" /\ "watermark" \notin DOMAIN result
    OBVIOUS
  <2>1. CASE hasBlock(p[1])
    <3>1. allows(p, layered(p))
      BY <2>1 DEF layersAgree
    <3>2. QED
      BY <1>6, <3>1
  <2>2. CASE ~hasBlock(p[1])
    BY <1>8, <1>9, <2>2
  <2>3. QED
    BY <2>1, <2>2
<1>12. loads(configFile, environment)
  BY <1>3, <1>10, <1>11 DEF loads, VideoConfigSchema
<1>13. loadConfigFile(configFile, environment) = [p \in Paths |-> layered(p)]
  BY <1>3, <1>6 DEF loadConfigFile, parsedConfig
<1>14. QED
  BY <1>12, <1>13

running == loading \in {"loaded", "starting", "watching"}

\* The configuration a program runs on is one that was loaded; unless an event
\* is under way or was missed, it is the one the file gives now.
ConfigInv ==
    /\ configFile \in ConfigFiles
    /\ VariablesAreSpelled
    /\ running => \A p \in Paths : p[1] # "watermark" => allows(p, settings[p])
    /\ (running /\ ~notified /\ ~unheard /\ loads(configFile, environment))
           => settings = loadConfigFile(configFile, environment)

\* What is loaded is what the schema allows.
LEMMA LoadedIsAllowed ==
    ASSUME NEW file, NEW env, loads(file, env), NEW p \in Paths, p[1] # "watermark"
    PROVE  allows(p, loadConfigFile(file, env)[p])
<1> DEFINE result == withEnv(file, env)
<1>1. VideoConfigSchema(result)
  BY DEF loads
<1>2. loadConfigFile(file, env)[p] = valueAt(result, p)
  BY DEF loadConfigFile, parsedConfig
<1> HIDE DEF result
<1>3. allows(p, valueAt(result, p))
  BY <1>1 DEF VideoConfigSchema
<1>4. QED
  BY <1>2, <1>3

LEMMA ConfigInvInit == ConfigurationInit => ConfigInv
<1> SUFFICES ASSUME ConfigurationInit PROVE ConfigInv
  OBVIOUS
<1>1. configFile \in ConfigFiles /\ ~running
  BY DEF ConfigurationInit, ConfigFiles, running
<1>2. VariablesAreSpelled
  BY DEF ConfigurationInit, VariablesAreSpelled
<1>3. QED
  BY <1>1, <1>2 DEF ConfigInv

LEMMA ConfigInvNext == ConfigInv /\ [ConfigurationNext]_configVars => ConfigInv'
<1> SUFFICES ASSUME ConfigInv, [ConfigurationNext]_configVars PROVE ConfigInv'
  OBVIOUS
<1> USE DEF ConfigInv
<1>1. ASSUME NEW env \in Environments, loadAll(env) PROVE ConfigInv'
  <2>1. configFile' = configFile /\ environment' = env
    BY <1>1 DEF loadAll
  <2>2. VariablesAreSpelled'
    BY <2>1, ConfigurationAssumption DEF VariablesAreSpelled
  <2>3. CASE loads(configFile, env)
    <3>1. settings' = loadConfigFile(configFile, env)
      BY <1>1, <2>3 DEF loadAll
    <3>2. \A p \in Paths : p[1] # "watermark" => allows(p, settings'[p])
      BY <2>3, <3>1, LoadedIsAllowed
    <3>3. QED
      BY <2>1, <2>2, <3>1, <3>2
  <2>4. CASE ~loads(configFile, env)
    <3>1. ~running'
      BY <1>1, <2>4 DEF loadAll, running
    <3>2. QED
      BY <2>1, <2>2, <3>1
  <2>5. QED
    BY <2>3, <2>4
<1>2. CASE watchConfigFile \/ WatcherReady
  BY <1>2 DEF watchConfigFile, WatcherReady, running, VariablesAreSpelled
<1>3. CASE reload
  <2>1. /\ UNCHANGED <<configFile, environment, loading>>
        /\ running
        /\ settings' = IF loads(configFile, environment)
                       THEN loadConfigFile(configFile, environment) ELSE settings
    BY <1>3 DEF reload, running
  <2>2. VariablesAreSpelled'
    BY <2>1 DEF VariablesAreSpelled
  <2>3. CASE loads(configFile, environment)
    <3>1. \A p \in Paths : p[1] # "watermark" => allows(p, settings'[p])
      BY <2>1, <2>3, LoadedIsAllowed
    <3>2. QED
      BY <2>1, <2>2, <2>3, <3>1
  <2>4. CASE ~loads(configFile, environment)
    BY <2>1, <2>2, <2>4
  <2>5. QED
    BY <2>3, <2>4
<1>4. CASE CloseWatcher
  BY <1>4 DEF CloseWatcher, running, VariablesAreSpelled
<1>5. ASSUME NEW file \in ConfigFiles, EditConfig(file) PROVE ConfigInv'
  <2>1. /\ UNCHANGED <<environment, loading, settings>>
        /\ configFile' \in ConfigFiles
        /\ notified' \/ unheard'
    BY <1>5 DEF EditConfig
  <2>2. QED
    BY <2>1 DEF running, VariablesAreSpelled
<1>6. CASE UNCHANGED configVars
  BY <1>6 DEF configVars, running, VariablesAreSpelled
<1>7. QED
  BY <1>1, <1>2, <1>3, <1>4, <1>5, <1>6 DEF ConfigurationNext

\* ConfigInv is an invariant of the watcher and of those who edit the file.
THEOREM ConfigurationInvariance == ConfigurationSpec => []ConfigInv
<1>1. ConfigurationInit => ConfigInv
  BY ConfigInvInit
<1>2. ConfigInv /\ [ConfigurationNext]_configVars => ConfigInv'
  BY ConfigInvNext
<1>3. QED
  BY <1>1, <1>2, PTL DEF ConfigurationSpec

\* Whatever is written to the file and whatever the variables say, a running
\* program has a valid configuration, and, once every change was heard of, the
\* one that takes each setting from the first layer that gives it
\* (loadConfigFile, deepMerge, applyEnvOverrides, watchConfigFile).
THEOREM ShownConfigIsLayeredHolds == ConfigurationSpec => []ShownConfigIsLayered
<1>1. ConfigInv => ShownConfigIsLayered
  <2> SUFFICES ASSUME ConfigInv, running
               PROVE  /\ \A p \in Paths : p[1] # "watermark" => allows(p, settings[p])
                      /\ (~notified /\ ~unheard /\ layersAgree)
                             => settings = [p \in Paths |-> layered(p)]
    BY DEF ShownConfigIsLayered, running
  <2>1. layersAgree => /\ loads(configFile, environment)
                       /\ loadConfigFile(configFile, environment) = [p \in Paths |-> layered(p)]
    BY Layers DEF ConfigInv
  <2>2. QED
    BY <2>1 DEF ConfigInv
<1>2. QED
  BY <1>1, ConfigurationInvariance, PTL
=============================================================================
