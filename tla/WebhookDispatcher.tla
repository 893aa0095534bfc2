------------------------- MODULE WebhookDispatcher --------------------------
(***************************************************************************)
(* Delivery of domain events to the webhooks of an organization            *)
(* (webhooks.ts): the durable queue `surfgen.webhooks`, the slots of its   *)
(* consumers on all worker replicas, the WebhookDelivery rows whose unique *)
(* key (webhookId, eventId) makes deliveries idempotent, and the API that  *)
(* creates and deletes hooks (developer.controller.ts) meanwhile.          *)
(***************************************************************************)
EXTENDS Naturals, FiniteSets

CONSTANTS
    Events,       \* org-scoped events of the queue, by id
    Hooks,        \* webhooks of the organization, by id
    Subscribes,   \* the events that match the patterns of each hook
    Slots,        \* message slots of all consumers (prefetch 5 each)
    NoMessage,    \* a value that is not an event
    MAX_ATTEMPTS, \* POSTs per delivery
    FaultKinds,   \* the kinds of fault that may strike, each once
    MaxFaults     \* how many strike in all: the model's bound

ASSUME DispatcherAssumption ==
    /\ NoMessage \notin Events
    /\ Subscribes \in [Hooks -> SUBSET Events]
    /\ MAX_ATTEMPTS \in Nat \ {0}
    /\ FaultKinds \subseteq {"crash", "connectionLost", "ioError"}
    /\ MaxFaults \in Nat

VARIABLES
    hooks,     \* whether each hook is still to be created, registered, deleted
    row,       \* WebhookDelivery.status of each hook and event
    attempts,  \* WebhookDelivery.attempts
    queue,     \* events in the durable queue, as a bag
    msg,       \* the event each slot handles
    unacked,   \* slots whose event the broker still holds for them
    spc,       \* where each slot stands in handleEvent
    task,      \* where each slot's deliverToHook stands, per hook
    tries,     \* POSTs that task has made
    posts,     \* history: POSTs made for each hook and event
    accepted,  \* history: whether the endpoint ever took the event
    struck     \* the kinds of fault that have struck

apiVars == <<hooks>>
rowVars == <<row, attempts>>
slotVars == <<queue, msg, unacked, spc>>
taskVars == <<task, tries>>
endpointVars == <<posts, accepted>>
vars == <<hooks, rowVars, slotVars, taskVars, endpointVars, struck>>

NoTask == [h \in Hooks |-> "none"]
perDelivery(v) == [h \in Hooks |-> [e \in Events |-> v]]

Init ==
    /\ hooks \in [Hooks -> {"new", "registered"}]
    /\ row = perDelivery("none")
    /\ attempts = perDelivery(0)
    /\ queue = [e \in Events |-> 1]
    /\ msg = [s \in Slots |-> NoMessage]
    /\ unacked = {}
    /\ spc = [s \in Slots |-> "idle"]
    /\ task = [s \in Slots |-> NoTask]
    /\ tries = [s \in Slots |-> [h \in Hooks |-> 0]]
    /\ posts = perDelivery(0)
    /\ accepted = perDelivery(FALSE)
    /\ struck = {}

Strike(kind) ==
    /\ kind \in FaultKinds \ struck
    /\ Cardinality(struck) < MaxFaults
    /\ struck' = struck \cup {kind}

-----------------------------------------------------------------------------
(* The API.                                                                *)

CreateWebhook(h) ==
    /\ hooks[h] = "new"
    /\ hooks' = [hooks EXCEPT ![h] = "registered"]
    /\ UNCHANGED <<rowVars, slotVars, taskVars, endpointVars, struck>>

\* The rows of the hook go with it (onDelete: Cascade).
DeleteWebhook(h) ==
    /\ hooks[h] = "registered"
    /\ hooks' = [hooks EXCEPT ![h] = "deleted"]
    /\ row' = [row EXCEPT ![h] = [e \in Events |-> "none"]]
    /\ UNCHANGED <<attempts, slotVars, taskVars, endpointVars, struck>>

-----------------------------------------------------------------------------
(* The consumer and handleEvent.                                           *)

FreeSlot(s) ==
    /\ msg' = [msg EXCEPT ![s] = NoMessage]
    /\ unacked' = unacked \ {s}
    /\ spc' = [spc EXCEPT ![s] = "idle"]

Deliver(s, e) ==
    /\ spc[s] = "idle"
    /\ queue[e] > 0
    /\ queue' = [queue EXCEPT ![e] = @ - 1]
    /\ msg' = [msg EXCEPT ![s] = e]
    /\ unacked' = unacked \cup {s}
    /\ spc' = [spc EXCEPT ![s] = "find"]
    /\ UNCHANGED <<apiVars, rowVars, taskVars, endpointVars, struck>>

\* The hooks that are enabled and match now; each gets a task of its own.
FindHooks(s) ==
    /\ spc[s] = "find"
    /\ LET matching == {h \in Hooks : hooks[h] = "registered"
                                          /\ msg[s] \in Subscribes[h]}
       IN  task' = [task EXCEPT ![s] =
                       [h \in Hooks |-> IF h \in matching THEN "create" ELSE "none"]]
    /\ tries' = [tries EXCEPT ![s] = [h \in Hooks |-> 0]]
    /\ spc' = [spc EXCEPT ![s] = "deliver"]
    /\ UNCHANGED <<apiVars, rowVars, queue, msg, unacked, endpointVars, struck>>

\* Promise.all has settled: a task's failure is logged and never nacks.
Ack(s) ==
    /\ spc[s] = "deliver"
    /\ task[s] = NoTask
    /\ FreeSlot(s)
    /\ UNCHANGED <<apiVars, rowVars, queue, taskVars, endpointVars, struck>>

-----------------------------------------------------------------------------
(* deliverToHook, one task per matching hook.                              *)

TaskGoto(s, h, label) == task' = [task EXCEPT ![s][h] = label]

\* Mutant: the row is found or made, as with upsert.
CreateDeliveryUpsert(s, h) ==
    /\ task[s][h] = "create"
    /\ IF hooks[h] # "registered"
       THEN TaskGoto(s, h, "none") /\ UNCHANGED row
       ELSE /\ row' = [row EXCEPT ![h][msg[s]] = "pending"]
            /\ \/ TaskGoto(s, h, "post")
               \/ TaskGoto(s, h, "noSecret")
    /\ UNCHANGED <<apiVars, attempts, slotVars, tries, endpointVars, struck>>

\* The unique key stops a second task for the delivery, the foreign key one
\* whose hook is gone.  The secret may turn out unresolvable.
CreateDelivery(s, h) ==
    /\ task[s][h] = "create"
    /\ IF hooks[h] # "registered" \/ row[h][msg[s]] # "none"
       THEN TaskGoto(s, h, "none") /\ UNCHANGED row
       ELSE /\ row' = [row EXCEPT ![h][msg[s]] = "pending"]
            /\ \/ TaskGoto(s, h, "post")
               \/ TaskGoto(s, h, "noSecret")
    /\ UNCHANGED <<apiVars, attempts, slotVars, tries, endpointVars, struck>>

\* prisma.webhookDelivery.update: the row may be gone with its hook.
rowExists(s, h) == row[h][msg[s]] # "none"
updateRow(s, h, status, n) ==
    IF rowExists(s, h)
    THEN /\ row' = [row EXCEPT ![h][msg[s]] = status]
         /\ attempts' = [attempts EXCEPT ![h][msg[s]] = n]
    ELSE UNCHANGED rowVars

RecordNoSecret(s, h) ==
    /\ task[s][h] = "noSecret"
    /\ updateRow(s, h, "failed", 0)
    /\ TaskGoto(s, h, "none")
    /\ UNCHANGED <<apiVars, slotVars, tries, endpointVars, struck>>

\* What follows the n-th attempt if it failed.
afterFailure(n) == IF n < MAX_ATTEMPTS THEN "post" ELSE "giveUp"

\* One POST.  An endpoint that took the event may still answer too late.
Post(s, h) ==
    /\ task[s][h] = "post"
    /\ tries' = [tries EXCEPT ![s][h] = @ + 1]
    /\ posts' = [posts EXCEPT ![h][msg[s]] = @ + 1]
    /\ \E took, ok \in BOOLEAN :
           /\ ok => took
           /\ accepted' = [accepted EXCEPT ![h][msg[s]] = @ \/ took]
           /\ TaskGoto(s, h, IF ok THEN "record" ELSE afterFailure(tries[s][h] + 1))
    /\ UNCHANGED <<apiVars, rowVars, slotVars, struck>>

\* Mutant: the row is settled without looking at the answer's attempt.
RecordDeliveredOnce(s, h) ==
    /\ task[s][h] = "record"
    /\ updateRow(s, h, "delivered", 1)
    /\ TaskGoto(s, h, "none")
    /\ UNCHANGED <<apiVars, slotVars, tries, endpointVars, struck>>

\* The update stands inside the try block: when the row is gone its error
\* counts as a failed attempt and the event is sent again.
RecordDelivered(s, h) ==
    /\ task[s][h] = "record"
    /\ updateRow(s, h, "delivered", tries[s][h])
    /\ TaskGoto(s, h, IF rowExists(s, h) THEN "none" ELSE afterFailure(tries[s][h]))
    /\ UNCHANGED <<apiVars, slotVars, tries, endpointVars, struck>>

\* Mutant: an exhausted delivery is left for a later try.
GiveUpLater(s, h) ==
    /\ task[s][h] = "giveUp"
    /\ updateRow(s, h, "pending", MAX_ATTEMPTS)
    /\ TaskGoto(s, h, "none")
    /\ UNCHANGED <<apiVars, slotVars, tries, endpointVars, struck>>

GiveUp(s, h) ==
    /\ task[s][h] = "giveUp"
    /\ updateRow(s, h, "failed", MAX_ATTEMPTS)
    /\ TaskGoto(s, h, "none")
    /\ UNCHANGED <<apiVars, slotVars, tries, endpointVars, struck>>

-----------------------------------------------------------------------------
(* Faults.                                                                 *)

Requeue(s) ==
    queue' = IF s \in unacked THEN [queue EXCEPT ![msg[s]] = @ + 1] ELSE queue

\* The worker dies: its event is delivered again, its tasks are gone.
Crash(s) ==
    /\ spc[s] # "idle"
    /\ Strike("crash")
    /\ Requeue(s)
    /\ FreeSlot(s)
    /\ task' = [task EXCEPT ![s] = NoTask]
    /\ UNCHANGED <<apiVars, rowVars, tries, endpointVars>>

\* The event is delivered again while its tasks go on.
ConnectionLost(s) ==
    /\ s \in unacked
    /\ Strike("connectionLost")
    /\ Requeue(s)
    /\ unacked' = unacked \ {s}
    /\ UNCHANGED <<apiVars, rowVars, msg, spc, taskVars, endpointVars>>

\* findMany rejects: the event is dead-lettered.
FindFails(s) ==
    /\ spc[s] = "find"
    /\ Strike("ioError")
    /\ FreeSlot(s)
    /\ UNCHANGED <<apiVars, rowVars, queue, taskVars, endpointVars>>

\* A query of the task rejects: after an accepted POST it counts as a failed
\* attempt, elsewhere it ends the task.
TaskIoError(s, h) ==
    /\ task[s][h] \in {"create", "noSecret", "record", "giveUp"}
    /\ Strike("ioError")
    /\ TaskGoto(s, h, IF task[s][h] = "record" THEN afterFailure(tries[s][h])
                                               ELSE "none")
    /\ UNCHANGED <<apiVars, rowVars, slotVars, tries, endpointVars>>

-----------------------------------------------------------------------------
Task(s, h) ==
    \/ CreateDelivery(s, h)
    \/ RecordNoSecret(s, h)
    \/ Post(s, h)
    \/ RecordDelivered(s, h)
    \/ GiveUp(s, h)

Slot(s) ==
    \/ \E e \in Events : Deliver(s, e)
    \/ FindHooks(s)
    \/ Ack(s)

Api(h) == CreateWebhook(h) \/ DeleteWebhook(h)

Fault ==
    \E s \in Slots :
        \/ Crash(s)
        \/ ConnectionLost(s)
        \/ FindFails(s)
        \/ \E h \in Hooks : TaskIoError(s, h)

Next ==
    \/ \E h \in Hooks : Api(h)
    \/ \E s \in Slots : Slot(s)
    \/ \E s \in Slots, h \in Hooks : Task(s, h)
    \/ Fault

(***************************************************************************)
(* The broker delivers to idle slots, and every task goes on by itself:    *)
(* Promise.all starts them together, and the 10 s timeout of safeFetch     *)
(* ends each POST whatever the endpoint does.                              *)
(***************************************************************************)
Fairness ==
    /\ \A s \in Slots : WF_vars(Slot(s))
    /\ \A s \in Slots, h \in Hooks : WF_vars(Task(s, h))

Spec == Init /\ [][Next]_vars
FairSpec == Spec /\ Fairness

-----------------------------------------------------------------------------
(* Properties.                                                             *)

RowStatus == {"none", "pending", "delivered", "failed"}
TaskLabel == {"none", "create", "noSecret", "post", "record", "giveUp"}

\* Every variable holds a value of its type.
TypeOK ==
    /\ hooks \in [Hooks -> {"new", "registered", "deleted"}]
    /\ row \in [Hooks -> [Events -> RowStatus]]
    /\ attempts \in [Hooks -> [Events -> Nat]]
    /\ queue \in [Events -> Nat]
    /\ msg \in [Slots -> Events \cup {NoMessage}]
    /\ unacked \in SUBSET Slots
    /\ spc \in [Slots -> {"idle", "find", "deliver"}]
    /\ task \in [Slots -> [Hooks -> TaskLabel]]
    /\ tries \in [Slots -> [Hooks -> Nat]]
    /\ posts \in [Hooks -> [Events -> Nat]]
    /\ accepted \in [Hooks -> [Events -> BOOLEAN]]
    /\ struck \in SUBSET FaultKinds

\* A hook is sent an event at most MAX_ATTEMPTS times in all, however often the
\* bus redelivers it, to however many replicas, and whatever dies meanwhile.
PostsBounded ==
    \A h \in Hooks, e \in Events : posts[h][e] <= MAX_ATTEMPTS

\* A settled row tells the truth: its attempts are the POSTs made, an event
\* marked delivered was taken by the endpoint, and one marked failed was
\* tried to the end, unless its secret could not be resolved.
RowIsTruthful ==
    \A h \in Hooks, e \in Events :
        /\ row[h][e] = "delivered" =>
               accepted[h][e] /\ attempts[h][e] = posts[h][e]
        /\ row[h][e] = "failed" =>
               attempts[h][e] = posts[h][e] /\ posts[h][e] \in {0, MAX_ATTEMPTS}

\* A settled row is never reopened or settled otherwise: a redelivered event
\* leaves it alone, only the deletion of the hook takes it away.
SettledRowIsFinal ==
    [][\A h \in Hooks, e \in Events :
           row[h][e] \in {"delivered", "failed"}
               => row'[h][e] = row[h][e] \/ hooks'[h] = "deleted"]_vars

\* Every delivery that was begun is settled, whatever the endpoints answer,
\* unless the dispatcher or its database failed.
DeliverySettles ==
    \A h \in Hooks, e \in Events :
        row[h][e] = "pending" ~>
            row[h][e] # "pending" \/ struck \cap {"crash", "ioError"} # {}

\* Deliveries survive restarts of the dispatcher: each one begun is settled.
DeliverySurvivesRestart ==
    \A h \in Hooks, e \in Events : row[h][e] = "pending" ~> row[h][e] # "pending"

\* A task has created the row of its delivery and is still at it.
working(s, h) == task[s][h] \in {"noSecret", "post", "record", "giveUp"}
underWay == {d \in Hooks \X Events : \E s \in Slots : working(s, d[1]) /\ msg[s] = d[2]}

\* The deliveries as the abstract protocol sees them.
Protocol == INSTANCE DeliveryProtocol
    WITH MaxSends <- MAX_ATTEMPTS, hook <- hooks, status <- row, count <- attempts,
         open <- underWay, sent <- posts, taken <- accepted

\* Each delivery is opened, sent, settled and abandoned as the protocol says,
\* whatever the bus redelivers, to however many replicas, and whatever fails.
ImplementsDelivery == Protocol!DSpec
=============================================================================
