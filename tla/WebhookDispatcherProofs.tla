----------------------- MODULE WebhookDispatcherProofs ----------------------
(***************************************************************************)
(* Proofs about WebhookDispatcher: its safety properties hold for any      *)
(* hooks, events and slots, and however often anything fails.              *)
(***************************************************************************)
EXTENDS WebhookDispatcher, TLAPS

\* A slot that is not idle handles an event, an event the broker still holds
\* is handled, and tasks run only in slots that deliver.
SlotInv ==
    /\ \A s \in Slots : spc[s] # "idle" => msg[s] \in Events
    /\ \A s \in unacked : spc[s] # "idle"
    /\ \A s \in Slots, h \in Hooks : task[s][h] # "none" => spc[s] = "deliver"

\* The row of a deleted hook is gone; one that was never made, of a hook that
\* is not deleted, belongs to a delivery nobody has begun.
FreshInv ==
    \A h \in Hooks, e \in Events :
        /\ hooks[h] = "deleted" => row[h][e] = "none"
        /\ hooks[h] # "deleted" /\ row[h][e] = "none" => posts[h][e] = 0

\* At most one task works on a delivery.
UniqueInv ==
    \A s, t \in Slots, h \in Hooks :
        working(s, h) /\ working(t, h) /\ msg[s] = msg[t] => s = t

\* The row of a delivery a task works on is pending, unless its hook was
\* deleted, and the task made all POSTs there were.
OwnsDelivery(s, h) ==
    working(s, h) =>
        /\ row[h][msg[s]] = "pending" \/ hooks[h] = "deleted"
        /\ tries[s][h] = posts[h][msg[s]]

SenderInv ==
    /\ UniqueInv
    /\ \A s \in Slots, h \in Hooks : OwnsDelivery(s, h)

\* How many POSTs a task has made at each of its steps.
TriesAtStep(s, h) ==
    /\ task[s][h] \in {"create", "noSecret"} => tries[s][h] = 0
    /\ task[s][h] = "post" => tries[s][h] < MAX_ATTEMPTS
    /\ task[s][h] = "record" =>
           tries[s][h] <= MAX_ATTEMPTS /\ accepted[h][msg[s]]
    /\ task[s][h] = "giveUp" => tries[s][h] = MAX_ATTEMPTS

TriesInv == \A s \in Slots, h \in Hooks : TriesAtStep(s, h)

\* What a step of a task changes of its own entries.
TaskChange(s, h) ==
    LET e == msg[s]
        same(v) == v'[h][e] = v[h][e]
        settle(status, n) ==
            IF row[h][e] = "none" THEN same(row) /\ same(attempts)
            ELSE row'[h][e] = status /\ attempts'[h][e] = n
    IN  \/ /\ task[s][h] = "create" /\ task'[s][h] \in {"post", "noSecret"}
           /\ hooks[h] = "registered" /\ row[h][e] = "none"
           /\ row'[h][e] = "pending"
           /\ tries'[s][h] = tries[s][h]
           /\ same(attempts) /\ same(posts) /\ same(accepted)
        \/ /\ task[s][h] = "noSecret" /\ task'[s][h] = "none"
           /\ settle("failed", 0)
           /\ tries'[s][h] = tries[s][h]
           /\ same(posts) /\ same(accepted)
        \/ /\ task[s][h] = "post"
           /\ tries'[s][h] = tries[s][h] + 1 /\ posts'[h][e] = posts[h][e] + 1
           /\ same(row) /\ same(attempts)
           /\ accepted[h][e] => accepted'[h][e]
           /\ \/ task'[s][h] = "record" /\ accepted'[h][e]
              \/ task'[s][h] = afterFailure(tries[s][h] + 1)
        \/ /\ task[s][h] = "record"
           /\ settle("delivered", tries[s][h])
           /\ task'[s][h] = IF row[h][e] = "none" THEN afterFailure(tries[s][h])
                            ELSE "none"
           /\ tries'[s][h] = tries[s][h]
           /\ same(posts) /\ same(accepted)
        \/ /\ task[s][h] = "giveUp" /\ task'[s][h] = "none"
           /\ settle("failed", MAX_ATTEMPTS)
           /\ tries'[s][h] = tries[s][h]
           /\ same(posts) /\ same(accepted)
        \/ /\ \/ task[s][h] = "record" /\ task'[s][h] = afterFailure(tries[s][h])
              \/ task'[s][h] = "none"
           /\ tries'[s][h] = tries[s][h]
           /\ same(row) /\ same(attempts) /\ same(posts) /\ same(accepted)

\* Nothing else changes.
TaskFrame(s, h) ==
    /\ UNCHANGED <<hooks, queue, msg, unacked, spc>>
    /\ \A t \in Slots, g \in Hooks : t # s \/ g # h =>
           task'[t][g] = task[t][g] /\ tries'[t][g] = tries[t][g]
    /\ \A g \in Hooks, e \in Events : g # h \/ e # msg[s] =>
           /\ row'[g][e] = row[g][e] /\ attempts'[g][e] = attempts[g][e]
           /\ posts'[g][e] = posts[g][e] /\ accepted'[g][e] = accepted[g][e]

TaskStep(s, h) == Task(s, h) \/ TaskIoError(s, h)

\* Every step of a task keeps the types and is one of the changes above.
LEMMA TaskEffect ==
    ASSUME TypeOK, SlotInv, NEW s \in Slots, NEW h \in Hooks, TaskStep(s, h)
    PROVE  /\ TypeOK'
           /\ msg[s] \in Events /\ task[s][h] # "none"
           /\ TaskFrame(s, h)
           /\ TaskChange(s, h)
<1> USE DispatcherAssumption
<1> DEFINE e == msg[s]
           Goto(label) == [task EXCEPT ![s][h] = label]
           Settle(status) == [row EXCEPT ![h][e] = status]
           Attempts(n) == [attempts EXCEPT ![h][e] = n]
<1>1. task[s][h] # "none"
  BY DEF TaskStep, Task, CreateDelivery, RecordNoSecret, Post, RecordDelivered,
      GiveUp, TaskIoError
<1>2. e \in Events /\ tries[s][h] \in Nat
  BY <1>1 DEF TypeOK, SlotInv
<1>3. \A n \in Nat : afterFailure(n) \in {"post", "giveUp"}
  BY DEF afterFailure
<1>4. ASSUME NEW label \in TaskLabel
      PROVE  /\ Goto(label) \in [Slots -> [Hooks -> TaskLabel]]
             /\ \A t \in Slots, g \in Hooks :
                    Goto(label)[t][g] = IF t = s /\ g = h THEN label ELSE task[t][g]
  <2>1. task \in [Slots -> [Hooks -> TaskLabel]]
    BY DEF TypeOK
  <2>2. QED
    BY <2>1
<1>5. ASSUME NEW status \in RowStatus
      PROVE  /\ Settle(status) \in [Hooks -> [Events -> RowStatus]]
             /\ \A g \in Hooks, x \in Events :
                    Settle(status)[g][x] = IF g = h /\ x = e THEN status ELSE row[g][x]
  <2>1. row \in [Hooks -> [Events -> RowStatus]]
    BY DEF TypeOK
  <2>2. QED
    BY <1>2, <2>1
<1>6. ASSUME NEW n \in Nat
      PROVE  /\ Attempts(n) \in [Hooks -> [Events -> Nat]]
             /\ \A g \in Hooks, x \in Events :
                    Attempts(n)[g][x] = IF g = h /\ x = e THEN n ELSE attempts[g][x]
  <2>1. attempts \in [Hooks -> [Events -> Nat]]
    BY DEF TypeOK
  <2>2. QED
    BY <1>2, <2>1
<1> HIDE DEF e, Goto, Settle, Attempts
<1>7. CASE CreateDelivery(s, h)
  <2>1. PICK label \in {"none", "post", "noSecret"} :
            /\ task[s][h] = "create"
            /\ task' = Goto(label)
            /\ \/ label = "none" /\ row' = row
               \/ /\ label # "none" /\ hooks[h] = "registered"
                  /\ row[h][e] = "none" /\ row' = Settle("pending")
    BY <1>7 DEF CreateDelivery, TaskGoto, Goto, Settle, e
  <2>2. UNCHANGED <<hooks, attempts, queue, msg, unacked, spc, tries, posts, accepted, struck>>
    BY <1>7 DEF CreateDelivery, apiVars, slotVars, endpointVars
  <2>3. TypeOK'
    BY <2>1, <2>2, <1>4, <1>5 DEF TypeOK, RowStatus, TaskLabel
  <2>4. TaskFrame(s, h)
    BY <2>1, <2>2, <1>4, <1>5 DEF TaskFrame, RowStatus, TaskLabel, e
  <2>5. TaskChange(s, h)
    BY <2>1, <2>2, <1>2, <1>4, <1>5 DEF TaskChange, RowStatus, TaskLabel, e
  <2>6. QED
    BY <1>1, <1>2, <2>3, <2>4, <2>5 DEF e
<1>8. CASE RecordNoSecret(s, h)
  <2>1. /\ task[s][h] = "noSecret"
        /\ task' = Goto("none")
        /\ IF row[h][e] # "none"
           THEN row' = Settle("failed") /\ attempts' = Attempts(0)
           ELSE UNCHANGED <<row, attempts>>
    BY <1>8 DEF RecordNoSecret, updateRow, rowExists, rowVars, TaskGoto, Goto, Settle,
        Attempts, e
  <2>2. UNCHANGED <<hooks, queue, msg, unacked, spc, tries, posts, accepted, struck>>
    BY <1>8 DEF RecordNoSecret, apiVars, slotVars, endpointVars
  <2>3. "none" \in TaskLabel /\ 0 \in Nat /\ "failed" \in RowStatus
    BY <1>2, <1>3 DEF TaskLabel, RowStatus
  <2>4. TypeOK'
    <3>1. Settle("failed") \in [Hooks -> [Events -> RowStatus]]
      BY <2>3, <1>5
    <3>2. Attempts(0) \in [Hooks -> [Events -> Nat]]
      BY <2>3, <1>6
    <3>3. row \in [Hooks -> [Events -> RowStatus]]
          /\ attempts \in [Hooks -> [Events -> Nat]]
      BY DEF TypeOK
    <3>4. row' \in [Hooks -> [Events -> RowStatus]]
          /\ attempts' \in [Hooks -> [Events -> Nat]]
      BY <2>1, <3>1, <3>2, <3>3
    <3>5. task' \in [Slots -> [Hooks -> TaskLabel]]
      BY <2>1, <2>3, <1>4
    <3>6. QED
      BY <2>2, <3>4, <3>5 DEF TypeOK
  <2>5. TaskFrame(s, h)
    BY <2>1, <2>2, <2>3, <1>4, <1>5, <1>6 DEF TaskFrame, e
  <2>6. TaskChange(s, h)
    BY <2>1, <2>2, <2>3, <1>2, <1>4, <1>5, <1>6 DEF TaskChange, e
  <2>7. QED
    BY <1>1, <1>2, <2>4, <2>5, <2>6 DEF e
<1>9. CASE Post(s, h)
  <2> DEFINE label(ok) == IF ok THEN "record" ELSE afterFailure(tries[s][h] + 1)
  <2>1. PICK took \in BOOLEAN, ok \in BOOLEAN :
            /\ ok => took
            /\ accepted' = [accepted EXCEPT ![h][e] = @ \/ took]
            /\ task' = Goto(label(ok))
    BY <1>9 DEF Post, TaskGoto, Goto, e
  <2> DEFINE next == label(ok)
  <2>11. task[s][h] = "post"
    BY <1>9 DEF Post
  <2>2. /\ tries' = [tries EXCEPT ![s][h] = tries[s][h] + 1]
        /\ posts' = [posts EXCEPT ![h][e] = posts[h][e] + 1]
        /\ UNCHANGED <<hooks, row, attempts, queue, msg, unacked, spc, struck>>
    BY <1>9 DEF Post, apiVars, rowVars, slotVars, e
  <2>3. next \in TaskLabel
    BY <1>2, <1>3 DEF TaskLabel
  <2> HIDE DEF next
  <2>4. /\ tries' \in [Slots -> [Hooks -> Nat]]
        /\ \A t \in Slots, g \in Hooks :
               tries'[t][g] = IF t = s /\ g = h THEN tries[s][h] + 1 ELSE tries[t][g]
    <3>1. tries \in [Slots -> [Hooks -> Nat]]
      BY DEF TypeOK
    <3>2. QED
      BY <1>2, <2>2, <3>1
  <2>5. /\ posts' \in [Hooks -> [Events -> Nat]]
        /\ \A g \in Hooks, x \in Events :
               posts'[g][x] = IF g = h /\ x = e THEN posts[h][e] + 1 ELSE posts[g][x]
    <3>1. posts \in [Hooks -> [Events -> Nat]]
      BY DEF TypeOK
    <3>2. QED
      BY <1>2, <2>2, <3>1
  <2>6. /\ accepted' \in [Hooks -> [Events -> BOOLEAN]]
        /\ \A g \in Hooks, x \in Events :
               accepted'[g][x] = IF g = h /\ x = e THEN accepted[h][e] \/ took
                                 ELSE accepted[g][x]
    <3>1. accepted \in [Hooks -> [Events -> BOOLEAN]]
      BY DEF TypeOK
    <3>2. QED
      BY <1>2, <2>1, <3>1
  <2>7. TypeOK'
    <3>1. task' \in [Slots -> [Hooks -> TaskLabel]]
      BY <2>1, <2>3, <1>4 DEF next
    <3>2. QED
      BY <2>2, <2>4, <2>5, <2>6, <3>1 DEF TypeOK
  <2>8. TaskFrame(s, h)
    BY <2>1, <2>2, <2>3, <2>4, <2>5, <2>6, <1>4 DEF TaskFrame, e, next
  <2>9. TaskChange(s, h)
    <3>1. task'[s][h] = next /\ tries'[s][h] = tries[s][h] + 1
          /\ posts'[h][e] = posts[h][e] + 1
          /\ accepted'[h][e] = (accepted[h][e] \/ took)
      BY <2>1, <2>3, <2>4, <2>5, <2>6, <1>2, <1>4 DEF next
    <3>2. QED
      BY <2>1, <2>11, <2>2, <3>1 DEF TaskChange, e, next
  <2>10. QED
    BY <1>1, <1>2, <2>7, <2>8, <2>9 DEF e
<1>10. CASE RecordDelivered(s, h)
  <2> DEFINE label == IF row[h][e] = "none" THEN afterFailure(tries[s][h]) ELSE "none"
  <2>1. /\ task[s][h] = "record"
        /\ task' = Goto(label)
        /\ IF row[h][e] # "none"
           THEN row' = Settle("delivered") /\ attempts' = Attempts(tries[s][h])
           ELSE UNCHANGED <<row, attempts>>
    BY <1>10 DEF RecordDelivered, updateRow, rowExists, rowVars, TaskGoto, Goto,
        Settle, Attempts, e
  <2>2. UNCHANGED <<hooks, queue, msg, unacked, spc, tries, posts, accepted, struck>>
    BY <1>10 DEF RecordDelivered, apiVars, slotVars, endpointVars
  <2>3. label \in TaskLabel /\ tries[s][h] \in Nat /\ "delivered" \in RowStatus
    BY <1>2, <1>3 DEF TaskLabel, RowStatus
  <2> HIDE DEF label
  <2>4. TypeOK'
    <3>1. Settle("delivered") \in [Hooks -> [Events -> RowStatus]]
      BY <2>3, <1>5
    <3>2. Attempts(tries[s][h]) \in [Hooks -> [Events -> Nat]]
      BY <2>3, <1>6
    <3>3. row \in [Hooks -> [Events -> RowStatus]]
          /\ attempts \in [Hooks -> [Events -> Nat]]
      BY DEF TypeOK
    <3>4. row' \in [Hooks -> [Events -> RowStatus]]
          /\ attempts' \in [Hooks -> [Events -> Nat]]
      BY <2>1, <3>1, <3>2, <3>3
    <3>5. task' \in [Slots -> [Hooks -> TaskLabel]]
      BY <2>1, <2>3, <1>4
    <3>6. QED
      BY <2>2, <3>4, <3>5 DEF TypeOK
  <2>5. TaskFrame(s, h)
    BY <2>1, <2>2, <2>3, <1>4, <1>5, <1>6 DEF TaskFrame, e
  <2>6. TaskChange(s, h)
    BY <2>1, <2>2, <2>3, <1>2, <1>4, <1>5, <1>6 DEF TaskChange, e, label
  <2>7. QED
    BY <1>1, <1>2, <2>4, <2>5, <2>6 DEF e
<1>11. CASE GiveUp(s, h)
  <2>1. /\ task[s][h] = "giveUp"
        /\ task' = Goto("none")
        /\ IF row[h][e] # "none"
           THEN row' = Settle("failed") /\ attempts' = Attempts(MAX_ATTEMPTS)
           ELSE UNCHANGED <<row, attempts>>
    BY <1>11 DEF GiveUp, updateRow, rowExists, rowVars, TaskGoto, Goto, Settle,
        Attempts, e
  <2>2. UNCHANGED <<hooks, queue, msg, unacked, spc, tries, posts, accepted, struck>>
    BY <1>11 DEF GiveUp, apiVars, slotVars, endpointVars
  <2>3. "none" \in TaskLabel /\ MAX_ATTEMPTS \in Nat /\ "failed" \in RowStatus
    BY <1>2, <1>3 DEF TaskLabel, RowStatus
  <2>4. TypeOK'
    <3>1. Settle("failed") \in [Hooks -> [Events -> RowStatus]]
      BY <2>3, <1>5
    <3>2. Attempts(MAX_ATTEMPTS) \in [Hooks -> [Events -> Nat]]
      BY <2>3, <1>6
    <3>3. row \in [Hooks -> [Events -> RowStatus]]
          /\ attempts \in [Hooks -> [Events -> Nat]]
      BY DEF TypeOK
    <3>4. row' \in [Hooks -> [Events -> RowStatus]]
          /\ attempts' \in [Hooks -> [Events -> Nat]]
      BY <2>1, <3>1, <3>2, <3>3
    <3>5. task' \in [Slots -> [Hooks -> TaskLabel]]
      BY <2>1, <2>3, <1>4
    <3>6. QED
      BY <2>2, <3>4, <3>5 DEF TypeOK
  <2>5. TaskFrame(s, h)
    BY <2>1, <2>2, <2>3, <1>4, <1>5, <1>6 DEF TaskFrame, e
  <2>6. TaskChange(s, h)
    BY <2>1, <2>2, <2>3, <1>2, <1>4, <1>5, <1>6 DEF TaskChange, e
  <2>7. QED
    BY <1>1, <1>2, <2>4, <2>5, <2>6 DEF e
<1>12. CASE TaskIoError(s, h)
  <2>1. PICK label \in TaskLabel :
            /\ task' = Goto(label)
            /\ \/ task[s][h] = "record" /\ label = afterFailure(tries[s][h])
               \/ label = "none"
    BY <1>2, <1>3, <1>12 DEF TaskIoError, TaskGoto, Goto, TaskLabel
  <2>2. /\ UNCHANGED <<hooks, row, attempts, queue, msg, unacked, spc, tries, posts,
                       accepted>>
        /\ struck' \in SUBSET FaultKinds
    BY <1>12 DEF TaskIoError, Strike, TypeOK, apiVars, rowVars, slotVars, endpointVars
  <2>3. TypeOK'
    BY <2>1, <2>2, <1>4 DEF TypeOK
  <2>4. TaskFrame(s, h)
    BY <2>1, <2>2, <1>4 DEF TaskFrame
  <2>5. TaskChange(s, h)
    BY <2>1, <2>2, <1>2, <1>4 DEF TaskChange
  <2>6. QED
    BY <1>1, <1>2, <2>3, <2>4, <2>5 DEF e
<1>13. QED
  BY <1>7, <1>8, <1>9, <1>10, <1>11, <1>12 DEF TaskStep, Task

\* Every step keeps every variable in its type.
LEMMA TypePreserved == TypeOK /\ SlotInv /\ [Next]_vars => TypeOK'
<1> SUFFICES ASSUME TypeOK, SlotInv,
                    [Next]_vars
             PROVE  TypeOK'
  OBVIOUS
<1> USE DispatcherAssumption
<1>1. ASSUME NEW h \in Hooks, CreateWebhook(h)
      PROVE  TypeOK'
  BY <1>1 DEF TypeOK, RowStatus, TaskLabel, SlotInv, CreateWebhook, apiVars,
      rowVars, slotVars, taskVars, endpointVars
<1>2. ASSUME NEW h \in Hooks, DeleteWebhook(h)
      PROVE  TypeOK'
  BY <1>2 DEF TypeOK, RowStatus, TaskLabel, SlotInv, DeleteWebhook, apiVars,
      rowVars, slotVars, taskVars, endpointVars
<1>3. ASSUME NEW s \in Slots, NEW e \in Events, Deliver(s, e)
      PROVE  TypeOK'
  BY <1>3 DEF TypeOK, RowStatus, TaskLabel, SlotInv, Deliver, apiVars,
      rowVars, slotVars, taskVars, endpointVars
<1>4. ASSUME NEW s \in Slots, FindHooks(s)
      PROVE  TypeOK'
  BY <1>4 DEF TypeOK, RowStatus, TaskLabel, SlotInv, FindHooks, apiVars,
      rowVars, slotVars, taskVars, endpointVars
<1>5. ASSUME NEW s \in Slots, Ack(s)
      PROVE  TypeOK'
  BY <1>5 DEF TypeOK, RowStatus, TaskLabel, SlotInv, Ack, FreeSlot, NoTask,
      apiVars, rowVars, slotVars, taskVars, endpointVars
<1>6. ASSUME NEW s \in Slots, Crash(s)
      PROVE  TypeOK'
  BY <1>6 DEF TypeOK, RowStatus, TaskLabel, SlotInv, Crash, FreeSlot, Strike,
      Requeue, NoTask, apiVars, rowVars, slotVars, taskVars, endpointVars
<1>7. ASSUME NEW s \in Slots, ConnectionLost(s)
      PROVE  TypeOK'
  BY <1>7 DEF TypeOK, RowStatus, TaskLabel, SlotInv, ConnectionLost, Strike,
      Requeue, apiVars, rowVars, slotVars, taskVars, endpointVars
<1>8. ASSUME NEW s \in Slots, FindFails(s)
      PROVE  TypeOK'
  BY <1>8 DEF TypeOK, RowStatus, TaskLabel, SlotInv, FindFails, Strike,
      FreeSlot, apiVars, rowVars, slotVars, taskVars, endpointVars
<1>9. ASSUME NEW s \in Slots, NEW h \in Hooks, TaskStep(s, h)
      PROVE  TypeOK'
  <2>1. /\ TypeOK'
        /\ msg[s] \in Events /\ task[s][h] # "none"
        /\ TaskFrame(s, h) /\ TaskChange(s, h)
    BY <1>9, TaskEffect
  <2>2. QED
    BY <2>1 DEF TypeOK, RowStatus, TaskLabel, SlotInv, TaskFrame, TaskChange,
        afterFailure
<1>10. CASE UNCHANGED vars
  BY <1>10 DEF TypeOK, RowStatus, TaskLabel, SlotInv, vars, apiVars, rowVars,
      slotVars, taskVars, endpointVars
<1>11. QED
  BY <1>1, <1>2, <1>3, <1>4, <1>5, <1>6, <1>7, <1>8, <1>9, <1>10 DEF Next,
      Api, Slot, TaskStep, Fault

\* Every step keeps slots, events and tasks together.
LEMMA SlotPreserved == TypeOK /\ SlotInv /\ [Next]_vars => SlotInv'
<1> SUFFICES ASSUME TypeOK, SlotInv,
                    [Next]_vars
             PROVE  SlotInv'
  OBVIOUS
<1> USE DispatcherAssumption
<1>1. ASSUME NEW h \in Hooks, CreateWebhook(h)
      PROVE  SlotInv'
  BY <1>1 DEF TypeOK, RowStatus, TaskLabel, SlotInv, CreateWebhook, apiVars,
      rowVars, slotVars, taskVars, endpointVars
<1>2. ASSUME NEW h \in Hooks, DeleteWebhook(h)
      PROVE  SlotInv'
  BY <1>2 DEF TypeOK, RowStatus, TaskLabel, SlotInv, DeleteWebhook, apiVars,
      rowVars, slotVars, taskVars, endpointVars
<1>3. ASSUME NEW s \in Slots, NEW e \in Events, Deliver(s, e)
      PROVE  SlotInv'
  BY <1>3 DEF TypeOK, RowStatus, TaskLabel, SlotInv, Deliver, apiVars,
      rowVars, slotVars, taskVars, endpointVars
<1>4. ASSUME NEW s \in Slots, FindHooks(s)
      PROVE  SlotInv'
  BY <1>4 DEF TypeOK, RowStatus, TaskLabel, SlotInv, FindHooks, apiVars,
      rowVars, slotVars, taskVars, endpointVars
<1>5. ASSUME NEW s \in Slots, Ack(s)
      PROVE  SlotInv'
  BY <1>5 DEF TypeOK, RowStatus, TaskLabel, SlotInv, Ack, FreeSlot, NoTask,
      apiVars, rowVars, slotVars, taskVars, endpointVars
<1>6. ASSUME NEW s \in Slots, Crash(s)
      PROVE  SlotInv'
  BY <1>6 DEF TypeOK, RowStatus, TaskLabel, SlotInv, Crash, FreeSlot, Strike,
      Requeue, NoTask, apiVars, rowVars, slotVars, taskVars, endpointVars
<1>7. ASSUME NEW s \in Slots, ConnectionLost(s)
      PROVE  SlotInv'
  BY <1>7 DEF TypeOK, RowStatus, TaskLabel, SlotInv, ConnectionLost, Strike,
      Requeue, apiVars, rowVars, slotVars, taskVars, endpointVars
<1>8. ASSUME NEW s \in Slots, FindFails(s)
      PROVE  SlotInv'
  BY <1>8 DEF TypeOK, RowStatus, TaskLabel, SlotInv, FindFails, Strike,
      FreeSlot, apiVars, rowVars, slotVars, taskVars, endpointVars
<1>9. ASSUME NEW s \in Slots, NEW h \in Hooks, TaskStep(s, h)
      PROVE  SlotInv'
  <2>1. msg[s] \in Events /\ task[s][h] # "none" /\ TaskFrame(s, h)
    BY <1>9, TaskEffect
  <2>2. QED
    BY <2>1 DEF SlotInv, TaskFrame
<1>10. CASE UNCHANGED vars
  BY <1>10 DEF TypeOK, RowStatus, TaskLabel, SlotInv, vars, apiVars, rowVars,
      slotVars, taskVars, endpointVars
<1>11. QED
  BY <1>1, <1>2, <1>3, <1>4, <1>5, <1>6, <1>7, <1>8, <1>9, <1>10 DEF Next,
      Api, Slot, TaskStep, Fault

\* Every step keeps the count of POSTs of each task.
LEMMA TriesPreserved == TypeOK /\ SlotInv /\ TriesInv /\ [Next]_vars => TriesInv'
<1> SUFFICES ASSUME TypeOK, SlotInv, TriesInv,
                    [Next]_vars
             PROVE  TriesInv'
  OBVIOUS
<1> USE DispatcherAssumption
<1>1. ASSUME NEW h \in Hooks, CreateWebhook(h)
      PROVE  TriesInv'
  BY <1>1 DEF TypeOK, RowStatus, TaskLabel, SlotInv, TriesInv, TriesAtStep,
      CreateWebhook, apiVars, rowVars, slotVars, taskVars, endpointVars
<1>2. ASSUME NEW h \in Hooks, DeleteWebhook(h)
      PROVE  TriesInv'
  BY <1>2 DEF TypeOK, RowStatus, TaskLabel, SlotInv, TriesInv, TriesAtStep,
      DeleteWebhook, apiVars, rowVars, slotVars, taskVars, endpointVars
<1>3. ASSUME NEW s \in Slots, NEW e \in Events, Deliver(s, e)
      PROVE  TriesInv'
  <2>1. \A h \in Hooks : task[s][h] = "none"
    BY <1>3 DEF SlotInv, Deliver, TypeOK, TaskLabel
  <2>2. \A t \in Slots : t # s => msg'[t] = msg[t]
    BY <1>3 DEF Deliver, TypeOK
  <2>3. UNCHANGED <<hooks, row, attempts, task, tries, posts, accepted>>
    BY <1>3 DEF Deliver, apiVars, rowVars, taskVars, endpointVars
  <2>4. QED
    BY <2>1, <2>2, <2>3 DEF TypeOK, RowStatus, TaskLabel, TriesInv, TriesAtStep
<1>4. ASSUME NEW s \in Slots, FindHooks(s)
      PROVE  TriesInv'
  BY <1>4 DEF TypeOK, RowStatus, TaskLabel, SlotInv, TriesInv, TriesAtStep,
      FindHooks, apiVars, rowVars, slotVars, taskVars, endpointVars
<1>5. ASSUME NEW s \in Slots, Ack(s)
      PROVE  TriesInv'
  BY <1>5 DEF TypeOK, RowStatus, TaskLabel, SlotInv, TriesInv, TriesAtStep,
      Ack, FreeSlot, NoTask, apiVars, rowVars, slotVars, taskVars,
      endpointVars
<1>6. ASSUME NEW s \in Slots, Crash(s)
      PROVE  TriesInv'
  BY <1>6 DEF TypeOK, RowStatus, TaskLabel, SlotInv, TriesInv, TriesAtStep,
      Crash, FreeSlot, Strike, Requeue, NoTask, apiVars, rowVars, slotVars,
      taskVars, endpointVars
<1>7. ASSUME NEW s \in Slots, ConnectionLost(s)
      PROVE  TriesInv'
  BY <1>7 DEF TypeOK, RowStatus, TaskLabel, SlotInv, TriesInv, TriesAtStep,
      ConnectionLost, Strike, Requeue, apiVars, rowVars, slotVars, taskVars,
      endpointVars
<1>8. ASSUME NEW s \in Slots, FindFails(s)
      PROVE  TriesInv'
  <2>1. \A h \in Hooks : task[s][h] = "none"
    BY <1>8 DEF SlotInv, FindFails, TypeOK, TaskLabel
  <2>2. \A t \in Slots : t # s => msg'[t] = msg[t]
    BY <1>8 DEF FindFails, FreeSlot, TypeOK
  <2>3. UNCHANGED <<hooks, row, attempts, task, tries, posts, accepted>>
    BY <1>8 DEF FindFails, FreeSlot, apiVars, rowVars, taskVars, endpointVars
  <2>4. QED
    BY <2>1, <2>2, <2>3 DEF TypeOK, RowStatus, TaskLabel, TriesInv, TriesAtStep
<1>9. ASSUME NEW s \in Slots, NEW h \in Hooks, TaskStep(s, h)
      PROVE  TriesInv'
  <2>1. /\ TypeOK'
        /\ msg[s] \in Events /\ task[s][h] # "none"
        /\ TaskFrame(s, h) /\ TaskChange(s, h)
    BY <1>9, TaskEffect
  <2>2. msg' = msg /\ hooks' = hooks
    BY <2>1 DEF TaskFrame
  <2>3. tries[s][h] \in Nat
    BY DEF TypeOK
  <2>4. TriesAtStep(s, h)'
    BY <2>1, <2>2, <2>3 DEF TriesInv, TriesAtStep, TaskChange, afterFailure
  <2>5. accepted[h][msg[s]] => accepted'[h][msg[s]]
    BY <2>1 DEF TaskChange
  <2>6. ASSUME NEW t \in Slots, NEW g \in Hooks, t # s \/ g # h
        PROVE  TriesAtStep(t, g)'
    <3>1. task'[t][g] = task[t][g] /\ tries'[t][g] = tries[t][g]
      BY <2>1, <2>6 DEF TaskFrame
    <3>2. task[t][g] = "record" => msg[t] \in Events
      BY DEF SlotInv
    <3>3. task[t][g] = "record" /\ accepted[g][msg[t]] => accepted'[g][msg[t]]
      BY <2>1, <2>5, <3>2 DEF TaskFrame
    <3>4. QED
      BY <2>2, <3>1, <3>3 DEF TriesInv, TriesAtStep
  <2>7. QED
    BY <2>4, <2>6 DEF TriesInv
<1>10. CASE UNCHANGED vars
  BY <1>10 DEF TypeOK, RowStatus, TaskLabel, SlotInv, TriesInv, TriesAtStep,
      vars, apiVars, rowVars, slotVars, taskVars, endpointVars
<1>11. QED
  BY <1>1, <1>2, <1>3, <1>4, <1>5, <1>6, <1>7, <1>8, <1>9, <1>10 DEF Next,
      Api, Slot, TaskStep, Fault

\* A row is made before the first POST, and only by CreateDelivery.
LEMMA FreshPreserved ==
    TypeOK /\ SlotInv /\ FreshInv /\ SenderInv /\ [Next]_vars
        => FreshInv'
<1> SUFFICES ASSUME TypeOK, SlotInv, FreshInv, SenderInv,
                    [Next]_vars
             PROVE  FreshInv'
  OBVIOUS
<1> USE DispatcherAssumption
<1>1. ASSUME NEW h \in Hooks, CreateWebhook(h)
      PROVE  FreshInv'
  BY <1>1 DEF TypeOK, RowStatus, TaskLabel, SlotInv, FreshInv, SenderInv,
      UniqueInv, OwnsDelivery, working, CreateWebhook, apiVars, rowVars,
      slotVars, taskVars, endpointVars
<1>2. ASSUME NEW h \in Hooks, DeleteWebhook(h)
      PROVE  FreshInv'
  BY <1>2 DEF TypeOK, RowStatus, TaskLabel, SlotInv, FreshInv, SenderInv,
      UniqueInv, OwnsDelivery, working, DeleteWebhook, apiVars, rowVars,
      slotVars, taskVars, endpointVars
<1>3. ASSUME NEW s \in Slots, NEW e \in Events, Deliver(s, e)
      PROVE  FreshInv'
  BY <1>3 DEF TypeOK, RowStatus, TaskLabel, SlotInv, FreshInv, SenderInv,
      UniqueInv, OwnsDelivery, working, Deliver, apiVars, rowVars, slotVars,
      taskVars, endpointVars
<1>4. ASSUME NEW s \in Slots, FindHooks(s)
      PROVE  FreshInv'
  BY <1>4 DEF TypeOK, RowStatus, TaskLabel, SlotInv, FreshInv, SenderInv,
      UniqueInv, OwnsDelivery, working, FindHooks, apiVars, rowVars, slotVars,
      taskVars, endpointVars
<1>5. ASSUME NEW s \in Slots, Ack(s)
      PROVE  FreshInv'
  BY <1>5 DEF TypeOK, RowStatus, TaskLabel, SlotInv, FreshInv, SenderInv,
      UniqueInv, OwnsDelivery, working, Ack, FreeSlot, NoTask, apiVars,
      rowVars, slotVars, taskVars, endpointVars
<1>6. ASSUME NEW s \in Slots, Crash(s)
      PROVE  FreshInv'
  BY <1>6 DEF TypeOK, RowStatus, TaskLabel, SlotInv, FreshInv, SenderInv,
      UniqueInv, OwnsDelivery, working, Crash, FreeSlot, Strike, Requeue,
      NoTask, apiVars, rowVars, slotVars, taskVars, endpointVars
<1>7. ASSUME NEW s \in Slots, ConnectionLost(s)
      PROVE  FreshInv'
  BY <1>7 DEF TypeOK, RowStatus, TaskLabel, SlotInv, FreshInv, SenderInv,
      UniqueInv, OwnsDelivery, working, ConnectionLost, Strike, Requeue,
      apiVars, rowVars, slotVars, taskVars, endpointVars
<1>8. ASSUME NEW s \in Slots, FindFails(s)
      PROVE  FreshInv'
  BY <1>8 DEF TypeOK, RowStatus, TaskLabel, SlotInv, FreshInv, SenderInv,
      UniqueInv, OwnsDelivery, working, FindFails, Strike, FreeSlot, apiVars,
      rowVars, slotVars, taskVars, endpointVars
<1>9. ASSUME NEW s \in Slots, NEW h \in Hooks, TaskStep(s, h)
      PROVE  FreshInv'
  <2>1. /\ TypeOK'
        /\ msg[s] \in Events /\ task[s][h] # "none"
        /\ TaskFrame(s, h) /\ TaskChange(s, h)
    BY <1>9, TaskEffect
  <2>2. msg' = msg /\ hooks' = hooks
    BY <2>1 DEF TaskFrame
  <2>3. OwnsDelivery(s, h) /\ (task[s][h] = "post" => working(s, h))
    BY DEF SenderInv, working
  <2>4. /\ row[h][msg[s]] = "none" /\ hooks[h] = "deleted" => row'[h][msg[s]] = "none"
        /\ row'[h][msg[s]] = "none" => row[h][msg[s]] = "none"
        /\ task[s][h] # "post" => posts'[h][msg[s]] = posts[h][msg[s]]
    BY <2>1 DEF TaskChange
  <2>5. /\ hooks[h] = "deleted" => row'[h][msg[s]] = "none"
        /\ hooks[h] # "deleted" /\ row'[h][msg[s]] = "none" => posts'[h][msg[s]] = 0
    BY <2>1, <2>3, <2>4 DEF FreshInv, OwnsDelivery
  <2>6. ASSUME NEW g \in Hooks, NEW e \in Events, g # h \/ e # msg[s]
        PROVE  row'[g][e] = row[g][e] /\ posts'[g][e] = posts[g][e]
    BY <2>1, <2>6 DEF TaskFrame
  <2>7. QED
    BY <2>2, <2>5, <2>6 DEF FreshInv
<1>10. CASE UNCHANGED vars
  BY <1>10 DEF TypeOK, RowStatus, TaskLabel, SlotInv, FreshInv, SenderInv,
      UniqueInv, OwnsDelivery, working, vars, apiVars, rowVars, slotVars,
      taskVars, endpointVars
<1>11. QED
  BY <1>1, <1>2, <1>3, <1>4, <1>5, <1>6, <1>7, <1>8, <1>9, <1>10 DEF Next,
      Api, Slot, TaskStep, Fault

\* The unique key lets one task in.
LEMMA SenderPreserved ==
    TypeOK /\ SlotInv /\ TriesInv /\ FreshInv /\ SenderInv /\ [Next]_vars
        => SenderInv'
<1> SUFFICES ASSUME TypeOK, SlotInv, TriesInv, FreshInv, SenderInv,
                    [Next]_vars
             PROVE  SenderInv'
  OBVIOUS
<1> USE DispatcherAssumption
<1>1. ASSUME NEW h \in Hooks, CreateWebhook(h)
      PROVE  SenderInv'
  BY <1>1 DEF TypeOK, RowStatus, TaskLabel, SlotInv, TriesInv, TriesAtStep,
      FreshInv, SenderInv, UniqueInv, OwnsDelivery, working, CreateWebhook,
      apiVars, rowVars, slotVars, taskVars, endpointVars
<1>2. ASSUME NEW h \in Hooks, DeleteWebhook(h)
      PROVE  SenderInv'
  BY <1>2 DEF TypeOK, RowStatus, TaskLabel, SlotInv, TriesInv, TriesAtStep,
      FreshInv, SenderInv, UniqueInv, OwnsDelivery, working, DeleteWebhook,
      apiVars, rowVars, slotVars, taskVars, endpointVars
<1>3. ASSUME NEW s \in Slots, NEW e \in Events, Deliver(s, e)
      PROVE  SenderInv'
  <2>1. \A h \in Hooks : task[s][h] = "none"
    BY <1>3 DEF SlotInv, Deliver, TypeOK, TaskLabel
  <2>2. \A t \in Slots : t # s => msg'[t] = msg[t]
    BY <1>3 DEF Deliver, TypeOK
  <2>3. UNCHANGED <<hooks, row, attempts, task, tries, posts, accepted>>
    BY <1>3 DEF Deliver, apiVars, rowVars, taskVars, endpointVars
  <2>4. \A t \in Slots, h \in Hooks : (working(t, h)' <=> working(t, h))
            /\ (working(t, h) => t # s /\ msg'[t] = msg[t])
    BY <2>1, <2>2, <2>3 DEF working
  <2>5. UniqueInv'
    BY <2>4 DEF SenderInv, UniqueInv
  <2>6. \A t \in Slots, h \in Hooks : OwnsDelivery(t, h)'
    BY <2>3, <2>4 DEF SenderInv, OwnsDelivery
  <2>7. QED
    BY <2>5, <2>6 DEF SenderInv
<1>4. ASSUME NEW s \in Slots, FindHooks(s)
      PROVE  SenderInv'
  BY <1>4 DEF TypeOK, RowStatus, TaskLabel, SlotInv, TriesInv, TriesAtStep,
      FreshInv, SenderInv, UniqueInv, OwnsDelivery, working, FindHooks,
      apiVars, rowVars, slotVars, taskVars, endpointVars
<1>5. ASSUME NEW s \in Slots, Ack(s)
      PROVE  SenderInv'
  BY <1>5 DEF TypeOK, RowStatus, TaskLabel, SlotInv, TriesInv, TriesAtStep,
      FreshInv, SenderInv, UniqueInv, OwnsDelivery, working, Ack, FreeSlot,
      NoTask, apiVars, rowVars, slotVars, taskVars, endpointVars
<1>6. ASSUME NEW s \in Slots, Crash(s)
      PROVE  SenderInv'
  BY <1>6 DEF TypeOK, RowStatus, TaskLabel, SlotInv, TriesInv, TriesAtStep,
      FreshInv, SenderInv, UniqueInv, OwnsDelivery, working, Crash, FreeSlot,
      Strike, Requeue, NoTask, apiVars, rowVars, slotVars, taskVars,
      endpointVars
<1>7. ASSUME NEW s \in Slots, ConnectionLost(s)
      PROVE  SenderInv'
  BY <1>7 DEF TypeOK, RowStatus, TaskLabel, SlotInv, TriesInv, TriesAtStep,
      FreshInv, SenderInv, UniqueInv, OwnsDelivery, working, ConnectionLost,
      Strike, Requeue, apiVars, rowVars, slotVars, taskVars, endpointVars
<1>8. ASSUME NEW s \in Slots, FindFails(s)
      PROVE  SenderInv'
  <2>1. \A h \in Hooks : task[s][h] = "none"
    BY <1>8 DEF SlotInv, FindFails, TypeOK, TaskLabel
  <2>2. \A t \in Slots : t # s => msg'[t] = msg[t]
    BY <1>8 DEF FindFails, FreeSlot, TypeOK
  <2>3. UNCHANGED <<hooks, row, attempts, task, tries, posts, accepted>>
    BY <1>8 DEF FindFails, FreeSlot, apiVars, rowVars, taskVars, endpointVars
  <2>4. \A t \in Slots, h \in Hooks : (working(t, h)' <=> working(t, h))
            /\ (working(t, h) => t # s /\ msg'[t] = msg[t])
    BY <2>1, <2>2, <2>3 DEF working
  <2>5. UniqueInv'
    BY <2>4 DEF SenderInv, UniqueInv
  <2>6. \A t \in Slots, h \in Hooks : OwnsDelivery(t, h)'
    BY <2>3, <2>4 DEF SenderInv, OwnsDelivery
  <2>7. QED
    BY <2>5, <2>6 DEF SenderInv
<1>9. ASSUME NEW s \in Slots, NEW h \in Hooks, TaskStep(s, h)
      PROVE  SenderInv'
  <2>1. /\ TypeOK'
        /\ msg[s] \in Events /\ task[s][h] # "none"
        /\ TaskFrame(s, h) /\ TaskChange(s, h)
    BY <1>9, TaskEffect
  <2>2. msg' = msg /\ hooks' = hooks
    BY <2>1 DEF TaskFrame
  <2> DEFINE e == msg[s]
  <2>3. OwnsDelivery(s, h) /\ UniqueInv
    BY DEF SenderInv
  <2>4. /\ tries[s][h] \in Nat /\ posts[h][e] \in Nat
        /\ task[s][h] = "create" => tries[s][h] = 0
    BY <2>1 DEF TypeOK, TriesInv, TriesAtStep
  <2>5. working(s, h)' =>
            \/ working(s, h)
            \/ /\ task[s][h] = "create" /\ hooks[h] = "registered"
               /\ row[h][e] = "none" /\ row'[h][e] = "pending"
               /\ posts'[h][e] = posts[h][e] /\ tries'[s][h] = tries[s][h]
    <3>1. CASE task[s][h] = "create"
      BY <2>1, <3>1 DEF TaskChange, working, afterFailure
    <3>2. CASE task[s][h] # "create" /\ ~ working(s, h)
      <4>1. task[s][h] \notin {"none", "create", "noSecret", "post", "record", "giveUp"}
                \/ task'[s][h] = "none"
        BY <2>1, <3>2 DEF TaskChange, working
      <4>2. task[s][h] \in TaskLabel
        BY DEF TypeOK
      <4>3. QED
        BY <4>1, <4>2 DEF TaskLabel, working
    <3>3. QED
      BY <3>1, <3>2
  <2>6. /\ ~ working(s, h) /\ ~ working(s, h)' =>
               row'[h][e] = row[h][e] /\ posts'[h][e] = posts[h][e]
        /\ working(s, h) /\ working(s, h)' =>
               \/ /\ row'[h][e] = row[h][e]
                  /\ posts'[h][e] - posts[h][e] = tries'[s][h] - tries[s][h]
               \/ row[h][e] = "none" /\ row'[h][e] = "none"
                  /\ posts'[h][e] = posts[h][e] /\ tries'[s][h] = tries[s][h]
    BY <2>1, <2>4 DEF TaskChange, working, afterFailure
  <2>7. tries'[s][h] \in Nat /\ posts'[h][e] \in Nat
    BY <2>1 DEF TypeOK
  <2>8. OwnsDelivery(s, h)'
    <3>1. CASE working(s, h) /\ working(s, h)'
      BY <2>2, <2>3, <2>4, <2>6, <2>7, <3>1 DEF OwnsDelivery
    <3>2. CASE ~ working(s, h) /\ working(s, h)'
      BY <2>1, <2>2, <2>4, <2>5, <3>2 DEF OwnsDelivery, FreshInv
    <3>3. QED
      BY <3>1, <3>2 DEF OwnsDelivery
  <2>9. ASSUME NEW t \in Slots, NEW g \in Hooks, t # s \/ g # h
        PROVE  /\ working(t, g)' <=> working(t, g)
               /\ tries'[t][g] = tries[t][g]
    BY <2>1, <2>9 DEF TaskFrame, working
  <2>10. ASSUME NEW t \in Slots, t # s, working(t, h), msg[t] = e
         PROVE  ~ working(s, h) /\ ~ working(s, h)'
    <3>1. ~ working(s, h)
      BY <2>3, <2>10 DEF UniqueInv
    <3>2. row[h][e] = "pending" \/ hooks[h] = "deleted"
      BY <2>10 DEF SenderInv, OwnsDelivery
    <3>3. QED
      BY <2>5, <3>1, <3>2
  <2>11. UniqueInv'
    BY <2>2, <2>3, <2>9, <2>10 DEF UniqueInv
  <2>12. ASSUME NEW t \in Slots, NEW g \in Hooks, t # s \/ g # h
         PROVE  OwnsDelivery(t, g)'
    <3>1. SUFFICES ASSUME working(t, g)
                   PROVE  /\ row'[g][msg[t]] = row[g][msg[t]]
                          /\ posts'[g][msg[t]] = posts[g][msg[t]]
      BY <2>2, <2>9, <2>12 DEF SenderInv, OwnsDelivery
    <3>2. msg[t] \in Events
      BY <3>1 DEF SlotInv, working
    <3>3. CASE g = h /\ msg[t] = e
      BY <2>6, <2>10, <2>12, <3>1, <3>3
    <3>4. CASE g # h \/ msg[t] # e
      BY <2>1, <3>2, <3>4 DEF TaskFrame
    <3>5. QED
      BY <3>3, <3>4
  <2>13. QED
    BY <2>8, <2>11, <2>12 DEF SenderInv
<1>10. CASE UNCHANGED vars
  BY <1>10 DEF TypeOK, RowStatus, TaskLabel, SlotInv, TriesInv, TriesAtStep,
      FreshInv, SenderInv, UniqueInv, OwnsDelivery, working, vars, apiVars,
      rowVars, slotVars, taskVars, endpointVars
<1>11. QED
  BY <1>1, <1>2, <1>3, <1>4, <1>5, <1>6, <1>7, <1>8, <1>9, <1>10 DEF Next,
      Api, Slot, TaskStep, Fault

\* Whoever settles a row has made all its POSTs.
LEMMA RowPreserved ==
    TypeOK /\ SlotInv /\ TriesInv /\ FreshInv /\ SenderInv
        /\ PostsBounded /\ RowIsTruthful /\ [Next]_vars
        => (PostsBounded /\ RowIsTruthful)'
<1> SUFFICES ASSUME TypeOK, SlotInv, TriesInv, FreshInv, SenderInv,
                    PostsBounded, RowIsTruthful, [Next]_vars
             PROVE  (PostsBounded /\ RowIsTruthful)'
  OBVIOUS
<1> USE DispatcherAssumption
<1>1. ASSUME NEW h \in Hooks, CreateWebhook(h)
      PROVE  (PostsBounded /\ RowIsTruthful)'
  BY <1>1 DEF TypeOK, RowStatus, TaskLabel, SlotInv, TriesInv, TriesAtStep,
      FreshInv, SenderInv, UniqueInv, OwnsDelivery, working, PostsBounded,
      RowIsTruthful, CreateWebhook, apiVars, rowVars, slotVars, taskVars,
      endpointVars
<1>2. ASSUME NEW h \in Hooks, DeleteWebhook(h)
      PROVE  (PostsBounded /\ RowIsTruthful)'
  BY <1>2 DEF TypeOK, RowStatus, TaskLabel, SlotInv, TriesInv, TriesAtStep,
      FreshInv, SenderInv, UniqueInv, OwnsDelivery, working, PostsBounded,
      RowIsTruthful, DeleteWebhook, apiVars, rowVars, slotVars, taskVars,
      endpointVars
<1>3. ASSUME NEW s \in Slots, NEW e \in Events, Deliver(s, e)
      PROVE  (PostsBounded /\ RowIsTruthful)'
  BY <1>3 DEF TypeOK, RowStatus, TaskLabel, SlotInv, TriesInv, TriesAtStep,
      FreshInv, SenderInv, UniqueInv, OwnsDelivery, working, PostsBounded,
      RowIsTruthful, Deliver, apiVars, rowVars, slotVars, taskVars,
      endpointVars
<1>4. ASSUME NEW s \in Slots, FindHooks(s)
      PROVE  (PostsBounded /\ RowIsTruthful)'
  BY <1>4 DEF TypeOK, RowStatus, TaskLabel, SlotInv, TriesInv, TriesAtStep,
      FreshInv, SenderInv, UniqueInv, OwnsDelivery, working, PostsBounded,
      RowIsTruthful, FindHooks, apiVars, rowVars, slotVars, taskVars,
      endpointVars
<1>5. ASSUME NEW s \in Slots, Ack(s)
      PROVE  (PostsBounded /\ RowIsTruthful)'
  BY <1>5 DEF TypeOK, RowStatus, TaskLabel, SlotInv, TriesInv, TriesAtStep,
      FreshInv, SenderInv, UniqueInv, OwnsDelivery, working, PostsBounded,
      RowIsTruthful, Ack, FreeSlot, NoTask, apiVars, rowVars, slotVars,
      taskVars, endpointVars
<1>6. ASSUME NEW s \in Slots, Crash(s)
      PROVE  (PostsBounded /\ RowIsTruthful)'
  BY <1>6 DEF TypeOK, RowStatus, TaskLabel, SlotInv, TriesInv, TriesAtStep,
      FreshInv, SenderInv, UniqueInv, OwnsDelivery, working, PostsBounded,
      RowIsTruthful, Crash, FreeSlot, Strike, Requeue, NoTask, apiVars,
      rowVars, slotVars, taskVars, endpointVars
<1>7. ASSUME NEW s \in Slots, ConnectionLost(s)
      PROVE  (PostsBounded /\ RowIsTruthful)'
  BY <1>7 DEF TypeOK, RowStatus, TaskLabel, SlotInv, TriesInv, TriesAtStep,
      FreshInv, SenderInv, UniqueInv, OwnsDelivery, working, PostsBounded,
      RowIsTruthful, ConnectionLost, Strike, Requeue, apiVars, rowVars,
      slotVars, taskVars, endpointVars
<1>8. ASSUME NEW s \in Slots, FindFails(s)
      PROVE  (PostsBounded /\ RowIsTruthful)'
  BY <1>8 DEF TypeOK, RowStatus, TaskLabel, SlotInv, TriesInv, TriesAtStep,
      FreshInv, SenderInv, UniqueInv, OwnsDelivery, working, PostsBounded,
      RowIsTruthful, FindFails, Strike, FreeSlot, apiVars, rowVars, slotVars,
      taskVars, endpointVars
<1>9. ASSUME NEW s \in Slots, NEW h \in Hooks, TaskStep(s, h)
      PROVE  (PostsBounded /\ RowIsTruthful)'
  <2>1. /\ TypeOK'
        /\ msg[s] \in Events /\ task[s][h] # "none"
        /\ TaskFrame(s, h) /\ TaskChange(s, h)
    BY <1>9, TaskEffect
  <2>2. msg' = msg /\ hooks' = hooks
    BY <2>1 DEF TaskFrame
  <2> DEFINE e == msg[s]
  <2>3. /\ tries[s][h] \in Nat /\ posts[h][e] \in Nat
        /\ working(s, h) => /\ row[h][e] = "pending" \/ row[h][e] = "none"
                            /\ tries[s][h] = posts[h][e]
        /\ TriesAtStep(s, h)
    BY <2>1 DEF TypeOK, SenderInv, OwnsDelivery, FreshInv, TriesInv
  <2>4. /\ posts[h][e] <= MAX_ATTEMPTS
        /\ row[h][e] = "delivered" => accepted[h][e] /\ attempts[h][e] = posts[h][e]
        /\ row[h][e] = "failed" => /\ attempts[h][e] = posts[h][e]
                                   /\ posts[h][e] \in {0, MAX_ATTEMPTS}
    BY <2>1 DEF PostsBounded, RowIsTruthful
  <2>5. posts'[h][e] <= MAX_ATTEMPTS
    BY <2>1, <2>3, <2>4 DEF TaskChange, TriesAtStep, working
  <2>6. row'[h][e] = "delivered" => accepted'[h][e] /\ attempts'[h][e] = posts'[h][e]
    BY <2>1, <2>3, <2>4 DEF TaskChange, TriesAtStep, working
  <2>7. row'[h][e] = "failed" => /\ attempts'[h][e] = posts'[h][e]
                                 /\ posts'[h][e] \in {0, MAX_ATTEMPTS}
    BY <2>1, <2>3, <2>4 DEF TaskChange, TriesAtStep, working
  <2>8. ASSUME NEW g \in Hooks, NEW x \in Events, g # h \/ x # e
        PROVE  /\ row'[g][x] = row[g][x] /\ attempts'[g][x] = attempts[g][x]
               /\ posts'[g][x] = posts[g][x] /\ accepted'[g][x] = accepted[g][x]
    BY <2>1, <2>8 DEF TaskFrame
  <2> HIDE DEF e
  <2>9. QED
    BY <2>5, <2>6, <2>7, <2>8 DEF PostsBounded, RowIsTruthful
<1>10. CASE UNCHANGED vars
  BY <1>10 DEF TypeOK, RowStatus, TaskLabel, SlotInv, TriesInv, TriesAtStep,
      FreshInv, SenderInv, UniqueInv, OwnsDelivery, working, PostsBounded,
      RowIsTruthful, vars, apiVars, rowVars, slotVars, taskVars, endpointVars
<1>11. QED
  BY <1>1, <1>2, <1>3, <1>4, <1>5, <1>6, <1>7, <1>8, <1>9, <1>10 DEF Next,
      Api, Slot, TaskStep, Fault

\* The inductive invariant.
IInv ==
    /\ TypeOK
    /\ SlotInv
    /\ TriesInv
    /\ FreshInv
    /\ SenderInv
    /\ PostsBounded
    /\ RowIsTruthful

\* Nothing has been made, sent or settled at the start.
LEMMA InitInvariant == Init => IInv
<1> SUFFICES ASSUME Init
             PROVE  IInv
  OBVIOUS
<1> USE DispatcherAssumption DEF Init, perDelivery
<1>1. /\ \A s \in Slots, h \in Hooks : task[s][h] = "none"
      /\ task \in [Slots -> [Hooks -> TaskLabel]]
  BY DEF NoTask, TaskLabel
<1>2. /\ row \in [Hooks -> [Events -> RowStatus]]
      /\ accepted \in [Hooks -> [Events -> BOOLEAN]]
  BY DEF RowStatus
<1>3. TypeOK
  BY <1>1, <1>2 DEF TypeOK
<1>4. SlotInv /\ TriesInv /\ FreshInv
  BY <1>1 DEF SlotInv, TriesInv, TriesAtStep, FreshInv
<1>5. SenderInv
  BY <1>1 DEF SenderInv, UniqueInv, OwnsDelivery, working
<1>6. PostsBounded /\ RowIsTruthful
  BY DEF PostsBounded, RowIsTruthful
<1>7. QED
  BY <1>3, <1>4, <1>5, <1>6 DEF IInv

\* The invariant holds in every state the dispatcher reaches.
THEOREM Invariance == Spec => []IInv
<1>1. IInv /\ [Next]_vars => IInv'
  BY TypePreserved, SlotPreserved, TriesPreserved, FreshPreserved,
      SenderPreserved, RowPreserved DEF IInv
<1>2. QED
  BY <1>1, InitInvariant, PTL DEF Spec

\* Every variable keeps its type, however many events and hooks there are.
THEOREM TypeOKHolds == Spec => []TypeOK
<1>1. IInv => TypeOK
  BY DEF IInv
<1>2. QED
  BY <1>1, Invariance, PTL

\* The POSTs of a delivery never exceed MAX_ATTEMPTS: the unique key gives a
\* delivery to one task, and that task counts its own POSTs.
THEOREM PostsBoundedHolds == Spec => []PostsBounded
<1>1. IInv => PostsBounded
  BY DEF IInv
<1>2. QED
  BY <1>1, Invariance, PTL

\* A settled row says what was sent and what the endpoint did.
THEOREM RowIsTruthfulHolds == Spec => []RowIsTruthful
<1>1. IInv => RowIsTruthful
  BY DEF IInv
<1>2. QED
  BY <1>1, Invariance, PTL

\* No step reopens a settled row: a task at work has a pending row, and one
\* that begins finds none.
LEMMA SettledRowKept ==
    ASSUME IInv, [Next]_vars, NEW h \in Hooks, NEW e \in Events,
           row[h][e] \in {"delivered", "failed"}
    PROVE  row'[h][e] = row[h][e] \/ hooks'[h] = "deleted"
<1>1. CASE UNCHANGED row
  BY <1>1
<1>2. ASSUME NEW g \in Hooks, DeleteWebhook(g)
      PROVE  row'[h][e] = row[h][e] \/ hooks'[h] = "deleted"
  <2>1. /\ hooks' = [hooks EXCEPT ![g] = "deleted"]
        /\ row' = [row EXCEPT ![g] = [x \in Events |-> "none"]]
        /\ hooks \in [Hooks -> {"new", "registered", "deleted"}]
        /\ row \in [Hooks -> [Events -> RowStatus]]
    BY <1>2 DEF DeleteWebhook, IInv, TypeOK
  <2>2. QED
    BY <2>1
<1>3. ASSUME NEW s \in Slots, NEW g \in Hooks, TaskStep(s, g)
      PROVE  row'[h][e] = row[h][e] \/ hooks'[h] = "deleted"
  <2>1. TaskFrame(s, g) /\ TaskChange(s, g)
    BY <1>3, TaskEffect DEF IInv
  <2>2. CASE h # g \/ e # msg[s]
    BY <2>1, <2>2 DEF TaskFrame
  <2>3. CASE h = g /\ e = msg[s]
    <3>1. ~ working(s, g) \/ hooks[g] = "deleted"
      BY <2>3 DEF IInv, SenderInv, OwnsDelivery
    <3>2. ~ working(s, g) => row'[g][e] = row[g][e]
      BY <2>1, <2>3 DEF TaskChange, working
    <3>3. hooks' = hooks
      BY <2>1 DEF TaskFrame
    <3>4. QED
      BY <2>3, <3>1, <3>2, <3>3
  <2>4. QED
    BY <2>2, <2>3
<1>4. QED
  <2>1. CASE Next
    <3>1. ASSUME NEW g \in Hooks, CreateWebhook(g)
          PROVE  UNCHANGED row
      BY <3>1 DEF CreateWebhook, rowVars
    <3>2. ASSUME NEW s \in Slots, Slot(s)
          PROVE  UNCHANGED row
      BY <3>2 DEF Slot, Deliver, FindHooks, Ack, rowVars
    <3>3. ASSUME NEW s \in Slots, Crash(s) \/ ConnectionLost(s) \/ FindFails(s)
          PROVE  UNCHANGED row
      BY <3>3 DEF Crash, ConnectionLost, FindFails, rowVars
    <3>4. QED
      BY <2>1, <1>1, <1>2, <1>3, <3>1, <3>2, <3>3 DEF Next, Api, TaskStep, Fault
  <2>2. QED
    BY <2>1, <1>1 DEF vars, rowVars

\* A redelivered event never reopens a settled delivery.
THEOREM SettledRowIsFinalHolds == Spec => SettledRowIsFinal
<1>1. IInv /\ [Next]_vars =>
          [\A h \in Hooks, e \in Events :
              row[h][e] \in {"delivered", "failed"}
                  => row'[h][e] = row[h][e] \/ hooks'[h] = "deleted"]_vars
  BY SettledRowKept
<1>2. QED
  BY <1>1, Invariance, PTL DEF Spec, SettledRowIsFinal

-----------------------------------------------------------------------------
(* The dispatcher implements DeliveryProtocol: a delivery is open while a  *)
(* task works on it, and the unique key lets one task in.                  *)

\* What is under way are the deliveries that tasks work on.
LEMMA UnderWay ==
    /\ underWay \subseteq Hooks \X Events
    /\ \A h \in Hooks, e \in Events :
           <<h, e>> \in underWay <=> \E s \in Slots : working(s, h) /\ msg[s] = e
  BY DEF underWay

\* A slot without tasks at work changes nothing of what is under way.
LEMMA RestingSlot ==
    ASSUME NEW s \in Slots,
           \A t \in Slots \ {s} : task'[t] = task[t] /\ msg'[t] = msg[t],
           \A h \in Hooks : ~working(s, h) /\ ~working(s, h)'
    PROVE  underWay' = underWay
<1>1. \A t \in Slots, h \in Hooks :
          /\ working(t, h)' <=> working(t, h)
          /\ working(t, h) => msg'[t] = msg[t]
  BY DEF working
<1>2. QED
  BY <1>1 DEF underWay

\* A step of a task opens its delivery, ends it, or leaves it as it was.
LEMMA UnderWayStep ==
    ASSUME TypeOK, SlotInv, SenderInv, NEW s \in Slots, NEW h \in Hooks, TaskStep(s, h)
    PROVE  LET d == <<h, msg[s]>>
           IN  /\ (working(s, h) <=> working(s, h)') => underWay' = underWay
               /\ ~working(s, h) /\ working(s, h)' => underWay' = underWay \cup {d}
               /\ working(s, h) /\ ~working(s, h)' => underWay' = underWay \ {d}
               /\ working(s, h) => d \in underWay
<1> DEFINE d == <<h, msg[s]>>
<1>1. /\ TaskFrame(s, h) /\ msg[s] \in Events
      /\ msg' = msg
  BY TaskEffect DEF TaskFrame
<1>2. \A t \in Slots, g \in Hooks : t # s \/ g # h => (working(t, g)' <=> working(t, g))
  BY <1>1 DEF TaskFrame, working
<1>3. ASSUME NEW g \in Hooks, NEW x \in Events, g # h \/ x # msg[s]
      PROVE  <<g, x>> \in underWay' <=> <<g, x>> \in underWay
  BY <1>1, <1>2, <1>3, UnderWay DEF underWay
<1>4. d \in Hooks \X Events
  BY <1>1
<1>5. d \in underWay <=> \E t \in Slots : working(t, h) /\ msg[t] = msg[s]
  BY <1>1, UnderWay
<1>6. d \in underWay' <=> \E t \in Slots : working(t, h)' /\ msg[t] = msg[s]
  BY <1>1, <1>4 DEF underWay
<1>7. working(s, h) => \A t \in Slots : working(t, h) /\ msg[t] = msg[s] => t = s
  BY DEF SenderInv, UniqueInv
<1>8. /\ working(s, h) => d \in underWay
      /\ working(s, h)' => d \in underWay'
      /\ working(s, h) /\ ~working(s, h)' => d \notin underWay'
      /\ ~working(s, h) /\ ~working(s, h)' => (d \in underWay' <=> d \in underWay)
  BY <1>2, <1>5, <1>6, <1>7
<1>9. underWay \subseteq Hooks \X Events /\ underWay' \subseteq Hooks \X Events
  BY DEF underWay
<1>10. \A c \in Hooks \X Events : c # d => (c \in underWay' <=> c \in underWay)
  <2> SUFFICES ASSUME NEW g \in Hooks, NEW x \in Events, <<g, x>> # d
               PROVE  <<g, x>> \in underWay' <=> <<g, x>> \in underWay
    OBVIOUS
  <2>1. QED
    BY <1>3
<1> HIDE DEF d
<1>11. QED
  BY <1>4, <1>8, <1>9, <1>10 DEF d

\* The dispatcher starts where the protocol does.
LEMMA InitDelivery == Init => Protocol!DInit
<1> SUFFICES ASSUME Init PROVE Protocol!DInit
  OBVIOUS
<1>1. \A s \in Slots, h \in Hooks : ~working(s, h)
  BY DEF Init, NoTask, working
<1>2. underWay = {}
  BY <1>1 DEF underWay
<1>3. QED
  BY <1>2 DEF Init, perDelivery, Protocol!DInit

\* Each step of a task is one of the protocol's, or changes nothing of it.
LEMMA TaskDelivery ==
    ASSUME IInv, NEW s \in Slots, NEW h \in Hooks, TaskStep(s, h)
    PROVE  Protocol!DNext \/ UNCHANGED Protocol!dvars
<1> DEFINE e == msg[s]
<1>1. /\ TypeOK /\ SlotInv /\ SenderInv /\ FreshInv /\ TriesInv
      /\ e \in Events /\ tries[s][h] \in Nat
  BY TaskEffect DEF IInv, TypeOK
<1>2. /\ (working(s, h) <=> working(s, h)') => underWay' = underWay
      /\ ~working(s, h) /\ working(s, h)' => underWay' = underWay \cup {<<h, e>>}
      /\ working(s, h) /\ ~working(s, h)' => underWay' = underWay \ {<<h, e>>}
      /\ working(s, h) => <<h, e>> \in underWay
  BY <1>1, UnderWayStep
<1>3. working(s, h) => /\ row[h][e] = "pending" \/ hooks[h] = "deleted"
                       /\ tries[s][h] = posts[h][e]
  BY <1>1 DEF SenderInv, OwnsDelivery
<1>4. hooks[h] = "deleted" => row[h][e] = "none"
  BY <1>1 DEF FreshInv
<1>5. TriesAtStep(s, h)
  BY <1>1 DEF TriesInv
<1>6. \A n \in Nat : afterFailure(n) \in {"post", "giveUp"}
  BY DEF afterFailure
<1>7. ASSUME NEW label, TaskGoto(s, h, label)
      PROVE  task'[s][h] = label
  BY <1>1, <1>7 DEF TaskGoto, TypeOK
<1>8. CASE CreateDelivery(s, h)
  <2>1. ~working(s, h)
    BY <1>8 DEF CreateDelivery, working
  <2>2. UNCHANGED <<hooks, attempts, posts, accepted>>
    BY <1>8 DEF CreateDelivery, apiVars, endpointVars
  <2>3. CASE hooks[h] # "registered" \/ row[h][e] # "none"
    <3>1. TaskGoto(s, h, "none") /\ row' = row
      BY <1>8, <2>3 DEF CreateDelivery
    <3>2. ~working(s, h)'
      BY <3>1, <1>7 DEF working
    <3>3. QED
      BY <1>2, <2>1, <2>2, <3>1, <3>2 DEF Protocol!dvars
  <2>4. CASE hooks[h] = "registered" /\ row[h][e] = "none"
    <3>1. /\ row' = [row EXCEPT ![h][e] = "pending"]
          /\ TaskGoto(s, h, "post") \/ TaskGoto(s, h, "noSecret")
      BY <1>8, <2>4 DEF CreateDelivery
    <3>2. working(s, h)'
      BY <3>1, <1>7 DEF working
    <3>3. posts[h][e] = 0
      BY <1>1, <2>4 DEF FreshInv
    <3>4. <<h, e>> \notin underWay
      <4>1. \A t \in Slots : working(t, h) /\ msg[t] = e => FALSE
        BY <1>1, <2>4 DEF SenderInv, OwnsDelivery
      <4>2. QED
        BY <4>1, <1>1, UnderWay
    <3>5. Protocol!Open(h, e)
      BY <1>2, <2>1, <2>2, <2>4, <3>1, <3>2, <3>3, <3>4 DEF Protocol!Open
    <3>6. QED
      BY <1>1, <3>5 DEF Protocol!DNext
  <2>5. QED
    BY <2>3, <2>4
<1>9. ASSUME NEW final \in {"delivered", "failed"}, NEW n,
             working(s, h), updateRow(s, h, final, n), rowExists(s, h), ~working(s, h)',
             UNCHANGED <<hooks, posts, accepted>>, n = posts[h][e],
             final = "delivered" => accepted[h][e],
             final = "failed" => posts[h][e] \in {0, MAX_ATTEMPTS}
      PROVE  Protocol!DNext
  <2>1. /\ row' = [row EXCEPT ![h][e] = final]
        /\ attempts' = [attempts EXCEPT ![h][e] = n]
    BY <1>9 DEF updateRow
  <2>2. row[h][e] = "pending"
    BY <1>3, <1>4, <1>9 DEF rowExists
  <2>3. Protocol!Settle(h, e)
    BY <1>2, <1>9, <2>1, <2>2 DEF Protocol!Settle
  <2>4. QED
    BY <1>1, <2>3 DEF Protocol!DNext
<1>10. ASSUME underWay' \in SUBSET underWay, UNCHANGED <<hooks, row, attempts, posts, accepted>>
       PROVE  Protocol!DNext
  BY <1>10 DEF Protocol!DNext, Protocol!Abandon
<1>11. CASE RecordNoSecret(s, h) \/ GiveUp(s, h)
  <2>1. PICK n \in {0, MAX_ATTEMPTS} :
            /\ updateRow(s, h, "failed", n)
            /\ n = tries[s][h]
            /\ working(s, h)
            /\ TaskGoto(s, h, "none")
            /\ UNCHANGED <<hooks, posts, accepted>>
    BY <1>5, <1>11 DEF RecordNoSecret, GiveUp, TriesAtStep, working, apiVars, endpointVars
  <2>2. ~working(s, h)'
    BY <2>1, <1>7 DEF working
  <2>3. n = posts[h][e]
    BY <1>3, <2>1
  <2>4. CASE rowExists(s, h)
    BY <1>9, <2>1, <2>2, <2>3, <2>4
  <2>5. CASE ~rowExists(s, h)
    BY <1>2, <1>10, <2>1, <2>2, <2>5 DEF updateRow, rowVars
  <2>6. QED
    BY <2>4, <2>5
<1>12. CASE Post(s, h)
  <2>1. PICK took, ok \in BOOLEAN :
            /\ accepted' = [accepted EXCEPT ![h][e] = @ \/ took]
            /\ TaskGoto(s, h, IF ok THEN "record" ELSE afterFailure(tries[s][h] + 1))
    BY <1>12 DEF Post
  <2>2. /\ task[s][h] = "post" /\ UNCHANGED <<hooks, row, attempts>>
        /\ posts' = [posts EXCEPT ![h][e] = @ + 1]
    BY <1>12 DEF Post, apiVars, rowVars
  <2>3. working(s, h) /\ working(s, h)'
    <3>1. task'[s][h] \in {"record", "post", "giveUp"}
      BY <1>1, <1>6, <1>7, <2>1
    <3>2. QED
      BY <2>2, <3>1 DEF working
  <2>4. posts[h][e] < MAX_ATTEMPTS
    BY <1>3, <1>5, <2>2, <2>3 DEF TriesAtStep
  <2>5. Protocol!Send(h, e)
    BY <1>2, <1>3, <2>1, <2>2, <2>3, <2>4 DEF Protocol!Send
  <2>6. QED
    BY <1>1, <2>5 DEF Protocol!DNext
<1>13. CASE RecordDelivered(s, h)
  <2>1. /\ task[s][h] = "record" /\ accepted[h][e]
        /\ updateRow(s, h, "delivered", tries[s][h])
        /\ TaskGoto(s, h, IF rowExists(s, h) THEN "none" ELSE afterFailure(tries[s][h]))
        /\ UNCHANGED <<hooks, posts, accepted>>
    BY <1>5, <1>13 DEF RecordDelivered, TriesAtStep, apiVars, endpointVars
  <2>2. working(s, h)
    BY <2>1 DEF working
  <2>3. CASE rowExists(s, h)
    <3>1. ~working(s, h)'
      BY <2>1, <2>3, <1>7 DEF working
    <3>2. QED
      BY <1>3, <1>9, <2>1, <2>2, <2>3, <3>1
  <2>4. CASE ~rowExists(s, h)
    <3>1. underWay' \in SUBSET underWay
      BY <1>2, <2>2
    <3>2. QED
      BY <1>10, <2>1, <2>4, <3>1 DEF updateRow, rowVars
  <2>5. QED
    BY <2>3, <2>4
<1>14. CASE TaskIoError(s, h)
  <2>1. task'[s][h] \in {"none", "post", "giveUp"}
    BY <1>1, <1>6, <1>7, <1>14 DEF TaskIoError
  <2>2. UNCHANGED <<hooks, row, attempts, posts, accepted>>
    BY <1>14 DEF TaskIoError, apiVars, rowVars, endpointVars
  <2>3. ~working(s, h) => ~working(s, h)'
    BY <1>7, <1>14 DEF TaskIoError, working
  <2>4. QED
    BY <1>2, <1>10, <2>2, <2>3
<1>15. QED
  BY <1>8, <1>11, <1>12, <1>13, <1>14 DEF TaskStep, Task

\* Each step of the dispatcher and the API is one of the protocol's, or changes
\* nothing of it.
LEMMA NextDelivery ==
    ASSUME IInv, [Next]_vars
    PROVE  Protocol!DNext \/ UNCHANGED Protocol!dvars
<1>1. TypeOK /\ SlotInv
  BY DEF IInv
<1>2. ASSUME UNCHANGED <<task, msg>>
      PROVE  underWay' = underWay
  BY <1>2 DEF underWay, working
<1>3. ASSUME NEW h \in Hooks, CreateWebhook(h)
      PROVE  Protocol!DNext
  <2>1. Protocol!Register(h)
    BY <1>2, <1>3 DEF CreateWebhook, rowVars, slotVars, taskVars, endpointVars,
       Protocol!Register
  <2>2. QED
    BY <2>1 DEF Protocol!DNext
<1>4. ASSUME NEW h \in Hooks, DeleteWebhook(h)
      PROVE  Protocol!DNext
  <2>1. Protocol!Remove(h)
    BY <1>2, <1>4 DEF DeleteWebhook, slotVars, taskVars, endpointVars, Protocol!Remove
  <2>2. QED
    BY <2>1 DEF Protocol!DNext
<1>5. ASSUME NEW s \in Slots, Slot(s) \/ FindFails(s)
      PROVE  UNCHANGED Protocol!dvars
  <2>1. \A t \in Slots \ {s} : task'[t] = task[t] /\ msg'[t] = msg[t]
    BY <1>1, <1>5 DEF TypeOK, Slot, Deliver, FindHooks, Ack, FindFails, FreeSlot, taskVars
  <2>2. \A h \in Hooks : ~working(s, h)
    <3>1. CASE spc[s] # "deliver"
      BY <1>1, <3>1 DEF SlotInv, working
    <3>2. CASE task[s] = NoTask
      BY <3>2 DEF NoTask, working
    <3>3. QED
      BY <1>5, <3>1, <3>2 DEF Slot, Deliver, FindHooks, Ack, FindFails
  <2>3. \A h \in Hooks : ~working(s, h)'
    <3>1. CASE FindHooks(s)
      BY <1>1, <3>1 DEF FindHooks, TypeOK, working
    <3>2. CASE ~FindHooks(s)
      <4>1. task' = task
        BY <1>5, <3>2 DEF Slot, Deliver, Ack, FindFails, taskVars
      <4>2. QED
        BY <2>2, <4>1 DEF working
    <3>3. QED
      BY <3>1, <3>2
  <2>4. underWay' = underWay
    BY <2>1, <2>2, <2>3, RestingSlot
  <2>5. QED
    BY <1>5, <2>4 DEF Slot, Deliver, FindHooks, Ack, FindFails, apiVars, rowVars,
       endpointVars, Protocol!dvars
<1>6. ASSUME NEW s \in Slots, Crash(s)
      PROVE  Protocol!DNext
  <2>1. \A t \in Slots, h \in Hooks : working(t, h)' => working(t, h) /\ t # s
    BY <1>1, <1>6 DEF Crash, TypeOK, NoTask, working
  <2>2. \A t \in Slots \ {s} : msg'[t] = msg[t]
    BY <1>1, <1>6 DEF Crash, FreeSlot, TypeOK
  <2>3. underWay' \in SUBSET underWay
    BY <2>1, <2>2 DEF underWay
  <2>4. QED
    BY <1>6, <2>3 DEF Crash, apiVars, rowVars, endpointVars, Protocol!DNext,
       Protocol!Abandon
<1>7. ASSUME NEW s \in Slots, ConnectionLost(s)
      PROVE  UNCHANGED Protocol!dvars
  BY <1>2, <1>7 DEF ConnectionLost, apiVars, rowVars, taskVars, endpointVars,
     Protocol!dvars
<1>8. CASE UNCHANGED vars
  BY <1>2, <1>8 DEF vars, apiVars, rowVars, slotVars, taskVars, endpointVars,
     Protocol!dvars
<1>9. QED
  BY <1>3, <1>4, <1>5, <1>6, <1>7, <1>8, TaskDelivery DEF Next, Api, TaskStep, Fault

\* The dispatcher implements the protocol: a delivery is opened once, sent only
\* while a task works on it, and settled once, by that task.
THEOREM DeliveryImplemented == Spec => ImplementsDelivery
<1>1. IInv /\ [Next]_vars => [Protocol!DNext]_(Protocol!dvars)
  BY NextDelivery
<1>2. QED
  BY InitDelivery, Invariance, <1>1, PTL DEF Spec, ImplementsDelivery,
     Protocol!DSpec
=============================================================================
