-------------------------- MODULE DeliveryProtocol --------------------------
(***************************************************************************)
(* What the dispatcher promises for each webhook and event whatever fails: *)
(* the abstract machine that WebhookDispatcher implements.  A delivery is  *)
(* opened once, for a hook that is registered, is sent only while it is    *)
(* open, a bounded number of times, and is settled once: with the truth,   *)
(* and only after the last time it was sent.                               *)
(*                                                                         *)
(* It also says what is not promised.  A delivery may be abandoned (its    *)
(* worker dies, a query fails): its row then stays pending and nothing     *)
(* takes it up again.  And a hook that is deleted takes the rows with it   *)
(* but not the deliveries under way, which go on being sent.               *)
(***************************************************************************)
EXTENDS Naturals

CONSTANTS
    Hooks,    \* webhooks, by id
    Events,   \* domain events, by id
    MaxSends  \* POSTs per delivery

VARIABLES
    hook,    \* whether each hook is new, registered or deleted
    status,  \* the status its rows show, "none" where there is no row
    count,   \* the attempts its rows show
    open,    \* deliveries that are under way
    sent,    \* POSTs made for each hook and event
    taken    \* whether the endpoint ever took the event

dvars == <<hook, status, count, open, sent, taken>>

DInit ==
    /\ hook \in [Hooks -> {"new", "registered"}]
    /\ status = [h \in Hooks |-> [e \in Events |-> "none"]]
    /\ count = [h \in Hooks |-> [e \in Events |-> 0]]
    /\ open = {}
    /\ sent = [h \in Hooks |-> [e \in Events |-> 0]]
    /\ taken = [h \in Hooks |-> [e \in Events |-> FALSE]]

Register(h) ==
    /\ hook[h] = "new"
    /\ hook' = [hook EXCEPT ![h] = "registered"]
    /\ UNCHANGED <<status, count, open, sent, taken>>

Remove(h) ==
    /\ hook[h] = "registered"
    /\ hook' = [hook EXCEPT ![h] = "deleted"]
    /\ status' = [status EXCEPT ![h] = [e \in Events |-> "none"]]
    /\ UNCHANGED <<count, open, sent, taken>>

Open(h, e) ==
    /\ hook[h] = "registered"
    /\ status[h][e] = "none"
    /\ sent[h][e] = 0
    /\ <<h, e>> \notin open
    /\ status' = [status EXCEPT ![h][e] = "pending"]
    /\ open' = open \cup {<<h, e>>}
    /\ UNCHANGED <<hook, count, sent, taken>>

Send(h, e) ==
    /\ <<h, e>> \in open
    /\ status[h][e] = "pending" \/ hook[h] = "deleted"
    /\ sent[h][e] < MaxSends
    /\ sent' = [sent EXCEPT ![h][e] = @ + 1]
    /\ \E took \in BOOLEAN : taken' = [taken EXCEPT ![h][e] = @ \/ took]
    /\ UNCHANGED <<hook, status, count, open>>

\* The endpoint took it, or it was tried to the end, or it could not be signed.
Settle(h, e) ==
    /\ <<h, e>> \in open
    /\ status[h][e] = "pending"
    /\ \/ /\ taken[h][e]
          /\ status' = [status EXCEPT ![h][e] = "delivered"]
       \/ /\ sent[h][e] \in {0, MaxSends}
          /\ status' = [status EXCEPT ![h][e] = "failed"]
    /\ count' = [count EXCEPT ![h][e] = sent[h][e]]
    /\ open' = open \ {<<h, e>>}
    /\ UNCHANGED <<hook, sent, taken>>

\* Deliveries of which nothing more comes.
Abandon ==
    /\ open' \in SUBSET open
    /\ UNCHANGED <<hook, status, count, sent, taken>>

DNext ==
    \/ \E h \in Hooks : Register(h) \/ Remove(h)
    \/ \E h \in Hooks, e \in Events : Open(h, e) \/ Send(h, e) \/ Settle(h, e)
    \/ Abandon

DSpec == DInit /\ [][DNext]_dvars
=============================================================================
