----------------------------- MODULE LiveEvents -----------------------------
(***************************************************************************)
(* The live channel between one tab and the API: the effect that keeps a   *)
(* WebSocket while the tab is signed in (apps/web/lib/api/live.tsx) and    *)
(* the gateway that authenticates sockets (apps/api/src/ws/                *)
(* progress.gateway.ts).  Sending an event to the clients changes nothing; *)
(* what the tab does with it is Studio's subject.                          *)
(***************************************************************************)
EXTENDS Naturals, FiniteSets

CONSTANTS
    MaxSignIns, \* how often the tab is signed in
    MaxWires    \* WebSockets it opens in all

ASSUME LiveEventsAssumption == MaxSignIns \in Nat /\ MaxWires \in Nat

Effects == 1 .. MaxSignIns
Wires == 1 .. MaxWires
NoEffect == 0

VARIABLES
    authed,    \* the tab holds a session
    token,     \* its access token: "fresh" or "expired"
    effect,    \* how many times the effect ran
    effectAt,  \* each run of the effect: its `closed` flag and its retry timer
    wire,      \* each WebSocket, seen from the browser: "none", "connecting",
               \* "open" or "closed"
    owner,     \* the run of the effect that opened it
    mail,      \* what is on its way to the gateway: the token, or nothing
    auth       \* the gateway: "none", "verified" while the memberships are
               \* read, "client" for an entry of its map

liveVars == <<authed, token, effect, effectAt, wire, owner, mail, auth>>

NoEffectRun == [closed |-> TRUE, retry |-> FALSE]

LiveInit ==
    /\ authed = FALSE
    /\ token = "fresh"
    /\ effect = 0
    /\ effectAt = [e \in Effects |-> NoEffectRun]
    /\ wire = [s \in Wires |-> "none"]
    /\ owner = [s \in Wires |-> NoEffect]
    /\ mail = [s \in Wires |-> "none"]
    /\ auth = [s \in Wires |-> "none"]

browserVars == <<authed, token, effect, effectAt, owner>>
gatewayVars == <<mail, auth>>

unopened == {s \in Wires : wire[s] = "none"}

\* connect() of a run of the effect.
connects(e) ==
    \E s \in unopened :
        /\ \A r \in unopened : s <= r
        /\ wire' = [wire EXCEPT ![s] = "connecting"]
        /\ owner' = [owner EXCEPT ![s] = e]

-----------------------------------------------------------------------------
(* The tab.                                                                *)

SignsIn ==
    /\ ~authed
    /\ effect < MaxSignIns
    /\ authed' = TRUE
    /\ token' = "fresh"
    /\ effect' = effect + 1
    /\ effectAt' = [effectAt EXCEPT ![effect'] = [closed |-> FALSE, retry |-> FALSE]]
    /\ connects(effect')
    /\ UNCHANGED gatewayVars

\* Mutant: the cleanup leaves a retry timer running.
cleanupWithoutTimer(e) ==
    /\ effectAt' = [effectAt EXCEPT ![e].closed = TRUE]
    /\ wire' = [s \in Wires |-> IF owner[s] = e /\ wire[s] # "none" THEN "closed" ELSE wire[s]]

\* The cleanup of the effect: no retry, and its socket closes.
cleanup(e) ==
    /\ effectAt' = [effectAt EXCEPT ![e] = NoEffectRun]
    /\ wire' = [s \in Wires |-> IF owner[s] = e /\ wire[s] # "none" THEN "closed" ELSE wire[s]]

SignsOut ==
    /\ authed
    /\ authed' = FALSE
    /\ cleanup(effect)
    /\ UNCHANGED <<token, effect, owner, gatewayVars>>

TokenExpires ==
    /\ token' = "expired"
    /\ UNCHANGED <<authed, effect, effectAt, owner, wire, gatewayVars>>

TokenRefreshed ==
    /\ authed
    /\ token' = "fresh"
    /\ UNCHANGED <<authed, effect, effectAt, owner, wire, gatewayVars>>

\* onopen: the socket sends the token the tab has by now.
WireOpens(s) ==
    /\ wire[s] = "connecting"
    /\ wire' = [wire EXCEPT ![s] = "open"]
    /\ mail' = [mail EXCEPT ![s] = token]
    /\ UNCHANGED <<browserVars, auth>>

\* onclose, after the network or the gateway closed it: a retry unless the run
\* of its effect is over.
WireCloses(s) ==
    /\ wire[s] \in {"connecting", "open"}
    /\ wire' = [wire EXCEPT ![s] = "closed"]
    /\ effectAt' = [effectAt EXCEPT ![owner[s]].retry = @ \/ ~effectAt[owner[s]].closed]
    /\ UNCHANGED <<authed, token, effect, owner, gatewayVars>>

RetryFires(e) ==
    /\ effectAt[e].retry
    /\ effectAt' = [effectAt EXCEPT ![e].retry = FALSE]
    /\ connects(e)
    /\ UNCHANGED <<authed, token, effect, gatewayVars>>

-----------------------------------------------------------------------------
(* The gateway.                                                            *)

\* onAuth: the token is verified, then the memberships are read.
VerifySocket(s) ==
    /\ mail[s] # "none"
    /\ mail' = [mail EXCEPT ![s] = "none"]
    /\ IF mail[s] = "fresh"
       THEN auth' = [auth EXCEPT ![s] = "verified"] /\ UNCHANGED <<wire, effectAt>>
       ELSE /\ UNCHANGED auth
            /\ wire' = [wire EXCEPT ![s] = "closed"]
            /\ effectAt' = IF wire[s] = "closed" THEN effectAt
                           ELSE [effectAt EXCEPT ![owner[s]].retry = @ \/ ~effectAt[owner[s]].closed]
    /\ UNCHANGED <<authed, token, effect, owner>>

\* The client is registered, even if it disconnected meanwhile.
RegisterClient(s) ==
    /\ auth[s] = "verified"
    /\ auth' = [auth EXCEPT ![s] = "client"]
    /\ UNCHANGED <<browserVars, wire, mail>>

HandleDisconnect(s) ==
    /\ wire[s] = "closed"
    /\ auth[s] = "client"
    /\ auth' = [auth EXCEPT ![s] = "none"]
    /\ UNCHANGED <<browserVars, wire, mail>>

LiveNext ==
    \/ SignsIn \/ SignsOut \/ TokenExpires \/ TokenRefreshed
    \/ \E s \in Wires :
           \/ WireOpens(s) \/ WireCloses(s)
           \/ VerifySocket(s) \/ RegisterClient(s) \/ HandleDisconnect(s)
    \/ \E e \in Effects : RetryFires(e)

LiveSpec == LiveInit /\ [][LiveNext]_liveVars

-----------------------------------------------------------------------------
(* Properties.                                                             *)

\* A tab keeps one channel and one only while it is signed in, and none when
\* it is not: the sockets that are coming, open or due to be retried are one or
\* none, whatever closed before and in whatever order.
OneChannel ==
    LET waiting == {e \in Effects : effectAt[e].retry}
        alive == {s \in Wires : wire[s] \in {"connecting", "open"}}
    IN  Cardinality(waiting) + Cardinality(alive) = (IF authed THEN 1 ELSE 0)
=============================================================================
