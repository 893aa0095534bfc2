--------------------------- MODULE EventBusProofs ---------------------------
(***************************************************************************)
(* Theorems about the buses and the outbox, for any subscriptions,         *)
(* connections, relays, refusals and attempts.                             *)
(***************************************************************************)
EXTENDS EventBus, Outbox, SequenceTheorems, FiniteSetTheorems,
        WellFoundedInduction, TLAPS

-----------------------------------------------------------------------------
(* EventBus.  Several calls of connect may be under way and overwrite each *)
(* other's connection and channel.  What keeps the bus whole is that       *)
(* whoever takes something away leaves a call of connect behind, and that  *)
(* such a call ends only when it went through every subscription, gave up  *)
(* for good, or left another one in its place.                             *)

Task == [at : {"connect", "topology", "resume", "subscribe"}, for : Sockets \cup {NoSocket},
         attempt : Nat, on : Sockets \cup {NoSocket}, seen : Nat]

BusTypeOK ==
    /\ socket \in [Sockets -> {"none", "open", "closed"}]
    /\ consumers \in [Sockets -> SUBSET Specs]
    /\ connection \in Sockets \cup {NoSocket}
    /\ publishChannel \in Sockets \cup {NoSocket}
    /\ subscriptions \subseteq Specs
    /\ tasks \subseteq Task
    /\ \A t \in tasks : /\ t.at \in {"connect", "topology"} => t.seen = 0
                        /\ t.at = "topology" => t.on # NoSocket
                        /\ t.at = "subscribe" => t.seen \in Specs
    /\ exhausted \in BOOLEAN /\ closing \in BOOLEAN

reconnecting == {t \in tasks : t.at \in {"connect", "topology"}}

\* A connection that is not open is being made up for.
ConnectionInv ==
    isOpen(connection) \/ \E t \in tasks : t.at = "connect"

\* So is a channel that was taken away.
ChannelInv == isOpen(publishChannel) \/ reconnecting # {}

\* A subscription is consumed, or somebody will come by it.
ConsumerInv ==
    \A s \in subscriptions :
        \/ \E c \in Sockets : socket[c] = "open" /\ s \in consumers[c]
        \/ reconnecting # {}
        \/ \E t \in tasks : \/ t.at = "resume" /\ t.seen < s
                            \/ t.at = "subscribe" /\ t.seen = s

BusInv ==
    /\ BusTypeOK
    /\ ~closing /\ ~exhausted => ConnectionInv /\ ChannelInv /\ ConsumerInv

-----------------------------------------------------------------------------
(* Steps.                                                                  *)

\* A task goes on as a call of connect that starts anew, or nothing goes on
\* any more, or it was a subscribe whose connection is being made up for.
LEMMA ReconnectKeeps ==
    ASSUME BusInv, NEW t \in tasks, reconnect(t),
           t.at = "subscribe" => ~isOpen(connection),
           UNCHANGED <<socket, consumers, connection, publishChannel, subscriptions, closing>>
    PROVE  BusInv'
<1> USE EventBusAssumption
<1>1. BusTypeOK'
    <2>1. CASE t.at # "subscribe" /\ t.attempt \in 1 .. maxAttempts - 1
        <3>1. /\ Connecting(t.for, t.attempt + 1) \in Task
              /\ Connecting(t.for, t.attempt + 1).seen = 0
              /\ Connecting(t.for, t.attempt + 1).at = "connect"
            BY DEF BusInv, BusTypeOK, Task, Connecting, NoSocket
        <3> QED
            BY <2>1, <3>1 DEF reconnect, goOn, BusInv, BusTypeOK
    <2>2. CASE ~(t.at # "subscribe" /\ t.attempt \in 1 .. maxAttempts - 1)
        BY <2>2 DEF reconnect, BusInv, BusTypeOK
    <2> QED
        BY <2>1, <2>2
<1>2. ASSUME ~closing', ~exhausted' PROVE (ConnectionInv /\ ChannelInv /\ ConsumerInv)'
    <2>1. ~closing /\ ~exhausted
        BY <1>2 DEF reconnect, BusInv, BusTypeOK
    <2>2. \E u \in tasks' : u.at = "connect"
        <3>1. CASE t.at # "subscribe" /\ t.attempt \in 1 .. maxAttempts - 1
            <4>1. Connecting(t.for, t.attempt + 1) \in tasks'
                BY <3>1 DEF reconnect, goOn
            <4> QED
                BY <4>1 DEF Connecting
        <3>2. CASE t.at = "subscribe"
            BY <2>1, <3>2 DEF reconnect, BusInv, ConnectionInv
        <3>3. CASE t.at # "subscribe" /\ t.attempt \notin 1 .. maxAttempts - 1
            BY <1>2, <3>3 DEF reconnect
        <3> QED
            BY <3>1, <3>2, <3>3
    <2> QED
        BY <2>2 DEF ConnectionInv, ChannelInv, ConsumerInv, reconnecting
<1> QED
    BY <1>1, <1>2 DEF BusInv

LEMMA OpenStep ==
    ASSUME BusInv, NEW t \in tasks, OpenConnection(t)
    PROVE  BusInv'
<1> USE EventBusAssumption
<1>1. PICK c \in Sockets :
          /\ socket[c] = "none" /\ socket' = [socket EXCEPT ![c] = "open"]
          /\ connection' = c
          /\ tasks' = (tasks \ {t}) \cup {[t EXCEPT !.at = "topology", !.on = c]}
    BY DEF OpenConnection, goOn
<1>2. /\ t.at = "connect"
      /\ UNCHANGED <<consumers, publishChannel, subscriptions, exhausted, closing>>
    BY DEF OpenConnection
<1>3. c # NoSocket
    BY DEF Sockets, NoSocket
<1> DEFINE u == [t EXCEPT !.at = "topology", !.on = c]
<1>4. u \in Task /\ u.seen = 0 /\ u.at = "topology" /\ u.on = c
    BY <1>2 DEF BusInv, BusTypeOK, Task
<1>5. BusTypeOK'
    BY <1>1, <1>2, <1>3, <1>4 DEF BusInv, BusTypeOK
<1>6. ConnectionInv'
    BY <1>1, <1>3 DEF ConnectionInv, isOpen, BusInv, BusTypeOK
<1>7. reconnecting' # {}
    BY <1>1, <1>4 DEF reconnecting
<1> QED
    BY <1>5, <1>6, <1>7 DEF BusInv, ChannelInv, ConsumerInv

LEMMA TopologyStep ==
    ASSUME BusInv, NEW t \in tasks, AssertTopology(t)
    PROVE  BusInv'
<1> USE EventBusAssumption
<1>1. /\ t.at = "topology"
      /\ UNCHANGED <<socket, consumers, connection, subscriptions, closing>>
    BY DEF AssertTopology
<1>2. CASE isOpen(t.on)
    <2> DEFINE u == [t EXCEPT !.at = "resume"]
    <2>1. /\ publishChannel' = t.on /\ UNCHANGED exhausted
          /\ tasks' = (tasks \ {t}) \cup {u}
        BY <1>2 DEF AssertTopology, goOn
    <2>2. u \in Task /\ u.at = "resume" /\ u.seen = 0
        BY <1>1 DEF BusInv, BusTypeOK, Task
    <2>3. BusTypeOK'
        BY <1>1, <2>1, <2>2 DEF BusInv, BusTypeOK, Task
    <2>4. ASSUME ~closing', ~exhausted' PROVE (ConnectionInv /\ ChannelInv /\ ConsumerInv)'
        <3>1. ConnectionInv'
            BY <1>1, <2>1, <2>4 DEF BusInv, ConnectionInv, isOpen
        <3>2. ChannelInv'
            BY <1>1, <1>2, <2>1 DEF ChannelInv, isOpen
        <3>3. \A s \in subscriptions' : s > u.seen
            BY <1>1, <2>2 DEF BusInv, BusTypeOK
        <3>4. ConsumerInv'
            BY <2>1, <2>2, <3>3 DEF ConsumerInv
        <3> QED
            BY <3>1, <3>2, <3>4
    <2> QED
        BY <2>3, <2>4 DEF BusInv
<1>3. CASE ~isOpen(t.on)
    BY <1>1, <1>3, ReconnectKeeps DEF AssertTopology
<1> QED
    BY <1>2, <1>3

\* A consumer starts on the bus's connection.
LEMMA ConsumerStarts ==
    ASSUME BusInv, connection # NoSocket, isOpen(connection), NEW s \in Specs,
           consumers' = [c \in Sockets |-> IF c = connection THEN consumers[c] \cup {s}
                                          ELSE consumers[c]],
           UNCHANGED socket
    PROVE  /\ consumers' \in [Sockets -> SUBSET Specs]
           /\ \E c \in Sockets : socket'[c] = "open" /\ s \in consumers'[c]
           /\ \A c \in Sockets : consumers[c] \subseteq consumers'[c]
BY DEF BusInv, BusTypeOK, isOpen

\* A call of connect goes on to the next subscription, or is done with them.
LEMMA ResumeStep ==
    ASSUME BusInv, NEW t \in tasks, ResumeSubscription(t)
    PROVE  BusInv'
<1> USE EventBusAssumption
<1> DEFINE left == {s \in subscriptions : s > t.seen}
<1>1. /\ t.at = "resume"
      /\ UNCHANGED <<socket, connection, publishChannel, subscriptions, closing>>
    BY DEF ResumeSubscription
<1>2. CASE left = {} /\ tasks' = tasks \ {t} /\ UNCHANGED <<consumers, exhausted>>
    <2>1. BusTypeOK'
        BY <1>1, <1>2 DEF BusInv, BusTypeOK
    <2>2. reconnecting' = reconnecting /\ \A u \in tasks : u.at = "connect" => u \in tasks'
        BY <1>1, <1>2 DEF reconnecting
    <2>3. \A s \in subscriptions : ~(s > t.seen)
        BY <1>2
    <2>4. \A s \in subscriptions : ~(t.seen < s)
        BY <2>3 DEF BusInv, BusTypeOK, Task
    <2>5. (ConnectionInv => ConnectionInv') /\ (ChannelInv => ChannelInv')
        BY <1>1, <2>2 DEF ConnectionInv, ChannelInv, isOpen
    <2>6. ConsumerInv => ConsumerInv'
        BY <1>1, <1>2, <2>2, <2>4 DEF ConsumerInv
    <2> QED
        BY <1>1, <1>2, <2>1, <2>5, <2>6 DEF BusInv
<1>3. ASSUME NEW s \in left, \A r \in left : s <= r,
             startConsumer(t, s, goOn(t, [t EXCEPT !.seen = s]))
      PROVE  BusInv'
    <2>0. s \in Specs /\ s \in Nat /\ t.seen \in Nat
        BY DEF BusInv, BusTypeOK, Task
    <2> DEFINE u == [t EXCEPT !.seen = s]
    <2>1. u \in Task /\ u.at = "resume" /\ u.seen = s
        BY <1>1, <2>0 DEF BusInv, BusTypeOK, Task
    <2>2. CASE connection = NoSocket \/ isOpen(connection)
        <3>1. /\ consumers' = [c \in Sockets |-> IF c = connection THEN consumers[c] \cup {s}
                                                 ELSE consumers[c]]
              /\ tasks' = (tasks \ {t}) \cup {u}
              /\ UNCHANGED exhausted
            BY <1>3, <2>2 DEF startConsumer, goOn
        <3>2. BusTypeOK'
            BY <1>1, <2>0, <2>1, <3>1 DEF BusInv, BusTypeOK
        <3>3. reconnecting' = reconnecting /\ \A v \in tasks : v.at = "connect" => v \in tasks'
            BY <1>1, <2>1, <3>1 DEF reconnecting
        <3>4. ASSUME ~closing, ~exhausted PROVE (ConnectionInv /\ ChannelInv /\ ConsumerInv)'
            <4>1. ConnectionInv' /\ ChannelInv'
                BY <1>1, <3>3, <3>4 DEF BusInv, ConnectionInv, ChannelInv, isOpen
            <4>2. CASE reconnecting # {}
                BY <3>3, <4>1, <4>2 DEF ConsumerInv
            <4>3. CASE reconnecting = {}
                <5>1. isOpen(connection) /\ connection # NoSocket
                    BY <3>4, <4>3 DEF BusInv, ConnectionInv, reconnecting, isOpen
                <5>2. /\ \E c \in Sockets : socket'[c] = "open" /\ s \in consumers'[c]
                      /\ \A c \in Sockets : consumers[c] \subseteq consumers'[c]
                    BY <1>1, <2>0, <3>1, <5>1, ConsumerStarts
                <5>3. ASSUME NEW r \in subscriptions PROVE
                         \/ \E c \in Sockets : socket'[c] = "open" /\ r \in consumers'[c]
                         \/ \E v \in tasks' : \/ v.at = "resume" /\ v.seen < r
                                              \/ v.at = "subscribe" /\ v.seen = r
                    <6>1. r \in Nat /\ (r > t.seen => s <= r)
                        BY <1>3 DEF BusInv, BusTypeOK
                    <6>2. CASE r = s
                        BY <5>2, <6>2
                    <6>3. CASE r # s /\ r > t.seen
                        <7>1. u \in tasks'
                            BY <3>1
                        <7>2. s < r
                            BY <2>0, <6>1, <6>3
                        <7> HIDE DEF u
                        <7> QED
                            BY <2>1, <7>1, <7>2
                    <6>4. CASE ~(r > t.seen)
                        <7>0. ConsumerInv
                            BY <3>4 DEF BusInv
                        <7>1. \/ \E c \in Sockets : socket[c] = "open" /\ r \in consumers[c]
                              \/ \E v \in tasks : \/ v.at = "resume" /\ v.seen < r
                                                  \/ v.at = "subscribe" /\ v.seen = r
                            BY <4>3, <7>0 DEF ConsumerInv
                        <7>2. ~(t.seen < r) /\ t.at # "subscribe"
                            BY <1>1, <2>0, <6>1, <6>4
                        <7> QED
                            BY <1>1, <3>1, <5>2, <7>1, <7>2
                    <6> QED
                        BY <6>2, <6>3, <6>4
                <5> QED
                    BY <1>1, <4>1, <5>3 DEF ConsumerInv
            <4> QED
                BY <4>2, <4>3
        <3> QED
            BY <1>1, <3>1, <3>2, <3>4 DEF BusInv
    <2>3. CASE ~(connection = NoSocket \/ isOpen(connection))
        BY <1>1, <1>3, <2>3, ReconnectKeeps DEF startConsumer
    <2> QED
        BY <2>2, <2>3
<1> QED
    BY <1>2, <1>3 DEF ResumeSubscription

\* The consumer of a new subscription starts, unless the connection is lost.
LEMMA SubscribedStep ==
    ASSUME BusInv, NEW t \in tasks, StartSubscribed(t)
    PROVE  BusInv'
<1> USE EventBusAssumption
<1>1. /\ t.at = "subscribe" /\ startConsumer(t, t.seen, tasks' = tasks \ {t})
      /\ UNCHANGED <<socket, connection, publishChannel, subscriptions, closing>>
    BY DEF StartSubscribed
<1>2. CASE connection = NoSocket \/ isOpen(connection)
    <2>1. /\ consumers' = [c \in Sockets |-> IF c = connection THEN consumers[c] \cup {t.seen}
                                             ELSE consumers[c]]
          /\ tasks' = tasks \ {t}
          /\ UNCHANGED exhausted
        BY <1>1, <1>2 DEF startConsumer
    <2>2. reconnecting' = reconnecting /\ \A v \in tasks : v.at = "connect" => v \in tasks'
        BY <1>1, <2>1 DEF reconnecting
    <2>3. BusTypeOK'
        BY <1>1, <2>1 DEF BusInv, BusTypeOK
    <2>4. ASSUME ~closing, ~exhausted PROVE (ConnectionInv /\ ChannelInv /\ ConsumerInv)'
        <3>1. ConnectionInv' /\ ChannelInv'
            BY <1>1, <2>2, <2>4 DEF BusInv, ConnectionInv, ChannelInv, isOpen
        <3>2. CASE reconnecting # {}
            BY <2>2, <3>1, <3>2 DEF ConsumerInv
        <3>3. CASE reconnecting = {}
            <4>1. isOpen(connection) /\ connection # NoSocket
                BY <2>4, <3>3 DEF BusInv, ConnectionInv, reconnecting, isOpen
            <4>2. /\ \E c \in Sockets : socket'[c] = "open" /\ t.seen \in consumers'[c]
                  /\ \A c \in Sockets : consumers[c] \subseteq consumers'[c]
                <5>1. t.seen \in Specs
                    BY <1>1 DEF BusInv, BusTypeOK
                <5> QED
                    BY <1>1, <2>1, <4>1, <5>1, ConsumerStarts
            <4>3. ConsumerInv
                BY <2>4 DEF BusInv
            <4> QED
                BY <1>1, <2>1, <3>1, <3>3, <4>2, <4>3 DEF ConsumerInv
        <3> QED
            BY <3>2, <3>3
    <2> QED
        BY <1>1, <2>1, <2>3, <2>4 DEF BusInv
<1>3. CASE ~(connection = NoSocket \/ isOpen(connection))
    BY <1>1, <1>3, ReconnectKeeps DEF startConsumer
<1> QED
    BY <1>2, <1>3

\* subscribe finds a connection, or the first connect comes by it.
LEMMA SubscribeStep ==
    ASSUME BusInv, NEW s \in Specs, Subscribe(s)
    PROVE  BusInv'
<1> USE EventBusAssumption
<1>1. /\ subscriptions' = subscriptions \cup {s}
      /\ tasks' = IF connection = NoSocket THEN tasks ELSE tasks \cup {Subscribing(s)}
      /\ UNCHANGED <<socket, consumers, connection, publishChannel, exhausted, closing>>
    BY DEF Subscribe
<1>2. /\ Subscribing(s) \in Task
      /\ Subscribing(s).at = "subscribe" /\ Subscribing(s).seen = s
    BY DEF Subscribing, Task, NoSocket
<1>3. BusTypeOK'
    BY <1>1, <1>2 DEF BusInv, BusTypeOK
<1>4. ASSUME ~closing, ~exhausted PROVE (ConnectionInv /\ ChannelInv /\ ConsumerInv)'
    <2>1. reconnecting \subseteq reconnecting' /\ tasks \subseteq tasks'
        BY <1>1 DEF reconnecting
    <2>2. ConnectionInv' /\ ChannelInv'
        BY <1>1, <1>4, <2>1 DEF BusInv, ConnectionInv, ChannelInv, isOpen
    <2>3. CASE connection = NoSocket
        <3>1. reconnecting # {}
            BY <1>4, <2>3 DEF BusInv, ConnectionInv, reconnecting, isOpen
        <3> QED
            BY <2>1, <2>2, <3>1 DEF ConsumerInv
    <2>4. CASE connection # NoSocket
        <3>1. Subscribing(s) \in tasks'
            BY <1>1, <2>4
        <3>2. ConsumerInv
            BY <1>4 DEF BusInv
        <3> QED
            BY <1>1, <1>2, <2>1, <2>2, <3>1, <3>2 DEF ConsumerInv
    <2> QED
        BY <2>3, <2>4
<1> QED
    BY <1>1, <1>3, <1>4 DEF BusInv

\* Whichever connection is lost, a call of connect makes up for it.
LEMMA LostStep ==
    ASSUME BusInv, NEW c \in Sockets, ConnectionLost(c)
    PROVE  BusInv'
<1> USE EventBusAssumption
<1>1. /\ socket' = [socket EXCEPT ![c] = "closed"]
      /\ consumers' = [consumers EXCEPT ![c] = {}]
      /\ publishChannel' = NoSocket
      /\ tasks' = IF closing THEN tasks ELSE tasks \cup {Connecting(c, 1)}
      /\ UNCHANGED <<connection, subscriptions, exhausted, closing>>
    BY DEF ConnectionLost
<1>2. /\ Connecting(c, 1) \in Task
      /\ Connecting(c, 1).at = "connect" /\ Connecting(c, 1).seen = 0
    BY DEF Connecting, Task, NoSocket
<1>3. BusTypeOK'
    BY <1>1, <1>2 DEF BusInv, BusTypeOK
<1>4. ASSUME ~closing PROVE (ConnectionInv /\ ChannelInv /\ ConsumerInv)'
    <2>1. Connecting(c, 1) \in tasks'
        BY <1>1, <1>4
    <2> QED
        BY <1>2, <2>1 DEF ConnectionInv, ChannelInv, ConsumerInv, reconnecting
<1> QED
    BY <1>1, <1>3, <1>4 DEF BusInv

\* After close nothing is promised.
LEMMA CloseStep ==
    ASSUME BusInv, Close
    PROVE  BusInv'
<1>1. CASE isOpen(connection)
    BY <1>1 DEF Close, BusInv, BusTypeOK
<1>2. CASE ~isOpen(connection)
    BY <1>2 DEF Close, BusInv, BusTypeOK
<1> QED
    BY <1>1, <1>2

-----------------------------------------------------------------------------
(* Theorems.                                                               *)

\* The invariant holds in every reachable state.
THEOREM BusInvariance == BusSpec => []BusInv
<1>1. BusInit => BusInv
    <2> SUFFICES ASSUME BusInit PROVE BusInv
        OBVIOUS
    <2>1. /\ Connecting(NoSocket, 0) \in Task
          /\ Connecting(NoSocket, 0).at = "connect" /\ Connecting(NoSocket, 0).seen = 0
        BY DEF Connecting, Task, NoSocket
    <2>2. BusTypeOK
        BY <2>1 DEF BusInit, BusTypeOK
    <2>3. ConnectionInv /\ ChannelInv /\ ConsumerInv
        BY <2>1 DEF BusInit, ConnectionInv, ChannelInv, ConsumerInv, reconnecting
    <2> QED
        BY <2>2, <2>3 DEF BusInv
<1>2. BusInv /\ [BusNext]_busVars => BusInv'
    <2> SUFFICES ASSUME BusInv, [BusNext]_busVars PROVE BusInv'
        OBVIOUS
    <2>1. ASSUME NEW t \in tasks, OpenConnection(t) PROVE BusInv'
        BY <2>1, OpenStep
    <2>2. ASSUME NEW t \in tasks, ConnectionRefused(t) PROVE BusInv'
        BY <2>2, ReconnectKeeps DEF ConnectionRefused
    <2>3. ASSUME NEW t \in tasks, AssertTopology(t) PROVE BusInv'
        BY <2>3, TopologyStep
    <2>4. ASSUME NEW t \in tasks, ResumeSubscription(t) PROVE BusInv'
        BY <2>4, ResumeStep
    <2>5. ASSUME NEW t \in tasks, StartSubscribed(t) PROVE BusInv'
        BY <2>5, SubscribedStep
    <2>6. ASSUME NEW s \in Specs, Subscribe(s) PROVE BusInv'
        BY <2>6, SubscribeStep
    <2>7. ASSUME NEW c \in Sockets, ConnectionLost(c) PROVE BusInv'
        BY <2>7, LostStep
    <2>8. CASE Close
        BY <2>8, CloseStep
    <2>9. CASE UNCHANGED busVars
        BY <2>9 DEF busVars, BusInv, BusTypeOK, ConnectionInv, ChannelInv, ConsumerInv,
               reconnecting, isOpen
    <2> QED
        BY <2>1, <2>2, <2>3, <2>4, <2>5, <2>6, <2>7, <2>8, <2>9 DEF BusNext
<1> QED
    BY <1>1, <1>2, PTL DEF BusSpec

\* connect, its reconnections and subscribe: when all of them are done the bus
\* publishes and consumes, however often connections were lost or refused and
\* however many attempts were under way at once.
THEOREM BusIsWholeHolds == BusSpec => []BusIsWhole
<1>1. BusInv => BusIsWhole
    BY DEF BusInv, ConnectionInv, ChannelInv, ConsumerInv, reconnecting, BusIsWhole
<1> QED
    BY <1>1, BusInvariance, PTL

-----------------------------------------------------------------------------
(* Outbox.  The recursive function of matchTopic solves an equation that   *)
(* "the name can be cut as the pattern says" solves, and nothing else.     *)

\* Every nonempty set of numbers has a least one.
LEMMA LeastNumber ==
    ASSUME NEW T, T \subseteq Nat, T # {}
    PROVE  \E m \in T : \A k \in T : m <= k
<1> DEFINE below(n) == 1 .. n
           R == StrictSubsetOrdering(Nat)
           B == {below(n) : n \in T}
<1>1. ASSUME NEW n \in T
      PROVE  below(n) \in FiniteSubsetsOf(Nat)
  <2>1. IsFiniteSet(1 .. n)
    BY FS_Interval
  <2>2. QED
    BY <2>1 DEF FiniteSubsetsOf
<1>2. PICK b \in B : \A c \in B : ~(<<c, b>> \in R)
  <2>1. IsWellFoundedOn(R, FiniteSubsetsOf(Nat))
    BY FS_StrictSubsetOrderingWellFounded
  <2>2. B \subseteq FiniteSubsetsOf(Nat) /\ B # {}
    BY <1>1
  <2>3. QED
    BY <2>1, <2>2, WFMin, Zenon
<1>3. PICK m \in T : b = below(m)
  BY <1>2
<1>4. ASSUME NEW k \in T, ~(m <= k)
      PROVE  FALSE
  <2>1. below(k) \subseteq below(m) /\ m \in below(m) /\ m \notin below(k)
    BY <1>4
  <2>2. <<below(k), b>> \in R
    BY <1>3, <2>1 DEF StrictSubsetOrdering
  <2>3. QED
    BY <1>2, <2>2
<1>5. QED
  BY <1>4

\* What the pattern from its p-th word on stands for, of the name from its k-th
\* word on.
step(pattern, key, cut, q) ==
    IF pattern[q] = "#" THEN cut[q - 1] <= cut[q]
    ELSE /\ cut[q] = cut[q - 1] + 1
         /\ pattern[q] \in {"*", key[cut[q]]}

coversFrom(pattern, key, p, k) ==
    \E cut \in [p - 1 .. Len(pattern) -> 0 .. Len(key)] :
        /\ cut[p - 1] = k - 1 /\ cut[Len(pattern)] = Len(key)
        /\ \A q \in p .. Len(pattern) : step(pattern, key, cut, q)

\* At the end of the pattern the name must be at its end.
LEMMA CoversNothing ==
    ASSUME NEW pattern, NEW key, NEW m \in Nat, NEW n \in Nat, m = Len(pattern), n = Len(key),
           NEW k \in 1 .. n + 1
    PROVE  coversFrom(pattern, key, m + 1, k) <=> k > n
<1>1. ASSUME coversFrom(pattern, key, m + 1, k)
      PROVE  k > n
  BY <1>1 DEF coversFrom
<1>2. ASSUME k > n
      PROVE  coversFrom(pattern, key, m + 1, k)
  <2> DEFINE cut == [q \in m .. m |-> n]
  <2>1. /\ cut \in [m .. m -> 0 .. n] /\ cut[m] = n /\ k - 1 = n
        /\ m + 1 - 1 = m /\ m + 1 .. m = {}
    BY <1>2
  <2> HIDE DEF cut
  <2>2. QED
    BY <2>1 DEF coversFrom
<1>3. QED
  BY <1>1, <1>2

\* A cut is one step and a cut of what follows.
LEMMA CutOnce ==
    ASSUME NEW pattern, NEW key, NEW m \in Nat, NEW n \in Nat, m = Len(pattern), n = Len(key),
           NEW p \in 1 .. m, NEW k \in 1 .. n + 1
    PROVE  coversFrom(pattern, key, p, k) <=>
               \E l \in 0 .. n :
                   /\ coversFrom(pattern, key, p + 1, l + 1)
                   /\ IF pattern[p] = "#" THEN k - 1 <= l
                      ELSE l = k /\ pattern[p] \in {"*", key[k]}
<1>1. ASSUME coversFrom(pattern, key, p, k)
      PROVE  \E l \in 0 .. n :
                 /\ coversFrom(pattern, key, p + 1, l + 1)
                 /\ IF pattern[p] = "#" THEN k - 1 <= l
                    ELSE l = k /\ pattern[p] \in {"*", key[k]}
  <2>1. PICK cut \in [p - 1 .. m -> 0 .. n] :
            /\ cut[p - 1] = k - 1 /\ cut[m] = n
            /\ \A q \in p .. m : step(pattern, key, cut, q)
    BY <1>1 DEF coversFrom
  <2> DEFINE rest == [q \in p .. m |-> cut[q]]
  <2>2. rest \in [p .. m -> 0 .. n] /\ rest[p] = cut[p] /\ rest[m] = n /\ cut[p] \in 0 .. n
    BY <2>1
  <2>3. \A q \in p + 1 .. m : step(pattern, key, rest, q)
    BY <2>1 DEF step
  <2> HIDE DEF rest
  <2>4. coversFrom(pattern, key, p + 1, cut[p] + 1)
    <3>1. p + 1 - 1 = p /\ cut[p] + 1 - 1 = cut[p]
      BY <2>2
    <3>2. QED
      BY <2>2, <2>3, <3>1 DEF coversFrom
  <2>5. step(pattern, key, cut, p)
    BY <2>1
  <2>6. IF pattern[p] = "#" THEN k - 1 <= cut[p]
        ELSE cut[p] = k /\ pattern[p] \in {"*", key[k]}
    BY <2>1, <2>5 DEF step
  <2>7. QED
    BY <2>2, <2>4, <2>6
<1>2. ASSUME NEW l \in 0 .. n, coversFrom(pattern, key, p + 1, l + 1),
             IF pattern[p] = "#" THEN k - 1 <= l
             ELSE l = k /\ pattern[p] \in {"*", key[k]}
      PROVE  coversFrom(pattern, key, p, k)
  <2>1. p + 1 - 1 = p /\ l + 1 - 1 = l
    OBVIOUS
  <2>2. PICK rest \in [p .. m -> 0 .. n] :
            /\ rest[p] = l /\ rest[m] = n
            /\ \A q \in p + 1 .. m : step(pattern, key, rest, q)
    BY <1>2, <2>1 DEF coversFrom
  <2> DEFINE cut == [q \in p - 1 .. m |-> IF q = p - 1 THEN k - 1 ELSE rest[q]]
  <2>3. /\ cut \in [p - 1 .. m -> 0 .. n] /\ cut[p - 1] = k - 1 /\ cut[m] = n
        /\ \A q \in p .. m : cut[q] = rest[q]
    BY <2>2
  <2> HIDE DEF cut
  <2>4. ASSUME NEW q \in p + 1 .. m
        PROVE  step(pattern, key, cut, q)
    <3>1. cut[q] = rest[q] /\ cut[q - 1] = rest[q - 1]
      BY <2>3
    <3>2. QED
      BY <2>2, <3>1 DEF step
  <2>5. step(pattern, key, cut, p)
    BY <1>2, <2>2, <2>3 DEF step
  <2>6. \A q \in p .. m : step(pattern, key, cut, q)
    BY <2>4, <2>5
  <2>7. QED
    BY <2>3, <2>6 DEF coversFrom
<1>3. QED
  BY <1>1, <1>2

\* The equation that matchTopic's function solves.
matched(pattern, key, f, p, k) ==
    IF p > Len(pattern) THEN k > Len(key)
    ELSE IF pattern[p] = "#"
    THEN f[<<p + 1, k>>] \/ (k <= Len(key) /\ f[<<p, k + 1>>])
    ELSE k <= Len(key) /\ pattern[p] \in {"*", key[k]} /\ f[<<p + 1, k + 1>>]

solves(pattern, key, f) ==
    f = [at \in (1 .. Len(pattern) + 1) \X (1 .. Len(key) + 1) |->
            matched(pattern, key, f, at[1], at[2])]

LEMMA MatchSolves ==
    ASSUME NEW pattern, NEW key, NEW g, solves(pattern, key, g)
    PROVE  \E f : solves(pattern, key, f) /\ matchTopic(pattern, key) = f[<<1, 1>>]
<1> DEFINE h == CHOOSE f : solves(pattern, key, f)
<1>1. solves(pattern, key, h)
  <2>1. \E f : solves(pattern, key, f)
    OBVIOUS
  <2>2. QED
    BY <2>1, Zenon
<1>2. matchTopic(pattern, key) = h[<<1, 1>>]
  BY SMT DEF matchTopic, solves, matched
<1>3. QED
  BY <1>1, <1>2

\* What covers from a place on, covers from the next places on.
LEMMA CoversStep ==
    ASSUME NEW pattern, NEW key, Len(pattern) \in Nat, Len(key) \in Nat,
           NEW p \in 1 .. Len(pattern) + 1, NEW k \in 1 .. Len(key) + 1
    PROVE  /\ p > Len(pattern) => (coversFrom(pattern, key, p, k) <=> k > Len(key))
           /\ p <= Len(pattern) /\ pattern[p] = "#" =>
                  (coversFrom(pattern, key, p, k) <=>
                       \/ coversFrom(pattern, key, p + 1, k)
                       \/ k <= Len(key) /\ coversFrom(pattern, key, p, k + 1))
           /\ p <= Len(pattern) /\ pattern[p] # "#" =>
                  (coversFrom(pattern, key, p, k) <=>
                       /\ k <= Len(key) /\ pattern[p] \in {"*", key[k]}
                       /\ coversFrom(pattern, key, p + 1, k + 1))
<1> DEFINE m == Len(pattern)
           n == Len(key)
<1> SUFFICES ASSUME p <= m
             PROVE  /\ pattern[p] = "#" =>
                           (coversFrom(pattern, key, p, k) <=>
                                \/ coversFrom(pattern, key, p + 1, k)
                                \/ k <= n /\ coversFrom(pattern, key, p, k + 1))
                    /\ pattern[p] # "#" =>
                           (coversFrom(pattern, key, p, k) <=>
                                /\ k <= n /\ pattern[p] \in {"*", key[k]}
                                /\ coversFrom(pattern, key, p + 1, k + 1))
  BY CoversNothing
<1>1. \A i \in 1 .. n + 1 :
          coversFrom(pattern, key, p, i) <=>
              \E l \in 0 .. n :
                  /\ coversFrom(pattern, key, p + 1, l + 1)
                  /\ IF pattern[p] = "#" THEN i - 1 <= l
                     ELSE l = i /\ pattern[p] \in {"*", key[i]}
  <2>1. ASSUME NEW i \in 1 .. n + 1
        PROVE  coversFrom(pattern, key, p, i) <=>
                   \E l \in 0 .. n :
                       /\ coversFrom(pattern, key, p + 1, l + 1)
                       /\ IF pattern[p] = "#" THEN i - 1 <= l
                          ELSE l = i /\ pattern[p] \in {"*", key[i]}
    <3>1. m \in Nat /\ n \in Nat /\ p \in 1 .. m
      OBVIOUS
    <3>2. QED
      BY <3>1, CutOnce, Zenon
  <2>2. QED
    BY <2>1
<1> DEFINE rest(l) == coversFrom(pattern, key, p + 1, l + 1)
           this(i) == coversFrom(pattern, key, p, i)
<1>2. rest(k - 1) <=> coversFrom(pattern, key, p + 1, k)
  <2>1. k - 1 + 1 = k
    OBVIOUS
  <2>2. QED
    BY <2>1
<1>3. ASSUME pattern[p] = "#"
      PROVE  this(k) <=> rest(k - 1) \/ (k <= n /\ this(k + 1))
  <2>1. \A i \in 1 .. n + 1 : this(i) <=> \E l \in 0 .. n : rest(l) /\ i - 1 <= l
    BY <1>1, <1>3
  <2>2. this(k) <=> \E l \in 0 .. n : rest(l) /\ k - 1 <= l
    BY <2>1
  <2>3. k <= n => (this(k + 1) <=> \E l \in 0 .. n : rest(l) /\ k <= l)
    <3>1. k <= n => k + 1 \in 1 .. n + 1 /\ k + 1 - 1 = k
      OBVIOUS
    <3>2. QED
      BY <2>1, <3>1
  <2>4. k - 1 \in 0 .. n /\ \A l \in 0 .. n : k - 1 <= l <=> l = k - 1 \/ (k <= n /\ k <= l)
    OBVIOUS
  <2> HIDE DEF rest, this
  <2>5. QED
    BY <2>2, <2>3, <2>4
<1>4. ASSUME pattern[p] # "#"
      PROVE  this(k) <=> k <= n /\ pattern[p] \in {"*", key[k]} /\ rest(k)
  <2>1. this(k) <=> \E l \in 0 .. n : rest(l) /\ l = k /\ pattern[p] \in {"*", key[k]}
    BY <1>1, <1>4
  <2> HIDE DEF rest, this
  <2>2. QED
    BY <2>1
<1>5. QED
  BY <1>2, <1>3, <1>4

LEMMA CoversSolves ==
    ASSUME NEW pattern, NEW key, Len(pattern) \in Nat, Len(key) \in Nat
    PROVE  \E g : solves(pattern, key, g)
<1> DEFINE P == 1 .. Len(pattern) + 1
           K == 1 .. Len(key) + 1
           g == [at \in P \X K |-> coversFrom(pattern, key, at[1], at[2])]
<1>1. \A p \in P, k \in K : coversFrom(pattern, key, p, k) \in BOOLEAN
  BY DEF coversFrom
<1>2. \A p \in P, k \in K : g[<<p, k>>] = coversFrom(pattern, key, p, k)
  OBVIOUS
<1>3. ASSUME NEW p \in P, NEW k \in K
      PROVE  coversFrom(pattern, key, p, k) = matched(pattern, key, g, p, k)
  <2> HIDE DEF g
  <2>1. CASE p > Len(pattern)
    BY <1>1, <2>1, CoversStep DEF matched
  <2>2. CASE p <= Len(pattern) /\ pattern[p] = "#"
    <3>1. g[<<p + 1, k>>] = coversFrom(pattern, key, p + 1, k)
      BY <1>2, <2>2
    <3>2. k <= Len(key) => g[<<p, k + 1>>] = coversFrom(pattern, key, p, k + 1)
      BY <1>2
    <3>3. matched(pattern, key, g, p, k) = (g[<<p + 1, k>>] \/ (k <= Len(key) /\ g[<<p, k + 1>>]))
      BY <2>2 DEF matched
    <3>4. QED
      BY <1>1, <2>2, <3>1, <3>2, <3>3, CoversStep
  <2>3. CASE p <= Len(pattern) /\ pattern[p] # "#" /\ k > Len(key)
    BY <1>1, <2>3, CoversStep DEF matched
  <2>4. CASE p <= Len(pattern) /\ pattern[p] # "#" /\ k <= Len(key)
    <3>1. g[<<p + 1, k + 1>>] = coversFrom(pattern, key, p + 1, k + 1)
      BY <1>2, <2>4
    <3>2. matched(pattern, key, g, p, k) = (pattern[p] \in {"*", key[k]} /\ g[<<p + 1, k + 1>>])
      BY <2>4 DEF matched
    <3>3. QED
      BY <1>1, <2>4, <3>1, <3>2, CoversStep
  <2>5. QED
    BY <2>1, <2>2, <2>3, <2>4
<1>4. solves(pattern, key, g)
  <2> DEFINE c(at) == coversFrom(pattern, key, at[1], at[2])
             d(at) == matched(pattern, key, g, at[1], at[2])
  <2>1. \A at \in P \X K : c(at) = d(at)
    <3>1. \A at \in P \X K : at[1] \in P /\ at[2] \in K
      OBVIOUS
    <3>2. QED
      BY <1>3, <3>1
  <2>2. [at \in P \X K |-> c(at)] = [at \in P \X K |-> d(at)]
    <3> HIDE DEF c, d
    <3>1. QED
      BY <2>1
  <2>3. QED
    BY <2>2 DEF solves
<1>5. QED
  BY <1>4

\* The equation has one solution: what covers.
LEMMA SolutionCovers ==
    ASSUME NEW pattern, NEW key, Len(pattern) \in Nat, Len(key) \in Nat,
           NEW f, solves(pattern, key, f)
    PROVE  f[<<1, 1>>] <=> coversFrom(pattern, key, 1, 1)
<1> DEFINE P == 1 .. Len(pattern) + 1
           K == 1 .. Len(key) + 1
           differ(p, k) == ~(f[<<p, k>>] <=> coversFrom(pattern, key, p, k))
           left(p, k) == Len(pattern) + 1 - p + Len(key) + 1 - k
           T == {n \in Nat : \E p \in P, k \in K : differ(p, k) /\ n = left(p, k)}
<1>1. ASSUME NEW p \in P, NEW k \in K
      PROVE  f[<<p, k>>] <=> matched(pattern, key, f, p, k)
  <2>1. f[<<p, k>>] = matched(pattern, key, f, p, k)
    BY DEF solves
  <2>2. QED
    BY <2>1
<1> DEFINE c(p, k) == coversFrom(pattern, key, p, k)
<1>2. ASSUME NEW p \in P, NEW k \in K, differ(p, k)
      PROVE  \E q \in P, l \in K : differ(q, l) /\ left(q, l) < left(p, k)
  <2>1. ~(matched(pattern, key, f, p, k) <=> c(p, k))
    BY <1>1, <1>2
  <2>2. p <= Len(pattern)
    BY <2>1, CoversStep DEF matched
  <2>3. CASE pattern[p] = "#"
    <3>1. matched(pattern, key, f, p, k) <=> f[<<p + 1, k>>] \/ (k <= Len(key) /\ f[<<p, k + 1>>])
      BY <2>2, <2>3 DEF matched
    <3>2. c(p, k) <=> c(p + 1, k) \/ (k <= Len(key) /\ c(p, k + 1))
      BY <2>2, <2>3, CoversStep
    <3>3. CASE differ(p + 1, k)
      <4>1. p + 1 \in P /\ left(p + 1, k) < left(p, k)
        BY <2>2
      <4>2. QED
        BY <3>3, <4>1, Zenon
    <3>4. CASE k <= Len(key) /\ differ(p, k + 1)
      <4>1. k + 1 \in K /\ left(p, k + 1) < left(p, k)
        BY <3>4
      <4>2. QED
        BY <3>4, <4>1, Zenon
    <3>5. differ(p + 1, k) \/ (k <= Len(key) /\ differ(p, k + 1))
      BY <2>1, <3>1, <3>2
    <3>6. QED
      BY <3>3, <3>4, <3>5
  <2>4. CASE pattern[p] # "#"
    <3>1. matched(pattern, key, f, p, k) <=>
              k <= Len(key) /\ pattern[p] \in {"*", key[k]} /\ f[<<p + 1, k + 1>>]
      BY <2>2, <2>4 DEF matched
    <3>2. c(p, k) <=> k <= Len(key) /\ pattern[p] \in {"*", key[k]} /\ c(p + 1, k + 1)
      BY <2>2, <2>4, CoversStep
    <3>3. k <= Len(key) /\ differ(p + 1, k + 1)
      <4> DEFINE one == k <= Len(key) /\ pattern[p] \in {"*", key[k]}
      <4>1. /\ matched(pattern, key, f, p, k) <=> one /\ f[<<p + 1, k + 1>>]
            /\ c(p, k) <=> one /\ c(p + 1, k + 1)
            /\ one => k <= Len(key)
        BY <3>1, <3>2, Zenon
      <4> HIDE DEF one
      <4>2. QED
        BY <2>1, <4>1, Zenon
    <3>4. p + 1 \in P /\ k + 1 \in K /\ left(p + 1, k + 1) < left(p, k)
      <4>1. k <= Len(key)
        BY <3>3, Zenon
      <4>2. QED
        BY <2>2, <4>1
    <3>5. QED
      BY <3>3, <3>4, Zenon
  <2>5. QED
    BY <2>3, <2>4
<1>3. \A p \in P, k \in K : left(p, k) \in Nat
  OBVIOUS
<1> HIDE DEF differ, left
<1>4. ASSUME T # {}
      PROVE  FALSE
  <2>1. PICK n \in T : \A i \in T : n <= i
    BY <1>4, LeastNumber
  <2>2. PICK p \in P, k \in K : differ(p, k) /\ n = left(p, k)
    OBVIOUS
  <2>3. PICK q \in P, l \in K : differ(q, l) /\ left(q, l) < left(p, k)
    BY <1>2, <2>2
  <2>4. left(q, l) \in T
    BY <1>3, <2>3, Zenon
  <2>5. QED
    <3>1. left(p, k) \in Nat /\ left(q, l) \in Nat /\ n <= left(q, l)
      BY <1>3, <2>1, <2>4
    <3>2. QED
      BY <2>2, <2>3, <3>1
<1>5. ~differ(1, 1)
  BY <1>3, <1>4
<1>6. QED
  BY <1>5 DEF differ

\* matchTopic, whose loops are a recursive function, says of every pattern and
\* every name whether the name can be cut as the pattern says.
THEOREM MatchMeansCovers ==
    ASSUME NEW pattern, NEW key, Len(pattern) \in Nat, Len(key) \in Nat
    PROVE  matchTopic(pattern, key) <=> covers(pattern, key)
<1>1. PICK f : solves(pattern, key, f) /\ matchTopic(pattern, key) = f[<<1, 1>>]
  BY CoversSolves, MatchSolves
<1>2. matchTopic(pattern, key) <=> coversFrom(pattern, key, 1, 1)
  BY <1>1, SolutionCovers
<1>3. 1 - 1 = 0
  OBVIOUS
<1>4. QED
  BY <1>2, <1>3 DEF coversFrom, covers, step

-----------------------------------------------------------------------------
(* What counts as published has reached all it is for: the sent part of a  *)
(* batch has, published or not, and a pass marks it when all is sent.      *)

RelayRecord ==
    [timer : BOOLEAN, at : {"idle", "publishing", "failed"}, batch : Seq(Nat), sent : Nat]

\* What of the types the argument needs.
OutboxTypeOK ==
    /\ records \in Seq([name : {eventNames[k] : k \in 1 .. 2}, published : BOOLEAN, attempts : Nat])
    /\ relay \in [Relays -> RelayRecord]
    /\ subscribed \subseteq topicPatterns
    /\ \A r \in Relays : \A k \in 1 .. Len(relay[r].batch) : relay[r].batch[k] \in DOMAIN records

standsFor(s, name) == \E pattern \in s : covers(pattern, name)

\* All that was sent of a batch has reached whom it is for, published or not.
SentReachesAll ==
    \A r \in Relays :
        /\ relay[r].sent <= Len(relay[r].batch)
        /\ \A k \in 1 .. relay[r].sent, s \in subscribed :
               standsFor(s, records[relay[r].batch[k]].name) => <<s, relay[r].batch[k]>> \in reached

\* Nobody was reached by a record that was not saved.
ReachedIsSaved == \A s, i : <<s, i>> \in reached => i \in DOMAIN records

OutboxInv == OutboxTypeOK /\ SentReachesAll /\ ReachedIsSaved /\ PublishedReachesAll

\* The bus hands an event to whom it is for, whatever their patterns.
LEMMA MatchesWhomItIsFor ==
    ASSUME NEW s \in topicPatterns, NEW k \in 1 .. 2
    PROVE  (\E pattern \in s : matchTopic(pattern, eventNames[k])) <=> standsFor(s, eventNames[k])
<1>1. Len(eventNames[k]) \in Nat
  BY DEF eventNames
<1>2. \A pattern \in s : Len(pattern) \in Nat
  BY DEF topicPatterns
<1>3. QED
  BY <1>1, <1>2, MatchMeansCovers DEF standsFor

LEMMA InitOutbox == OutboxInit => OutboxInv
<1> SUFFICES ASSUME OutboxInit
             PROVE  OutboxInv
  OBVIOUS
<1>1. OutboxTypeOK
  BY DEF OutboxInit, OutboxTypeOK, NotTicking, RelayRecord
<1>2. QED
  BY <1>1 DEF OutboxInit, OutboxInv, NotTicking, SentReachesAll, ReachedIsSaved, PublishedReachesAll

LEMMA RelayEnds ==
    ASSUME NEW a \in RelayRecord, NEW d, d = [NotTicking EXCEPT !.timer = a.timer]
    PROVE  d \in RelayRecord /\ d.batch = <<>> /\ d.sent = 0
<1>1. NotTicking \in RelayRecord /\ NotTicking.batch = <<>> /\ NotTicking.sent = 0
  BY DEF RelayRecord, NotTicking
<1>2. a.timer \in BOOLEAN
  BY DEF RelayRecord
<1>3. QED
  BY <1>1, <1>2 DEF RelayRecord

LEMMA RelaySends ==
    ASSUME NEW a \in RelayRecord, NEW d, d = [a EXCEPT !.sent = @ + 1]
    PROVE  d \in RelayRecord /\ d.batch = a.batch /\ d.sent = a.sent + 1
BY DEF RelayRecord

\* A relay that changes leaves the others as they are.
LEMMA RelaySet ==
    ASSUME OutboxTypeOK, NEW r \in Relays, NEW value, setRelay(r, value)
    PROVE  /\ relay'[r] = value
           /\ \A q \in Relays : q # r => relay'[q] = relay[q]
           /\ DOMAIN relay' = Relays
BY DEF OutboxTypeOK, setRelay

\* A relay may change so that less of its batch counts as sent.
LEMMA RelayKeepsInv ==
    ASSUME OutboxInv, NEW r \in Relays, NEW value, setRelay(r, value),
           value \in RelayRecord,
           \/ value.batch = relay[r].batch /\ value.sent = relay[r].sent
           \/ value.sent = 0 /\ \A k \in 1 .. Len(value.batch) : value.batch[k] \in DOMAIN records,
           UNCHANGED <<records, subscribed, reached>>
    PROVE  OutboxInv'
<1>1. /\ relay'[r] = value
      /\ \A q \in Relays : q # r => relay'[q] = relay[q]
  BY RelaySet DEF OutboxInv
<1>2. OutboxTypeOK'
  <2>1. relay' \in [Relays -> RelayRecord]
    BY DEF OutboxInv, OutboxTypeOK, setRelay
  <2>2. \A q \in Relays : \A k \in 1 .. Len(relay'[q].batch) : relay'[q].batch[k] \in DOMAIN records
    BY <1>1 DEF OutboxInv, OutboxTypeOK
  <2>3. QED
    BY <2>1, <2>2 DEF OutboxInv, OutboxTypeOK
<1>3. SentReachesAll'
  <2> SUFFICES ASSUME NEW q \in Relays
               PROVE  /\ relay'[q].sent <= Len(relay'[q].batch)
                      /\ \A k \in 1 .. relay'[q].sent, s \in subscribed :
                             standsFor(s, records[relay'[q].batch[k]].name)
                                 => <<s, relay'[q].batch[k]>> \in reached
    BY DEF SentReachesAll, standsFor
  <2>1. CASE relay'[q].batch = relay[q].batch /\ relay'[q].sent = relay[q].sent
    BY <2>1 DEF OutboxInv, SentReachesAll
  <2>2. CASE relay'[q].sent = 0
    <3>1. relay'[q].batch \in Seq(Nat)
      BY <1>2 DEF OutboxTypeOK, RelayRecord
    <3>2. QED
      BY <2>2, <3>1
  <2>3. QED
    BY <1>1, <2>1, <2>2
<1>4. QED
  BY <1>2, <1>3 DEF OutboxInv, ReachedIsSaved, PublishedReachesAll

LEMMA RecordIsTyped ==
    ASSUME OutboxTypeOK, NEW i \in DOMAIN records
    PROVE  /\ records[i] \in [name : {records[i].name}, published : BOOLEAN, attempts : Nat]
           /\ \E k \in 1 .. 2 : records[i].name = eventNames[k]
<1> DEFINE Record == [name : {eventNames[k] : k \in 1 .. 2}, published : BOOLEAN, attempts : Nat]
<1>1. records \in Seq(Record)
  BY DEF OutboxTypeOK
<1>2. records[i] \in Record
  <2> HIDE DEF Record
  <2>1. QED
    BY <1>1
<1>3. QED
  BY <1>2

\* A pass that ends: records keep their names and are not fewer, and only what
\* was sent counts as published from then on.
LEMMA EndOfTick ==
    ASSUME OutboxInv, NEW r \in Relays, endTick(r),
           NEW change, records' = change, change = [i \in DOMAIN records |-> change[i]],
           \A i \in DOMAIN records :
               /\ change[i] \in [name : {records[i].name}, published : BOOLEAN, attempts : Nat]
               /\ change[i].published => records[i].published \/ \E k \in 1 .. relay[r].sent :
                                                                       i = relay[r].batch[k],
           UNCHANGED <<subscribed, reached>>
    PROVE  OutboxInv'
<1> DEFINE Name == {eventNames[k] : k \in 1 .. 2}
           Rec == [name : Name, published : BOOLEAN, attempts : Nat]
           n == Len(records)
<1>0. records \in Seq(Rec) /\ n \in Nat /\ DOMAIN records = 1 .. n
  BY DEF OutboxInv, OutboxTypeOK
<1>1. \A i \in DOMAIN records : records'[i] = change[i] /\ records'[i].name = records[i].name
                                /\ change[i] \in Rec
  <2> SUFFICES ASSUME NEW i \in DOMAIN records
               PROVE  change[i] \in Rec /\ change[i].name = records[i].name
    OBVIOUS
  <2>1. records[i] \in Rec
    <3> HIDE DEF Rec
    <3>1. QED
      BY <1>0
  <2>2. change[i] \in [name : {records[i].name}, published : BOOLEAN, attempts : Nat]
    OBVIOUS
  <2>3. QED
    BY <2>1, <2>2
<1>2. records' \in Seq(Rec) /\ DOMAIN records' = DOMAIN records
  <2> HIDE DEF Rec
  <2>1. records' \in [1 .. n -> Rec]
    BY <1>0, <1>1
  <2>2. QED
    BY <1>0, <2>1, SeqDef
<1>3. /\ relay'[r] = [NotTicking EXCEPT !.timer = relay[r].timer]
      /\ \A q \in Relays : q # r => relay'[q] = relay[q]
  BY RelaySet DEF OutboxInv, endTick
<1>4. relay'[r].batch = <<>> /\ relay'[r].sent = 0 /\ relay'[r] \in RelayRecord /\ Len(<<>>) = 0
  BY <1>3, RelayEnds DEF OutboxInv, OutboxTypeOK
<1>5. OutboxTypeOK'
  <2>1. relay' \in [Relays -> RelayRecord]
    BY <1>4 DEF OutboxInv, OutboxTypeOK, endTick, setRelay
  <2>2. \A q \in Relays : \A k \in 1 .. Len(relay'[q].batch) : relay'[q].batch[k] \in DOMAIN records
    <3> SUFFICES ASSUME NEW q \in Relays, NEW k \in 1 .. Len(relay'[q].batch)
                 PROVE  relay'[q].batch[k] \in DOMAIN records
      OBVIOUS
    <3>1. q # r
      BY <1>4
    <3>2. QED
      BY <1>3, <3>1 DEF OutboxInv, OutboxTypeOK
  <2>3. QED
    BY <1>2, <2>1, <2>2 DEF OutboxInv, OutboxTypeOK
<1>6. SentReachesAll'
  <2> SUFFICES ASSUME NEW q \in Relays
               PROVE  /\ relay'[q].sent <= Len(relay'[q].batch)
                      /\ \A k \in 1 .. relay'[q].sent, s \in subscribed :
                             standsFor(s, records'[relay'[q].batch[k]].name)
                                 => <<s, relay'[q].batch[k]>> \in reached
    BY DEF SentReachesAll, standsFor
  <2>1. CASE q = r
    BY <1>4, <2>1
  <2>2. CASE q # r
    <3>1. relay'[q] = relay[q]
      BY <1>3, <2>2
    <3>2. relay[q].sent <= Len(relay[q].batch) /\ relay[q].sent \in Nat /\ Len(relay[q].batch) \in Nat
      BY DEF OutboxInv, OutboxTypeOK, SentReachesAll, RelayRecord
    <3>3. \A k \in 1 .. relay[q].sent : relay[q].batch[k] \in DOMAIN records
      BY <3>2 DEF OutboxInv, OutboxTypeOK
    <3>4. \A k \in 1 .. relay[q].sent, s \in subscribed :
              standsFor(s, records[relay[q].batch[k]].name) => <<s, relay[q].batch[k]>> \in reached
      BY DEF OutboxInv, SentReachesAll
    <3>5. QED
      BY <1>1, <3>1, <3>2, <3>3, <3>4
  <2>3. QED
    BY <2>1, <2>2
<1>7. PublishedReachesAll'
  <2> SUFFICES ASSUME NEW s \in subscribed, NEW i \in DOMAIN records
               PROVE  /\ records'[i].published /\ standsFor(s, records'[i].name) => <<s, i>> \in reached
                      /\ <<s, i>> \in reached => standsFor(s, records'[i].name)
    BY <1>2 DEF PublishedReachesAll, standsFor
  <2>1. /\ records[i].published /\ standsFor(s, records[i].name) => <<s, i>> \in reached
        /\ <<s, i>> \in reached => standsFor(s, records[i].name)
    BY DEF OutboxInv, PublishedReachesAll, standsFor
  <2>2. ASSUME NEW k \in 1 .. relay[r].sent, i = relay[r].batch[k], standsFor(s, records[i].name)
        PROVE  <<s, i>> \in reached
    BY <2>2 DEF OutboxInv, SentReachesAll
  <2>3. records'[i].published => records[i].published \/ \E k \in 1 .. relay[r].sent :
                                                               i = relay[r].batch[k]
    BY <1>1
  <2>4. records'[i].name = records[i].name
    BY <1>1
  <2>5. QED
    BY <2>1, <2>2, <2>3, <2>4
<1>8. ReachedIsSaved'
  BY <1>2 DEF OutboxInv, ReachedIsSaved
<1>9. QED
  BY <1>5, <1>6, <1>7, <1>8 DEF OutboxInv

LEMMA PublishKeepsInv ==
    ASSUME OutboxInv, NEW r \in Relays, Publish(r)
    PROVE  OutboxInv'
<1> DEFINE n == relay[r].sent + 1
           i == relay[r].batch[n]
           to == {s \in subscribed : \E pattern \in s : matchTopic(pattern, records[i].name)}
           b == [relay[r] EXCEPT !.sent = @ + 1]
<1>1. /\ reached' = reached \cup (to \X {i})
      /\ UNCHANGED <<records, subscribed>>
      /\ setRelay(r, b)
  BY DEF Publish
<1>2. /\ relay[r].sent \in Nat /\ relay[r].batch \in Seq(Nat) /\ n \in 1 .. Len(relay[r].batch)
      /\ i \in DOMAIN records
      /\ \A k \in DOMAIN records : \E l \in 1 .. 2 : records[k].name = eventNames[l]
  <2>1. relay[r] \in RelayRecord
    BY DEF OutboxInv, OutboxTypeOK
  <2>2. n \in 1 .. Len(relay[r].batch)
    BY <2>1 DEF Publish, RelayRecord
  <2>3. i \in DOMAIN records
    BY <2>2 DEF OutboxInv, OutboxTypeOK
  <2>4. \A k \in DOMAIN records : \E l \in 1 .. 2 : records[k].name = eventNames[l]
    BY RecordIsTyped DEF OutboxInv
  <2>5. QED
    BY <2>1, <2>2, <2>3, <2>4 DEF RelayRecord
<1>3. /\ b \in RelayRecord
      /\ b.sent = n /\ b.batch = relay[r].batch
  BY RelaySends DEF OutboxInv, OutboxTypeOK
<1>4. \A s \in subscribed : s \in to <=> standsFor(s, records[i].name)
  <2> SUFFICES ASSUME NEW s \in subscribed
               PROVE  s \in to <=> standsFor(s, records[i].name)
    OBVIOUS
  <2>1. PICK l \in 1 .. 2 : records[i].name = eventNames[l]
    BY <1>2
  <2>2. s \in topicPatterns
    BY DEF OutboxInv, OutboxTypeOK
  <2>3. (\E pattern \in s : matchTopic(pattern, eventNames[l])) <=> standsFor(s, eventNames[l])
    BY <2>2, MatchesWhomItIsFor
  <2>4. QED
    BY <2>1, <2>3
<1>5. /\ relay'[r] = b
      /\ \A q \in Relays : q # r => relay'[q] = relay[q]
  BY <1>1, RelaySet DEF OutboxInv
<1>6. \A s, k : <<s, k>> \in reached' <=> <<s, k>> \in reached \/ (s \in to /\ k = i)
  BY <1>1
<1> HIDE DEF b, to, i
<1>7. OutboxTypeOK'
  <2>1. relay' \in [Relays -> RelayRecord]
    BY <1>1, <1>3 DEF OutboxInv, OutboxTypeOK, setRelay
  <2>2. \A q \in Relays : \A k \in 1 .. Len(relay'[q].batch) : relay'[q].batch[k] \in DOMAIN records
    BY <1>3, <1>5 DEF OutboxInv, OutboxTypeOK
  <2>3. QED
    BY <1>1, <2>1, <2>2 DEF OutboxInv, OutboxTypeOK
<1>8. SentReachesAll'
  <2> SUFFICES ASSUME NEW q \in Relays
               PROVE  /\ relay'[q].sent <= Len(relay'[q].batch)
                      /\ \A k \in 1 .. relay'[q].sent, s \in subscribed :
                             standsFor(s, records[relay'[q].batch[k]].name)
                                 => <<s, relay'[q].batch[k]>> \in reached'
    BY <1>1 DEF SentReachesAll, standsFor
  <2>0. /\ relay[q].sent <= Len(relay[q].batch)
        /\ \A k \in 1 .. relay[q].sent, s \in subscribed :
               standsFor(s, records[relay[q].batch[k]].name) => <<s, relay[q].batch[k]>> \in reached
    BY DEF OutboxInv, SentReachesAll
  <2>1. CASE q # r
    BY <1>5, <1>6, <2>0, <2>1
  <2>2. CASE q = r
    <3>1. relay'[q].sent = n /\ relay'[q].batch = relay[r].batch /\ n <= Len(relay[r].batch)
      BY <1>2, <1>3, <1>5, <2>2
    <3>2. ASSUME NEW k \in 1 .. n, NEW s \in subscribed,
                 standsFor(s, records[relay[r].batch[k]].name)
          PROVE  <<s, relay[r].batch[k]>> \in reached'
      <4>1. CASE k = n
        BY <1>4, <1>6, <3>2, <4>1 DEF i
      <4>2. CASE k # n
        <5>1. k \in 1 .. relay[r].sent
          BY <1>2, <4>2
        <5>2. QED
          BY <1>6, <2>0, <2>2, <3>2, <5>1
      <4>3. QED
        BY <4>1, <4>2
    <3>3. QED
      BY <3>1, <3>2
  <2>3. QED
    BY <2>1, <2>2
<1>9. PublishedReachesAll'
  <2> SUFFICES ASSUME NEW s \in subscribed, NEW k \in DOMAIN records
               PROVE  /\ records[k].published /\ standsFor(s, records[k].name) => <<s, k>> \in reached'
                      /\ <<s, k>> \in reached' => standsFor(s, records[k].name)
    BY <1>1 DEF PublishedReachesAll, standsFor
  <2>1. /\ records[k].published /\ standsFor(s, records[k].name) => <<s, k>> \in reached
        /\ <<s, k>> \in reached => standsFor(s, records[k].name)
    BY DEF OutboxInv, PublishedReachesAll, standsFor
  <2>2. QED
    BY <1>4, <1>6, <2>1
<1>10. ReachedIsSaved'
  BY <1>1, <1>2, <1>6 DEF OutboxInv, ReachedIsSaved
<1>11. QED
  BY <1>7, <1>8, <1>9, <1>10 DEF OutboxInv

\* Of a pass that ends, each record takes what is said of it.
LEMMA MarkPublishedKeepsInv ==
    ASSUME OutboxInv, NEW r \in Relays, MarkPublished(r)
    PROVE  OutboxInv'
<1> DEFINE change == [i \in DOMAIN records |->
                         IF i \in ids(r) THEN [records[i] EXCEPT !.published = TRUE] ELSE records[i]]
<1>1. /\ records' = change
      /\ endTick(r)
      /\ UNCHANGED <<subscribed, reached>>
      /\ relay[r].sent = Len(relay[r].batch)
  BY DEF MarkPublished
<1>2. ASSUME NEW i \in DOMAIN records
      PROVE  /\ change[i] \in [name : {records[i].name}, published : BOOLEAN, attempts : Nat]
             /\ change[i].published => records[i].published \/ \E k \in 1 .. relay[r].sent :
                                                                     i = relay[r].batch[k]
  <2>1. records[i] \in [name : {records[i].name}, published : BOOLEAN, attempts : Nat]
    BY RecordIsTyped DEF OutboxInv
  <2>2. relay[r].batch \in Seq(Nat)
    BY DEF OutboxInv, OutboxTypeOK, RelayRecord
  <2>3. i \in ids(r) <=> \E k \in 1 .. relay[r].sent : i = relay[r].batch[k]
    <3>1. DOMAIN relay[r].batch = 1 .. relay[r].sent
      BY <1>1, <2>2
    <3>2. QED
      BY <3>1, Zenon DEF ids
  <2>4. QED
    BY <2>1, <2>3
<1>3. change = [i \in DOMAIN records |-> change[i]]
  OBVIOUS
<1> HIDE DEF change
<1>4. QED
  BY <1>1, <1>2, <1>3, EndOfTick

LEMMA IncrementAttemptsKeepsInv ==
    ASSUME OutboxInv, NEW r \in Relays, IncrementAttempts(r)
    PROVE  OutboxInv'
<1> DEFINE change == [i \in DOMAIN records |->
                         IF i \in ids(r) THEN [records[i] EXCEPT !.attempts = @ + 1] ELSE records[i]]
<1>1. /\ records' = change
      /\ endTick(r)
      /\ UNCHANGED <<subscribed, reached>>
  BY DEF IncrementAttempts
<1>2. ASSUME NEW i \in DOMAIN records
      PROVE  /\ change[i] \in [name : {records[i].name}, published : BOOLEAN, attempts : Nat]
             /\ change[i].published => records[i].published \/ \E k \in 1 .. relay[r].sent :
                                                                     i = relay[r].batch[k]
  <2>1. records[i] \in [name : {records[i].name}, published : BOOLEAN, attempts : Nat]
    BY RecordIsTyped DEF OutboxInv
  <2>2. ASSUME NEW d, d = [records[i] EXCEPT !.attempts = records[i].attempts + 1]
        PROVE  /\ d \in [name : {records[i].name}, published : BOOLEAN, attempts : Nat]
               /\ d.published = records[i].published
    BY <2>1, <2>2
  <2>3. QED
    BY <2>1, <2>2
<1>3. change = [i \in DOMAIN records |-> change[i]]
  OBVIOUS
<1> HIDE DEF change
<1>4. QED
  BY <1>1, <1>2, <1>3, EndOfTick

LEMMA TickKeepsInv ==
    ASSUME OutboxInv, NEW r \in Relays, Tick(r)
    PROVE  OutboxInv'
<1>1. PICK batch \in fetchUnpublished :
          setRelay(r, [relay[r] EXCEPT !.at = "publishing", !.batch = batch, !.sent = 0])
  BY DEF Tick
<1>2. UNCHANGED <<records, subscribed, reached>>
  BY DEF Tick
<1>3. batch \in Seq(Nat) /\ \A k \in 1 .. Len(batch) : batch[k] \in DOMAIN records
  <2>1. PICK n \in 0 .. batchSize : batch \in [1 .. n -> unpublished]
    BY DEF fetchUnpublished
  <2>2. unpublished \subseteq DOMAIN records /\ unpublished \subseteq Nat /\ n \in Nat
    BY OutboxAssumption DEF unpublished, OutboxInv, OutboxTypeOK
  <2>3. batch \in Seq(unpublished) /\ Len(batch) = n
    BY <2>1, <2>2, SeqDef
  <2>4. QED
    BY <2>1, <2>2, <2>3
<1>4. ASSUME NEW d, d = [relay[r] EXCEPT !.at = "publishing", !.batch = batch, !.sent = 0]
      PROVE  d \in RelayRecord /\ d.batch = batch /\ d.sent = 0
  <2>1. relay[r] \in RelayRecord
    BY DEF OutboxInv, OutboxTypeOK
  <2>2. QED
    BY <1>3, <1>4, <2>1 DEF RelayRecord
<1>5. QED
  BY <1>1, <1>2, <1>3, <1>4, RelayKeepsInv

LEMMA SaveRecordKeepsInv ==
    ASSUME OutboxInv, SaveRecord
    PROVE  OutboxInv'
<1> DEFINE Rec == [name : {eventNames[l] : l \in 1 .. 2}, published : BOOLEAN, attempts : Nat]
           n == Len(records) + 1
           new == [name |-> eventNames[n], published |-> FALSE, attempts |-> 0]
<1>1. /\ records' = Append(records, new)
      /\ UNCHANGED <<relay, subscribed, reached>>
      /\ n < Len(eventNames) + 1
  BY DEF SaveRecord
<1>2. records \in Seq(Rec)
  BY DEF OutboxInv, OutboxTypeOK
<1>3. new \in Rec /\ new.published = FALSE
  BY <1>1, <1>2 DEF eventNames
<1> HIDE DEF Rec, new
<1>4. /\ records' \in Seq(Rec) /\ DOMAIN records' = DOMAIN records \cup {n}
      /\ \A i \in DOMAIN records : records'[i] = records[i]
      /\ records'[n] = new /\ n \notin DOMAIN records
  BY <1>1, <1>2, <1>3
<1>5. OutboxTypeOK'
  BY <1>1, <1>4 DEF OutboxInv, OutboxTypeOK, Rec
<1>6. SentReachesAll'
  <2> SUFFICES ASSUME NEW q \in Relays
               PROVE  /\ relay[q].sent <= Len(relay[q].batch)
                      /\ \A k \in 1 .. relay[q].sent, s \in subscribed :
                             standsFor(s, records'[relay[q].batch[k]].name)
                                 => <<s, relay[q].batch[k]>> \in reached
    BY <1>1 DEF SentReachesAll, standsFor
  <2>1. /\ relay[q].sent <= Len(relay[q].batch)
        /\ \A k \in 1 .. relay[q].sent, s \in subscribed :
               standsFor(s, records[relay[q].batch[k]].name) => <<s, relay[q].batch[k]>> \in reached
    BY DEF OutboxInv, SentReachesAll
  <2>2. \A k \in 1 .. relay[q].sent : relay[q].batch[k] \in DOMAIN records
    <3>1. relay[q].sent \in Nat /\ Len(relay[q].batch) \in Nat
      BY DEF OutboxInv, OutboxTypeOK, RelayRecord
    <3>2. 1 .. relay[q].sent \subseteq 1 .. Len(relay[q].batch)
      BY <2>1, <3>1
    <3>3. QED
      BY <3>2 DEF OutboxInv, OutboxTypeOK
  <2>3. QED
    BY <1>4, <2>1, <2>2
<1>7. ReachedIsSaved'
  BY <1>1, <1>4 DEF OutboxInv, ReachedIsSaved
<1>8. PublishedReachesAll'
  <2> SUFFICES ASSUME NEW s \in subscribed, NEW i \in DOMAIN records'
               PROVE  /\ records'[i].published /\ standsFor(s, records'[i].name) => <<s, i>> \in reached
                      /\ <<s, i>> \in reached => standsFor(s, records'[i].name)
    BY <1>1 DEF PublishedReachesAll, standsFor
  <2>1. CASE i \in DOMAIN records
    <3>1. /\ records[i].published /\ standsFor(s, records[i].name) => <<s, i>> \in reached
          /\ <<s, i>> \in reached => standsFor(s, records[i].name)
      BY <2>1 DEF OutboxInv, PublishedReachesAll, standsFor
    <3>2. QED
      BY <1>4, <2>1, <3>1
  <2>2. CASE i = n
    BY <1>3, <1>4, <2>2 DEF OutboxInv, ReachedIsSaved
  <2>3. QED
    BY <1>4, <2>1, <2>2
<1>9. QED
  BY <1>5, <1>6, <1>7, <1>8 DEF OutboxInv

\* Nobody subscribes once there are records.
LEMMA SubscribersKeepInv ==
    ASSUME OutboxInv, subscribed' \subseteq topicPatterns,
           records = <<>> \/ subscribed' \subseteq subscribed,
           UNCHANGED <<records, relay, reached>>
    PROVE  OutboxInv'
<1>1. ASSUME records = <<>>
      PROVE  \A q \in Relays : relay[q].sent = 0
  <2> SUFFICES ASSUME NEW q \in Relays
               PROVE  relay[q].sent = 0
    OBVIOUS
  <2>1. relay[q].batch \in Seq(Nat) /\ relay[q].sent \in Nat /\ relay[q].sent <= Len(relay[q].batch)
    BY DEF OutboxInv, OutboxTypeOK, SentReachesAll, RelayRecord
  <2>2. DOMAIN records = {}
    BY <1>1
  <2>3. Len(relay[q].batch) = 0
    BY <2>1, <2>2 DEF OutboxInv, OutboxTypeOK
  <2>4. QED
    BY <2>1, <2>3
<1>2. SentReachesAll'
  <2> SUFFICES ASSUME NEW q \in Relays
               PROVE  /\ relay[q].sent <= Len(relay[q].batch)
                      /\ \A k \in 1 .. relay[q].sent, s \in subscribed' :
                             standsFor(s, records[relay[q].batch[k]].name)
                                 => <<s, relay[q].batch[k]>> \in reached
    BY DEF SentReachesAll, standsFor
  <2>1. /\ relay[q].sent <= Len(relay[q].batch)
        /\ \A k \in 1 .. relay[q].sent, s \in subscribed :
               standsFor(s, records[relay[q].batch[k]].name) => <<s, relay[q].batch[k]>> \in reached
    BY DEF OutboxInv, SentReachesAll
  <2>2. CASE records = <<>>
    BY <1>1, <2>1, <2>2
  <2>3. CASE subscribed' \subseteq subscribed
    BY <2>1, <2>3
  <2>4. QED
    BY <2>2, <2>3
<1>3. PublishedReachesAll'
  <2>1. CASE records = <<>>
    BY <2>1 DEF PublishedReachesAll
  <2>2. CASE subscribed' \subseteq subscribed
    BY <2>2 DEF OutboxInv, PublishedReachesAll
  <2>3. QED
    BY <2>1, <2>2
<1>4. QED
  BY <1>2, <1>3 DEF OutboxInv, OutboxTypeOK, ReachedIsSaved

LEMMA NextOutbox == OutboxInv /\ [OutboxNext]_outboxVars => OutboxInv'
<1> SUFFICES ASSUME OutboxInv, [OutboxNext]_outboxVars
             PROVE  OutboxInv'
  OBVIOUS
<1>1. ASSUME NEW patterns \in topicPatterns, SubscribeTo(patterns)
      PROVE  OutboxInv'
  <2>1. /\ subscribed' \subseteq topicPatterns /\ records = <<>>
        /\ UNCHANGED <<records, relay, reached>>
    BY <1>1 DEF SubscribeTo, OutboxInv, OutboxTypeOK
  <2>2. QED
    BY <2>1, SubscribersKeepInv
<1>2. ASSUME NEW patterns \in subscribed, Unsubscribe(patterns)
      PROVE  OutboxInv'
  <2>1. /\ subscribed' \subseteq topicPatterns /\ subscribed' \subseteq subscribed
        /\ UNCHANGED <<records, relay, reached>>
    BY <1>2 DEF Unsubscribe, OutboxInv, OutboxTypeOK
  <2>2. QED
    BY <2>1, SubscribersKeepInv
<1>3. CASE SaveRecord
  BY <1>3, SaveRecordKeepsInv
<1>4. ASSUME NEW r \in Relays
      PROVE  /\ relay[r] \in RelayRecord
             /\ \A d : \/ d = [relay[r] EXCEPT !.timer = TRUE]
                       \/ d = [relay[r] EXCEPT !.timer = FALSE]
                       \/ d = [relay[r] EXCEPT !.at = "failed"]
                       => d \in RelayRecord /\ d.batch = relay[r].batch /\ d.sent = relay[r].sent
  BY DEF OutboxInv, OutboxTypeOK, RelayRecord
<1>5. ASSUME NEW r \in Relays, StartRelay(r) \/ StopRelay(r) \/ PublishRejected(r)
      PROVE  OutboxInv'
  <2>1. PICK d : /\ setRelay(r, d)
                 /\ \/ d = [relay[r] EXCEPT !.timer = TRUE]
                    \/ d = [relay[r] EXCEPT !.timer = FALSE]
                    \/ d = [relay[r] EXCEPT !.at = "failed"]
                 /\ UNCHANGED <<records, subscribed, reached>>
    BY <1>5, Zenon DEF StartRelay, StopRelay, PublishRejected
  <2>2. QED
    BY <1>4, <2>1, RelayKeepsInv
<1>6. ASSUME NEW r \in Relays, RelayDies(r)
      PROVE  OutboxInv'
  <2>1. setRelay(r, NotTicking) /\ UNCHANGED <<records, subscribed, reached>>
    BY <1>6 DEF RelayDies
  <2>2. /\ NotTicking \in RelayRecord /\ NotTicking.sent = 0
        /\ \A k \in 1 .. Len(NotTicking.batch) : NotTicking.batch[k] \in DOMAIN records
    BY DEF NotTicking, RelayRecord
  <2>3. QED
    BY <2>1, <2>2, RelayKeepsInv
<1>7. ASSUME NEW r \in Relays,
             Tick(r) \/ Publish(r) \/ MarkPublished(r) \/ IncrementAttempts(r)
      PROVE  OutboxInv'
  BY <1>7, TickKeepsInv, PublishKeepsInv, MarkPublishedKeepsInv, IncrementAttemptsKeepsInv
<1>8. CASE UNCHANGED outboxVars
  BY <1>8 DEF outboxVars, OutboxInv, OutboxTypeOK, SentReachesAll, ReachedIsSaved,
              PublishedReachesAll, standsFor
<1>9. QED
  BY <1>1, <1>2, <1>3, <1>5, <1>6, <1>7, <1>8 DEF OutboxNext

\* A record that counts as published has reached every subscription whose
\* patterns stand for its name, and nothing else has (outbox.ts, matchTopic).
THEOREM PublishedReachesAllHolds == OutboxSpec => []PublishedReachesAll
<1>1. OutboxInv => PublishedReachesAll
  BY DEF OutboxInv
<1>2. QED
  BY <1>1, InitOutbox, NextOutbox, PTL DEF OutboxSpec
=============================================================================
