------------------------------ MODULE EventBus ------------------------------
(***************************************************************************)
(* The RabbitMQ connection of one process                                  *)
(* (packages/events/src/rabbitmq-bus.ts): connect, the reconnection that   *)
(* both a closed connection and a failed attempt begin, subscribe, which   *)
(* may come at any time, and close.  What becomes of a single message is   *)
(* the subject of PipelineRun and WebhookDispatcher.                       *)
(***************************************************************************)
EXTENDS Naturals, FiniteSets

CONSTANTS
    Specs,        \* subscriptions, in the order in which they are made: 1 ..
    MaxSockets,   \* connections that are opened in all
    MaxRefusals,  \* how often the broker refuses a connection
    maxAttempts   \* reconnect.maxAttempts

ASSUME EventBusAssumption ==
    /\ Specs \subseteq Nat \ {0}
    /\ MaxSockets \in Nat /\ MaxRefusals \in Nat /\ maxAttempts \in Nat

Sockets == 1 .. MaxSockets
NoSocket == 0

VARIABLES
    socket,        \* state of each connection: "none", "open", "closed"
    consumers,     \* subscriptions that are consumed on each connection
    connection,    \* this.connection
    publishChannel,\* the connection of this.publishChannel
    subscriptions, \* this.subscriptions
    tasks,         \* calls of connect and subscribe that are on their way
    exhausted,     \* a reconnection gave up
    closing,       \* this.closing
    refusals

busVars == <<socket, consumers, connection, publishChannel, subscriptions, tasks,
             exhausted, closing, refusals>>

\* A call of connect: the lost connection it makes up for, none for the first
\* call of the process, its attempt, its own connection, and the last of the
\* subscriptions it went through.
Connecting(lost, n) ==
    [at |-> "connect", for |-> lost, attempt |-> n, on |-> NoSocket, seen |-> 0]
Subscribing(s) ==
    [at |-> "subscribe", for |-> NoSocket, attempt |-> 0, on |-> NoSocket, seen |-> s]

BusInit ==
    /\ socket = [c \in Sockets |-> "none"]
    /\ consumers = [c \in Sockets |-> {}]
    /\ connection = NoSocket
    /\ publishChannel = NoSocket
    /\ subscriptions = {}
    /\ tasks = {Connecting(NoSocket, 0)}
    /\ exhausted = FALSE
    /\ closing = FALSE
    /\ refusals = 0

isOpen(c) == c # NoSocket /\ socket[c] = "open"

goOn(t, u) == tasks' = (tasks \ {t}) \cup {u}

\* Mutant: only the close of a connection begins a reconnection.
reconnectOnce(t) ==
    /\ tasks' = tasks \ {t}
    /\ exhausted' = (exhausted \/ t.attempt >= maxAttempts)

\* A failed attempt is followed by the next one; a failed first call ends the
\* process, and a failed subscribe is its caller's.
reconnect(t) ==
    IF t.at # "subscribe" /\ t.attempt \in 1 .. maxAttempts - 1
    THEN goOn(t, Connecting(t.for, t.attempt + 1)) /\ UNCHANGED exhausted
    ELSE /\ tasks' = tasks \ {t}
         /\ exhausted' = (exhausted \/ t.at # "subscribe")

\* connect: the connection is this bus's from now on.
OpenConnection(t) ==
    /\ t.at = "connect"
    /\ \E c \in Sockets :
           /\ socket[c] = "none"
           /\ \A d \in 1 .. c - 1 : socket[d] # "none"
           /\ socket' = [socket EXCEPT ![c] = "open"]
           /\ connection' = c
           /\ goOn(t, [t EXCEPT !.at = "topology", !.on = c])
    /\ UNCHANGED <<consumers, publishChannel, subscriptions, exhausted, closing, refusals>>

ConnectionRefused(t) ==
    /\ t.at = "connect"
    /\ refusals < MaxRefusals
    /\ refusals' = refusals + 1
    /\ reconnect(t)
    /\ UNCHANGED <<socket, consumers, connection, publishChannel, subscriptions, closing>>

\* The channel to publish on, and the exchanges and the dead-letter queue.
AssertTopology(t) ==
    /\ t.at = "topology"
    /\ IF isOpen(t.on)
       THEN /\ publishChannel' = t.on
            /\ goOn(t, [t EXCEPT !.at = "resume"])
            /\ UNCHANGED exhausted
       ELSE reconnect(t) /\ UNCHANGED publishChannel
    /\ UNCHANGED <<socket, consumers, connection, subscriptions, closing, refusals>>

\* startConsumer: on the connection that is this bus's by now, if any.
startConsumer(t, s, after) ==
    IF connection = NoSocket \/ isOpen(connection)
    THEN /\ consumers' = [c \in Sockets |-> IF c = connection THEN consumers[c] \cup {s}
                                            ELSE consumers[c]]
         /\ after
         /\ UNCHANGED exhausted
    ELSE reconnect(t) /\ UNCHANGED consumers

\* The loop over the subscriptions also visits those that come meanwhile.
ResumeSubscription(t) ==
    /\ t.at = "resume"
    /\ LET left == {s \in subscriptions : s > t.seen}
       IN  \/ left = {} /\ tasks' = tasks \ {t} /\ UNCHANGED <<consumers, exhausted>>
           \/ \E s \in left : /\ \A r \in left : s <= r
                             /\ startConsumer(t, s, goOn(t, [t EXCEPT !.seen = s]))
    /\ UNCHANGED <<socket, connection, publishChannel, subscriptions, closing, refusals>>

\* subscribe: the subscription is kept, whether its consumer starts or not.
Subscribe(s) ==
    /\ s \notin subscriptions
    /\ \A r \in Specs : r < s => r \in subscriptions
    /\ ~closing
    /\ subscriptions' = subscriptions \cup {s}
    /\ tasks' = IF connection = NoSocket THEN tasks ELSE tasks \cup {Subscribing(s)}
    /\ UNCHANGED <<socket, consumers, connection, publishChannel, exhausted, closing, refusals>>

StartSubscribed(t) ==
    /\ t.at = "subscribe"
    /\ startConsumer(t, t.seen, tasks' = tasks \ {t})
    /\ UNCHANGED <<socket, connection, publishChannel, subscriptions, closing, refusals>>

\* Any connection that closes, the bus's own or an older one, takes the channel
\* away and begins a reconnection.
ConnectionLost(c) ==
    /\ socket[c] = "open"
    /\ \E d \in Sockets : socket[d] = "none"
    /\ socket' = [socket EXCEPT ![c] = "closed"]
    /\ consumers' = [consumers EXCEPT ![c] = {}]
    /\ publishChannel' = NoSocket
    /\ tasks' = IF closing THEN tasks ELSE tasks \cup {Connecting(c, 1)}
    /\ UNCHANGED <<connection, subscriptions, exhausted, closing, refusals>>

Close ==
    /\ ~closing
    /\ closing' = TRUE
    /\ IF isOpen(connection)
       THEN /\ socket' = [socket EXCEPT ![connection] = "closed"]
            /\ consumers' = [consumers EXCEPT ![connection] = {}]
       ELSE UNCHANGED <<socket, consumers>>
    /\ connection' = NoSocket
    /\ publishChannel' = NoSocket
    /\ UNCHANGED <<subscriptions, tasks, exhausted, refusals>>

BusNext ==
    \/ \E t \in tasks :
           \/ OpenConnection(t) \/ ConnectionRefused(t) \/ AssertTopology(t)
           \/ ResumeSubscription(t) \/ StartSubscribed(t)
    \/ \E s \in Specs : Subscribe(s)
    \/ \E c \in Sockets : ConnectionLost(c)
    \/ Close

BusSpec == BusInit /\ [][BusNext]_busVars

-----------------------------------------------------------------------------
(* Properties.                                                             *)

\* However many connections were lost, half way or not, and whatever was
\* subscribed meanwhile: when the bus is at rest it can publish, and every
\* subscription is consumed on a connection that is open.
BusIsWhole ==
    tasks = {} /\ ~closing /\ ~exhausted =>
        /\ isOpen(publishChannel)
        /\ \A s \in subscriptions : \E c \in Sockets : socket[c] = "open" /\ s \in consumers[c]
=============================================================================
