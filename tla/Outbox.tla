------------------------------- MODULE Outbox -------------------------------
(***************************************************************************)
(* The transactional outbox (packages/events/src/outbox.ts): records saved *)
(* with the rows they are about, and relays that publish what was not      *)
(* published; and the in-process bus (in-memory-bus.ts), which hands an    *)
(* event to the subscriptions whose patterns match its name.  A publisher  *)
(* may also reject, like that of EventBus, with part of a batch sent.      *)
(***************************************************************************)
EXTENDS Naturals, Sequences, FiniteSets, SequencesExt

CONSTANTS
    Relays,
    batchSize,
    maxRelayAttempts,\* maxAttempts
    MaxSubscribed,   \* subscriptions at one time
    MaxStops         \* how often a relay is stopped or dies

ASSUME OutboxAssumption ==
    /\ batchSize \in Nat \ {0}
    /\ maxRelayAttempts \in Nat /\ MaxSubscribed \in Nat /\ MaxStops \in Nat

-----------------------------------------------------------------------------
(* Names of events, patterns, and which match.                             *)

\* The name of each record there may be, in the order in which they are saved.
eventNames == <<<<"video", "created">>, <<"pipeline", "stage", "failed">>>>

topicPatterns ==
    {{<<"#">>}, {<<"video", "*">>}, {<<"pipeline", "#">>}, {<<"#", "created">>},
     {<<"*", "#", "failed">>, <<"video", "created", "#">>}}

\* Mutant: "#" is one or more words.
matchTopicSome(pattern, key) ==
    LET match[at \in (1 .. Len(pattern) + 1) \X (1 .. Len(key) + 1)] ==
            LET p == at[1]
                k == at[2]
            IN  IF p > Len(pattern) THEN k > Len(key)
                ELSE /\ k <= Len(key)
                     /\ pattern[p] \in {"#", "*", key[k]}
                     /\ \/ match[<<p + 1, k + 1>>]
                        \/ pattern[p] = "#" /\ match[<<p, k + 1>>]
    IN  match[<<1, 1>>]

\* Whether the pattern from word p on stands for the name from word k on.
matchTopic(pattern, key) ==
    LET match[at \in (1 .. Len(pattern) + 1) \X (1 .. Len(key) + 1)] ==
            LET p == at[1]
                k == at[2]
            IN  IF p > Len(pattern) THEN k > Len(key)
                ELSE IF pattern[p] = "#"
                THEN match[<<p + 1, k>>] \/ (k <= Len(key) /\ match[<<p, k + 1>>])
                ELSE k <= Len(key) /\ pattern[p] \in {"*", key[k]} /\ match[<<p + 1, k + 1>>]
    IN  match[<<1, 1>>]

VARIABLES
    records,     \* the records that were saved: name, publishedAt, attempts
    relay,       \* each relay: timer, ticking, its batch, and how much of it was sent
    subscribed,  \* the patterns of each subscription of the bus
    reached,     \* <<subscription, record>>: its handler was called
    stops

outboxVars == <<records, relay, subscribed, reached, stops>>

NotTicking == [timer |-> FALSE, at |-> "idle", batch |-> <<>>, sent |-> 0]

OutboxInit ==
    /\ records = <<>>
    /\ relay = [r \in Relays |-> NotTicking]
    /\ subscribed = {}
    /\ reached = {}
    /\ stops = 0

setRelay(r, value) == relay' = [relay EXCEPT ![r] = value]

\* Processes subscribe while they start.
SubscribeTo(patterns) ==
    /\ records = <<>>
    /\ Cardinality(subscribed) < MaxSubscribed
    /\ subscribed' = subscribed \cup {patterns}
    /\ UNCHANGED <<records, relay, reached, stops>>

Unsubscribe(patterns) ==
    /\ subscribed' = subscribed \ {patterns}
    /\ UNCHANGED <<records, relay, reached, stops>>

SaveRecord ==
    /\ Len(records) < Len(eventNames)
    /\ records' = Append(records, [name |-> eventNames[Len(records) + 1],
                                  published |-> FALSE, attempts |-> 0])
    /\ UNCHANGED <<relay, subscribed, reached, stops>>

-----------------------------------------------------------------------------
(* Relays.                                                                 *)

StartRelay(r) ==
    /\ ~relay[r].timer
    /\ setRelay(r, [relay[r] EXCEPT !.timer = TRUE])
    /\ UNCHANGED <<records, subscribed, reached, stops>>

\* stop waits for the pass that is under way: it goes on.
StopRelay(r) ==
    /\ relay[r].timer
    /\ stops < MaxStops
    /\ stops' = stops + 1
    /\ setRelay(r, [relay[r] EXCEPT !.timer = FALSE])
    /\ UNCHANGED <<records, subscribed, reached>>

RelayDies(r) ==
    /\ stops < MaxStops
    /\ stops' = stops + 1
    /\ relay[r] # NotTicking
    /\ setRelay(r, NotTicking)
    /\ UNCHANGED <<records, subscribed, reached>>

unpublished ==
    {i \in DOMAIN records : ~records[i].published /\ records[i].attempts < maxRelayAttempts}

\* The first records that are not published, oldest first: what is left out was
\* saved later, and the batch is full.
fetchUnpublished ==
    {batch \in UNION {[1 .. n -> unpublished] : n \in 0 .. batchSize} :
        /\ \A j, k \in DOMAIN batch : j < k => batch[j] < batch[k]
        /\ \A i \in unpublished \ Range(batch) :
               Len(batch) = batchSize /\ batch[batchSize] < i}

\* tick: one pass at a time.
Tick(r) ==
    /\ relay[r].timer
    /\ relay[r].at = "idle"
    /\ \E batch \in fetchUnpublished :
           /\ batch # <<>>
           /\ setRelay(r, [relay[r] EXCEPT !.at = "publishing", !.batch = batch, !.sent = 0])
    /\ UNCHANGED <<records, subscribed, reached, stops>>

\* publish: every subscription with a pattern that matches gets the event; when
\* its handler rejects, the event is kept as a dead letter and publish goes on.
Publish(r) ==
    /\ relay[r].at = "publishing"
    /\ relay[r].sent < Len(relay[r].batch)
    /\ LET i == relay[r].batch[relay[r].sent + 1]
           to == {s \in subscribed : \E pattern \in s : matchTopic(pattern, records[i].name)}
       IN  reached' = reached \cup (to \X {i})
    /\ setRelay(r, [relay[r] EXCEPT !.sent = @ + 1])
    /\ UNCHANGED <<records, subscribed, stops>>

PublishRejected(r) ==
    /\ relay[r].at = "publishing"
    /\ setRelay(r, [relay[r] EXCEPT !.at = "failed"])
    /\ UNCHANGED <<records, subscribed, reached, stops>>

ids(r) == {relay[r].batch[k] : k \in DOMAIN relay[r].batch}
endTick(r) == setRelay(r, [NotTicking EXCEPT !.timer = relay[r].timer])

MarkPublished(r) ==
    /\ relay[r].at = "publishing"
    /\ relay[r].sent = Len(relay[r].batch)
    /\ records' = [i \in DOMAIN records |->
                      IF i \in ids(r) THEN [records[i] EXCEPT !.published = TRUE] ELSE records[i]]
    /\ endTick(r)
    /\ UNCHANGED <<subscribed, reached, stops>>

IncrementAttempts(r) ==
    /\ relay[r].at = "failed"
    /\ records' = [i \in DOMAIN records |->
                      IF i \in ids(r) THEN [records[i] EXCEPT !.attempts = @ + 1] ELSE records[i]]
    /\ endTick(r)
    /\ UNCHANGED <<subscribed, reached, stops>>

OutboxNext ==
    \/ \E patterns \in topicPatterns : SubscribeTo(patterns)
    \/ \E patterns \in subscribed : Unsubscribe(patterns)
    \/ SaveRecord
    \/ \E r \in Relays :
           \/ StartRelay(r) \/ StopRelay(r) \/ RelayDies(r)
           \/ Tick(r) \/ Publish(r) \/ PublishRejected(r)
           \/ MarkPublished(r) \/ IncrementAttempts(r)

OutboxSpec == OutboxInit /\ [][OutboxNext]_outboxVars

-----------------------------------------------------------------------------
(* Properties.                                                             *)

\* What a pattern stands for: the name can be cut, so that each word of the
\* pattern has its part: "#" any part, and any other word one word.
covers(pattern, key) ==
    \E cut \in [0 .. Len(pattern) -> 0 .. Len(key)] :
        /\ cut[0] = 0 /\ cut[Len(pattern)] = Len(key)
        /\ \A p \in 1 .. Len(pattern) :
               IF pattern[p] = "#" THEN cut[p - 1] <= cut[p]
               ELSE /\ cut[p] = cut[p - 1] + 1
                    /\ pattern[p] \in {"*", key[cut[p]]}

\* Whatever relays do at the same time, and however often one stops, dies or is
\* rejected half way: a record that counts as published has reached every
\* subscription with a pattern that stands for its name, and a subscription was
\* reached by nothing else.
PublishedReachesAll ==
    \A s \in subscribed, i \in DOMAIN records :
        LET meant == \E pattern \in s : covers(pattern, records[i].name)
        IN  /\ records[i].published /\ meant => <<s, i>> \in reached
            /\ <<s, i>> \in reached => meant
=============================================================================
