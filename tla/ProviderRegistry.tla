-------------------------- MODULE ProviderRegistry --------------------------
(***************************************************************************)
(* The provider directory of one worker process (ai-sdk/registry.ts), for  *)
(* one capability: the ordered list of providers, the cache of health      *)
(* results, and the concurrent calls of execute() and resolve() that walk  *)
(* the chain of candidates with failover.                                  *)
(*                                                                         *)
(* The clock is abstracted: a cached result stays fresh until some later   *)
(* step of Expire.  What onHealthChange announces is left out.             *)
(***************************************************************************)
EXTENDS Naturals, Sequences, FiniteSets, SequencesExt

CONSTANTS
    Providers,   \* ids of the providers of the capability
    NoProvider,  \* a value that is not a provider
    Priority,    \* their priorities: the lower number goes first
    Calls,       \* concurrent callers
    Resolvers,   \* the callers that call resolve(), the others execute()
    Eligible,    \* what deployment, language and providerId leave to each
    Reliable,    \* providers that never fail: an assumption on the world
    Aborters,    \* the callers that may abort their call
    MaxAdmin     \* registrations, switches and pins: the model's bound

ASSUME RegistryAssumption ==
    /\ IsFiniteSet(Providers) /\ NoProvider \notin Providers
    /\ Priority \in [Providers -> Nat]
    /\ Resolvers \subseteq Calls
    /\ Aborters \subseteq Calls
    /\ Eligible \in [Calls -> SUBSET Providers]
    /\ Reliable \subseteq Providers
    /\ MaxAdmin \in Nat

VARIABLES
    list,      \* entries of the capability, in the order kept by register
    enabled,   \* providers that are switched on
    override,  \* the organization's pinned provider
    health,    \* the last health result of each provider
    fresh,     \* providers whose health result has not expired
    pc,        \* where each call stands
    chain,     \* the candidates it has not looked at yet
    current,   \* the provider it looks at or uses
    planned,   \* history: all the candidates it began with
    outputs,   \* history: providers whose output it handed on, this time
    failed,    \* history: providers it gave up, this time
    pin,       \* history: the pinned provider when it began
    aborted,   \* history: providers marked unhealthy by an abort
    admin      \* number of administrative steps

entryVars == <<list, enabled, override>>
healthVars == <<health, fresh>>
callVars == <<pc, chain, current, planned, outputs, failed, pin>>
vars == <<entryVars, healthVars, callVars, aborted, admin>>

\* Mutant: the list is not sorted after the push.
insertLast(p, entries) == {Append(entries, p)}

\* A provider is entered behind those that do not go after it.
insert(p, entries) ==
    {InsertAt(entries, i, p) : i \in
        {k \in 1 .. Len(entries) + 1 :
            \A j \in DOMAIN entries : j < k <=> Priority[entries[j]] <= Priority[p]}}

sorted(entries) ==
    \A i, j \in DOMAIN entries :
        i < j => Priority[entries[i]] <= Priority[entries[j]]

\* The plugins that could be loaded have registered their providers; nothing
\* has been probed yet.
Init ==
    /\ list \in {l \in UNION {SetToSeqs(S) : S \in SUBSET Providers} : sorted(l)}
    /\ enabled = Providers
    /\ override = NoProvider
    /\ health = [p \in Providers |-> "unknown"]
    /\ fresh = {}
    /\ pc = [c \in Calls |-> "idle"]
    /\ chain = [c \in Calls |-> <<>>]
    /\ current = [c \in Calls |-> NoProvider]
    /\ planned = [c \in Calls |-> {}]
    /\ outputs = [c \in Calls |-> {}]
    /\ failed = [c \in Calls |-> {}]
    /\ pin = [c \in Calls |-> NoProvider]
    /\ aborted = {}
    /\ admin = 0

-----------------------------------------------------------------------------
(* Administration.                                                         *)

Administer == admin < MaxAdmin /\ admin' = admin + 1

Register(p) ==
    /\ Administer
    /\ ~Contains(list, p)
    /\ list' \in insert(p, list)
    /\ enabled' = enabled \cup {p}
    /\ UNCHANGED <<override, healthVars, callVars, aborted>>

\* The entry and its health result go; calls keep the chain they copied.
Unregister(p) ==
    /\ Administer
    /\ Contains(list, p)
    /\ \E i \in DOMAIN list : list[i] = p /\ list' = RemoveAt(list, i)
    /\ health' = [health EXCEPT ![p] = "unknown"]
    /\ fresh' = fresh \ {p}
    /\ UNCHANGED <<enabled, override, callVars, aborted>>

SetEnabled(p, on) ==
    /\ Administer
    /\ Contains(list, p)
    /\ enabled' = IF on THEN enabled \cup {p} ELSE enabled \ {p}
    /\ UNCHANGED <<list, override, healthVars, callVars, aborted>>

\* Pins the capability to a provider, known or not, or clears the pin.
SetOrgOverride(p) ==
    /\ Administer
    /\ override' = p
    /\ UNCHANGED <<list, enabled, healthVars, callVars, aborted>>

Expire(p) ==
    /\ p \in fresh
    /\ fresh' = fresh \ {p}
    /\ UNCHANGED <<entryVars, health, callVars, aborted, admin>>

-----------------------------------------------------------------------------
(* Calls.                                                                  *)

CallGoto(c, label) == pc' = [pc EXCEPT ![c] = label]

\* Candidates are tried in the order of the list; a pinned provider goes first
\* if it is one.
goesBefore(p, q) ==
    /\ q # override
    /\ \/ p = override
       \/ \E i, j \in DOMAIN list : i < j /\ list[i] = p /\ list[j] = q

candidates(c) ==
    {order \in SetToSeqs(ToSet(list) \cap enabled \cap Eligible[c]) :
        \A i, j \in DOMAIN order : i < j => goesBefore(order[i], order[j])}

Begin(c) ==
    /\ pc[c] \in {"idle", "returned", "threw", "unavailable"}
    /\ \E order \in candidates(c) :
           /\ chain' = [chain EXCEPT ![c] = order]
           /\ planned' = [planned EXCEPT ![c] = ToSet(order)]
    /\ current' = [current EXCEPT ![c] = NoProvider]
    /\ outputs' = [outputs EXCEPT ![c] = {}]
    /\ failed' = [failed EXCEPT ![c] = {}]
    /\ pin' = [pin EXCEPT ![c] = override]
    /\ CallGoto(c, "next")
    /\ UNCHANGED <<entryVars, healthVars, aborted, admin>>

\* The next candidate, if there is one: a fresh result of isHealthy decides at
\* once, otherwise the provider is asked.
Look(c) ==
    /\ pc[c] = "next"
    /\ chain[c] # <<>>
    /\ LET p == Head(chain[c])
       IN  /\ current' = [current EXCEPT ![c] = p]
           /\ CallGoto(c, IF p \notin fresh THEN "probe"
                          ELSE IF health[p] = "healthy" THEN "use" ELSE "next")
           /\ failed' = IF p \in fresh /\ health[p] # "healthy"
                        THEN [failed EXCEPT ![c] = @ \cup {p}] ELSE failed
    /\ chain' = [chain EXCEPT ![c] = Tail(@)]
    /\ UNCHANGED <<entryVars, healthVars, planned, outputs, pin, aborted, admin>>

\* ProviderUnavailableError.
Exhausted(c) ==
    /\ pc[c] = "next"
    /\ chain[c] = <<>>
    /\ CallGoto(c, "unavailable")
    /\ UNCHANGED <<entryVars, healthVars, chain, current, planned, outputs,
                   failed, pin, aborted, admin>>

\* Mutant: an unhealthy candidate ends the call.
ProbedOnce(c) ==
    /\ pc[c] = "probe"
    /\ \E answer \in {"healthy", "unhealthy"} :
           /\ answer = "unhealthy" => current[c] \notin Reliable
           /\ health' = [health EXCEPT ![current[c]] = answer]
           /\ CallGoto(c, IF answer = "healthy" THEN "use" ELSE "unavailable")
           /\ failed' = IF answer = "healthy" THEN failed
                        ELSE [failed EXCEPT ![c] = @ \cup {current[c]}]
    /\ fresh' = fresh \cup {current[c]}
    /\ UNCHANGED <<entryVars, chain, current, planned, outputs, pin, aborted, admin>>

\* health() answers, or rejects, which counts as unhealthy.  The result is
\* cached over whatever another call has learnt meanwhile, also for a provider
\* that was unregistered.
Probed(c) ==
    /\ pc[c] = "probe"
    /\ \E answer \in {"healthy", "unhealthy"} :
           /\ answer = "unhealthy" => current[c] \notin Reliable
           /\ health' = [health EXCEPT ![current[c]] = answer]
           /\ CallGoto(c, IF answer = "healthy" THEN "use" ELSE "next")
           /\ failed' = IF answer = "healthy" THEN failed
                        ELSE [failed EXCEPT ![c] = @ \cup {current[c]}]
    /\ fresh' = fresh \cup {current[c]}
    /\ UNCHANGED <<entryVars, chain, current, planned, outputs, pin, aborted, admin>>

\* resolve() returns the provider.
Resolved(c) ==
    /\ c \in Resolvers
    /\ pc[c] = "use"
    /\ CallGoto(c, "returned")
    /\ UNCHANGED <<entryVars, healthVars, chain, current, planned, outputs,
                   failed, pin, aborted, admin>>

\* An output event of generate() is handed on.
Output(c) ==
    /\ c \notin Resolvers
    /\ pc[c] \in {"use", "committed"}
    /\ outputs' = [outputs EXCEPT ![c] = @ \cup {current[c]}]
    /\ CallGoto(c, "committed")
    /\ UNCHANGED <<entryVars, healthVars, chain, current, planned, failed,
                   pin, aborted, admin>>

\* generate() ends, whether or not it had any output.
End(c) ==
    /\ c \notin Resolvers
    /\ pc[c] \in {"use", "committed"}
    /\ CallGoto(c, "returned")
    /\ UNCHANGED <<entryVars, healthVars, chain, current, planned, outputs,
                   failed, pin, aborted, admin>>

\* Mutant: the next candidate takes over in the middle of a stream.
FailAnyTime(c) ==
    /\ c \notin Resolvers
    /\ pc[c] \in {"use", "committed"}
    /\ current[c] \notin Reliable
    /\ health' = [health EXCEPT ![current[c]] = "unhealthy"]
    /\ fresh' = fresh \cup {current[c]}
    /\ failed' = [failed EXCEPT ![c] = @ \cup {current[c]}]
    /\ CallGoto(c, "next")
    /\ UNCHANGED <<entryVars, chain, current, planned, outputs, pin, aborted, admin>>

\* generate() throws: markUnhealthy, then failover, unless output has been
\* handed on or the caller aborted.
Fail(c) ==
    /\ c \notin Resolvers
    /\ pc[c] \in {"use", "committed"}
    /\ \E abort \in BOOLEAN :
           /\ abort => c \in Aborters
           /\ current[c] \in Reliable => abort
           /\ CallGoto(c, IF abort \/ pc[c] = "committed" THEN "threw" ELSE "next")
           /\ aborted' = IF abort THEN aborted \cup {current[c]} ELSE aborted
    /\ health' = [health EXCEPT ![current[c]] = "unhealthy"]
    /\ fresh' = fresh \cup {current[c]}
    /\ failed' = [failed EXCEPT ![c] = @ \cup {current[c]}]
    /\ UNCHANGED <<entryVars, chain, current, planned, outputs, pin, admin>>

-----------------------------------------------------------------------------
Admin(p) ==
    \/ Register(p)
    \/ Unregister(p)
    \/ \E on \in BOOLEAN : SetEnabled(p, on)

Call(c) ==
    \/ Begin(c)
    \/ Look(c)
    \/ Exhausted(c)
    \/ Probed(c)
    \/ Resolved(c)
    \/ Output(c)
    \/ End(c)
    \/ Fail(c)

Next ==
    \/ \E p \in Providers : Admin(p) \/ Expire(p)
    \/ \E p \in Providers \cup {NoProvider} : SetOrgOverride(p)
    \/ \E c \in Calls : Call(c)

Spec == Init /\ [][Next]_vars

-----------------------------------------------------------------------------
(* Properties.                                                             *)

\* What execute() hands on comes from one provider: it fails over only before
\* the first output, so no artifact is spliced from two models.
NoSplicing == \A c \in Calls : \A p, q \in outputs[c] : p = q

\* A call ends with ProviderUnavailableError only after it gave up every
\* candidate, and a candidate that never fails it gave up only because some
\* caller's abort had it marked unhealthy.
UnavailableIsJustified ==
    \A c \in Calls : pc[c] = "unavailable" =>
        /\ planned[c] \subseteq failed[c]
        /\ planned[c] \cap Reliable \subseteq aborted

\* A call uses a provider only when it gave up the candidates of a lower
\* priority number, or the organization pinned that provider, however the
\* entries were registered, removed or switched before and meanwhile.
BetterProvidersFirst ==
    \A c \in Calls : pc[c] \in {"use", "committed"} /\ current[c] # pin[c] =>
        \A p \in planned[c] : Priority[p] < Priority[current[c]] => p \in failed[c]
=============================================================================
