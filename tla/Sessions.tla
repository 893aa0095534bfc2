------------------------------ MODULE Sessions ------------------------------
(***************************************************************************)
(* The session of one user in one browser: the client of the web           *)
(* application (apps/web/lib/api/client.ts), one instance per tab, the     *)
(* cookie all tabs share, and the rotation of refresh tokens by the API    *)
(* (apps/api/src/auth/auth.service.ts).                                    *)
(*                                                                         *)
(* A call that is answered 401 waits for a refresh; the calls of one tab   *)
(* share the refresh that is in flight, those of other tabs do not.        *)
(***************************************************************************)
EXTENDS Naturals

CONSTANTS
    Tabs,
    Requests,  \* requests that pages have in flight at one time
    TabOf,     \* the tab of each
    NoToken,   \* no token, no request, no tab
    MaxTokens, \* refresh tokens that can be told apart at one time
    MaxLosses  \* how many requests or replies are lost: the model's bound

ASSUME SessionsAssumption ==
    /\ TabOf \in [Requests -> Tabs]
    /\ NoToken \notin Tabs \cup Requests \cup Nat
    /\ MaxTokens \in Nat /\ MaxLosses \in Nat

Tokens == 1 .. MaxTokens

VARIABLES
    cookie,    \* the refresh token in the browser's cookie
    token,     \* the RefreshToken rows
    rotatedBy, \* history: the tab whose refresh revoked the token
    signedIn,  \* the tabs that hold an access token
    inFlight,  \* refreshInFlight of each tab: the request that began it
    request,   \* where each request stands
    refresh,   \* where the refresh it began stands
    presented, \* the refresh token that was sent with it
    issued,    \* the refresh token the API made in return
    sign,      \* where the sign-in or sign-out of a tab stands
    signToken, \* the refresh token it is about
    losses

tokenVars == <<token, rotatedBy>>
refreshVars == <<refresh, presented, issued>>
signVars == <<sign, signToken>>
sessionVars == <<cookie, tokenVars, signedIn, inFlight, request, refreshVars,
                 signVars, losses>>

SessionsInit ==
    /\ cookie = NoToken
    /\ token = [n \in Tokens |-> "none"]
    /\ rotatedBy = [n \in Tokens |-> NoToken]
    /\ signedIn = {}
    /\ inFlight = [t \in Tabs |-> NoToken]
    /\ request = [k \in Requests |-> "idle"]
    /\ refresh = [k \in Requests |-> "none"]
    /\ presented = [k \in Requests |-> NoToken]
    /\ issued = [k \in Requests |-> NoToken]
    /\ sign = [t \in Tabs |-> "idle"]
    /\ signToken = [t \in Tabs |-> NoToken]
    /\ losses = 0

\* The tokens somebody holds.  A row whose token nobody holds is forgotten, so
\* that its number can stand for another.
heldTokens == {cookie} \cup {presented[k] : k \in Requests}
                      \cup {issued[k] : k \in Requests} \cup {signToken[t] : t \in Tabs}
forgetTokens ==
    /\ token' = [n \in Tokens |-> IF n \in heldTokens' THEN token[n] ELSE "none"]
    /\ rotatedBy' = [n \in Tokens |-> IF n \in heldTokens' THEN rotatedBy[n] ELSE NoToken]

\* issueTokens: a new row.
issueTokens(n) ==
    /\ n \notin heldTokens
    /\ \A m \in Tokens \ heldTokens : n <= m
    /\ token' = [token EXCEPT ![n] = "live"]
    /\ UNCHANGED rotatedBy

-----------------------------------------------------------------------------
(* The client: api() and ensureSession().                                  *)

\* Mutant: every 401 begins a refresh of its own.
joinRefreshAlways(k) ==
    /\ inFlight' = [inFlight EXCEPT ![TabOf[k]] = k]
    /\ refresh' = [refresh EXCEPT ![k] = "sent"]
    /\ presented' = [presented EXCEPT ![k] = cookie]

\* refreshSession: single flight within the tab.
joinRefresh(k) ==
    IF inFlight[TabOf[k]] = NoToken
    THEN /\ inFlight' = [inFlight EXCEPT ![TabOf[k]] = k]
         /\ refresh' = [refresh EXCEPT ![k] = "sent"]
         /\ presented' = [presented EXCEPT ![k] = cookie]
    ELSE UNCHANGED <<inFlight, refresh, presented>>

\* A request carries the token the tab holds, if it holds one.
Send(k) ==
    /\ request[k] = "idle"
    /\ request' = [request EXCEPT ![k] = "sent"]
    /\ UNCHANGED <<cookie, tokenVars, signedIn, inFlight, refreshVars, signVars,
                   losses>>

ensureSession(k) ==
    /\ request[k] = "idle"
    /\ TabOf[k] \notin signedIn
    /\ request' = [request EXCEPT ![k] = "restoring"]
    /\ joinRefresh(k)
    /\ UNCHANGED <<cookie, tokenVars, signedIn, issued, signVars, losses>>

Served(k) ==
    /\ request[k] \in {"sent", "resent"}
    /\ request' = [request EXCEPT ![k] = "idle"]
    /\ UNCHANGED <<cookie, tokenVars, signedIn, inFlight, refreshVars, signVars,
                   losses>>

\* A 401: the access token has expired, after fifteen minutes, or was not sent.
\* The first one waits for a refresh ...
Rejected(k) ==
    /\ request[k] = "sent"
    /\ request' = [request EXCEPT ![k] = "waiting"]
    /\ joinRefresh(k)
    /\ UNCHANGED <<cookie, tokenVars, signedIn, issued, signVars, losses>>

\* Mutant: so does every other.
RejectedRetry(k) ==
    /\ request[k] = "resent"
    /\ request' = [request EXCEPT ![k] = "waiting"]
    /\ joinRefresh(k)
    /\ UNCHANGED <<cookie, tokenVars, signedIn, issued, signVars, losses>>

\* ... the second is thrown to the caller.
RejectedAgain(k) ==
    /\ request[k] = "resent"
    /\ request' = [request EXCEPT ![k] = "idle"]
    /\ UNCHANGED <<cookie, tokenVars, signedIn, inFlight, refreshVars, signVars,
                   losses>>

waiting(t) == {k \in Requests : TabOf[k] = t /\ request[k] = "waiting"}
restoring(t) == {k \in Requests : TabOf[k] = t /\ request[k] = "restoring"}

endRefresh(k) ==
    /\ inFlight' = [inFlight EXCEPT ![TabOf[k]] = NoToken]
    /\ refresh' = [refresh EXCEPT ![k] = "none"]
    /\ presented' = [presented EXCEPT ![k] = NoToken]
    /\ issued' = [issued EXCEPT ![k] = NoToken]

\* The reply sets the cookie and the tab's token, whatever the user did since;
\* everything that waits is sent again.
RefreshArrives(k) ==
    /\ refresh[k] = "replied"
    /\ cookie' = issued[k]
    /\ signedIn' = signedIn \cup {TabOf[k]}
    /\ request' = [j \in Requests |->
                      CASE j \in waiting(TabOf[k]) -> "resent"
                        [] j \in restoring(TabOf[k]) -> "idle"
                        [] OTHER -> request[j]]
    /\ endRefresh(k)
    /\ UNCHANGED <<signVars, losses>>
    /\ forgetTokens

\* Without a new token a request that waits ends the session of its tab.
RefreshRefused(k) ==
    /\ refresh[k] = "refused"
    /\ signedIn' = IF waiting(TabOf[k]) = {} THEN signedIn ELSE signedIn \ {TabOf[k]}
    /\ request' = [j \in Requests |->
                      IF j \in waiting(TabOf[k]) \cup restoring(TabOf[k])
                      THEN "idle" ELSE request[j]]
    /\ endRefresh(k)
    /\ UNCHANGED <<cookie, signVars, losses>>
    /\ forgetTokens

-----------------------------------------------------------------------------
(* The API: refresh, login, logout.                                        *)

\* A token the API finds is live, or more than thirty days old, or revoked.
FindToken(k) ==
    /\ refresh[k] = "sent"
    /\ \/ /\ presented[k] # NoToken
          /\ token[presented[k]] = "live"
          /\ refresh' = [refresh EXCEPT ![k] = "found"]
          /\ UNCHANGED token
       \/ /\ refresh' = [refresh EXCEPT ![k] = "refused"]
          /\ IF presented[k] # NoToken /\ token[presented[k]] = "live"
             THEN token' = [token EXCEPT ![presented[k]] = "expired"]
             ELSE UNCHANGED token
    /\ UNCHANGED <<cookie, rotatedBy, signedIn, inFlight, request, presented,
                   issued, signVars, losses>>

\* The row that was found live is revoked, whatever has become of it.
RevokeToken(k) ==
    /\ refresh[k] = "found"
    /\ token' = [token EXCEPT ![presented[k]] = "revoked"]
    /\ rotatedBy' = [rotatedBy EXCEPT ![presented[k]] = TabOf[k]]
    /\ refresh' = [refresh EXCEPT ![k] = "revoked"]
    /\ UNCHANGED <<cookie, signedIn, inFlight, request, presented, issued,
                   signVars, losses>>

IssueToken(k) ==
    /\ refresh[k] = "revoked"
    /\ \E n \in Tokens : issueTokens(n) /\ issued' = [issued EXCEPT ![k] = n]
    /\ refresh' = [refresh EXCEPT ![k] = "replied"]
    /\ UNCHANGED <<cookie, signedIn, inFlight, request, presented, signVars,
                   losses>>

Lose ==
    /\ losses < MaxLosses
    /\ losses' = losses + 1

\* The request or its reply is lost, with or without the cookie it sets, or a
\* query of the API rejects.
RefreshFails(k) ==
    /\ refresh[k] \notin {"none", "refused"}
    /\ Lose
    /\ refresh' = [refresh EXCEPT ![k] = "refused"]
    /\ \/ UNCHANGED cookie
       \/ refresh[k] = "replied" /\ cookie' = issued[k]
    /\ UNCHANGED <<signedIn, inFlight, request, presented, issued, signVars>>
    /\ forgetTokens

Login(t) ==
    /\ sign[t] = "idle"
    /\ \E n \in Tokens : issueTokens(n) /\ signToken' = [signToken EXCEPT ![t] = n]
    /\ sign' = [sign EXCEPT ![t] = "loggedIn"]
    /\ UNCHANGED <<cookie, signedIn, inFlight, request, refreshVars, losses>>

LoginArrives(t) ==
    /\ sign[t] = "loggedIn"
    /\ cookie' = signToken[t]
    /\ signedIn' = signedIn \cup {t}
    /\ sign' = [sign EXCEPT ![t] = "idle"]
    /\ signToken' = [signToken EXCEPT ![t] = NoToken]
    /\ UNCHANGED <<inFlight, request, refreshVars, losses>>
    /\ forgetTokens

\* The tab forgets its token before the request is on its way.
Logout(t) ==
    /\ sign[t] = "idle"
    /\ signedIn' = signedIn \ {t}
    /\ sign' = [sign EXCEPT ![t] = "loggingOut"]
    /\ signToken' = [signToken EXCEPT ![t] = cookie]
    /\ UNCHANGED <<cookie, tokenVars, inFlight, request, refreshVars, losses>>

LogoutRevokes(t) ==
    /\ sign[t] = "loggingOut"
    /\ token' = [n \in Tokens |-> IF n = signToken[t] /\ token[n] = "live"
                                  THEN "revoked" ELSE token[n]]
    /\ sign' = [sign EXCEPT ![t] = "loggedOut"]
    /\ UNCHANGED <<cookie, rotatedBy, signedIn, inFlight, request, refreshVars,
                   signToken, losses>>

LogoutArrives(t) ==
    /\ sign[t] = "loggedOut"
    /\ cookie' = NoToken
    /\ sign' = [sign EXCEPT ![t] = "idle"]
    /\ signToken' = [signToken EXCEPT ![t] = NoToken]
    /\ UNCHANGED <<signedIn, inFlight, request, refreshVars, losses>>
    /\ forgetTokens

\* A sign-in or sign-out that is lost leaves the browser as it was.
SignFails(t) ==
    /\ sign[t] # "idle"
    /\ Lose
    /\ sign' = [sign EXCEPT ![t] = "idle"]
    /\ signToken' = [signToken EXCEPT ![t] = NoToken]
    /\ UNCHANGED <<cookie, signedIn, inFlight, request, refreshVars>>
    /\ forgetTokens

-----------------------------------------------------------------------------
Proceed(k) ==
    \/ Served(k) \/ Rejected(k) \/ RejectedAgain(k)
    \/ FindToken(k) \/ RevokeToken(k) \/ IssueToken(k)
    \/ RefreshArrives(k) \/ RefreshRefused(k)

Sign(t) ==
    \/ Login(t) \/ LoginArrives(t)
    \/ Logout(t) \/ LogoutRevokes(t) \/ LogoutArrives(t)

SessionsNext ==
    \/ \E k \in Requests :
           Send(k) \/ ensureSession(k) \/ Proceed(k) \/ RefreshFails(k)
    \/ \E t \in Tabs : Sign(t) \/ SignFails(t)

\* Requests are answered and continuations run; users need not do anything.
SessionsFairness == \A k \in Requests : WF_sessionVars(Proceed(k))

SessionsSpec == SessionsInit /\ [][SessionsNext]_sessionVars
FairSessionsSpec == SessionsSpec /\ SessionsFairness

-----------------------------------------------------------------------------
(* Properties.                                                             *)

\* Every variable holds a value of its type; refreshInFlight of a tab is a
\* refresh that a request of this tab began and that is not over.
SessionsTypeOK ==
    /\ cookie \in Tokens \cup {NoToken}
    /\ token \in [Tokens -> {"none", "live", "revoked", "expired"}]
    /\ rotatedBy \in [Tokens -> Tabs \cup {NoToken}]
    /\ signedIn \in SUBSET Tabs
    /\ inFlight \in [Tabs -> Requests \cup {NoToken}]
    /\ request \in [Requests -> {"idle", "sent", "waiting", "resent", "restoring"}]
    /\ refresh \in [Requests -> {"none", "sent", "found", "revoked", "replied",
                                 "refused"}]
    /\ presented \in [Requests -> Tokens \cup {NoToken}]
    /\ issued \in [Requests -> Tokens \cup {NoToken}]
    /\ sign \in [Tabs -> {"idle", "loggedIn", "loggingOut", "loggedOut"}]
    /\ signToken \in [Tabs -> Tokens \cup {NoToken}]
    /\ losses \in Nat
    /\ \A k \in Requests : refresh[k] # "none" <=> inFlight[TabOf[k]] = k

\* The 401s of a tab share one rotation: however they interleave with the
\* user's and other tabs' requests, a tab never presents a token that it had
\* rotated away itself, which would end a session that is still good.
OwnRotationIsKept ==
    \A k \in Requests :
        refresh[k] = "sent" /\ presented[k] # NoToken =>
            rotatedBy[presented[k]] # TabOf[k] \/ losses > 0

\* A request is answered or thrown: tokens that keep expiring, refreshes that
\* are refused and sign-outs cannot make it wait or be sent again for ever.
RequestsSettle == \A k \in Requests : request[k] # "idle" ~> request[k] = "idle"
=============================================================================
