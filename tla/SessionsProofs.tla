--------------------------- MODULE SessionsProofs ---------------------------
(***************************************************************************)
(* Theorems about Sessions, for any number of tabs, requests and tokens.   *)
(*                                                                         *)
(* A tab that revokes a token leaves it in the cookie until its refresh is *)
(* over (RotationInv); every other token that reaches the cookie is one    *)
(* that nobody had before (FreshInv).  Since a tab has one refresh at a    *)
(* time, it never sends what it has revoked itself.                        *)
(***************************************************************************)
EXTENDS Sessions, TLAPS

\* What a refresh and a sign-in hold at each step of their code.
StageInv ==
    /\ \A k \in Requests :
           refresh[k] = "none" => presented[k] = NoToken /\ issued[k] = NoToken
    /\ \A k \in Requests :
           refresh[k] \in {"sent", "found", "revoked"} => issued[k] = NoToken
    /\ \A t \in Tabs : sign[t] = "idle" => signToken[t] = NoToken
    /\ \A t \in Tabs : sign[t] = "loggedIn" => signToken[t] \in Tokens

\* The number of a forgotten token carries no history.
ForgottenInv ==
    \A n \in Tokens : n \notin heldTokens => rotatedBy[n] = NoToken

\* A token on its way to the browser: neither there yet nor used.
untouched(n) ==
    /\ n # cookie
    /\ \A k \in Requests : presented[k] # n
    /\ rotatedBy[n] = NoToken

\* Each token on its way is untouched and on its way to one tab only.
FreshInv ==
    losses = 0 =>
        /\ \A k \in Requests : issued[k] # NoToken => untouched(issued[k])
        /\ \A t \in Tabs : sign[t] = "loggedIn" => untouched(signToken[t])
        /\ \A j, k \in Requests :
               j # k /\ issued[k] # NoToken => issued[j] # issued[k]
        /\ \A k \in Requests, t \in Tabs :
               sign[t] = "loggedIn" => issued[k] # signToken[t]
        /\ \A t, u \in Tabs :
               t # u /\ sign[t] = "loggedIn" /\ sign[u] = "loggedIn"
                   => signToken[t] # signToken[u]

\* A token that a tab has revoked is in the cookie only while the tab's refresh
\* is still on its way.
RotationInv ==
    losses = 0 =>
        \A t \in Tabs :
            cookie # NoToken /\ rotatedBy[cookie] = t =>
                \E k \in Requests : /\ inFlight[t] = k
                                    /\ presented[k] = cookie
                                    /\ refresh[k] \in {"revoked", "replied"}

SessionsInv ==
    /\ SessionsTypeOK /\ StageInv /\ ForgottenInv
    /\ FreshInv /\ RotationInv /\ OwnRotationIsKept

-----------------------------------------------------------------------------
(* One lemma per conjunct, one step per action.                            *)

\* Every step keeps the types.
LEMMA TypeStep ==
    ASSUME SessionsTypeOK, [SessionsNext]_sessionVars
    PROVE  SessionsTypeOK'
<1> USE SessionsAssumption DEF SessionsTypeOK, refreshVars, signVars, tokenVars
<1>1. ASSUME NEW k \in Requests, Send(k) PROVE SessionsTypeOK'
    BY <1>1 DEF Send
<1>2. ASSUME NEW k \in Requests, ensureSession(k) PROVE SessionsTypeOK'
    BY <1>2 DEF ensureSession, joinRefresh
<1>3. ASSUME NEW k \in Requests, Served(k) PROVE SessionsTypeOK'
    BY <1>3 DEF Served
<1>4. ASSUME NEW k \in Requests, Rejected(k) PROVE SessionsTypeOK'
    BY <1>4 DEF Rejected, joinRefresh
<1>5. ASSUME NEW k \in Requests, RejectedAgain(k) PROVE SessionsTypeOK'
    BY <1>5 DEF RejectedAgain
<1>6. ASSUME NEW k \in Requests, FindToken(k) PROVE SessionsTypeOK'
    BY <1>6 DEF FindToken
<1>7. ASSUME NEW k \in Requests, RevokeToken(k) PROVE SessionsTypeOK'
    BY <1>7 DEF RevokeToken
<1>8. ASSUME NEW k \in Requests, IssueToken(k) PROVE SessionsTypeOK'
    BY <1>8 DEF IssueToken, issueTokens
<1>9. ASSUME NEW k \in Requests, RefreshArrives(k) PROVE SessionsTypeOK'
    BY <1>9 DEF RefreshArrives, endRefresh, forgetTokens, waiting, restoring
<1>10. ASSUME NEW k \in Requests, RefreshRefused(k) PROVE SessionsTypeOK'
    BY <1>10 DEF RefreshRefused, endRefresh, forgetTokens, waiting, restoring
<1>11. ASSUME NEW k \in Requests, RefreshFails(k) PROVE SessionsTypeOK'
    BY <1>11 DEF RefreshFails, Lose, forgetTokens
<1>12. ASSUME NEW t \in Tabs, Login(t) PROVE SessionsTypeOK'
    BY <1>12 DEF Login, issueTokens
<1>13. ASSUME NEW t \in Tabs, LoginArrives(t) PROVE SessionsTypeOK'
    BY <1>13 DEF LoginArrives, forgetTokens
<1>14. ASSUME NEW t \in Tabs, Logout(t) PROVE SessionsTypeOK'
    BY <1>14 DEF Logout
<1>15. ASSUME NEW t \in Tabs, LogoutRevokes(t) PROVE SessionsTypeOK'
    BY <1>15 DEF LogoutRevokes
<1>16. ASSUME NEW t \in Tabs, LogoutArrives(t) PROVE SessionsTypeOK'
    BY <1>16 DEF LogoutArrives, forgetTokens
<1>17. ASSUME NEW t \in Tabs, SignFails(t) PROVE SessionsTypeOK'
    BY <1>17 DEF SignFails, Lose, forgetTokens
<1>18. CASE UNCHANGED sessionVars
    BY <1>18 DEF sessionVars
<1> QED BY <1>1, <1>2, <1>3, <1>4, <1>5, <1>6, <1>7, <1>8, <1>9, <1>10, <1>11,
       <1>12, <1>13, <1>14, <1>15, <1>16, <1>17, <1>18 DEF SessionsNext,
       Proceed, Sign

\* Every step keeps what refreshes and sign-ins hold.
LEMMA StageStep ==
    ASSUME SessionsTypeOK, StageInv, [SessionsNext]_sessionVars
    PROVE  StageInv'
<1> USE SessionsAssumption
       DEF SessionsTypeOK, StageInv, refreshVars, signVars, tokenVars
<1>1. ASSUME NEW k \in Requests, Send(k) PROVE StageInv'
    BY <1>1 DEF Send
<1>2. ASSUME NEW k \in Requests, ensureSession(k) PROVE StageInv'
    BY <1>2 DEF ensureSession, joinRefresh
<1>3. ASSUME NEW k \in Requests, Served(k) PROVE StageInv'
    BY <1>3 DEF Served
<1>4. ASSUME NEW k \in Requests, Rejected(k) PROVE StageInv'
    BY <1>4 DEF Rejected, joinRefresh
<1>5. ASSUME NEW k \in Requests, RejectedAgain(k) PROVE StageInv'
    BY <1>5 DEF RejectedAgain
<1>6. ASSUME NEW k \in Requests, FindToken(k) PROVE StageInv'
    BY <1>6 DEF FindToken
<1>7. ASSUME NEW k \in Requests, RevokeToken(k) PROVE StageInv'
    BY <1>7 DEF RevokeToken
<1>8. ASSUME NEW k \in Requests, IssueToken(k) PROVE StageInv'
    BY <1>8 DEF IssueToken, issueTokens
<1>9. ASSUME NEW k \in Requests, RefreshArrives(k) PROVE StageInv'
    BY <1>9 DEF RefreshArrives, endRefresh, forgetTokens, waiting, restoring
<1>10. ASSUME NEW k \in Requests, RefreshRefused(k) PROVE StageInv'
    BY <1>10 DEF RefreshRefused, endRefresh, forgetTokens, waiting, restoring
<1>11. ASSUME NEW k \in Requests, RefreshFails(k) PROVE StageInv'
    BY <1>11 DEF RefreshFails, Lose, forgetTokens
<1>12. ASSUME NEW t \in Tabs, Login(t) PROVE StageInv'
    BY <1>12 DEF Login, issueTokens
<1>13. ASSUME NEW t \in Tabs, LoginArrives(t) PROVE StageInv'
    BY <1>13 DEF LoginArrives, forgetTokens
<1>14. ASSUME NEW t \in Tabs, Logout(t) PROVE StageInv'
    BY <1>14 DEF Logout
<1>15. ASSUME NEW t \in Tabs, LogoutRevokes(t) PROVE StageInv'
    BY <1>15 DEF LogoutRevokes
<1>16. ASSUME NEW t \in Tabs, LogoutArrives(t) PROVE StageInv'
    BY <1>16 DEF LogoutArrives, forgetTokens
<1>17. ASSUME NEW t \in Tabs, SignFails(t) PROVE StageInv'
    BY <1>17 DEF SignFails, Lose, forgetTokens
<1>18. CASE UNCHANGED sessionVars
    BY <1>18 DEF sessionVars
<1> QED BY <1>1, <1>2, <1>3, <1>4, <1>5, <1>6, <1>7, <1>8, <1>9, <1>10, <1>11,
       <1>12, <1>13, <1>14, <1>15, <1>16, <1>17, <1>18 DEF SessionsNext,
       Proceed, Sign

\* Every step keeps the numbers of forgotten tokens clean.
LEMMA ForgottenStep ==
    ASSUME SessionsTypeOK, StageInv, ForgottenInv, [SessionsNext]_sessionVars
    PROVE  ForgottenInv'
<1> USE SessionsAssumption DEF SessionsTypeOK, StageInv, ForgottenInv,
       refreshVars, signVars, tokenVars
<1>1. ASSUME NEW k \in Requests, Send(k) PROVE ForgottenInv'
    BY <1>1 DEF Send, heldTokens
<1>2. ASSUME NEW k \in Requests, ensureSession(k) PROVE ForgottenInv'
    BY <1>2 DEF ensureSession, joinRefresh, heldTokens
<1>3. ASSUME NEW k \in Requests, Served(k) PROVE ForgottenInv'
    BY <1>3 DEF Served, heldTokens
<1>4. ASSUME NEW k \in Requests, Rejected(k) PROVE ForgottenInv'
    BY <1>4 DEF Rejected, joinRefresh, heldTokens
<1>5. ASSUME NEW k \in Requests, RejectedAgain(k) PROVE ForgottenInv'
    BY <1>5 DEF RejectedAgain, heldTokens
<1>6. ASSUME NEW k \in Requests, FindToken(k) PROVE ForgottenInv'
    BY <1>6 DEF FindToken, heldTokens
<1>7. ASSUME NEW k \in Requests, RevokeToken(k) PROVE ForgottenInv'
    BY <1>7 DEF RevokeToken, heldTokens
<1>8. ASSUME NEW k \in Requests, IssueToken(k) PROVE ForgottenInv'
    <2>1. \A n \in heldTokens : n # NoToken => n \in heldTokens'
        BY <1>8 DEF IssueToken, issueTokens, heldTokens
    <2> QED BY <1>8, <2>1 DEF IssueToken, issueTokens, Tokens
<1>9. ASSUME NEW k \in Requests, RefreshArrives(k) PROVE ForgottenInv'
    BY <1>9 DEF RefreshArrives, endRefresh, forgetTokens, waiting, restoring
<1>10. ASSUME NEW k \in Requests, RefreshRefused(k) PROVE ForgottenInv'
    BY <1>10 DEF RefreshRefused, endRefresh, forgetTokens, waiting, restoring
<1>11. ASSUME NEW k \in Requests, RefreshFails(k) PROVE ForgottenInv'
    BY <1>11 DEF RefreshFails, Lose, forgetTokens
<1>12. ASSUME NEW t \in Tabs, Login(t) PROVE ForgottenInv'
    <2>1. \A n \in heldTokens : n # NoToken => n \in heldTokens'
        BY <1>12 DEF Login, issueTokens, heldTokens
    <2> QED BY <1>12, <2>1 DEF Login, issueTokens, Tokens
<1>13. ASSUME NEW t \in Tabs, LoginArrives(t) PROVE ForgottenInv'
    BY <1>13 DEF LoginArrives, forgetTokens
<1>14. ASSUME NEW t \in Tabs, Logout(t) PROVE ForgottenInv'
    <2>1. \A n \in heldTokens : n # NoToken => n \in heldTokens'
        BY <1>14 DEF Logout, heldTokens
    <2> QED BY <1>14, <2>1 DEF Logout, Tokens
<1>15. ASSUME NEW t \in Tabs, LogoutRevokes(t) PROVE ForgottenInv'
    BY <1>15 DEF LogoutRevokes, heldTokens
<1>16. ASSUME NEW t \in Tabs, LogoutArrives(t) PROVE ForgottenInv'
    BY <1>16 DEF LogoutArrives, forgetTokens
<1>17. ASSUME NEW t \in Tabs, SignFails(t) PROVE ForgottenInv'
    BY <1>17 DEF SignFails, Lose, forgetTokens
<1>18. CASE UNCHANGED sessionVars
    BY <1>18 DEF sessionVars, heldTokens
<1> QED BY <1>1, <1>2, <1>3, <1>4, <1>5, <1>6, <1>7, <1>8, <1>9, <1>10, <1>11,
       <1>12, <1>13, <1>14, <1>15, <1>16, <1>17, <1>18 DEF SessionsNext,
       Proceed, Sign

\* Every step keeps the tokens on their way untouched.
LEMMA FreshStep ==
    ASSUME SessionsTypeOK, StageInv, ForgottenInv, FreshInv, [SessionsNext]_sessionVars
    PROVE  FreshInv'
<1> USE SessionsAssumption DEF SessionsTypeOK, StageInv, ForgottenInv, FreshInv,
       untouched, refreshVars, signVars, tokenVars
<1>1. ASSUME NEW k \in Requests, Send(k) PROVE FreshInv'
    BY <1>1 DEF Send
<1>2. ASSUME NEW k \in Requests, ensureSession(k) PROVE FreshInv'
    BY <1>2 DEF ensureSession, joinRefresh
<1>3. ASSUME NEW k \in Requests, Served(k) PROVE FreshInv'
    BY <1>3 DEF Served
<1>4. ASSUME NEW k \in Requests, Rejected(k) PROVE FreshInv'
    BY <1>4 DEF Rejected, joinRefresh
<1>5. ASSUME NEW k \in Requests, RejectedAgain(k) PROVE FreshInv'
    BY <1>5 DEF RejectedAgain
<1>6. ASSUME NEW k \in Requests, FindToken(k) PROVE FreshInv'
    BY <1>6 DEF FindToken
<1>7. ASSUME NEW k \in Requests, RevokeToken(k) PROVE FreshInv'
    BY <1>7 DEF RevokeToken
<1>8. ASSUME NEW k \in Requests, IssueToken(k) PROVE FreshInv'
    BY <1>8 DEF IssueToken, issueTokens, heldTokens, Tokens
<1>9. ASSUME NEW k \in Requests, RefreshArrives(k) PROVE FreshInv'
    BY <1>9
       DEF RefreshArrives, endRefresh, forgetTokens, waiting, restoring, Tokens
<1>10. ASSUME NEW k \in Requests, RefreshRefused(k) PROVE FreshInv'
    BY <1>10
       DEF RefreshRefused, endRefresh, forgetTokens, waiting, restoring, Tokens
<1>11. ASSUME NEW k \in Requests, RefreshFails(k) PROVE FreshInv'
    BY <1>11 DEF RefreshFails, Lose, forgetTokens
<1>12. ASSUME NEW t \in Tabs, Login(t) PROVE FreshInv'
    <2>1. PICK n \in Tokens :
              /\ n \notin heldTokens
              /\ signToken' = [signToken EXCEPT ![t] = n]
        BY <1>12 DEF Login, issueTokens
    <2>2. /\ sign' = [sign EXCEPT ![t] = "loggedIn"] /\ UNCHANGED rotatedBy
          /\ UNCHANGED <<cookie, refreshVars, losses>>
        BY <1>12 DEF Login, issueTokens
    <2>3. untouched(n) /\ n # NoToken
        BY <2>1 DEF heldTokens, Tokens
    <2>4. /\ \A k \in Requests : issued[k] # n
          /\ \A u \in Tabs : signToken[u] # n
        BY <2>1 DEF heldTokens
    <2> QED BY <2>1, <2>2, <2>3, <2>4
<1>13. ASSUME NEW t \in Tabs, LoginArrives(t) PROVE FreshInv'
    BY <1>13 DEF LoginArrives, forgetTokens
<1>14. ASSUME NEW t \in Tabs, Logout(t) PROVE FreshInv'
    BY <1>14 DEF Logout
<1>15. ASSUME NEW t \in Tabs, LogoutRevokes(t) PROVE FreshInv'
    BY <1>15 DEF LogoutRevokes
<1>16. ASSUME NEW t \in Tabs, LogoutArrives(t) PROVE FreshInv'
    BY <1>16 DEF LogoutArrives, forgetTokens, Tokens
<1>17. ASSUME NEW t \in Tabs, SignFails(t) PROVE FreshInv'
    BY <1>17 DEF SignFails, Lose, forgetTokens
<1>18. CASE UNCHANGED sessionVars
    BY <1>18 DEF sessionVars
<1> QED BY <1>1, <1>2, <1>3, <1>4, <1>5, <1>6, <1>7, <1>8, <1>9, <1>10, <1>11,
       <1>12, <1>13, <1>14, <1>15, <1>16, <1>17, <1>18 DEF SessionsNext,
       Proceed, Sign

\* Every step keeps a revoked token in the cookie on its way out.
LEMMA RotationStep ==
    ASSUME SessionsTypeOK, StageInv, FreshInv, RotationInv, [SessionsNext]_sessionVars
    PROVE  RotationInv'
<1> USE SessionsAssumption DEF SessionsTypeOK, StageInv, FreshInv, RotationInv,
       untouched, refreshVars, signVars, tokenVars
<1>1. ASSUME NEW k \in Requests, Send(k) PROVE RotationInv'
    BY <1>1 DEF Send
<1>2. ASSUME NEW k \in Requests, ensureSession(k) PROVE RotationInv'
    BY <1>2 DEF ensureSession, joinRefresh
<1>3. ASSUME NEW k \in Requests, Served(k) PROVE RotationInv'
    BY <1>3 DEF Served
<1>4. ASSUME NEW k \in Requests, Rejected(k) PROVE RotationInv'
    BY <1>4 DEF Rejected, joinRefresh
<1>5. ASSUME NEW k \in Requests, RejectedAgain(k) PROVE RotationInv'
    BY <1>5 DEF RejectedAgain
<1>6. ASSUME NEW k \in Requests, FindToken(k) PROVE RotationInv'
    BY <1>6 DEF FindToken
<1>7. ASSUME NEW k \in Requests, RevokeToken(k) PROVE RotationInv'
    BY <1>7 DEF RevokeToken
<1>8. ASSUME NEW k \in Requests, IssueToken(k) PROVE RotationInv'
    BY <1>8 DEF IssueToken, issueTokens
<1>9. ASSUME NEW k \in Requests, RefreshArrives(k) PROVE RotationInv'
    BY <1>9 DEF RefreshArrives, endRefresh, forgetTokens, waiting, restoring
<1>10. ASSUME NEW k \in Requests, RefreshRefused(k) PROVE RotationInv'
    BY <1>10 DEF RefreshRefused, endRefresh, forgetTokens, waiting, restoring
<1>11. ASSUME NEW k \in Requests, RefreshFails(k) PROVE RotationInv'
    BY <1>11 DEF RefreshFails, Lose, forgetTokens
<1>12. ASSUME NEW t \in Tabs, Login(t) PROVE RotationInv'
    BY <1>12 DEF Login, issueTokens
<1>13. ASSUME NEW t \in Tabs, LoginArrives(t) PROVE RotationInv'
    BY <1>13 DEF LoginArrives, forgetTokens
<1>14. ASSUME NEW t \in Tabs, Logout(t) PROVE RotationInv'
    BY <1>14 DEF Logout
<1>15. ASSUME NEW t \in Tabs, LogoutRevokes(t) PROVE RotationInv'
    BY <1>15 DEF LogoutRevokes
<1>16. ASSUME NEW t \in Tabs, LogoutArrives(t) PROVE RotationInv'
    BY <1>16 DEF LogoutArrives, forgetTokens
<1>17. ASSUME NEW t \in Tabs, SignFails(t) PROVE RotationInv'
    BY <1>17 DEF SignFails, Lose, forgetTokens
<1>18. CASE UNCHANGED sessionVars
    BY <1>18 DEF sessionVars
<1> QED BY <1>1, <1>2, <1>3, <1>4, <1>5, <1>6, <1>7, <1>8, <1>9, <1>10, <1>11,
       <1>12, <1>13, <1>14, <1>15, <1>16, <1>17, <1>18 DEF SessionsNext,
       Proceed, Sign

\* No step makes a tab present a token it has revoked.
LEMMA OwnRotationStep ==
ASSUME SessionsTypeOK, StageInv, RotationInv, OwnRotationIsKept,
           [SessionsNext]_sessionVars
    PROVE  OwnRotationIsKept'
<1> USE SessionsAssumption DEF SessionsTypeOK, StageInv, RotationInv,
       OwnRotationIsKept, refreshVars, signVars, tokenVars
<1>1. ASSUME NEW k \in Requests, Send(k) PROVE OwnRotationIsKept'
    BY <1>1 DEF Send
<1>2. ASSUME NEW k \in Requests, ensureSession(k) PROVE OwnRotationIsKept'
    BY <1>2 DEF ensureSession, joinRefresh
<1>3. ASSUME NEW k \in Requests, Served(k) PROVE OwnRotationIsKept'
    BY <1>3 DEF Served
<1>4. ASSUME NEW k \in Requests, Rejected(k) PROVE OwnRotationIsKept'
    BY <1>4 DEF Rejected, joinRefresh
<1>5. ASSUME NEW k \in Requests, RejectedAgain(k) PROVE OwnRotationIsKept'
    BY <1>5 DEF RejectedAgain
<1>6. ASSUME NEW k \in Requests, FindToken(k) PROVE OwnRotationIsKept'
    BY <1>6 DEF FindToken
<1>7. ASSUME NEW k \in Requests, RevokeToken(k) PROVE OwnRotationIsKept'
    BY <1>7 DEF RevokeToken
<1>8. ASSUME NEW k \in Requests, IssueToken(k) PROVE OwnRotationIsKept'
    BY <1>8 DEF IssueToken, issueTokens
<1>9. ASSUME NEW k \in Requests, RefreshArrives(k) PROVE OwnRotationIsKept'
    BY <1>9 DEF RefreshArrives, endRefresh, forgetTokens, waiting, restoring
<1>10. ASSUME NEW k \in Requests, RefreshRefused(k) PROVE OwnRotationIsKept'
    BY <1>10 DEF RefreshRefused, endRefresh, forgetTokens, waiting, restoring
<1>11. ASSUME NEW k \in Requests, RefreshFails(k) PROVE OwnRotationIsKept'
    BY <1>11 DEF RefreshFails, Lose, forgetTokens
<1>12. ASSUME NEW t \in Tabs, Login(t) PROVE OwnRotationIsKept'
    BY <1>12 DEF Login, issueTokens
<1>13. ASSUME NEW t \in Tabs, LoginArrives(t) PROVE OwnRotationIsKept'
    BY <1>13 DEF LoginArrives, forgetTokens
<1>14. ASSUME NEW t \in Tabs, Logout(t) PROVE OwnRotationIsKept'
    BY <1>14 DEF Logout
<1>15. ASSUME NEW t \in Tabs, LogoutRevokes(t) PROVE OwnRotationIsKept'
    BY <1>15 DEF LogoutRevokes
<1>16. ASSUME NEW t \in Tabs, LogoutArrives(t) PROVE OwnRotationIsKept'
    BY <1>16 DEF LogoutArrives, forgetTokens
<1>17. ASSUME NEW t \in Tabs, SignFails(t) PROVE OwnRotationIsKept'
    BY <1>17 DEF SignFails, Lose, forgetTokens
<1>18. CASE UNCHANGED sessionVars
    BY <1>18 DEF sessionVars
<1> QED BY <1>1, <1>2, <1>3, <1>4, <1>5, <1>6, <1>7, <1>8, <1>9, <1>10, <1>11,
       <1>12, <1>13, <1>14, <1>15, <1>16, <1>17, <1>18 DEF SessionsNext,
       Proceed, Sign

-----------------------------------------------------------------------------
(* The theorems.                                                           *)

\* The invariant holds before anything is sent.
LEMMA InitInv == SessionsInit => SessionsInv
    BY SessionsAssumption
       DEF SessionsInit, SessionsInv, SessionsTypeOK, StageInv, ForgottenInv,
           FreshInv, RotationInv, OwnRotationIsKept

\* Every step keeps it.
LEMMA StepInv == SessionsInv /\ [SessionsNext]_sessionVars => SessionsInv'
    BY TypeStep, StageStep, ForgottenStep, FreshStep, RotationStep,
       OwnRotationStep
       DEF SessionsInv

\* The inductive invariant holds in every state of every behaviour.
THEOREM SessionsInvariance == SessionsSpec => []SessionsInv
    BY InitInv, StepInv, PTL DEF SessionsSpec

\* Every variable keeps its type, and refreshInFlight of a tab is a refresh of
\* that tab which is not over, whatever tabs and requests do at once.
THEOREM SessionsTypeOKHolds == SessionsSpec => []SessionsTypeOK
<1>1. SessionsInv => SessionsTypeOK
    BY DEF SessionsInv
<1> QED BY <1>1, SessionsInvariance, PTL

\* However many tabs share the cookie, and whatever their users do, no tab
\* presents a token its own refresh has revoked, as long as nothing is lost.
THEOREM OwnRotationIsKeptHolds == SessionsSpec => []OwnRotationIsKept
<1>1. SessionsInv => OwnRotationIsKept
    BY DEF SessionsInv
<1> QED BY <1>1, SessionsInvariance, PTL
=============================================================================
