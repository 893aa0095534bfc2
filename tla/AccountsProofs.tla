--------------------------- MODULE AccountsProofs ---------------------------
(***************************************************************************)
(* Theorems about accounts, the members of an organization and the shells  *)
(* of the command line, for any number of windows, links, users, requests  *)
(* and failures.                                                           *)
(***************************************************************************)
EXTENDS Accounts, Organizations, CommandLine, FiniteSetTheorems, TLAPS

-----------------------------------------------------------------------------
(* Accounts.  A request that waits between two queries goes on from what   *)
(* it saw: the invariants say that what it saw still holds.  The row of    *)
(* the account is never taken back and never loses its confirmation, and   *)
(* of two requests that found no account only one creates it, and then its *)
(* workspace.                                                              *)

\* Where a request may stand.
AuthLabel ==
    {"idle", "register", "login", "resend", "verify", "useLink", "createUser",
     "workspace", "sendFirst", "sendAgain", "registered", "resent", "googleFind",
     "googleFindUser", "googleAttach", "googleCreate", "googleWorkspace", "googleLink"}

AccountsTypeOK ==
    /\ account \in [exists : BOOLEAN, password : BOOLEAN, verified : BOOLEAN]
    /\ workspaces \in Nat
    /\ linked \in BOOLEAN
    /\ mailbox \subseteq Links
    /\ req \in [Windows -> [at : AuthLabel, link : Links \cup {NoLink}]]
    /\ signedInAs \in [Windows -> {"nobody", "password", "link", "google"}]
    /\ upsets \in Nat

\* What a request that has come this far has seen, or done.
sawAccount ==
    {"workspace", "sendFirst", "sendAgain", "verify", "useLink", "googleAttach",
     "googleWorkspace", "googleLink"}
confirmed == {"googleWorkspace", "googleLink"}

\* Links and confirmations are those of an account; so is a Google identity,
\* which confirms the address.
ConfirmedInv ==
    /\ mailbox # {} => account.exists
    /\ account.verified => account.exists
    /\ linked => account.verified
    /\ \A w \in Windows : req[w].at \in sawAccount => account.exists
    /\ \A w \in Windows : req[w].at \in confirmed => account.verified

\* The request that created the account is the one that makes its workspace.
creating == {"workspace", "googleWorkspace"}
WorkspaceInv ==
    /\ workspaces \in {0, 1}
    /\ workspaces = 1 => account.exists
    /\ \A w \in Windows : req[w].at \in creating => account.exists /\ workspaces = 0
    /\ \A v, w \in Windows : req[v].at \in creating /\ req[w].at \in creating => v = w
    /\ account.exists /\ upsets = 0 /\ (\A w \in Windows : req[w].at \notin creating)
           => workspaces = 1

-----------------------------------------------------------------------------
(* One lemma per conjunct, one step per action.                            *)

\* Every step keeps the types.
LEMMA AccountsTypeStep ==
    ASSUME AccountsTypeOK, [AccountsNext]_accountVars
    PROVE  AccountsTypeOK'
<1> USE AccountsAssumption DEF AccountsTypeOK, AuthLabel, Links, NoLink, NoReq, rows, windowPages, google
<1>1. ASSUME NEW w \in Windows, SignupPage(w) PROVE AccountsTypeOK'
    BY <1>1 DEF SignupPage, submit, AuthGoto
<1>2. ASSUME NEW w \in Windows, LoginPage(w) PROVE AccountsTypeOK'
    BY <1>2 DEF LoginPage, submit, AuthGoto
<1>3. ASSUME NEW w \in Windows, resend(w) PROVE AccountsTypeOK'
    BY <1>3 DEF resend, submit, AuthGoto
<1>4. ASSUME NEW w \in Windows, OpenLink(w) PROVE AccountsTypeOK'
    BY <1>4 DEF OpenLink
<1>5. ASSUME NEW w \in Windows, OpenLogin(w) PROVE AccountsTypeOK'
    BY <1>5 DEF OpenLogin
<1>6. ASSUME NEW w \in Windows, FindRegistered(w) PROVE AccountsTypeOK'
    BY <1>6 DEF FindRegistered, AuthGoto, Reply, Refuse
<1>7. ASSUME NEW w \in Windows, CreateUser(w) PROVE AccountsTypeOK'
    <2>1. CASE account.exists
        BY <1>7, <2>1 DEF CreateUser, Reply, Refuse
    <2>2. CASE ~account.exists
        <3>1. account' = [exists |-> TRUE, password |-> TRUE, verified |-> FALSE]
            BY <1>7, <2>2 DEF CreateUser
        <3>2. /\ req' \in [Windows -> [at : AuthLabel, link : Links \cup {NoLink}]]
              /\ signedInAs' \in [Windows -> {"nobody", "password", "link", "google"}]
              /\ UNCHANGED <<workspaces, mailbox, upsets>> /\ linked' \in BOOLEAN
            BY <1>7, <2>2 DEF CreateUser, AuthGoto
        <3> QED
            BY <3>1, <3>2
    <2> QED
        BY <2>1, <2>2
<1>8. ASSUME NEW w \in Windows, createPersonalWorkspace(w) PROVE AccountsTypeOK'
    BY <1>8 DEF createPersonalWorkspace, AuthGoto
<1>9. ASSUME NEW w \in Windows, SendVerification(w) PROVE AccountsTypeOK'
    BY <1>9 DEF SendVerification, AuthGoto
<1>10. ASSUME NEW w \in Windows, Registered(w) PROVE AccountsTypeOK'
    BY <1>10 DEF Registered, Reply, SignIn
<1>11. ASSUME NEW w \in Windows, Login(w) PROVE AccountsTypeOK'
    BY <1>11 DEF Login, Reply, Refuse, SignIn
<1>12. ASSUME NEW w \in Windows, FindUnverified(w) PROVE AccountsTypeOK'
    BY <1>12 DEF FindUnverified, AuthGoto
<1>13. ASSUME NEW w \in Windows, Resent(w) PROVE AccountsTypeOK'
    BY <1>13 DEF Resent, Reply, Refuse
<1>14. ASSUME NEW w \in Windows, FindLink(w) PROVE AccountsTypeOK'
    BY <1>14 DEF FindLink, AuthGoto, Reply, Refuse
<1>15. ASSUME NEW w \in Windows, UseLink(w) PROVE AccountsTypeOK'
    BY <1>15 DEF UseLink, SignIn
<1>16. ASSUME NEW w \in Windows, GoogleStart(w) PROVE AccountsTypeOK'
    BY <1>16 DEF GoogleStart
<1>17. ASSUME NEW w \in Windows, GoogleCallback(w) PROVE AccountsTypeOK'
    BY <1>17 DEF GoogleCallback, AuthGoto, Reply
<1>18. ASSUME NEW w \in Windows, FindLinked(w) PROVE AccountsTypeOK'
    BY <1>18 DEF FindLinked, AuthGoto, SignIn
<1>19. ASSUME NEW w \in Windows, FindGoogleUser(w) PROVE AccountsTypeOK'
    BY <1>19 DEF FindGoogleUser, AuthGoto
<1>20. ASSUME NEW w \in Windows, AttachGoogle(w) PROVE AccountsTypeOK'
    <2>1. CASE linked
        BY <1>20, <2>1 DEF AttachGoogle, Reply
    <2>2. CASE ~linked
        <3>1. account' \in [exists : BOOLEAN, password : BOOLEAN, verified : BOOLEAN]
            BY <1>20, <2>2 DEF AttachGoogle
        <3>2. /\ req' \in [Windows -> [at : AuthLabel, link : Links \cup {NoLink}]]
              /\ signedInAs' \in [Windows -> {"nobody", "password", "link", "google"}]
              /\ UNCHANGED <<workspaces, mailbox, upsets>> /\ linked' \in BOOLEAN
            BY <1>20, <2>2 DEF AttachGoogle, SignIn
        <3> QED
            BY <3>1, <3>2
    <2> QED
        BY <2>1, <2>2
<1>21. ASSUME NEW w \in Windows, CreateGoogleUser(w) PROVE AccountsTypeOK'
    <2>1. CASE account.exists
        BY <1>21, <2>1 DEF CreateGoogleUser, Reply
    <2>2. CASE ~account.exists
        <3>1. account' = [exists |-> TRUE, password |-> FALSE, verified |-> TRUE]
            BY <1>21, <2>2 DEF CreateGoogleUser
        <3>2. /\ req' \in [Windows -> [at : AuthLabel, link : Links \cup {NoLink}]]
              /\ signedInAs' \in [Windows -> {"nobody", "password", "link", "google"}]
              /\ UNCHANGED <<workspaces, mailbox, upsets>> /\ linked' \in BOOLEAN
            BY <1>21, <2>2 DEF CreateGoogleUser, AuthGoto
        <3> QED
            BY <3>1, <3>2
    <2> QED
        BY <2>1, <2>2
<1>22. ASSUME NEW w \in Windows, LinkGoogle(w) PROVE AccountsTypeOK'
    <2>1. CASE linked
        BY <1>22, <2>1 DEF LinkGoogle, Reply
    <2>2. CASE ~linked
        BY <1>22, <2>2 DEF LinkGoogle, SignIn
    <2> QED
        BY <2>1, <2>2
<1>23. ASSUME NEW w \in Windows, RequestFails(w) PROVE AccountsTypeOK'
    BY <1>23 DEF RequestFails, Reply, Refuse
<1>24. CASE UNCHANGED accountVars
    BY <1>24 DEF accountVars
<1> QED
    BY <1>1, <1>2, <1>3, <1>4, <1>5, <1>6, <1>7, <1>8, <1>9, <1>10, <1>11, <1>12,
       <1>13, <1>14, <1>15, <1>16, <1>17, <1>18, <1>19, <1>20, <1>21, <1>22, <1>23, <1>24 DEF AccountsNext

\* No step takes back what a request has seen.
LEMMA ConfirmedStep ==
    ASSUME AccountsTypeOK, ConfirmedInv, [AccountsNext]_accountVars
    PROVE  ConfirmedInv'
<1> USE AccountsAssumption DEF AccountsTypeOK, ConfirmedInv, sawAccount, confirmed, NoReq, rows, windowPages, google
<1>1. ASSUME NEW w \in Windows, SignupPage(w) PROVE ConfirmedInv'
    BY <1>1 DEF SignupPage, submit, AuthGoto
<1>2. ASSUME NEW w \in Windows, LoginPage(w) PROVE ConfirmedInv'
    BY <1>2 DEF LoginPage, submit, AuthGoto
<1>3. ASSUME NEW w \in Windows, resend(w) PROVE ConfirmedInv'
    BY <1>3 DEF resend, submit, AuthGoto
<1>4. ASSUME NEW w \in Windows, OpenLink(w) PROVE ConfirmedInv'
    BY <1>4 DEF OpenLink
<1>5. ASSUME NEW w \in Windows, OpenLogin(w) PROVE ConfirmedInv'
    BY <1>5 DEF OpenLogin
<1>6. ASSUME NEW w \in Windows, FindRegistered(w) PROVE ConfirmedInv'
    BY <1>6 DEF FindRegistered, AuthGoto, Reply, Refuse
<1>7. ASSUME NEW w \in Windows, CreateUser(w) PROVE ConfirmedInv'
    BY <1>7 DEF CreateUser, AuthGoto, Reply, Refuse
<1>8. ASSUME NEW w \in Windows, createPersonalWorkspace(w) PROVE ConfirmedInv'
    BY <1>8 DEF createPersonalWorkspace, AuthGoto
<1>9. ASSUME NEW w \in Windows, SendVerification(w) PROVE ConfirmedInv'
    BY <1>9 DEF SendVerification, AuthGoto
<1>10. ASSUME NEW w \in Windows, Registered(w) PROVE ConfirmedInv'
    BY <1>10 DEF Registered, Reply, SignIn
<1>11. ASSUME NEW w \in Windows, Login(w) PROVE ConfirmedInv'
    BY <1>11 DEF Login, Reply, Refuse, SignIn
<1>12. ASSUME NEW w \in Windows, FindUnverified(w) PROVE ConfirmedInv'
    BY <1>12 DEF FindUnverified, AuthGoto
<1>13. ASSUME NEW w \in Windows, Resent(w) PROVE ConfirmedInv'
    BY <1>13 DEF Resent, Reply, Refuse
<1>14. ASSUME NEW w \in Windows, FindLink(w) PROVE ConfirmedInv'
    BY <1>14 DEF FindLink, AuthGoto, Reply, Refuse
<1>15. ASSUME NEW w \in Windows, UseLink(w) PROVE ConfirmedInv'
    BY <1>15 DEF UseLink, SignIn
<1>16. ASSUME NEW w \in Windows, GoogleStart(w) PROVE ConfirmedInv'
    BY <1>16 DEF GoogleStart
<1>17. ASSUME NEW w \in Windows, GoogleCallback(w) PROVE ConfirmedInv'
    BY <1>17 DEF GoogleCallback, AuthGoto, Reply
<1>18. ASSUME NEW w \in Windows, FindLinked(w) PROVE ConfirmedInv'
    BY <1>18 DEF FindLinked, AuthGoto, SignIn
<1>19. ASSUME NEW w \in Windows, FindGoogleUser(w) PROVE ConfirmedInv'
    BY <1>19 DEF FindGoogleUser, AuthGoto
<1>20. ASSUME NEW w \in Windows, AttachGoogle(w) PROVE ConfirmedInv'
    BY <1>20 DEF AttachGoogle, Reply, SignIn
<1>21. ASSUME NEW w \in Windows, CreateGoogleUser(w) PROVE ConfirmedInv'
    BY <1>21 DEF CreateGoogleUser, AuthGoto, Reply
<1>22. ASSUME NEW w \in Windows, LinkGoogle(w) PROVE ConfirmedInv'
    BY <1>22 DEF LinkGoogle, Reply, SignIn
<1>23. ASSUME NEW w \in Windows, RequestFails(w) PROVE ConfirmedInv'
    BY <1>23 DEF RequestFails, Reply, Refuse
<1>24. CASE UNCHANGED accountVars
    BY <1>24 DEF accountVars
<1> QED
    BY <1>1, <1>2, <1>3, <1>4, <1>5, <1>6, <1>7, <1>8, <1>9, <1>10, <1>11, <1>12,
       <1>13, <1>14, <1>15, <1>16, <1>17, <1>18, <1>19, <1>20, <1>21, <1>22, <1>23, <1>24 DEF AccountsNext

\* A step of a request that neither begins nor ends the making of a workspace.
LEMMA NothingCreated ==
    ASSUME AccountsTypeOK, WorkspaceInv, NEW w \in Windows,
           NEW new \in [at : AuthLabel, link : Links \cup {NoLink}],
           req' = [req EXCEPT ![w] = new],
           req[w].at \notin creating, new.at \notin creating,
           UNCHANGED <<account, workspaces, upsets>>
    PROVE  WorkspaceInv'
<1>1. \A v \in Windows : req'[v].at \in creating <=> req[v].at \in creating
    BY DEF AccountsTypeOK
<1>2. UNCHANGED <<account, workspaces, upsets>>
    OBVIOUS
<1> QED
    BY <1>1, <1>2 DEF WorkspaceInv

\* Only the request that created the account makes a workspace.
LEMMA WorkspaceStep ==
    ASSUME AccountsTypeOK, WorkspaceInv, [AccountsNext]_accountVars
    PROVE  WorkspaceInv'
<1> USE AccountsAssumption DEF AccountsTypeOK, WorkspaceInv, creating, NoReq, rows, windowPages, google
<1>1. ASSUME NEW w \in Windows, SignupPage(w) PROVE WorkspaceInv'
    BY <1>1 DEF SignupPage, submit, AuthGoto
<1>2. ASSUME NEW w \in Windows, LoginPage(w) PROVE WorkspaceInv'
    BY <1>2 DEF LoginPage, submit, AuthGoto
<1>3. ASSUME NEW w \in Windows, resend(w) PROVE WorkspaceInv'
    <2>1. CASE submit(w, "inbox", "resend")
        BY <2>1 DEF submit, AuthGoto
    <2>2. CASE submit(w, "needsVerification", "resend")
        BY <2>2 DEF submit, AuthGoto
    <2> QED
        BY <1>3, <2>1, <2>2 DEF resend
<1>4. ASSUME NEW w \in Windows, OpenLink(w) PROVE WorkspaceInv'
    BY <1>4 DEF OpenLink
<1>5. ASSUME NEW w \in Windows, OpenLogin(w) PROVE WorkspaceInv'
    BY <1>5 DEF OpenLogin
<1>6. ASSUME NEW w \in Windows, FindRegistered(w) PROVE WorkspaceInv'
    BY <1>6 DEF FindRegistered, AuthGoto, Reply, Refuse
<1>7. ASSUME NEW w \in Windows, CreateUser(w) PROVE WorkspaceInv'
    BY <1>7 DEF CreateUser, AuthGoto, Reply, Refuse
<1>8. ASSUME NEW w \in Windows, createPersonalWorkspace(w) PROVE WorkspaceInv'
    BY <1>8 DEF createPersonalWorkspace, AuthGoto
<1>9. ASSUME NEW w \in Windows, SendVerification(w) PROVE WorkspaceInv'
    BY <1>9 DEF SendVerification, AuthGoto
<1>10. ASSUME NEW w \in Windows, Registered(w) PROVE WorkspaceInv'
    <2>1. NoReq \in [at : AuthLabel, link : Links \cup {NoLink}] /\ NoReq.at \notin creating
        BY DEF AuthLabel
    <2>2. /\ req[w].at \notin creating
          /\ req' = [req EXCEPT ![w] = NoReq]
          /\ UNCHANGED <<account, workspaces, upsets>>
        BY <1>10 DEF Registered, Reply, SignIn
    <2> QED
        BY <2>1, <2>2, NothingCreated
<1>11. ASSUME NEW w \in Windows, Login(w) PROVE WorkspaceInv'
    BY <1>11, SMTT(30) DEF Login, Reply, Refuse, SignIn
<1>12. ASSUME NEW w \in Windows, FindUnverified(w) PROVE WorkspaceInv'
    BY <1>12 DEF FindUnverified, AuthGoto
<1>13. ASSUME NEW w \in Windows, Resent(w) PROVE WorkspaceInv'
    BY <1>13 DEF Resent, Reply, Refuse
<1>14. ASSUME NEW w \in Windows, FindLink(w) PROVE WorkspaceInv'
    BY <1>14 DEF FindLink, AuthGoto, Reply, Refuse
<1>15. ASSUME NEW w \in Windows, UseLink(w) PROVE WorkspaceInv'
    BY <1>15 DEF UseLink, SignIn
<1>16. ASSUME NEW w \in Windows, GoogleStart(w) PROVE WorkspaceInv'
    BY <1>16 DEF GoogleStart
<1>17. ASSUME NEW w \in Windows, GoogleCallback(w) PROVE WorkspaceInv'
    <2>1. CASE oauthState = w
        <3>1. req[w] = NoReq /\ req' = [req EXCEPT ![w].at = "googleFind"]
            BY <1>17, <2>1 DEF GoogleCallback, AuthGoto
        <3>2. UNCHANGED <<account, workspaces, upsets>>
            BY <1>17 DEF GoogleCallback
        <3> QED
            BY <3>1, <3>2
    <2>2. CASE oauthState # w
        BY <1>17, <2>2 DEF GoogleCallback, Reply
    <2> QED
        BY <2>1, <2>2
<1>18. ASSUME NEW w \in Windows, FindLinked(w) PROVE WorkspaceInv'
    <2>0. req[w].at \notin creating /\ UNCHANGED <<account, workspaces, upsets>>
        BY <1>18 DEF FindLinked
    <2>1. CASE linked
        <3>1. NoReq \in [at : AuthLabel, link : Links \cup {NoLink}] /\ NoReq.at \notin creating
            BY DEF AuthLabel
        <3>2. req' = [req EXCEPT ![w] = NoReq]
            BY <1>18, <2>1 DEF FindLinked, SignIn
        <3> QED
            BY <2>0, <3>1, <3>2, NothingCreated
    <2>2. CASE ~linked
        <3>1. req' = [req EXCEPT ![w].at = "googleFindUser"]
            BY <1>18, <2>2 DEF FindLinked, AuthGoto
        <3> QED
            BY <2>0, <3>1
    <2> QED
        BY <2>1, <2>2
<1>19. ASSUME NEW w \in Windows, FindGoogleUser(w) PROVE WorkspaceInv'
    BY <1>19 DEF FindGoogleUser, AuthGoto
<1>20. ASSUME NEW w \in Windows, AttachGoogle(w) PROVE WorkspaceInv'
    BY <1>20 DEF AttachGoogle, Reply, SignIn
<1>21. ASSUME NEW w \in Windows, CreateGoogleUser(w) PROVE WorkspaceInv'
    BY <1>21 DEF CreateGoogleUser, AuthGoto, Reply
<1>22. ASSUME NEW w \in Windows, LinkGoogle(w) PROVE WorkspaceInv'
    BY <1>22 DEF LinkGoogle, Reply, SignIn
<1>23. ASSUME NEW w \in Windows, RequestFails(w) PROVE WorkspaceInv'
    BY <1>23 DEF RequestFails, Reply, Refuse
<1>24. CASE UNCHANGED accountVars
    BY <1>24 DEF accountVars
<1> QED
    BY <1>1, <1>2, <1>3, <1>4, <1>5, <1>6, <1>7, <1>8, <1>9, <1>10, <1>11, <1>12,
       <1>13, <1>14, <1>15, <1>16, <1>17, <1>18, <1>19, <1>20, <1>21, <1>22, <1>23, <1>24 DEF AccountsNext

\* A session is given by what confirms the address, or to an address that was.
LEMMA SessionStep ==
    ASSUME AccountsTypeOK, ConfirmedInv, SessionsAreConfirmed, [AccountsNext]_accountVars
    PROVE  SessionsAreConfirmed'
<1> USE AccountsAssumption DEF AccountsTypeOK, ConfirmedInv, SessionsAreConfirmed, confirmed, NoReq, rows, windowPages, google
<1>1. ASSUME NEW w \in Windows, SignupPage(w) PROVE SessionsAreConfirmed'
    BY <1>1 DEF SignupPage, submit, AuthGoto
<1>2. ASSUME NEW w \in Windows, LoginPage(w) PROVE SessionsAreConfirmed'
    BY <1>2 DEF LoginPage, submit, AuthGoto
<1>3. ASSUME NEW w \in Windows, resend(w) PROVE SessionsAreConfirmed'
    BY <1>3 DEF resend, submit, AuthGoto
<1>4. ASSUME NEW w \in Windows, OpenLink(w) PROVE SessionsAreConfirmed'
    BY <1>4 DEF OpenLink
<1>5. ASSUME NEW w \in Windows, OpenLogin(w) PROVE SessionsAreConfirmed'
    BY <1>5 DEF OpenLogin
<1>6. ASSUME NEW w \in Windows, FindRegistered(w) PROVE SessionsAreConfirmed'
    BY <1>6 DEF FindRegistered, AuthGoto, Reply, Refuse
<1>7. ASSUME NEW w \in Windows, CreateUser(w) PROVE SessionsAreConfirmed'
    BY <1>7 DEF CreateUser, AuthGoto, Reply, Refuse
<1>8. ASSUME NEW w \in Windows, createPersonalWorkspace(w) PROVE SessionsAreConfirmed'
    BY <1>8 DEF createPersonalWorkspace, AuthGoto
<1>9. ASSUME NEW w \in Windows, SendVerification(w) PROVE SessionsAreConfirmed'
    BY <1>9 DEF SendVerification, AuthGoto
<1>10. ASSUME NEW w \in Windows, Registered(w) PROVE SessionsAreConfirmed'
    BY <1>10 DEF Registered, Reply, SignIn
<1>11. ASSUME NEW w \in Windows, Login(w) PROVE SessionsAreConfirmed'
    BY <1>11 DEF Login, Reply, Refuse, SignIn
<1>12. ASSUME NEW w \in Windows, FindUnverified(w) PROVE SessionsAreConfirmed'
    BY <1>12 DEF FindUnverified, AuthGoto
<1>13. ASSUME NEW w \in Windows, Resent(w) PROVE SessionsAreConfirmed'
    BY <1>13 DEF Resent, Reply, Refuse
<1>14. ASSUME NEW w \in Windows, FindLink(w) PROVE SessionsAreConfirmed'
    BY <1>14 DEF FindLink, AuthGoto, Reply, Refuse
<1>15. ASSUME NEW w \in Windows, UseLink(w) PROVE SessionsAreConfirmed'
    BY <1>15 DEF UseLink, SignIn
<1>16. ASSUME NEW w \in Windows, GoogleStart(w) PROVE SessionsAreConfirmed'
    BY <1>16 DEF GoogleStart
<1>17. ASSUME NEW w \in Windows, GoogleCallback(w) PROVE SessionsAreConfirmed'
    BY <1>17 DEF GoogleCallback, AuthGoto, Reply
<1>18. ASSUME NEW w \in Windows, FindLinked(w) PROVE SessionsAreConfirmed'
    <2>1. CASE linked
        BY <1>18, <2>1 DEF FindLinked, SignIn
    <2>2. CASE ~linked
        BY <1>18, <2>2 DEF FindLinked, AuthGoto
    <2> QED
        BY <2>1, <2>2
<1>19. ASSUME NEW w \in Windows, FindGoogleUser(w) PROVE SessionsAreConfirmed'
    BY <1>19 DEF FindGoogleUser, AuthGoto
<1>20. ASSUME NEW w \in Windows, AttachGoogle(w) PROVE SessionsAreConfirmed'
    BY <1>20 DEF AttachGoogle, Reply, SignIn
<1>21. ASSUME NEW w \in Windows, CreateGoogleUser(w) PROVE SessionsAreConfirmed'
    BY <1>21 DEF CreateGoogleUser, AuthGoto, Reply
<1>22. ASSUME NEW w \in Windows, LinkGoogle(w) PROVE SessionsAreConfirmed'
    BY <1>22 DEF LinkGoogle, Reply, SignIn
<1>23. ASSUME NEW w \in Windows, RequestFails(w) PROVE SessionsAreConfirmed'
    BY <1>23 DEF RequestFails, Reply, Refuse
<1>24. CASE UNCHANGED accountVars
    BY <1>24 DEF accountVars
<1> QED
    BY <1>1, <1>2, <1>3, <1>4, <1>5, <1>6, <1>7, <1>8, <1>9, <1>10, <1>11, <1>12,
       <1>13, <1>14, <1>15, <1>16, <1>17, <1>18, <1>19, <1>20, <1>21, <1>22, <1>23, <1>24 DEF AccountsNext

-----------------------------------------------------------------------------
(* Theorems.                                                               *)

AccountsInv == AccountsTypeOK /\ ConfirmedInv /\ WorkspaceInv /\ SessionsAreConfirmed

\* The inductive invariant: what a request saw of the account still holds when
\* it goes on.
THEOREM AccountsInvariance == AccountsSpec => []AccountsInv
<1>1. AccountsInit => AccountsInv
    <2>1. AccountsInit => AccountsTypeOK
        <3>1. NoAccount \in [exists : BOOLEAN, password : BOOLEAN, verified : BOOLEAN]
            BY DEF NoAccount
        <3>2. NoReq \in [at : AuthLabel, link : Links \cup {NoLink}]
            BY DEF NoReq, AuthLabel
        <3>3. AccountsInit => workspaces \in Nat /\ upsets \in Nat
            BY DEF AccountsInit
        <3>4. AccountsInit => linked \in BOOLEAN /\ mailbox \subseteq Links
            BY DEF AccountsInit
        <3>5. AccountsInit => signedInAs \in [Windows -> {"nobody", "password", "link", "google"}]
            BY DEF AccountsInit
        <3>6. AccountsInit => req \in [Windows -> [at : AuthLabel, link : Links \cup {NoLink}]]
            BY <3>2 DEF AccountsInit
        <3> QED
            BY <3>1, <3>3, <3>4, <3>5, <3>6 DEF AccountsInit, AccountsTypeOK
    <2>2. AccountsInit => \A w \in Windows : req[w].at = "idle" /\ signedInAs[w] = "nobody"
        BY DEF AccountsInit, NoReq
    <2> QED
        BY <2>1, <2>2 DEF AccountsInit, AccountsInv, ConfirmedInv, WorkspaceInv,
           SessionsAreConfirmed, NoAccount, sawAccount, confirmed, creating
<1>2. AccountsInv /\ [AccountsNext]_accountVars => AccountsInv'
    BY AccountsTypeStep, ConfirmedStep, WorkspaceStep, SessionStep DEF AccountsInv
<1> QED
    BY <1>1, <1>2, PTL DEF AccountsSpec

\* With verification on, no window ever holds a session for an address that
\* was not confirmed, for any number of windows and of failing queries.
THEOREM SessionsAreConfirmedHolds == AccountsSpec => []SessionsAreConfirmed
<1>1. AccountsInv => SessionsAreConfirmed
    BY DEF AccountsInv
<1> QED
    BY <1>1, AccountsInvariance, PTL

\* An account has one personal workspace, for any number of windows.
THEOREM OneWorkspaceEachHolds == AccountsSpec => []OneWorkspaceEach
<1>1. AccountsInv => OneWorkspaceEach
    BY DEF AccountsInv, AccountsTypeOK, WorkspaceInv, creating, OneWorkspaceEach
<1> QED
    BY <1>1, AccountsInvariance, PTL

-----------------------------------------------------------------------------
(* Organizations.  That an owner stays is not inductive: two requests that *)
(* both counted two owners would each remove one.  It holds because there  *)
(* is never a second one: no invitation gives "owner", so the founder is   *)
(* the only owner there ever is, each count finds one, and no request      *)
(* comes to write the founder's role.                                      *)

created == \E u \in Users : role[u] # "none"

OrgTypeOK ==
    /\ role \in [Users -> Roles \cup {"none"}]
    /\ orgGone \in BOOLEAN
    /\ ocall \in [OrgCalls -> [at : {"idle", "find", "assertCaller", "countOwners", "write"},
                               by : Users, user : Users, new : Invitations \cup {Removal}]]

\* The founder is the owner, and nobody else.
FounderOwns ==
    /\ created => role[Founder] = "owner"
    /\ \A u \in Users : role[u] = "owner" => u = Founder

\* A request about the founder ends before it writes.
FounderIsSpared ==
    \A c \in OrgCalls : /\ ocall[c].at # "idle" => created
                        /\ ocall[c].at = "write" => ocall[c].user # Founder

OrgInv == OrgTypeOK /\ FounderOwns /\ FounderIsSpared

-----------------------------------------------------------------------------
(* Steps.                                                                  *)

LEMMA OneOwner ==
    ASSUME FounderOwns, created
    PROVE  Cardinality(owners) <= 1
<1>1. owners = {Founder}
    BY OrganizationsAssumption DEF FounderOwns, owners
<1> QED
    BY <1>1, FS_Singleton

\* A request moves on: the memberships stay as they are.
LEMMA MovesOn ==
    ASSUME OrgInv, UNCHANGED <<role, orgGone>>,
           NEW c \in OrgCalls, OrgEnd(c)
    PROVE  OrgInv'
<1>1. created' = created
    BY DEF created
<1>2. NoOrgCall \in [at : {"idle"}, by : Users, user : Users, new : {Removal}]
    BY OrganizationsAssumption DEF NoOrgCall
<1>3. /\ OrgTypeOK'
      /\ \A d \in OrgCalls : d # c => ocall'[d] = ocall[d]
      /\ ocall'[c].at = "idle"
    BY <1>2 DEF OrgInv, OrgTypeOK, OrgEnd
<1> QED
    BY <1>1, <1>3 DEF OrgInv, OrgTypeOK, FounderOwns, FounderIsSpared

LEMMA GoesOn ==
    ASSUME OrgInv, UNCHANGED <<role, orgGone>>, NEW c \in OrgCalls,
           NEW label \in {"assertCaller", "countOwners", "write"},
           ocall[c].at # "idle", OrgGoto(c, label),
           label = "write" => ocall[c].user # Founder
    PROVE  OrgInv'
<1>1. created' = created
    BY DEF created
<1>2. /\ OrgTypeOK'
      /\ \A d \in OrgCalls : d # c => ocall'[d] = ocall[d]
      /\ ocall'[c].at = label
      /\ ocall'[c].user = ocall[c].user
    BY DEF OrgInv, OrgTypeOK, OrgGoto
<1>3. created
    BY DEF OrgInv, FounderIsSpared
<1> QED
    BY <1>1, <1>2, <1>3 DEF OrgInv, OrgTypeOK, FounderOwns, FounderIsSpared

LEMMA OrganizationsStep ==
    ASSUME OrgInv, [OrganizationsNext]_orgVars
    PROVE  OrgInv'
<1> USE OrganizationsAssumption
<1>1. CASE CreateOrganization
    <2>1. ~created /\ created'
        BY <1>1 DEF CreateOrganization, created, OrgInv, OrgTypeOK
    <2>2. OrgTypeOK' /\ FounderOwns'
        BY <1>1, <2>1 DEF CreateOrganization, OrgInv, OrgTypeOK, FounderOwns, created, Roles
    <2> QED
        BY <1>1, <2>1, <2>2 DEF CreateOrganization, OrgInv, OrgTypeOK, FounderIsSpared
<1>2. ASSUME NEW c \in OrgCalls, BeginMember(c) PROVE OrgInv'
    <2>1. created /\ created' = created
        BY <1>2 DEF BeginMember, created
    <2>2. PICK u \in Users, t \in Users, new \in Invitations \cup {Removal} :
              ocall' = [ocall EXCEPT ![c] = [at |-> "find", by |-> u, user |-> t, new |-> new]]
        BY <1>2 DEF BeginMember
    <2>3. /\ OrgTypeOK'
          /\ \A d \in OrgCalls : d # c => ocall'[d] = ocall[d]
          /\ ocall'[c].at = "find"
        BY <1>2, <2>2 DEF BeginMember, OrgInv, OrgTypeOK
    <2> QED
        BY <1>2, <2>1, <2>3 DEF BeginMember, OrgInv, OrgTypeOK, FounderOwns, FounderIsSpared
<1>3. ASSUME NEW c \in OrgCalls, FindMember(c) PROVE OrgInv'
    <2>1. ocall[c].at # "idle" /\ created
        BY <1>3 DEF FindMember, OrgInv, FounderIsSpared
    <2>2. CASE OrgEnd(c)
        BY <1>3, <2>2, MovesOn DEF FindMember
    <2>3. CASE role[ocall[c].user] = "owner" /\ OrgGoto(c, "assertCaller")
        BY <1>3, <2>1, <2>3, GoesOn DEF FindMember
    <2>4. CASE role[ocall[c].user] # "owner" /\ OrgGoto(c, "write")
        <3>1. ocall[c].user # Founder
            BY <2>1, <2>4 DEF OrgInv, FounderOwns
        <3> QED
            BY <1>3, <2>1, <2>4, <3>1, GoesOn DEF FindMember
    <2> QED
        BY <1>3, <2>2, <2>3, <2>4 DEF FindMember
<1>4. ASSUME NEW c \in OrgCalls, AssertCaller(c) PROVE OrgInv'
    <2>1. CASE OrgEnd(c)
        BY <1>4, <2>1, MovesOn DEF AssertCaller
    <2>2. CASE OrgGoto(c, "countOwners")
        <3>1. ocall[c].at # "idle"
            BY <1>4 DEF AssertCaller
        <3> QED
            BY <1>4, <2>2, <3>1, GoesOn DEF AssertCaller
    <2> QED
        BY <1>4, <2>1, <2>2 DEF AssertCaller
<1>5. ASSUME NEW c \in OrgCalls, CountOwners(c) PROVE OrgInv'
    <2>1. created
        BY <1>5 DEF CountOwners, OrgInv, FounderIsSpared
    <2>2. Cardinality(owners) <= 1
        BY <2>1, OneOwner DEF OrgInv
    <2> QED
        BY <1>5, <2>2, MovesOn DEF CountOwners
<1>6. ASSUME NEW c \in OrgCalls, WriteRole(c) PROVE OrgInv'
    <2>1. ocall[c].user # Founder /\ ocall[c].user \in Users /\ created
        BY <1>6 DEF WriteRole, OrgInv, OrgTypeOK, FounderIsSpared
    <2>2. ocall[c].new \in Roles \cup {"none"} /\ ocall[c].new # "owner"
        BY <1>6 DEF OrgInv, OrgTypeOK, Invitations, Removal, Roles
    <2>3. role' \in [Users -> Roles \cup {"none"}] /\ role'[Founder] = role[Founder]
        BY <1>6, <2>1, <2>2 DEF WriteRole, OrgInv, OrgTypeOK
    <2>4. FounderOwns' /\ created'
        BY <1>6, <2>1, <2>2, <2>3 DEF WriteRole, OrgInv, OrgTypeOK, FounderOwns, created
    <2>5. NoOrgCall \in [at : {"idle"}, by : Users, user : Users, new : {Removal}]
        BY DEF NoOrgCall
    <2>6. /\ OrgTypeOK'
          /\ \A d \in OrgCalls : d # c => ocall'[d] = ocall[d]
          /\ ocall'[c].at = "idle"
        BY <1>6, <2>3, <2>5 DEF WriteRole, OrgEnd, OrgInv, OrgTypeOK
    <2> QED
        BY <2>4, <2>6 DEF OrgInv, FounderIsSpared
<1>7. ASSUME NEW u \in Users, SoftDeleteOrg(u) PROVE OrgInv'
    BY <1>7 DEF SoftDeleteOrg, OrgInv, OrgTypeOK, FounderOwns, FounderIsSpared, created
<1>8. CASE UNCHANGED orgVars
    BY <1>8 DEF orgVars, OrgInv, OrgTypeOK, FounderOwns, FounderIsSpared, created
<1> QED
    BY <1>1, <1>2, <1>3, <1>4, <1>5, <1>6, <1>7, <1>8 DEF OrganizationsNext, MemberStep

-----------------------------------------------------------------------------
(* Theorems.                                                               *)

\* The inductive invariant: the founder is the only owner, and no request that
\* is about to write is about the founder.
THEOREM OrganizationsInvariance == OrganizationsSpec => []OrgInv
<1>1. OrganizationsInit => OrgInv
    <2>1. NoOrgCall \in [at : {"idle"}, by : Users, user : Users, new : {Removal}]
        BY OrganizationsAssumption DEF NoOrgCall
    <2>2. OrganizationsInit => OrgTypeOK /\ \A c \in OrgCalls : ocall[c].at = "idle"
        <3> SUFFICES ASSUME OrganizationsInit
                     PROVE  OrgTypeOK /\ \A c \in OrgCalls : ocall[c].at = "idle"
            OBVIOUS
        <3>1. ocall = [c \in OrgCalls |-> NoOrgCall] /\ NoOrgCall.at = "idle"
            BY DEF OrganizationsInit, NoOrgCall
        <3>2. role \in [Users -> Roles \cup {"none"}] /\ orgGone \in BOOLEAN
            BY DEF OrganizationsInit
        <3> QED
            BY <2>1, <3>1, <3>2 DEF OrgTypeOK
    <2> QED
        BY <2>2 DEF OrganizationsInit, OrgInv, FounderOwns, FounderIsSpared, created
<1>2. OrgInv /\ [OrganizationsNext]_orgVars => OrgInv'
    BY OrganizationsStep
<1> QED
    BY <1>1, <1>2, PTL DEF OrganizationsSpec

\* An organization keeps an owner, for any users and any number of requests
\* that invite, demote and remove at once.
THEOREM OwnerStaysHolds == OrganizationsSpec => []OwnerStays
<1>1. OrgInv => OwnerStays
    BY OrganizationsAssumption DEF OrgInv, FounderOwns, created, OwnerStays
<1> QED
    BY <1>1, OrganizationsInvariance, PTL

-----------------------------------------------------------------------------
(* CommandLine.  A session that was given out is accepted until its        *)
(* command has saved it, since nobody else knows it yet; the session in    *)
(* the file is accepted, or a command will still replace it.               *)

CommandLabel ==
    {"none", "request", "forget", "saveLogin", "refresh", "rotate", "save"}
ConfigFile == [session : Nat, key : BOOLEAN, chosen : SUBSET {"org", "project"}]
Command ==
    [at : CommandLabel, run : cliCommands, config : ConfigFile, left : Nat,
     again : BOOLEAN, token : Nat]

CommandLineTypeOK ==
    /\ file \in ConfigFile
    /\ issued \in Nat
    /\ interrupted \in BOOLEAN
    /\ command \in [Shells -> Command]
    /\ \A s \in Shells : command[s].at # "none" => command[s].left \in 1 .. 2

holdsNew(s) == command[s].at \in {"save", "saveLogin"}

\* A new session is accepted, and only the command that was given it has it.
NewSessionInv ==
    /\ file.session <= issued
    /\ \A s \in Shells : command[s].config.session <= issued
    /\ \A s \in Shells : holdsNew(s) =>
           /\ command[s].token \in accepted
           /\ command[s].token \in 1 .. issued
           /\ file.session # command[s].token
           /\ \A t \in Shells : /\ command[t].config.session # command[s].token
                                /\ holdsNew(t) /\ t # s
                                       => command[t].token # command[s].token

\* The session in the file is accepted, or will be replaced.
FileInv ==
    \/ file.session \in accepted \cup {NoToken}
    \/ interrupted
    \/ \E s \in Shells : holdsNew(s) \/ command[s].at = "forget"

CommandLineInv == CommandLineTypeOK /\ NewSessionInv /\ FileInv

\* The commands, and one that does not run.
LEMMA CommandsListed ==
    /\ NoCommand \in Command
    /\ NoCommand.at = "none" /\ NoCommand.config.session = 0 /\ NoCommand.config \in ConfigFile
    /\ \A c \in cliCommands : /\ c.requests \in 1 .. 2
                              /\ c.needs \subseteq {"org", "project"}
BY DEF NoCommand, NoToken, Command, CommandLabel, ConfigFile, cliCommands, cliCommand, login,
   logout, orgsList, requireOrg, requireProject, createAndGenerate

\* A command moves on, or ends, and takes no new session with it.
LEMMA CommandMovesOn ==
    ASSUME CommandLineInv, NEW s \in Shells, NEW c \in Command, goes(s, c),
           c.at # "none" => c.left \in 1 .. 2,
           c.at \notin {"save", "saveLogin"},
           c.config.session \in {0, command[s].config.session},
           UNCHANGED <<file, accepted, issued>>,
           interrupted' \in BOOLEAN, interrupted => interrupted',
           holdsNew(s) \/ command[s].at = "forget" => interrupted' \/ c.at = "forget"
    PROVE  CommandLineInv'
<1>1. /\ command'[s] = c
      /\ \A t \in Shells : t # s => command'[t] = command[t]
      /\ command' \in [Shells -> Command]
  BY DEF goes, CommandLineInv, CommandLineTypeOK
<1>2. CommandLineTypeOK'
  BY <1>1 DEF CommandLineInv, CommandLineTypeOK
<1>3. file.session \in Nat /\ issued \in Nat
  BY DEF CommandLineInv, CommandLineTypeOK, ConfigFile
<1>4. \A t \in Shells : /\ command[t].token \in Nat /\ command[t].config.session \in Nat
  BY DEF CommandLineInv, CommandLineTypeOK, Command, ConfigFile
<1>5. NewSessionInv'
  <2>1. \A t \in Shells : /\ command'[t].config.session \in {0, command[t].config.session}
                          /\ holdsNew(t)' => holdsNew(t) /\ command'[t] = command[t]
    BY <1>1 DEF holdsNew
  <2>2. QED
    BY <1>3, <1>4, <2>1 DEF CommandLineInv, NewSessionInv
<1>6. FileInv'
  BY <1>1 DEF CommandLineInv, FileInv, holdsNew
<1>7. QED
  BY <1>2, <1>5, <1>6 DEF CommandLineInv

\* A command that is given a new session, whatever it replaces.
LEMMA SessionGiven ==
    ASSUME CommandLineInv, NEW s \in Shells, NEW l \in {"save", "saveLogin"},
           command[s].at # "none", ~holdsNew(s),
           \A t \in Shells : holdsNew(t) => command[t].token \in accepted',
           issued' = issued + 1, issued' \in accepted',
           goes(s, [command[s] EXCEPT !.at = l, !.token = issued']),
           UNCHANGED <<file, interrupted>>
    PROVE  CommandLineInv'
<1>1. /\ file.session \in Nat /\ issued \in Nat
      /\ \A t \in Shells : /\ command[t].token \in Nat
                           /\ command[t].config.session \in Nat
  BY DEF CommandLineInv, CommandLineTypeOK, Command, ConfigFile
<1>2. /\ command' \in [Shells -> Command]
      /\ \A t \in Shells : t # s => command'[t] = command[t]
      /\ command'[s].at = l /\ command'[s].token = issued + 1
      /\ command'[s].config = command[s].config /\ command'[s].left = command[s].left
  <2>1. command[s] \in Command /\ issued + 1 \in Nat
    BY <1>1 DEF CommandLineInv, CommandLineTypeOK
  <2>2. ASSUME NEW d, d = [command[s] EXCEPT !.at = l, !.token = issued + 1]
        PROVE  /\ d \in Command
               /\ d.at = l /\ d.token = issued + 1
               /\ d.config = command[s].config /\ d.left = command[s].left
    BY <2>1, <2>2 DEF Command, CommandLabel
  <2>3. QED
    BY <2>2 DEF goes, CommandLineInv, CommandLineTypeOK
<1>3. CommandLineTypeOK'
  BY <1>1, <1>2 DEF CommandLineInv, CommandLineTypeOK
<1>4. \A t \in Shells : /\ command'[t].config.session = command[t].config.session
                        /\ holdsNew(t)' <=> holdsNew(t) \/ t = s
  BY <1>2 DEF holdsNew
<1>5. NewSessionInv'
  <2>1. ASSUME NEW t \in Shells, holdsNew(t)'
        PROVE  /\ command'[t].token \in accepted'
               /\ command'[t].token \in 1 .. issued'
               /\ file.session # command'[t].token
               /\ \A u \in Shells : /\ command'[u].config.session # command'[t].token
                                    /\ holdsNew(u)' /\ u # t
                                           => command'[u].token # command'[t].token
    <3>1. CASE t = s
      BY <1>1, <1>2, <1>4, <3>1 DEF CommandLineInv, NewSessionInv
    <3>2. CASE t # s
      BY <1>1, <1>2, <1>4, <2>1, <3>2 DEF CommandLineInv, NewSessionInv
    <3>3. QED
      BY <3>1, <3>2
  <2>2. /\ file'.session <= issued'
        /\ \A t \in Shells : command'[t].config.session <= issued'
    BY <1>1, <1>4 DEF CommandLineInv, NewSessionInv
  <2>3. QED
    BY <2>1, <2>2 DEF NewSessionInv
<1>6. FileInv'
  BY <1>2 DEF FileInv, holdsNew
<1>7. QED
  BY <1>3, <1>5, <1>6 DEF CommandLineInv

\* A command that saves what it knows with its new session, and goes on with
\* it or ends.
LEMMA SessionSaved ==
    ASSUME CommandLineInv, NEW s \in Shells, NEW c \in Command, goes(s, c), holdsNew(s),
           c.at \in {"none", "request"}, c.at # "none" => c.left \in 1 .. 2,
           c.config.session \in {0, command[s].token},
           file' = renewed(command[s]),
           UNCHANGED <<accepted, issued, interrupted>>
    PROVE  CommandLineInv'
<1>1. /\ issued \in Nat
      /\ \A t \in Shells : /\ command[t].token \in Nat
                           /\ command[t].config.session \in Nat
  BY DEF CommandLineInv, CommandLineTypeOK, Command, ConfigFile
<1>2. /\ command'[s] = c
      /\ \A t \in Shells : t # s => command'[t] = command[t]
      /\ command' \in [Shells -> Command]
  BY DEF goes, CommandLineInv, CommandLineTypeOK
<1>3. file' \in ConfigFile /\ file'.session = command[s].token
  BY DEF CommandLineInv, CommandLineTypeOK, Command, ConfigFile, renewed
<1>4. CommandLineTypeOK'
  BY <1>2, <1>3 DEF CommandLineInv, CommandLineTypeOK
<1>5. NewSessionInv'
  <2>1. \A t \in Shells : holdsNew(t)' => holdsNew(t) /\ t # s /\ command'[t] = command[t]
    BY <1>2 DEF holdsNew
  <2>2. \A t \in Shells : command'[t].config.session \in
                             {0, command[s].token, command[t].config.session}
    BY <1>2
  <2>3. QED
    BY <1>1, <1>3, <2>1, <2>2 DEF CommandLineInv, NewSessionInv
<1>6. FileInv'
  BY <1>3 DEF CommandLineInv, NewSessionInv, FileInv
<1>7. QED
  BY <1>4, <1>5, <1>6 DEF CommandLineInv

\* CommandLineInv is kept.
LEMMA NextCommandLine == CommandLineInv /\ [CommandLineNext]_cliVars => CommandLineInv'
<1> SUFFICES ASSUME CommandLineInv, [CommandLineNext]_cliVars PROVE CommandLineInv'
  OBVIOUS
<1>a. /\ command \in [Shells -> Command] /\ file \in ConfigFile /\ interrupted \in BOOLEAN
      /\ \A s \in Shells : command[s].at # "none" => command[s].left \in 1 .. 2
  BY DEF CommandLineInv, CommandLineTypeOK
\* What a command that moves on without a session looks like.
<1>b. ASSUME NEW s \in Shells, NEW l \in CommandLabel
      PROVE  /\ [command[s] EXCEPT !.at = l] \in Command
             /\ [command[s] EXCEPT !.at = l].at = l
             /\ [command[s] EXCEPT !.at = l].left = command[s].left
             /\ [command[s] EXCEPT !.at = l].config = command[s].config
  BY <1>a DEF Command
<1>1. ASSUME NEW s \in Shells, UseDefault(s) \/ UseKey(s)
      PROVE  CommandLineInv'
  <2>1. file' \in ConfigFile /\ file'.session = file.session
    <3>1. CASE UseDefault(s)
      <4>1. PICK d \in {"org", "project"} : file' = [file EXCEPT !.chosen = @ \cup {d}]
        BY <3>1 DEF UseDefault
      <4>2. QED
        BY <1>a, <4>1 DEF ConfigFile
    <3>2. CASE UseKey(s)
      BY <1>a, <3>2 DEF UseKey, ConfigFile
    <3>3. QED
      BY <1>1, <3>1, <3>2
  <2>2. UNCHANGED <<accepted, issued, command, interrupted>>
    BY <1>1 DEF UseDefault, UseKey
  <2>3. QED
    BY <2>1, <2>2 DEF CommandLineInv, CommandLineTypeOK, NewSessionInv, FileInv, holdsNew
<1>2. ASSUME NEW s \in Shells, StartCommand(s)
      PROVE  CommandLineInv'
  <2>1. PICK r \in cliCommands :
            goes(s, [NoCommand EXCEPT
                        !.at = IF r = logout /\ file.session = NoToken THEN "forget"
                               ELSE "request",
                        !.run = r, !.config = file, !.left = r.requests, !.again = TRUE])
    BY <1>2 DEF StartCommand
  <2>2. PICK d : /\ goes(s, d)
                 /\ d = [NoCommand EXCEPT
                        !.at = IF r = logout /\ file.session = NoToken THEN "forget"
                               ELSE "request",
                        !.run = r, !.config = file, !.left = r.requests, !.again = TRUE]
    BY <2>1
  <2>3. r.requests \in 1 .. 2 /\ NoCommand \in Command
    BY CommandsListed
  <2>4. /\ d \in Command /\ d.at \in {"forget", "request"} /\ d.left \in 1 .. 2
        /\ d.config = file
    <3>1. PICK l \in {"forget", "request"} :
              d = [NoCommand EXCEPT !.at = l, !.run = r, !.config = file,
                                    !.left = r.requests, !.again = TRUE]
      BY <2>2
    <3>2. r.requests \in Nat /\ l \in CommandLabel
      BY <2>3 DEF CommandLabel
    <3>3. d.at = l /\ d.left = r.requests /\ d.config = file
      BY <2>3, <3>1 DEF Command
    <3>4. d \in Command
      BY <1>a, <2>3, <3>1, <3>2 DEF Command
    <3>5. QED
      BY <2>3, <3>3, <3>4
  <2>5. /\ command'[s] = d /\ \A t \in Shells : t # s => command'[t] = command[t]
        /\ command' \in [Shells -> Command]
    BY <1>a, <2>2, <2>4 DEF goes
  <2>6. command[s].at = "none" /\ UNCHANGED <<file, accepted, issued, interrupted>>
    BY <1>2 DEF StartCommand
  <2>7. CommandLineTypeOK'
    BY <2>4, <2>5, <2>6 DEF CommandLineInv, CommandLineTypeOK
  <2>8. \A t \in Shells : /\ holdsNew(t)' <=> holdsNew(t)
                          /\ holdsNew(t) => t # s
                          /\ command[t].at = "forget" => command'[t].at = "forget"
    BY <2>4, <2>5, <2>6 DEF holdsNew
  <2>9. NewSessionInv'
    BY <2>4, <2>5, <2>6, <2>8 DEF CommandLineInv, NewSessionInv
  <2>10. FileInv'
    BY <2>6, <2>8 DEF CommandLineInv, FileInv
  <2>11. QED
    BY <2>7, <2>9, <2>10 DEF CommandLineInv
<1>3. ASSUME NEW s \in Shells, RequestLogout(s)
      PROVE  CommandLineInv'
  <2> DEFINE d == [command[s] EXCEPT !.at = "forget"]
  <2>1. d \in Command /\ d.at = "forget" /\ d.left = command[s].left /\ d.config = command[s].config
    BY <1>b DEF CommandLabel
  <2>2. /\ command[s].at = "request" /\ goes(s, d)
        /\ accepted' = accepted \ {command[s].config.session}
        /\ UNCHANGED <<file, issued, interrupted>>
    BY <1>3 DEF RequestLogout
  <2> HIDE DEF d
  <2>3. /\ command'[s] = d /\ \A t \in Shells : t # s => command'[t] = command[t]
        /\ command' \in [Shells -> Command]
    BY <1>a, <2>1, <2>2 DEF goes
  <2>4. CommandLineTypeOK'
    BY <1>a, <2>1, <2>2, <2>3 DEF CommandLineInv, CommandLineTypeOK
  <2>5. \A t \in Shells : /\ command'[t].config = command[t].config
                          /\ holdsNew(t)' => holdsNew(t) /\ command'[t] = command[t]
    BY <2>1, <2>2, <2>3 DEF holdsNew
  <2>6. NewSessionInv'
    BY <2>2, <2>5 DEF CommandLineInv, NewSessionInv
  <2>7. FileInv'
    BY <2>1, <2>3 DEF FileInv
  <2>8. QED
    BY <2>4, <2>6, <2>7 DEF CommandLineInv
<1>4. ASSUME NEW s \in Shells, LoggedIn(s)
      PROVE  CommandLineInv'
  <2>1. /\ command[s].at = "request" /\ issued' = issued + 1
        /\ accepted' = accepted \cup {issued'}
        /\ goes(s, [command[s] EXCEPT !.at = "saveLogin", !.token = issued'])
        /\ UNCHANGED <<file, interrupted>>
    BY <1>4 DEF LoggedIn
  <2>2. \A t \in Shells : holdsNew(t) => command[t].token \in accepted'
    BY <2>1 DEF CommandLineInv, NewSessionInv
  <2>3. QED
    BY <2>1, <2>2, SessionGiven DEF holdsNew
<1>5. ASSUME NEW s \in Shells, RequestDone(s)
      PROVE  CommandLineInv'
  <2>1. PICK d : /\ goes(s, d)
                 /\ \/ d = NoCommand
                    \/ /\ command[s].left # 1
                       /\ d = [command[s] EXCEPT !.left = @ - 1, !.again = TRUE]
    BY <1>5 DEF RequestDone, ends
  <2>2. command[s].at = "request" /\ UNCHANGED <<file, accepted, issued, interrupted>>
    BY <1>5 DEF RequestDone
  <2>3. command[s] \in Command /\ command[s].left \in 1 .. 2
    BY <1>a, <2>2
  <2>4. CASE d = NoCommand
    BY <1>a, <2>1, <2>2, <2>4, CommandsListed, CommandMovesOn DEF holdsNew
  <2>5. CASE command[s].left # 1 /\ d = [command[s] EXCEPT !.left = @ - 1, !.again = TRUE]
    <3>1. /\ d \in Command /\ d.at = "request" /\ d.left \in 1 .. 2
          /\ d.config = command[s].config
      <4>1. command[s].left = 2
        BY <2>3, <2>5
      <4>2. d = [command[s] EXCEPT !.left = 1, !.again = TRUE]
        BY <2>5, <4>1
      <4>3. d.at = command[s].at /\ d.left = 1 /\ d.config = command[s].config
        BY <2>3, <4>2 DEF Command
      <4>4. d \in Command
        BY <2>3, <4>2 DEF Command
      <4>5. QED
        BY <2>2, <4>3, <4>4
    <3>2. QED
      BY <1>a, <2>1, <2>2, <3>1, CommandMovesOn DEF holdsNew
  <2>6. QED
    BY <2>1, <2>4, <2>5
<1>6. ASSUME NEW s \in Shells, Unauthorized(s)
      PROVE  CommandLineInv'
  <2>1. PICK d : /\ goes(s, d)
                 /\ \/ d = NoCommand
                    \/ d = [command[s] EXCEPT !.at = "refresh", !.again = FALSE]
    BY <1>6 DEF Unauthorized, ends
  <2>2. command[s].at = "request" /\ UNCHANGED <<file, accepted, issued, interrupted>>
    BY <1>6 DEF Unauthorized
  <2>3. command[s] \in Command /\ command[s].left \in 1 .. 2
    BY <1>a, <2>2
  <2>4. CASE d = NoCommand
    BY <1>a, <2>1, <2>2, <2>4, CommandsListed, CommandMovesOn DEF holdsNew
  <2>5. CASE d = [command[s] EXCEPT !.at = "refresh", !.again = FALSE]
    <3>1. /\ d \in Command /\ d.at = "refresh" /\ d.left \in 1 .. 2
          /\ d.config = command[s].config
      BY <2>2, <2>3, <2>5 DEF Command, CommandLabel
    <3>2. QED
      BY <1>a, <2>1, <2>2, <3>1, CommandMovesOn DEF holdsNew
  <2>6. QED
    BY <2>1, <2>4, <2>5
<1>7. ASSUME NEW s \in Shells, FindSession(s)
      PROVE  CommandLineInv'
  <2>1. /\ goes(s, [command[s] EXCEPT !.at = "rotate"]) \/ goes(s, NoCommand)
        /\ command[s].at = "refresh" /\ UNCHANGED <<file, accepted, issued, interrupted>>
    BY <1>7 DEF FindSession, ends
  <2>2. CASE goes(s, NoCommand)
    BY <1>a, <2>1, <2>2, CommandsListed, CommandMovesOn DEF holdsNew
  <2>3. CASE goes(s, [command[s] EXCEPT !.at = "rotate"])
    <3> DEFINE d == [command[s] EXCEPT !.at = "rotate"]
    <3>1. /\ d \in Command /\ d.at = "rotate" /\ d.left = command[s].left
          /\ d.config = command[s].config
      BY <1>b DEF CommandLabel
    <3>2. goes(s, d)
      BY <2>3
    <3> HIDE DEF d
    <3>3. QED
      BY <1>a, <2>1, <3>1, <3>2, CommandMovesOn DEF holdsNew
  <2>4. QED
    BY <2>1, <2>2, <2>3
<1>8. ASSUME NEW s \in Shells, RotateSession(s)
      PROVE  CommandLineInv'
  <2> DEFINE old == command[s].config.session
  <2>1. /\ command[s].at = "rotate" /\ issued' = issued + 1
        /\ accepted' = (accepted \ {old}) \cup {issued'}
        /\ goes(s, [command[s] EXCEPT !.at = "save", !.token = issued'])
        /\ UNCHANGED <<file, interrupted>>
    BY <1>8 DEF RotateSession
  <2>2. \A t \in Shells : holdsNew(t) => command[t].token \in accepted'
    BY <2>1 DEF CommandLineInv, NewSessionInv
  <2>3. QED
    BY <2>1, <2>2, SessionGiven DEF holdsNew
<1>9. ASSUME NEW s \in Shells, SaveSession(s)
      PROVE  CommandLineInv'
  <2>1. PICK d : /\ goes(s, d)
                 /\ d = [command[s] EXCEPT !.at = "request", !.config = renewed(command[s])]
    BY <1>9 DEF SaveSession
  <2>2. /\ command[s].at = "save" /\ file' = renewed(command[s])
        /\ UNCHANGED <<accepted, issued, interrupted>>
    BY <1>9 DEF SaveSession
  <2>3. command[s] \in Command /\ command[s].left \in 1 .. 2
    BY <1>a, <2>2
  <2>4. renewed(command[s]) \in ConfigFile /\ renewed(command[s]).session = command[s].token
    BY <2>3 DEF renewed, Command, ConfigFile
  <2>5. /\ d \in Command /\ d.at = "request" /\ d.left \in 1 .. 2
        /\ d.config = renewed(command[s])
    BY <2>1, <2>3, <2>4 DEF Command, CommandLabel
  <2>6. QED
    BY <2>1, <2>2, <2>4, <2>5, SessionSaved DEF holdsNew
<1>10. ASSUME NEW s \in Shells, SaveLogin(s)
       PROVE  CommandLineInv'
  BY <1>10, CommandsListed, SessionSaved DEF SaveLogin, ends, holdsNew
<1>11. ASSUME NEW s \in Shells, Forget(s)
       PROVE  CommandLineInv'
  <2>1. /\ command[s].at = "forget" /\ file' = NoCommand.config /\ goes(s, NoCommand)
        /\ UNCHANGED <<accepted, issued, interrupted>>
    BY <1>11 DEF Forget, ends
  <2>2. /\ command'[s] = NoCommand /\ \A t \in Shells : t # s => command'[t] = command[t]
        /\ command' \in [Shells -> Command]
    BY <1>a, <2>1, CommandsListed DEF goes
  <2>3. CommandLineTypeOK'
    BY <1>a, <2>1, <2>2, CommandsListed DEF CommandLineInv, CommandLineTypeOK
  <2>4. /\ issued \in Nat
        /\ \A t \in Shells : holdsNew(t)' => holdsNew(t) /\ t # s
    BY <2>1, <2>2, CommandsListed DEF holdsNew, CommandLineInv, CommandLineTypeOK
  <2>5. NewSessionInv'
    BY <2>1, <2>2, <2>4, CommandsListed DEF CommandLineInv, NewSessionInv
  <2>6. FileInv'
    BY <2>1, CommandsListed DEF FileInv, NoToken
  <2>7. QED
    BY <2>3, <2>5, <2>6 DEF CommandLineInv
<1>12. ASSUME NEW s \in Shells, Interrupt(s)
       PROVE  CommandLineInv'
  <2>1. /\ goes(s, NoCommand) /\ UNCHANGED <<file, accepted, issued>>
        /\ interrupted' \in BOOLEAN /\ (interrupted => interrupted')
        /\ holdsNew(s) \/ command[s].at = "forget" => interrupted'
    BY <1>a, <1>12 DEF Interrupt, ends, holdsNew
  <2>2. QED
    BY <2>1, CommandsListed, CommandMovesOn
<1>13. CASE RevokeKey
  BY <1>13 DEF RevokeKey, CommandLineInv, CommandLineTypeOK, NewSessionInv, FileInv, holdsNew
<1>14. CASE UNCHANGED cliVars
  BY <1>14 DEF cliVars, CommandLineInv, CommandLineTypeOK, NewSessionInv, FileInv, holdsNew
<1>15. QED
  BY <1>1, <1>2, <1>3, <1>4, <1>5, <1>6, <1>7, <1>8, <1>9, <1>10, <1>11, <1>12, <1>13, <1>14
     DEF CommandLineNext

\* Whatever commands run at once, the session in the file is accepted when they
\* are done: for any number of shells, commands and sessions.
THEOREM SavedSessionIsLiveHolds == CommandLineSpec => []SavedSessionIsLive
<1>1. CommandLineInit => CommandLineInv
  <2> SUFFICES ASSUME CommandLineInit PROVE CommandLineInv
    OBVIOUS
  <2>1. CommandLineTypeOK
    BY CommandsListed DEF CommandLineInit, CommandLineTypeOK
  <2>2. NewSessionInv /\ FileInv
    BY CommandsListed DEF CommandLineInit, NewSessionInv, FileInv, holdsNew, NoToken
  <2>3. QED
    BY <2>1, <2>2 DEF CommandLineInv
<1>2. CommandLineInv => SavedSessionIsLive
  BY DEF CommandLineInv, FileInv, holdsNew, SavedSessionIsLive
<1>3. QED
  BY <1>1, <1>2, NextCommandLine, PTL DEF CommandLineSpec
=============================================================================
