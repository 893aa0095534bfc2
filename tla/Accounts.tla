------------------------------ MODULE Accounts ------------------------------
(***************************************************************************)
(* How one e-mail address gets an account and its owner signs in: the      *)
(* sign-up, sign-in and verification pages of the web application, the     *)
(* requests they make (apps/api/src/auth/auth.service.ts, one step per     *)
(* query), the messages that are mailed, and Google's redirects.  The      *)
(* requests of two browser windows interleave.                             *)
(*                                                                         *)
(* SMTP is configured and mail arrives: without SMTP the mailer only logs, *)
(* with the token taken out of the link.                                   *)
(***************************************************************************)
EXTENDS Naturals, FiniteSets

CONSTANTS
    Windows,              \* browser windows, each with one request in flight
    verificationRequired, \* REQUIRE_EMAIL_VERIFICATION
    MaxLinks,             \* verification links sent in all
    MaxUpsets             \* queries or mails that fail

ASSUME AccountsAssumption ==
    /\ verificationRequired \in BOOLEAN
    /\ MaxLinks \in Nat /\ MaxUpsets \in Nat

Links == 1 .. MaxLinks
NoLink == 0

VARIABLES
    account,    \* the User row: whether it exists, has a password, is verified
    workspaces, \* organizations that were made for it
    linked,     \* the OAuthAccount row exists
    link,       \* the EmailVerificationToken rows
    mailbox,    \* links that reached the owner of the address
    screen,     \* the page of each window
    req,        \* the request of each window: what it does next
    signedInAs, \* how each window got its session, if it has one
    oauthState, \* the state cookie all windows share
    consent,    \* windows that are at Google's consent page, with their state
    upsets

accountVars == <<account, workspaces, linked, link, mailbox, screen, req,
                 signedInAs, oauthState, consent, upsets>>

NoAccount == [exists |-> FALSE, password |-> FALSE, verified |-> FALSE]
NoReq == [at |-> "idle", link |-> NoLink]

AccountsInit ==
    /\ account = NoAccount
    /\ workspaces = 0
    /\ linked = FALSE
    /\ link = [n \in Links |-> "none"]
    /\ mailbox = {}
    /\ screen = [w \in Windows |-> "signup"]
    /\ req = [w \in Windows |-> NoReq]
    /\ signedInAs = [w \in Windows |-> "nobody"]
    /\ oauthState = "none"
    /\ consent = [w \in Windows |-> FALSE]
    /\ upsets = 0

rows == <<account, workspaces, linked, link>>
windowPages == <<screen, signedInAs>>
google == <<oauthState, consent>>

AuthGoto(w, label) == req' = [req EXCEPT ![w].at = label]

\* The reply of a request, and the page it leads to.
Reply(w, page) ==
    /\ req' = [req EXCEPT ![w] = NoReq]
    /\ screen' = [screen EXCEPT ![w] = page]
    /\ UNCHANGED signedInAs

Refuse(w) == Reply(w, screen[w])

\* issueTokens, the session cookie and the access token.
SignIn(w, how) ==
    /\ req' = [req EXCEPT ![w] = NoReq]
    /\ screen' = [screen EXCEPT ![w] = "dashboard"]
    /\ signedInAs' = [signedInAs EXCEPT ![w] = how]

-----------------------------------------------------------------------------
(* The pages.                                                              *)

\* A form sends one request at a time; the honeypot is left empty.
submit(w, page, label) ==
    /\ req[w] = NoReq
    /\ screen[w] = page
    /\ AuthGoto(w, label)
    /\ UNCHANGED <<rows, mailbox, windowPages, google, upsets>>

SignupPage(w) == submit(w, "signup", "register")
LoginPage(w) == submit(w, "login", "login")

\* Both offer the mail again, where it is waited for.
resend(w) == submit(w, "inbox", "resend") \/ submit(w, "needsVerification", "resend")

\* The verification page redeems the token of its link once.
OpenLink(w) ==
    /\ req[w] = NoReq
    /\ \E n \in mailbox : req' = [req EXCEPT ![w] = [at |-> "verify", link |-> n]]
    /\ screen' = [screen EXCEPT ![w] = "verifying"]
    /\ UNCHANGED <<rows, mailbox, signedInAs, google, upsets>>

OpenLogin(w) ==
    /\ req[w] = NoReq
    /\ screen[w] # "login"
    /\ screen' = [screen EXCEPT ![w] = "login"]
    /\ UNCHANGED <<rows, mailbox, signedInAs, req, google, upsets>>

-----------------------------------------------------------------------------
(* Password and link.                                                      *)

\* With verification on, a taken address is answered like a new one.
FindRegistered(w) ==
    /\ req[w].at = "register"
    /\ IF ~account.exists THEN AuthGoto(w, "createUser") /\ UNCHANGED windowPages
       ELSE IF verificationRequired THEN Reply(w, "inbox") ELSE Refuse(w)
    /\ UNCHANGED <<rows, mailbox, google, upsets>>

\* Mutant: the address is not unique.
CreateUserTwice(w) ==
    /\ req[w].at = "createUser"
    /\ account' = [exists |-> TRUE, password |-> TRUE, verified |-> FALSE]
    /\ AuthGoto(w, "workspace")
    /\ UNCHANGED <<workspaces, linked, link, mailbox, windowPages, google, upsets>>

\* The address is unique: the second of two that found none is rejected.
CreateUser(w) ==
    /\ req[w].at = "createUser"
    /\ IF account.exists THEN Refuse(w) /\ UNCHANGED account
       ELSE /\ account' = [exists |-> TRUE, password |-> TRUE, verified |-> FALSE]
            /\ AuthGoto(w, "workspace")
            /\ UNCHANGED windowPages
    /\ UNCHANGED <<workspaces, linked, link, mailbox, google, upsets>>

createPersonalWorkspace(w) ==
    /\ req[w].at \in {"workspace", "googleWorkspace"}
    /\ workspaces' = workspaces + 1
    /\ AuthGoto(w, IF req[w].at = "workspace" THEN "sendFirst" ELSE "googleLink")
    /\ UNCHANGED <<account, linked, link, mailbox, windowPages, google, upsets>>

newLink(n) == link[n] = "none" /\ \A m \in 1 .. n - 1 : link[m] # "none"

\* sendVerification: the row, then the mail.
SendVerification(w) ==
    /\ req[w].at \in {"sendFirst", "sendAgain"}
    /\ \E n \in Links :
           /\ newLink(n)
           /\ link' = [link EXCEPT ![n] = "fresh"]
           /\ mailbox' = mailbox \cup {n}
    /\ AuthGoto(w, IF req[w].at = "sendFirst" THEN "registered" ELSE "resent")
    /\ UNCHANGED <<account, workspaces, linked, windowPages, google, upsets>>

\* Mutant: a new account is signed in at once.
RegisteredAnyway(w) ==
    /\ req[w].at = "registered"
    /\ SignIn(w, "password")
    /\ UNCHANGED <<rows, mailbox, google, upsets>>

Registered(w) ==
    /\ req[w].at = "registered"
    /\ IF verificationRequired THEN Reply(w, "inbox") ELSE SignIn(w, "password")
    /\ UNCHANGED <<rows, mailbox, google, upsets>>

Login(w) ==
    /\ req[w].at = "login"
    /\ IF ~account.password THEN Refuse(w)
       ELSE IF verificationRequired /\ ~account.verified
            THEN Reply(w, "needsVerification")
            ELSE SignIn(w, "password")
    /\ UNCHANGED <<rows, mailbox, google, upsets>>

FindUnverified(w) ==
    /\ req[w].at = "resend"
    /\ AuthGoto(w, IF account.exists /\ ~account.verified THEN "sendAgain" ELSE "resent")
    /\ UNCHANGED <<rows, mailbox, windowPages, google, upsets>>

Resent(w) ==
    /\ req[w].at = "resent"
    /\ Refuse(w)
    /\ UNCHANGED <<rows, mailbox, google, upsets>>

\* A link is found, and then used: two requests may find it unused.
FindLink(w) ==
    /\ req[w].at = "verify"
    /\ \/ link[req[w].link] = "fresh" /\ AuthGoto(w, "useLink") /\ UNCHANGED windowPages
       \/ Refuse(w)     \* used, or older than a day
    /\ UNCHANGED <<rows, mailbox, google, upsets>>

UseLink(w) ==
    /\ req[w].at = "useLink"
    /\ link' = [link EXCEPT ![req[w].link] = "used"]
    /\ account' = [account EXCEPT !.verified = TRUE]
    /\ SignIn(w, "link")
    /\ UNCHANGED <<workspaces, linked, mailbox, google, upsets>>

-----------------------------------------------------------------------------
(* Google.                                                                 *)

\* googleStart: a new state replaces that of any other window.
GoogleStart(w) ==
    /\ req[w] = NoReq
    /\ screen[w] \in {"signup", "login"}
    /\ ~consent[w]
    /\ oauthState' = w
    /\ consent' = [consent EXCEPT ![w] = TRUE]
    /\ UNCHANGED <<rows, mailbox, windowPages, req, upsets>>

\* googleCallback: the cookie is cleared whatever it holds.
GoogleCallback(w) ==
    /\ consent[w]
    /\ req[w] = NoReq
    /\ consent' = [consent EXCEPT ![w] = FALSE]
    /\ oauthState' = "none"
    /\ IF oauthState = w THEN AuthGoto(w, "googleFind") /\ UNCHANGED windowPages
       ELSE Reply(w, "login")
    /\ UNCHANGED <<rows, mailbox, upsets>>

\* loginWithGoogle: the link, then the address.
FindLinked(w) ==
    /\ req[w].at = "googleFind"
    /\ IF linked THEN SignIn(w, "google")
       ELSE AuthGoto(w, "googleFindUser") /\ UNCHANGED windowPages
    /\ UNCHANGED <<rows, mailbox, google, upsets>>

FindGoogleUser(w) ==
    /\ req[w].at = "googleFindUser"
    /\ AuthGoto(w, IF account.exists THEN "googleAttach" ELSE "googleCreate")
    /\ UNCHANGED <<rows, mailbox, windowPages, google, upsets>>

\* One transaction; the identity is unique too.
AttachGoogle(w) ==
    /\ req[w].at = "googleAttach"
    /\ IF linked THEN Reply(w, "login") /\ UNCHANGED <<account, linked>>
       ELSE /\ linked' = TRUE
            /\ account' = [account EXCEPT !.verified = TRUE]
            /\ SignIn(w, "google")
    /\ UNCHANGED <<workspaces, link, mailbox, google, upsets>>

CreateGoogleUser(w) ==
    /\ req[w].at = "googleCreate"
    /\ IF account.exists THEN Reply(w, "login") /\ UNCHANGED account
       ELSE /\ account' = [exists |-> TRUE, password |-> FALSE, verified |-> TRUE]
            /\ AuthGoto(w, "googleWorkspace")
            /\ UNCHANGED windowPages
    /\ UNCHANGED <<workspaces, linked, link, mailbox, google, upsets>>

LinkGoogle(w) ==
    /\ req[w].at = "googleLink"
    /\ IF linked THEN Reply(w, "login") /\ UNCHANGED linked
       ELSE linked' = TRUE /\ SignIn(w, "google")
    /\ UNCHANGED <<account, workspaces, link, mailbox, google, upsets>>

-----------------------------------------------------------------------------
\* A query or the mail server fails; what was written stays.
RequestFails(w) ==
    /\ req[w] # NoReq
    /\ upsets < MaxUpsets
    /\ upsets' = upsets + 1
    /\ Refuse(w)
    /\ UNCHANGED <<rows, mailbox, google>>

AccountsNext ==
    \E w \in Windows :
        \/ SignupPage(w) \/ LoginPage(w) \/ resend(w) \/ OpenLink(w) \/ OpenLogin(w)
        \/ FindRegistered(w) \/ CreateUser(w) \/ createPersonalWorkspace(w)
        \/ SendVerification(w) \/ Registered(w) \/ Login(w)
        \/ FindUnverified(w) \/ Resent(w) \/ FindLink(w) \/ UseLink(w)
        \/ GoogleStart(w) \/ GoogleCallback(w) \/ FindLinked(w)
        \/ FindGoogleUser(w) \/ AttachGoogle(w) \/ CreateGoogleUser(w)
        \/ LinkGoogle(w) \/ RequestFails(w)

AccountsSpec == AccountsInit /\ [][AccountsNext]_accountVars

-----------------------------------------------------------------------------
(* Properties.                                                             *)

\* With verification on, nobody gets a session for an address that was never
\* confirmed, by a link that was mailed to it or by Google: not by signing up,
\* nor by signing up again, nor while another window creates the account.
SessionsAreConfirmed ==
    verificationRequired =>
        \A w \in Windows : signedInAs[w] # "nobody" => account.verified

\* An account has one personal workspace once the requests that create it are
\* over, although the pages of two windows and Google create it at once; only
\* a failure leaves an account without one.
OneWorkspaceEach ==
    LET beginning == \E w \in Windows : req[w].at \in {"workspace", "googleWorkspace"}
    IN  /\ workspaces <= 1
        /\ account.exists /\ ~beginning /\ upsets = 0 => workspaces = 1
=============================================================================
