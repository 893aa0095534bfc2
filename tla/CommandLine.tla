---------------------------- MODULE CommandLine -----------------------------
(***************************************************************************)
(* The surfgen command (apps/cli/src): commands that run at the same time  *)
(* in several shells share one file, ~/.surfgen/config.json, which holds   *)
(* the session, the API key and the defaults.  Each loads it, talks to the *)
(* API, renews the session when a request is answered 401, and may save    *)
(* the file, as a whole, as it knows it.                                   *)
(*                                                                         *)
(* What a command does to the file without a request in between is one     *)
(* step; the API is external, and what it does with a refresh token is     *)
(* modelled step by step in Sessions.                                      *)
(***************************************************************************)
EXTENDS Naturals

CONSTANTS
    Shells,
    MaxTokens,  \* sessions that are given out in all
    MaxCommands \* commands that are started in all

ASSUME CommandLineAssumption == MaxTokens \in Nat /\ MaxCommands \in Nat

NoToken == 0

VARIABLES
    file,       \* config.json: session, API key and defaults
    accepted,       \* refresh tokens the API accepts
    issued,     \* refresh tokens there were
    keyRevoked, \* the API key is not accepted any more
    command,    \* what runs in each shell
    started,
    interrupted \* history: a session was given out, and never saved

cliVars == <<file, accepted, issued, keyRevoked, command, started, interrupted>>

\* A command: the defaults it asks for, and its requests.
cliCommand(name, needs, requests) == [name |-> name, needs |-> needs, requests |-> requests]

login == cliCommand("login", {}, 1)
logout == cliCommand("logout", {}, 1)
orgsList == cliCommand("orgs list", {}, 1)
\* projects list, projects create
requireOrg == cliCommand("projects", {"org"}, 1)
\* videos list, create, status, generate and cancel
requireProject == cliCommand("videos", {"org", "project"}, 1)
createAndGenerate == cliCommand("videos create --generate", {"org", "project"}, 2)

cliCommands == {login, logout, orgsList, requireOrg, requireProject, createAndGenerate}

NoCommand ==
    [at |-> "none", run |-> logout, config |-> [session |-> NoToken, key |-> FALSE, chosen |-> {}],
     left |-> 0, again |-> FALSE, token |-> NoToken]

CommandLineInit ==
    /\ file = NoCommand.config
    /\ accepted = {}
    /\ issued = 0
    /\ keyRevoked = FALSE
    /\ command = [s \in Shells |-> NoCommand]
    /\ started = 0
    /\ interrupted = FALSE

goes(s, c) == command' = [command EXCEPT ![s] = c]
ends(s) == goes(s, NoCommand)

-----------------------------------------------------------------------------
(* Commands without a request.                                             *)

CountCommand == started < MaxCommands /\ started' = started + 1

\* orgs use, projects use
UseDefault(s) ==
    /\ command[s].at = "none"
    /\ CountCommand
    /\ \E d \in {"org", "project"} : file' = [file EXCEPT !.chosen = @ \cup {d}]
    /\ UNCHANGED <<accepted, issued, keyRevoked, command, interrupted>>

UseKey(s) ==
    /\ command[s].at = "none"
    /\ CountCommand
    /\ file' = [file EXCEPT !.key = TRUE]
    /\ UNCHANGED <<accepted, issued, keyRevoked, command, interrupted>>

-----------------------------------------------------------------------------
(* Commands with requests.                                                 *)

\* Without a session to end, a logout only forgets.
StartCommand(s) ==
    /\ command[s].at = "none"
    /\ CountCommand
    /\ \E c \in cliCommands :
           /\ c.needs \subseteq file.chosen
           /\ goes(s, [NoCommand EXCEPT
                           !.at = IF c = logout /\ file.session = NoToken THEN "forget"
                                  ELSE "request",
                           !.run = c, !.config = file, !.left = c.requests, !.again = TRUE])
    /\ UNCHANGED <<file, accepted, issued, keyRevoked, interrupted>>

\* The answers of the API: the API key comes before the session, whose access
\* token may have expired.
answers(c) ==
    IF c.run = login THEN {"ok", "unauthorized"}
    ELSE IF c.config.key THEN {IF keyRevoked THEN "unauthorized" ELSE "ok"}
    ELSE {"unauthorized"} \cup (IF c.config.session # NoToken THEN {"ok"} ELSE {})

\* A logout is answered at once, and errors of it are ignored.
RequestLogout(s) ==
    /\ command[s].at = "request" /\ command[s].run = logout
    /\ accepted' = accepted \ {command[s].config.session}
    /\ goes(s, [command[s] EXCEPT !.at = "forget"])
    /\ UNCHANGED <<file, issued, keyRevoked, started, interrupted>>

LoggedIn(s) ==
    /\ command[s].at = "request" /\ command[s].run = login
    /\ "ok" \in answers(command[s])
    /\ issued < MaxTokens
    /\ issued' = issued + 1
    /\ accepted' = accepted \cup {issued'}
    /\ goes(s, [command[s] EXCEPT !.at = "saveLogin", !.token = issued'])
    /\ UNCHANGED <<file, keyRevoked, started, interrupted>>

RequestDone(s) ==
    /\ command[s].at = "request" /\ command[s].run \notin {login, logout}
    /\ "ok" \in answers(command[s])
    /\ IF command[s].left = 1
       THEN ends(s)
       ELSE goes(s, [command[s] EXCEPT !.left = @ - 1, !.again = TRUE])
    /\ UNCHANGED <<file, accepted, issued, keyRevoked, started, interrupted>>

\* request: a 401 is tried again once, with a new session.
Unauthorized(s) ==
    /\ command[s].at = "request" /\ command[s].run # logout
    /\ "unauthorized" \in answers(command[s])
    /\ IF command[s].again /\ command[s].config.session # NoToken
       THEN goes(s, [command[s] EXCEPT !.at = "refresh", !.again = FALSE])
       ELSE ends(s)
    /\ UNCHANGED <<file, accepted, issued, keyRevoked, started, interrupted>>

\* The API looks the session up, and replaces it.
FindSession(s) ==
    /\ command[s].at = "refresh"
    /\ IF command[s].config.session \in accepted
       THEN goes(s, [command[s] EXCEPT !.at = "rotate"])
       ELSE ends(s)
    /\ UNCHANGED <<file, accepted, issued, keyRevoked, started, interrupted>>

RotateSession(s) ==
    /\ command[s].at = "rotate"
    /\ issued < MaxTokens
    /\ issued' = issued + 1
    /\ accepted' = (accepted \ {command[s].config.session}) \cup {issued'}
    /\ goes(s, [command[s] EXCEPT !.at = "save", !.token = issued'])
    /\ UNCHANGED <<file, keyRevoked, started, interrupted>>

renewed(c) == [c.config EXCEPT !.session = c.token]

\* Mutant: the new session is used, not saved.
SaveSessionInMemory(s) ==
    /\ command[s].at = "save"
    /\ goes(s, [command[s] EXCEPT !.at = "request", !.config = renewed(command[s])])
    /\ UNCHANGED <<file, accepted, issued, keyRevoked, started, interrupted>>

\* saveConfig: the file as it was when the command began, with a new session.
SaveSession(s) ==
    /\ command[s].at = "save"
    /\ file' = renewed(command[s])
    /\ goes(s, [command[s] EXCEPT !.at = "request", !.config = renewed(command[s])])
    /\ UNCHANGED <<accepted, issued, keyRevoked, started, interrupted>>

SaveLogin(s) ==
    /\ command[s].at = "saveLogin"
    /\ file' = renewed(command[s])
    /\ ends(s)
    /\ UNCHANGED <<accepted, issued, keyRevoked, started, interrupted>>

Forget(s) ==
    /\ command[s].at = "forget"
    /\ file' = NoCommand.config
    /\ ends(s)
    /\ UNCHANGED <<accepted, issued, keyRevoked, started, interrupted>>

\* A command is killed, or the answer it waits for is lost.
Interrupt(s) ==
    /\ command[s].at # "none"
    /\ ends(s)
    /\ interrupted' = (interrupted \/ command[s].at \in {"rotate", "save", "saveLogin", "forget"})
    /\ UNCHANGED <<file, accepted, issued, keyRevoked, started>>

RevokeKey ==
    /\ ~keyRevoked
    /\ keyRevoked' = TRUE
    /\ UNCHANGED <<file, accepted, issued, command, started, interrupted>>

CommandLineNext ==
    \/ \E s \in Shells :
           \/ UseDefault(s) \/ UseKey(s) \/ StartCommand(s)
           \/ RequestLogout(s) \/ LoggedIn(s) \/ RequestDone(s) \/ Unauthorized(s)
           \/ FindSession(s) \/ RotateSession(s) \/ SaveSession(s) \/ SaveLogin(s)
           \/ Forget(s) \/ Interrupt(s)
    \/ RevokeKey

CommandLineSpec == CommandLineInit /\ [][CommandLineNext]_cliVars

-----------------------------------------------------------------------------
(* Properties.                                                             *)

\* Commands of several shells renew the session they found in the file, end
\* it or begin another, in any order: when all of them are done, and none was
\* interrupted before it could save, the session in the file is one the API
\* accepts, so that nobody has to log in again.
SavedSessionIsLive ==
    (\A s \in Shells : command[s].at = "none") /\ ~interrupted =>
        file.session \in accepted \cup {NoToken}
=============================================================================
