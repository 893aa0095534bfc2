------------------------------- MODULE Editor -------------------------------
(***************************************************************************)
(* The scenes of one video: the editor page of one tab                     *)
(* (apps/web/app/(studio)/editor/page.tsx and its inspector), which shows  *)
(* what it fetched last and keeps a draft of one script, another client of *)
(* the same API, and the API's requests, which read a scene and write its  *)
(* whole content back (apps/api/src/videos/editor.controller.ts).          *)
(***************************************************************************)
EXTENDS Naturals, Sequences, FiniteSets, TLC

CONSTANTS
    MaxScenes, \* how many scenes are created
    Scripts,   \* scripts a user types
    Avatars,   \* avatars the other client assigns
    MaxAsks    \* how many requests are made

ASSUME EditorAssumption == MaxScenes \in Nat /\ MaxAsks \in Nat

SceneIds == 1 .. MaxScenes
NoScene == 0
NoContent == [script |-> "none", avatar |-> "none"]
NoRow == [order |-> 0, content |-> NoContent]

\* The mutations of the page, each of them alone, and the other client's.
SceneCalls == {"updateScene", "createScene", "deleteScene", "other"}

VARIABLES
    scene,    \* the Scene rows
    scall,    \* where each call stands
    shown,    \* detail.data.scenes: what the page shows
    arriving, \* the fetch of the video that is on its way: what it read
    active,   \* activeScene, from zero
    draft,    \* the script in the inspector
    typedOn,  \* history: the scene that was shown when the user typed it
    written,  \* history: content a scene that was created would have if no update
              \* were lost
    overlaid, \* history: scenes whose content was written from a stale copy
    asks

editorVars == <<scene, scall, shown, arriving, active, draft, typedOn, written,
                overlaid, asks>>

Blank == [script |-> "", avatar |-> ""]
NoFetch == [at |-> "none", list |-> <<>>]
Unread == [at |-> "sent", list |-> <<>>]
NoAsk == [at |-> "idle", scene |-> NoScene, change |-> Blank, read |-> Blank, last |-> 0]

EditorInit ==
    /\ scene = [s \in SceneIds |-> NoRow]
    /\ scall = [c \in SceneCalls |-> NoAsk]
    /\ shown = <<>>
    /\ arriving = NoFetch
    /\ active = 0
    /\ draft = ""
    /\ typedOn = NoScene
    /\ written = [s \in SceneIds |-> NoContent]
    /\ overlaid = {}
    /\ asks = 0

present == {s \in SceneIds : scene[s] # NoRow}

\* The last scene in the order of the video; orders start at one here.
lastOrder == IF present = {} THEN 0
             ELSE CHOOSE n \in {scene[s].order : s \in present} :
                      \A s \in present : scene[s].order <= n

\* get: the scenes by their order.
inOrder ==
    LET place(s) == Cardinality({t \in present : scene[t].order <= scene[s].order})
        at(n) == CHOOSE s \in present : place(s) = n
    IN  [n \in 1 .. Cardinality(present) |-> [id |-> at(n), script |-> scene[at(n)].content.script]]

-----------------------------------------------------------------------------
(* The page.                                                               *)

\* scenes[min(activeScene, length - 1)].
shownAt(list, n) == IF list = <<>> THEN [id |-> NoScene, script |-> ""]
                    ELSE list[IF n < Len(list) THEN n + 1 ELSE Len(list)]
currentScene == shownAt(shown, active)

\* Mutant: the effect depends on the script alone.
resyncScript(now) == now.script # currentScene.script

\* The effect of the inspector runs when its script or its scene changed.
resync(now) == now # currentScene

Rerender(list, n) ==
    LET now == shownAt(list, n)
    IN  /\ shown' = list
        /\ active' = n
        /\ IF resync(now) THEN draft' = now.script /\ typedOn' = NoScene
           ELSE UNCHANGED <<draft, typedOn>>

SelectScene(n) ==
    /\ n < Len(shown)
    /\ Rerender(shown, n)
    /\ UNCHANGED <<scene, scall, arriving, written, overlaid, asks>>

TypeScript(text) ==
    /\ currentScene.id # NoScene
    /\ draft' = text
    /\ typedOn' = currentScene.id
    /\ UNCHANGED <<scene, scall, shown, arriving, active, written, overlaid, asks>>

Ask(c, s, change, n) ==
    /\ scall[c] = NoAsk
    /\ asks < MaxAsks
    /\ asks' = asks + 1
    /\ scall' = [scall EXCEPT ![c] = [at |-> "sent", scene |-> s, change |-> change,
                                      read |-> Blank, last |-> n]]
    /\ UNCHANGED <<scene, shown, arriving, active, draft, typedOn, written, overlaid>>

SaveScript ==
    /\ currentScene.id # NoScene
    /\ draft # currentScene.script
    /\ Ask("updateScene", currentScene.id, [script |-> draft], 0)

\* The page will select the place after the scenes it shows now.
AddScene == Ask("createScene", NoScene, Blank, Len(shown))

RemoveScene(n) == n \in DOMAIN shown /\ Ask("deleteScene", shown[n].id, Blank, 0)

\* Another client assigns an avatar.
AssignAvatar(s, a) == s \in present /\ Ask("other", s, [avatar |-> a], 0)

\* A success invalidates the video: a fetch that is on its way is begun again.
Answered(c) ==
    /\ scall[c].at = "ok"
    /\ scall' = [scall EXCEPT ![c] = NoAsk]
    /\ arriving' = IF c = "other" THEN arriving ELSE Unread
    /\ Rerender(shown, CASE c = "createScene" -> scall[c].last
                         [] c = "deleteScene" -> 0
                         [] OTHER -> active)
    /\ UNCHANGED <<scene, written, overlaid, asks>>

Rejected(c) ==
    /\ scall[c].at = "error"
    /\ scall' = [scall EXCEPT ![c] = NoAsk]
    /\ UNCHANGED <<scene, shown, arriving, active, draft, typedOn, written,
                   overlaid, asks>>

\* An event of the pipeline invalidates the video as well.
Invalidate ==
    /\ arriving = NoFetch
    /\ arriving' = Unread
    /\ UNCHANGED <<scene, scall, shown, active, draft, typedOn, written, overlaid, asks>>

GetVideo ==
    /\ arriving = Unread
    /\ arriving' = [at |-> "read", list |-> inOrder]
    /\ UNCHANGED <<scene, scall, shown, active, draft, typedOn, written, overlaid, asks>>

ShowVideo ==
    /\ arriving.at = "read"
    /\ arriving' = NoFetch
    /\ Rerender(arriving.list, active)
    /\ UNCHANGED <<scene, scall, written, overlaid, asks>>

-----------------------------------------------------------------------------
(* The API.                                                                *)

Step(c, at) == scall[c].at = at

Answer(c, label) == scall' = [scall EXCEPT ![c].at = label]

pageVars == <<shown, arriving, active, draft, typedOn, asks>>

\* Mutant: the content is replaced.
mergedReplace(old, change) == change @@ Blank

\* The content of a scene, with what the request names changed.
merged(old, change) == change @@ old

\* The scene is looked up, with the content the change is merged into.
FindScene(c) ==
    /\ Step(c, "sent")
    /\ c # "createScene"
    /\ IF scene[scall[c].scene] = NoRow THEN Answer(c, "error")
       ELSE scall' = [scall EXCEPT ![c].at = "found", ![c].read = scene[scall[c].scene].content]
    /\ UNCHANGED <<scene, pageVars, written, overlaid>>

UpdateScene(c) ==
    LET s == scall[c].scene
        change == scall[c].change
    IN  /\ Step(c, "found")
        /\ c \in {"updateScene", "other"}
        /\ IF scene[s] = NoRow THEN Answer(c, "error") /\ UNCHANGED <<scene, written, overlaid>>
           ELSE /\ Answer(c, "ok")
                /\ scene' = [scene EXCEPT ![s].content = merged(scall[c].read, change)]
                /\ written' = [written EXCEPT ![s] = change @@ @]
                /\ overlaid' = IF scall[c].read = scene[s].content THEN overlaid
                               ELSE overlaid \cup {s}
        /\ UNCHANGED pageVars

DeleteScene(c) ==
    /\ Step(c, "found")
    /\ c = "deleteScene"
    /\ IF scene[scall[c].scene] = NoRow THEN Answer(c, "error") /\ UNCHANGED scene
       ELSE Answer(c, "ok") /\ scene' = [scene EXCEPT ![scall[c].scene] = NoRow]
    /\ UNCHANGED <<pageVars, written, overlaid>>

\* The order of a new scene is one more than the last.
CreateScene(c) ==
    /\ Step(c, "sent")
    /\ c = "createScene"
    /\ \E s \in SceneIds :
           /\ written[s] = NoContent
           /\ \A t \in 1 .. s - 1 : written[t] # NoContent
           /\ scene' = [scene EXCEPT ![s] = [order |-> lastOrder + 1, content |-> Blank]]
           /\ written' = [written EXCEPT ![s] = Blank]
    /\ Answer(c, "ok")
    /\ UNCHANGED <<pageVars, overlaid>>

EditorNext ==
    \/ \E n \in 0 .. Cardinality(SceneIds) : SelectScene(n) \/ RemoveScene(n)
    \/ \E text \in Scripts : TypeScript(text)
    \/ SaveScript \/ AddScene
    \/ \E s \in SceneIds, a \in Avatars : AssignAvatar(s, a)
    \/ \E c \in SceneCalls :
           \/ Answered(c) \/ Rejected(c) \/ FindScene(c) \/ UpdateScene(c)
           \/ DeleteScene(c) \/ CreateScene(c)
    \/ Invalidate \/ GetVideo \/ ShowVideo

EditorSpec == EditorInit /\ [][EditorNext]_editorVars

-----------------------------------------------------------------------------
(* Properties.                                                             *)

\* A script the user could save was typed for the scene it would be saved to,
\* although scenes come, go and move under the index the page remembers and
\* two scenes often have the same script.
DraftIsOfTheScene ==
    draft # currentScene.script => typedOn = currentScene.id

\* A scene keeps every field a request did not name: scripts do not lose the
\* avatar and avatars do not lose the script, unless two requests read the
\* scene before either wrote it.
OtherFieldsSurvive ==
    \A s \in present \ overlaid : scene[s].content = written[s]
=============================================================================
