------------------------------ MODULE Storage -------------------------------
(***************************************************************************)
(* One key of the media store: the file system (local-storage.ts) or a     *)
(* bucket (s3-storage.ts), which stages put objects into while others read *)
(* them (materialize, stages/handlers.ts), the API serves them             *)
(* (apps/api/src/media/media.controller.ts, for the file system only) and  *)
(* others delete them.  File system and bucket are external: a rename      *)
(* puts a new file in the place of the old one, an open file is read to    *)
(* its end whatever becomes of its name, and a bucket answers with the     *)
(* last object that was put.                                               *)
(***************************************************************************)
EXTENDS Naturals

CONSTANTS
    Puts,
    Gets,
    Sizes,      \* of objects
    NoLength,   \* what a reader knows who was told no size
    MaxDeletes

ASSUME StorageAssumption == MaxDeletes \in Nat /\ NoLength \notin Sizes

VARIABLES
    driver,  \* "local" or "s3", once it was chosen
    object,  \* what is there: the number of its write, 0 for nothing, if all of it is,
             \*   and its size
    writes,  \* writes that took place
    putAt,   \* where each put stands
    getAt,   \* and each get: where it stands, the last write that was answered
             \*   before it began, the length it announced, the writes by then,
             \*   and what it read
    answered,\* the last write that was answered, 0 when the key was deleted after it
    deletes

storageVars == <<driver, object, writes, putAt, getAt, answered, deletes>>

Nothing == [write |-> 0, whole |-> TRUE, size |-> NoLength]

StorageInit ==
    /\ driver = "none"
    /\ object = Nothing
    /\ writes = 0
    /\ putAt = [p \in Puts |-> "idle"]
    /\ getAt = [g \in Gets |-> [at |-> "idle", since |-> 0, length |-> NoLength,
                                met |-> 0, got |-> Nothing]]
    /\ answered = 0
    /\ deletes = 0

\* buildStorage
BuildStorage ==
    /\ driver = "none"
    /\ driver' \in {"local", "s3"}
    /\ UNCHANGED <<object, writes, putAt, getAt, answered, deletes>>

-----------------------------------------------------------------------------
(* put.                                                                    *)

putGoes(p, from, to) == putAt[p] = from /\ putAt' = [putAt EXCEPT ![p] = to]

\* The directory, and a temporary file that is written there; when that fails
\* it is removed.
BeginPut(p) ==
    /\ driver # "none"
    /\ putGoes(p, "idle", IF driver = "local" THEN "temp" ELSE "send")
    /\ UNCHANGED <<driver, object, writes, getAt, answered, deletes>>

WriteTemp(p) ==
    /\ \/ putGoes(p, "temp", "rename")
       \/ putGoes(p, "temp", "failed")
    /\ UNCHANGED <<driver, object, writes, getAt, answered, deletes>>

replace(whole) ==
    /\ writes' = writes + 1
    /\ \E size \in Sizes : object' = [write |-> writes', whole |-> whole, size |-> size]

\* Mutant: the file is not awaited.
RenameTempEarly(p) ==
    /\ \/ putGoes(p, "rename", "sidecar") /\ replace(TRUE)
       \/ putGoes(p, "temp", "sidecar") /\ replace(FALSE)
       \/ putGoes(p, "rename", "failed") /\ UNCHANGED <<writes, object>>
    /\ UNCHANGED <<driver, getAt, answered, deletes>>

RenameTemp(p) ==
    /\ \/ putGoes(p, "rename", "sidecar") /\ replace(TRUE)
       \/ putGoes(p, "rename", "failed") /\ UNCHANGED <<writes, object>>
    /\ UNCHANGED <<driver, getAt, answered, deletes>>

\* The file of its metadata, when there are any: the object stays when that fails.
WriteSidecar(p) ==
    /\ \/ putGoes(p, "sidecar", "stat")
       \/ putGoes(p, "sidecar", "failed")
    /\ UNCHANGED <<driver, object, writes, getAt, answered, deletes>>

SendObject(p) ==
    /\ \/ putGoes(p, "send", "stat") /\ replace(TRUE)
       \/ putGoes(p, "send", "failed") /\ UNCHANGED <<writes, object>>
    /\ UNCHANGED <<driver, getAt, answered, deletes>>

\* The answer tells of what is there by now, which another put may have
\* written; when another deleted it, the put failed.
StatPut(p) ==
    /\ putAt[p] = "stat"
    /\ putAt' = [putAt EXCEPT ![p] = IF object = Nothing THEN "failed" ELSE "done"]
    /\ answered' = IF object = Nothing THEN answered ELSE object.write
    /\ UNCHANGED <<driver, object, writes, getAt, deletes>>

DeleteObject ==
    /\ driver # "none"
    /\ deletes < MaxDeletes
    /\ deletes' = deletes + 1
    /\ object' = Nothing
    /\ answered' = 0
    /\ UNCHANGED <<driver, writes, putAt, getAt>>

-----------------------------------------------------------------------------
(* get.                                                                    *)

getGoes(g, to) == getAt' = [getAt EXCEPT ![g].at = to]

getBegins(g, at) ==
    /\ getAt[g].at = "idle"
    /\ getAt' = [getAt EXCEPT ![g].at = at, ![g].since = answered]
    /\ UNCHANGED <<driver, object, writes, putAt, answered, deletes>>

\* A link of the API; those of a bucket lead to the bucket itself.
ServeMedia(g) == driver = "local" /\ getBegins(g, "link")

\* A stage reads what another stage wrote.
Materialize(g) == driver # "none" /\ getBegins(g, "input")

\* The size there is now becomes the length of the response, when it has one.
StatGet(g) ==
    /\ getAt[g].at \in {"link", "input"}
    /\ \/ object = Nothing /\ getGoes(g, "refused")
       \/ /\ object # Nothing
          /\ getAt' = [getAt EXCEPT
                          ![g].at = "open",
                          ![g].met = writes,
                          ![g].length = IF getAt[g].at = "link" THEN object.size ELSE NoLength]
    /\ UNCHANGED <<driver, object, writes, putAt, answered, deletes>>

LinkExpired(g) ==
    /\ getAt[g].at = "link"
    /\ getGoes(g, "refused")
    /\ UNCHANGED <<driver, object, writes, putAt, answered, deletes>>

\* The stream is of the object that is there by now, whatever length was announced.
OpenObject(g) ==
    /\ getAt[g].at = "open"
    /\ IF object = Nothing
       THEN getGoes(g, "refused")
       ELSE getAt' = [getAt EXCEPT ![g].at = "served", ![g].got = object]
    /\ UNCHANGED <<driver, object, writes, putAt, answered, deletes>>

StorageNext ==
    \/ BuildStorage
    \/ \E p \in Puts : \/ BeginPut(p) \/ WriteTemp(p) \/ RenameTemp(p) \/ WriteSidecar(p)
                       \/ SendObject(p) \/ StatPut(p)
    \/ DeleteObject
    \/ \E g \in Gets : ServeMedia(g) \/ Materialize(g) \/ StatGet(g) \/ LinkExpired(g) \/ OpenObject(g)

StorageSpec == StorageInit /\ [][StorageNext]_storageVars

-----------------------------------------------------------------------------
(* Properties.                                                             *)

\* The response has the length it announced.  One that has not is cut off, or
\* never ends.
fits(g) == getAt[g].length \in {NoLength, getAt[g].got.size}

\* Whatever is put and deleted at the same time: what is served is the whole of
\* one object, and none that is older than one a put had answered for before.
\* A response of the API has the length it announced unless a put replaced the
\* object after the API had asked for its size.
ServedIsWhole ==
    \A g \in Gets : getAt[g].at = "served" =>
        /\ getAt[g].got.whole
        /\ getAt[g].got.write >= getAt[g].since
        /\ fits(g) \/ getAt[g].got.write > getAt[g].met
=============================================================================
