----------------------------- MODULE Workspace ------------------------------
(***************************************************************************)
(* The rows an organization keeps (projects, videos, avatars, voices,      *)
(* workflows) and a client that reads one of these lists page by page      *)
(* while others create and delete rows.                                    *)
(*                                                                         *)
(* Rows are numbered as they are created; every list is newest first.      *)
(***************************************************************************)
EXTENDS Naturals, Sequences, FiniteSets, SequencesExt

CONSTANTS
    MaxRows,   \* rows created in all
    MaxLimit   \* the largest page size that is asked for

ASSUME WorkspaceAssumption == MaxRows \in Nat /\ MaxLimit \in Nat \ {0}

Lists == {"projects", "videos", "avatars", "voices", "workflows"}
NoList == "none"
NoCursor == 0

VARIABLES
    listing,     \* the list this behaviour is about, once it was chosen
    created,  \* how many rows were created
    live,     \* the rows whose deletedAt is null
    deleting, \* rows a request has found and not marked yet
    limit,    \* page size of the reader
    cursor,   \* its cursor
    given,    \* the rows it was given, in this order
    reading,  \* "no", "yes", or "done" when it was told that there is no more
    expected, \* history: rows that have lived since it began
    dangling  \* history: it sent a cursor whose row was deleted

workspaceVars == <<listing, created, live, deleting, limit, cursor, given, reading,
                   expected, dangling>>
readerVars == <<limit, cursor, given, reading, dangling>>

WorkspaceInit ==
    /\ listing = NoList
    /\ created = 0
    /\ live = {}
    /\ deleting = {}
    /\ limit = 1
    /\ cursor = NoCursor
    /\ given = <<>>
    /\ reading = "no"
    /\ expected = {}
    /\ dangling = FALSE

PickList ==
    /\ listing = NoList
    /\ listing' \in Lists
    /\ UNCHANGED <<created, live, deleting, readerVars, expected>>

-----------------------------------------------------------------------------
(* Creating and deleting.                                                  *)

createRow(kind) ==
    /\ listing = kind
    /\ created < MaxRows
    /\ created' = created + 1
    /\ live' = live \cup {created'}
    /\ UNCHANGED <<listing, deleting, readerVars, expected>>

CreateProject == createRow("projects")
CreateVideoRow == createRow("videos")
CreateAvatar == createRow("avatars")
CreateVoice == createRow("voices")
CreateWorkflow == createRow("workflows")

\* The row is looked up among those of the organization that are not deleted.
findRow(kind) ==
    /\ listing = kind
    /\ \E n \in live : deleting' = deleting \cup {n}
    /\ UNCHANGED <<listing, created, live, readerVars, expected>>

DeleteProject == findRow("projects")
DeleteVideoRow == findRow("videos")
DeleteAvatar == findRow("avatars")

MarkDeleted ==
    /\ \E n \in deleting :
           /\ deleting' = deleting \ {n}
           /\ live' = live \ {n}
           /\ expected' = expected \ {n}
    /\ UNCHANGED <<listing, created, readerVars>>

-----------------------------------------------------------------------------
(* Reading.                                                                *)

\* The newest rows of S, as many as are asked for.
newest(S, take) ==
    {rows \in UNION {[1 .. k -> S] : k \in 0 .. take} :
        /\ \A m, n \in DOMAIN rows : m < n => rows[m] > rows[n]
        /\ \A n \in S \ Range(rows) : Len(rows) = take /\ rows[take] > n}

\* Prisma's findMany: from the cursor on, its row included.  When the where
\* clause hides the row of the cursor, what is skipped is another row, or
\* nothing is found.
findMany(take, at, skip) ==
    IF at = NoCursor THEN newest(live, take)
    ELSE {SubSeq(rows, skip + 1, Len(rows)) :
              rows \in newest({n \in live : n <= at}, take + skip)}
         \cup (IF at \in live THEN {} ELSE {<<>>})

\* cursorArgs: one row more than the page.
fetched == findMany(limit + 1, cursor, 1)

\* Mutant: the cursor is the row that was fetched beyond the page.
pageResultBeyond(rows) ==
    IF Len(rows) > limit THEN [data |-> SubSeq(rows, 1, limit), cursor |-> Last(rows)]
    ELSE [data |-> rows, cursor |-> NoCursor]

pageResult(rows) ==
    IF Len(rows) > limit
    THEN [data |-> SubSeq(rows, 1, limit), cursor |-> rows[limit]]
    ELSE [data |-> rows, cursor |-> NoCursor]

BeginList ==
    /\ listing # NoList
    /\ reading = "no"
    /\ limit' \in 1 .. MaxLimit
    /\ reading' = "yes"
    /\ expected' = live
    /\ UNCHANGED <<listing, created, live, deleting, cursor, given, dangling>>

listPage(kind) ==
    /\ listing = kind
    /\ reading = "yes"
    /\ \E rows \in fetched :
           LET result == pageResult(rows)
           IN  /\ given' = given \o result.data
               /\ cursor' = result.cursor
               /\ reading' = IF result.cursor = NoCursor THEN "done" ELSE "yes"
    /\ dangling' = (dangling \/ cursor \notin live \cup {NoCursor})
    /\ UNCHANGED <<listing, created, live, deleting, limit, expected>>

ListProjects == listPage("projects")
ListVideos == listPage("videos")
ListAvatars == listPage("avatars")
ListVoices == listPage("voices")
ListWorkflows == listPage("workflows")

-----------------------------------------------------------------------------
WorkspaceNext ==
    \/ PickList
    \/ CreateProject \/ CreateVideoRow \/ CreateAvatar \/ CreateVoice \/ CreateWorkflow
    \/ DeleteProject \/ DeleteVideoRow \/ DeleteAvatar \/ MarkDeleted
    \/ BeginList
    \/ ListProjects \/ ListVideos \/ ListAvatars \/ ListVoices \/ ListWorkflows

WorkspaceSpec == WorkspaceInit /\ [][WorkspaceNext]_workspaceVars

-----------------------------------------------------------------------------
(* Properties.                                                             *)

\* A client that reads a list to its end is given every row that lived all the
\* time, and no row twice, although rows are created and deleted between its
\* pages; only the row of its cursor must not be deleted.
PagesAreWhole ==
    /\ reading = "done" /\ ~dangling => expected \subseteq Range(given)
    /\ \A m, n \in DOMAIN given : m < n => given[m] > given[n]
=============================================================================
