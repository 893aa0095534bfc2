------------------------------- MODULE Studio -------------------------------
(***************************************************************************)
(* What one tab of the web application shows of the server's rows: the     *)
(* queries its pages mount and the mutations they offer                    *)
(* (apps/web/lib/api/hooks.ts), the cache between them (TanStack Query,    *)
(* external) and the live events that tell the tab of other writes.        *)
(*                                                                         *)
(* The queries have separate cache entries, so each behaviour follows one  *)
(* of them and numbers the writes of the rows it reads.                    *)
(*                                                                         *)
(* MaxPending is a bound of the model: the buttons that delete a scene or  *)
(* revoke a key are not disabled while their mutation is pending.          *)
(***************************************************************************)
EXTENDS Naturals, FiniteSets

CONSTANTS
    MaxPending, \* mutations that are pending at one time
    MaxChanges  \* writes of the rows and requests that fail, in all

ASSUME StudioAssumption == MaxPending \in Nat /\ MaxChanges \in Nat

-----------------------------------------------------------------------------
(* Queries: what must be known before they are made (nothing, the          *)
(* organization, or its project too), whether they poll, how often they    *)
(* are retried, and the retries every query has by default.                *)

retry == 1

query(key, needs, polls, retries) ==
    [key |-> key, needs |-> needs, polls |-> polls, retries |-> retries]

useOrgResource(key, polls) == query(key, "org", polls, retry)

useHealth == query("health", "nothing", TRUE, 0)
useMe == query("me", "nothing", FALSE, retry)
useOrg == query("org", "nothing", FALSE, retry)
useStats == useOrgResource("stats", TRUE)
useAvatars == useOrgResource("avatars", FALSE)
useVoices == useOrgResource("voices", FALSE)
useBrandKits == useOrgResource("brand-kits", FALSE)
useWorkflows == useOrgResource("workflows", FALSE)
useApiKeys == useOrgResource("api-keys", FALSE)
useWebhooks == useOrgResource("webhooks", FALSE)
useProviders == query("providers", "nothing", FALSE, retry)
usePlugins == query("plugins", "nothing", FALSE, retry)
useMonitor == query("monitor", "nothing", TRUE, retry)
useWorkspace == query("workspace", "org", TRUE, retry)
useVideoDetail == query("video", "project", FALSE, retry)
useVideoOutput == query("video-output", "project", FALSE, retry)
useGatewaySettings == query("billing-gateway", "nothing", FALSE, 0)
useAdminPlans == query("billing-admin-plans", "nothing", FALSE, 0)
useBillingPlans == query("billing-plans", "nothing", FALSE, retry)
useOrgSubscription == query("billing-subscription", "org", FALSE, retry)

NoQuery == query("none", "nothing", FALSE, 0)

-----------------------------------------------------------------------------
(* Mutations: the queries that read what they write (the controllers of    *)
(* apps/api), the queries that a success invalidates, whether the API      *)
(* publishes an event for them, and when a page lets the user ask for      *)
(* them: always, while the list is shown, while one of its rows is, or in  *)
(* an editor that is opened from the list.                                 *)

mutation(name, writes, keys, publishes, offered) ==
    [name |-> name, writes |-> writes, keys |-> keys, publishes |-> publishes,
     offered |-> offered]

useOrgMutation(name, key, offered) == mutation(name, {key}, {key}, FALSE, offered)

\* Mutant: the editor's page is forgotten.
useVideoMutationList(name, offered) == mutation(name, {"video"}, {"workspace"}, FALSE, offered)

useVideoMutation(name, offered) ==
    mutation(name, {"video"}, {"video", "workspace"}, FALSE, offered)

useCreateAvatar == useOrgMutation("createAvatar", "avatars", "listed")
useCreateProject == useOrgMutation("createProject", "workspace", "modal")
useCreateBrandKit == useOrgMutation("createBrandKit", "brand-kits", "editor")
useUpdateBrandKit == useOrgMutation("updateBrandKit", "brand-kits", "editor")
useTogglePlugin == useOrgMutation("togglePlugin", "plugins", "row")
useCreateApiKey == useOrgMutation("createApiKey", "api-keys", "always")
useRevokeApiKey == useOrgMutation("revokeApiKey", "api-keys", "row")
useCreateWebhook == useOrgMutation("createWebhook", "webhooks", "always")
useCreateScene == useVideoMutation("createScene", "row")
useUpdateScene == useVideoMutation("updateScene", "row")
useDeleteScene == useVideoMutation("deleteScene", "row")

\* The row of a video is counted by the dashboard and joined by the monitor.
useCreateVideo ==
    mutation("createVideo", {"workspace", "stats", "monitor"}, {"workspace"}, TRUE, "modal")
useGenerateVideo ==
    mutation("generateVideo", {"video", "video-output", "workspace", "stats", "monitor"},
             {"workspace", "video"}, TRUE, "row")

\* The settings of the gateway are part of what the billing page reads.
useUpdateGateway ==
    mutation("updateGateway", {"billing-gateway", "billing-plans", "billing-subscription"},
             {"billing-gateway"}, FALSE, "always")
planMutation(name, offered) ==
    mutation(name, {"billing-admin-plans", "billing-plans"}, {"billing-admin-plans"}, FALSE,
             offered)
useCreatePlan == planMutation("createPlan", "always")
useUpdatePlan == planMutation("updatePlan", "row")

\* What these write no list shows, but for the code that the gateway gives a
\* plan when it is first bought.
useExtractBrand == mutation("extractBrand", {}, {}, FALSE, "editor")
useRunWorkflow == mutation("runWorkflow", {}, {"workflows"}, FALSE, "row")
useCheckout ==
    mutation("checkout", {"billing-admin-plans"}, {"billing-subscription"}, FALSE, "always")

-----------------------------------------------------------------------------
(* Pages.                                                                  *)

pageOf(mounts, offers) == [mounts |-> mounts, offers |-> offers]

DashboardPage == pageOf({useStats, useWorkspace}, {})
StudioPage == pageOf({useAvatars, useVoices}, {useCreateAvatar})
BrandsPage == pageOf({useBrandKits}, {useCreateBrandKit, useUpdateBrandKit, useExtractBrand})
WorkflowsPage == pageOf({useWorkflows}, {useRunWorkflow})
PluginsPage == pageOf({usePlugins}, {useTogglePlugin})
ProvidersPage == pageOf({useProviders}, {})
MonitorPage == pageOf({useMonitor}, {})
DeveloperPage == pageOf({useApiKeys, useWebhooks},
                        {useCreateApiKey, useRevokeApiKey, useCreateWebhook})
EditorContent == pageOf({useWorkspace, useVideoDetail, useVideoOutput, useAvatars, useVoices},
                        {useCreateScene, useUpdateScene, useDeleteScene, useGenerateVideo})
GatewayCard == pageOf({useGatewaySettings}, {useUpdateGateway})
PlanEditor == pageOf({useAdminPlans}, {useCreatePlan, useUpdatePlan})
PaymentsPage == pageOf(GatewayCard.mounts \cup PlanEditor.mounts,
                       GatewayCard.offers \cup PlanEditor.offers)
BillingPage == pageOf({useBillingPlans, useOrgSubscription}, {useCheckout})
NewProjectModal == pageOf({useWorkspace}, {useCreateProject, useCreateVideo})

\* The sidebar and the top bar.
Shell == pageOf({useMe, useOrg, useHealth}, {})

StudioPages ==
    {DashboardPage, StudioPage, BrandsPage, WorkflowsPage, PluginsPage, ProvidersPage,
     MonitorPage, DeveloperPage, EditorContent, PaymentsPage, BillingPage}
Hooks == UNION {p.offers : p \in StudioPages \cup {NewProjectModal}}

\* An event invalidates these; the pipeline writes what these read; and the
\* queries worth following are those that somebody writes or invalidates.
INVALIDATE_ON_EVENT == {"workspace", "video", "monitor", "stats"}
pipelineWrites == {"workspace", "video", "video-output", "monitor", "stats"}
followed == {q \in UNION {p.mounts : p \in StudioPages} :
                 \/ q.key \in INVALIDATE_ON_EVENT \cup pipelineWrites
                 \/ \E m \in Hooks : q.key \in m.keys \cup m.writes}

VARIABLES
    watched,   \* the query this behaviour follows, once it was chosen
    onPage,    \* the page, and
    modalOpen, \* whether the dialog for a new project is open over it
    editMode,  \* the page's editor was opened from its list
    scoped,    \* what is known of {"org", "project"}
    version,   \* how often the rows were written
    cached,    \* the query: its data (a version), isStale, status "error"
    fetching,  \* its fetch: where it stands, what it read, how often it failed
    asked,     \* the mutations that are pending, and what they wrote
    emitted,   \* writes whose event is on its way to the tab
    told,      \* history: the last write whose news invalidated the query
    unnoticed, \* history: the writes whose news did not, each with who told of it
    joined,    \* history: that was while a fetch was under way that goes on
    misses

studioVars == <<watched, onPage, modalOpen, editMode, scoped, version, cached,
                fetching, asked, emitted, told, unnoticed, joined, misses>>

NoData == [known |-> FALSE, data |-> 0, stale |-> TRUE, error |-> FALSE]
Idle == [at |-> "idle", data |-> 0, failures |-> 0]
Sent == [Idle EXCEPT !.at = "sent"]

StudioInit ==
    /\ watched = NoQuery
    /\ onPage = ProvidersPage
    /\ modalOpen = FALSE
    /\ editMode = FALSE
    /\ scoped = {}
    /\ version = 0
    /\ cached = NoData
    /\ fetching = Idle
    /\ asked = {}
    /\ emitted = {}
    /\ told = 0
    /\ unnoticed = {}
    /\ joined = FALSE
    /\ misses = 0

mountedOn(p, open) ==
    watched \in p.mounts \cup Shell.mounts \cup (IF open THEN NewProjectModal.mounts ELSE {})
mounted == mountedOn(onPage, modalOpen)
enabledIn(scope) == watched.needs = "nothing" \/ watched.needs \in scope

\* Nothing to show yet: the pages show their loading state.
isPending == ~cached.known /\ ~cached.error

-----------------------------------------------------------------------------
(* The cache.                                                              *)

\* A fetch begins, unless one is under way or the data is fresh.
fetchOnMount(is) ==
    IF is /\ fetching = Idle /\ cached.stale
    THEN fetching' = Sent /\ cached' = [cached EXCEPT !.error = FALSE] /\ joined' = FALSE
    ELSE UNCHANGED <<fetching, cached, joined>>

\* invalidateQueries: a query that is shown is fetched again; a fetch that is
\* under way is begun again if there is data, else it is joined.
invalidate(keys) ==
    LET is == mounted /\ enabledIn(scoped)
        restarts == fetching = Idle \/ cached.known
    IN  IF watched.key \notin keys THEN UNCHANGED <<cached, fetching, joined>>
        ELSE /\ cached' = [cached EXCEPT !.stale = TRUE,
                                         !.error = @ /\ ~(is /\ restarts)]
             /\ fetching' = IF is /\ restarts THEN Sent ELSE fetching
             /\ joined' = (fetching # Idle /\ ~(is /\ restarts))

GetRows ==
    /\ fetching.at = "sent"
    /\ fetching' = [fetching EXCEPT !.at = "read", !.data = version]
    /\ UNCHANGED <<watched, onPage, modalOpen, editMode, scoped, version, cached, asked,
                   emitted, told, unnoticed, joined, misses>>

ShowRows ==
    /\ fetching.at = "read"
    /\ fetching' = Idle
    /\ cached' = [known |-> TRUE, data |-> fetching.data, stale |-> FALSE, error |-> FALSE]
    /\ UNCHANGED <<watched, onPage, modalOpen, editMode, scoped, version, asked, emitted,
                   told, unnoticed, joined, misses>>

\* A failure is retried; after the last one the old data stays.
FetchFails ==
    /\ fetching # Idle
    /\ version + misses < MaxChanges
    /\ misses' = misses + 1
    /\ IF fetching.failures < watched.retries
       THEN /\ fetching' = [Sent EXCEPT !.failures = fetching.failures + 1]
            /\ joined' = FALSE
            /\ UNCHANGED cached
       ELSE /\ fetching' = Idle
            /\ cached' = [cached EXCEPT !.error = TRUE, !.stale = TRUE]
            /\ UNCHANGED joined
    /\ UNCHANGED <<watched, onPage, modalOpen, editMode, scoped, version, asked, emitted, told, unnoticed>>

\* staleTime passes.
BecomeStale ==
    /\ ~cached.stale
    /\ cached' = [cached EXCEPT !.stale = TRUE]
    /\ UNCHANGED <<watched, onPage, modalOpen, editMode, scoped, version, fetching, asked,
                   emitted, told, unnoticed, joined, misses>>

\* An entry that nobody shows is dropped after a while.
ForgetQuery ==
    /\ ~mounted
    /\ fetching = Idle
    /\ cached' = NoData
    /\ UNCHANGED <<watched, onPage, modalOpen, editMode, scoped, version, fetching, asked,
                   emitted, told, unnoticed, joined, misses>>

\* refetchInterval.
PollRows ==
    /\ watched.polls
    /\ mounted /\ enabledIn(scoped)
    /\ fetching = Idle
    /\ fetching' = Sent
    /\ cached' = [cached EXCEPT !.error = FALSE]
    /\ joined' = FALSE
    /\ UNCHANGED <<watched, onPage, modalOpen, editMode, scoped, version, asked, emitted,
                   told, unnoticed, misses>>

-----------------------------------------------------------------------------
(* The tab.                                                                *)

FollowQuery ==
    /\ watched = NoQuery
    /\ watched' \in followed
    /\ UNCHANGED <<onPage, modalOpen, editMode, scoped, version, cached, fetching, asked,
                   emitted, told, unnoticed, joined, misses>>

\* The organization and the project the other requests need arrive.
LoadScope ==
    /\ watched # NoQuery
    /\ \E s \in {{"org"}, {"org", "project"}} :
           /\ scoped \subseteq s /\ scoped # s
           /\ scoped' = s
           /\ fetchOnMount(mounted /\ enabledIn(s))
    /\ UNCHANGED <<watched, onPage, modalOpen, editMode, version, asked, emitted, told, unnoticed, misses>>

\* The pages that neither mount the query nor offer to write what it reads are
\* alike here: the page of the providers stands for them.
concerns(p) ==
    watched \in p.mounts \/ \E m \in p.offers : watched.key \in m.keys \cup m.writes

Navigate(p) ==
    /\ concerns(p) \/ p = ProvidersPage
    /\ watched # NoQuery
    /\ p # onPage
    /\ onPage' = p
    /\ editMode' = FALSE
    /\ modalOpen' = FALSE
    /\ fetchOnMount(~mounted /\ mountedOn(p, FALSE) /\ enabledIn(scoped))
    /\ UNCHANGED <<watched, scoped, version, asked, emitted, told, unnoticed, misses>>

OpenModal ==
    /\ concerns(NewProjectModal)
    /\ ~modalOpen
    /\ modalOpen' = TRUE
    /\ fetchOnMount(~mounted /\ mountedOn(onPage, TRUE) /\ enabledIn(scoped))
    /\ UNCHANGED <<watched, onPage, editMode, scoped, version, asked, emitted, told, unnoticed, misses>>

OpenEditor ==
    /\ onPage = BrandsPage
    /\ watched = useBrandKits
    /\ ~isPending
    /\ editMode' = TRUE
    /\ UNCHANGED <<watched, onPage, modalOpen, scoped, version, cached, fetching, asked,
                   emitted, told, unnoticed, joined, misses>>

CloseEditor ==
    /\ editMode
    /\ editMode' = FALSE
    /\ UNCHANGED <<watched, onPage, modalOpen, scoped, version, cached, fetching, asked,
                   emitted, told, unnoticed, joined, misses>>

\* What the page lets the user do now.  The list it depends on is one that the
\* mutation invalidates.
offers(m) ==
    /\ m \in onPage.offers \cup (IF modalOpen THEN NewProjectModal.offers ELSE {})
    /\ m.offered = "editor" /\ watched.key \in m.keys => editMode
    /\ m.offered = "listed" /\ watched.key \in m.keys => ~isPending
    /\ m.offered = "row" /\ watched.key \in m.keys => cached.known

\* Without an organization, or the project of the video, the request is not made.
Mutate(m) ==
    /\ watched.key \in m.keys \cup m.writes
    /\ offers(m)
    /\ \A a \in asked : a.hook # m
    /\ Cardinality(asked) < MaxPending
    /\ "org" \in scoped \/ m \in PaymentsPage.offers
    /\ m \in EditorContent.offers => "project" \in scoped
    /\ asked' = asked \cup {[hook |-> m, at |-> "sent", wrote |-> 0]}
    /\ UNCHANGED <<watched, onPage, modalOpen, editMode, scoped, version, cached, fetching,
                   emitted, told, unnoticed, joined, misses>>

\* The API writes rows, of the query or of others, and publishes its event.
WriteRows(a) ==
    /\ a.at = "sent"
    /\ IF watched.key \in a.hook.writes
       THEN /\ version + misses < MaxChanges
            /\ version' = version + 1
            /\ asked' = (asked \ {a}) \cup {[a EXCEPT !.at = "done", !.wrote = version']}
            /\ emitted' = IF a.hook.publishes THEN emitted \cup {version'} ELSE emitted
       ELSE /\ asked' = (asked \ {a}) \cup {[a EXCEPT !.at = "done"]}
            /\ UNCHANGED <<version, emitted>>
    /\ UNCHANGED <<watched, onPage, modalOpen, editMode, scoped, cached, fetching, told,
                   unnoticed, joined, misses>>

newer(m, n) == IF m > n THEN m ELSE n

\* The tab learns of a write from somebody who invalidates keys.
learns(by, write, keys) ==
    IF watched.key \in keys
    THEN told' = newer(write, told) /\ UNCHANGED unnoticed
    ELSE UNCHANGED told /\ unnoticed' = unnoticed \cup {[by |-> by, write |-> write]}

\* onSuccess of the hook runs on whatever page the user is by now.
MutationSucceeds(a) ==
    /\ a.at = "done"
    /\ asked' = asked \ {a}
    /\ IF a.wrote > 0 THEN learns(a.hook.name, a.wrote, a.hook.keys)
                      ELSE UNCHANGED <<told, unnoticed>>
    /\ invalidate(a.hook.keys)
    /\ UNCHANGED <<watched, onPage, modalOpen, editMode, scoped, version, emitted, misses>>

\* The write may have been made all the same.
MutationFails(a) ==
    /\ version + misses < MaxChanges
    /\ misses' = misses + 1
    /\ asked' = asked \ {a}
    /\ UNCHANGED <<watched, onPage, modalOpen, editMode, scoped, version, cached, fetching,
                   emitted, told, unnoticed, joined>>

\* The pipeline writes a row and publishes its event, which reaches the tab
\* unless it is offline.
PipelineWrites ==
    /\ watched.key \in pipelineWrites
    /\ version + misses < MaxChanges
    /\ version' = version + 1
    /\ emitted' = emitted \cup {version'}
    /\ UNCHANGED <<watched, onPage, modalOpen, editMode, scoped, cached, fetching, asked,
                   told, unnoticed, joined, misses>>

LiveEvent ==
    \E v \in emitted :
        /\ emitted' = emitted \ {v}
        /\ invalidate(INVALIDATE_ON_EVENT)
        /\ learns("event", v, INVALIDATE_ON_EVENT)
        /\ UNCHANGED <<watched, onPage, modalOpen, editMode, scoped, version, asked, misses>>

StudioNext ==
    \/ FollowQuery \/ LoadScope
    \/ GetRows \/ ShowRows \/ FetchFails \/ BecomeStale \/ ForgetQuery \/ PollRows
    \/ \E p \in StudioPages : Navigate(p)
    \/ OpenModal \/ OpenEditor \/ CloseEditor
    \/ \E m \in Hooks : Mutate(m)
    \/ \E a \in asked : WriteRows(a) \/ MutationSucceeds(a) \/ MutationFails(a)
    \/ PipelineWrites \/ LiveEvent

StudioSpec == StudioInit /\ [][StudioNext]_studioVars

-----------------------------------------------------------------------------
(* Properties.                                                             *)

\* Who tells the tab of a write, and which query of it the news leaves alone.
LeftBehind ==
    {<<"generateVideo", "video-output">>, <<"event", "video-output">>,
     <<"updateGateway", "billing-plans">>, <<"updateGateway", "billing-subscription">>,
     <<"createPlan", "billing-plans">>, <<"updatePlan", "billing-plans">>,
     <<"checkout", "billing-admin-plans">>}

\* Once no fetch is under way, a page shows what its user has just done and
\* every event it was told of, wherever the user went in between.  A write that
\* the mutation's success does not pass on to a query reaches it by its event;
\* as long as that is on its way, or when it is lost, the query is behind, and
\* the queries of LeftBehind are behind until they are mounted again and stale.
\* Beyond that only a fetch that the news met and that was not begun again may
\* leave it behind, as may one that failed.
OwnWritesAreShown ==
    mounted /\ fetching = Idle /\ cached.known /\ ~cached.error /\ ~joined =>
        /\ cached.data >= told
        /\ \A u \in unnoticed :
               \/ cached.data >= u.write
               \/ u.write \in emitted
               \/ <<u.by, watched.key>> \in LeftBehind
=============================================================================
