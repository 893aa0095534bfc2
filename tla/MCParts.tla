------------------------------ MODULE MCParts -------------------------------
(* Parts of the system that share no row and no variable, checked in one   *)
(* run: each behaviour exercises one of them, the others stay as they are. *)
EXTENDS ProviderRegistry, EventBus, LiveEvents, Videos, Editor, Workspace,
        Accounts, Organizations, Studio, StageWork, WorkerProcess, Storage,
        Outbox, CommandLine, Configuration

CONSTANTS Parts, cloud, local
VARIABLE part

partsVars ==
    <<part, vars, busVars, liveVars, videoVars, editorVars, workspaceVars,
      accountVars, orgVars, studioVars, workVars, processVars, storageVars,
      outboxVars, cliVars, configVars>>

PartsInit ==
    /\ part \in Parts
    /\ Init
    /\ BusInit
    /\ LiveInit
    /\ VideosInit
    /\ EditorInit
    /\ WorkspaceInit
    /\ AccountsInit
    /\ OrganizationsInit
    /\ StudioInit
    /\ WorkInit
    /\ WorkerProcessInit
    /\ StorageInit
    /\ OutboxInit
    /\ CommandLineInit
    /\ ConfigurationInit
    \* One beginning will do for the parts that are not exercised.
    /\ part # "registry" => ToSet(list) = Providers

PartsNext ==
    \/ /\ part = "registry"
       /\ Next
       /\ UNCHANGED <<part, busVars, liveVars, videoVars, editorVars,
                      workspaceVars, accountVars, orgVars, studioVars,
                      workVars, processVars, storageVars, outboxVars,
                      cliVars, configVars>>
    \/ /\ part = "bus"
       /\ BusNext
       /\ UNCHANGED <<part, vars, liveVars, videoVars, editorVars,
                      workspaceVars, accountVars, orgVars, studioVars,
                      workVars, processVars, storageVars, outboxVars,
                      cliVars, configVars>>
    \/ /\ part = "live"
       /\ LiveNext
       /\ UNCHANGED <<part, vars, busVars, videoVars, editorVars,
                      workspaceVars, accountVars, orgVars, studioVars,
                      workVars, processVars, storageVars, outboxVars,
                      cliVars, configVars>>
    \/ /\ part = "videos"
       /\ VideosNext
       /\ UNCHANGED <<part, vars, busVars, liveVars, editorVars,
                      workspaceVars, accountVars, orgVars, studioVars,
                      workVars, processVars, storageVars, outboxVars,
                      cliVars, configVars>>
    \/ /\ part = "editor"
       /\ EditorNext
       /\ UNCHANGED <<part, vars, busVars, liveVars, videoVars,
                      workspaceVars, accountVars, orgVars, studioVars,
                      workVars, processVars, storageVars, outboxVars,
                      cliVars, configVars>>
    \/ /\ part = "workspace"
       /\ WorkspaceNext
       /\ UNCHANGED <<part, vars, busVars, liveVars, videoVars, editorVars,
                      accountVars, orgVars, studioVars, workVars,
                      processVars, storageVars, outboxVars, cliVars,
                      configVars>>
    \/ /\ part = "accounts"
       /\ AccountsNext
       /\ UNCHANGED <<part, vars, busVars, liveVars, videoVars, editorVars,
                      workspaceVars, orgVars, studioVars, workVars,
                      processVars, storageVars, outboxVars, cliVars,
                      configVars>>
    \/ /\ part = "organizations"
       /\ OrganizationsNext
       /\ UNCHANGED <<part, vars, busVars, liveVars, videoVars, editorVars,
                      workspaceVars, accountVars, studioVars, workVars,
                      processVars, storageVars, outboxVars, cliVars,
                      configVars>>
    \/ /\ part = "studio"
       /\ StudioNext
       /\ UNCHANGED <<part, vars, busVars, liveVars, videoVars, editorVars,
                      workspaceVars, accountVars, orgVars, workVars,
                      processVars, storageVars, outboxVars, cliVars,
                      configVars>>
    \/ /\ part = "work"
       /\ WorkNext
       /\ UNCHANGED <<part, vars, busVars, liveVars, videoVars, editorVars,
                      workspaceVars, accountVars, orgVars, studioVars,
                      processVars, storageVars, outboxVars, cliVars,
                      configVars>>
    \/ /\ part = "process"
       /\ WorkerProcessNext
       /\ UNCHANGED <<part, vars, busVars, liveVars, videoVars, editorVars,
                      workspaceVars, accountVars, orgVars, studioVars,
                      workVars, storageVars, outboxVars, cliVars, configVars>>
    \/ /\ part = "storage"
       /\ StorageNext
       /\ UNCHANGED <<part, vars, busVars, liveVars, videoVars, editorVars,
                      workspaceVars, accountVars, orgVars, studioVars,
                      workVars, processVars, outboxVars, cliVars, configVars>>
    \/ /\ part = "outbox"
       /\ OutboxNext
       /\ UNCHANGED <<part, vars, busVars, liveVars, videoVars, editorVars,
                      workspaceVars, accountVars, orgVars, studioVars,
                      workVars, processVars, storageVars, cliVars, configVars>>
    \/ /\ part = "cli"
       /\ CommandLineNext
       /\ UNCHANGED <<part, vars, busVars, liveVars, videoVars, editorVars,
                      workspaceVars, accountVars, orgVars, studioVars,
                      workVars, processVars, storageVars, outboxVars,
                      configVars>>
    \/ /\ part = "configuration"
       /\ ConfigurationNext
       /\ UNCHANGED <<part, vars, busVars, liveVars, videoVars, editorVars,
                      workspaceVars, accountVars, orgVars, studioVars,
                      workVars, processVars, storageVars, outboxVars, cliVars>>

PartsSpec == PartsInit /\ [][PartsNext]_partsVars

\* The cloud provider goes first, the local one behind it.
CloudFirst == [p \in {cloud, local} |-> IF p = cloud THEN 10 ELSE 20]
AllEligible == [c \in Calls |-> Providers]

\* Documents that say something of a block, nothing of it, too little or what
\* the schema refuses.
SampleDocuments ==
    {<<>>,
     [defaults |-> Mapping([quality |-> Value("18")])],
     [defaults |-> Mapping([quality |-> Value("99")])],
     [defaults |-> Mapping(<<>>), limits |-> Mapping([maxDurationSeconds |-> Value("60")])],
     [limits |-> Value("60")],
     [watermark |-> Mapping(<<>>), editor |-> Value("vim")],
     [watermark |-> Mapping([imagePath |-> Value("logo")])],
     [watermark |-> Mapping([enabled |-> Value("true"), imagePath |-> Value("logo")])]}

\* Variables that override, that are refused, that find no key of their case
\* and that make a block.
SampleEnvironments ==
    {<<>>,
     (<<"defaults", "quality">> :> "18"),
     (<<"defaults", "quality">> :> "99"),
     (<<"limits", "maxdurationseconds">> :> "90") @@ (<<"limits", "quality">> :> "18"),
     (<<"watermark", "imagepath">> :> "badge") @@ (<<"watermark", "enabled">> :> "true"),
     (<<"watermark", "enabled">> :> "true") @@ (<<"editor", "enabled">> :> "true")}
=============================================================================
