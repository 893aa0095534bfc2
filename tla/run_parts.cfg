SPECIFICATION PartsSpec
CONSTANTS
    Parts = {"registry", "bus", "live", "videos", "editor", "workspace",
             "accounts", "organizations", "studio", "work", "process",
             "storage", "outbox", "cli", "configuration"}
    cloud = cloud
    local = local
    Providers = {cloud, local}
    NoProvider = NoProvider
    Priority <- CloudFirst
    Calls = {c1, c2}
    Resolvers = {c2}
    Eligible <- AllEligible
    Reliable = {local}
    Aborters = {c1}
    MaxAdmin = 1
    Specs = {1, 2}
    MaxSockets = 3
    MaxRefusals = 1
    maxAttempts = 3
    MaxSignIns = 2
    MaxWires = 3
    VideoCalls = {v1, v2}
    MaxRuns = 2
    MaxDeaths = 1
    MaxAborts = 1
    MaxScenes = 2
    Scripts = {"x"}
    Avatars = {"ava"}
    MaxAsks = 4
    MaxRows = 4
    MaxLimit = 2
    Windows = {"w1", "w2"}
    verificationRequired = TRUE
    MaxLinks = 2
    MaxUpsets = 1
    Users = {"ada", "bob", "cy"}
    Founder = "ada"
    SuperAdmins = {"cy"}
    OrgCalls = {"o1", "o2"}
    MaxPending = 1
    MaxChanges = 2
    maxTries = 3
    Plugins = {g1}
    WorkQueues = {"cpu", "gpu"}
    concurrency = 2
    MaxSignals = 2
    MaxJobs = 3
    Puts = {u1, u2}
    Gets = {i1, i2}
    Sizes = {"small", "large"}
    NoLength = "none"
    MaxDeletes = 1
    Relays = {y1, y2}
    batchSize = 2
    maxRelayAttempts = 2
    MaxSubscribed = 1
    MaxStops = 1
    Shells = {h1, h2}
    MaxTokens = 3
    MaxCommands = 4
    MaxEdits = 3
    Documents <- SampleDocuments
    Environments <- SampleEnvironments
INVARIANTS
    NoSplicing
    UnavailableIsJustified
    BetterProvidersFirst
    BusIsWhole
    OneChannel
    
    RendersAlone
    DraftIsOfTheScene
    OtherFieldsSurvive
    PagesAreWhole
    SessionsAreConfirmed
    OneWorkspaceEach
    OwnerStays
    OwnWritesAreShown
    NothingLeftBehind
    JobsHaveTheirServices
    ServedIsWhole
    PublishedReachesAll
    SavedSessionIsLive
    ShownConfigIsLayered
PROPERTIES
    StatusMovesLegally
CHECK_DEADLOCK FALSE
