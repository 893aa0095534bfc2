SPECIFICATION FairSpec
CONSTANTS
    Stages <- StrictStages
    DependsOn <- StrictDependsOn
    Optional <- StrictOptional
    MaxAttempts <- StrictAttempts
    Requires <- StrictRequires
    Finalize = "finalize"
    Handlers = {h1, h2}
    NoStage = NoStage
    FaultKinds = {"workerCrash"}
    MaxFaults = 1
    CancelAsked = FALSE
    KvAnswers = TRUE
INVARIANTS
    NoArtifactLost
PROPERTIES
    RunTerminates
    EventuallyQuiet
CHECK_DEADLOCK FALSE
