SPECIFICATION Spec
CONSTANTS
    Stages <- VideoStages
    DependsOn <- VideoDependsOn
    Optional <- VideoOptional
    MaxAttempts <- VideoAttempts
    Requires <- VideoRequires
    Finalize = "finalize"
    Handlers = {h1, h2}
    NoStage = NoStage
    FaultKinds = {}
    MaxFaults = 0
    CancelAsked = FALSE
    KvAnswers = TRUE
INVARIANTS
    NoArtifactLost
CHECK_DEADLOCK FALSE
