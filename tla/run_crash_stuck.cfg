SPECIFICATION FairSpec
CONSTANTS
    Stages <- TailStages
    DependsOn <- TailDependsOn
    Optional <- TailOptional
    MaxAttempts <- TailAttempts
    Requires <- TailRequires
    Finalize = "finalize"
    Handlers = {h1, h2}
    NoStage = NoStage
    FaultKinds = {"handlerCrash"}
    MaxFaults = 1
    CancelAsked = FALSE
    KvAnswers = TRUE
PROPERTIES
    RunTerminates
CHECK_DEADLOCK FALSE
