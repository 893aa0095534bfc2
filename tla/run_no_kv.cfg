SPECIFICATION FairSpec
CONSTANTS
    Stages <- StrictStages
    DependsOn <- StrictDependsOn
    Optional <- StrictOptional
    MaxAttempts <- StrictAttempts
    Requires <- StrictRequires
    Finalize = "finalize"
    Handlers = {h1, h2}
    NoStage = NoStage
    FaultKinds = {}
    MaxFaults = 0
    CancelAsked = FALSE
    KvAnswers = FALSE
PROPERTIES
    ExhaustedStageEndsRun
CHECK_DEADLOCK FALSE
