SPECIFICATION Spec
CONSTANTS
    Stages <- TailStages
    DependsOn <- TailDependsOn
    Optional <- TailOptional
    MaxAttempts <- TailAttempts
    Requires <- TailRequires
    Finalize = "finalize"
    Handlers = {h1, h2}
    NoStage = NoStage
    FaultKinds = {"workerCrash"}
    MaxFaults = 1
    CancelAsked = FALSE
    KvAnswers = TRUE
INVARIANTS
    BilledAtMostOnce
CHECK_DEADLOCK FALSE
