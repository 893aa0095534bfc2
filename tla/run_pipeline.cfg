SPECIFICATION Spec
CONSTANTS
    Stages <- DiamondStages
    DependsOn <- DiamondDependsOn
    Optional <- DiamondOptional
    MaxAttempts <- TwoAttempts
    Requires <- DiamondRequires
    Finalize = "finalize"
    Handlers = {h1, h2}
    NoStage = NoStage
    FaultKinds = {}
    MaxFaults = 0
    CancelAsked = TRUE
    KvAnswers = TRUE
SYMMETRY HandlerSymmetry
INVARIANTS
    TypeOK
    FailedRunIsUnbilled
    RunningStageSeesInputs
    BilledAtMostOnce
CHECK_DEADLOCK FALSE
