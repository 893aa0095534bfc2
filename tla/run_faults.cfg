SPECIFICATION Spec
CONSTANTS
    Stages <- TailStages
    DependsOn <- TailDependsOn
    Optional <- TailOptional
    MaxAttempts <- TailAttempts
    Requires <- TailRequires
    Finalize = "finalize"
    Handlers = {h1, h2}
    NoStage = NoStage
    FaultKinds <- AllFaults
    MaxFaults = 1
    CancelAsked = TRUE
    KvAnswers = TRUE
SYMMETRY HandlerSymmetry
INVARIANTS
    EnqueuedAfterDependencies
    CompletedRunIsComplete
    NoPrematureGiveUp
PROPERTIES
    ImplementsProtocol
CHECK_DEADLOCK FALSE
