SPECIFICATION FairSpec
CONSTANTS
    Events = {e1}
    Hooks = {a, b}
    Subscribes <- AllSubscribe
    Slots = {s1, s2}
    NoMessage = NoMessage
    MAX_ATTEMPTS = 3
    FaultKinds <- AllFaults
    MaxFaults = 2
INVARIANTS
    RowIsTruthful
PROPERTIES
    ImplementsDelivery
    DeliverySettles
CHECK_DEADLOCK FALSE
