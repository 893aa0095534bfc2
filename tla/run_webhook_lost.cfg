SPECIFICATION FairSpec
CONSTANTS
    Events = {e1}
    Hooks = {a}
    Subscribes <- AllSubscribe
    Slots = {s1, s2}
    NoMessage = NoMessage
    MAX_ATTEMPTS = 3
    FaultKinds = {"crash"}
    MaxFaults = 1
PROPERTIES
    DeliverySurvivesRestart
CHECK_DEADLOCK FALSE
