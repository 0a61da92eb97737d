CONSTANTS
    Poller = {p1, p2}
    Kind <- AllKinds
    Outcome = {"sent", "pending", "error"}
    Disconnects = TRUE
SPECIFICATION Spec
PROPERTY AnAssertionHolds
CHECK_DEADLOCK FALSE
