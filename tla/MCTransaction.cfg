CONSTANTS
    Poller = {p1, p2}
    Kind <- AllKinds
    Outcome = {"sent", "pending", "error"}
    Disconnects = TRUE
SPECIFICATION Spec
INVARIANTS RefsExact  StopsRetransmitting 
PROPERTIES  EventuallyReleased
CHECK_DEADLOCK FALSE
