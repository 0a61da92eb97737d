CONSTANTS
    Entry = {e1, e2, e3, e4, e5, e6}
    Grouped = {e1}
    Rewritable = {e1}
    Poller = {p1}
    Size = 0
    Delay = {0, 1}
    MaxTime = 1
    MaxPerPoll = 2
    MaxCalls = 7
    None = None
    Idle = Idle
SPECIFICATION Spec
INVARIANTS HeapOrdered HeapHoldsScheduled FreeListChained RefsExact
PROPERTY ImplementsQueue
SYMMETRY Symmetry
CHECK_DEADLOCK FALSE
