CONSTANTS
    Recorder = {r1, r2}
    Worker = {w1, w2}
    Clock = Clock
    Api = Api
    None = None
    Ops = {"reset", "stop_transmit", "add_workers", "destroy"}
    ResetWhileSending = TRUE
    FrameSizes = {640, 320}
    Samples = 320
    ClockRate = 16
    MaxPcmBytes = 640
    Capacity = 1
    MaxFrames = 2
    MaxCycles = 1
SPECIFICATION Spec
INVARIANTS TypeOK OneTaskEach TaskFindsItsFrame DeliveredInOrder ClockFindsRing
SYMMETRY Symmetry
CHECK_DEADLOCK FALSE
