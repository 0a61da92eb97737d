CONSTANTS
    Recorder = {r1}
    Worker = {w1}
    Clock = Clock
    Api = Api
    None = None
    Ops = {"destroy", "stop_transmit"}
    ResetWhileSending = FALSE
    FrameSizes = {640}
    Samples = 320
    ClockRate = 16
    MaxPcmBytes = 640
    Capacity = 2
    MaxFrames = 1
    MaxCycles = 1
SPECIFICATION Spec
PROPERTIES DestructorReturns
CHECK_DEADLOCK FALSE
