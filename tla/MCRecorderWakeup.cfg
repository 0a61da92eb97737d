CONSTANTS
    Recorder = {r1}
    Worker = {w1}
    Clock = Clock
    Api = Api
    None = None
    Ops = {"reset"}
    ResetWhileSending = TRUE
    FrameSizes = {640}
    Samples = 320
    ClockRate = 16
    MaxPcmBytes = 640
    Capacity = 2
    MaxFrames = 3
    MaxCycles = 2
SPECIFICATION Spec
PROPERTIES WaiterIsWoken
CHECK_DEADLOCK FALSE
