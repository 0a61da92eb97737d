CONSTANTS
    Recorder = {r1, r2}
    Worker = {w1}
    Clock = Clock
    Api = Api
    None = None
    Ops = {"stop_transmit", "reset", "vad_mode"}
    ResetWhileSending = FALSE
    FrameSizes = {640}
    Samples = 320
    ClockRate = 16
    MaxPcmBytes = 640
    Capacity = 1
    MaxFrames = 2
    MaxCycles = 1
SPECIFICATION Spec
PROPERTIES TickCompletes EveryFrameDelivered ResetReturns
CHECK_DEADLOCK FALSE
