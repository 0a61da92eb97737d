CONSTANTS
    RingSize = 4
    Pcm = {a, b}
    FrameSizes = {2, 640, 642}
    MaxPcmBytes = 640
    WordSize = 64
    MaxCount = 7
    Null = Null
SPECIFICATION Spec
INVARIANTS TypeOK Aligned AccessorsAgree
PROPERTY ImplementsFrameWindow
