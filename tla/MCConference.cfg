CONSTANTS
    MaxPorts = 3
    Level = {0}
    Setting = {"ENABLE", "MUTE"}
    Configured = {1}
    InCallback = {"add", "remove"}
    NULL = NULL
SPECIFICATION Spec
INVARIANTS TypeOK ListenersValid CountersExact MixIsComplete FewPassedOver
PROPERTY ImplementsMatrix
