CONSTANTS
    MaxPorts = 3
    Level = {64, 128}
    Setting = {"ENABLE"}
    Configured = {}
    InCallback = {"remove"}
    NULL = NULL
SPECIFICATION ClaimsSpec
INVARIANT AStatementHolds
