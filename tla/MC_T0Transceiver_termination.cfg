CONSTANTS
    Commands <- MCCommands
    SWs <- MCSWs
    DataBytes = {1, 96}
    MaxNull = 1
    MaxAll = 2
    NullAfterData = FALSE
    LateBytes = TRUE
    MaxNoise = 1
    NoiseKinds = {"line", "echo", "drop"}
    NoiseBytes = {1}
    MaxExchanges = 1
SPECIFICATION Spec
PROPERTY
    Termination
CHECK_DEADLOCK FALSE
