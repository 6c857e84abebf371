CONSTANTS
    Commands <- MCCommands
    SWs <- MCSWsWith6160
    DataBytes = {1, 96}
    MaxNull = 1
    MaxAll = 2
    NullAfterData = FALSE
    LateBytes = FALSE
    MaxNoise = 0
    NoiseKinds = {}
    NoiseBytes = {1}
    MaxExchanges = 2
SPECIFICATION Spec
INVARIANTS
    NoSpuriousFailure
CHECK_DEADLOCK FALSE
