CONSTANTS
    Commands <- MCCommands
    SWs <- MCSWs
    DataBytes = {1, 96}
    MaxNull = 1
    MaxAll = 2
    NullAfterData = FALSE
    LateBytes = FALSE
    MaxNoise = 0
    NoiseKinds = {}
    NoiseBytes = {1}
    MaxExchanges = 2
SPECIFICATION Spec
INVARIANTS
    TypeOK
PROPERTY
    ImplementsExchange
CHECK_DEADLOCK FALSE
