CONSTANTS
    CardChannels = {1, 2}
    SelectSWs <- MCSelectOk
    ExchangeFaults = FALSE
    MaxCalls = 4
SPECIFICATION Spec
INVARIANT
    ClosedChannelIsClosed
CHECK_DEADLOCK FALSE
