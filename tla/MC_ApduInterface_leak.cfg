CONSTANTS
    CardChannels = {1, 2}
    SelectSWs <- MCSelectSWs
    ExchangeFaults = FALSE
    MaxCalls = 3
SPECIFICATION Spec
INVARIANT
    NoLeakedChannel
CHECK_DEADLOCK FALSE
