CONSTANTS
    CardChannels = {1, 2}
    SelectSWs <- MCSelectSWs
    ExchangeFaults = TRUE
    MaxCalls = 5
SPECIFICATION Spec
INVARIANT
    HeldChannelsUsable
CHECK_DEADLOCK FALSE
