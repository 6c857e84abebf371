CONSTANTS
    Bodies <- MCBodies
    RedirectBodies = {}
    HostHeaders <- MCHostHeaders
    AllocFaults = TRUE
    MaxCalls = 2
SPECIFICATION Spec
INVARIANT
    BuffersInBounds
PROPERTIES
    ImplementsHttpContract
    NoWriteAfterHandover
CHECK_DEADLOCK FALSE
