CONSTANTS
    Bodies <- MCBodies
    RedirectBodies = {}
    HostHeaders <- MCHostHeaders
    AllocFaults = FALSE
    MaxCalls = 1
SPECIFICATION Spec
INVARIANT
    NoDriverFreeOfHostMemory
CHECK_DEADLOCK FALSE
