CONSTANTS
    Bodies <- MCBodies
    RedirectBodies <- MCRedirectBodies
    HostHeaders <- MCHostHeaders
    AllocFaults = FALSE
    MaxCalls = 1
SPECIFICATION Spec
PROPERTY
    ImplementsHttpContract
CHECK_DEADLOCK FALSE
