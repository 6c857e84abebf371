CONSTANTS
    ATRs <- MCATRs
    MaxRepeat = 1
SPECIFICATION Spec
PROPERTY
    ImplementsAwaitAtr
CHECK_DEADLOCK FALSE
