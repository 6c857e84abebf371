CONSTANTS
    Bytes = {0, 1, 2, 253, 255}
    MaxBody = 5
    JunkBytes = {0, 255}
INIT Init
NEXT Next
INVARIANTS
    ToRecvMatchesCaseTable
