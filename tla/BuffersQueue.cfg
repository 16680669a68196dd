SPECIFICATION FairSpec
CONSTANTS
    BufferSize = 2
    InitialPolicy <- AllAllocated
    Policies <- Calibrated
    SizeMod = 64
    MaxRecords = 9
    MaxPolicyChanges = 1
INVARIANTS BuffersAccounted NoMissedWakeup
PROPERTIES FlushReturns ImplementsChannel
