CONSTANTS
    VMs = {m1, m2}
    InitVMs = {m1}
    NONE = NONE
    MaxStarts = 2
    MaxUpdates = 1
    MaxFaults = 1
    StartMayFail = TRUE
SPECIFICATION Spec
CHECK_DEADLOCK FALSE
INVARIANTS
    TypeOK
    SetupOncePerStart
PROPERTY WaitingStartHandled
