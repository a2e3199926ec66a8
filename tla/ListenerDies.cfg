CONSTANTS
    VMs = {m1, m2}
    InitVMs = {m1, m2}
    NONE = NONE
    MaxStarts = 2
    MaxUpdates = 1
    MaxFaults = 1
    StartMayFail = FALSE
SPECIFICATION Spec
CHECK_DEADLOCK FALSE
INVARIANT MonitoringNeverStops
