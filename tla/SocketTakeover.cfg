CONSTANTS
    Procs = {a, b}
    Ports = {0, 8080}
    NONE = NONE
    MaxFaults = 1
SYMMETRY ProcSymmetry
SPECIFICATION Spec
CHECK_DEADLOCK FALSE
INVARIANT ServerReachable
