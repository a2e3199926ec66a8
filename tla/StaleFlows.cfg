CONSTANTS
    VMs = {m1, m2}
    DOM0 = DOM0
    NONE = NONE
    Ports = {p1, p2, p3}
    MaxChurn = 6
SYMMETRY VMSymmetry
SPECIFICATION Spec
INVARIANT NoStaleFlows
