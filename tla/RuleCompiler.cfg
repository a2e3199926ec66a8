CONSTANTS
    VMs = {m1, m2, m3}
    DOM0 = DOM0
    NONE = NONE
    Ports = {p1, p2, p3, p4}
    MaxChurn = 9
SYMMETRY VMSymmetry
SPECIFICATION Spec
INVARIANTS
    TypeOK
    RefreshCoversChannels
    RaiseOnlyOnChurn
