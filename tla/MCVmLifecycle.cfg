SPECIFICATION Spec
SYMMETRY MCSymmetry
CHECK_DEADLOCK FALSE
CONSTANTS
    b = b
    s = s
    x = x
    v1 = v1
    k1 = k1
    k2 = k2
    Vms = {v1}
    Conns = {k1, k2}
    Bases = {b}
    Extra = {x}
    SnapName <- MCSnapName
    MaxConts = 3
    Scenarios <- MCScenarios
INVARIANTS TypeOK ImageHasFile VmRows 
