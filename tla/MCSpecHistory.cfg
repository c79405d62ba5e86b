SPECIFICATION Spec
CONSTANTS
    Cargoes = {"a", "b"}
    Vms = {"m"}
    Conns = {k1, k2}
    Scenarios <- MCScenarios
CHECK_DEADLOCK FALSE
SYMMETRY ConnSymmetry
INVARIANTS  SpecIsOwn AckInHistory 
