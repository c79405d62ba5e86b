SPECIFICATION Spec
CHECK_DEADLOCK FALSE
CONSTANTS
    c1 = c1
    c2 = c2
    Clients = {c1, c2}
    Objects <- MCObjects
    Kind <- MCKind
    Space <- MCSpace
    Specs = {"one", "two"}
    Groups = {"g", "h", "v", "t", "b"}
    Files = {"main", "next", "sub", "vms", "top", "bad"}
    File <- MCFile
    Bad = {"bad"}
    GlobalVm <- MCGlobalVm
    Scenarios <- MCScenarios
SYMMETRY Sym
INVARIANTS DoesWhatItSays WaitsEnd
