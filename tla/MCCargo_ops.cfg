SPECIFICATION Spec
CONSTANTS
    Cargoes = {cargo}
    Secrets = {secret}
    TaskIds = {t1, t2}
    NoTask = NoTask
    MaxQueue = 12
    Clients = {k1, k2}
    Worlds <- MCWorlds
CHECK_DEADLOCK FALSE
SYMMETRY HandleSymmetry
INVARIANTS TypeOK  NotStuck  NoOrphan 
PROPERTIES UpdateKeepsUp InitFirst
