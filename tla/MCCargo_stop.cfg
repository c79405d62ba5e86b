SPECIFICATION Spec
CONSTANTS
    Cargoes = {cargo}
    Secrets = {secret}
    TaskIds = {t1, t2}
    NoTask = NoTask
    MaxQueue = 12
    Clients = {k1}
    Worlds <- MCStop
CHECK_DEADLOCK FALSE
INVARIANTS StopIsHeeded
