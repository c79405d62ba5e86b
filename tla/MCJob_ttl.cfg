SPECIFICATION FairSpec
CONSTANTS
    Jobs = {job}
    TaskIds = {t1, t2}
    NoTask = NoTask
    MaxQueue = 12
    Clients = {k1, k2}
    MaxConts = 1
    Worlds <- MCTtl
CHECK_DEADLOCK FALSE
PROPERTIES TtlRemoves
