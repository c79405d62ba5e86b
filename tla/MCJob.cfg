SPECIFICATION FairSpec
CONSTANTS
    Jobs = {job}
    TaskIds = {t1, t2}
    NoTask = NoTask
    MaxQueue = 12
    Clients = {k1, k2}
    MaxConts = 2
    Worlds <- MCWorlds
CHECK_DEADLOCK FALSE
INVARIANTS TypeOK JobNotStuck FinishIsTrue Sequential
PROPERTIES JobDestroyHappens
