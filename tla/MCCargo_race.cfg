SPECIFICATION FairSpec
CONSTANTS
    Cargoes = {cargo}
    Secrets = {secret}
    TaskIds = {t1, t2}
    NoTask = NoTask
    MaxQueue = 12
    Clients = {k1, k2}
    Worlds <- MCRace
CHECK_DEADLOCK FALSE
PROPERTIES DestroyHappens
