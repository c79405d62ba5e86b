SPECIFICATION FairSpec
CONSTANTS
    Serial = {cargo}
    Jobs = {job}
    Sources = {src}
    TaskIds = {t1, t2}
    NoTask = NoTask
    MaxQueue = 2
INVARIANTS TypeOK OneBodyPerSerial MapTracksBodies WaitNeverAborts
PROPERTIES DestroyingIsRun
