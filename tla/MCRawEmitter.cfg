SPECIFICATION FairSpec
CONSTANTS
    a = a
    b = b
    Subs = {s1, s2}
    Kinds = {a, b}
    Wants <- MCWants
    Cap = 2
    MaxEvents = 2
CHECK_DEADLOCK FALSE
INVARIANTS TypeOK
PROPERTIES KeepsClients GhostsLeave
