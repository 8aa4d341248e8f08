SPECIFICATION FairSpec
CONSTANTS
    Thread = {t1, t2, t3}
    Null = Null
    MaxStep = 2
INVARIANTS
    TypeOK
    ContextsKept
    RunsCurrent
    RequestConsistent
PROPERTIES
    RequestsServed
