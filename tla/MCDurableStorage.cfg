SPECIFICATION DurableSpec
CONSTANTS
    r1 = r1
    r2 = r2
    i1 = i1
    NoRecord = NoRecord
    Runs <- MCRuns
    Instances <- MCInstances
    Keys <- MCKeys
    MaxBoots = 1
    Limit = 3
SYMMETRY Symmetric
INVARIANTS
    DurableTypeOK
    DurableMeansStored
    HealthHonest
    PicksAreRecorded
    CopyKept
    AnswersAreHonest
PROPERTIES
    RecordsImmutable
    StoreImplemented
CHECK_DEADLOCK FALSE
