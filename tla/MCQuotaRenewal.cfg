SPECIFICATION SystemSpec
CONSTANTS
    Keys = {odds, fixtures}
    StepKeys = {}
    NoStep = NoStep
    Cycles = {A, B}
    LegacyCycle = LegacyCycle
    NoCycle = NoCycle
    Limits = {10}
    Reserves = {5}
    Counts = {0}
    MaxAmount = 2
    ReserveFloor = 2
    AlignedReserve = 5
    Instances = {i1, i2}
    NoInstance = NoInstance
    OddsJobs = {odds}
    Texts = {"ambiguous"}
    PlanLimit = 10
    MandatoryReserve = 5
    MinCalls = 1
    MayCrash = FALSE
    MaySweep = TRUE
SYMMETRY FullSymmetry
CHECK_DEADLOCK FALSE
INVARIANT SettlementsAccepted
