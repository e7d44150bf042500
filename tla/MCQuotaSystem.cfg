SPECIFICATION SystemSpec
CONSTANTS
    Keys = {odds, fixtures}
    StepKeys = {}
    NoStep = NoStep
    Cycles = {A}
    LegacyCycle = LegacyCycle
    NoCycle = NoCycle
    Limits = {10}
    Reserves = {5}
    Counts = {2, 3}
    MaxAmount = 2
    ReserveFloor = 2
    AlignedReserve = 5
    Instances = {i1, i2}
    NoInstance = NoInstance
    OddsJobs = {odds}
    Texts = {"ambiguous", "early"}
    PlanLimit = 10
    MandatoryReserve = 5
    MinCalls = 1
    MayCrash = TRUE
    MaySweep = FALSE
SYMMETRY InstanceSymmetry
CHECK_DEADLOCK FALSE
INVARIANTS
    SystemTypeOK
    ReservedCoversHeld
    NoLeakUnlessHurt
    ChargedAsCounted
PROPERTIES NeverOverCeiling KeepsBudget
