SPECIFICATION SystemSpec
CONSTANTS
    Keys = {j1, j2, j3}
    StepKeys = {}
    NoStep = NoStep
    Cycles = {A, B}
    LegacyCycle = LegacyCycle
    NoCycle = NoCycle
    Limits = {10}
    Reserves = {5}
    Counts = {0}
    MaxAmount = 1
    ReserveFloor = 2
    AlignedReserve = 5
    Instances = {i1}
    NoInstance = NoInstance
    OddsJobs = {j1, j2, j3}
    Texts = {}
    PlanLimit = 10
    MandatoryReserve = 5
    MinCalls = 1
    MayCrash = FALSE
    MaySweep = FALSE
SYMMETRY JobSymmetry
CHECK_DEADLOCK FALSE
INVARIANT ConfirmedUsageKept
