SPECIFICATION LedgerSpec
CONSTANTS
    Keys = {k1, k2}
    StepKeys = {s1}
    NoStep = NoStep
    Cycles = {A, B}
    LegacyCycle = LegacyCycle
    NoCycle = NoCycle
    Limits = {8, 10}
    Reserves = {1, 5}
    Counts = {0, 3}
    MaxAmount = 2
    ReserveFloor = 2
    AlignedReserve = 5
INVARIANTS TypeOK StatusTellsSettlement NoPhantomReserve
PROPERTIES ChargeMatchesRows TriggerNeverFires
