SPECIFICATION LedgerSpec
CONSTANTS
    M1 = M1
    M2 = M2
    Cycles = {c1, c2}
    Settlers = {s1}
    Matches = {M1, M2}
    Quotes <- OneLine
    FileRows <- OldFile
    Published <- SomeResults
    MaxResults = 2
SYMMETRY CycleSymmetry
INVARIANTS
    LedgerTypeOK
    FirstSnapshotWins
    HistoryKept
    SettledAsSplitStake
    CopiesAgree
PROPERTY SettlementStands
CHECK_DEADLOCK FALSE
