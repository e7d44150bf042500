SPECIFICATION LedgerSpec
CONSTANTS
    M1 = M1
    M2 = M2
    Cycles = {c1}
    Settlers = {s1}
    Matches = {M1, M2}
    Quotes <- OneLine
    FileRows <- OldFile
    Published <- OneResultEach
    MaxResults = 2
PROPERTY KnownRowsSettle
CHECK_DEADLOCK FALSE
