SPECIFICATION ArchiveSpec
CONSTANTS
    f1 = f1
    s1 = s1
    NoRow = NoRow
    NoEntry = NoEntry
    NoScore = NoScore
    Fixtures <- SmallFixtures
    Syncs <- SmallSyncs
    MaxScore = 1
    MaxDay = 2
INVARIANT FinalScoresOnly
