SPECIFICATION ActivationSpec
CONSTANTS
    c1 = c1
    m1 = m1
    NoRun = NoRun
    Crons <- MCCrons
    Manuals <- MCManuals
    Leagues <- MCLeagues
    Epl = "ENG-PL"
    Paused <- MCPaused
    Proven <- MCProven
    Batch <- MCBatch
    Batches = 1
    TTL = 2
    Limit = 1
    MaxBoots = 1
INVARIANTS
    ActivationTypeOK
    OneWorker
    RegistryCoherent
    WritesWereApproved
    RolledBackReapproved
PROPERTIES
    LockKept
    PromotionIsApproved
CHECK_DEADLOCK FALSE
