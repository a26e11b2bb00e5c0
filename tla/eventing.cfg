SPECIFICATION FairSpec
CONSTANTS
    Null = Null
    a = a
    b = b
    GRAINS = 10
    DUST_SOL_THRESHOLD = 5
    MIN_SETTLEMENT_LAMPORTS = 10
    ALLOWED_STAKE_PER_BOND_RATIO = 2000
    Votes = {a, b}
    Readings <- BothReadings
    FirstReading <- StartReading
    retryMaxAttempts = 1
    emitConcurrency = 2
    MaxChanges = 2
    MaxFaults = 1
INVARIANTS
    InSync
PROPERTIES
    SavedOnRecord
    SettlesDown
    DelistedByOthers
CHECK_DEADLOCK FALSE
