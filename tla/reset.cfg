CONSTANTS
    Bonds = Bonds
    Owner = Owner
    Payers = {p1}
    v1 = v1
    v2 = v2
    s1 = s1
    s2 = s2
    x1 = x1
    x2 = x2
    x3 = x3
    Votes = {v1}
    Settlements = {s1}
    StakeIds = {x1, x2, x3}
    BondOf <- OneBondOf
    EpochOf <- OneEpochOf
    Tree <- OneTree
    Deposits <- ResetDeposits
    Tips = {}
    Supply = 27
    MaxTotals = {5}
    MaxNodes = {2}
    Amounts = {9}
    Minimums = {3, 4}
    ClaimEpochs = {0, 1}
    LockupEpochs = {0, 1, 2}
    StartSlots = {1}
    Pausable = TRUE
    ClosableVotes = {v1}
    SlotsPerEpoch = 1
    MaxSlot = 2
    Rent = 2
    MinDelegation = 1
    BITS_PER_BYTE = 2
    SETTLEMENT_CLAIMS_ANCHOR_HEADER_SIZE = 1
    MAX_PERMITTED_DATA_INCREASE = 2
    MAX_PERMITTED_DATA_LENGTH = 4
SPECIFICATION FairSpec
CONSTRAINT InScope
ACTION_CONSTRAINT Placed
INVARIANTS
    OverfundBounded
    ClaimOrClose
PROPERTIES
    StakesComeBack
    PauseFreezes
    LockupElapses
CHECK_DEADLOCK FALSE
