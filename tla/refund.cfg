CONSTANTS
    Bonds = Bonds
    Owner = Owner
    Payers = {p1}
    v1 = v1
    v2 = v2
    s1 = s1
    s2 = s2
    Votes = {v1}
    Settlements = {s1, s2}
    StakeIds = {x1, x2, x3}
    BondOf <- SameBondOf
    EpochOf <- TwoEpochOf
    Tree <- TwoTree
    Deposits <- SameDeposits
    Tips = {}
    Supply = 24
    MaxTotals = {2}
    MaxNodes = {1}
    Amounts = {}
    Minimums = {3}
    ClaimEpochs = {1}
    LockupEpochs = {0}
    StartSlots = {1}
    Pausable = FALSE
    ClosableVotes = {}
    SlotsPerEpoch = 1
    MaxSlot = 3
    Rent = 2
    MinDelegation = 1
    BITS_PER_BYTE = 2
    SETTLEMENT_CLAIMS_ANCHOR_HEADER_SIZE = 1
    MAX_PERMITTED_DATA_INCREASE = 2
    MAX_PERMITTED_DATA_LENGTH = 4
SYMMETRY Symmetric
SPECIFICATION Spec
PROPERTIES
    RefundFromOwnFunds
CHECK_DEADLOCK FALSE
