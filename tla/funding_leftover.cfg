CONSTANTS
    Bonds = Bonds
    Owner = Owner
    Payers = {p1}
    v1 = v1
    s1 = s1
    s2 = s2
    m1 = m1
    k1 = k1
    k2 = k2
    k3 = k3
    Votes = {v1}
    Settlements = {s1, m1, s2}
    Order <- TheOrder
    PaidBy <- ThePayers
    PlannedKeys <- TheKeys
    StakeIds = {x1, x2, x3, x4}
    BondOf <- AllBondOf
    EpochOf <- AllEpochOf
    Tree <- MarinadesTree
    Deposits <- OneDeposit
    Tips = {}
    Supply = 45
    MaxTotals = {5}
    MaxNodes = {2}
    Amounts = {}
    Minimums = {3}
    ClaimEpochs = {1}
    LockupEpochs = {0}
    StartSlots = {0}
    Pausable = FALSE
    ClosableVotes = {}
    SlotsPerEpoch = 1
    MaxSlot = 1
    Rent = 2
    MinDelegation = 1
    BITS_PER_BYTE = 2
    SETTLEMENT_CLAIMS_ANCHOR_HEADER_SIZE = 1
    MAX_PERMITTED_DATA_INCREASE = 2
    MAX_PERMITTED_DATA_LENGTH = 4
SPECIFICATION PipelineSpec
INVARIANTS
    LeftoverIsASource
