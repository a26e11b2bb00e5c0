CONSTANTS
    Bonds = Bonds
    Owner = Owner
    Payers = {p1}
    v1 = v1
    v2 = v2
    Votes = {v1, v2}
    Settlements = {}
    StakeIds = {x1, x2, x3}
    BondOf <- NoBondOf
    EpochOf <- NoBondOf
    Tree <- NoBondOf
    Deposits <- TheDeposits
    Tips = {}
    Supply = 19
    MaxTotals = {}
    MaxNodes = {}
    Amounts = {6}
    Minimums = {3}
    ClaimEpochs = {1}
    LockupEpochs = {0}
    StartSlots = {1}
    Pausable = FALSE
    ClosableVotes = {}
    SlotsPerEpoch = 1
    MaxSlot = 2
    User = v1
    TransactionSize = 2
    Rent = 2
    MinDelegation = 1
    BITS_PER_BYTE = 2
    SETTLEMENT_CLAIMS_ANCHOR_HEADER_SIZE = 1
    MAX_PERMITTED_DATA_INCREASE = 2
    MAX_PERMITTED_DATA_LENGTH = 4
SPECIFICATION FairClientSpec
INVARIANTS
    RequestNotOverdrawn
    BondStakesOfMinimalSize
    PromiseKept
PROPERTIES
    WithdrawCompletes
    BondPaysForItselfOnly
CHECK_DEADLOCK FALSE
