SPECIFICATION Spec
CONSTANTS
    t1 = t1
    t2 = t2
    t3 = t3
    t4 = t4
    t5 = t5
    Tx = {t1, t2, t3, t4, t5}
    NoTx = NoTx
    Intent <- MCIntent
    Slot <- MCSlot
    Empty <- MCEmpty
    Leaves <- MCLeaves
    Block <- MCBlock
    BlockTxs <- MCBlockTxs
    State <- MCState
    ChainWork <- MCChainWork
    HashRank <- MCHashRank
    GrowthFee <- MCGrowthFee
    Submitter = {p1, p2}
    Committer = {k1, k2}
    NoCommitter = NoCommitter
    Capacity = 2
    MaxBytes = 4
    Workers = 1
    PageBudget = 2
    PayoutHeight = {3}
    EpochBlocks = 3
    V11Height = 2
    V2Height = 2
    V21Height = 3
    Finance = TRUE
    MinFeeBase = 10
    FloorWindow = 2
    FeePerInput = 1
    FeePerOutput = 2
INVARIANTS
    ViewFollowsChain
    PoolMinable
    SlotSetsExact
    ChecksCoverIndex
    LimitsHold
    FloorFollowsPool
    TemplateValid
SYMMETRY Symmetry
