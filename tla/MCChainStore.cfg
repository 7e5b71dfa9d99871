SPECIFICATION Spec
CONSTANTS
    TrunkLength = 7
    Block <- MCBlock
    ChainWork <- MCChainWork
    HashRank <- MCHashRank
    FinalityDepth = 2
    HeaderLookback = 3
    SnapshotWindow = 4
    MaxReplacement = 4
    UndoRetention = 4
    ServingDepth = 5
    PruneHeightLimit = 2
    Complete = Complete
    NoAuthority = NoAuthority
INVARIANTS
    TypeOK
    HotMirrorsDurable
    DurableImageRestorable
    HeaderReadsFollowTip
    NonfinalSuffixCovered
    MarkersNeverBlockCommit
    RetirementNeverStalls
PROPERTY ImplementsCanonicalChain
