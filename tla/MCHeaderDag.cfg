SPECIFICATION FairSpec
CONSTANTS
    Leaves <- MCLeaves
    Block <- MCBlock
    ChainWork <- MCChainWork
    HashRank <- MCHashRank
    FinalityDepth = 1
    MaxNodes = 3
    MaxProviders = 1
    MaxFinalityAdvance = 1
    Peer = {p1, p2}
    NoPeer = NoPeer
INVARIANTS
    DagConnected
    BestIsBest
    DagBounded
    CheckpointsAgree
    SelectionCoversCommitted
PROPERTY FaultClears
