SPECIFICATION AppendSpec
CONSTANTS
    Leaves <- MCLongLeaves
    Block <- MCBlock
    ChainWork <- MCChainWork
    HashRank <- MCHashRank
    FinalityDepth = 2
    MaxNodes = 6
    MaxProviders = 0
    MaxFinalityAdvance = 1
    Peer = {p1}
    NoPeer = NoPeer
INVARIANT ReconcileAdvances
