SPECIFICATION FairSpec
CONSTANTS
    Block <- MCBlock
    ChainWork <- MCWork
    HashRank <- MCRank
    Peer = {p, q}
    DomainOf <- OwnDomain
    Required = 1
    TTL = 2
    MaxReports = 3
INVARIANTS
    LeasesFollowTip
    NonceNeedsQuorum
PROPERTIES
    AuthorityLapses
    TipIsLearned
    WorkEventuallyCloses
