SPECIFICATION FairSpec
CONSTANTS
    steady = steady
    peer1 = peer1
    peer2 = peer2
    body = body
    body2 = body2
    terminal = terminal
    d1 = d1
    d2 = d2
    d3 = d3
    e1 = e1
    e2 = e2
    Peer = {steady, peer1, peer2}
    Stable = {steady}
    Correct = {steady}
    Required <- TerminalOnly
    Listings <- ListTerminal
    DomainOf <- Domains
    EncodingOf <- OneEncoding
    Rank <- Ranks
    FailureLimit = 2
    MaxFaults = 1
    MaxRefusals = 1
    MaxWaiting = 1
INVARIANTS ExcludedIsOut ActiveIsSource
PROPERTIES HonestSourceKept FetchCompletes
CHECK_DEADLOCK FALSE
