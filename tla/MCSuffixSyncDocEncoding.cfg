SPECIFICATION Spec
CONSTANTS
    steady = steady
    peer1 = peer1
    peer2 = peer2
    body = body
    body2 = body2
    terminal = terminal
    d1 = d1
    d2 = d2
    d3 = d3
    e1 = e1
    e2 = e2
    Peer = {steady, peer1}
    Stable = {steady}
    Correct = {steady, peer1}
    Required <- OneBody
    Listings <- ListTerminal
    DomainOf <- Domains
    EncodingOf <- TwoEncodings
    Rank <- Ranks
    FailureLimit = 2
    MaxFaults = 1
    MaxRefusals = 1
    MaxWaiting = 1
INVARIANT EncodingReleased
CHECK_DEADLOCK FALSE
