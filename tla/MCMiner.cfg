SPECIFICATION StoppingSpec
CONSTANT MaxTip = 1
INVARIANTS
    WorkersConfined
    StaleWorkIsWatched
    AdmissionsReachEmptyTemplate
    ShutdownHonoured
PROPERTIES
    StopLeadsToExit
    AuthorityLeadsToBlocks
