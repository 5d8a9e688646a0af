\* The sweep alone, over two nodes, one of which may have no credentials, with a restart
\* and registry edits.
SPECIFICATION FairSpec
CONSTANTS
    Nodes = {n1, n2}
    MayBeKeyless = {n2}
    Checks = {}
    Threshold = 2
    FailCap = 2
    MaxRestarts = 1
INVARIANTS
    TypeOK
    StatusMatchesFailures
PROPERTIES
    UpIsSeen
