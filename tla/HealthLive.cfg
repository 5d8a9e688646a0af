\* The sweep and an on-demand check of one node.
SPECIFICATION FairSpec
CONSTANTS
    Nodes = {n1}
    MayBeKeyless = {}
    Checks = {c1}
    Threshold = 2
    FailCap = 3
    MaxRestarts = 1
PROPERTIES
    UpIsSeen
    OutageIsSeen
