\* Two nodes, of which one may have no credentials; two edits at a time, two edits or
\* crashes in all.
SPECIFICATION Spec
CONSTANTS
    Nodes = {a, b}
    MayBeKeyless = {b}
    Editors = {e1, e2}
    OnDemand = {s1}
    MaxEvents = 2
INVARIANTS
    TypeOK
    ViewIsolates
PROPERTIES
    SweepIsolates
    NodesAreSynced
    WaitsEnd
