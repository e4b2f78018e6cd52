\* A new or a running machine, up to two edits of spec.securityGroups and two
\* failed calls or restarts, three of these together: what holds when both
\* controllers have come to rest, and that they do.
CONSTANTS
    w = w
    a = a
    b = b
    e = e
    NoConfig = NoConfig
    Machines = {w}
    ControlPlanes = {}
    Inline = {a, b}
    Existing = {e}
    Specs <- ThreeSpecs
    InitialSpecs <- OneSpec
    MaxEdits = 2
    MaxFailures = 2
    MaxEvents = 3
SPECIFICATION FairSpec
INVARIANTS IInv   QuietIsListed RemovedGroupsGo
PROPERTIES DeletesNoWanted ComeToRest
\* With an empty workqueue nothing is left to do.
CHECK_DEADLOCK FALSE
