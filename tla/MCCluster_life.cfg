\* The whole life of a cluster with one additional port and one inline group,
\* with a failed call and a restart.
CONSTANTS
    None = None
    UIDs = {k1}
    OwnershipIDs = {i1}
    ExtraPorts = {p80}
    InlineSGs = {g1}
    Managements = {TRUE}
    OwnIP = TRUE
    SlowKinds = {"lb", "ip"}
    MaxFaults = 1
    MaxCrashes = 1
    MaxPauses = 0
SPECIFICATION Spec
INVARIANTS IInv NothingLeft WholeStack
PROPERTIES ImplementsStack
\* A deleted object and its emptied workqueue are the end.
CHECK_DEADLOCK FALSE
