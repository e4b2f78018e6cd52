\* A cluster, its endpoint managed or not, that is paused, moved to another
\* management cluster and deleted, with a failed call.
CONSTANTS
    None = None
    UIDs = {k1, k2}
    OwnershipIDs = {i1}
    ExtraPorts = {}
    InlineSGs = {g1}
    Managements = {TRUE, FALSE}
    OwnIP = TRUE
    SlowKinds = {"lb", "ip"}
    MaxFaults = 1
    MaxCrashes = 0
    MaxPauses = 1
SPECIFICATION FairSpec
INVARIANTS FoundByNameAndLabel EndpointIsServed
PROPERTIES NamesAreStable BecomesReady DeletionCompletes
\* A deleted object and its emptied workqueue are the end.
CHECK_DEADLOCK FALSE
