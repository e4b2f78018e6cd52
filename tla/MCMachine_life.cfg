\* The whole life of a control plane machine with one data disk, one inline
\* security group and a public IP, with one failed call and one restart.
CONSTANTS
    d1 = d1
    d2 = d2
    g1 = g1
    None = None
    Zones = {z1, z2}
    DataDisks = {d1}
    InlineSGs = {g1}
    OwnershipIDs = {i1, i2}
    UIDs = {u1}
    InitialWants <- Everything
    EditedWants <- Nothing
    ControlPlane = TRUE
    ExternalCCM = FALSE
    ClusterMayGoFirst = FALSE
    MaxFaults = 1
    MaxCrashes = 1
    MaxEdits = 0
SPECIFICATION Spec
INVARIANTS TypeOK NoLeak FoundByLabel IInv
PROPERTIES ImplementsClaim WrittenOnce
\* A deleted object and its emptied workqueue are the end.
CHECK_DEADLOCK FALSE
