\* A data disk is added after the VM exists.
CONSTANTS
    d1 = d1
    d2 = d2
    g1 = g1
    None = None
    Zones = {z1, z2}
    DataDisks = {d1}
    InlineSGs = {}
    OwnershipIDs = {i1, i2}
    UIDs = {u1}
    InitialWants <- Nothing
    EditedWants <- JustDisk
    ControlPlane = TRUE
    ExternalCCM = FALSE
    ClusterMayGoFirst = FALSE
    MaxFaults = 0
    MaxCrashes = 0
    MaxEdits = 1
SPECIFICATION FairSpec
PROPERTIES AddedDiskIsMade
\* A deleted object and its emptied workqueue are the end.
CHECK_DEADLOCK FALSE
