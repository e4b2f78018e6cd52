\* The EvrocCluster is deleted before its machine.
CONSTANTS
    d1 = d1
    d2 = d2
    g1 = g1
    None = None
    Zones = {z1, z2}
    DataDisks = {}
    InlineSGs = {}
    OwnershipIDs = {i1, i2}
    UIDs = {u1}
    InitialWants <- Nothing
    EditedWants <- Nothing
    ControlPlane = TRUE
    ExternalCCM = FALSE
    ClusterMayGoFirst = TRUE
    MaxFaults = 0
    MaxCrashes = 0
    MaxEdits = 0
SPECIFICATION FairSpec
PROPERTIES DeletionOutlivesCluster
\* A deleted object and its emptied workqueue are the end.
CHECK_DEADLOCK FALSE
