\* A worker machine in a cluster with an external cloud controller manager,
\* whose providerID it adopts, under fair scheduling, with a data disk, a public
\* IP, a failed call, a restart and a pause.  Zone and ownership ID are chosen
\* once, and which ones it is delays nothing.
CONSTANTS
    d1 = d1
    d2 = d2
    g1 = g1
    None = None
    Zones = {z1}
    DataDisks = {d1}
    InlineSGs = {}
    OwnershipIDs = {i1}
    UIDs = {u1}
    InitialWants <- DiskAndIP
    EditedWants <- Nothing
    ControlPlane = FALSE
    ExternalCCM = TRUE
    ClusterMayGoFirst = FALSE
    MaxFaults = 1
    MaxCrashes = 1
    MaxEdits = 1
SPECIFICATION FairSpec
INVARIANTS NodeLinked
PROPERTIES DeletionCompletes BecomesReady
\* A deleted object and its emptied workqueue are the end.
CHECK_DEADLOCK FALSE
