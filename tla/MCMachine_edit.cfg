\* A control plane machine whose only data disk is exchanged for another one,
\* or which is paused, at any moment; whose VM may be removed behind the
\* controller and is then built again; and whose EvrocCluster may go first.
CONSTANTS
    d1 = d1
    d2 = d2
    g1 = g1
    None = None
    Zones = {z1, z2}
    DataDisks = {d1, d2}
    InlineSGs = {}
    OwnershipIDs = {i1}
    UIDs = {u1, u2}
    InitialWants <- JustDisk
    EditedWants <- SwapDisks
    ControlPlane = TRUE
    ExternalCCM = FALSE
    ClusterMayGoFirst = TRUE
    MaxFaults = 1
    MaxCrashes = 0
    MaxEdits = 1
SPECIFICATION Spec
INVARIANTS OneZone ProvisionedHasProviderID NodeLinked NothingDangling
PROPERTIES VMGoesFirst WrittenOnce
\* A deleted object and its emptied workqueue are the end.
CHECK_DEADLOCK FALSE
