\* A service and two volumes in any state a running cluster leaves them in, with
\* a failed call, while the annotation comes and goes.
CONSTANTS
    Services = {s1}
    Volumes = {v1, v2}
    MaxFaults = 1
SPECIFICATION FairSpec
INVARIANTS IInv DoneMeansGone
PROPERTIES DisksAreKept CleanupFinishes
