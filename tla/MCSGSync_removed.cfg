\* spec.securityGroups is removed from a running cluster, and no call fails.
CONSTANTS
    w = w
    a = a
    b = b
    e = e
    NoConfig = NoConfig
    Machines = {w}
    ControlPlanes = {}
    Inline = {a, b}
    Existing = {e}
    Specs <- ThreeSpecs
    InitialSpecs <- OneSpec
    MaxEdits = 1
    MaxFailures = 0
    MaxEvents = 1
SPECIFICATION Spec
INVARIANT ReachesEveryVM
\* With an empty workqueue nothing is left to do.
CHECK_DEADLOCK FALSE
