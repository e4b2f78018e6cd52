\* A cluster with one zone or two and two machines, edited by users at any time.
CONSTANTS
    k = k
    m1 = m1
    m2 = m2
    za = za
    zb = zb
    v1 = v1
    v2 = v2
    n1 = n1
    n2 = n2
    None = None
    Values = {v1, v2}
    Default = v1
    Address = v2
    Zones = {za, zb}
    DefaultZones <- TwoZones
    OnceFields <- Once
    Names = {n1, n2}
    Length <- Lengths
    Clusters = {k}
    Machines = {m1, m2}
    ClusterSpecs <- Created
    MachineSpecs <- CreatedMachine
    ZoneLists <- ListsOfZones
    NameLists <- ListsOfNames
    Workers = 2
    MaxEdits = 1
SPECIFICATION Spec
SYMMETRY Same
INVARIANTS IInv ZoneOffered VMAsSpecified NeverBare
PROPERTIES LeastUsed
\* When all machines are deleted and no edits are left nothing can happen.
CHECK_DEADLOCK FALSE
