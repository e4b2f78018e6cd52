---------------------------- MODULE FleetProofs ----------------------------
(***************************************************************************)
(* Proofs about Fleet, for any number of machines, zones, fields, edits    *)
(* and workers: the inductive invariant, and the safety properties that    *)
(* follow from it.                                                         *)
(***************************************************************************)
EXTENDS Fleet, FiniteSetTheorems, TLAPS

-----------------------------------------------------------------------------
(* Specs *)

\* The order in which specs of a cluster may follow each other.
LEMMA KeepsItself ==
    ASSUME NEW c
    PROVE  KeepsImmutable(c, c)
BY DEF KeepsImmutable

LEMMA KeepsOn ==
    ASSUME NEW c, NEW d, NEW e, KeepsImmutable(c, d), KeepsImmutable(d, e)
    PROVE  KeepsImmutable(c, e)
BY DEF KeepsImmutable

LEMMA DefaultClusterType ==
    ASSUME NEW c \in ClusterSpec
    PROVE  DefaultCluster(c) \in ClusterSpec
BY AdmissionAssumption DEF DefaultCluster, ClusterSpec

LEMMA DefaultMachineType ==
    ASSUME NEW s \in MachineSpec
    PROVE  DefaultMachine(s) \in MachineSpec /\ ~Bare(DefaultMachine(s))
BY AdmissionAssumption DEF DefaultMachine, MachineSpec, Bare, BuildFields

LEMMA EditedClusterType ==
    ASSUME cluster \in ClusterSpec, NEW c \in EditedCluster
    PROVE  c \in ClusterSpec
<1>1. ASSUME c \in {[cluster EXCEPT !.place = p] : p \in [{"project", "region"} -> Values \cup {None}]}
     PROVE  c \in ClusterSpec
  BY <1>1, FleetAssumption DEF ClusterSpec
<1>2. ASSUME c \in {[cluster EXCEPT !.once = f] : f \in [OnceFields -> Values \cup {None}]}
     PROVE  c \in ClusterSpec
  BY <1>2, FleetAssumption DEF ClusterSpec
<1>3. ASSUME c \in {[cluster EXCEPT !.subnets = f] : f \in [Zones -> Values \cup {None}]}
     PROVE  c \in ClusterSpec
  BY <1>3, FleetAssumption DEF ClusterSpec
<1>4. ASSUME c \in {[cluster EXCEPT !.zones = l] : l \in ZoneLists}
     PROVE  c \in ClusterSpec
  BY <1>4, FleetAssumption DEF ClusterSpec
<1>5. ASSUME c \in {[cluster EXCEPT !.inline = l] : l \in NameLists}
     PROVE  c \in ClusterSpec
  BY <1>5, FleetAssumption DEF ClusterSpec
<1>6. ASSUME c \in {[cluster EXCEPT !.managed = ~@], [cluster EXCEPT !.formed = ~@]}
     PROVE  c \in ClusterSpec
  BY <1>6, FleetAssumption DEF ClusterSpec
<1> QED BY <1>1, <1>2, <1>3, <1>4, <1>5, <1>6 DEF EditedCluster

LEMMA EditedMachineType ==
    ASSUME NEW s \in MachineSpec, NEW e \in EditedMachine(s)
    PROVE  e \in MachineSpec
<1>1. ASSUME e \in {[s EXCEPT !.place = p] : p \in [{"project", "region"} -> Values \cup {None}]}
     PROVE  e \in MachineSpec
  BY <1>1, FleetAssumption DEF MachineSpec
<1>2. ASSUME e \in {[s EXCEPT !.build = f] : f \in [BuildFields -> Values \cup {None}]}
     PROVE  e \in MachineSpec
  BY <1>2, FleetAssumption DEF MachineSpec
<1>3. ASSUME e \in {[s EXCEPT !.disks = l] : l \in NameLists}
     PROVE  e \in MachineSpec
  BY <1>3, FleetAssumption DEF MachineSpec
<1>4. ASSUME e \in {[s EXCEPT !.inline = l] : l \in NameLists}
     PROVE  e \in MachineSpec
  BY <1>4, FleetAssumption DEF MachineSpec
<1>5. ASSUME e \in {[s EXCEPT !.inherit = ~@], [s EXCEPT !.formed = ~@]}
     PROVE  e \in MachineSpec
  BY <1>5, FleetAssumption DEF MachineSpec
<1> QED BY <1>1, <1>2, <1>3, <1>4, <1>5 DEF EditedMachine

LEMMA EndpointType ==
    ASSUME cluster \in ClusterSpec
    PROVE  [cluster EXCEPT !.once["controlPlaneEndpoint"] = Address] \in ClusterSpec
BY FleetAssumption DEF ClusterSpec

-----------------------------------------------------------------------------
(* Steps that change the cluster *)

\* What is kept of machines, passes and VMs survives every accepted change.
LEMMA KeptOn ==
    ASSUME Kept, KeepsImmutable(cluster, cluster'), UNCHANGED <<machine, mcache, pass, vm>>,
           NEW m \in Machines
    PROVE  MachineKept(m)' /\ PassKept(m)' /\ VMKept(m)'
<1>1. MachineKept(m) /\ PassKept(m) /\ VMKept(m) /\ TypeOK
  BY DEF Kept
<1>2. Range(cluster.zones) \subseteq Range(cluster'.zones)
  BY DEF KeepsImmutable
<1>3. MachineKept(m)'
  BY <1>1, <1>2 DEF MachineKept, Copy
<1>4. PassKept(m)'
  BY <1>1, <1>2, KeepsOn DEF PassKept, Copy, Older
<1>5. VMKept(m)'
  BY <1>1 DEF VMKept, KeepsImmutable, TypeOK, VMObject, There, Absent
<1> QED BY <1>3, <1>4, <1>5

LEMMA EditClusterStep ==
    ASSUME Kept, EditCluster
    PROVE  Kept'
<1>1. PICK c \in EditedCluster : /\ ValidateClusterUpdate(name, cluster, DefaultCluster(c))
                                 /\ cluster' = DefaultCluster(c)
  BY DEF EditCluster
<1>2. KeepsImmutable(cluster, cluster')
  BY <1>1 DEF ValidateClusterUpdate
<1>3. cluster' \in ClusterSpec
  BY <1>1, EditedClusterType, DefaultClusterType DEF Kept, TypeOK
<1>4. TypeOK'
  BY <1>3 DEF Kept, TypeOK, EditCluster
<1>5. ClusterKept'
  BY <1>2, KeepsOn DEF Kept, ClusterKept, Older, EditCluster, KeepsImmutable
<1> QED BY <1>2, <1>4, <1>5, KeptOn DEF Kept, EditCluster

LEMMA ReconcileFailureDomainsStep ==
    ASSUME Kept, reconcileFailureDomains
    PROVE  Kept'
<1>1. KeepsImmutable(cluster, cluster') /\ cluster' \in ClusterSpec
  BY KeepsItself, EndpointType DEF Kept, TypeOK, reconcileFailureDomains, ValidateClusterUpdate
<1>2. Older(cpass) /\ cpass \in ClusterSpec
  BY DEF Kept, TypeOK, ClusterKept, reconcileFailureDomains
<1>3. published' \subseteq Range(cluster'.zones)
  BY <1>1, <1>2, KeepsOn DEF Older, KeepsImmutable, reconcileFailureDomains
<1>4. TypeOK'
  <2>1. published' \subseteq Zones
    BY <1>2 DEF reconcileFailureDomains, ClusterSpec, Range
  <2> QED BY <1>1, <2>1 DEF Kept, TypeOK, reconcileFailureDomains
<1>5. ClusterKept'
  BY <1>1, <1>3, KeepsOn DEF Kept, ClusterKept, Older, reconcileFailureDomains
<1> QED BY <1>1, <1>4, <1>5, KeptOn DEF Kept, reconcileFailureDomains

LEMMA ClusterCopyStep ==
    ASSUME Kept, ClusterSync \/ ReconcileCluster
    PROVE  Kept'
<1>1. TypeOK' /\ ClusterKept'
  BY KeepsItself DEF Kept, TypeOK, ClusterKept, Older, ClusterSync, ReconcileCluster
<1> QED BY <1>1, KeepsItself, KeptOn DEF Kept, ClusterSync, ReconcileCluster

-----------------------------------------------------------------------------
(* Steps of one machine *)

\* A step of one machine leaves what is kept of the cluster and of the others.
LEMMA OneKept ==
    ASSUME Kept, TypeOK', UNCHANGED <<cluster, ccache, cpass, published>>, NEW m \in Machines,
           \A n \in Machines \ {m} : /\ machine'[n] = machine[n] /\ mcache'[n] = mcache[n]
                                    /\ pass'[n] = pass[n] /\ vm'[n] = vm[n],
           MachineKept(m)', PassKept(m)', VMKept(m)'
    PROVE  Kept'
<1>1. ClusterKept'
  BY DEF Kept, ClusterKept, Older
<1>2. ASSUME NEW n \in Machines \ {m}
      PROVE  MachineKept(n)' /\ PassKept(n)' /\ VMKept(n)'
  BY DEF Kept, MachineKept, PassKept, VMKept, Copy, Older
<1> QED BY <1>1, <1>2 DEF Kept

LEMMA CreateMachineStep ==
    ASSUME Kept, NEW m \in Machines, CreateMachine(m)
    PROVE  Kept'
<1>1. PICK s \in MachineSpecs, z \in published \cup {None} :
         machine' = [machine EXCEPT ![m] = [is |-> "there", spec |-> DefaultMachine(s), owner |-> z, zone |-> None]]
  BY DEF CreateMachine
<1>2. DefaultMachine(s) \in MachineSpec /\ ~Bare(DefaultMachine(s))
  BY DefaultMachineType, FleetAssumption
<1>3. TypeOK'
  BY <1>1, <1>2 DEF Kept, TypeOK, CreateMachine, MachineObject
<1>4. machine'[m] = [is |-> "there", spec |-> DefaultMachine(s), owner |-> z, zone |-> None]
  BY <1>1 DEF Kept, TypeOK
<1>5. MachineKept(m)'
  BY <1>2, <1>4 DEF Kept, MachineKept, ClusterKept, Copy, There, CreateMachine
<1>6. PassKept(m)' /\ VMKept(m)'
  BY DEF Kept, PassKept, VMKept, CreateMachine, There, Absent
<1> QED BY <1>1, <1>3, <1>5, <1>6, OneKept DEF CreateMachine, Kept, TypeOK

LEMMA EditMachineStep ==
    ASSUME Kept, NEW m \in Machines, EditMachine(m)
    PROVE  Kept'
<1>1. PICK s \in EditedMachine(machine[m].spec) :
         /\ ValidateMachineUpdate(m, machine[m].spec, DefaultMachine(s))
         /\ machine' = [machine EXCEPT ![m].spec = DefaultMachine(s)]
  BY DEF EditMachine
<1>2. machine[m] \in MachineObject
  BY DEF Kept, TypeOK, EditMachine, There, Absent, Gone
<1>3. DefaultMachine(s) \in MachineSpec /\ ~Bare(DefaultMachine(s))
  BY <1>2, DefaultMachineType, EditedMachineType DEF MachineObject
<1>4. /\ machine'[m] \in MachineObject /\ machine'[m].spec = DefaultMachine(s)
      /\ machine'[m].owner = machine[m].owner /\ machine'[m].zone = machine[m].zone
  BY <1>1, <1>2, <1>3 DEF Kept, TypeOK, MachineObject
<1>5. machine'[m].spec.build = machine[m].spec.build
  BY <1>1, <1>4 DEF ValidateMachineUpdate
<1>6. TypeOK'
  BY <1>1, <1>4 DEF Kept, TypeOK, EditMachine
<1>7. MachineKept(m)'
  BY <1>2, <1>3, <1>4, <1>5 DEF Kept, MachineKept, Copy, There, Absent, EditMachine
<1>8. PassKept(m)' /\ VMKept(m)'
  BY <1>4, <1>5 DEF Kept, PassKept, VMKept, Copy, Older, There, MachineObject, EditMachine
<1> QED BY <1>1, <1>6, <1>7, <1>8, OneKept DEF EditMachine, Kept, TypeOK

LEMMA DeleteMachineStep ==
    ASSUME Kept, NEW m \in Machines, DeleteMachine(m)
    PROVE  Kept'
<1>1. machine'[m] = Gone /\ vm'[m] = Absent
  BY DEF Kept, TypeOK, DeleteMachine
<1>2. TypeOK'
  BY DEF Kept, TypeOK, DeleteMachine
<1>3. MachineKept(m)' /\ PassKept(m)' /\ VMKept(m)'
  BY <1>1 DEF Kept, MachineKept, PassKept, VMKept, Copy, There, Absent, Gone, DeleteMachine
<1> QED BY <1>2, <1>3, OneKept DEF DeleteMachine, Kept, TypeOK

LEMMA MachineSyncStep ==
    ASSUME Kept, NEW m \in Machines, MachineSync(m)
    PROVE  Kept'
<1>1. mcache'[m] = machine[m]
  BY DEF Kept, TypeOK, MachineSync
<1>2. TypeOK'
  BY DEF Kept, TypeOK, MachineSync
<1>3. MachineKept(m)' /\ PassKept(m)' /\ VMKept(m)'
  BY <1>1 DEF Kept, MachineKept, PassKept, VMKept, Copy, Older, There, Absent, MachineSync
<1> QED BY <1>2, <1>3, OneKept DEF MachineSync, Kept, TypeOK

-----------------------------------------------------------------------------
(* Steps of a pass *)

LEMMA LeastUsedIsListed ==
    ASSUME NEW z, NEW zones, NEW zoneOf, leastUsedZone(z, zones, zoneOf)
    PROVE  z \in Range(zones)
BY DEF leastUsedZone, Range

LEMMA ReconcileMachineStep ==
    ASSUME Kept, NEW m \in Machines, ReconcileMachine(m)
    PROVE  Kept'
<1>1. pass'[m] = [pc |-> IF mcache[m].zone = None THEN "pick" ELSE "build",
                  obj |-> mcache[m], cluster |-> ccache]
  BY DEF Kept, TypeOK, ReconcileMachine
<1>2. mcache[m] \in MachineObject /\ ccache \in ClusterSpec
  BY DEF Kept, TypeOK, ReconcileMachine, There, Absent, Gone
<1>3. pass'[m] \in Pass
  BY <1>1, <1>2 DEF Pass
<1>4. TypeOK'
  BY <1>3 DEF Kept, TypeOK, ReconcileMachine
<1>5. MachineKept(m)' /\ VMKept(m)'
  BY DEF Kept, MachineKept, VMKept, Copy, There, ReconcileMachine
<1>6. PassKept(m)'
  BY <1>1, <1>2 DEF Kept, ClusterKept, MachineKept, PassKept, Copy, Older, There, ReconcileMachine, MachineObject
<1> QED BY <1>4, <1>5, <1>6, OneKept DEF ReconcileMachine, Kept, TypeOK

LEMMA PickZoneStep ==
    ASSUME Kept, NEW m \in Machines, pickZoneForMachine(m)
    PROVE  Kept'
<1> DEFINE p == pass[m]
           seen == [n \in Machines |-> IF n = m THEN None ELSE ZoneOf(mcache[n])]
<1>1. PICK z \in Zones :
         /\ IF p.obj.owner # None THEN z = p.obj.owner ELSE leastUsedZone(z, p.cluster.zones, seen)
         /\ pass' = [pass EXCEPT ![m] = [pc |-> "store", obj |-> p.obj, cluster |-> p.cluster,
                                         zone |-> z, seen |-> seen]]
  BY DEF pickZoneForMachine
<1>2. p \in Pass /\ p # Idle /\ p.pc = "pick"
  BY DEF Kept, TypeOK, Idle, pickZoneForMachine
<1>3. p.obj \in MachineObject /\ p.cluster \in ClusterSpec
  BY <1>2 DEF Pass
<1>4. pass'[m] = [pc |-> "store", obj |-> p.obj, cluster |-> p.cluster, zone |-> z, seen |-> seen]
  BY <1>1 DEF Kept, TypeOK
<1>5. seen \in [Machines -> Zones \cup {None}]
  BY DEF Kept, TypeOK, ZoneOf, There, MachineObject, Absent, Gone
<1>6. TypeOK'
  <2>1. pass'[m] \in Pass
    BY <1>3, <1>4, <1>5 DEF Pass
  <2> QED BY <1>1, <2>1 DEF Kept, TypeOK, pickZoneForMachine
<1>7. z \in Range(cluster.zones)
  <2>1. Copy(p.obj, m) /\ Range(p.cluster.zones) \subseteq Range(cluster.zones)
    BY <1>2 DEF Kept, PassKept, Older, KeepsImmutable
  <2>2. CASE p.obj.owner # None
    BY <1>1, <2>1, <2>2 DEF Copy
  <2>3. CASE p.obj.owner = None
    BY <1>1, <2>1, <2>3, LeastUsedIsListed
  <2> QED BY <2>2, <2>3
<1>8. MachineKept(m)' /\ VMKept(m)'
  BY DEF Kept, MachineKept, VMKept, Copy, There, pickZoneForMachine
<1>9. PassKept(m)'
  BY <1>2, <1>4, <1>7 DEF Kept, PassKept, Copy, Older, There, pickZoneForMachine
<1> QED BY <1>1, <1>6, <1>8, <1>9, OneKept DEF pickZoneForMachine, Kept, TypeOK

LEMMA UpdateZoneStep ==
    ASSUME Kept, NEW m \in Machines, pickAndUpdateZoneForMachine(m)
    PROVE  Kept'
<1> DEFINE p == pass[m]
<1>1. p \in Pass /\ p # Idle /\ p.pc = "store"
  BY DEF Kept, TypeOK, Idle, pickAndUpdateZoneForMachine
<1>2. p.obj \in MachineObject /\ p.cluster \in ClusterSpec /\ p.zone \in Zones
  BY <1>1 DEF Pass
<1>3. Copy(p.obj, m) /\ Older(p.cluster) /\ p.obj.zone = None /\ p.zone \in Range(cluster.zones)
  BY <1>1 DEF Kept, PassKept
<1>4. CASE p.obj # machine[m]
  <2>1. pass'[m] = Idle /\ pass' = [pass EXCEPT ![m] = Idle] /\ UNCHANGED machine
    BY <1>4 DEF Kept, TypeOK, pickAndUpdateZoneForMachine
  <2>2. TypeOK'
    BY <2>1 DEF Kept, TypeOK, pickAndUpdateZoneForMachine
  <2>3. MachineKept(m)' /\ PassKept(m)' /\ VMKept(m)'
    BY <2>1 DEF Kept, MachineKept, PassKept, VMKept, Copy, There, pickAndUpdateZoneForMachine
  <2> QED BY <2>1, <2>2, <2>3, OneKept DEF pickAndUpdateZoneForMachine, Kept, TypeOK
<1>5. CASE p.obj = machine[m]
  <2>1. /\ machine' = [machine EXCEPT ![m].zone = p.zone]
        /\ pass' = [pass EXCEPT ![m] = [pc |-> "build", obj |-> [p.obj EXCEPT !.zone = p.zone],
                                        cluster |-> p.cluster]]
    BY <1>5 DEF pickAndUpdateZoneForMachine
  <2>2. /\ machine'[m] = [machine[m] EXCEPT !.zone = p.zone]
        /\ pass'[m] = [pc |-> "build", obj |-> machine'[m], cluster |-> p.cluster]
    BY <1>5, <2>1 DEF Kept, TypeOK
  <2>3. machine'[m] \in MachineObject
    BY <1>2, <1>5, <2>2 DEF MachineObject
  <2>4. pass'[m] \in Pass
    BY <1>2, <2>2, <2>3 DEF Pass
  <2>5. TypeOK'
    BY <2>1, <2>3, <2>4 DEF Kept, TypeOK, pickAndUpdateZoneForMachine
  <2>6. /\ machine'[m].spec = machine[m].spec /\ machine'[m].owner = machine[m].owner
        /\ machine'[m].zone = p.zone /\ There(machine'[m]) /\ There(machine[m])
    BY <1>2, <1>5, <2>2 DEF MachineObject, There
  <2>7. Copy(machine[m], m)' /\ (There(mcache[m]) => Copy(mcache[m], m)')
    <3>1. Copy(machine[m], m)'
      BY <1>3, <1>5, <2>6 DEF Copy, There, pickAndUpdateZoneForMachine
    <3>2. ASSUME There(mcache[m])
          PROVE  Copy(mcache[m], m)'
      BY <1>3, <1>5, <2>6, <3>2 DEF Kept, MachineKept, Copy, There, pickAndUpdateZoneForMachine
    <3> QED BY <3>1, <3>2
  <2>8. MachineKept(m)'
    BY <2>6, <2>7 DEF MachineKept, There, Absent, pickAndUpdateZoneForMachine
  <2>9. PassKept(m)'
    <3> DEFINE q == pass'[m]
    <3>1. q.obj = machine'[m] /\ q.pc = "build" /\ q.cluster = pass[m].cluster
      BY <2>2
    <3>2. Copy(pass[m].obj, m)'
      BY <2>7, <3>1 DEF Copy
    <3>3. There(machine[m])' /\ Older(pass[m].cluster)'
      BY <1>3, <2>6, <3>1 DEF Older, There, pickAndUpdateZoneForMachine
    <3>4. q.obj.zone # None
      BY <1>2, <2>6, <3>1, FleetAssumption
    <3> QED BY <3>1, <3>2, <3>3, <3>4 DEF PassKept
  <2>10. VMKept(m)'
    <3>1. ~There(vm[m])
      BY <1>2, <1>3, <1>5, FleetAssumption DEF Kept, TypeOK, VMKept, VMObject, There, Absent
    <3> QED BY <3>1 DEF VMKept, There, pickAndUpdateZoneForMachine
  <2> QED BY <2>1, <2>5, <2>8, <2>9, <2>10, OneKept DEF pickAndUpdateZoneForMachine, Kept, TypeOK
<1> QED BY <1>4, <1>5

LEMMA BuildStep ==
    ASSUME Kept, NEW m \in Machines, buildVMRequest(m)
    PROVE  Kept'
<1> DEFINE p == pass[m]
           new == [is |-> "there", zone |-> p.obj.zone, build |-> p.obj.spec.build,
                   bare |-> Bare(p.obj.spec), once |-> p.cluster.once,
                   subnet |-> p.cluster.subnets[p.obj.zone]]
<1>1. /\ vm' = [vm EXCEPT ![m] = IF There(@) THEN @ ELSE new]
      /\ pass' = [pass EXCEPT ![m] = Idle]
  BY DEF buildVMRequest
<1>2. p \in Pass /\ p # Idle /\ p.pc = "build"
  BY DEF Kept, TypeOK, Idle, buildVMRequest
<1>3. p.obj \in MachineObject /\ p.cluster \in ClusterSpec
  BY <1>2 DEF Pass
<1>4. Copy(p.obj, m) /\ Older(p.cluster) /\ p.obj.zone # None /\ There(machine[m])
  BY <1>2 DEF Kept, PassKept
<1>5. p.obj.zone \in Zones
  BY <1>3, <1>4 DEF MachineObject
<1>6. new \in VMObject
  BY <1>3, <1>5 DEF VMObject, MachineObject, MachineSpec, ClusterSpec, Bare
<1>7. pass'[m] = Idle /\ vm'[m] = (IF There(vm[m]) THEN vm[m] ELSE new)
  BY <1>1 DEF Kept, TypeOK
<1>8. TypeOK'
  BY <1>1, <1>6 DEF Kept, TypeOK, buildVMRequest
<1>9. MachineKept(m)' /\ PassKept(m)'
  BY <1>7 DEF Kept, MachineKept, PassKept, Copy, There, buildVMRequest
<1>10. VMKept(m)'
  <2>1. CASE There(vm[m])
    BY <1>7, <2>1 DEF Kept, VMKept, There, buildVMRequest
  <2>2. CASE ~There(vm[m])
    <3>1. vm'[m] = new
      BY <1>7, <2>2
    <3>2. ~new.bare /\ new.zone = machine[m].zone /\ new.build = machine[m].spec.build
      BY <1>4 DEF Copy
    <3>3. /\ \A f \in OnceFields : new.once[f] \in {None, cluster.once[f]}
          /\ new.subnet \in {None, cluster.subnets[new.zone]}
      BY <1>4, <1>5 DEF Older, KeepsImmutable
    <3> HIDE DEF new
    <3> QED BY <1>4, <3>1, <3>2, <3>3 DEF VMKept, There, buildVMRequest
  <2> QED BY <2>1, <2>2
<1> QED BY <1>1, <1>8, <1>9, <1>10, OneKept DEF buildVMRequest, Kept, TypeOK

-----------------------------------------------------------------------------
(* The invariant *)

LEMMA InitIsKept == Init => Kept
<1> SUFFICES ASSUME Init PROVE Kept
  OBVIOUS
<1>1. PICK c \in ClusterSpecs : cluster = DefaultCluster(c)
  BY DEF Init
<1>2. cluster \in ClusterSpec
  BY <1>1, DefaultClusterType, FleetAssumption
<1>3. TypeOK
  BY <1>2 DEF Init, TypeOK
<1>4. ClusterKept
  BY KeepsItself DEF Init, ClusterKept, Older
<1>5. ASSUME NEW m \in Machines
      PROVE  MachineKept(m) /\ PassKept(m) /\ VMKept(m)
  BY DEF Init, MachineKept, PassKept, VMKept, There, Absent
<1> QED BY <1>3, <1>4, <1>5 DEF Kept

LEMMA StepIsKept == Kept /\ [Next]_vars => Kept'
<1> SUFFICES ASSUME Kept, [Next]_vars PROVE Kept'
  OBVIOUS
<1>1. CASE EditCluster
  BY <1>1, EditClusterStep
<1>2. CASE ClusterSync \/ ReconcileCluster
  BY <1>2, ClusterCopyStep
<1>3. CASE reconcileFailureDomains
  BY <1>3, ReconcileFailureDomainsStep
<1>4. ASSUME NEW m \in Machines, CreateMachine(m) \/ EditMachine(m) \/ DeleteMachine(m) \/ MachineSync(m)
      PROVE  Kept'
  BY <1>4, CreateMachineStep, EditMachineStep, DeleteMachineStep, MachineSyncStep
<1>5. ASSUME NEW m \in Machines,
             \/ ReconcileMachine(m) \/ pickZoneForMachine(m) \/ pickAndUpdateZoneForMachine(m)
             \/ buildVMRequest(m)
      PROVE  Kept'
  BY <1>5, ReconcileMachineStep, PickZoneStep, UpdateZoneStep, BuildStep
<1>6. CASE UNCHANGED vars
  BY <1>6 DEF vars, Kept, TypeOK, ClusterKept, MachineKept, PassKept, VMKept, Older, Copy
<1> QED BY <1>1, <1>2, <1>3, <1>4, <1>5, <1>6 DEF Next

-----------------------------------------------------------------------------
(* Counts *)

\* A machine is created once and keeps the zone it gets.
LEMMA ZonesStay ==
    ASSUME Kept, [Next]_vars, NEW n \in Machines, machine[n] # Absent
    PROVE  /\ machine'[n] # Absent
           /\ There(machine'[n]) => /\ There(machine[n])
                                    /\ machine[n].zone # None => machine'[n].zone = machine[n].zone
<1>1. CASE UNCHANGED machine
  BY <1>1
<1>2. ASSUME NEW m \in Machines, CreateMachine(m)
      PROVE  machine'[n] = machine[n]
  BY <1>2 DEF Kept, TypeOK, CreateMachine
<1>3. ASSUME NEW m \in Machines, EditMachine(m)
      PROVE  \/ machine'[n] = machine[n]
             \/ /\ There(machine[n]) /\ There(machine'[n])
                /\ machine'[n].zone = machine[n].zone
  BY <1>3 DEF Kept, TypeOK, EditMachine, MachineObject, There, Absent, Gone
<1>4. ASSUME NEW m \in Machines, DeleteMachine(m)
      PROVE  machine'[n] \in {machine[n], Gone}
  BY <1>4 DEF Kept, TypeOK, DeleteMachine
<1>5. ASSUME NEW m \in Machines, pickAndUpdateZoneForMachine(m)
      PROVE  \/ machine'[n] = machine[n]
             \/ /\ There(machine[n]) /\ There(machine'[n])
                /\ machine[n].zone = None
  <2>1. pass[m] # Idle /\ pass[m].obj.zone = None /\ There(machine[m])
    BY <1>5 DEF Kept, PassKept, Idle, pickAndUpdateZoneForMachine
  <2>2. CASE UNCHANGED machine
    BY <2>2
  <2>3. CASE /\ pass[m].obj = machine[m]
             /\ machine' = [machine EXCEPT ![m].zone = pass[m].zone]
    BY <2>1, <2>3 DEF Kept, TypeOK, MachineObject, There, Absent, Gone
  <2> QED BY <1>5, <2>2, <2>3 DEF pickAndUpdateZoneForMachine
<1>6. \/ UNCHANGED machine
      \/ \E m \in Machines : CreateMachine(m) \/ EditMachine(m) \/ DeleteMachine(m)
                           \/ pickAndUpdateZoneForMachine(m)
  BY DEF Next, vars, EditCluster, ClusterSync, ReconcileCluster, reconcileFailureDomains, MachineSync,
         ReconcileMachine, pickZoneForMachine, buildVMRequest
<1> QED BY <1>1, <1>2, <1>3, <1>4, <1>5, <1>6 DEF There, Absent, Gone

\* Only pickZoneForMachine makes a pass that has picked a zone.
LEMMA PickedOnce ==
    ASSUME Kept, [Next]_vars, NEW m \in Machines, pass'[m].pc = "store"
    PROVE  pass'[m] = pass[m] \/ pickZoneForMachine(m)
<1>1. CASE UNCHANGED pass
  BY <1>1
<1>2. ASSUME NEW n \in Machines, ReconcileMachine(n)
      PROVE  pass'[m] = pass[m]
  BY <1>2 DEF Kept, TypeOK, ReconcileMachine
<1>3. ASSUME NEW n \in Machines, pickZoneForMachine(n)
      PROVE  pass'[m] = pass[m] \/ pickZoneForMachine(m)
  BY <1>3 DEF Kept, TypeOK, pickZoneForMachine
<1>4. ASSUME NEW n \in Machines, pickAndUpdateZoneForMachine(n) \/ buildVMRequest(n)
      PROVE  pass'[m] = pass[m]
  BY <1>4 DEF Kept, TypeOK, Idle, pickAndUpdateZoneForMachine, buildVMRequest
<1>5. \/ UNCHANGED pass
      \/ \E n \in Machines : \/ ReconcileMachine(n) \/ pickZoneForMachine(n)
                            \/ pickAndUpdateZoneForMachine(n) \/ buildVMRequest(n)
  BY DEF Next, vars, EditCluster, ClusterSync, ReconcileCluster, reconcileFailureDomains, CreateMachine,
         EditMachine, DeleteMachine, MachineSync
<1> QED BY <1>1, <1>2, <1>3, <1>4, <1>5

LEMMA StepIsCounted ==
    ASSUME IInv, [Next]_vars, NEW m \in Machines
    PROVE  Counted(m)'
<1> SUFFICES ASSUME pass'[m].pc = "store"
             PROVE  Counted(m)'
  BY DEF Counted
<1>1. Kept
  BY DEF IInv
<1>2. CASE pass'[m] = pass[m]
  <2>1. Counted(m) /\ pass[m].pc = "store"
    BY <1>2 DEF IInv
  <2>2. pass[m].seen \in [Machines -> Zones \cup {None}]
    BY <1>1, <2>1 DEF Kept, TypeOK, Pass, Idle
  <2>3. ASSUME NEW n \in Machines, pass[m].seen[n] # None
        PROVE  /\ machine'[n] # Absent
               /\ There(machine'[n]) => machine'[n].zone = pass[m].seen[n]
    BY <1>1, <2>1, <2>3, ZonesStay DEF Counted
  <2> QED BY <1>2, <2>1, <2>3 DEF Counted, ZoneCount, There
<1>3. CASE pickZoneForMachine(m)
  <2> DEFINE p == pass[m]
             seen == [n \in Machines |-> IF n = m THEN None ELSE ZoneOf(mcache[n])]
  <2>1. PICK z \in Zones :
           /\ IF p.obj.owner # None THEN z = p.obj.owner ELSE leastUsedZone(z, p.cluster.zones, seen)
           /\ pass' = [pass EXCEPT ![m] = [pc |-> "store", obj |-> p.obj, cluster |-> p.cluster,
                                           zone |-> z, seen |-> seen]]
    BY <1>3 DEF pickZoneForMachine
  <2>2. pass'[m] = [pc |-> "store", obj |-> p.obj, cluster |-> p.cluster, zone |-> z, seen |-> seen]
    BY <1>1, <2>1 DEF Kept, TypeOK
  <2>3. UNCHANGED machine
    BY <1>3 DEF pickZoneForMachine
  <2>4. ASSUME NEW n \in Machines, seen[n] # None
        PROVE  machine[n] # Absent /\ (There(machine[n]) => machine[n].zone = seen[n])
    BY <1>1, <2>4 DEF Kept, MachineKept, Copy, ZoneOf
  <2>5. ASSUME p.obj.owner = None, NEW y \in Range(p.cluster.zones)
        PROVE  ZoneCount(seen, z) <= ZoneCount(seen, y)
    BY <2>1, <2>5 DEF leastUsedZone, Range
  <2> HIDE DEF seen
  <2>6. seen[m] = None
    BY DEF seen
  <2> QED BY <2>2, <2>3, <2>4, <2>5, <2>6 DEF Counted, ZoneCount, There
<1> QED BY <1>1, <1>2, <1>3, PickedOnce

\* Between two lists of zones that differ in machines that have got a zone or
\* have gone, the difference of two counts grows by no more than those machines.
LEMMA MissedBounds ==
    ASSUME NEW seen \in [Machines -> Zones \cup {None}], NEW now \in [Machines -> Zones \cup {None}],
           \A n \in Machines : seen[n] # None => now[n] \in {seen[n], None},
           NEW z \in Zones, NEW y \in Zones, ZoneCount(seen, z) <= ZoneCount(seen, y)
    PROVE  ZoneCount(now, z) <= ZoneCount(now, y) + Cardinality({n \in Machines : seen[n] # now[n]})
<1> DEFINE M == {n \in Machines : seen[n] # now[n]}
           Z0 == {n \in Machines : seen[n] = z}
           Y0 == {n \in Machines : seen[n] = y}
           Z1 == {n \in Machines : now[n] = z}
           Y1 == {n \in Machines : now[n] = y}
           Come == {n \in M : now[n] = z}
           Went == {n \in M : seen[n] = y}
<1>1. /\ IsFiniteSet(M) /\ IsFiniteSet(Z0) /\ IsFiniteSet(Y0) /\ IsFiniteSet(Z1) /\ IsFiniteSet(Y1)
      /\ IsFiniteSet(Come) /\ IsFiniteSet(Went)
  BY FS_Subset, FleetAssumption
<1>2. /\ Cardinality(M) \in Nat /\ Cardinality(Z0) \in Nat /\ Cardinality(Y0) \in Nat
      /\ Cardinality(Z1) \in Nat /\ Cardinality(Y1) \in Nat
      /\ Cardinality(Come) \in Nat /\ Cardinality(Went) \in Nat
  BY <1>1, FS_CardinalityType
<1>3. CASE z = y
  BY <1>2, <1>3 DEF ZoneCount
<1>4. CASE z # y
  <2>1. Cardinality(Z1) <= Cardinality(Z0) + Cardinality(Come)
    <3>1. Z1 \subseteq Z0 \cup Come
      OBVIOUS
    <3>2. IsFiniteSet(Z0 \cup Come) /\ Cardinality(Z1) <= Cardinality(Z0 \cup Come)
      BY <1>1, <3>1, FS_Union, FS_Subset
    <3>3. /\ Cardinality(Z0 \cup Come) \in Nat /\ Cardinality(Z0 \cap Come) \in Nat
          /\ Cardinality(Z0 \cup Come) = Cardinality(Z0) + Cardinality(Come) - Cardinality(Z0 \cap Come)
      BY <1>1, <3>2, FS_Union, FS_Intersection, FS_CardinalityType
    <3> HIDE DEF Z0, Z1, Come
    <3> QED BY <1>2, <3>2, <3>3
  <2>2. Cardinality(Y0) <= Cardinality(Y1) + Cardinality(Went)
    <3>1. Y0 \subseteq Y1 \cup Went
      OBVIOUS
    <3>2. IsFiniteSet(Y1 \cup Went) /\ Cardinality(Y0) <= Cardinality(Y1 \cup Went)
      BY <1>1, <3>1, FS_Union, FS_Subset
    <3>3. /\ Cardinality(Y1 \cup Went) \in Nat /\ Cardinality(Y1 \cap Went) \in Nat
          /\ Cardinality(Y1 \cup Went) = Cardinality(Y1) + Cardinality(Went) - Cardinality(Y1 \cap Went)
      BY <1>1, <3>2, FS_Union, FS_Intersection, FS_CardinalityType
    <3> HIDE DEF Y0, Y1, Went
    <3> QED BY <1>2, <3>2, <3>3
  <2>3. Cardinality(Come) + Cardinality(Went) <= Cardinality(M)
    <3>1. Come \cap Went = {}
      BY <1>4, FleetAssumption
    <3>2. Come \cup Went \subseteq M
      OBVIOUS
    <3>3. Cardinality(Come \cup Went) = Cardinality(Come) + Cardinality(Went) - Cardinality(Come \cap Went)
      BY <1>1, FS_Union
    <3>4. Cardinality(Come \cap Went) = 0
      BY <3>1, FS_EmptySet
    <3>5. Cardinality(Come \cup Went) <= Cardinality(M)
      BY <1>1, <3>2, FS_Subset
    <3> HIDE DEF Come, Went, M
    <3> QED BY <1>2, <3>3, <3>4, <3>5
  <2>4. Cardinality(Z0) <= Cardinality(Y0)
    BY DEF ZoneCount
  <2>5. Cardinality(Z1) <= Cardinality(Y1) + Cardinality(M)
    <3> HIDE DEF M, Z0, Y0, Z1, Y1, Come, Went
    <3> QED BY <1>2, <2>1, <2>2, <2>3, <2>4
  <2> QED BY <2>5 DEF ZoneCount
<1> QED BY <1>3, <1>4

-----------------------------------------------------------------------------
(* The theorems *)

\* Every copy of a cluster or machine that is on its way agrees with the stored
\* object on what the webhooks keep: what reconcileFailureDomains,
\* pickAndUpdateZoneForMachine and buildVMRequest write from it is no older
\* than what users see.
THEOREM Inductive == Spec => []IInv
<1>1. Init => IInv
  BY InitIsKept DEF Init, IInv, Counted, Idle
<1>2. IInv /\ [Next]_vars => IInv'
  BY StepIsKept, StepIsCounted DEF IInv
<1> QED BY <1>1, <1>2, PTL DEF Spec

\* The zones that machines are in and that CAPI is offered are zones of the
\* spec: ValidateUpdate lets none go.
THEOREM ZonesOffered == Spec => []ZoneOffered
<1>1. IInv => ZoneOffered
  <2> SUFFICES ASSUME IInv PROVE ZoneOffered
    OBVIOUS
  <2>1. ASSUME NEW m \in Placed
        PROVE  machine[m].zone \in Range(cluster.zones)
    BY DEF Placed, ZoneOf, IInv, Kept, MachineKept, Copy, There
  <2> QED BY <2>1 DEF ZoneOffered, IInv, Kept, ClusterKept
<1> QED BY <1>1, Inductive, PTL

\* A VM and the specs agree on all it was built from: buildVMRequest reads
\* copies, and the webhooks keep what it reads.
THEOREM VMsAsSpecified == Spec => []VMAsSpecified
<1>1. IInv => VMAsSpecified
  BY DEF IInv, Kept, VMKept, VMAsSpecified
<1> QED BY <1>1, Inductive, PTL

\* A machine that names no groups inherits those of its cluster: Default of the
\* machine webhook sees to it at every write, and passes read what it let in.
THEOREM NeverBareVM == Spec => []NeverBare
<1>1. IInv => NeverBare
  BY DEF IInv, Kept, VMKept, NeverBare
<1> QED BY <1>1, Inductive, PTL

\* pickZoneForMachine takes the least used zone of a list that is behind: what
\* the list misses bounds what it is wrong by, however many passes overlap.
THEOREM LeastUsedZone == Spec => LeastUsed
<1>1. IInv => \A m \in Machines : pass[m].pc = "store" /\ machine[m].owner = None => Levelled(m)
  <2> SUFFICES ASSUME IInv, NEW m \in Machines, pass[m].pc = "store", machine[m].owner = None
               PROVE  Levelled(m)
    OBVIOUS
  <2> DEFINE seen == pass[m].seen
             others == [n \in Machines |-> IF n = m THEN None ELSE ZoneOf(machine[n])]
  <2>1. pass[m] \in Pass /\ pass[m] # Idle
    BY DEF IInv, Kept, TypeOK, Idle
  <2>2. /\ seen \in [Machines -> Zones \cup {None}] /\ pass[m].zone \in Zones
        /\ pass[m].cluster \in ClusterSpec
    BY <2>1 DEF Pass
  <2>3. others \in [Machines -> Zones \cup {None}]
    BY DEF IInv, Kept, TypeOK, ZoneOf, There, MachineObject, Absent, Gone
  <2>4. \A n \in Machines : seen[n] # None => others[n] \in {seen[n], None}
    BY DEF IInv, Counted, ZoneOf
  <2>5. ASSUME NEW y \in Range(pass[m].cluster.zones)
        PROVE  ZoneCount(others, pass[m].zone)
                 <= ZoneCount(others, y) + Cardinality({n \in Machines : seen[n] # others[n]})
    <3>1. y \in Zones
      BY <2>2 DEF ClusterSpec, Range
    <3>2. ZoneCount(seen, pass[m].zone) <= ZoneCount(seen, y)
      BY <2>1 DEF IInv, Kept, PassKept, Copy, Counted
    <3> HIDE DEF seen, others
    <3> QED BY <2>2, <2>3, <2>4, <3>1, <3>2, MissedBounds
  <2> QED BY <2>5 DEF Levelled
<1>2. IInv => \A m \in Machines :
        pass[m].pc = "store" /\ machine'[m] # machine[m] /\ machine[m].owner = None => Levelled(m)
  BY <1>1
<1> QED BY <1>2, Inductive, PTL DEF LeastUsed

=============================================================================
