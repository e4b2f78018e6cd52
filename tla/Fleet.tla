------------------------------- MODULE Fleet -------------------------------
(***************************************************************************)
(* A cluster and its machines: users who edit both through the webhooks,   *)
(* the cluster controller, which publishes the zones and sets the endpoint,*)
(* CAPI, which places control plane machines in the published zones, and   *)
(* the passes of the machine controller, several at a time, which give the *)
(* other machines the least used zone and build the VMs.                   *)
(*                                                                         *)
(* The controllers read cluster and machines from caches that lag behind   *)
(* the API server, each object by itself.                                  *)
(***************************************************************************)
EXTENDS Admission, FiniteSets

CONSTANTS
    Clusters,        \* names a cluster may have
    Machines,        \* names of machines
    ClusterSpecs,    \* specs clusters are created with
    MachineSpecs,    \* specs machines are created with
    ZoneLists,       \* lists of zones users enter
    NameLists,       \* lists of groups and disks users enter
    Address,         \* the address of the cluster's load balancer
    Workers,         \* maxConcurrentReconciles
    MaxEdits         \* bound: edits by users

ASSUME FleetAssumption ==
    /\ ClusterSpecs \subseteq ClusterSpec /\ MachineSpecs \subseteq MachineSpec
    /\ ZoneLists \subseteq Seq(Zones) /\ NameLists \subseteq Seq(Names)
    /\ Address \in Values
    /\ IsFiniteSet(Machines)
    /\ Clusters \cup Machines \subseteq DOMAIN Length /\ Names \subseteq DOMAIN Length
    /\ Workers \in Nat \ {0} /\ MaxEdits \in Nat
    /\ None \notin Zones

VARIABLES
    name,       \* of the cluster
    cluster,    \* spec of the EvrocCluster in the API server
    ccache,     \* its copy in the cache
    cpass,      \* the copy of the running pass of the cluster controller, None if none runs
    published,  \* status.failureDomains
    machine,    \* the EvrocMachines in the API server
    mcache,     \* their copies in the cache
    pass,       \* the running pass of each machine
    vm,         \* the VMs in the cloud
    edits

vars == <<name, cluster, ccache, cpass, published, machine, mcache, pass, vm, edits>>

-----------------------------------------------------------------------------
(* Types *)

\* Objects that are not there yet, and those deleted: no name is used twice.
Absent == [is |-> "absent"]
Gone == [is |-> "gone"]
Idle == [pc |-> "idle"]

\* owner is the failure domain of the owner Machine.
MachineObject ==
    [is: {"there"}, spec: MachineSpec, owner: Zones \cup {None}, zone: Zones \cup {None}]

There(o) == o.is = "there"

\* The zone of a machine, None if it has none or does not exist.
ZoneOf(o) == IF There(o) THEN o.zone ELSE None

\* A VM: what it was built from, and whether its machine had no groups.
VMObject == [is: {"there"}, zone: Zones, build: [BuildFields -> Values \cup {None}], bare: BOOLEAN,
             once: [OnceFields -> Values \cup {None}], subnet: Values \cup {None}]

\* seen: the zones of the other machines in the list the pass has read.
Pass ==
    [pc: {"pick", "build"}, obj: MachineObject, cluster: ClusterSpec] \cup
    [pc: {"store"}, obj: MachineObject, cluster: ClusterSpec, zone: Zones,
     seen: [Machines -> Zones \cup {None}]]

TypeOK ==
    /\ name \in Clusters
    /\ cluster \in ClusterSpec /\ ccache \in ClusterSpec /\ cpass \in ClusterSpec \cup {Idle}
    /\ published \subseteq Zones
    /\ machine \in [Machines -> MachineObject \cup {Absent, Gone}]
    /\ mcache \in [Machines -> MachineObject \cup {Absent, Gone}]
    /\ pass \in [Machines -> Pass \cup {Idle}]
    /\ vm \in [Machines -> VMObject \cup {Absent}]
    /\ edits \in Nat

Init ==
    /\ name \in Clusters
    /\ \E c \in ClusterSpecs : cluster = DefaultCluster(c)
    /\ validateEvrocCluster(name, cluster)
    /\ ccache = cluster /\ cpass = Idle /\ published = {}
    /\ machine = [m \in Machines |-> Absent] /\ mcache = machine
    /\ pass = [m \in Machines |-> Idle] /\ vm = [m \in Machines |-> Absent]
    /\ edits = 0

-----------------------------------------------------------------------------
(* Users and CAPI *)

\* kubectl edit of what is stored.
EditedCluster ==
    {[cluster EXCEPT !.place = p] : p \in [{"project", "region"} -> Values \cup {None}]} \cup
    {[cluster EXCEPT !.once = f] : f \in [OnceFields -> Values \cup {None}]} \cup
    {[cluster EXCEPT !.subnets = f] : f \in [Zones -> Values \cup {None}]} \cup
    {[cluster EXCEPT !.zones = l] : l \in ZoneLists} \cup
    {[cluster EXCEPT !.inline = l] : l \in NameLists} \cup
    {[cluster EXCEPT !.managed = ~@], [cluster EXCEPT !.formed = ~@]}

EditedMachine(s) ==
    {[s EXCEPT !.place = p] : p \in [{"project", "region"} -> Values \cup {None}]} \cup
    {[s EXCEPT !.build = f] : f \in [BuildFields -> Values \cup {None}]} \cup
    {[s EXCEPT !.disks = l] : l \in NameLists} \cup {[s EXCEPT !.inline = l] : l \in NameLists} \cup
    {[s EXCEPT !.inherit = ~@], [s EXCEPT !.formed = ~@]}

EditCluster ==
    /\ edits < MaxEdits /\ edits' = edits + 1
    /\ \E c \in EditedCluster : LET new == DefaultCluster(c) IN
         /\ new # cluster /\ ValidateClusterUpdate(name, cluster, new)
         /\ cluster' = new
    /\ UNCHANGED <<name, ccache, cpass, published, machine, mcache, pass, vm>>

EditMachine(m) ==
    /\ edits < MaxEdits /\ edits' = edits + 1
    /\ There(machine[m])
    /\ \E s \in EditedMachine(machine[m].spec) : LET new == DefaultMachine(s) IN
         /\ new # machine[m].spec /\ ValidateMachineUpdate(m, machine[m].spec, new)
         /\ machine' = [machine EXCEPT ![m].spec = new]
    /\ UNCHANGED <<name, cluster, ccache, cpass, published, mcache, pass, vm>>

\* A worker has no failure domain; KCP takes one of those published.
CreateMachine(m) ==
    /\ machine[m] = Absent
    /\ \E s \in MachineSpecs, z \in published \cup {None} : LET new == DefaultMachine(s) IN
         /\ validateEvrocMachine(m, new)
         /\ machine' = [machine EXCEPT ![m] = [is |-> "there", spec |-> new, owner |-> z, zone |-> None]]
    /\ UNCHANGED <<name, cluster, ccache, cpass, published, mcache, pass, vm, edits>>

\* Teardown of the VM and the object, in a pass of the machine's key.
DeleteMachine(m) ==
    /\ There(machine[m]) /\ pass[m] = Idle
    /\ machine' = [machine EXCEPT ![m] = Gone] /\ vm' = [vm EXCEPT ![m] = Absent]
    /\ UNCHANGED <<name, cluster, ccache, cpass, published, mcache, pass, edits>>

ClusterSync ==
    /\ ccache # cluster /\ ccache' = cluster
    /\ UNCHANGED <<name, cluster, cpass, published, machine, mcache, pass, vm, edits>>

MachineSync(m) ==
    /\ mcache[m] # machine[m] /\ mcache' = [mcache EXCEPT ![m] = machine[m]]
    /\ UNCHANGED <<name, cluster, ccache, cpass, published, machine, pass, vm, edits>>

-----------------------------------------------------------------------------
(* EvrocCluster controller *)

ReconcileCluster ==
    /\ cpass = Idle /\ cpass' = ccache
    /\ UNCHANGED <<name, cluster, ccache, published, machine, mcache, pass, vm, edits>>

\* Mutant: the patch is not looked at.
reconcileUnvalidated ==
    /\ cpass # Idle /\ cpass' = Idle
    /\ published' = Range(cpass.zones)
    /\ cluster' = IF cpass.once["controlPlaneEndpoint"] = None
                  THEN [cluster EXCEPT !.once["controlPlaneEndpoint"] = Address] ELSE cluster
    /\ UNCHANGED <<name, ccache, machine, mcache, pass, vm, edits>>

\* The deferred patch.  It sends the endpoint, without a resourceVersion, if
\* the pass has set it; the webhook may refuse it.  The status passes.
reconcileFailureDomains ==
    /\ cpass # Idle /\ cpass' = Idle
    /\ published' = Range(cpass.zones)
    /\ LET new == IF cpass.managed /\ cpass.once["controlPlaneEndpoint"] = None
                  THEN [cluster EXCEPT !.once["controlPlaneEndpoint"] = Address] ELSE cluster
       IN  cluster' = IF ValidateClusterUpdate(name, cluster, new) THEN new ELSE cluster
    /\ UNCHANGED <<name, ccache, machine, mcache, pass, vm, edits>>

-----------------------------------------------------------------------------
(* EvrocMachine controller *)

Busy == {m \in Machines : pass[m] # Idle}

\* A pass reads machine and cluster.  A machine that has a zone keeps it.  Once
\* a deletion is done no copy is left that knows nothing of it.
ReconcileMachine(m) ==
    /\ pass[m] = Idle /\ There(mcache[m]) /\ There(machine[m]) /\ Cardinality(Busy) < Workers
    /\ pass' = [pass EXCEPT ![m] = [pc |-> IF mcache[m].zone = None THEN "pick" ELSE "build",
                                    obj |-> mcache[m], cluster |-> ccache]]
    /\ UNCHANGED <<name, cluster, ccache, cpass, published, machine, mcache, vm, edits>>

\* How many machines of a function have a zone.
ZoneCount(zoneOf, z) == Cardinality({m \in Machines : zoneOf[m] = z})

\* Mutant: the counts are kept under another key than they are looked up by.
leastUsedZoneUncounted(z, zones, zoneOf) == z = zones[1]

\* The first of the zones that fewest machines have.
leastUsedZone(z, zones, zoneOf) ==
    \E i \in DOMAIN zones :
        /\ z = zones[i]
        /\ \A j \in DOMAIN zones : ZoneCount(zoneOf, z) <= ZoneCount(zoneOf, zones[j])
        /\ \A j \in 1 .. i - 1 : ZoneCount(zoneOf, z) < ZoneCount(zoneOf, zones[j])

\* The other machines are read from the cache; the owner's zone has precedence.
pickZoneForMachine(m) ==
    /\ pass[m].pc = "pick"
    /\ LET p == pass[m]
           seen == [n \in Machines |-> IF n = m THEN None ELSE ZoneOf(mcache[n])]
       IN  \E z \in Zones :
             /\ IF p.obj.owner # None THEN z = p.obj.owner ELSE leastUsedZone(z, p.cluster.zones, seen)
             /\ pass' = [pass EXCEPT ![m] = [pc |-> "store", obj |-> p.obj, cluster |-> p.cluster,
                                             zone |-> z, seen |-> seen]]
    /\ UNCHANGED <<name, cluster, ccache, cpass, published, machine, mcache, vm, edits>>

\* The status update of a copy that is not current conflicts and ends the pass.
pickAndUpdateZoneForMachine(m) ==
    /\ pass[m].pc = "store"
    /\ LET p == pass[m]
       IN  \/ /\ p.obj = machine[m]
              /\ machine' = [machine EXCEPT ![m].zone = p.zone]
              /\ pass' = [pass EXCEPT ![m] = [pc |-> "build", obj |-> [p.obj EXCEPT !.zone = p.zone],
                                              cluster |-> p.cluster]]
           \/ /\ p.obj # machine[m]
              /\ pass' = [pass EXCEPT ![m] = Idle] /\ UNCHANGED machine
    /\ UNCHANGED <<name, cluster, ccache, cpass, published, mcache, vm, edits>>

\* Disks and VM are built from what the pass has read, unless there is a VM.
buildVMRequest(m) ==
    /\ pass[m].pc = "build"
    /\ LET p == pass[m]
           new == [is |-> "there", zone |-> p.obj.zone, build |-> p.obj.spec.build, bare |-> Bare(p.obj.spec),
                   once |-> p.cluster.once, subnet |-> p.cluster.subnets[p.obj.zone]]
       IN  vm' = [vm EXCEPT ![m] = IF There(@) THEN @ ELSE new]
    /\ pass' = [pass EXCEPT ![m] = Idle]
    /\ UNCHANGED <<name, cluster, ccache, cpass, published, machine, mcache, edits>>

-----------------------------------------------------------------------------
(* Specification *)

Next ==
    \/ EditCluster \/ ClusterSync \/ ReconcileCluster \/ reconcileFailureDomains
    \/ \E m \in Machines :
         \/ CreateMachine(m) \/ EditMachine(m) \/ DeleteMachine(m) \/ MachineSync(m)
         \/ ReconcileMachine(m) \/ pickZoneForMachine(m) \/ pickAndUpdateZoneForMachine(m)
         \/ buildVMRequest(m)

Spec == Init /\ [][Next]_vars

-----------------------------------------------------------------------------
(* Properties *)

Placed == {m \in Machines : ZoneOf(machine[m]) # None}

\* Every zone a machine is in, or that CAPI is offered, is one of the spec's,
\* although zones are taken from caches, from a status an older pass has
\* written, and from owners that were placed long before: the webhook lets no
\* zone go.
ZoneOffered ==
    /\ published \subseteq Range(cluster.zones)
    /\ \A m \in Placed : machine[m].zone \in Range(cluster.zones)

\* A VM and its spec agree, however old the copies were it was built from: it
\* is in the machine's zone, has the machine's image, profile and disk size,
\* and is in the network, the subnet and under the endpoint the cluster's spec
\* names, if that named one when the VM was built.
VMAsSpecified ==
    \A m \in Machines : There(vm[m]) =>
        /\ vm[m].zone = machine[m].zone /\ vm[m].build = machine[m].spec.build
        /\ \A f \in OnceFields : vm[m].once[f] \in {None, cluster.once[f]}
        /\ vm[m].subnet \in {None, cluster.subnets[vm[m].zone]}

\* No VM is built for a machine that neither names groups nor inherits those of
\* its cluster, whatever users have taken out of its spec: "never created
\* without any SGs (which would block all network traffic)".
NeverBare == \A m \in Machines : There(vm[m]) => ~vm[m].bare

\* The zone the pass of m has picked has at most as many of the other machines
\* as any zone it knew, but for those whose zone it has not seen as it is.
Levelled(m) ==
    LET others == [n \in Machines |-> IF n = m THEN None ELSE ZoneOf(machine[n])]
        missed == {n \in Machines : pass[m].seen[n] # others[n]}
    IN  \A y \in Range(pass[m].cluster.zones) :
            ZoneCount(others, pass[m].zone) <= ZoneCount(others, y) + Cardinality(missed)

\* When a machine gets its zone the zone is levelled: each machine that was
\* placed or deleted since the pass listed them costs one of balance, no more.
LeastUsed ==
    [][\A m \in Machines :
        pass[m].pc = "store" /\ machine'[m] # machine[m] /\ machine[m].owner = None => Levelled(m)]_vars

-----------------------------------------------------------------------------
(* The inductive invariant *)

\* A copy of the cluster's spec that is or was the stored one.
Older(c) == KeepsImmutable(c, cluster)

\* A copy of a machine that is or was the stored one.
Copy(o, m) ==
    /\ There(machine[m]) => /\ o.spec.build = machine[m].spec.build /\ o.owner = machine[m].owner
                            /\ o.zone # None => o.zone = machine[m].zone
    /\ {o.owner, o.zone} \subseteq Range(cluster.zones) \cup {None}
    /\ ~Bare(o.spec)

ClusterKept ==
    /\ published \subseteq Range(cluster.zones)
    /\ Older(ccache) /\ (cpass # Idle => Older(cpass))

MachineKept(m) ==
    /\ There(machine[m]) => Copy(machine[m], m)
    /\ There(mcache[m]) => machine[m] # Absent /\ Copy(mcache[m], m)

PassKept(m) ==
    pass[m] # Idle =>
        /\ There(machine[m]) /\ Copy(pass[m].obj, m) /\ Older(pass[m].cluster)
        /\ (pass[m].obj.zone # None) = (pass[m].pc = "build")
        /\ pass[m].pc = "store" => pass[m].zone \in Range(cluster.zones)

VMKept(m) ==
    There(vm[m]) =>
        /\ There(machine[m]) /\ ~vm[m].bare
        /\ vm[m].zone = machine[m].zone /\ vm[m].build = machine[m].spec.build
        /\ \A f \in OnceFields : vm[m].once[f] \in {None, cluster.once[f]}
        /\ vm[m].subnet \in {None, cluster.subnets[vm[m].zone]}

\* What the pass has listed was so and is so still, but for machines that were
\* deleted, and it has picked the zone with the lowest count.
Counted(m) ==
    pass[m].pc = "store" =>
        /\ pass[m].seen[m] = None
        /\ \A n \in Machines : pass[m].seen[n] # None =>
             machine[n] # Absent /\ (There(machine[n]) => machine[n].zone = pass[m].seen[n])
        /\ pass[m].obj.owner = None => \A y \in Range(pass[m].cluster.zones) :
             ZoneCount(pass[m].seen, pass[m].zone) <= ZoneCount(pass[m].seen, y)

\* Whatever a copy has of what is kept, the stored object has too; what is
\* written from a copy therefore agrees with what is stored.
Kept == TypeOK /\ ClusterKept /\ \A m \in Machines : MachineKept(m) /\ PassKept(m) /\ VMKept(m)

IInv == Kept /\ \A m \in Machines : Counted(m)

=============================================================================
