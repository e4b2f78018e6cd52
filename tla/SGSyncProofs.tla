---------------------------- MODULE SGSyncProofs ----------------------------
(***************************************************************************)
(* Proofs about SGSync, for any groups, machines, edits and failures: the  *)
(* invariant of the cluster controller's passes, which groups are deleted, *)
(* what wakes a machine, and hence what the status names and the VMs have  *)
(* when both controllers have come to rest.                                *)
(***************************************************************************)
EXTENDS SGSync, TLAPS

-----------------------------------------------------------------------------
(* Groups and passes *)

LEMMA ListedType ==
    ASSUME NEW s \in Specs
    PROVE  Listed(s) \in Lists
BY SGSyncAssumption DEF Listed, Lists

LEMMA NamesTypes ==
    ASSUME NEW list, NEW m
    PROVE  /\ Managed(list) \subseteq Inline /\ InList(list) \subseteq Names
           /\ Managed(list) = InList(list) \cap Inline
           /\ clusterSecurityGroupNamesForRole(list, m) \subseteq Names
BY DEF Managed, InList, Names, clusterSecurityGroupNamesForRole

RunningPass ==
    [pc: {"groups", "stale", "list", "announce", "patch"}, base: ClusterObject,
     groups: Lists, ready: BOOLEAN, terminal: BOOLEAN, todo: SUBSET (Names \cup Machines)]

LEMMA PassType ==
    ASSUME TypeOK, cpass.pc # "idle"
    PROVE  cpass \in RunningPass
BY DEF TypeOK, NoPass, RunningPass

LEMMA ToPatchDone ==
    ASSUME NEW p \in RunningPass, NEW ok \in BOOLEAN
    PROVE  LET q == ToPatch(p, ok)
           IN  /\ q \in RunningPass /\ q.pc = "patch" /\ q.base = p.base /\ q.groups = p.groups
               /\ q.ready = ok /\ q.terminal = p.terminal
BY DEF ToPatch, RunningPass

LEMMA ErrorDone ==
    ASSUME NEW p \in RunningPass, NEW terminal \in BOOLEAN
    PROVE  LET q == handleClusterError(p, terminal)
           IN  /\ q \in RunningPass /\ q.pc = "patch" /\ q.base = p.base /\ q.groups = p.groups
               /\ ~q.ready /\ q.terminal = terminal
<1> DEFINE o == [p EXCEPT !.terminal = terminal]
<1>1. o \in RunningPass /\ o.base = p.base /\ o.groups = p.groups /\ o.terminal = terminal
  BY DEF RunningPass
<1>2. handleClusterError(p, terminal) = ToPatch(o, FALSE)
  BY DEF handleClusterError
<1> HIDE DEF o
<1> QED BY <1>1, <1>2, ToPatchDone

\* A pass that has deleted the stale groups has the new list.
LEMMA ToListDone ==
    ASSUME NEW p \in RunningPass, p.groups = p.base.groups
    PROVE  LET q == ToList(p)
           IN  /\ q \in RunningPass /\ q.pc \in {"list", "patch"} /\ q.base = p.base
               /\ q.groups = Listed(p.base.spec) /\ (q.pc = "patch" => q.ready) /\ q.terminal = p.terminal
<1>1. p.base.spec \in Specs
  BY DEF RunningPass, ClusterObject
<1>2. CASE p.base.spec = NoConfig /\ p.base.groups = {}
  <2>1. ToList(p) = ToPatch(p, TRUE) /\ Listed(p.base.spec) = {}
    BY <1>2 DEF ToList, Listed
  <2> QED BY <1>2, <2>1, ToPatchDone
<1>3. CASE ~(p.base.spec = NoConfig /\ p.base.groups = {})
  <2>1. ToList(p) = [p EXCEPT !.pc = "list", !.groups = Listed(p.base.spec), !.todo = {}]
    BY <1>3 DEF ToList
  <2>2. Listed(p.base.spec) \in Lists
    BY <1>1, ListedType
  <2> QED BY <2>1, <2>2 DEF RunningPass
<1> QED BY <1>2, <1>3

\* A pass that has created the groups deletes those of the old list that are
\* not in the new one, or has the new list.
LEMMA StaleFound ==
    ASSUME NEW p \in RunningPass, p.groups = p.base.groups
    PROVE  LET q == deleteStaleSecurityGroups(p)
           IN  /\ q \in RunningPass /\ q.base = p.base /\ q.terminal = p.terminal
               /\ \/ /\ q.pc \in {"list", "patch"} /\ (q.pc = "patch" => q.ready)
                     /\ q.groups = Listed(p.base.spec) /\ Managed(p.base.groups) \subseteq Asked(p.base)
                  \/ /\ q.pc = "stale" /\ q.groups = p.base.groups
                     /\ q.todo = Managed(p.base.groups) \ Asked(p.base)
<1> DEFINE stale == Managed(p.base.groups) \ Asked(p.base)
<1>1. stale \subseteq Names
  BY NamesTypes DEF Names
<1>2. CASE stale = {}
  <2>1. deleteStaleSecurityGroups(p) = ToList(p)
    BY <1>2 DEF deleteStaleSecurityGroups, Asked
  <2> QED BY <1>2, <2>1, ToListDone
<1>3. CASE stale # {}
  <2>1. deleteStaleSecurityGroups(p) = [p EXCEPT !.pc = "stale", !.todo = stale]
    BY <1>3 DEF deleteStaleSecurityGroups, Asked
  <2> QED BY <1>1, <2>1 DEF RunningPass
<1> QED BY <1>2, <1>3

-----------------------------------------------------------------------------
(* Types *)

PassOfMachine == {NoPass} \cup [pc: {"vm"}, view: Lists, hasID: BOOLEAN] \cup [pc: {"status"}]

ClusterTyped == cluster \in ClusterObject /\ cache \in ClusterObject /\ cpass \in {NoPass} \cup RunningPass
ObjectsTyped == machine \in [Machines -> MachineObject] /\ cached \in [Machines -> MachineObject]
CopiesTyped == fresh \in [Machines -> SUBSET {"cache", "pass", "list"}] /\ mqueued \subseteq Machines
PassesTyped == mpass \in [Machines -> PassOfMachine]
CloudTyped == exists \subseteq Inline /\ up \subseteq Machines /\ vm \in [Machines -> SUBSET Names]
HistoryTyped ==
    /\ untold \subseteq Machines /\ dropped \subseteq Machines /\ rejected \subseteq Machines
    /\ abandoned \in {"no", "reported", "unreported"} /\ edits \in Nat /\ failures \in Nat
FlagsTyped == cqueued \in BOOLEAN /\ outdated \in BOOLEAN

LEMMA TypeParts ==
    TypeOK <=> ClusterTyped /\ ObjectsTyped /\ CopiesTyped /\ PassesTyped /\ CloudTyped /\ HistoryTyped /\ FlagsTyped
BY DEF TypeOK, ClusterTyped, ObjectsTyped, CopiesTyped, PassesTyped, CloudTyped, HistoryTyped, FlagsTyped,
       RunningPass, PassOfMachine

LEMMA WritesTyped ==
    ASSUME ObjectsTyped, CopiesTyped, NEW m \in Machines, NEW new \in MachineObject, NEW who
    PROVE  WriteMachine(m, new, who) \/ WritesNothing(m, who) =>
             /\ machine' \in [Machines -> MachineObject]
             /\ fresh' \in [Machines -> SUBSET {"cache", "pass", "list"}]
BY DEF ObjectsTyped, CopiesTyped, WriteMachine, WritesNothing

LEMMA ClusterWriteTyped ==
    ASSUME ClusterTyped, NEW new \in ClusterObject, WriteCluster(new)
    PROVE  cluster' \in ClusterObject
BY DEF ClusterTyped, WriteCluster, ClusterObject

\* One part after the other: a copy of the cluster and the pass over it.
LEMMA ClusterStepTyped ==
    ASSUME TypeOK, Progress, [Next]_vars
    PROVE  ClusterTyped'
<1> USE TypeParts
<1>1. CASE UNCHANGED <<cluster, cache, cpass>>
  BY <1>1 DEF ClusterTyped
<1>2. CASE ClusterEvent
  BY <1>2 DEF ClusterTyped, ClusterEvent
<1>3. CASE Edit
  <2>1. PICK s \in Specs : WriteCluster([cluster EXCEPT !.spec = s])
    BY <1>3 DEF Edit
  <2>2. [cluster EXCEPT !.spec = s] \in ClusterObject
    BY DEF ClusterTyped, ClusterObject
  <2> QED BY <1>3, <2>1, <2>2, ClusterWriteTyped DEF ClusterTyped, Edit
<1>4. CASE Restart
  BY <1>4 DEF ClusterTyped, Restart
<1>5. CASE ReconcileCluster
  <2> DEFINE p == [pc |-> "groups", base |-> cache, groups |-> cache.groups, ready |-> cache.ready,
                   terminal |-> FALSE, todo |-> InList(Listed(cache.spec))]
  <2>1. p \in RunningPass /\ p.groups = p.base.groups
    BY NamesTypes DEF ClusterTyped, RunningPass, ClusterObject
  <2>2. \/ cpass' = IF p.todo = {} THEN deleteStaleSecurityGroups(p) ELSE p
        \/ \E terminal \in BOOLEAN : cpass' = handleClusterError(p, terminal)
    BY <1>5 DEF ReconcileCluster
  <2> HIDE DEF p
  <2>3. cpass' \in RunningPass
    BY <2>1, <2>2, StaleFound, ErrorDone
  <2> QED BY <1>5, <2>3 DEF ClusterTyped, ReconcileCluster
<1>6. ASSUME NEW g, reconcileSecurityGroupSection(g) \/ DeleteStale(g)
      PROVE  ClusterTyped'
  <2> DEFINE p == [cpass EXCEPT !.todo = @ \ {g}]
  <2>1. cpass \in RunningPass /\ cpass.groups = cpass.base.groups
    BY <1>6, PassType DEF reconcileSecurityGroupSection, DeleteStale, Progress
  <2>2. p \in RunningPass /\ p.groups = p.base.groups
    BY <2>1 DEF RunningPass
  <2>3. cpass' \in {p, deleteStaleSecurityGroups(p), ToList(p)} /\ UNCHANGED <<cluster, cache>>
    BY <1>6 DEF reconcileSecurityGroupSection, DeleteStale
  <2>4. cpass' \in RunningPass
    BY <2>2, <2>3, StaleFound, ToListDone
  <2> QED BY <2>3, <2>4 DEF ClusterTyped
<1>7. ASSUME NEW g, GroupCallFails(g) \/ ListFails
      PROVE  ClusterTyped'
  <2>1. cpass \in RunningPass
    BY <1>7, PassType DEF GroupCallFails, ListFails
  <2>2. UNCHANGED <<cluster, cache>> /\ \E terminal \in BOOLEAN : cpass' = handleClusterError(cpass, terminal)
    BY <1>7 DEF GroupCallFails, ListFails
  <2> QED BY <2>1, <2>2, ErrorDone DEF ClusterTyped
<1>8. CASE ListMachines
  <2>1. cpass \in RunningPass
    BY <1>8, PassType DEF ListMachines
  <2> DEFINE told == {m \in Machines : cached[m].hasID}
  <2>2. [cpass EXCEPT !.pc = "announce", !.todo = told] \in RunningPass
    <3>1. told \in SUBSET (Names \cup Machines) OBVIOUS
    <3> HIDE DEF told
    <3> QED BY <2>1, <3>1 DEF RunningPass
  <2>3. cpass' \in {ToPatch(cpass, TRUE), [cpass EXCEPT !.pc = "announce", !.todo = told]}
    BY <1>8 DEF ListMachines
  <2>4. cpass' \in RunningPass
    BY <2>1, <2>2, <2>3, ToPatchDone
  <2> QED BY <1>8, <2>4 DEF ClusterTyped, ListMachines
<1>9. ASSUME NEW m, reconcileClusterSecurityGroupsOnVMs(m)
      PROVE  ClusterTyped'
  <2> DEFINE p == [cpass EXCEPT !.todo = @ \ {m}]
  <2>1. cpass \in RunningPass
    BY <1>9, PassType DEF reconcileClusterSecurityGroupsOnVMs
  <2>2. p \in RunningPass
    BY <2>1 DEF RunningPass
  <2>3. cpass' \in {p, ToPatch(p, TRUE)} /\ UNCHANGED <<cluster, cache>>
    BY <1>9 DEF reconcileClusterSecurityGroupsOnVMs
  <2>4. cpass' \in RunningPass
    BY <2>2, <2>3, ToPatchDone
  <2> QED BY <2>3, <2>4 DEF ClusterTyped
<1>10. CASE Patch
  <2>1. cpass \in RunningPass
    BY <1>10, PassType DEF Patch
  <2> DEFINE new == [cluster EXCEPT !.groups = IF cpass.groups = cpass.base.groups THEN @ ELSE cpass.groups,
                                    !.ready = IF cpass.ready = cpass.base.ready THEN @ ELSE cpass.ready]
  <2>2. new \in ClusterObject
    BY <2>1 DEF ClusterTyped, ClusterObject, RunningPass
  <2>3. UNCHANGED cluster \/ WriteCluster(new)
    BY <1>10 DEF Patch
  <2> QED BY <1>10, <2>2, <2>3, ClusterWriteTyped DEF ClusterTyped, Patch
<1>11. ASSUME NEW m \in Machines, machineToCluster(m) \/ MachinePass(m)
       PROVE  UNCHANGED <<cluster, cache, cpass>>
  BY <1>11 DEF machineToCluster, MachinePass, ReconcileMachine, buildNetworking, reconcileVMSecurityGroups,
               RequestRefused, VMCallFails, HandleCloudError, UpdateStatus, cvars
<1>12. UNCHANGED vars => UNCHANGED <<cluster, cache, cpass>>
  BY DEF vars, cvars
<1> QED BY <1>1, <1>2, <1>3, <1>4, <1>5, <1>6, <1>7, <1>8, <1>9, <1>10, <1>11, <1>12 DEF Next, ClusterPass

\* Writes of machines.
LEMMA ObjectsStepTyped ==
    ASSUME TypeOK, [Next]_vars
    PROVE  ObjectsTyped' /\ CopiesTyped'
<1> USE TypeParts
<1>1. CASE UNCHANGED mvars
  BY <1>1 DEF mvars, ObjectsTyped, CopiesTyped
<1>2. CASE Restart
  BY <1>2 DEF Restart, ObjectsTyped, CopiesTyped
<1>3. CASE ListMachines
  BY <1>3 DEF ListMachines, ObjectsTyped, CopiesTyped
<1>4. ASSUME NEW m, reconcileClusterSecurityGroupsOnVMs(m)
      PROVE  ObjectsTyped' /\ CopiesTyped'
  <2>1. cpass \in RunningPass /\ m \in cpass.todo
    BY <1>4, PassType DEF reconcileClusterSecurityGroupsOnVMs
  <2>2. CASE WritesNothing(m, "list")
    BY <1>4, <2>2 DEF reconcileClusterSecurityGroupsOnVMs, WritesNothing, ObjectsTyped, CopiesTyped
  <2>3. CASE m \in Machines
    <3>1. [machine[m] EXCEPT !.synced = Annotation(m)] \in MachineObject
      BY <2>1, <2>3 DEF Annotation, RunningPass, ClusterObject, ObjectsTyped, MachineObject
    <3> QED BY <1>4, <2>3, <3>1, WritesTyped DEF reconcileClusterSecurityGroupsOnVMs, ObjectsTyped, CopiesTyped
  <2>4. CASE m \notin Machines
    BY <1>4, <2>4 DEF reconcileClusterSecurityGroupsOnVMs, WriteMachine, WritesNothing, ObjectsTyped, CopiesTyped
  <2> QED BY <2>3, <2>4
<1>5. ASSUME NEW m \in Machines, machineToCluster(m) \/ ReconcileMachine(m) \/ reconcileVMSecurityGroups(m)
      PROVE  ObjectsTyped' /\ CopiesTyped'
  BY <1>5 DEF machineToCluster, ReconcileMachine, reconcileVMSecurityGroups, ObjectsTyped, CopiesTyped
<1>6. ASSUME NEW m \in Machines, buildNetworking(m)
      PROVE  ObjectsTyped' /\ CopiesTyped'
  BY <1>6 DEF buildNetworking, WritesNothing, ObjectsTyped, CopiesTyped
<1>7. ASSUME NEW m \in Machines, NEW terminal \in BOOLEAN, HandleCloudError(m, terminal)
      PROVE  ObjectsTyped' /\ CopiesTyped'
  <2>1. [machine[m] EXCEPT !.ready = FALSE] \in MachineObject
    BY DEF ObjectsTyped, MachineObject
  <2>2. mqueued' \subseteq Machines /\ cached' = cached
    BY <1>7 DEF HandleCloudError, CopiesTyped
  <2> QED BY <1>7, <2>1, <2>2, WritesTyped DEF HandleCloudError, ObjectsTyped, CopiesTyped
<1>8. ASSUME NEW m \in Machines, UpdateStatus(m)
      PROVE  ObjectsTyped' /\ CopiesTyped'
  <2>1. [machine[m] EXCEPT !.hasID = TRUE, !.ready = TRUE] \in MachineObject
    BY DEF ObjectsTyped, MachineObject
  <2>2. mqueued' \subseteq Machines /\ cached' = cached
    BY <1>8 DEF UpdateStatus, CopiesTyped
  <2> QED BY <1>8, <2>1, <2>2, WritesTyped DEF UpdateStatus, ObjectsTyped, CopiesTyped
<1>9. CASE ClusterEvent \/ Edit \/ ReconcileCluster \/ ListFails \/ Patch \/ UNCHANGED vars
  BY <1>1, <1>9 DEF ClusterEvent, Edit, ReconcileCluster, ListFails, Patch, vars
<1>10. ASSUME NEW g, reconcileSecurityGroupSection(g) \/ DeleteStale(g) \/ GroupCallFails(g)
       PROVE  UNCHANGED mvars
  BY <1>10 DEF reconcileSecurityGroupSection, DeleteStale, GroupCallFails
<1>11. ASSUME NEW m \in Machines, RequestRefused(m) \/ VMCallFails(m)
       PROVE  ObjectsTyped' /\ CopiesTyped'
  BY <1>7, <1>11 DEF RequestRefused, VMCallFails
<1> QED BY <1>1, <1>2, <1>3, <1>4, <1>5, <1>6, <1>8, <1>9, <1>10, <1>11 DEF Next, ClusterPass, MachinePass

\* Passes of machines, and the cloud.
LEMMA CloudStepTyped ==
    ASSUME TypeOK, [Next]_vars
    PROVE  PassesTyped' /\ CloudTyped'
<1> USE TypeParts
<1>1. CASE UNCHANGED <<mpass, exists, up, vm>>
  BY <1>1 DEF PassesTyped, CloudTyped
<1>2. CASE Restart
  BY <1>2 DEF Restart, PassesTyped, PassOfMachine, CloudTyped, vms
<1>3. ASSUME NEW g, reconcileSecurityGroupSection(g) \/ DeleteStale(g) \/ GroupCallFails(g)
      PROVE  PassesTyped' /\ CloudTyped'
  BY <1>3 DEF reconcileSecurityGroupSection, DeleteStale, GroupCallFails, PassesTyped, CloudTyped, mvars, vms
<1>4. ASSUME NEW m \in Machines, ReconcileMachine(m)
      PROVE  PassesTyped' /\ CloudTyped'
  <2>1. [pc |-> "vm", view |-> cache.groups, hasID |-> cached[m].hasID] \in PassOfMachine
    BY DEF PassOfMachine, ClusterTyped, ClusterObject, ObjectsTyped, MachineObject
  <2> QED BY <1>4, <2>1 DEF ReconcileMachine, PassesTyped, CloudTyped, vms
<1>5. ASSUME NEW m \in Machines, buildNetworking(m) \/ reconcileVMSecurityGroups(m)
      PROVE  PassesTyped' /\ CloudTyped'
  <2>1. Desired(m) \subseteq Names /\ NoPass \in PassOfMachine /\ [pc |-> "status"] \in PassOfMachine
    BY NamesTypes DEF Desired, PassOfMachine
  <2> QED BY <1>5, <2>1 DEF buildNetworking, reconcileVMSecurityGroups, EndPass, Goto, PassesTyped, CloudTyped
<1>7. ASSUME NEW m \in Machines, RequestRefused(m) \/ VMCallFails(m) \/ UpdateStatus(m)
      PROVE  PassesTyped' /\ CloudTyped'
  <2>1. EndPass(m) /\ UNCHANGED exists
    BY <1>7 DEF RequestRefused, VMCallFails, HandleCloudError, UpdateStatus
  <2>2. UNCHANGED vms \/ (up' = up \cup {m} /\ vm' = [vm EXCEPT ![m] = Desired(m)])
    BY <1>7 DEF RequestRefused, VMCallFails, UpdateStatus
  <2>3. Desired(m) \subseteq Names /\ NoPass \in PassOfMachine
    BY NamesTypes DEF Desired, PassOfMachine
  <2>4. PassesTyped'
    BY <2>1, <2>3 DEF EndPass, PassesTyped
  <2>5. CloudTyped'
    BY <2>1, <2>2, <2>3 DEF CloudTyped, vms
  <2> QED BY <2>4, <2>5
<1>8. ASSUME NEW m, reconcileClusterSecurityGroupsOnVMs(m) \/ machineToCluster(m)
      PROVE  UNCHANGED <<mpass, exists, up, vm>>
  BY <1>8 DEF reconcileClusterSecurityGroupsOnVMs, machineToCluster, vms
<1>9. CASE ClusterEvent \/ Edit \/ ReconcileCluster \/ ListMachines \/ ListFails \/ Patch \/ UNCHANGED vars
  BY <1>1, <1>9 DEF ClusterEvent, Edit, ReconcileCluster, ListMachines, ListFails, Patch, vars, mvars, vms
<1> QED BY <1>1, <1>2, <1>3, <1>4, <1>5, <1>7, <1>8, <1>9 DEF Next, ClusterPass, MachinePass

LEMMA FaultTyped ==
    ASSUME TypeOK
    PROVE  /\ Fault => failures' \in Nat /\ failures' # 0
           /\ UNCHANGED failures => failures' \in Nat
BY DEF TypeOK, Fault

LEMMA HistoryStepTyped ==
    ASSUME TypeOK, [Next]_vars
    PROVE  HistoryTyped' /\ FlagsTyped'
<1> USE TypeParts
<1> DEFINE MarksTyped == /\ untold \subseteq Machines /\ dropped \subseteq Machines /\ rejected \subseteq Machines
                         /\ abandoned \in {"no", "reported", "unreported"}
<1>0. MarksTyped
  BY DEF HistoryTyped
<1>1. failures' \in Nat /\ edits' \in Nat
  <2>1. ASSUME NEW m, reconcileClusterSecurityGroupsOnVMs(m) \/ machineToCluster(m) \/ MachinePass(m)
        PROVE  failures' \in Nat /\ edits' \in Nat
    <3>1. CASE machineToCluster(m) \/ reconcileClusterSecurityGroupsOnVMs(m)
      BY <3>1, FaultTyped DEF HistoryTyped, machineToCluster, reconcileClusterSecurityGroupsOnVMs, bounds
    <3>2. CASE ReconcileMachine(m) \/ buildNetworking(m) \/ reconcileVMSecurityGroups(m)
      BY <3>2, FaultTyped DEF HistoryTyped, ReconcileMachine, buildNetworking, reconcileVMSecurityGroups, bounds
    <3>3. CASE RequestRefused(m) \/ VMCallFails(m) \/ UpdateStatus(m)
      BY <3>3, FaultTyped DEF HistoryTyped, RequestRefused, VMCallFails, HandleCloudError, UpdateStatus
    <3> QED BY <2>1, <3>1, <3>2, <3>3 DEF MachinePass
  <2>2. ASSUME NEW g, reconcileSecurityGroupSection(g) \/ DeleteStale(g) \/ GroupCallFails(g)
        PROVE  failures' \in Nat /\ edits' \in Nat
    BY <2>2, FaultTyped DEF HistoryTyped, reconcileSecurityGroupSection, DeleteStale, GroupCallFails, bounds
  <2>3. CASE \/ Edit \/ Restart \/ ClusterEvent \/ ReconcileCluster \/ ListMachines \/ ListFails \/ Patch
             \/ UNCHANGED vars
    <3>1. CASE Edit
      BY <3>1, FaultTyped DEF HistoryTyped, Edit
    <3>2. CASE Restart \/ ReconcileCluster \/ ListFails \/ Patch
      BY <3>2, FaultTyped DEF HistoryTyped, Restart, ReconcileCluster, ListFails, Patch
    <3>3. CASE ClusterEvent \/ ListMachines \/ UNCHANGED vars
      BY <3>3, FaultTyped DEF HistoryTyped, ClusterEvent, ListMachines, vars, bounds
    <3> QED BY <2>3, <3>1, <3>2, <3>3
  <2> QED BY <2>1, <2>2, <2>3 DEF Next, ClusterPass
<1>2. MarksTyped'
  <2>1. ASSUME NEW m \in Machines, machineToCluster(m) \/ MachinePass(m)
        PROVE  MarksTyped'
    <3>1. CASE machineToCluster(m) \/ ReconcileMachine(m) \/ buildNetworking(m)
               \/ reconcileVMSecurityGroups(m) \/ UpdateStatus(m)
      BY <1>0, <3>1 DEF machineToCluster, ReconcileMachine, buildNetworking, reconcileVMSecurityGroups,
                  UpdateStatus, history
    <3>2. CASE RequestRefused(m) \/ VMCallFails(m)
      BY <1>0, <3>2 DEF RequestRefused, VMCallFails, HandleCloudError
    <3> QED BY <2>1, <3>1, <3>2 DEF MachinePass
  <2>2. ASSUME NEW m \in Machines, reconcileClusterSecurityGroupsOnVMs(m)
        PROVE  MarksTyped'
    BY <1>0, <2>2 DEF reconcileClusterSecurityGroupsOnVMs, history
  <2>3. ASSUME NEW g, reconcileSecurityGroupSection(g) \/ DeleteStale(g) \/ GroupCallFails(g)
        PROVE  MarksTyped'
    BY <1>0, <2>3 DEF reconcileSecurityGroupSection, DeleteStale, GroupCallFails, history
  <2>4. CASE Edit \/ Restart \/ ClusterEvent \/ ReconcileCluster \/ ListMachines \/ ListFails \/ UNCHANGED vars
    BY <1>0, <2>4 DEF Edit, Restart, ClusterEvent, ReconcileCluster, ListMachines, ListFails, vars, history
  <2>5. CASE Patch
    BY <1>0, <2>5 DEF Patch, Abandoned
  <2> QED BY <2>1, <2>2, <2>3, <2>4, <2>5 DEF Next, ClusterPass
<1>3. FlagsTyped'
  <2>1. ASSUME NEW m, reconcileClusterSecurityGroupsOnVMs(m) \/ machineToCluster(m) \/ MachinePass(m)
        PROVE  FlagsTyped'
    BY <2>1, Zenon
       DEF FlagsTyped, machineToCluster, reconcileClusterSecurityGroupsOnVMs, MachinePass, ReconcileMachine, buildNetworking,
           reconcileVMSecurityGroups, RequestRefused, VMCallFails, HandleCloudError, UpdateStatus, cvars, history
  <2>2. ASSUME NEW g, reconcileSecurityGroupSection(g) \/ DeleteStale(g) \/ GroupCallFails(g)
        PROVE  FlagsTyped'
    BY <2>2, Zenon DEF FlagsTyped, reconcileSecurityGroupSection, DeleteStale, GroupCallFails, history
  <2>3. CASE Edit \/ Restart \/ ClusterEvent \/ ListMachines \/ ListFails \/ UNCHANGED vars
    BY <2>3, Zenon DEF FlagsTyped, Edit, Restart, ClusterEvent, ListMachines, ListFails, vars, cvars, history
  <2>4. CASE ReconcileCluster \/ Patch
    BY <2>4 DEF FlagsTyped, ReconcileCluster, Patch, history
  <2> QED BY <2>1, <2>2, <2>3, <2>4 DEF Next, ClusterPass
<1> QED BY <1>1, <1>2, <1>3 DEF HistoryTyped

LEMMA InitIsTyped == Init => TypeOK
<1> SUFFICES ASSUME Init PROVE TypeOK
  OBVIOUS
<1>1. PICK s \in Specs : cluster = [spec |-> s, groups |-> Listed(s), ready |-> TRUE, version |-> 0]
  BY SGSyncAssumption DEF Init
<1>2. ClusterTyped
  BY <1>1, ListedType DEF Init, ClusterTyped, ClusterObject
<1>3. ObjectsTyped /\ CopiesTyped
  BY DEF Init, ObjectsTyped, CopiesTyped, MachineObject
<1>4. PassesTyped /\ CloudTyped
  BY NamesTypes DEF Init, PassesTyped, PassOfMachine, CloudTyped
<1>5. HistoryTyped /\ FlagsTyped
  BY DEF Init, HistoryTyped, FlagsTyped
<1> QED BY <1>2, <1>3, <1>4, <1>5, TypeParts

-----------------------------------------------------------------------------
(* What the cluster controller relies on *)

\* A pass and the groups, where it has come to.
LEMMA Facts ==
    ASSUME IInv
    PROVE  /\ TypeOK /\ CopiesLag /\ Progress /\ Settled /\ Accounted
           /\ cluster \in ClusterObject /\ cache \in ClusterObject
           /\ cpass.pc # "idle" => cpass \in RunningPass /\ cpass.base \in ClusterObject
BY PassType DEF IInv, TypeOK, RunningPass

Kept == CopiesLag /\ Progress /\ Settled /\ Accounted

LEMMA InitIsKept == Init => IInv
<1> SUFFICES ASSUME Init PROVE IInv
  OBVIOUS
<1>1. PICK s \in Specs : cluster = [spec |-> s, groups |-> Listed(s), ready |-> TRUE, version |-> 0]
  BY SGSyncAssumption DEF Init
<1>2. /\ cpass.pc = "idle" /\ cache = cluster /\ exists = Managed(cluster.groups) /\ cluster.groups = Listed(cluster.spec)
      /\ cluster.version = 0 /\ abandoned = "no"
  BY <1>1 DEF Init, NoPass
<1>3. CopiesLag
  BY <1>2 DEF CopiesLag, Lags
<1>4. Progress
  BY <1>2 DEF Progress
<1>5. Settled /\ Accounted
  BY <1>2 DEF Settled, ClusterQuiet, Accounted, Asked
<1> QED BY <1>3, <1>4, <1>5, InitIsTyped DEF IInv

\* Steps of machines, and events that queue the cluster.
LEMMA OthersKeep ==
    ASSUME IInv, UNCHANGED <<cluster, cache, cpass, exists, abandoned, outdated>>, cqueued => cqueued',
           failures' = 0 => failures = 0
    PROVE  Kept'
BY Facts DEF Kept, CopiesLag, Lags, Progress, Settled, ClusterQuiet, Accounted, Asked

\* A new version that the cache has not.
LEMMA WriteIsNew ==
    ASSUME IInv, NEW new \in ClusterObject, WriteCluster(new), UNCHANGED cache
    PROVE  Lags(cache, cluster)' /\ (cluster' = cluster \/ cache' # cluster')
<1>1. cluster.version \in Nat /\ cache.version \in Nat /\ Lags(cache, cluster)
  BY Facts DEF ClusterObject, CopiesLag
<1>2. cluster' = cluster \/ cluster'.version = cluster.version + 1
  BY DEF WriteCluster, ClusterObject
<1> QED BY <1>1, <1>2 DEF Lags

LEMMA EditKeeps ==
    ASSUME IInv, Edit
    PROVE  Kept'
<1>1. PICK s \in Specs \ {cluster.spec} : WriteCluster([cluster EXCEPT !.spec = s])
  BY DEF Edit
<1>2. [cluster EXCEPT !.spec = s] \in ClusterObject /\ [cluster EXCEPT !.spec = s] # cluster
  BY Facts DEF ClusterObject
<1>3. UNCHANGED <<cache, cqueued, cpass, exists, abandoned, outdated, failures>>
  BY DEF Edit, history
<1>4. Lags(cache, cluster)' /\ cache' # cluster'
  <2>1. cluster'.version = cluster.version + 1 /\ cluster.version \in Nat
    BY <1>1, <1>2, Facts DEF WriteCluster, ClusterObject
  <2> QED BY <1>1, <1>2, <1>3, <2>1, WriteIsNew
<1>5. cluster'.groups = cluster.groups
  BY <1>1, <1>2, Facts DEF WriteCluster, ClusterObject
<1> QED BY <1>3, <1>4, <1>5, Facts DEF Kept, CopiesLag, Progress, Settled, ClusterQuiet, Accounted, Asked, Lags

LEMMA EventKeeps ==
    ASSUME IInv, ClusterEvent
    PROVE  Kept'
<1>1. UNCHANGED <<cluster, cpass, exists, abandoned, outdated, failures>> /\ cache' = cluster /\ cqueued' = TRUE
  BY DEF ClusterEvent, history, bounds
<1>2. (cpass.pc # "idle" => Lags(cpass.base, cluster)) /\ Lags(cluster, cluster)
  BY Facts DEF CopiesLag, Lags, ClusterObject
<1>3. CopiesLag'
  BY <1>1, <1>2 DEF CopiesLag, Lags
<1>4. Progress' /\ Settled' /\ Accounted'
  BY <1>1, Facts DEF Progress, Settled, ClusterQuiet, Accounted, Asked
<1> QED BY <1>3, <1>4 DEF Kept

LEMMA RestartKeeps ==
    ASSUME IInv, Restart
    PROVE  Kept'
<1>1. cache' = cluster' /\ cqueued' = TRUE /\ cpass'.pc = "idle" /\ failures' # 0 /\ cluster'.version \in Nat
  BY Facts, FaultTyped DEF Restart, NoPass, ClusterObject
<1> QED BY <1>1 DEF Kept, CopiesLag, Progress, Settled, ClusterQuiet, Accounted, Lags

LEMMA BeginKeeps ==
    ASSUME IInv, ReconcileCluster
    PROVE  Kept'
<1> DEFINE p == [pc |-> "groups", base |-> cache, groups |-> cache.groups, ready |-> cache.ready,
                 terminal |-> FALSE, todo |-> InList(Listed(cache.spec))]
<1>1. p \in RunningPass /\ p.groups = p.base.groups /\ ~p.terminal
  BY Facts, NamesTypes DEF RunningPass, ClusterObject
<1>2. /\ cpass.pc = "idle" /\ UNCHANGED <<cluster, cache, exists>>
      /\ outdated' = (outdated \/ cache.groups # cluster.groups) /\ abandoned' = "no"
      /\ \/ cpass' = (IF p.todo = {} THEN deleteStaleSecurityGroups(p) ELSE p) /\ UNCHANGED failures
         \/ Fault /\ \E terminal \in BOOLEAN : cpass' = handleClusterError(p, terminal)
  BY DEF ReconcileCluster
<1>3. cpass'.base = cache /\ cpass'.pc # "idle" /\ Lags(cache, cache) /\ Lags(cache, cluster)
  <2>0. p.pc # "idle" OBVIOUS
  <2> HIDE DEF p
  <2>1. cpass'.base = p.base /\ cpass'.pc # "idle"
    BY <1>1, <1>2, <2>0, StaleFound, ErrorDone
  <2>2. p.base = cache BY DEF p
  <2> QED BY <2>1, <2>2, Facts DEF CopiesLag, Lags, ClusterObject
<1>4. CopiesLag'
  BY <1>2, <1>3 DEF CopiesLag, Lags
<1>5. Settled'
  BY <1>3 DEF Settled, ClusterQuiet
<1>6. ~outdated' => ~outdated /\ cache.groups = cluster.groups
  BY <1>2
<1>7. CASE p.todo = {} /\ cpass' = deleteStaleSecurityGroups(p) /\ UNCHANGED failures
  <2>1. Asked(cache) = {} /\ cpass' = deleteStaleSecurityGroups(p)
    BY <1>7, NamesTypes DEF Asked
  <2>2. Progress'
    BY <1>1, <2>1, StaleFound DEF Progress, Asked
  <2>3. ASSUME failures' = 0, ~outdated'
        PROVE  /\ cpass'.base.groups = cluster'.groups
               /\ cpass'.pc = "stale" => exists' \subseteq Asked(cpass'.base) \cup cpass'.todo
               /\ cpass'.pc \in {"list", "patch"} => exists' \subseteq Asked(cpass'.base)
               /\ cpass'.pc \in {"stale", "list", "patch"} /\ (cpass'.pc = "patch" => cpass'.ready)
    <3>1. exists \subseteq Managed(cache.groups)
      BY <1>2, <1>6, <1>7, <2>3, Facts DEF Accounted
    <3>2. \/ /\ cpass'.pc \in {"list", "patch"} /\ (cpass'.pc = "patch" => cpass'.ready)
             /\ Managed(cache.groups) \subseteq Asked(cache)
          \/ cpass'.pc = "stale" /\ cpass'.todo = Managed(cache.groups) \ Asked(cache)
      BY <1>1, <2>1, StaleFound
    <3> QED BY <1>2, <1>3, <1>6, <2>3, <3>1, <3>2
  <2>4. Accounted'
    BY <1>2, <2>3 DEF Accounted, Asked
  <2> QED BY <1>4, <1>5, <2>2, <2>4 DEF Kept
<1>8. CASE p.todo # {} /\ cpass' = p /\ UNCHANGED failures
  <2>1. p.todo \subseteq Names /\ Asked(cache) \subseteq p.todo
    BY NamesTypes DEF Asked
  <2>2. Progress'
    BY <1>8, <2>1 DEF Progress, Asked
  <2>3. Accounted'
    BY <1>2, <1>6, <1>8, Facts DEF Accounted, Asked
  <2> QED BY <1>4, <1>5, <2>2, <2>3 DEF Kept
<1>9. CASE Fault /\ \E terminal \in BOOLEAN : cpass' = handleClusterError(p, terminal)
  <2>1. failures' # 0
    BY <1>9, Facts, FaultTyped
  <2>2. cpass'.pc = "patch" /\ ~cpass'.ready
    BY <1>1, <1>9, ErrorDone
  <2> QED BY <1>4, <1>5, <2>1, <2>2 DEF Kept, Progress, Accounted
<1> QED BY <1>2, <1>7, <1>8, <1>9

\* A call that leaves copies and list alone leaves to prove what the pass has
\* done.
LEMMA RunningKeeps ==
    ASSUME IInv, UNCHANGED <<cluster, cache, cqueued, abandoned, outdated>>, failures' = 0 => failures = 0,
           cpass.pc # "idle", cpass'.pc # "idle", cpass'.base = cpass.base
    PROVE  /\ CopiesLag' /\ Settled'
           /\ failures' = 0 /\ ~outdated' => cpass'.base.groups = cluster'.groups /\ abandoned' = "no"
BY Facts DEF CopiesLag, Lags, Settled, ClusterQuiet, Accounted

LEMMA CreateKeeps ==
    ASSUME IInv, NEW g, reconcileSecurityGroupSection(g)
    PROVE  Kept'
<1> DEFINE p == [cpass EXCEPT !.todo = @ \ {g}]
           w == Asked(cpass.base)
<1>1. /\ cpass.pc = "groups" /\ g \in cpass.todo /\ exists' = exists \cup ({g} \cap Inline)
      /\ cpass' = IF p.todo = {} THEN deleteStaleSecurityGroups(p) ELSE p
      /\ UNCHANGED <<cluster, cache, cqueued, abandoned, outdated, failures>>
  BY DEF reconcileSecurityGroupSection, history, bounds
<1>2. /\ cpass \in RunningPass /\ cpass.groups = cpass.base.groups /\ ~cpass.terminal
      /\ cpass.todo \subseteq Names /\ w \ cpass.todo \subseteq exists /\ w \subseteq Inline
  BY <1>1, Facts, NamesTypes DEF Progress, Asked
<1>0. {g} \cap Inline \subseteq w
  <2>1. <<g, FirstSection>> \in Listed(cpass.base.spec) /\ Listed(cpass.base.spec) \in Lists
    BY <1>2, ListedType DEF reconcileSecurityGroupSection, IsNext, RunningPass, ClusterObject
  <2>2. FirstSection \in Sections
    BY <2>1 DEF Lists
  <2> QED BY <2>1, <2>2 DEF Asked, Managed
<1>3. /\ p \in RunningPass /\ p.groups = p.base.groups /\ p.base = cpass.base /\ p.pc = "groups"
      /\ p.todo = cpass.todo \ {g} /\ p.terminal = cpass.terminal
  BY <1>1, <1>2 DEF RunningPass
<1>4. w \ p.todo \subseteq exists' /\ p.todo \subseteq Names
  BY <1>1, <1>2, <1>3
<1>5. ASSUME failures = 0, ~outdated
      PROVE  exists' \subseteq Managed(cpass.base.groups) \cup w
  BY <1>0, <1>1, <1>5, Facts DEF Accounted
<1>6. CASE p.todo = {}
  <2>1. /\ cpass'.base = cpass.base /\ ~cpass'.terminal
        /\ \/ /\ cpass'.pc \in {"list", "patch"} /\ (cpass'.pc = "patch" => cpass'.ready)
              /\ cpass'.groups = Listed(cpass.base.spec) /\ Managed(cpass.base.groups) \subseteq w
           \/ /\ cpass'.pc = "stale" /\ cpass'.groups = cpass.base.groups
              /\ cpass'.todo = Managed(cpass.base.groups) \ w
    BY <1>1, <1>2, <1>3, <1>6, StaleFound
  <2>2. CopiesLag' /\ Settled' /\ (failures' = 0 /\ ~outdated' => cpass'.base.groups = cluster'.groups /\ abandoned' = "no")
    BY <1>1, <2>1, RunningKeeps
  <2>3. w \subseteq exists'
    BY <1>4, <1>6
  <2>4. Progress'
    BY <2>1, <2>3 DEF Progress, Asked
  <2>5. failures' = 0 /\ ~outdated' =>
          /\ cpass'.pc \in {"list", "patch"} => exists' \subseteq w
          /\ cpass'.pc = "stale" => exists' \subseteq w \cup cpass'.todo
    BY <1>1, <1>5, <2>1
  <2>6. Accounted'
    BY <2>1, <2>2, <2>5 DEF Accounted, Asked
  <2> QED BY <2>2, <2>4, <2>6 DEF Kept
<1>7. CASE p.todo # {}
  <2>1. cpass' = p
    BY <1>1, <1>7
  <2>2. CopiesLag' /\ Settled' /\ (failures' = 0 /\ ~outdated' => cpass'.base.groups = cluster'.groups /\ abandoned' = "no")
    BY <1>1, <1>3, <2>1, RunningKeeps
  <2>3. Progress'
    BY <1>2, <1>3, <1>4, <2>1 DEF Progress, Asked
  <2>4. Accounted'
    BY <1>1, <1>3, <1>5, <2>1, <2>2 DEF Accounted, Asked
  <2> QED BY <2>2, <2>3, <2>4 DEF Kept
<1> QED BY <1>6, <1>7

LEMMA DeleteKeeps ==
    ASSUME IInv, NEW g, DeleteStale(g)
    PROVE  Kept'
<1> DEFINE p == [cpass EXCEPT !.todo = @ \ {g}]
           w == Asked(cpass.base)
<1>1. /\ cpass.pc = "stale" /\ g \in cpass.todo /\ exists' = exists \ {g}
      /\ cpass' = IF p.todo = {} THEN ToList(p) ELSE p
      /\ UNCHANGED <<cluster, cache, cqueued, abandoned, outdated, failures>>
  BY DEF DeleteStale, history, bounds
<1>2. /\ cpass \in RunningPass /\ cpass.groups = cpass.base.groups /\ cpass.todo \cap w = {} /\ w \subseteq exists
      /\ ~cpass.terminal
  BY <1>1, Facts DEF Progress
<1>3. /\ p \in RunningPass /\ p.groups = p.base.groups /\ p.base = cpass.base /\ p.pc = "stale"
      /\ p.todo = cpass.todo \ {g} /\ p.terminal = cpass.terminal
  BY <1>1, <1>2 DEF RunningPass
<1>4. w \subseteq exists' /\ p.todo \cap w = {}
  BY <1>1, <1>2, <1>3
<1>5. ASSUME failures = 0, ~outdated
      PROVE  exists' \subseteq w \cup p.todo
  BY <1>1, <1>3, <1>5, Facts DEF Accounted
<1>6. CASE p.todo = {}
  <2>1. /\ cpass'.base = cpass.base /\ cpass'.pc \in {"list", "patch"} /\ (cpass'.pc = "patch" => cpass'.ready)
        /\ cpass'.groups = Listed(cpass.base.spec) /\ ~cpass'.terminal
    BY <1>1, <1>2, <1>3, <1>6, ToListDone
  <2>2. CopiesLag' /\ Settled' /\ (failures' = 0 /\ ~outdated' => cpass'.base.groups = cluster'.groups /\ abandoned' = "no")
    BY <1>1, <2>1, RunningKeeps
  <2>3. Progress'
    BY <1>4, <2>1 DEF Progress, Asked
  <2>4. failures' = 0 /\ ~outdated' => exists' \subseteq w
    BY <1>1, <1>5, <1>6
  <2>5. Accounted'
    BY <2>1, <2>2, <2>4 DEF Accounted, Asked
  <2> QED BY <2>2, <2>3, <2>5 DEF Kept
<1>7. CASE p.todo # {}
  <2>1. cpass' = p
    BY <1>1, <1>7
  <2>2. CopiesLag' /\ Settled' /\ (failures' = 0 /\ ~outdated' => cpass'.base.groups = cluster'.groups /\ abandoned' = "no")
    BY <1>1, <1>3, <2>1, RunningKeeps
  <2>3. Progress'
    BY <1>2, <1>3, <1>4, <2>1 DEF Progress, Asked
  <2>4. Accounted'
    BY <1>1, <1>3, <1>5, <2>1, <2>2 DEF Accounted, Asked
  <2> QED BY <2>2, <2>3, <2>4 DEF Kept
<1> QED BY <1>6, <1>7

LEMMA FailureKeeps ==
    ASSUME IInv, NEW g, GroupCallFails(g) \/ ListFails
    PROVE  Kept'
<1>1. /\ cpass.pc # "idle" /\ failures' # 0 /\ UNCHANGED <<cluster, cache, cqueued, abandoned, outdated>>
      /\ \E terminal \in BOOLEAN : cpass' = handleClusterError(cpass, terminal)
  BY Facts, FaultTyped DEF GroupCallFails, ListFails, history
<1>2. cpass'.pc = "patch" /\ cpass'.base = cpass.base /\ ~cpass'.ready
  BY <1>1, Facts, ErrorDone
<1>3. CopiesLag' /\ Settled'
  BY <1>1, <1>2, RunningKeeps
<1> QED BY <1>1, <1>2, <1>3 DEF Kept, Progress, Accounted

\* The machines are listed and told; the pass has the new list.
LEMMA TellingKeeps ==
    ASSUME IInv, cpass.pc \in {"list", "announce"}, cpass'.pc \in {"announce", "patch"},
           cpass'.base = cpass.base, cpass'.groups = cpass.groups, cpass'.pc = "patch" => cpass'.ready,
           cpass'.terminal = cpass.terminal,
           UNCHANGED <<cluster, cache, cqueued, abandoned, outdated, exists>>, failures' = 0 => failures = 0
    PROVE  Kept'
<1>1. CopiesLag' /\ Settled' /\ (failures' = 0 /\ ~outdated' => cpass'.base.groups = cluster'.groups /\ abandoned' = "no")
  BY RunningKeeps
<1>2. Progress'
  BY Facts DEF Progress, Asked
<1>3. Accounted'
  BY <1>1, Facts DEF Accounted, Asked
<1> QED BY <1>1, <1>2, <1>3 DEF Kept

LEMMA ListKeeps ==
    ASSUME IInv, ListMachines
    PROVE  Kept'
<1> DEFINE told == {m \in Machines : cached[m].hasID}
<1>1. /\ cpass.pc = "list" /\ UNCHANGED <<cluster, cache, cqueued, abandoned, outdated, exists, failures>>
      /\ cpass' \in {ToPatch(cpass, TRUE), [cpass EXCEPT !.pc = "announce", !.todo = told]}
  BY DEF ListMachines, history, bounds
<1>2. cpass \in RunningPass
  BY <1>1, Facts
<1>3. /\ cpass'.pc \in {"announce", "patch"} /\ cpass'.base = cpass.base /\ cpass'.groups = cpass.groups
      /\ cpass'.pc = "patch" => cpass'.ready
      /\ cpass'.terminal = cpass.terminal
  <2>1. CASE cpass' = ToPatch(cpass, TRUE) BY <1>2, <2>1, ToPatchDone
  <2>2. CASE cpass' = [cpass EXCEPT !.pc = "announce", !.todo = told]
    <3> HIDE DEF told
    <3> QED BY <1>2, <2>2 DEF RunningPass
  <2> QED BY <1>1, <2>1, <2>2
<1> QED BY <1>1, <1>3, TellingKeeps

LEMMA TellKeeps ==
    ASSUME IInv, NEW m, reconcileClusterSecurityGroupsOnVMs(m)
    PROVE  Kept'
<1> DEFINE p == [cpass EXCEPT !.todo = @ \ {m}]
<1>1. /\ cpass.pc = "announce" /\ UNCHANGED <<cluster, cache, cqueued, abandoned, outdated, exists>>
      /\ cpass' \in {p, ToPatch(p, TRUE)}
  BY DEF reconcileClusterSecurityGroupsOnVMs, history
<1>2. failures' = 0 => failures = 0
  BY Facts, FaultTyped DEF reconcileClusterSecurityGroupsOnVMs
<1>3. cpass \in RunningPass
  BY <1>1, Facts
<1>4. /\ p \in RunningPass /\ p.pc = "announce" /\ p.base = cpass.base /\ p.groups = cpass.groups
      /\ p.terminal = cpass.terminal
  BY <1>1, <1>3 DEF RunningPass
<1>5. /\ cpass'.pc \in {"announce", "patch"} /\ cpass'.base = cpass.base /\ cpass'.groups = cpass.groups
      /\ cpass'.pc = "patch" => cpass'.ready
      /\ cpass'.terminal = cpass.terminal
  BY <1>1, <1>4, ToPatchDone
<1> QED BY <1>1, <1>2, <1>5, TellingKeeps

\* A pass that has gone well and has read what is stored stores its list, or
\* finds it stored; after any other there is a pass to come, or one that gave up.
LEMMA PatchKeeps ==
    ASSUME IInv, Patch
    PROVE  Kept'
<1> DEFINE new == [cluster EXCEPT !.groups = IF cpass.groups = cpass.base.groups THEN @ ELSE cpass.groups,
                                  !.ready = IF cpass.ready = cpass.base.ready THEN @ ELSE cpass.ready]
           w == Asked(cpass.base)
<1>1. PICK stored, failed \in BOOLEAN :
        /\ IF failed THEN Fault ELSE stored /\ UNCHANGED failures
        /\ IF stored THEN WriteCluster(new) ELSE UNCHANGED cluster
        /\ cqueued' = (cqueued \/ (~cpass.terminal /\ (failed \/ ~cpass.ready)))
        /\ Abandoned(stored)
  BY DEF Patch
<1>2. cpass.pc = "patch" /\ cpass'.pc = "idle" /\ UNCHANGED <<cache, exists, outdated>>
  BY DEF Patch, NoPass
<1>3. cpass \in RunningPass /\ new \in ClusterObject
  BY <1>2, Facts DEF RunningPass, ClusterObject
<1>4. new.spec = cluster.spec /\ new.groups = IF cpass.groups = cpass.base.groups THEN cluster.groups ELSE cpass.groups
  BY Facts DEF ClusterObject
<1>5. ~cpass.ready /\ cpass.base = cluster => ~new.ready
  BY <1>3, Facts DEF ClusterObject, RunningPass
<1> HIDE DEF new
<1>6. Lags(cache, cluster)' /\ (cluster' = cluster \/ cache' # cluster')
  BY <1>1, <1>2, <1>3, WriteIsNew, Facts DEF CopiesLag, Lags
<1>7. CopiesLag' /\ Progress'
  BY <1>2, <1>6 DEF CopiesLag, Progress
<1>8. stored => cluster'.spec = new.spec /\ cluster'.groups = new.groups /\ cluster'.ready = new.ready
  BY <1>1, <1>3, Facts DEF WriteCluster, ClusterObject
<1>9. Settled'
  <2>1. SUFFICES ASSUME ~cqueued', cache' = cluster', abandoned' # "unreported"
                 PROVE  \/ cluster'.groups = Listed(cluster'.spec) /\ Asked(cluster)' \subseteq exists'
                        \/ abandoned' = "reported" /\ ~cluster'.ready
    BY Zenon DEF Settled, ClusterQuiet
  <2>2. cluster' = cluster /\ cpass.base = cluster
    BY <1>1, <1>2, <1>6, <2>1, Facts DEF CopiesLag
  <2>3. CASE cpass.terminal
    <3>1. abandoned' = IF stored THEN "reported" ELSE "unreported"
      BY <1>1, <2>3 DEF Abandoned
    <3>2. ~cpass.ready
      BY <1>2, <2>3, Facts DEF Progress
    <3> QED BY <1>5, <1>8, <2>1, <2>2, <3>1, <3>2
  <2>4. CASE ~cpass.terminal
    <3>1. cpass.ready /\ stored
      BY <1>1, <2>1, <2>4
    <3>2. cpass.groups = Listed(cpass.base.spec) /\ w \subseteq exists
      BY <1>2, <3>1, Facts DEF Progress
    <3> QED BY <1>2, <1>4, <1>8, <2>2, <3>1, <3>2 DEF Asked
  <2> QED BY <2>3, <2>4
<1>10. Accounted'
  <2>1. SUFFICES ASSUME failures' = 0, ~outdated'
                 PROVE  exists' \subseteq Managed(cluster.groups)' /\ abandoned' = "no"
    BY <1>2 DEF Accounted
  <2>2. stored /\ failures = 0
    BY <1>1, <2>1, Facts, FaultTyped
  <2>3. cpass.base.groups = cluster.groups /\ exists \subseteq w /\ cpass.ready
    BY <1>2, <2>1, <2>2, Facts DEF Accounted
  <2>4. cpass.groups = Listed(cpass.base.spec) /\ ~cpass.terminal
    BY <1>2, <2>3, Facts DEF Progress
  <2>5. cluster'.groups = Listed(cpass.base.spec)
    BY <1>4, <1>8, <2>2, <2>3, <2>4
  <2>6. abandoned' = "no"
    BY <1>1, <2>4 DEF Abandoned
  <2> QED BY <1>2, <2>3, <2>5, <2>6 DEF Asked
<1> QED BY <1>7, <1>9, <1>10 DEF Kept

-----------------------------------------------------------------------------
(* The theorems *)

LEMMA StepIsKept == IInv /\ [Next]_vars => IInv'
<1> SUFFICES ASSUME IInv, [Next]_vars PROVE IInv'
  OBVIOUS
<1>1. TypeOK'
  <2>1. ClusterTyped' /\ ObjectsTyped' /\ CopiesTyped' /\ PassesTyped' /\ CloudTyped' /\ HistoryTyped' /\ FlagsTyped'
    BY Facts, ClusterStepTyped, ObjectsStepTyped, CloudStepTyped, HistoryStepTyped
  <2>2. TypeOK' <=> ClusterTyped' /\ ObjectsTyped' /\ CopiesTyped' /\ PassesTyped' /\ CloudTyped' /\ HistoryTyped'
                    /\ FlagsTyped'
    BY DEF TypeOK, ClusterTyped, ObjectsTyped, CopiesTyped, PassesTyped, CloudTyped, HistoryTyped, FlagsTyped,
           RunningPass, PassOfMachine
  <2> QED BY <2>1, <2>2
<1>2. Kept'
  <2>1. ASSUME NEW m \in Machines, machineToCluster(m) \/ MachinePass(m)
        PROVE  Kept'
    <3>1. UNCHANGED <<cluster, cache, cpass, exists, abandoned, outdated>> /\ (cqueued => cqueued')
      BY <2>1 DEF machineToCluster, MachinePass, ReconcileMachine, buildNetworking, reconcileVMSecurityGroups,
                  RequestRefused, VMCallFails, HandleCloudError, UpdateStatus, cvars, history
    <3>2. failures' = 0 => failures = 0
      <4>1. CASE machineToCluster(m) \/ ReconcileMachine(m) \/ buildNetworking(m) \/ reconcileVMSecurityGroups(m)
        BY <4>1 DEF machineToCluster, ReconcileMachine, buildNetworking, reconcileVMSecurityGroups, bounds
      <4>2. CASE RequestRefused(m) \/ VMCallFails(m) \/ UpdateStatus(m)
        BY <4>2, Facts, FaultTyped DEF RequestRefused, VMCallFails, UpdateStatus
      <4> QED BY <2>1, <4>1, <4>2 DEF MachinePass
    <3> QED BY <3>1, <3>2, OthersKeep
  <2>2. CASE UNCHANGED vars
    BY <2>2, OthersKeep DEF vars, cvars, history, bounds
  <2> QED BY <2>1, <2>2, EditKeeps, EventKeeps, RestartKeeps, BeginKeeps, CreateKeeps, DeleteKeeps, FailureKeeps,
             ListKeeps, TellKeeps, PatchKeeps DEF Next, ClusterPass
<1> QED BY <1>1, <1>2 DEF IInv, Kept

\* What a pass of the cluster controller relies on holds in every state
\* (reconcileSecurityGroups and the deferred patch).
THEOREM Inductive == Spec => []IInv
<1> QED BY InitIsKept, StepIsKept, PTL DEF Spec

\* When both controllers have come to rest the status names the groups of the
\* spec, and they exist, or the status says not ready after a bad request that
\* is not retried, unless that could not be stored (reconcileSecurityGroups,
\* handleClusterError, the deferred patch).
THEOREM ListedAtRest == Spec => []QuietIsListed
<1>1. IInv => QuietIsListed
  BY DEF IInv, Settled, Quiet, ClusterQuiet, QuietIsListed, WantedGroups, Asked
<1> QED BY <1>1, Inductive, PTL

\* Nor are there others, if no pass has failed or begun with an old list
\* (deleteStaleSecurityGroups).
THEOREM RemovedAtRest == Spec => []RemovedGroupsGo
<1>1. IInv => RemovedGroupsGo
  BY DEF IInv, Settled, Accounted, Quiet, ClusterQuiet, RemovedGroupsGo, WantedGroups, Asked
<1> QED BY <1>1, Inductive, PTL

\* A pass that knows the spec deletes none of its groups
\* (deleteStaleSecurityGroups).
THEOREM WantedStay == Spec => DeletesNoWanted
<1>1. ASSUME IInv, [Next]_vars, cpass.pc = "stale", cpass.base.spec = cluster.spec
      PROVE  WantedGroups \cap exists \subseteq exists'
  <2>1. cpass.todo \cap WantedGroups = {}
    BY <1>1 DEF IInv, Progress, Asked, WantedGroups
  <2>2. ASSUME NEW g, reconcileSecurityGroupSection(g) \/ DeleteStale(g) \/ GroupCallFails(g)
        PROVE  WantedGroups \cap exists \subseteq exists'
    BY <2>1, <2>2 DEF reconcileSecurityGroupSection, DeleteStale, GroupCallFails
  <2>3. ASSUME NEW m, reconcileClusterSecurityGroupsOnVMs(m) \/ machineToCluster(m) \/ MachinePass(m)
        PROVE  UNCHANGED exists
    BY <2>3 DEF machineToCluster, reconcileClusterSecurityGroupsOnVMs, MachinePass, ReconcileMachine, buildNetworking,
                reconcileVMSecurityGroups, RequestRefused, VMCallFails, HandleCloudError, UpdateStatus
  <2>4. CASE Edit \/ Restart \/ ClusterEvent \/ ReconcileCluster \/ ListMachines \/ ListFails \/ Patch \/ UNCHANGED vars
    BY <2>4 DEF Edit, Restart, ClusterEvent, ReconcileCluster, ListMachines, ListFails, Patch, vars
  <2> QED BY <1>1, <2>2, <2>3, <2>4 DEF Next, ClusterPass
<1>2. IInv /\ [Next]_vars =>
        [cpass.pc = "stale" /\ cpass.base.spec = cluster.spec => WantedGroups \cap exists \subseteq exists']_vars
  BY <1>1
<1> QED BY <1>2, Inductive, PTL DEF Spec, DeletesNoWanted

-----------------------------------------------------------------------------
(* No wake-up is lost *)

WokenUp(m) == VersionTold(m) /\ ToBeTold(m) /\ ToBeServed(m) /\ ToGetAnID(m)

\* A machine waits for a pass of the cluster, in vain if that was given up.
Waiting(m) == Telling(m) \/ GivenUp

SameMachine(m) ==
    /\ machine'[m] = machine[m] /\ cached'[m] = cached[m] /\ fresh'[m] = fresh[m]
    /\ mpass'[m] = mpass[m] /\ vm'[m] = vm[m]
    /\ m \in mqueued' <=> m \in mqueued
    /\ m \in dropped' <=> m \in dropped
    /\ m \in rejected' <=> m \in rejected
    /\ m \in untold' <=> m \in untold

LEMMA MachineFacts ==
    ASSUME IInv, NEW m \in Machines
    PROVE  /\ machine[m] \in MachineObject /\ machine[m].synced \in Nat
           /\ cluster.version \in Nat /\ cache.version \in Nat /\ cache.version <= cluster.version
           /\ cache.version = cluster.version => cache = cluster
           /\ cpass.pc # "idle" => /\ cpass.base.version \in Nat /\ cpass.base.version <= cache.version
                                   /\ cpass.base.version = cache.version => cpass.base = cache
                                   /\ cqueued \/ cpass.base = cache
BY Facts DEF TypeOK, ClusterObject, MachineObject, CopiesLag, Lags

\* A step of the cluster controller that leaves the machine alone.
LEMMA MachineUntouched ==
    ASSUME IInv, NEW m \in Machines, WokenUp(m), SameMachine(m), UNCHANGED cluster,
           cache'.version \in Nat, cache.version <= cache'.version,
           cpass'.pc # "idle" => machine[m].synced <= cpass'.base.version,
           Told(m) => Asked(cluster) \subseteq exists',
           machine[m].hasID /\ cluster.spec # NoConfig /\ Waiting(m) =>
               Told(m) \/ "cache" \notin fresh[m] \/ Waiting(m)'
    PROVE  WokenUp(m)'
<1>1. Told(m)' = Told(m) BY DEF Told, SameMachine
<1>2. VersionTold(m)' BY <1>1, MachineFacts DEF WokenUp, VersionTold, SameMachine, Asked
<1>3. ToBeTold(m)' BY <1>1 DEF WokenUp, ToBeTold, SameMachine, Waiting
<1>4. ToBeServed(m)' BY <1>1 DEF WokenUp, ToBeServed, SameMachine, At, Wanted
<1>5. ToGetAnID(m)' BY DEF WokenUp, ToGetAnID, SameMachine, At
<1> QED BY <1>2, <1>3, <1>4, <1>5 DEF WokenUp

\* A new version has been told to nobody, and an event of it is to come.
LEMMA NewVersion ==
    ASSUME IInv, NEW m \in Machines, WokenUp(m), SameMachine(m),
           cluster'.version = cluster.version + 1, UNCHANGED cache,
           cpass'.pc = "idle" \/ cpass' = cpass
    PROVE  WokenUp(m)'
<1>1. ~Told(m)' /\ cache' # cluster'
  BY MachineFacts DEF WokenUp, VersionTold, SameMachine, Told
<1>2. VersionTold(m)' BY <1>1 DEF WokenUp, VersionTold, SameMachine
<1>3. ToBeTold(m)' BY <1>1 DEF ToBeTold, Telling
<1>4. ToBeServed(m)' BY <1>1 DEF ToBeServed
<1>5. ToGetAnID(m)' BY DEF WokenUp, ToGetAnID, SameMachine, At
<1> QED BY <1>2, <1>3, <1>4, <1>5 DEF WokenUp

LEMMA WritesWake ==
    ASSUME IInv, NEW m \in Machines, WokenUp(m), Edit \/ Patch
    PROVE  WokenUp(m)'
<1>1. SameMachine(m) /\ UNCHANGED <<cache, exists>>
  BY DEF Edit, Patch, mvars, vms, history, SameMachine
<1>2. PICK new \in ClusterObject : WriteCluster(new) \/ UNCHANGED cluster
  <2>1. \A s \in Specs : [cluster EXCEPT !.spec = s] \in ClusterObject BY Facts DEF ClusterObject
  <2>2. CASE Edit BY <2>1, <2>2 DEF Edit
  <2>3. CASE Patch
    <3> DEFINE o == [cluster EXCEPT !.groups = IF cpass.groups = cpass.base.groups THEN @ ELSE cpass.groups,
                                    !.ready = IF cpass.ready = cpass.base.ready THEN @ ELSE cpass.ready]
    <3>1. o \in ClusterObject BY <2>3, Facts DEF Patch, RunningPass, ClusterObject
    <3>2. WriteCluster(o) \/ UNCHANGED cluster BY <2>3 DEF Patch
    <3> HIDE DEF o
    <3> QED BY <3>1, <3>2
  <2> QED BY <2>2, <2>3
<1>3. cluster'.version = cluster.version + 1 \/ UNCHANGED cluster
  BY <1>2, Facts DEF WriteCluster, ClusterObject
<1>4. cpass'.pc = "idle" \/ cpass' = cpass BY DEF Edit, Patch, NoPass
<1>5. CASE cluster'.version = cluster.version + 1 BY <1>1, <1>4, <1>5, NewVersion
<1>6. CASE UNCHANGED cluster
  <2>1. Waiting(m) => Waiting(m)'
    <3>1. CASE Edit BY <1>1, <1>6, <3>1 DEF Edit, Waiting, Telling, GivenUp, SameMachine, history
    <3>2. CASE Patch
      <4>1. PICK stored, failed \in BOOLEAN :
              /\ cqueued' = (cqueued \/ (~cpass.terminal /\ (failed \/ ~cpass.ready)))
              /\ Abandoned(stored)
        BY <3>2 DEF Patch
      <4>2. cpass.pc = "patch" /\ cpass'.pc = "idle" BY <3>2 DEF Patch, NoPass
      <4>3. CASE cpass.terminal
        <5>1. abandoned' # "no" BY <4>1, <4>3 DEF Abandoned
        <5> QED BY <4>2, <5>1 DEF Waiting, GivenUp
      <4>4. CASE ~cpass.terminal
        <5>1. Waiting(m) => cqueued \/ cache # cluster \/ ~cpass.ready
          BY <4>2, <4>4 DEF Waiting, Telling, GivenUp
        <5>2. ~cpass.ready \/ cqueued => cqueued' BY <4>1, <4>4
        <5> QED BY <1>1, <1>6, <5>1, <5>2 DEF Waiting, Telling
      <4> QED BY <4>3, <4>4
    <3> QED BY <3>1, <3>2
  <2> QED BY <1>1, <1>4, <1>6, <2>1, MachineUntouched, MachineFacts DEF WokenUp, VersionTold
<1> QED BY <1>3, <1>5, <1>6

LEMMA EventWakes ==
    ASSUME IInv, NEW m \in Machines, WokenUp(m), ClusterEvent
    PROVE  WokenUp(m)'
<1>1. SameMachine(m) /\ UNCHANGED <<cluster, cpass, exists>> /\ cache' = cluster /\ cqueued'
  BY DEF ClusterEvent, mvars, vms, history, SameMachine
<1> QED BY <1>1, MachineUntouched, MachineFacts DEF WokenUp, VersionTold, Waiting, Telling

\* After a restart everything is queued.
LEMMA RestartWakes ==
    ASSUME IInv, NEW m \in Machines, WokenUp(m), Restart
    PROVE  WokenUp(m)'
<1>1. /\ UNCHANGED <<cluster, machine, exists, untold>> /\ cache' = cluster /\ cpass'.pc = "idle"
      /\ cached' = machine /\ cqueued' /\ m \in mqueued'
  BY DEF Restart, NoPass, history
<1>2. VersionTold(m)' BY <1>1, MachineFacts DEF WokenUp, VersionTold, Told, Asked
<1>3. ToBeTold(m)' /\ ToBeServed(m)' /\ ToGetAnID(m)' BY <1>1 DEF ToBeTold, Telling, ToBeServed, ToGetAnID
<1> QED BY <1>2, <1>3 DEF WokenUp

\* A pass that has told nobody yet tells everybody, unless it finds no
\* configuration.
LEMMA BeginWakes ==
    ASSUME IInv, NEW m \in Machines, WokenUp(m), ReconcileCluster
    PROVE  WokenUp(m)'
<1> DEFINE p == [pc |-> "groups", base |-> cache, groups |-> cache.groups, ready |-> cache.ready,
                 terminal |-> FALSE, todo |-> InList(Listed(cache.spec))]
<1>1. /\ SameMachine(m) /\ UNCHANGED <<cluster, cache, exists>>
      /\ \/ cpass' = IF p.todo = {} THEN deleteStaleSecurityGroups(p) ELSE p
         \/ \E terminal \in BOOLEAN : cpass' = handleClusterError(p, terminal)
  BY DEF ReconcileCluster, mvars, vms, SameMachine
<1>2. p \in RunningPass /\ p.base = cache /\ p.groups = p.base.groups
  BY Facts, NamesTypes DEF RunningPass, ClusterObject
<1>3. cpass'.base = cache
  <2> HIDE DEF p
  <2> QED BY <1>1, <1>2, StaleFound, ErrorDone
<1>4. cpass'.pc \in {"groups", "stale", "list"} \/ (cpass'.pc = "patch" /\ ~cpass'.ready) \/ cache.spec = NoConfig
  <2>0. p.pc = "groups" OBVIOUS
  <2> HIDE DEF p
  <2>1. CASE cpass' = p BY <2>0, <2>1
  <2>2. CASE cpass' = deleteStaleSecurityGroups(p) /\ cache.spec # NoConfig
    BY <1>2, <2>2 DEF deleteStaleSecurityGroups, ToList, RunningPass
  <2>3. CASE \E terminal \in BOOLEAN : cpass' = handleClusterError(p, terminal) BY <1>2, <2>3, ErrorDone
  <2> QED BY <1>1, <2>1, <2>2, <2>3
<1>5. machine[m].hasID /\ cluster.spec # NoConfig => Waiting(m)'
  BY <1>1, <1>4 DEF Waiting, Telling, GivenUp
<1> QED BY <1>1, <1>3, <1>5, MachineUntouched, MachineFacts DEF WokenUp, VersionTold

LEMMA StaleTellsAll ==
    ASSUME NEW p \in RunningPass, p.base.spec # NoConfig
    PROVE  deleteStaleSecurityGroups(p).pc \in {"stale", "list"} /\ ToList(p).pc = "list"
BY DEF deleteStaleSecurityGroups, ToList, RunningPass

LEMMA GroupStepsWake ==
    ASSUME IInv, NEW m \in Machines, WokenUp(m), NEW g,
           reconcileSecurityGroupSection(g) \/ DeleteStale(g)
    PROVE  WokenUp(m)'
<1> DEFINE p == [cpass EXCEPT !.todo = @ \ {g}]
<1>1. /\ SameMachine(m) /\ UNCHANGED <<cluster, cache, cqueued>>
      /\ cpass.pc \in {"groups", "stale"} /\ cpass.groups = cpass.base.groups
      /\ cpass \in RunningPass
  BY Facts DEF reconcileSecurityGroupSection, DeleteStale, mvars, vms, history, SameMachine, Progress
<1>2. p \in RunningPass /\ p.base = cpass.base /\ p.groups = p.base.groups /\ p.pc = cpass.pc
  BY <1>1 DEF RunningPass
<1>3. cpass' \in {p, deleteStaleSecurityGroups(p), ToList(p)}
  BY DEF reconcileSecurityGroupSection, DeleteStale
<1>4. cpass'.base = cpass.base BY <1>2, <1>3, StaleFound, ToListDone
<1>5. Told(m) => Asked(cluster) \subseteq exists'
  <2>1. SUFFICES ASSUME Told(m) PROVE Asked(cluster) \subseteq exists' OBVIOUS
  <2>2. Asked(cluster) \subseteq exists BY <2>1 DEF WokenUp, VersionTold
  <2>3. CASE reconcileSecurityGroupSection(g) BY <2>2, <2>3 DEF reconcileSecurityGroupSection
  <2>4. CASE DeleteStale(g)
    <3>1. cpass.base = cluster BY <1>1, <2>1, MachineFacts DEF Told, WokenUp, VersionTold
    <3>2. g \notin Asked(cluster) BY <2>4, <3>1, Facts DEF DeleteStale, Progress
    <3> QED BY <2>2, <2>4, <3>2 DEF DeleteStale
  <2> QED BY <2>3, <2>4
<1>6. cluster.spec # NoConfig => Waiting(m)'
  <2>1. CASE cqueued \/ cache # cluster BY <1>1, <2>1 DEF Waiting, Telling
  <2>2. CASE ~cqueued /\ cache = cluster /\ cluster.spec # NoConfig
    <3>1. p.base.spec # NoConfig BY <1>1, <1>2, <2>2, MachineFacts
    <3>2. cpass'.pc \in {"groups", "stale", "list"} BY <1>1, <1>2, <1>3, <3>1, StaleTellsAll
    <3> QED BY <3>2 DEF Waiting, Telling
  <2> QED BY <2>1, <2>2
<1> QED BY <1>1, <1>4, <1>5, <1>6, MachineUntouched, MachineFacts DEF WokenUp, VersionTold

LEMMA FailureWakes ==
    ASSUME IInv, NEW m \in Machines, WokenUp(m), NEW g, GroupCallFails(g) \/ ListFails
    PROVE  WokenUp(m)'
<1>1. /\ SameMachine(m) /\ UNCHANGED <<cluster, cache>>
      /\ cpass \in RunningPass /\ cpass.pc # "idle"
      /\ \E terminal \in BOOLEAN : cpass' = handleClusterError(cpass, terminal)
  BY Facts DEF GroupCallFails, ListFails, mvars, vms, history, SameMachine
<1>2. cpass'.base = cpass.base /\ cpass'.pc = "patch" /\ ~cpass'.ready BY <1>1, ErrorDone
<1>3. Waiting(m)' BY <1>2 DEF Waiting, Telling, GivenUp
<1>4. machine[m].synced <= cpass.base.version
  BY <1>1 DEF WokenUp, VersionTold
<1>5. Told(m) => Asked(cluster) \subseteq exists'
  <2>1. SUFFICES ASSUME Told(m) PROVE Asked(cluster) \subseteq exists' OBVIOUS
  <2>2. Asked(cluster) \subseteq exists BY <2>1 DEF WokenUp, VersionTold
  <2>3. CASE exists \subseteq exists' BY <2>2, <2>3
  <2>4. CASE cpass.pc = "stale" /\ g \in cpass.todo /\ exists' = exists \ {g}
    <3>1. cpass.base = cluster BY <1>1, <2>1, MachineFacts DEF Told, WokenUp, VersionTold
    <3>2. g \notin Asked(cluster) BY <2>4, <3>1, Facts DEF Progress
    <3> QED BY <2>2, <2>4, <3>2
  <2> QED BY <2>3, <2>4 DEF GroupCallFails, ListFails
<1>6. cache.version \in Nat /\ cache.version <= cache.version BY MachineFacts
<1> QED BY <1>1, <1>2, <1>3, <1>4, <1>5, <1>6, MachineUntouched

\* Whose copy in the cache has no ID has an event to come.
LEMMA ListWakes ==
    ASSUME IInv, NEW m \in Machines, WokenUp(m), ListMachines
    PROVE  WokenUp(m)'
<1> DEFINE told == {k \in Machines : cached[k].hasID}
<1>1. /\ UNCHANGED <<cluster, cache, cqueued, machine, cached, mqueued, mpass, exists, vm, untold, dropped, rejected>>
      /\ cpass \in RunningPass /\ cpass.pc = "list"
      /\ fresh'[m] = IF m \in told /\ "cache" \in fresh[m] THEN fresh[m] \cup {"list"} ELSE fresh[m]
  BY Facts DEF ListMachines, vms, history
<1>2. \/ cpass' = ToPatch(cpass, TRUE) /\ told = {}
      \/ cpass' = [cpass EXCEPT !.pc = "announce", !.todo = told]
  BY DEF ListMachines
<1>3. cpass'.base = cpass.base BY <1>1, <1>2, ToPatchDone DEF RunningPass
<1>4. Told(m)' = Told(m) /\ ("cache" \in fresh'[m] <=> "cache" \in fresh[m]) BY <1>1 DEF Told
<1>5. VersionTold(m)' BY <1>1, <1>3, <1>4 DEF WokenUp, VersionTold, Asked
<1>6. ToBeTold(m)'
  <2>1. SUFFICES ASSUME machine[m].hasID, "cache" \in fresh[m] PROVE Telling(m)'
    BY <1>1, <1>4 DEF ToBeTold
  <2>2. m \in told /\ "list" \in fresh'[m] BY <1>1, <2>1 DEF WokenUp, VersionTold
  <2>3. cpass'.pc = "announce" /\ cpass'.todo = told BY <1>1, <1>2, <2>2 DEF RunningPass
  <2> QED BY <2>2, <2>3 DEF Telling
<1>7. ToBeServed(m)' BY <1>1, <1>4 DEF WokenUp, ToBeServed, At, Wanted
<1>8. ToGetAnID(m)' BY <1>1, <1>4 DEF WokenUp, ToGetAnID, At
<1> QED BY <1>5, <1>6, <1>7, <1>8 DEF WokenUp

\* The pass tells machine n what m is waiting for, or another one is to come.
LEMMA TellWakes ==
    ASSUME IInv, NEW m \in Machines, WokenUp(m), NEW n \in Machines, reconcileClusterSecurityGroupsOnVMs(n)
    PROVE  WokenUp(m)'
<1> DEFINE p == [cpass EXCEPT !.todo = @ \ {n}]
<1>1. /\ UNCHANGED <<cluster, cache, cqueued, cached, mqueued, mpass, exists, vm, dropped, rejected>>
      /\ cpass \in RunningPass /\ cpass.pc = "announce" /\ n \in cpass.todo
      /\ cpass' = IF p.todo = {} THEN ToPatch(p, TRUE) ELSE p
  BY Facts DEF reconcileClusterSecurityGroupsOnVMs, vms
<1>0. ~GivenUp
  BY <1>1, Facts DEF GivenUp, Progress
<1>2. p \in RunningPass /\ p.base = cpass.base /\ p.pc = "announce" /\ p.todo = cpass.todo \ {n}
  BY <1>1 DEF RunningPass
<1>3. cpass'.base = cpass.base /\ cpass'.pc # "idle" BY <1>1, <1>2, ToPatchDone
<1>4. machine \in [Machines -> MachineObject] /\ fresh \in [Machines -> SUBSET {"cache", "pass", "list"}]
  BY Facts DEF TypeOK
<1>5. CASE m # n
  <2>1. SameMachine(m)
    BY <1>1, <1>4, <1>5 DEF SameMachine, reconcileClusterSecurityGroupsOnVMs, WriteMachine, WritesNothing, history
  <2>2. Waiting(m) => Waiting(m)'
    BY <1>0, <1>1, <1>2, <1>5, <2>1 DEF Waiting, Telling, SameMachine
  <2>3. machine[m].synced <= cpass.base.version /\ (Told(m) => Asked(cluster) \subseteq exists)
    BY <1>1 DEF WokenUp, VersionTold
  <2>4. cache.version \in Nat /\ cache.version <= cache.version BY MachineFacts
  <2> QED BY <1>1, <1>3, <2>1, <2>2, <2>3, <2>4, MachineUntouched
<1>6. CASE m = n /\ "list" \in fresh[m] /\ untold' = untold \ {m}
           /\ WriteMachine(m, [machine[m] EXCEPT !.synced = Annotation(m)], "list")
  <2>1. /\ machine'[m].synced = cpass.base.version /\ machine'[m].hasID = machine[m].hasID
        /\ "cache" \in fresh'[m] => "cache" \in fresh[m] /\ machine'[m] = machine[m]
    BY <1>4, <1>6 DEF WriteMachine, Annotation, MachineObject
  <2>2. ASSUME Told(m)' PROVE Asked(cluster) \subseteq exists
    <3>1. cpass.base = cluster BY <1>1, <2>1, <2>2, MachineFacts DEF Told
    <3> QED BY <1>1, <3>1, Facts DEF Progress
  <2>3. VersionTold(m)'
    <3>1. machine'[m].synced <= cache.version BY <1>1, <2>1, MachineFacts
    <3>2. machine'[m].synced <= cpass'.base.version
      <4>1. cpass.base.version \in Nat BY <1>1, MachineFacts
      <4> QED BY <1>3, <2>1, <4>1
    <3>3. "cache" \in fresh'[m] => cached[m] = machine'[m] BY <2>1 DEF WokenUp, VersionTold
    <3> QED BY <1>1, <2>2, <3>1, <3>2, <3>3 DEF VersionTold, Asked
  <2>4. ToBeTold(m)'
    <3>1. CASE cqueued \/ cache # cluster BY <1>1, <3>1 DEF ToBeTold, Telling
    <3>2. CASE ~cqueued /\ cache = cluster
      <4>1. Told(m)' BY <1>1, <2>1, <3>2, MachineFacts DEF Told
      <4> QED BY <4>1 DEF ToBeTold
    <3> QED BY <3>1, <3>2
  <2>5. ToBeServed(m)' BY <1>1, <2>1 DEF WokenUp, ToBeServed, At, Wanted, Told
  <2>6. ToGetAnID(m)' BY <1>1, <2>1 DEF WokenUp, ToGetAnID, At
  <2> QED BY <2>3, <2>4, <2>5, <2>6 DEF WokenUp
<1>7. CASE m = n /\ WritesNothing(m, "list") /\ (untold' = untold \cup {m} \/ ("list" \notin fresh[m] /\ untold' = untold))
  <2>1. /\ machine' = machine /\ ("cache" \in fresh'[m] <=> "cache" \in fresh[m])
    BY <1>4, <1>7 DEF WritesNothing
  <2>2. VersionTold(m)' BY <1>1, <1>3, <2>1 DEF WokenUp, VersionTold, Told, Asked
  <2>3. ToBeTold(m)'
    BY <1>0, <1>1, <1>2, <1>7, <2>1 DEF WokenUp, ToBeTold, Telling, Told
  <2>4. ToBeServed(m)' BY <1>1, <2>1 DEF WokenUp, ToBeServed, At, Wanted, Told
  <2>5. ToGetAnID(m)' BY <1>1, <2>1 DEF WokenUp, ToGetAnID, At
  <2> QED BY <2>2, <2>3, <2>4, <2>5 DEF WokenUp
<1> QED BY <1>5, <1>6, <1>7 DEF reconcileClusterSecurityGroupsOnVMs, history

\* A step of another machine's controller.
LEMMA OtherMachine ==
    ASSUME IInv, NEW m \in Machines, WokenUp(m), NEW n \in Machines, n # m, machineToCluster(n) \/ MachinePass(n)
    PROVE  WokenUp(m)'
<1>1. UNCHANGED <<cluster, cache, cpass, exists, abandoned>> /\ (cqueued => cqueued')
  BY DEF machineToCluster, MachinePass, ReconcileMachine, buildNetworking, reconcileVMSecurityGroups,
         RequestRefused, VMCallFails, HandleCloudError, UpdateStatus, cvars, history
<1>2. SameMachine(m)
  <2> USE Facts DEF SameMachine, TypeOK
  <2>1. CASE machineToCluster(n) BY <2>1 DEF machineToCluster, history, vms
  <2>2. CASE ReconcileMachine(n) BY <2>2 DEF ReconcileMachine, vms
  <2>3. CASE buildNetworking(n) BY <2>3 DEF buildNetworking, EndPass, WritesNothing, history
  <2>4. CASE reconcileVMSecurityGroups(n) BY <2>4 DEF reconcileVMSecurityGroups, Goto, history
  <2>5. CASE RequestRefused(n) \/ VMCallFails(n)
    <3>1. PICK terminal : HandleCloudError(n, terminal) BY <2>5 DEF RequestRefused, VMCallFails
    <3>2. /\ vm'[m] = vm[m]
          /\ m \in dropped' <=> m \in dropped
          /\ m \in rejected' <=> m \in rejected
      BY <2>5 DEF RequestRefused, VMCallFails, vms
    <3>3. machine'[m] = machine[m] /\ fresh'[m] = fresh[m]
      BY <3>1 DEF HandleCloudError, WriteMachine, WritesNothing
    <3>4. /\ mpass'[m] = mpass[m] /\ cached'[m] = cached[m]
          /\ m \in mqueued' <=> m \in mqueued
          /\ m \in untold' <=> m \in untold
      BY <3>1 DEF HandleCloudError, EndPass
    <3> QED BY <3>2, <3>3, <3>4
  <2>6. CASE UpdateStatus(n)
    BY <2>6 DEF UpdateStatus, EndPass, WriteMachine, WritesNothing, history, vms
  <2> QED BY <2>1, <2>2, <2>3, <2>4, <2>5, <2>6 DEF MachinePass
<1>3. VersionTold(m) /\ (Waiting(m) => Waiting(m)')
  BY <1>1, <1>2 DEF WokenUp, SameMachine, Waiting, Telling, GivenUp
<1>4. cache.version \in Nat /\ cache.version <= cache.version BY MachineFacts
<1> QED BY <1>1, <1>2, <1>3, <1>4, MachineUntouched DEF VersionTold

\* What the machine has been told, if its own controller leaves that alone.
LEMMA StillTold ==
    ASSUME NEW m \in Machines, VersionTold(m), ToBeTold(m),
           UNCHANGED <<cluster, cache, cqueued, cpass, exists, cached, untold, abandoned>>,
           machine'[m].synced = machine[m].synced,
           "cache" \in fresh'[m] => /\ machine'[m] = machine[m] /\ "cache" \in fresh[m]
                                    /\ "list" \in fresh'[m] <=> "list" \in fresh[m]
    PROVE  VersionTold(m)' /\ ToBeTold(m)'
<1>1. Told(m)' = Told(m) BY DEF Told
<1>2. VersionTold(m)' BY <1>1 DEF VersionTold, Asked
<1>3. ToBeTold(m)' BY <1>1 DEF ToBeTold, Telling, GivenUp
<1> QED BY <1>2, <1>3

LEMMA WriteTells ==
    ASSUME IInv, NEW m \in Machines, NEW new \in MachineObject, new.synced = machine[m].synced,
           WriteMachine(m, new, "pass") \/ WritesNothing(m, "pass")
    PROVE  /\ machine'[m].synced = machine[m].synced
           /\ "cache" \in fresh'[m] => /\ machine'[m] = machine[m] /\ "cache" \in fresh[m]
                                       /\ "list" \in fresh'[m] <=> "list" \in fresh[m]
BY Facts DEF TypeOK, WriteMachine, WritesNothing

\* An event of the machine queues it, and the cluster.
LEMMA MachineEventWakes ==
    ASSUME IInv, NEW m \in Machines, WokenUp(m), machineToCluster(m)
    PROVE  WokenUp(m)'
<1>1. /\ UNCHANGED <<cluster, cache, cpass, exists, machine>> /\ cqueued' /\ m \in mqueued'
      /\ cached'[m] = machine[m]
  BY Facts DEF machineToCluster, TypeOK
<1>2. VersionTold(m)' BY <1>1 DEF WokenUp, VersionTold, Told, Asked
<1>3. ToBeTold(m)' /\ ToBeServed(m)' /\ ToGetAnID(m)' BY <1>1 DEF ToBeTold, Telling, ToBeServed, ToGetAnID
<1> QED BY <1>2, <1>3 DEF WokenUp

\* A pass of a machine that has been told the stored version reads that version.
LEMMA MachineBeginWakes ==
    ASSUME IInv, NEW m \in Machines, WokenUp(m), ReconcileMachine(m)
    PROVE  WokenUp(m)'
<1>1. /\ UNCHANGED <<cluster, cache, cqueued, cpass, exists, machine, cached, vm, untold, abandoned>>
      /\ mpass'[m] = [pc |-> "vm", view |-> cache.groups, hasID |-> cached[m].hasID]
      /\ "cache" \in fresh'[m] <=> "cache" \in fresh[m]
      /\ "list" \in fresh'[m] <=> "list" \in fresh[m]
  BY Facts DEF ReconcileMachine, TypeOK, cvars, vms
<1>2. VersionTold(m)' /\ ToBeTold(m)' BY <1>1, StillTold DEF WokenUp
<1>3. ToBeServed(m)'
  <2>1. SUFFICES ASSUME machine[m].hasID, Told(m), "cache" \in fresh[m]
                 PROVE  mpass'[m].pc = "vm" /\ mpass'[m].hasID /\ mpass'[m].view = cluster.groups
    BY <1>1 DEF ToBeServed, Told, At
  <2>2. cached[m].hasID BY <2>1 DEF WokenUp, VersionTold
  <2>3. cache = cluster BY <2>1, MachineFacts DEF WokenUp, VersionTold, Told
  <2> QED BY <1>1, <2>2, <2>3
<1>4. ToGetAnID(m)' BY <1>1 DEF ToGetAnID, At
<1> QED BY <1>2, <1>3, <1>4 DEF WokenUp

\* The VM is created by a pass that queues the machine again.
LEMMA CreateWakes ==
    ASSUME IInv, NEW m \in Machines, WokenUp(m), buildNetworking(m)
    PROVE  WokenUp(m)'
<1>1. /\ UNCHANGED <<cluster, cache, cqueued, cpass, exists, cached, untold, abandoned>>
      /\ WritesNothing(m, "pass") /\ m \in mqueued'
  BY DEF buildNetworking, cvars, history
<1>2. VersionTold(m)' /\ ToBeTold(m)'
  <2>1. machine[m] \in MachineObject BY MachineFacts
  <2>2. /\ machine'[m].synced = machine[m].synced
        /\ "cache" \in fresh'[m] => /\ machine'[m] = machine[m] /\ "cache" \in fresh[m]
                                    /\ "list" \in fresh'[m] <=> "list" \in fresh[m]
    BY <1>1, <2>1, WriteTells
  <2> QED BY <1>1, <2>2, StillTold DEF WokenUp
<1>3. ToBeServed(m)' /\ ToGetAnID(m)' BY <1>1 DEF ToBeServed, ToGetAnID
<1> QED BY <1>2, <1>3 DEF WokenUp

\* The groups are those the pass has read.
LEMMA ServeWakes ==
    ASSUME IInv, NEW m \in Machines, WokenUp(m), reconcileVMSecurityGroups(m)
    PROVE  WokenUp(m)'
<1>1. /\ UNCHANGED <<cluster, cache, cqueued, cpass, exists, machine, cached, fresh, mqueued, untold, rejected, abandoned>>
      /\ mpass[m].pc = "vm" /\ mpass'[m].pc = "status"
      /\ mpass[m].hasID => vm'[m] = Desired(m)
  BY Facts DEF reconcileVMSecurityGroups, TypeOK, At, Goto, cvars, history
<1>2. VersionTold(m)' /\ ToBeTold(m)' BY <1>1, StillTold DEF WokenUp
<1>3. ToBeServed(m)'
  <2>1. SUFFICES ASSUME machine[m].hasID, Told(m), cluster.groups = Listed(cluster.spec),
                        "cache" \in fresh[m], m \notin mqueued, m \notin rejected
                 PROVE  vm'[m] = Wanted(m)
    BY <1>1 DEF ToBeServed, Told, At, Wanted
  <2>2. mpass[m].hasID /\ mpass[m].view = cluster.groups
    BY <1>1, <2>1 DEF WokenUp, ToBeServed, At
  <2> QED BY <1>1, <2>1, <2>2 DEF Desired, Wanted
<1>4. ToGetAnID(m)' BY <1>1 DEF ToGetAnID, At
<1> QED BY <1>2, <1>3, <1>4 DEF WokenUp

\* The groups of a list that the spec asks for are served once its inline
\* groups exist.
LEMMA ListIsServed ==
    ASSUME NEW m, Asked(cluster) \subseteq exists, cluster.groups = Listed(cluster.spec)
    PROVE  Served(clusterSecurityGroupNamesForRole(cluster.groups, m))
<1> SUFFICES ASSUME NEW n \in clusterSecurityGroupNamesForRole(cluster.groups, m), n \notin Existing
             PROVE  n \in exists
  BY DEF Served
<1>1. n \in Inline /\ \E s \in Sections : <<n, s>> \in cluster.groups
  BY DEF clusterSecurityGroupNamesForRole, Names, Role, Sections
<1> QED BY <1>1 DEF Managed, Asked

\* A pass that fails is tried again, unless its error is not retried: then the
\* request was refused and not one for the groups that are stored, or m is
\* marked.
LEMMA FailedCallWakes ==
    ASSUME IInv, NEW m \in Machines, WokenUp(m), RequestRefused(m) \/ VMCallFails(m)
    PROVE  WokenUp(m)'
<1>1. PICK terminal \in BOOLEAN :
        /\ HandleCloudError(m, terminal)
        /\ terminal => \/ RequestRefused(m) /\ dropped' = dropped \cup {m} /\ UNCHANGED vms
                       \/ rejected' = rejected \cup {m}
  BY DEF RequestRefused, VMCallFails
<1>2. /\ UNCHANGED <<cluster, cache, cqueued, cpass, exists, cached, untold, abandoned>>
      /\ mpass[m].pc = "vm" /\ mpass'[m].pc = "idle"
      /\ terminal \/ m \in mqueued'
      /\ mqueued \subseteq mqueued'
  BY <1>1, Facts DEF RequestRefused, VMCallFails, HandleCloudError, TypeOK, At, EndPass, NoPass, cvars
<1>3. /\ machine'[m].synced = machine[m].synced
      /\ "cache" \in fresh'[m] => /\ machine'[m] = machine[m] /\ "cache" \in fresh[m]
                                  /\ "list" \in fresh'[m] <=> "list" \in fresh[m]
  <2> DEFINE new == [machine[m] EXCEPT !.ready = FALSE]
  <2>1. new \in MachineObject /\ new.synced = machine[m].synced BY MachineFacts DEF MachineObject
  <2>2. WriteMachine(m, new, "pass") \/ WritesNothing(m, "pass") BY <1>1 DEF HandleCloudError
  <2> HIDE DEF new
  <2> QED BY <2>1, <2>2, WriteTells
<1>4. VersionTold(m)' /\ ToBeTold(m)' BY <1>2, <1>3, StillTold DEF WokenUp
<1>5. ToBeServed(m)'
  <2>1. SUFFICES ASSUME machine[m].hasID, Told(m), cluster.groups = Listed(cluster.spec),
                        "cache" \in fresh[m], m \notin mqueued, m \notin mqueued', m \notin rejected'
                 PROVE  FALSE
    BY <1>2, <1>3 DEF ToBeServed, Told
  <2>2. terminal /\ RequestRefused(m) /\ m \notin rejected BY <1>1, <1>2, <2>1 DEF RequestRefused, VMCallFails
  <2>3. mpass[m].view = cluster.groups BY <1>2, <2>1, <2>2 DEF WokenUp, ToBeServed, At
  <2>4. Asked(cluster) \subseteq exists BY <2>1 DEF WokenUp, VersionTold
  <2>5. Served(Desired(m)) BY <2>1, <2>3, <2>4, ListIsServed DEF Desired
  <2> QED BY <2>2, <2>5 DEF RequestRefused
<1>6. ToGetAnID(m)' BY <1>1, <1>2 DEF ToGetAnID
<1> QED BY <1>4, <1>5, <1>6 DEF WokenUp

\* The pass has served the VM and gives the machine its ID, or is tried again.
LEMMA UpdateWakes ==
    ASSUME IInv, NEW m \in Machines, WokenUp(m), UpdateStatus(m)
    PROVE  WokenUp(m)'
<1> DEFINE new == [machine[m] EXCEPT !.hasID = TRUE, !.ready = TRUE]
<1>1. /\ UNCHANGED <<cluster, cache, cqueued, cpass, exists, cached, untold, rejected, abandoned, vm>>
      /\ mpass[m].pc = "status" /\ mpass'[m].pc = "idle"
      /\ \/ WriteMachine(m, new, "pass") /\ mqueued' = mqueued
         \/ WritesNothing(m, "pass") /\ m \in mqueued'
  <2>1. UNCHANGED <<cluster, cache, cqueued, cpass, exists, cached, untold, rejected, abandoned, vm>>
    BY DEF UpdateStatus, cvars, vms, history
  <2>2. mpass[m].pc = "status" /\ mpass'[m].pc = "idle"
    BY Facts DEF UpdateStatus, TypeOK, At, EndPass, NoPass
  <2>3. \/ WriteMachine(m, new, "pass") /\ mqueued' = mqueued
        \/ WritesNothing(m, "pass") /\ m \in mqueued'
    BY DEF UpdateStatus
  <2> QED BY <2>1, <2>2, <2>3
<1>2. new \in MachineObject /\ new.synced = machine[m].synced /\ new.hasID
  BY MachineFacts DEF MachineObject
<1>3. /\ machine'[m].synced = machine[m].synced
      /\ "cache" \in fresh'[m] => /\ machine'[m] = machine[m] /\ "cache" \in fresh[m]
                                  /\ "list" \in fresh'[m] <=> "list" \in fresh[m]
  <2> HIDE DEF new
  <2> QED BY <1>1, <1>2, WriteTells
<1>4. VersionTold(m)' /\ ToBeTold(m)' BY <1>1, <1>3, StillTold DEF WokenUp
<1>5. ToBeServed(m)'
  BY <1>1, <1>3 DEF WokenUp, ToBeServed, Told, At, Wanted
<1>6. ToGetAnID(m)'
  <2>1. CASE m \in mqueued' BY <2>1 DEF ToGetAnID
  <2>2. CASE WriteMachine(m, new, "pass")
    <3> HIDE DEF new
    <3>1. machine'[m] = new BY <2>2, Facts DEF TypeOK, WriteMachine
    <3> QED BY <1>2, <3>1 DEF ToGetAnID
  <2> QED BY <1>1, <2>1, <2>2
<1> QED BY <1>4, <1>5, <1>6 DEF WokenUp

LEMMA InitWakes ==
    ASSUME Init, NEW m \in Machines
    PROVE  WokenUp(m)
<1>1. PICK s \in InitialSpecs : cluster = [spec |-> s, groups |-> Listed(s), ready |-> TRUE, version |-> 0]
  BY DEF Init
<1>2. /\ cache = cluster /\ cpass.pc = "idle" /\ mpass[m].pc = "idle" /\ cached[m] = machine[m]
      /\ machine[m] = [hasID |-> m \in up, ready |-> m \in up, synced |-> 0]
      /\ mqueued = Machines \ up /\ exists = Managed(cluster.groups)
      /\ m \in up => vm[m] = clusterSecurityGroupNamesForRole(cluster.groups, m)
  BY DEF Init, NoPass
<1>3. VersionTold(m) BY <1>1, <1>2 DEF VersionTold, Asked
<1>4. ToBeTold(m) BY <1>1, <1>2 DEF ToBeTold, Told
<1>5. ToBeServed(m) BY <1>1, <1>2 DEF ToBeServed, Wanted, At
<1>6. ToGetAnID(m)
  <2>1. \A b, r : r = [hasID |-> b, ready |-> b, synced |-> 0] => r.hasID = b OBVIOUS
  <2>2. machine[m].hasID = (m \in up) BY <1>2, <2>1, Zenon
  <2> QED BY <1>2, <2>2 DEF ToGetAnID
<1> QED BY <1>3, <1>4, <1>5, <1>6 DEF WokenUp

LEMMA StepWakes ==
    ASSUME IInv, NEW m \in Machines, WokenUp(m), [Next]_vars
    PROVE  WokenUp(m)'
<1>1. CASE UNCHANGED vars
  <2>1. SameMachine(m) /\ UNCHANGED <<cluster, cache, cqueued, cpass, exists, abandoned>>
    BY <1>1 DEF vars, cvars, mvars, vms, history, SameMachine
  <2>2. VersionTold(m) /\ (Waiting(m) => Waiting(m)')
    BY <2>1 DEF WokenUp, SameMachine, Waiting, Telling, GivenUp
  <2>3. cache.version \in Nat /\ cache.version <= cache.version BY MachineFacts
  <2> QED BY <2>1, <2>2, <2>3, MachineUntouched DEF VersionTold
<1>2. ASSUME NEW n \in Machines, machineToCluster(n) \/ MachinePass(n)
      PROVE  WokenUp(m)'
  <2>1. CASE n # m BY <1>2, <2>1, OtherMachine
  <2>2. CASE n = m
    BY <1>2, <2>2, MachineEventWakes, MachineBeginWakes, CreateWakes, ServeWakes, FailedCallWakes, UpdateWakes
       DEF MachinePass
  <2> QED BY <2>1, <2>2
<1>3. CASE ClusterPass
  BY <1>3, BeginWakes, GroupStepsWake, FailureWakes, ListWakes, TellWakes, WritesWake DEF ClusterPass
<1> QED BY <1>1, <1>2, <1>3, WritesWake, RestartWakes, EventWakes DEF Next

\* Whatever is edited, fails and is retried, conflicts or is read from a cache
\* that lags, a VM whose groups are not yet those of the spec has a wake-up on
\* its way: the annotation that reconcileClusterSecurityGroupsOnVMs writes, an
\* event or a queued key, or a pass that has read the list.  Where there is none
\* an announcement has failed, or HandleCloudError has given up on the machine
\* or on the cluster.
THEOREM WakeUpsAreKept == Spec => []WakeUps
<1>1. Init => WakeUps
  <2> SUFFICES ASSUME Init, NEW m \in Machines PROVE WokenUp(m)
    BY Zenon DEF WakeUps, WokenUp
  <2> QED BY InitWakes
<1>2. IInv /\ WakeUps /\ [Next]_vars => WakeUps'
  <2> SUFFICES ASSUME IInv, WakeUps, [Next]_vars, NEW m \in Machines PROVE WokenUp(m)'
    BY DEF WakeUps, WokenUp
  <2> QED BY StepWakes DEF WakeUps, WokenUp
<1> QED BY <1>1, <1>2, Inductive, PTL DEF Spec

\* So every VM has the groups of the spec when both controllers have come to
\* rest (reconcileClusterSecurityGroupsOnVMs, reconcileVMSecurityGroups), but
\* for what is given up or goes unannounced.
THEOREM SettledAtRest == Spec => []QuietIsSettled
<1>1. IInv /\ WakeUps => QuietIsSettled
  <2> SUFFICES ASSUME IInv, WakeUps, Quiet, cluster.spec # NoConfig, abandoned = "no", NEW m \in Machines \ untold
               PROVE  vm[m] = Wanted(m) \/ m \in rejected \/ (m \in dropped /\ ~machine[m].hasID)
    BY Zenon DEF QuietIsSettled
  <2>1. /\ ToBeTold(m) /\ ToBeServed(m) /\ ToGetAnID(m) /\ ~GivenUp
        /\ ~Telling(m) /\ "cache" \in fresh[m] /\ m \notin mqueued /\ mpass[m].pc = "idle"
    BY DEF WakeUps, Quiet, ClusterQuiet, Telling, GivenUp
  <2>2. cluster.groups = Listed(cluster.spec)
    BY DEF IInv, Settled, Quiet
  <2>3. CASE machine[m].hasID BY <2>1, <2>2, <2>3 DEF ToBeTold, ToBeServed, At
  <2>4. CASE ~machine[m].hasID BY <2>1, <2>4 DEF ToGetAnID, At
  <2> QED BY <2>3, <2>4
<1> QED BY <1>1, Inductive, WakeUpsAreKept, PTL

=============================================================================
