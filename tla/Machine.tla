------------------------------ MODULE Machine ------------------------------
(***************************************************************************)
(* The EvrocMachine controller (internal/controller/                       *)
(* evrocmachine_controller.go) for one machine: the passes of Reconcile,   *)
(* the API server's copy of the object, the informer cache it reads, and   *)
(* the cloud it drives.                                                    *)
(*                                                                         *)
(* A pass runs as a sequence of calls.  Every call to the API server or    *)
(* to the cloud is a step of its own, so that user edits, deletions, cache *)
(* updates, cloud progress and controller crashes fall between any two of  *)
(* them.  One key is never reconciled by two workers at once (the          *)
(* workqueue's guarantee), hence one program counter.                      *)
(*                                                                         *)
(* A resourceVersion is abstracted to "is this copy the current one":      *)
(* snapCurrent and cacheCurrent become FALSE when the stored object        *)
(* changes, and an Update or Status().Update of a copy that is not current *)
(* conflicts.                                                              *)
(***************************************************************************)
EXTENDS Naturals

CONSTANTS
    Zones,             \* the EvrocCluster's failure domains
    DataDisks,         \* names an additional disk of the spec can have
    InlineSGs,         \* names an inline security group of the spec can have
    OwnershipIDs,      \* values uuid.NewString can return
    UIDs,              \* UIDs the cloud gives virtual machines
    None,              \* the empty string / nil pointer
    InitialWants,      \* what the spec asks for when the object is created
    EditedWants,       \* the values a user may later edit it to
    ControlPlane,      \* control plane machine whose cluster manages the endpoint
    ExternalCCM,       \* the cluster has the external-cloud-provider annotation
    ClusterMayGoFirst, \* the EvrocCluster can disappear before the machine
    MaxFaults,         \* bound: calls that fail although nothing forbids them
    MaxCrashes,        \* bound: restarts of the controller process
    MaxEdits           \* bound: spec edits and pause toggles by users

Boot == "boot-disk"
IP == "public-ip"
Disk == {Boot} \cup DataDisks
Resource == Disk \cup InlineSGs \cup {IP}
Dependent == Resource \ {Boot}      \* what the spec can ask for beside the boot disk

ASSUME MachineAssumption ==
    /\ Zones # {} /\ None \notin Zones
    /\ OwnershipIDs # {} /\ None \notin OwnershipIDs
    /\ None \notin UIDs
    /\ Boot \notin DataDisks \cup InlineSGs
    /\ IP \notin DataDisks \cup InlineSGs
    /\ DataDisks \cap InlineSGs = {}
    /\ InitialWants \subseteq SUBSET Dependent
    /\ EditedWants \subseteq SUBSET Dependent
    /\ {ControlPlane, ExternalCCM, ClusterMayGoFirst} \subseteq BOOLEAN
    /\ {MaxFaults, MaxCrashes, MaxEdits} \subseteq Nat

VARIABLES
    obj,          \* the EvrocMachine in the API server
    cache,        \* the informer's copy of it
    cacheCurrent, \* that copy is the stored version
    snap,         \* the running pass's in-memory object
    snapCurrent,  \* its resourceVersion is the stored one
    pc,           \* the call the running pass makes next
    todo,         \* items the current loop of the pass has still to visit
    pending,      \* the pass has met a disk that is not ready
    errs,         \* the deletion pass has collected an error
    seen,         \* UID of the VM the pass got from the cloud
    queued,       \* the key is in the workqueue, maybe after a delay
    res,          \* cloud state of every dependent resource
    owner,        \* its capi_machine-id label
    zoneOf,       \* the zone it was created in
    vm,           \* the virtual machine named after the EvrocMachine
    usedUIDs,     \* UIDs of the VMs created so far
    backend,      \* the VM is in the load balancer's backend pool
    cluster,      \* the EvrocCluster exists
    bootstrap,    \* what CAPI has provided: owner Machine, bootstrap data
    nodeUp,       \* the workload cluster has the machine's Node
    nodeID,       \* that Node's providerID
    faults, crashes, edits

api      == <<obj, cache, cacheCurrent>>
local    == <<snap, snapCurrent, todo, pending, errs, seen>>
deps     == <<res, owner, zoneOf>>
vmState  == <<vm, usedUIDs>>
node     == <<nodeUp, nodeID>>
outside  == <<cluster, bootstrap>>
bounds   == <<faults, crashes, edits>>
vars == <<api, local, pc, queued, deps, vmState, backend, outside, node, bounds>>

-----------------------------------------------------------------------------
(* Types *)

MachineObject ==
    [exists: BOOLEAN, deleting: BOOLEAN, paused: BOOLEAN, finalizer: BOOLEAN,
     ownerID: OwnershipIDs \cup {None},
     wants: SUBSET Dependent,
     providerID: UIDs \cup {None},
     \* status:
     zone: Zones \cup {None}, machineID: UIDs \cup {None},
     ready: BOOLEAN, provisioned: BOOLEAN, tracked: SUBSET DataDisks]

NewMachine(w) ==
    [exists |-> TRUE, deleting |-> FALSE, paused |-> FALSE, finalizer |-> FALSE,
     ownerID |-> None, wants |-> w, providerID |-> None,
     zone |-> None, machineID |-> None,
     ready |-> FALSE, provisioned |-> FALSE, tracked |-> {}]

Blank == [NewMachine({}) EXCEPT !.exists = FALSE]
NoVM == [st |-> "absent", uid |-> None, zone |-> None, uses |-> {}, active |-> {}]

CreatePCs == {"pickZone", "getVM", "boot", "disks", "stale", "flush", "ip", "sgs", "createVM"}
ExistingPCs == {"vmSGs", "vmIP", "vmDisks", "backend", "providerID", "refetch", "status", "link"}
DeletePCs == {"dereg", "deleteVM", "list", "delOwned"}
PCs == {"idle", "persistID", "fail"} \cup CreatePCs \cup ExistingPCs \cup DeletePCs

ApiOK ==
    /\ obj \in MachineObject /\ cache \in MachineObject
    /\ cacheCurrent \in BOOLEAN

PassOK ==
    /\ pc \in PCs /\ queued \in BOOLEAN
    /\ snap \in MachineObject /\ snapCurrent \in BOOLEAN
    /\ todo \in SUBSET Resource
    /\ pending \in BOOLEAN /\ errs \in BOOLEAN
    /\ seen \in UIDs \cup {None}

DepsOK ==
    /\ res \in [Resource -> {"absent", "creating", "ready", "failed", "deleting"}]
    /\ owner \in [Resource -> OwnershipIDs \cup {None}]
    /\ zoneOf \in [Resource -> Zones \cup {None}]

VMOK ==
    /\ vm \in [st: {"absent", "creating", "ready", "deleting"}, uid: UIDs \cup {None},
               zone: Zones \cup {None}, uses: SUBSET Resource, active: SUBSET InlineSGs]
    /\ usedUIDs \in SUBSET UIDs

OutsideOK ==
    /\ backend \in BOOLEAN /\ cluster \in BOOLEAN /\ nodeUp \in BOOLEAN
    /\ bootstrap \in {"noOwner", "noData", "ready"}
    /\ nodeID \in UIDs \cup {None}

BoundsOK == faults \in Nat /\ crashes \in Nat /\ edits \in Nat

TypeOK == ApiOK /\ PassOK /\ DepsOK /\ VMOK /\ OutsideOK /\ BoundsOK

Init ==
    /\ \E w \in InitialWants : obj = NewMachine(w)
    /\ cache = Blank /\ cacheCurrent = FALSE
    /\ snap = Blank /\ snapCurrent = FALSE
    /\ pc = "idle" /\ todo = {} /\ pending = FALSE /\ errs = FALSE /\ seen = None
    /\ queued = FALSE
    /\ res = [r \in Resource |-> "absent"]
    /\ owner = [r \in Resource |-> None]
    /\ zoneOf = [r \in Resource |-> None]
    /\ vm = NoVM /\ usedUIDs = {} /\ backend = FALSE
    /\ cluster = TRUE /\ bootstrap = "noOwner"
    /\ nodeUp = FALSE /\ nodeID = None
    /\ faults = 0 /\ crashes = 0 /\ edits = 0

-----------------------------------------------------------------------------
(* Building blocks of a pass *)

Fault == faults < MaxFaults /\ faults' = faults + 1 /\ UNCHANGED <<crashes, edits>>

\* The pass returns.  An event that arrived during the pass has already set
\* queued; requeue is the pass's own RequeueAfter or returned error.
Return(requeue) ==
    /\ pc' = "idle"
    /\ queued' = (queued \/ requeue)
    /\ snap' = Blank /\ snapCurrent' = FALSE
    /\ todo' = {} /\ pending' = FALSE /\ errs' = FALSE /\ seen' = None

\* The pass goes on with the call at label l, nothing in memory having changed.
Go(l) == pc' = l /\ UNCHANGED <<queued, local>>

\* Mutant: the zone stays in memory.
WithStatusButZone(o, s) ==
    [o EXCEPT !.machineID = s.machineID, !.ready = s.ready,
              !.provisioned = s.provisioned, !.tracked = s.tracked]

\* Status().Update and Update store the in-memory object's status, respectively
\* its metadata and spec.
WithStatus(o, s) ==
    [o EXCEPT !.zone = s.zone, !.machineID = s.machineID, !.ready = s.ready,
              !.provisioned = s.provisioned, !.tracked = s.tracked]
WithSpec(o, s) ==
    [o EXCEPT !.finalizer = s.finalizer, !.ownerID = s.ownerID, !.providerID = s.providerID]

\* Mutant: writes do not carry the resourceVersion they are based on.
StoreAnyway(o) ==
    /\ obj' = o
    /\ cacheCurrent' = (cacheCurrent /\ o = obj)
    /\ UNCHANGED cache

\* The API server accepts a write of the current version and answers with the
\* stored object.  A write that changes nothing makes no new version.
Store(o) ==
    /\ snapCurrent
    /\ obj' = o
    /\ cacheCurrent' = (cacheCurrent /\ o = obj)
    /\ UNCHANGED cache

Conflict == ~snapCurrent /\ UNCHANGED <<api, bounds>>
Refused == Conflict \/ (Fault /\ UNCHANGED api)

\* r exists and is not on its way out.
Present(r) == res[r] \notin {"absent", "deleting"}

\* The cloud accepts the creation of r, labelled with the machine's ownership ID.
Provision(r, st) ==
    /\ res' = [res EXCEPT ![r] = st]
    /\ owner' = [owner EXCEPT ![r] = snap.ownerID]
    /\ zoneOf' = [zoneOf EXCEPT ![r] = IF r \in Disk THEN snap.zone ELSE None]

\* The cloud accepts the deletion of r; an unknown r is a NotFound, tolerated.
Deleted(r) == res' = [res EXCEPT ![r] = IF @ = "absent" THEN "absent" ELSE "deleting"]

\* A cloud call that failed leaves through handleMachineError.
Fail == pc' = "fail" /\ UNCHANGED <<queued, local>>

-----------------------------------------------------------------------------
(* Reconcile: what a pass does before reconcileNormal *)

\* r.Get(req) reads the cache.  Nothing to do: the object is gone, is paused, or
\* is being deleted without our finalizer.
BeginIgnored ==
    /\ pc = "idle" /\ queued
    /\ \/ ~cache.exists
       \/ cache.paused
       \/ cluster /\ cache.deleting /\ ~cache.finalizer
    /\ queued' = FALSE
    /\ UNCHANGED <<api, local, pc, deps, vmState, backend, outside, node, bounds>>

\* Without an EvrocCluster resolveCloudClient fails and the pass is retried
\* with nothing done: no Begin action below is enabled.
Begin(s, l) ==
    /\ pc = "idle" /\ queued
    /\ cache.exists /\ ~cache.paused /\ cluster
    /\ pc' = l /\ queued' = FALSE
    /\ snap' = s /\ snapCurrent' = cacheCurrent
    /\ UNCHANGED <<api, todo, pending, errs, seen, deps, vmState, backend, outside, node, bounds>>

\* Mutant: the pass goes on before the ownership ID is stored.
BeginUnstored ==
    /\ ~cache.deleting
    /\ \E id \in OwnershipIDs :
          Begin([cache EXCEPT !.finalizer = TRUE,
                              !.ownerID = IF @ = None THEN id ELSE @], "pickZone")

\* ensureOwnershipID and EnsureFinalizer change the object in memory ...
BeginAdoption ==
    /\ ~cache.deleting
    /\ ~cache.finalizer \/ cache.ownerID = None
    /\ \E id \in OwnershipIDs :
          Begin([cache EXCEPT !.finalizer = TRUE,
                              !.ownerID = IF @ = None THEN id ELSE @], "persistID")

\* ... and one Update stores both before anything is created.
PersistID ==
    /\ pc = "persistID"
    /\ \/ Store(WithSpec(obj, snap)) /\ UNCHANGED bounds
       \/ Refused
    /\ Return(TRUE)
    /\ UNCHANGED <<deps, vmState, backend, outside, node>>

BeginNormal ==
    /\ ~cache.deleting /\ cache.finalizer /\ cache.ownerID # None
    /\ Begin(cache, "pickZone")

\* deleteMachineFromCloud refuses a machine without ownership ID.
BeginDelete ==
    /\ cache.deleting /\ cache.finalizer /\ cache.ownerID # None
    /\ Begin(cache, IF ControlPlane THEN "dereg" ELSE "deleteVM")

\* handleMachineError: Ready=False and the status stored if that is possible,
\* then a retry.  Errors of the bad-request class, which are not retried, are
\* left out.
HandleError ==
    /\ pc = "fail"
    /\ LET s == [snap EXCEPT !.ready = FALSE]
       IN  \/ Store(WithStatus(obj, s)) /\ UNCHANGED bounds
           \/ Refused
    /\ Return(TRUE)
    /\ UNCHANGED <<deps, vmState, backend, outside, node>>

-----------------------------------------------------------------------------
(* reconcileNormal up to the creation of the VM *)

\* Before the owner reference is set nothing happens.  A zone is picked once
\* and stored before any cloud call; which one is picked depends on the owner
\* Machine and on the other machines (module Fleet).
PickZone ==
    /\ pc = "pickZone"
    /\ \/ bootstrap = "noOwner" /\ Return(TRUE) /\ UNCHANGED <<api, bounds>>
       \/ bootstrap # "noOwner" /\ snap.zone # None /\ Go("getVM") /\ UNCHANGED <<api, bounds>>
       \/ /\ bootstrap # "noOwner" /\ snap.zone = None
          /\ \E z \in Zones :
               LET s == [snap EXCEPT !.zone = z]
               IN  /\ snap' = s
                   /\ \/ Store(WithStatus(obj, s)) /\ pc' = "getVM" /\ UNCHANGED bounds
                      \/ Refused /\ pc' = "fail"
          /\ UNCHANGED <<queued, snapCurrent, todo, pending, errs, seen>>
    /\ UNCHANGED <<deps, vmState, backend, outside, node>>

\* Mutant: the status is written first, the providerID never.
StatusAfterAttachments == "status"

\* Mutant: the providerID is set again for whatever VM the cloud has now.
ProviderIDAfterAttachments == "providerID"

\* Where a pass over an existing VM goes once the VM's attachments are done.
AfterAttachments ==
    IF ControlPlane THEN "backend"
    ELSE IF snap.providerID # None \/ ExternalCCM THEN "status" ELSE "providerID"

\* The cloud, not the status, tells whether the VM exists.
GetVM ==
    /\ pc = "getVM"
    /\ \/ /\ vm.st = "absent" /\ UNCHANGED bounds
          /\ IF bootstrap = "ready" THEN Go("boot") ELSE Return(TRUE)
       \/ /\ vm.st \in {"creating", "deleting"} /\ UNCHANGED bounds
          /\ Return(TRUE)
       \/ /\ vm.st = "ready" /\ UNCHANGED bounds
          /\ seen' = vm.uid
          /\ pc' = IF snap.machineID # None THEN "vmSGs" ELSE AfterAttachments
          /\ UNCHANGED <<queued, snap, snapCurrent, todo, pending, errs>>
       \/ Fault /\ Fail
    /\ UNCHANGED <<api, deps, vmState, backend, outside, node>>

\* Start visiting the items of one kind the spec asks for.
Loop(l, items) ==
    /\ pc' = l /\ todo' = items
    /\ UNCHANGED <<queued, snap, snapCurrent, pending, errs, seen>>

BootDisk ==
    /\ pc = "boot"
    /\ \/ /\ res[Boot] = "absent" /\ Provision(Boot, "creating")
          /\ (Go("flush") /\ UNCHANGED bounds) \/ (Fault /\ Fail)
       \/ Fault /\ Fail /\ UNCHANGED deps
       \/ /\ res[Boot] \in {"creating", "deleting"}
          /\ Return(TRUE) /\ UNCHANGED <<deps, bounds>>
       \/ res[Boot] = "failed" /\ Fail /\ UNCHANGED <<deps, bounds>>
       \/ res[Boot] = "ready" /\ Loop("disks", snap.wants \cap DataDisks) /\ UNCHANGED <<deps, bounds>>
    /\ UNCHANGED <<api, vmState, backend, outside, node>>

\* Mutant: no RequeueAfter.
FlushAndForget ==
    /\ pc = "flush"
    /\ Store(WithStatus(obj, snap)) /\ UNCHANGED bounds
    /\ Return(FALSE)
    /\ UNCHANGED <<deps, vmState, backend, outside, node>>

\* persistResourcesStatus after something was created, then a requeue.
Flush ==
    /\ pc = "flush"
    /\ \/ Store(WithStatus(obj, snap)) /\ UNCHANGED bounds
       \/ Refused
    /\ Return(TRUE)
    /\ UNCHANGED <<deps, vmState, backend, outside, node>>

\* reconcileAdditionalDisks, one disk of the spec.
VisitDisk(d) ==
    /\ pc = "disks" /\ d \in todo
    /\ \/ /\ res[d] = "absent" /\ Provision(d, "creating")
          /\ \/ /\ todo' = todo \ {d} /\ pending' = TRUE
                /\ UNCHANGED <<pc, queued, snap, snapCurrent, errs, seen, bounds>>
             \/ Fault /\ Fail
       \/ Fault /\ Fail /\ UNCHANGED deps
       \/ res[d] = "failed" /\ Fail /\ UNCHANGED <<deps, bounds>>
       \/ /\ res[d] \in {"creating", "deleting", "ready"}
          /\ todo' = todo \ {d}
          /\ pending' = (pending \/ res[d] # "ready")
          /\ UNCHANGED <<pc, queued, snap, snapCurrent, errs, seen, deps, bounds>>
    /\ UNCHANGED <<api, vmState, backend, outside, node>>

\* Mutant: every tracked disk is taken for stale.
DisksVisitedAllStale ==
    /\ pc = "disks" /\ todo = {}
    /\ \/ /\ pending
          /\ snap' = [snap EXCEPT !.tracked = snap.wants \cap DataDisks]
          /\ pc' = "flush"
          /\ UNCHANGED <<queued, snapCurrent, todo, pending, errs, seen>>
       \/ ~pending /\ Loop("stale", snap.tracked)
    /\ UNCHANGED <<api, deps, vmState, backend, outside, node, bounds>>

\* All visited.  If one is not ready the status now tracks the disks of the
\* spec and the pass ends; otherwise the tracked disks the spec no longer
\* names are deleted first.
DisksVisited ==
    /\ pc = "disks" /\ todo = {}
    /\ \/ /\ pending
          /\ snap' = [snap EXCEPT !.tracked = snap.wants \cap DataDisks]
          /\ pc' = "flush"
          /\ UNCHANGED <<queued, snapCurrent, todo, pending, errs, seen>>
       \/ ~pending /\ Loop("stale", snap.tracked \ snap.wants)
    /\ UNCHANGED <<api, deps, vmState, backend, outside, node, bounds>>

DeleteStaleDisk(d) ==
    /\ pc = "stale" /\ d \in todo
    /\ \/ Deleted(d) /\ Loop("stale", todo \ {d}) /\ UNCHANGED bounds
       \/ Fault /\ Fail /\ (Deleted(d) \/ UNCHANGED res)
    /\ UNCHANGED <<api, owner, zoneOf, vmState, backend, outside, node>>

\* Mutant: the status tracks all that the spec asks for.
StaleDisksDeletedTrackAll ==
    /\ pc = "stale" /\ todo = {}
    /\ snap' = [snap EXCEPT !.tracked = snap.wants]
    /\ pc' = "ip"
    /\ UNCHANGED <<api, queued, snapCurrent, todo, pending, errs, seen,
                   deps, vmState, backend, outside, node, bounds>>

StaleDisksDeleted ==
    /\ pc = "stale" /\ todo = {}
    /\ snap' = [snap EXCEPT !.tracked = snap.wants \cap DataDisks]
    /\ pc' = "ip"
    /\ UNCHANGED <<api, queued, snapCurrent, todo, pending, errs, seen,
                   deps, vmState, backend, outside, node, bounds>>

\* reconcilePublicIPCreation; an IP without address keeps the machine waiting.
PublicIP ==
    /\ pc = "ip"
    /\ LET next == Loop("sgs", snap.wants \cap InlineSGs)
       IN  \/ IP \notin snap.wants /\ next /\ UNCHANGED <<deps, bounds>>
           \/ IP \in snap.wants /\ res[IP] \in {"ready", "deleting"} /\ next /\ UNCHANGED <<deps, bounds>>
           \/ IP \in snap.wants /\ res[IP] = "creating" /\ Go("flush") /\ UNCHANGED <<deps, bounds>>
           \/ /\ IP \in snap.wants /\ res[IP] = "absent" /\ Provision(IP, "creating")
              /\ (Go("flush") /\ UNCHANGED bounds) \/ (Fault /\ Fail)
           \/ IP \in snap.wants /\ Fault /\ Fail /\ UNCHANGED deps
    /\ UNCHANGED <<api, vmState, backend, outside, node>>

\* reconcileMachineSecurityGroups: create what is missing (rules are not
\* modelled, so updating an existing group changes nothing).
VisitSG(g) ==
    /\ pc = "sgs" /\ g \in todo
    /\ \/ /\ res[g] = "absent" /\ Provision(g, "ready")
          /\ (Loop("sgs", todo \ {g}) /\ UNCHANGED bounds) \/ (Fault /\ Fail)
       \/ Fault /\ Fail /\ UNCHANGED deps
       \/ res[g] # "absent" /\ Loop("sgs", todo \ {g}) /\ UNCHANGED <<deps, bounds>>
    /\ UNCHANGED <<api, vmState, backend, outside, node>>

SGsVisited ==
    /\ pc = "sgs" /\ todo = {}
    /\ Go("createVM")
    /\ UNCHANGED <<api, deps, vmState, backend, outside, node, bounds>>

\* buildVMRequest and VirtualMachines().Create; the status is not touched.
NewVM ==
    \E u \in UIDs \ usedUIDs :
        /\ vm' = [st |-> "creating", uid |-> u, zone |-> snap.zone,
                  uses |-> {Boot} \cup snap.wants, active |-> {}]
        /\ usedUIDs' = usedUIDs \cup {u}

CreateVM ==
    /\ pc = "createVM"
    /\ \/ NewVM /\ Return(TRUE) /\ UNCHANGED bounds
       \/ Fault /\ Fail /\ (NewVM \/ UNCHANGED vmState)
    /\ UNCHANGED <<api, deps, backend, outside, node>>

-----------------------------------------------------------------------------
(* reconcileExistingVM: the VM was ready when the pass looked *)

\* A patch of the VM, which makes it use what "uses" says.  The cloud refuses to
\* attach what it does not have or is deleting; how it answers is external to
\* the repository.
Attach(attached, uses, next) ==
    \/ /\ vm.st # "absent" /\ \A r \in attached : Present(r)
       /\ vm' = [vm EXCEPT !.uses = uses]
       /\ \/ Go(next) /\ UNCHANGED bounds
          \/ Fault /\ Fail
    \/ /\ vm.st = "absent" \/ \E r \in attached : ~Present(r)
       /\ Fail /\ UNCHANGED <<vm, bounds>>
    \/ Fault /\ Fail /\ UNCHANGED vm

\* The VM as the cloud reports it needs no patch.
AlreadyDone(next) ==
    /\ vm.st # "absent" /\ UNCHANGED vm
    /\ \/ Go(next) /\ UNCHANGED bounds
       \/ Fault /\ Fail

\* reconcileVMSecurityGroups and UpdateSecurityGroups: the groups are patched
\* unless the VM's active memberships already equal the wanted ones.
UpdateVMSGs ==
    /\ pc = "vmSGs"
    /\ LET wanted == snap.wants \cap InlineSGs
       IN  \/ vm.active = wanted /\ AlreadyDone("vmIP")
           \/ /\ vm.active # wanted \/ vm.st = "absent"
              /\ Attach(wanted, (vm.uses \ InlineSGs) \cup wanted, "vmIP")
    /\ UNCHANGED <<api, deps, usedUIDs, backend, outside, node>>

\* reconcilePublicIPAttachment attaches and never detaches.
UpdateVMIP ==
    /\ pc = "vmIP"
    /\ \/ IP \notin snap.wants /\ Go("vmDisks") /\ UNCHANGED <<vm, bounds>>
       \/ IP \in snap.wants \cap vm.uses /\ AlreadyDone("vmDisks")
       \/ /\ IP \in snap.wants /\ (IP \notin vm.uses \/ vm.st = "absent")
          /\ Attach({IP}, vm.uses \cup {IP}, "vmDisks")
    /\ UNCHANGED <<api, deps, usedUIDs, backend, outside, node>>

\* reconcileVMDisks replaces the VM's disks by those of the spec.
UpdateVMDisks ==
    /\ pc = "vmDisks"
    /\ LET wanted == {Boot} \cup (snap.wants \cap DataDisks)
       IN  Attach(wanted, (vm.uses \ Disk) \cup wanted, AfterAttachments)
    /\ UNCHANGED <<api, deps, usedUIDs, backend, outside, node>>

\* reconcileLBBackend.  The pool goes with the EvrocCluster's load balancer;
\* without it AddBackend fails.
AddBackend ==
    /\ pc = "backend"
    /\ LET next == IF snap.providerID # None \/ ExternalCCM THEN "status" ELSE "providerID"
       IN  \/ cluster /\ backend' = TRUE /\ Go(next) /\ UNCHANGED bounds
           \/ Fault /\ Fail /\ backend' \in {backend, cluster}
           \/ ~cluster /\ Fail /\ UNCHANGED <<backend, bounds>>
    /\ UNCHANGED <<api, deps, vmState, outside, node>>

\* ensureMachineProviderID: Update, then read the object back from the cache.
SetProviderID ==
    /\ pc = "providerID"
    /\ LET s == [snap EXCEPT !.providerID = seen]
       IN  \/ /\ Store(WithSpec(obj, s)) /\ UNCHANGED bounds
              /\ pc' = "refetch" /\ snap' = s
              /\ UNCHANGED <<queued, snapCurrent, todo, pending, errs, seen>>
           \/ Refused /\ Return(obj.exists)
    /\ UNCHANGED <<deps, vmState, backend, outside, node>>

Refetch ==
    /\ pc = "refetch"
    /\ \/ /\ cache.exists
          /\ snap' = cache /\ snapCurrent' = cacheCurrent
          /\ pc' = "status" /\ UNCHANGED <<queued, todo, pending, errs, seen>>
       \/ ~cache.exists /\ Return(FALSE)
    /\ UNCHANGED <<api, deps, vmState, backend, outside, node, bounds>>

\* Ready, MachineID and Initialization.Provisioned in one Status().Update.
UpdateStatus ==
    /\ pc = "status"
    /\ LET s == [snap EXCEPT !.ready = TRUE, !.machineID = seen, !.provisioned = TRUE]
       IN  \/ /\ Store(WithStatus(obj, s)) /\ UNCHANGED bounds
              /\ pc' = "link" /\ snap' = s
              /\ UNCHANGED <<queued, snapCurrent, todo, pending, errs, seen>>
           \/ Refused /\ Return(TRUE)
    /\ UNCHANGED <<deps, vmState, backend, outside, node>>

\* patchNodeProviderID, or adoptNodeProviderID under an external CCM, whose
\* Patch carries no resourceVersion.  Retried until the node is linked.
LinkNode ==
    /\ pc = "link"
    /\ \/ ~nodeUp /\ Return(TRUE) /\ UNCHANGED <<api, node, bounds>>
       \/ Fault /\ Return(TRUE) /\ UNCHANGED <<api, node>>
       \/ /\ nodeUp /\ ~ExternalCCM /\ UNCHANGED <<api, bounds>>
          /\ \/ snap.providerID = None /\ Return(TRUE) /\ UNCHANGED node
             \/ /\ snap.providerID # None /\ Return(FALSE)
                /\ nodeID' = snap.providerID /\ UNCHANGED nodeUp
       \/ /\ nodeUp /\ ExternalCCM /\ UNCHANGED <<node, bounds>>
          /\ \/ snap.providerID # None /\ Return(FALSE) /\ UNCHANGED api
             \/ snap.providerID = None /\ nodeID = None /\ Return(TRUE) /\ UNCHANGED api
             \/ /\ snap.providerID = None /\ nodeID # None
                /\ obj' = IF obj.exists THEN [obj EXCEPT !.providerID = nodeID] ELSE obj
                /\ cacheCurrent' = (cacheCurrent /\ obj' = obj)
                /\ UNCHANGED cache
                /\ Return(~obj.exists)
    /\ UNCHANGED <<deps, vmState, backend, outside>>

-----------------------------------------------------------------------------
(* deleteMachineFromCloud *)

\* Mutant: a failed deregistration is forgotten.
DeregisterBestEffort ==
    /\ pc = "dereg"
    /\ \/ backend' = FALSE /\ UNCHANGED bounds
       \/ cluster /\ Fault /\ backend' \in {backend, FALSE}
    /\ pc' = "deleteVM"
    /\ UNCHANGED <<api, queued, snap, snapCurrent, todo, pending, errs, seen,
                   deps, vmState, outside, node>>

\* RemoveBackend; an error is kept and does not stop the pass.  When the
\* EvrocCluster is gone so is its load balancer.
Deregister ==
    /\ pc = "dereg"
    /\ \/ backend' = FALSE /\ UNCHANGED <<errs, bounds>>
       \/ cluster /\ Fault /\ errs' = TRUE /\ backend' \in {backend, FALSE}
    /\ pc' = "deleteVM"
    /\ UNCHANGED <<api, queued, snap, snapCurrent, todo, pending, seen,
                   deps, vmState, outside, node>>

\* Mutant: what the VM uses is deleted while it shuts down.
DeleteVMWithoutWaiting ==
    /\ pc = "deleteVM"
    /\ vm' = IF vm.st = "absent" THEN vm ELSE [vm EXCEPT !.st = "deleting"]
    /\ Go("list") /\ UNCHANGED bounds
    /\ UNCHANGED <<api, deps, usedUIDs, backend, outside, node>>

\* Mutant: no requeue once the deletion has been submitted.
DeleteVMAndForget ==
    /\ pc = "deleteVM"
    /\ \/ vm.st # "absent" /\ vm' = [vm EXCEPT !.st = "deleting"] /\ Return(FALSE)
       \/ vm.st = "absent" /\ Go("list") /\ UNCHANGED vm
    /\ UNCHANGED <<api, deps, usedUIDs, backend, outside, node, bounds>>

\* Deletion is asynchronous: submit it and come back (errors collected so far
\* are dropped); go on only once the cloud no longer has the VM.
DeleteVM ==
    /\ pc = "deleteVM"
    /\ LET submit == vm' = [vm EXCEPT !.st = "deleting"]
       IN  \/ vm.st # "absent" /\ submit /\ Return(TRUE) /\ UNCHANGED bounds
           \/ vm.st = "absent" /\ Go("list") /\ UNCHANGED <<vm, bounds>>
           \/ Fault /\ Return(TRUE) /\ (UNCHANGED vm \/ (vm.st # "absent" /\ submit))
    /\ UNCHANGED <<api, deps, usedUIDs, backend, outside, node>>

\* Mutant: what is still being created is not looked at.
OwnedIfReady == {r \in Resource : res[r] = "ready" /\ owner[r] = snap.ownerID}

\* The dependents are found by label.  Security groups, IPs and disks are
\* listed one after the other; a listing that fails leaves its kind for the
\* next pass.  Nobody else creates a resource with this label meanwhile, so
\* the three listings are one step.
Owned == {r \in Resource : res[r] # "absent" /\ owner[r] = snap.ownerID}

ListOwned ==
    /\ pc = "list"
    /\ \/ Loop("delOwned", Owned) /\ UNCHANGED bounds
       \/ /\ Fault
          /\ \E failed \in SUBSET {InlineSGs, {IP}, Disk} \ {{}} : todo' = Owned \ UNION failed
          /\ errs' = TRUE /\ pc' = "delOwned"
          /\ UNCHANGED <<queued, snap, snapCurrent, pending, seen>>
    /\ UNCHANGED <<api, deps, vmState, backend, outside, node>>

DeleteOwned(r) ==
    /\ pc = "delOwned" /\ r \in todo
    /\ todo' = todo \ {r}
    /\ \/ Deleted(r) /\ UNCHANGED <<errs, bounds>>
       \/ Fault /\ errs' = TRUE /\ (Deleted(r) \/ UNCHANGED res)
    /\ UNCHANGED <<api, pc, queued, snap, snapCurrent, pending, seen,
                   owner, zoneOf, vmState, backend, outside, node>>

\* HandleDeletion: any error keeps the finalizer for the next pass; otherwise
\* RemoveFinalizer's Update lets the API server drop the object.
FinishDelete ==
    /\ pc = "delOwned" /\ todo = {}
    /\ \/ errs /\ Return(TRUE) /\ UNCHANGED <<api, bounds>>
       \/ /\ ~errs /\ UNCHANGED bounds
          /\ Store([obj EXCEPT !.finalizer = FALSE, !.exists = FALSE])
          /\ Return(FALSE)
       \/ ~errs /\ Refused /\ Return(TRUE)
    /\ UNCHANGED <<deps, vmState, backend, outside, node>>

-----------------------------------------------------------------------------
(* The environment of the controller *)

\* A watch event reaches the informer and enqueues the key.
CacheSync ==
    /\ ~cacheCurrent
    /\ cache' = obj /\ cacheCurrent' = TRUE /\ queued' = TRUE
    /\ UNCHANGED <<obj, local, pc, deps, vmState, backend, outside, node, bounds>>

\* The controller process dies in the middle of a pass.  The new one lists the
\* objects and enqueues them all.
Crash ==
    /\ pc # "idle" /\ crashes < MaxCrashes
    /\ crashes' = crashes + 1
    /\ cache' = obj /\ cacheCurrent' = TRUE
    /\ pc' = "idle" /\ queued' = TRUE
    /\ snap' = Blank /\ snapCurrent' = FALSE
    /\ todo' = {} /\ pending' = FALSE /\ errs' = FALSE /\ seen' = None
    /\ UNCHANGED <<obj, deps, vmState, backend, outside, node, faults, edits>>

\* Somebody else writes the stored object.
Write(o) ==
    /\ obj.exists /\ o # obj
    /\ obj' = o /\ cacheCurrent' = FALSE /\ snapCurrent' = FALSE
    /\ UNCHANGED <<cache, snap, todo, pending, errs, seen, pc, queued, deps,
                   vmState, backend, outside, node, faults, crashes>>

UserDelete ==
    /\ ~obj.deleting
    /\ Write([obj EXCEPT !.deleting = TRUE, !.exists = obj.finalizer])
    /\ UNCHANGED edits

UserEdit ==
    /\ edits < MaxEdits /\ edits' = edits + 1
    /\ \/ \E w \in EditedWants : Write([obj EXCEPT !.wants = w])
       \/ Write([obj EXCEPT !.paused = ~@])

\* CAPI sets the owner reference, then the bootstrap provider the secret.
Bootstrap ==
    /\ \/ bootstrap = "noOwner" /\ bootstrap' = "noData"
       \/ bootstrap = "noData" /\ bootstrap' = "ready"
    /\ UNCHANGED <<api, local, pc, queued, deps, vmState, backend, cluster, node, bounds>>

ClusterGone ==
    /\ ClusterMayGoFirst /\ cluster
    /\ cluster' = FALSE /\ backend' = FALSE
    /\ UNCHANGED <<api, local, pc, queued, deps, vmState, bootstrap, node, bounds>>

\* The cloud finishes what it has accepted.
CloudProgress ==
    /\ \/ /\ \E r \in Resource :
               \/ res[r] = "creating" /\ res' = [res EXCEPT ![r] = "ready"]
               \/ res[r] = "deleting" /\ res' = [res EXCEPT ![r] = "absent"]
          /\ UNCHANGED vm
       \/ /\ \/ vm.st = "creating" /\ vm' = [vm EXCEPT !.st = "ready"]
             \/ vm.st = "deleting" /\ vm' = NoVM
             \/ /\ vm.st = "ready" /\ vm.active # vm.uses \cap InlineSGs
                /\ vm' = [vm EXCEPT !.active = vm.uses \cap InlineSGs]
          /\ UNCHANGED res
    /\ UNCHANGED <<api, local, pc, queued, owner, zoneOf, usedUIDs, backend, outside, node, bounds>>

\* A disk cannot be built from its image.
DiskFails ==
    /\ Fault
    /\ \E d \in Disk : res[d] = "creating" /\ res' = [res EXCEPT ![d] = "failed"]
    /\ UNCHANGED <<api, local, pc, queued, owner, zoneOf, vmState, backend, outside, node>>

\* Somebody removes the VM behind the controller's back.
VMLost ==
    /\ vm.st = "ready" /\ usedUIDs # UIDs
    /\ vm' = NoVM
    /\ UNCHANGED <<api, local, pc, queued, deps, usedUIDs, backend, outside, node, bounds>>

\* The kubelet registers the node; an external CCM gives it its providerID.
NodeProgress ==
    /\ vm.st = "ready"
    /\ \/ ~nodeUp /\ nodeUp' = TRUE /\ UNCHANGED nodeID
       \/ ExternalCCM /\ nodeUp /\ nodeID = None /\ nodeID' = vm.uid /\ UNCHANGED nodeUp
    /\ UNCHANGED <<api, local, pc, queued, deps, vmState, backend, outside, bounds>>

-----------------------------------------------------------------------------
Pass ==
    \/ BeginIgnored \/ BeginAdoption \/ BeginNormal \/ BeginDelete
    \/ PersistID \/ HandleError
    \/ PickZone \/ GetVM \/ BootDisk \/ Flush
    \/ DisksVisited \/ StaleDisksDeleted \/ PublicIP \/ SGsVisited \/ CreateVM
    \/ \E d \in DataDisks : VisitDisk(d) \/ DeleteStaleDisk(d)
    \/ \E g \in InlineSGs : VisitSG(g)
    \/ UpdateVMSGs \/ UpdateVMIP \/ UpdateVMDisks \/ AddBackend
    \/ SetProviderID \/ Refetch \/ UpdateStatus \/ LinkNode
    \/ Deregister \/ DeleteVM \/ ListOwned \/ FinishDelete
    \/ \E r \in Resource : DeleteOwned(r)

Environment ==
    \/ Crash \/ UserDelete \/ UserEdit \/ ClusterGone \/ DiskFails \/ VMLost
    \/ CacheSync \/ Bootstrap \/ CloudProgress \/ NodeProgress

Next == Pass \/ Environment

Spec == Init /\ [][Next]_vars

\* The workqueue runs queued keys and a running pass goes on; watch events
\* arrive; CAPI, the cloud and the kubelet finish what they have begun.  Users,
\* crashes and failures owe nothing.
Fairness ==
    /\ WF_vars(Pass) /\ WF_vars(CacheSync) /\ WF_vars(Bootstrap)
    /\ WF_vars(CloudProgress) /\ WF_vars(NodeProgress)

FairSpec == Spec /\ Fairness

-----------------------------------------------------------------------------
(* Safety *)

\* The finalizer is what ties the cloud to the object: once the object is gone
\* (RemoveFinalizer, or a deletion before the finalizer was stored) the VM is
\* gone, every dependent has been given up, and the pool has no backend left
\* that points to the VM.
NoLeak ==
    ~obj.exists => /\ vm.st = "absent"
                   /\ \A r \in Resource : ~Present(r)
                   /\ ~backend

\* Teardown finds resources by the capi_machine-id label, so while the object
\* exists every resource the controller made must carry the stored ownership
\* ID, under any interleaving of conflicts, stale reads and restarts.
FoundByLabel ==
    obj.exists =>
        /\ \A r \in Resource : res[r] # "absent" => owner[r] = obj.ownerID /\ owner[r] # None
        /\ vm.st # "absent" => obj.finalizer

\* "A zone is assigned once and kept": the disks a VM is created with, and the
\* VM, are in the one zone stored in the status.
OneZone ==
    /\ vm.st # "absent" => vm.zone = obj.zone /\ vm.zone # None
    /\ \A d \in Disk : res[d] # "absent" => zoneOf[d] = obj.zone /\ zoneOf[d] # None

\* A VM never refers to a disk, address or group that the controller has
\* deleted or has not created yet.
NothingDangling ==
    vm.st # "absent" => \A r \in vm.uses : Present(r)

\* No dependent is given up while the VM, even one that is shutting down,
\* still exists: deleteMachineFromCloud waits for it, and stale disks are only
\* deleted before the VM is created.
VMGoesFirst ==
    [][\A r \in Resource : Present(r) /\ ~Present(r)' => vm.st = "absent"]_vars

\* A stale pass never overwrites what is written once: the ownership ID, the
\* zone and the providerID.
WrittenOnce ==
    [][/\ obj.ownerID # None => obj'.ownerID = obj.ownerID
       /\ obj.zone # None => obj'.zone = obj.zone
       /\ obj.providerID # None => obj'.providerID = obj.providerID]_vars

\* CAPI reads Initialization.Provisioned: by then spec.providerID is set
\* ("before the status update, to avoid a race"), also when the object was
\* read back from a cache that has not seen that write.  Under an external CCM
\* the node sets it later.
ProvisionedHasProviderID ==
    obj.provisioned /\ ~ExternalCCM => obj.providerID # None

\* Node and machine carry the same providerID, whichever of them gets it first:
\* the machine, or under an external CCM the node.
NodeLinked ==
    IF ExternalCCM THEN obj.providerID # None => obj.providerID = nodeID
                   ELSE nodeID # None => nodeID = obj.providerID

(* Refinement: the machine is a finalizer claim on its cloud resources *)

claim == IF ~obj.exists THEN "released" ELSE IF obj.finalizer THEN "claimed" ELSE "unclaimed"
held  == {r \in Resource : Present(r)}
Claim == INSTANCE ResourceClaim WITH running <- vm.st # "absent"

\* The controller's passes implement ResourceClaim: nothing is acquired before
\* the finalizer is stored, nothing is given up under a VM, and the finalizer
\* goes last.
ImplementsClaim == Claim!Spec

(* Liveness *)

\* A deletion finishes, whatever the pass was doing when it arrived, unless the
\* object is paused or its EvrocCluster is gone.
DeletionCompletes ==
    obj.exists /\ obj.deleting ~> ~obj.exists \/ obj.paused \/ ~cluster

\* A machine becomes ready and its node is linked, unless it is deleted or
\* paused or one of its disks can never be built.
BecomesReady ==
    <>(\/ obj.ready /\ nodeID # None /\ nodeID = obj.providerID
       \/ obj.deleting \/ obj.paused \/ ~cluster
       \/ \E d \in Disk : res[d] = "failed")

-----------------------------------------------------------------------------
(* What comments of the code say and the code does not do *)

\* "During deletion the EvrocCluster may already be gone" (deleteMachineFromCloud,
\* line 629): a deletion then finishes too, unless the object is paused.
DeletionOutlivesCluster == obj.exists /\ obj.deleting ~> ~obj.exists \/ obj.paused

\* "This allows users to add/remove additional disks without destroying the VM"
\* (reconcileExistingVM, line 498): a disk added to a running machine comes to be.
AddedDiskIsMade ==
    \A d \in DataDisks :
        vm.st = "ready" /\ d \in obj.wants ~>
            \/ res[d] # "absent" \/ d \notin obj.wants
            \/ obj.deleting \/ obj.paused \/ vm.st # "ready"

=============================================================================
