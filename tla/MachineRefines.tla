--------------------------- MODULE MachineRefines ---------------------------
(***************************************************************************)
(* Machine implements ResourceClaim: proved from the inductive invariant.  *)
(***************************************************************************)
EXTENDS MachineProofs

LEMMA Unmoved ==
    ASSUME UNCHANGED <<obj.exists, obj.finalizer, res>>, UNCHANGED (vm.st # "absent")
    PROVE  UNCHANGED Claim!claimVars
BY DEF Claim!claimVars, claim, held, Present

LEMMA ClaimKept ==
    ASSUME UNCHANGED <<obj.exists, obj.finalizer>> PROVE claim' = claim
BY DEF claim

LEMMA HeldKept == ASSUME UNCHANGED res PROVE held' = held
BY DEF held, Present

\* A creation acquires.
LEMMA ProvisionAcquires ==
    ASSUME TypeOK, NEW r \in Resource, NEW st \in {"creating", "ready"}, claim = "claimed",
           Provision(r, st), UNCHANGED <<obj, vmState>>
    PROVE  [Claim!Next]_(Claim!claimVars)
<1>1. res' = [res EXCEPT ![r] = st] BY DEF Provision
<1>2. Present(r)' /\ \A q \in Resource \ {r} : Present(q)' <=> Present(q)
  BY <1>1 DEF TypeOK, DepsOK, Present
<1>3. held' = held \cup {r} BY <1>2 DEF held
<1>4. claim' = claim /\ UNCHANGED (vm.st # "absent") BY DEF claim, vmState
<1>5. CASE r \in held
  <2>1. held' = held BY <1>3, <1>5
  <2>. QED BY <1>4, <2>1 DEF Claim!claimVars
<1>6. CASE r \notin held
  BY <1>3, <1>4, <1>6 DEF Claim!Next, Claim!Acquire
<1>. QED BY <1>5, <1>6

\* A deletion, once the VM is gone, gives up.
LEMMA DeletedGivesUp ==
    ASSUME TypeOK, NEW r \in Resource, claim = "claimed", vm.st = "absent",
           Deleted(r), UNCHANGED <<obj, vmState>>
    PROVE  [Claim!Next]_(Claim!claimVars)
<1>1. res' = [res EXCEPT ![r] = IF @ = "absent" THEN "absent" ELSE "deleting"] BY DEF Deleted
<1>2. ~Present(r)' /\ \A q \in Resource \ {r} : Present(q)' <=> Present(q)
  BY <1>1 DEF TypeOK, DepsOK, Present
<1>3. held' = held \ {r} BY <1>2 DEF held
<1>4. claim' = claim /\ UNCHANGED (vm.st # "absent") BY DEF claim, vmState
<1>5. CASE r \notin held
  <2>1. held' = held BY <1>3, <1>5
  <2>. QED BY <1>4, <2>1 DEF Claim!claimVars
<1>6. CASE r \in held
  BY <1>3, <1>4, <1>6 DEF Claim!Next, Claim!GiveUp
<1>. QED BY <1>5, <1>6

\* The VM comes and goes under a claim.
LEMMA VMStartsAndStops ==
    ASSUME claim = "claimed", UNCHANGED <<obj, res>>
    PROVE  [Claim!Next]_(Claim!claimVars)
<1>1. claim' = claim /\ held' = held BY DEF claim, held, Present
<1>. QED BY <1>1 DEF Claim!claimVars, Claim!Next, Claim!Start, Claim!Stop

-----------------------------------------------------------------------------
(* One lemma for each group of actions *)

LEMMA PersistIDClaims == ASSUME IInv, PersistID PROVE [Claim!Next]_(Claim!claimVars)
<1>. USE DEF IInv, PersistID
<1>1. UNCHANGED <<res, vm.st>> BY DEF deps, vmState
<1>2. CASE UNCHANGED obj BY <1>1, <1>2, Unmoved
<1>3. CASE Store(WithSpec(obj, snap))
  <2>1. /\ obj'.exists = obj.exists /\ obj'.finalizer = snap.finalizer
        /\ snap.finalizer /\ obj.exists /\ snap \in MachineObject
    BY <1>3, WithSpecFields DEF Store, SnapLags, CurrentAgrees, TypeOK, ApiOK, PassOK
  <2>2. claim' = "claimed" BY <2>1 DEF claim
  <2>3. claim \in {"claimed", "unclaimed"} BY <2>1 DEF claim
  <2>4. held' = held BY <1>1, HeldKept
  <2>. QED BY <1>1, <2>2, <2>3, <2>4 DEF Claim!claimVars, Claim!Next, Claim!MakeClaim
<1>. QED BY <1>2, <1>3 DEF Refused, Conflict, api

LEMMA OtherWritersClaim ==
    ASSUME IInv, Writers, ~PersistID, ~FinishDelete, ~UserDelete
    PROVE  UNCHANGED Claim!claimVars
<1>. USE DEF IInv
<1>1. UNCHANGED <<res, vm>>
  BY DEF Writers, HandleError, PickZone, Flush, SetProviderID, UpdateStatus, LinkNode, UserEdit,
         Write, deps, vmState
<1>2. UNCHANGED <<obj.exists, obj.finalizer>>
  <2>1. ASSUME NEW s \in MachineObject, Store(WithStatus(obj, s)) \/ Refused
        PROVE  UNCHANGED <<obj.exists, obj.finalizer>>
    BY <2>1, WithStatusFields DEF Store, Refused, Conflict, api, TypeOK, ApiOK
  <2>2. CASE HandleError
    <3>1. [snap EXCEPT !.ready = FALSE] \in MachineObject BY DEF TypeOK, PassOK, MachineObject
    <3>. QED BY <2>1, <2>2, <3>1 DEF HandleError
  <2>3. CASE PickZone
    <3>1. \A z \in Zones : [snap EXCEPT !.zone = z] \in MachineObject
      BY DEF TypeOK, PassOK, MachineObject
    <3>. QED BY <2>1, <2>3, <3>1 DEF PickZone, api
  <2>4. CASE Flush BY <2>1, <2>4 DEF Flush, TypeOK, PassOK
  <2>5. CASE SetProviderID
    <3>. DEFINE s == [snap EXCEPT !.providerID = seen]
    <3>1. s \in MachineObject /\ s.finalizer = snap.finalizer BY DEF TypeOK, PassOK, MachineObject
    <3>2. CASE Store(WithSpec(obj, s))
      <4>1. obj'.exists = obj.exists /\ obj'.finalizer = snap.finalizer
        BY <3>1, <3>2, WithSpecFields DEF Store, TypeOK, ApiOK
      <4>2. obj.finalizer /\ snap.finalizer
        BY <2>5, <3>2 DEF SetProviderID, Store, CurrentAgrees, Creating, ExistingPCs
      <4>3. obj.finalizer \in BOOLEAN /\ snap.finalizer \in BOOLEAN
        BY DEF TypeOK, ApiOK, PassOK, MachineObject
      <4>. QED BY <4>1, <4>2, <4>3
    <3>. QED BY <2>5, <3>2 DEF SetProviderID, Refused, Conflict, api
  <2>6. CASE UpdateStatus
    <3>1. [snap EXCEPT !.ready = TRUE, !.machineID = seen, !.provisioned = TRUE] \in MachineObject
      BY DEF TypeOK, PassOK, MachineObject
    <3>. QED BY <2>1, <2>6, <3>1 DEF UpdateStatus
  <2>7. CASE LinkNode BY <2>7 DEF LinkNode, api, TypeOK, ApiOK, MachineObject
  <2>8. CASE UserEdit BY <2>8 DEF UserEdit, Write, TypeOK, ApiOK, MachineObject
  <2>. QED BY <2>2, <2>3, <2>4, <2>5, <2>6, <2>7, <2>8 DEF Writers
<1>. QED BY <1>1, <1>2, Unmoved

\* The finalizer goes, or the object does before it has one.
LEMMA Releases ==
    ASSUME IInv, FinishDelete \/ UserDelete PROVE [Claim!Next]_(Claim!claimVars)
<1>. USE DEF IInv
<1>1. UNCHANGED <<res, vm>>
  BY DEF FinishDelete, UserDelete, Write, deps, vmState
<1>2. CASE UNCHANGED obj BY <1>1, <1>2, Unmoved
<1>3. CASE UserDelete
  <2>1. /\ obj.exists /\ obj'.exists = obj.finalizer /\ obj'.finalizer = obj.finalizer
    BY <1>3 DEF UserDelete, Write, TypeOK, ApiOK, MachineObject
  <2>2. CASE obj.finalizer
    <3>1. claim' = claim BY <2>1, <2>2 DEF claim
    <3>. QED BY <1>1, <3>1, HeldKept DEF Claim!claimVars
  <2>3. CASE ~obj.finalizer
    <3>1. claim = "unclaimed" /\ claim' = "released" BY <2>1, <2>3 DEF claim
    <3>2. vm.st = "absent" /\ held = {} BY <2>3 DEF HeldUnderFinalizer, held
    <3>. QED BY <1>1, <3>1, <3>2, HeldKept DEF Claim!Next, Claim!Release
  <2>. QED BY <2>2, <2>3
<1>4. CASE /\ ~errs /\ pc = "delOwned" /\ todo = {}
           /\ Store([obj EXCEPT !.finalizer = FALSE, !.exists = FALSE])
  <2>1. obj.exists /\ ~obj'.exists
    BY <1>4 DEF Store, CurrentAgrees, TypeOK, ApiOK, MachineObject
  <2>2. claim # "released" /\ claim' = "released" BY <2>1 DEF claim
  <2>3. vm.st = "absent" /\ held = {} BY <1>4 DEF Deleting, held
  <2>. QED BY <1>1, <2>2, <2>3, HeldKept DEF Claim!Next, Claim!Release
<1>. QED BY <1>2, <1>3, <1>4 DEF FinishDelete, Refused, Conflict, api

\* The actions that touch the cloud.
LEMMA CloudStepsClaim ==
    ASSUME IInv, Movers \/ CreateVM \/ VMLost, UNCHANGED obj
    PROVE  [Claim!Next]_(Claim!claimVars)
<1>. USE DEF IInv
<1>1. CASE UNCHANGED <<res, vm>> BY <1>1, Unmoved
<1>2. ASSUME NEW r \in Resource, NEW st \in {"creating", "ready"}, pc \in CreatePCs,
             Provision(r, st), UNCHANGED vmState
      PROVE  [Claim!Next]_(Claim!claimVars)
  BY <1>2, ProvisionAcquires DEF Creating, claim
<1>3. ASSUME NEW r \in Resource, Deleted(r), UNCHANGED vmState,
             claim = "claimed", vm.st = "absent"
      PROVE  [Claim!Next]_(Claim!claimVars)
  BY <1>3, DeletedGivesUp
<1>4. CASE BootDisk
  BY <1>1, <1>2, <1>4 DEF BootDisk, deps, vmState, CreatePCs, Resource, Disk
<1>5. CASE PublicIP
  BY <1>1, <1>2, <1>5 DEF PublicIP, deps, vmState, CreatePCs, Resource
<1>6. ASSUME NEW d \in DataDisks, VisitDisk(d) PROVE [Claim!Next]_(Claim!claimVars)
  BY <1>1, <1>2, <1>6 DEF VisitDisk, deps, vmState, CreatePCs, Resource, Disk
<1>7. ASSUME NEW g \in InlineSGs, VisitSG(g) PROVE [Claim!Next]_(Claim!claimVars)
  BY <1>1, <1>2, <1>7 DEF VisitSG, deps, vmState, CreatePCs, Resource
<1>8. ASSUME NEW d \in DataDisks, DeleteStaleDisk(d) PROVE [Claim!Next]_(Claim!claimVars)
  <2>1. claim = "claimed" /\ vm.st = "absent"
    BY <1>8 DEF DeleteStaleDisk, Creating, CreatePCs, claim
  <2>. QED BY <1>1, <1>3, <1>8, <2>1 DEF DeleteStaleDisk, vmState, Resource, Disk
<1>9. ASSUME NEW r \in Resource, DeleteOwned(r) PROVE [Claim!Next]_(Claim!claimVars)
  <2>1. vm.st = "absent" BY <1>9 DEF DeleteOwned, Deleting
  <2>2. CASE obj.exists /\ obj.finalizer
    BY <1>1, <1>3, <1>9, <2>1, <2>2 DEF DeleteOwned, vmState, claim
  <2>3. CASE ~(obj.exists /\ obj.finalizer)
    <3>1. \A q \in Resource : Present(q)' <=> Present(q)
      BY <1>9, <2>3 DEF HeldUnderFinalizer, DeleteOwned, Deleted, Present, TypeOK, DepsOK
    <3>2. held' = held BY <3>1 DEF held
    <3>. QED BY <1>9, <3>2, ClaimKept DEF DeleteOwned, vmState, Claim!claimVars
  <2>. QED BY <2>2, <2>3
<1>10. CASE CreateVM
  <2>1. claim = "claimed" BY <1>10 DEF CreateVM, Creating, CreatePCs, claim
  <2>. QED BY <1>10, <2>1, VMStartsAndStops DEF CreateVM, deps
<1>11. CASE VMLost
  <2>1. claim = "claimed" BY <1>11 DEF VMLost, HeldUnderFinalizer, claim
  <2>. QED BY <1>11, <2>1, VMStartsAndStops DEF VMLost, deps
<1>12. CASE CloudProgress
  <2>1. CASE UNCHANGED vm
    <3>1. \A q \in Resource : Present(q)' <=> Present(q)
      BY <1>12, <2>1 DEF CloudProgress, Present, TypeOK, DepsOK
    <3>2. held' = held BY <3>1 DEF held
    <3>. QED BY <2>1, <3>2, ClaimKept DEF Claim!claimVars
  <2>2. CASE UNCHANGED res /\ vm.st # "absent"
    <3>1. claim = "claimed" BY <2>2 DEF HeldUnderFinalizer, claim
    <3>. QED BY <2>2, <3>1, VMStartsAndStops
  <2>. QED BY <1>12, <2>1, <2>2 DEF CloudProgress
<1>13. CASE DiskFails
  <2>1. \A q \in Resource : Present(q)' <=> Present(q)
    BY <1>13 DEF DiskFails, Present, TypeOK, DepsOK
  <2>2. held' = held BY <2>1 DEF held
  <2>. QED BY <1>13, <2>2, ClaimKept DEF DiskFails, vmState, Claim!claimVars
<1>. QED BY <1>4, <1>5, <1>6, <1>7, <1>8, <1>9, <1>10, <1>11, <1>12, <1>13 DEF Movers

\* The rest leaves the object, the dependents and the existence of the VM alone.
Patches == UpdateVMSGs \/ UpdateVMIP \/ UpdateVMDisks \/ DeleteVM

LEMMA RestUnmoved ==
    ASSUME TypeOK, [Next]_vars
    PROVE  Writers \/ Movers \/ CreateVM \/ VMLost \/ UNCHANGED Claim!claimVars
<1>1. Writers \/ Movers \/ CreateVM \/ VMLost \/ UNCHANGED (vm.st # "absent")
  <2>1. CASE Patches
    BY <2>1 DEF Patches, UpdateVMSGs, UpdateVMIP, UpdateVMDisks, DeleteVM, Attach, AlreadyDone,
       Fail, Go, TypeOK, VMOK
  <2>2. Writers \/ Movers \/ CreateVM \/ VMLost \/ Patches \/ UNCHANGED vm
    BY DEF Next, Pass, Environment, Writers, Movers, Patches, vars, vmState, BeginIgnored,
       BeginAdoption, BeginNormal, BeginDelete, Begin, GetVM, DisksVisited, StaleDisksDeleted,
       SGsVisited, AddBackend, Refetch, Deregister, ListOwned, CacheSync, Crash, Bootstrap,
       ClusterGone, NodeProgress
  <2>. QED BY <2>1, <2>2
<1>2. CASE UNCHANGED <<obj, res>> /\ UNCHANGED (vm.st # "absent")
  BY <1>2, Unmoved
<1>. QED BY <1>1, <1>2, OthersDoNotWrite, OthersDoNotMove

LEMMA StepRefines == IInv /\ [Next]_vars => [Claim!Next]_(Claim!claimVars)
<1>. SUFFICES ASSUME IInv, [Next]_vars PROVE [Claim!Next]_(Claim!claimVars) OBVIOUS
<1>1. CASE Writers
  BY <1>1, PersistIDClaims, OtherWritersClaim, Releases
<1>2. CASE UNCHANGED obj /\ (Movers \/ CreateVM \/ VMLost)
  BY <1>2, CloudStepsClaim
<1>. QED BY <1>1, <1>2, RestUnmoved, OthersDoNotWrite DEF IInv

LEMMA InitRefines == Init => Claim!Init
<1>. SUFFICES ASSUME Init PROVE Claim!Init OBVIOUS
<1>1. obj.exists /\ ~obj.finalizer BY DEF Init, NewMachine
<1>2. claim = "unclaimed" BY <1>1 DEF claim
<1>3. held = {} BY DEF Init, held, Present
<1>. QED BY <1>2, <1>3 DEF Init, NoVM, Claim!Init

\* The controller keeps the promise of ResourceClaim: nothing is acquired
\* before the finalizer is stored, nothing given up under a VM, and the
\* finalizer goes last.
THEOREM Refines == Spec => ImplementsClaim
BY InitRefines, StepRefines, Inductive, PTL DEF Spec, ImplementsClaim, Claim!Spec

=============================================================================
