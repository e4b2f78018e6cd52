---------------------------- MODULE MachineTypes ----------------------------
(***************************************************************************)
(* The type invariant of Machine, for any sets of zones, disks, groups,    *)
(* ownership IDs and UIDs, any bounds, and any setting of its switches.    *)
(***************************************************************************)
EXTENDS Machine, TLAPS

-----------------------------------------------------------------------------
(* What the building blocks do to the parts of TypeOK *)

LEMMA BlankType == Blank \in MachineObject
BY DEF Blank, NewMachine, MachineObject

LEMMA WithStatusType ==
    ASSUME NEW o \in MachineObject, NEW s \in MachineObject
    PROVE  WithStatus(o, s) \in MachineObject
BY DEF WithStatus, MachineObject

LEMMA WithSpecType ==
    ASSUME NEW o \in MachineObject, NEW s \in MachineObject
    PROVE  WithSpec(o, s) \in MachineObject
BY DEF WithSpec, MachineObject

LEMMA ReturnType ==
    ASSUME PassOK, NEW q \in BOOLEAN, Return(q)
    PROVE  PassOK'
BY BlankType DEF PassOK, Return, PCs

LEMMA GoType ==
    ASSUME PassOK, NEW l \in PCs, Go(l)
    PROVE  PassOK'
BY DEF PassOK, Go, local

LEMMA FailType ==
    ASSUME PassOK, Fail
    PROVE  PassOK'
BY DEF PassOK, Fail, local, PCs

LEMMA LoopType ==
    ASSUME PassOK, NEW l \in PCs, NEW S \in SUBSET Resource, Loop(l, S)
    PROVE  PassOK'
BY DEF PassOK, Loop

LEMMA StoreType ==
    ASSUME ApiOK, NEW o \in MachineObject, Store(o)
    PROVE  ApiOK'
BY DEF ApiOK, Store

LEMMA FaultType ==
    ASSUME BoundsOK, Fault
    PROVE  BoundsOK'
BY DEF BoundsOK, Fault

LEMMA RefusedType ==
    ASSUME ApiOK, BoundsOK, Refused
    PROVE  ApiOK' /\ BoundsOK'
BY FaultType DEF ApiOK, BoundsOK, Refused, Conflict, Fault, api, bounds

LEMMA ProvisionType ==
    ASSUME DepsOK, PassOK, NEW r \in Resource, NEW st \in {"creating", "ready"},
           Provision(r, st)
    PROVE  DepsOK'
BY DEF DepsOK, PassOK, Provision, MachineObject

LEMMA DeletedType ==
    ASSUME DepsOK, NEW r \in Resource, Deleted(r), UNCHANGED <<owner, zoneOf>>
    PROVE  DepsOK'
BY DEF DepsOK, Deleted

LEMMA NewVMType ==
    ASSUME MachineAssumption, VMOK, PassOK, NewVM
    PROVE  VMOK'
BY DEF VMOK, PassOK, NewVM, MachineObject, Resource, Dependent, Disk

LEMMA AttachType ==
    ASSUME PassOK, VMOK, BoundsOK, UNCHANGED usedUIDs,
           NEW A \in SUBSET Resource, NEW S \in SUBSET Resource, NEW l \in PCs, Attach(A, S, l)
    PROVE  PassOK' /\ VMOK' /\ BoundsOK'
BY FaultType, GoType, FailType DEF VMOK, Attach, BoundsOK, bounds

LEMMA AlreadyDoneType ==
    ASSUME PassOK, VMOK, BoundsOK, UNCHANGED usedUIDs, NEW l \in PCs, AlreadyDone(l)
    PROVE  PassOK' /\ VMOK' /\ BoundsOK'
BY FaultType, GoType, FailType DEF VMOK, AlreadyDone, BoundsOK, bounds

LEMMA WriteType ==
    ASSUME TypeOK, NEW o \in MachineObject, Write(o), edits' \in Nat
    PROVE  TypeOK'
<1>1. ApiOK' BY DEF TypeOK, ApiOK, Write
<1>2. PassOK' BY DEF TypeOK, PassOK, Write
<1>3. DepsOK' /\ VMOK' /\ OutsideOK'
  BY DEF TypeOK, DepsOK, VMOK, OutsideOK, Write, deps, vmState, outside, node
<1>4. BoundsOK' BY DEF TypeOK, BoundsOK, Write
<1>. QED BY <1>1, <1>2, <1>3, <1>4 DEF TypeOK

LEMMA UnchangedType ==
    ASSUME TypeOK
    PROVE  /\ UNCHANGED api => ApiOK'
           /\ UNCHANGED <<pc, queued, local>> => PassOK'
           /\ UNCHANGED deps => DepsOK'
           /\ UNCHANGED vmState => VMOK'
           /\ UNCHANGED <<backend, outside, node>> => OutsideOK'
           /\ UNCHANGED bounds => BoundsOK'
BY DEF TypeOK, ApiOK, PassOK, DepsOK, VMOK, OutsideOK, BoundsOK,
       api, local, deps, vmState, outside, node, bounds

LEMMA BeginType ==
    ASSUME TypeOK, NEW s \in MachineObject, NEW l \in PCs, Begin(s, l)
    PROVE  TypeOK'
<1>1. PassOK' BY DEF TypeOK, PassOK, ApiOK, Begin
<1>2. ApiOK' /\ DepsOK' /\ VMOK' /\ OutsideOK' /\ BoundsOK'
  BY UnchangedType DEF Begin
<1>. QED BY <1>1, <1>2 DEF TypeOK

\* What the passes and the users write into an object.
LEMMA FieldTypes ==
    ASSUME NEW o \in MachineObject
    PROVE  /\ \A id \in OwnershipIDs :
                 [o EXCEPT !.finalizer = TRUE, !.ownerID = IF @ = None THEN id ELSE @] \in MachineObject
           /\ \A z \in Zones : [o EXCEPT !.zone = z] \in MachineObject
           /\ [o EXCEPT !.ready = FALSE] \in MachineObject
           /\ [o EXCEPT !.tracked = o.wants \cap DataDisks] \in MachineObject
           /\ \A u \in UIDs \cup {None} : [o EXCEPT !.providerID = u] \in MachineObject
           /\ \A u \in UIDs \cup {None} :
                 [o EXCEPT !.ready = TRUE, !.machineID = u, !.provisioned = TRUE] \in MachineObject
           /\ [o EXCEPT !.finalizer = FALSE, !.exists = FALSE] \in MachineObject
           /\ [o EXCEPT !.deleting = TRUE, !.exists = o.finalizer] \in MachineObject
           /\ \A w \in SUBSET Dependent : [o EXCEPT !.wants = w] \in MachineObject
           /\ [o EXCEPT !.paused = ~@] \in MachineObject
BY DEF MachineObject

LEMMA Labels ==
    /\ PCs = {"idle", "persistID", "fail"} \cup CreatePCs \cup ExistingPCs \cup DeletePCs
    /\ \A o \in MachineObject : o.wants \subseteq Dependent
    /\ DataDisks \subseteq Disk /\ Disk \subseteq Resource /\ InlineSGs \subseteq Resource
    /\ IP \in Resource /\ Boot \in Disk /\ Dependent \subseteq Resource
BY DEF PCs, MachineObject, Disk, Resource, Dependent

LEMMA AfterAttachmentsType == AfterAttachments \in PCs
BY DEF AfterAttachments, PCs, ExistingPCs

-----------------------------------------------------------------------------
(* Every action keeps TypeOK *)

LEMMA BeginIgnoredType == ASSUME TypeOK, BeginIgnored PROVE TypeOK'
<1>1. PassOK' BY DEF TypeOK, PassOK, local, BeginIgnored
<1>2. ApiOK' /\ DepsOK' /\ VMOK' /\ OutsideOK' /\ BoundsOK'
  BY UnchangedType DEF api, deps, vmState, outside, node, bounds, BeginIgnored
<1>. QED BY <1>1, <1>2 DEF TypeOK

LEMMA BeginAdoptionType == ASSUME TypeOK, BeginAdoption PROVE TypeOK'
BY FieldTypes, BeginType DEF BeginAdoption, TypeOK, ApiOK, PCs

LEMMA BeginNormalType == ASSUME TypeOK, BeginNormal PROVE TypeOK'
BY BeginType DEF BeginNormal, TypeOK, ApiOK, PCs, CreatePCs

LEMMA BeginDeleteType == ASSUME TypeOK, BeginDelete PROVE TypeOK'
BY BeginType DEF BeginDelete, TypeOK, ApiOK, PCs, DeletePCs

LEMMA PersistIDType == ASSUME TypeOK, PersistID PROVE TypeOK'
<1>1. ApiOK' /\ BoundsOK'
  BY WithSpecType, StoreType, RefusedType, UnchangedType DEF TypeOK, PassOK, ApiOK, PersistID
<1>2. PassOK' BY ReturnType DEF TypeOK, PersistID
<1>3. DepsOK' /\ VMOK' /\ OutsideOK'
  BY UnchangedType DEF api, deps, vmState, outside, node, bounds, PersistID
<1>. QED BY <1>1, <1>2, <1>3 DEF TypeOK

LEMMA HandleErrorType == ASSUME TypeOK, HandleError PROVE TypeOK'
<1>1. ApiOK' /\ BoundsOK'
  BY FieldTypes, WithStatusType, StoreType, RefusedType, UnchangedType
  DEF TypeOK, PassOK, ApiOK, HandleError
<1>2. PassOK' BY ReturnType DEF TypeOK, HandleError
<1>3. DepsOK' /\ VMOK' /\ OutsideOK'
  BY UnchangedType DEF api, deps, vmState, outside, node, bounds, HandleError
<1>. QED BY <1>1, <1>2, <1>3 DEF TypeOK

LEMMA PickZoneType == ASSUME TypeOK, PickZone PROVE TypeOK'
<1>1. ApiOK' /\ BoundsOK'
  BY FieldTypes, WithStatusType, StoreType, RefusedType, UnchangedType
  DEF TypeOK, PassOK, ApiOK, PickZone
<1>2. PassOK'
  BY FieldTypes, ReturnType, GoType, Labels
  DEF TypeOK, PassOK, CreatePCs, ExistingPCs, DeletePCs, PickZone
<1>3. DepsOK' /\ VMOK' /\ OutsideOK'
  BY UnchangedType DEF api, deps, vmState, outside, node, bounds, PickZone
<1>. QED BY <1>1, <1>2, <1>3 DEF TypeOK

LEMMA GetVMType == ASSUME TypeOK, GetVM PROVE TypeOK'
<1>1. PassOK'
  BY ReturnType, GoType, FailType, AfterAttachmentsType, Labels
  DEF TypeOK, PassOK, CreatePCs, ExistingPCs, DeletePCs, VMOK, GetVM
<1>2. BoundsOK' BY FaultType, UnchangedType DEF TypeOK, GetVM
<1>3. ApiOK' /\ DepsOK' /\ VMOK' /\ OutsideOK'
  BY UnchangedType DEF api, deps, vmState, outside, node, bounds, GetVM
<1>. QED BY <1>1, <1>2, <1>3 DEF TypeOK

LEMMA BootDiskType == ASSUME TypeOK, BootDisk PROVE TypeOK'
<1>1. PassOK'
  BY ReturnType, GoType, FailType, LoopType, Labels
  DEF TypeOK, PassOK, CreatePCs, ExistingPCs, DeletePCs, BootDisk
<1>2. DepsOK' BY ProvisionType, UnchangedType, Labels DEF TypeOK, BootDisk
<1>3. BoundsOK' BY FaultType, UnchangedType DEF TypeOK, BootDisk
<1>4. ApiOK' /\ VMOK' /\ OutsideOK'
  BY UnchangedType DEF api, deps, vmState, outside, node, bounds, BootDisk
<1>. QED BY <1>1, <1>2, <1>3, <1>4 DEF TypeOK

LEMMA FlushType == ASSUME TypeOK, Flush PROVE TypeOK'
<1>1. ApiOK' /\ BoundsOK'
  BY WithStatusType, StoreType, RefusedType, UnchangedType DEF TypeOK, PassOK, ApiOK, Flush
<1>2. PassOK' BY ReturnType DEF TypeOK, Flush
<1>3. DepsOK' /\ VMOK' /\ OutsideOK'
  BY UnchangedType DEF api, deps, vmState, outside, node, bounds, Flush
<1>. QED BY <1>1, <1>2, <1>3 DEF TypeOK

LEMMA VisitDiskType == ASSUME TypeOK, NEW d \in DataDisks, VisitDisk(d) PROVE TypeOK'
<1>1. PassOK' BY FailType, Labels DEF TypeOK, PassOK, VisitDisk
<1>2. DepsOK' BY ProvisionType, UnchangedType, Labels DEF TypeOK, VisitDisk
<1>3. BoundsOK' BY FaultType, UnchangedType DEF TypeOK, VisitDisk
<1>4. ApiOK' /\ VMOK' /\ OutsideOK'
  BY UnchangedType DEF api, deps, vmState, outside, node, bounds, VisitDisk
<1>. QED BY <1>1, <1>2, <1>3, <1>4 DEF TypeOK

LEMMA DisksVisitedType == ASSUME TypeOK, DisksVisited PROVE TypeOK'
<1>1. PassOK'
  <2>1. snap.tracked \ snap.wants \in SUBSET Resource
    BY Labels DEF TypeOK, PassOK, MachineObject
  <2>2. CASE pending
    BY <2>2, FieldTypes DEF TypeOK, PassOK, PCs, CreatePCs, DisksVisited
  <2>3. CASE ~pending
    BY <2>1, <2>3, LoopType DEF TypeOK, PCs, CreatePCs, DisksVisited
  <2>. QED BY <2>2, <2>3 DEF TypeOK, PassOK
<1>2. ApiOK' /\ DepsOK' /\ VMOK' /\ OutsideOK' /\ BoundsOK'
  BY UnchangedType DEF DisksVisited
<1>. QED BY <1>1, <1>2 DEF TypeOK

LEMMA DeleteStaleDiskType == ASSUME TypeOK, NEW d \in DataDisks, DeleteStaleDisk(d) PROVE TypeOK'
<1>1. PassOK'
  BY FailType, LoopType, Labels
  DEF TypeOK, PassOK, CreatePCs, ExistingPCs, DeletePCs, DeleteStaleDisk
<1>2. DepsOK' BY DeletedType, UnchangedType, Labels DEF TypeOK, DepsOK, DeleteStaleDisk
<1>3. BoundsOK' BY FaultType, UnchangedType DEF TypeOK, DeleteStaleDisk
<1>4. ApiOK' /\ VMOK' /\ OutsideOK'
  BY UnchangedType DEF api, deps, vmState, outside, node, bounds, DeleteStaleDisk
<1>. QED BY <1>1, <1>2, <1>3, <1>4 DEF TypeOK

LEMMA StaleDisksDeletedType == ASSUME TypeOK, StaleDisksDeleted PROVE TypeOK'
<1>1. PassOK'
  BY FieldTypes, Labels DEF TypeOK, PassOK, CreatePCs, ExistingPCs, DeletePCs, StaleDisksDeleted
<1>2. ApiOK' /\ DepsOK' /\ VMOK' /\ OutsideOK' /\ BoundsOK'
  BY UnchangedType DEF api, deps, vmState, outside, node, bounds, StaleDisksDeleted
<1>. QED BY <1>1, <1>2 DEF TypeOK

LEMMA PublicIPType == ASSUME TypeOK, PublicIP PROVE TypeOK'
<1>1. PassOK'
  BY FailType, GoType, LoopType, Labels
  DEF TypeOK, PassOK, CreatePCs, ExistingPCs, DeletePCs, PublicIP
<1>2. DepsOK' BY ProvisionType, UnchangedType, Labels DEF TypeOK, PublicIP
<1>3. BoundsOK' BY FaultType, UnchangedType DEF TypeOK, PublicIP
<1>4. ApiOK' /\ VMOK' /\ OutsideOK'
  BY UnchangedType DEF api, deps, vmState, outside, node, bounds, PublicIP
<1>. QED BY <1>1, <1>2, <1>3, <1>4 DEF TypeOK

LEMMA VisitSGType == ASSUME TypeOK, NEW g \in InlineSGs, VisitSG(g) PROVE TypeOK'
<1>1. PassOK'
  BY FailType, LoopType, Labels DEF TypeOK, PassOK, CreatePCs, ExistingPCs, DeletePCs, VisitSG
<1>2. DepsOK' BY ProvisionType, UnchangedType, Labels DEF TypeOK, VisitSG
<1>3. BoundsOK' BY FaultType, UnchangedType DEF TypeOK, VisitSG
<1>4. ApiOK' /\ VMOK' /\ OutsideOK'
  BY UnchangedType DEF api, deps, vmState, outside, node, bounds, VisitSG
<1>. QED BY <1>1, <1>2, <1>3, <1>4 DEF TypeOK

LEMMA SGsVisitedType == ASSUME TypeOK, SGsVisited PROVE TypeOK'
<1>1. PassOK'
  BY GoType, Labels DEF TypeOK, PassOK, CreatePCs, ExistingPCs, DeletePCs, SGsVisited
<1>2. ApiOK' /\ DepsOK' /\ VMOK' /\ OutsideOK' /\ BoundsOK'
  BY UnchangedType DEF api, deps, vmState, outside, node, bounds, SGsVisited
<1>. QED BY <1>1, <1>2 DEF TypeOK

LEMMA CreateVMType == ASSUME TypeOK, CreateVM PROVE TypeOK'
<1>1. PassOK' BY ReturnType, FailType DEF TypeOK, CreateVM
<1>2. VMOK' BY NewVMType, UnchangedType, MachineAssumption DEF TypeOK, CreateVM
<1>3. BoundsOK' BY FaultType, UnchangedType DEF TypeOK, CreateVM
<1>4. ApiOK' /\ DepsOK' /\ OutsideOK'
  BY UnchangedType DEF api, deps, vmState, outside, node, bounds, CreateVM
<1>. QED BY <1>1, <1>2, <1>3, <1>4 DEF TypeOK

LEMMA UpdateVMSGsType == ASSUME TypeOK, UpdateVMSGs PROVE TypeOK'
<1>1. PassOK' /\ VMOK' /\ BoundsOK'
  <2>. DEFINE wanted == snap.wants \cap InlineSGs
  <2>1. wanted \in SUBSET Resource /\ (vm.uses \ InlineSGs) \cup wanted \in SUBSET Resource
    BY Labels DEF TypeOK, VMOK
  <2>2. "vmIP" \in PCs BY DEF PCs, ExistingPCs
  <2>. HIDE DEF wanted
  <2>3. CASE AlreadyDone("vmIP")
    BY <2>2, <2>3, AlreadyDoneType DEF TypeOK, UpdateVMSGs
  <2>4. CASE Attach(wanted, (vm.uses \ InlineSGs) \cup wanted, "vmIP")
    BY <2>1, <2>2, <2>4, AttachType DEF TypeOK, UpdateVMSGs
  <2>. QED BY <2>3, <2>4 DEF UpdateVMSGs, wanted
<1>2. ApiOK' /\ DepsOK' /\ OutsideOK'
  BY UnchangedType DEF UpdateVMSGs
<1>. QED BY <1>1, <1>2 DEF TypeOK

LEMMA UpdateVMIPType == ASSUME TypeOK, UpdateVMIP PROVE TypeOK'
<1>1. PassOK' /\ VMOK' /\ BoundsOK'
  BY AttachType, AlreadyDoneType, GoType, UnchangedType, Labels
  DEF TypeOK, PassOK, CreatePCs, ExistingPCs, DeletePCs, VMOK, vmState, UpdateVMIP
<1>2. ApiOK' /\ DepsOK' /\ OutsideOK'
  BY UnchangedType DEF api, deps, vmState, outside, node, bounds, UpdateVMIP
<1>. QED BY <1>1, <1>2 DEF TypeOK

LEMMA UpdateVMDisksType == ASSUME TypeOK, UpdateVMDisks PROVE TypeOK'
<1>1. PassOK' /\ VMOK' /\ BoundsOK'
  <2>. DEFINE wanted == {Boot} \cup (snap.wants \cap DataDisks)
  <2>1. wanted \in SUBSET Resource /\ (vm.uses \ Disk) \cup wanted \in SUBSET Resource
    BY Labels DEF TypeOK, VMOK
  <2>2. Attach(wanted, (vm.uses \ Disk) \cup wanted, AfterAttachments)
    BY DEF UpdateVMDisks
  <2>. QED
    BY <2>1, <2>2, AfterAttachmentsType, AttachType DEF TypeOK, UpdateVMDisks
<1>2. ApiOK' /\ DepsOK' /\ OutsideOK'
  BY UnchangedType DEF UpdateVMDisks
<1>. QED BY <1>1, <1>2 DEF TypeOK

LEMMA AddBackendType == ASSUME TypeOK, AddBackend PROVE TypeOK'
<1>1. PassOK'
  BY FailType, GoType, Labels DEF TypeOK, PassOK, CreatePCs, ExistingPCs, DeletePCs, AddBackend
<1>2. OutsideOK' BY DEF TypeOK, OutsideOK, outside, node, AddBackend
<1>3. BoundsOK' BY FaultType, UnchangedType DEF TypeOK, AddBackend
<1>4. ApiOK' /\ DepsOK' /\ VMOK'
  BY UnchangedType DEF api, deps, vmState, outside, node, bounds, AddBackend
<1>. QED BY <1>1, <1>2, <1>3, <1>4 DEF TypeOK

LEMMA SetProviderIDType == ASSUME TypeOK, SetProviderID PROVE TypeOK'
<1>1. [snap EXCEPT !.providerID = seen] \in MachineObject
  BY FieldTypes DEF TypeOK, PassOK
<1>2. ApiOK' /\ BoundsOK'
  BY <1>1, WithSpecType, StoreType, RefusedType, UnchangedType
  DEF TypeOK, ApiOK, SetProviderID
<1>3. PassOK'
  <2>1. CASE Return(obj.exists)
    BY <2>1, ReturnType DEF TypeOK, ApiOK, MachineObject
  <2>2. CASE pc' = "refetch" /\ snap' = [snap EXCEPT !.providerID = seen]
             /\ UNCHANGED <<queued, snapCurrent, todo, pending, errs, seen>>
    BY <1>1, <2>2 DEF TypeOK, PassOK, PCs, ExistingPCs
  <2>. QED BY <2>1, <2>2 DEF SetProviderID
<1>4. DepsOK' /\ VMOK' /\ OutsideOK'
  BY UnchangedType DEF SetProviderID
<1>. QED BY <1>2, <1>3, <1>4 DEF TypeOK

LEMMA RefetchType == ASSUME TypeOK, Refetch PROVE TypeOK'
<1>1. PassOK'
  BY ReturnType, Labels DEF TypeOK, PassOK, CreatePCs, ExistingPCs, DeletePCs, ApiOK, Refetch
<1>2. ApiOK' /\ DepsOK' /\ VMOK' /\ OutsideOK' /\ BoundsOK'
  BY UnchangedType DEF api, deps, vmState, outside, node, bounds, Refetch
<1>. QED BY <1>1, <1>2 DEF TypeOK

LEMMA UpdateStatusType == ASSUME TypeOK, UpdateStatus PROVE TypeOK'
<1>1. ApiOK' /\ BoundsOK'
  BY FieldTypes, WithStatusType, StoreType, RefusedType, UnchangedType
  DEF TypeOK, PassOK, ApiOK, UpdateStatus
<1>2. PassOK'
  BY FieldTypes, ReturnType, Labels
  DEF TypeOK, PassOK, CreatePCs, ExistingPCs, DeletePCs, ApiOK, UpdateStatus
<1>3. DepsOK' /\ VMOK' /\ OutsideOK'
  BY UnchangedType DEF api, deps, vmState, outside, node, bounds, UpdateStatus
<1>. QED BY <1>1, <1>2, <1>3 DEF TypeOK

LEMMA LinkNodeType == ASSUME TypeOK, LinkNode PROVE TypeOK'
<1>1. ApiOK'
  <2>1. CASE UNCHANGED api BY <2>1, UnchangedType
  <2>2. CASE /\ obj' = IF obj.exists THEN [obj EXCEPT !.providerID = nodeID] ELSE obj
             /\ cacheCurrent' = (cacheCurrent /\ obj' = obj)
             /\ UNCHANGED cache
    BY <2>2, FieldTypes DEF TypeOK, ApiOK, OutsideOK
  <2>. QED BY <2>1, <2>2 DEF LinkNode
<1>2. PassOK' BY ReturnType DEF TypeOK, ApiOK, MachineObject, LinkNode
<1>3. OutsideOK' BY DEF TypeOK, PassOK, OutsideOK, outside, node, MachineObject, LinkNode
<1>4. BoundsOK' BY FaultType, UnchangedType DEF TypeOK, LinkNode
<1>5. DepsOK' /\ VMOK' BY UnchangedType DEF api, deps, vmState, outside, node, bounds, LinkNode
<1>. QED BY <1>1, <1>2, <1>3, <1>4, <1>5 DEF TypeOK

LEMMA DeregisterType == ASSUME TypeOK, Deregister PROVE TypeOK'
<1>1. PassOK' BY Labels DEF TypeOK, PassOK, CreatePCs, ExistingPCs, DeletePCs, Deregister
<1>2. OutsideOK' BY DEF TypeOK, OutsideOK, outside, node, Deregister
<1>3. BoundsOK' BY FaultType, UnchangedType DEF TypeOK, Deregister
<1>4. ApiOK' /\ DepsOK' /\ VMOK'
  BY UnchangedType DEF api, deps, vmState, outside, node, bounds, Deregister
<1>. QED BY <1>1, <1>2, <1>3, <1>4 DEF TypeOK

LEMMA DeleteVMType == ASSUME TypeOK, DeleteVM PROVE TypeOK'
<1>1. PassOK'
  BY ReturnType, GoType, Labels DEF TypeOK, PassOK, CreatePCs, ExistingPCs, DeletePCs, DeleteVM
<1>2. VMOK' BY DEF TypeOK, VMOK, DeleteVM
<1>3. BoundsOK' BY FaultType, UnchangedType DEF TypeOK, DeleteVM
<1>4. ApiOK' /\ DepsOK' /\ OutsideOK'
  BY UnchangedType DEF api, deps, vmState, outside, node, bounds, DeleteVM
<1>. QED BY <1>1, <1>2, <1>3, <1>4 DEF TypeOK

LEMMA ListOwnedType == ASSUME TypeOK, ListOwned PROVE TypeOK'
<1>1. PassOK'
  BY LoopType, Labels DEF TypeOK, PassOK, CreatePCs, ExistingPCs, DeletePCs, Owned, ListOwned
<1>2. BoundsOK' BY FaultType, UnchangedType DEF TypeOK, ListOwned
<1>3. ApiOK' /\ DepsOK' /\ VMOK' /\ OutsideOK'
  BY UnchangedType DEF api, deps, vmState, outside, node, bounds, ListOwned
<1>. QED BY <1>1, <1>2, <1>3 DEF TypeOK

LEMMA DeleteOwnedType == ASSUME TypeOK, NEW r \in Resource, DeleteOwned(r) PROVE TypeOK'
<1>1. PassOK' BY DEF TypeOK, PassOK, DeleteOwned
<1>2. DepsOK' BY DeletedType, UnchangedType DEF TypeOK, DepsOK, DeleteOwned
<1>3. BoundsOK' BY FaultType, UnchangedType DEF TypeOK, DeleteOwned
<1>4. ApiOK' /\ VMOK' /\ OutsideOK'
  BY UnchangedType DEF api, deps, vmState, outside, node, bounds, DeleteOwned
<1>. QED BY <1>1, <1>2, <1>3, <1>4 DEF TypeOK

LEMMA FinishDeleteType == ASSUME TypeOK, FinishDelete PROVE TypeOK'
<1>1. ApiOK' /\ BoundsOK'
  BY FieldTypes, StoreType, RefusedType, UnchangedType DEF TypeOK, ApiOK, FinishDelete
<1>2. PassOK' BY ReturnType DEF TypeOK, FinishDelete
<1>3. DepsOK' /\ VMOK' /\ OutsideOK'
  BY UnchangedType DEF api, deps, vmState, outside, node, bounds, FinishDelete
<1>. QED BY <1>1, <1>2, <1>3 DEF TypeOK

LEMMA CacheSyncType == ASSUME TypeOK, CacheSync PROVE TypeOK'
<1>1. ApiOK' BY DEF TypeOK, ApiOK, CacheSync
<1>2. PassOK' BY DEF TypeOK, PassOK, local, CacheSync
<1>3. DepsOK' /\ VMOK' /\ OutsideOK' /\ BoundsOK'
  BY UnchangedType DEF api, deps, vmState, outside, node, bounds, CacheSync
<1>. QED BY <1>1, <1>2, <1>3 DEF TypeOK

LEMMA CrashType == ASSUME TypeOK, Crash PROVE TypeOK'
<1>1. ApiOK' BY DEF TypeOK, ApiOK, Crash
<1>2. PassOK' BY BlankType DEF TypeOK, PassOK, PCs, Crash
<1>3. BoundsOK' BY DEF TypeOK, BoundsOK, Crash
<1>4. DepsOK' /\ VMOK' /\ OutsideOK'
  BY UnchangedType DEF api, deps, vmState, outside, node, bounds, Crash
<1>. QED BY <1>1, <1>2, <1>3, <1>4 DEF TypeOK

LEMMA UserDeleteType == ASSUME TypeOK, UserDelete PROVE TypeOK'
BY FieldTypes, WriteType DEF UserDelete, TypeOK, ApiOK, BoundsOK

LEMMA UserEditType == ASSUME TypeOK, UserEdit PROVE TypeOK'
<1>1. edits' \in Nat BY DEF UserEdit, TypeOK, BoundsOK
<1>2. CASE \E w \in EditedWants : Write([obj EXCEPT !.wants = w])
  <2>1. PICK w \in EditedWants : Write([obj EXCEPT !.wants = w]) BY <1>2
  <2>2. w \in SUBSET Dependent BY MachineAssumption
  <2>3. [obj EXCEPT !.wants = w] \in MachineObject BY <2>2, FieldTypes DEF TypeOK, ApiOK
  <2>. QED BY <1>1, <2>1, <2>3, WriteType
<1>3. CASE Write([obj EXCEPT !.paused = ~@])
  <2>1. [obj EXCEPT !.paused = ~@] \in MachineObject BY FieldTypes DEF TypeOK, ApiOK
  <2>. QED BY <1>1, <1>3, <2>1, WriteType
<1>. QED BY <1>2, <1>3 DEF UserEdit

LEMMA BootstrapType == ASSUME TypeOK, Bootstrap PROVE TypeOK'
<1>1. OutsideOK' BY DEF TypeOK, OutsideOK, node, Bootstrap
<1>2. ApiOK' /\ PassOK' /\ DepsOK' /\ VMOK' /\ BoundsOK'
  BY UnchangedType DEF api, deps, vmState, outside, node, bounds, Bootstrap
<1>. QED BY <1>1, <1>2 DEF TypeOK

LEMMA ClusterGoneType == ASSUME TypeOK, ClusterGone PROVE TypeOK'
<1>1. OutsideOK' BY DEF TypeOK, OutsideOK, node, ClusterGone
<1>2. ApiOK' /\ PassOK' /\ DepsOK' /\ VMOK' /\ BoundsOK'
  BY UnchangedType DEF api, deps, vmState, outside, node, bounds, ClusterGone
<1>. QED BY <1>1, <1>2 DEF TypeOK

LEMMA CloudProgressType == ASSUME TypeOK, CloudProgress PROVE TypeOK'
<1>1. DepsOK' BY DEF TypeOK, DepsOK, CloudProgress
<1>2. VMOK' BY DEF TypeOK, VMOK, NoVM, CloudProgress
<1>3. ApiOK' /\ PassOK' /\ OutsideOK' /\ BoundsOK'
  BY UnchangedType DEF api, deps, vmState, outside, node, bounds, CloudProgress
<1>. QED BY <1>1, <1>2, <1>3 DEF TypeOK

LEMMA DiskFailsType == ASSUME TypeOK, DiskFails PROVE TypeOK'
<1>1. DepsOK' BY Labels DEF TypeOK, DepsOK, DiskFails
<1>2. BoundsOK' BY FaultType DEF TypeOK, DiskFails
<1>3. ApiOK' /\ PassOK' /\ VMOK' /\ OutsideOK'
  BY UnchangedType DEF api, deps, vmState, outside, node, bounds, DiskFails
<1>. QED BY <1>1, <1>2, <1>3 DEF TypeOK

LEMMA VMLostType == ASSUME TypeOK, VMLost PROVE TypeOK'
<1>1. VMOK' BY DEF TypeOK, VMOK, NoVM, VMLost
<1>2. ApiOK' /\ PassOK' /\ DepsOK' /\ OutsideOK' /\ BoundsOK'
  BY UnchangedType DEF api, deps, vmState, outside, node, bounds, VMLost
<1>. QED BY <1>1, <1>2 DEF TypeOK

LEMMA NodeProgressType == ASSUME TypeOK, NodeProgress PROVE TypeOK'
<1>1. OutsideOK' BY DEF TypeOK, VMOK, OutsideOK, outside, NodeProgress
<1>2. ApiOK' /\ PassOK' /\ DepsOK' /\ VMOK' /\ BoundsOK'
  BY UnchangedType DEF api, deps, vmState, outside, node, bounds, NodeProgress
<1>. QED BY <1>1, <1>2 DEF TypeOK

-----------------------------------------------------------------------------

LEMMA InitType == Init => TypeOK
<1>. SUFFICES ASSUME Init PROVE TypeOK OBVIOUS
<1>1. ApiOK
  <2>1. \A w \in InitialWants : NewMachine(w) \in MachineObject
    BY MachineAssumption DEF NewMachine, MachineObject
  <2>. QED BY <2>1, BlankType DEF Init, ApiOK
<1>2. PassOK BY BlankType DEF Init, PassOK, PCs
<1>3. DepsOK /\ OutsideOK /\ BoundsOK BY DEF Init, DepsOK, OutsideOK, BoundsOK
<1>4. VMOK BY DEF Init, NoVM, VMOK
<1>. QED BY <1>1, <1>2, <1>3, <1>4 DEF TypeOK

LEMMA PassType == ASSUME TypeOK, Pass PROVE TypeOK'
BY BeginIgnoredType, BeginAdoptionType, BeginNormalType, BeginDeleteType, PersistIDType,
   HandleErrorType, PickZoneType, GetVMType, BootDiskType, FlushType, VisitDiskType,
   DisksVisitedType, DeleteStaleDiskType, StaleDisksDeletedType, PublicIPType, VisitSGType,
   SGsVisitedType, CreateVMType, UpdateVMSGsType, UpdateVMIPType, UpdateVMDisksType,
   AddBackendType, SetProviderIDType, RefetchType, UpdateStatusType, LinkNodeType,
   DeregisterType, DeleteVMType, ListOwnedType, DeleteOwnedType, FinishDeleteType
DEF Pass

LEMMA EnvironmentType == ASSUME TypeOK, Environment PROVE TypeOK'
BY CacheSyncType, CrashType, UserDeleteType, UserEditType, BootstrapType, ClusterGoneType,
   CloudProgressType, DiskFailsType, VMLostType, NodeProgressType
DEF Environment

LEMMA NextType == TypeOK /\ [Next]_vars => TypeOK'
<1>. SUFFICES ASSUME TypeOK, [Next]_vars PROVE TypeOK' OBVIOUS
<1>1. CASE UNCHANGED vars
  BY <1>1, UnchangedType DEF vars, TypeOK
<1>. QED BY <1>1, PassType, EnvironmentType DEF Next

\* Every variable keeps its type, whatever the order of passes, users, crashes
\* and cloud progress.
THEOREM TypeCorrect == Spec => []TypeOK
BY InitType, NextType, PTL DEF Spec

=============================================================================
