--------------------------- MODULE MachineProofs ---------------------------
(***************************************************************************)
(* The safety of Machine, proved from the inductive invariant IInv of      *)
(* MachineInv, for any sets of zones, disks, groups, ownership IDs and     *)
(* UIDs, any bounds, and any setting of its switches.                      *)
(***************************************************************************)
EXTENDS MachineInv, MachineTypes

-----------------------------------------------------------------------------
(* What a write of the controller changes in the stored object *)

LEMMA WithStatusFields ==
    ASSUME NEW o \in MachineObject, NEW s \in MachineObject
    PROVE  /\ WithStatus(o, s).exists = o.exists
           /\ WithStatus(o, s).deleting = o.deleting
           /\ WithStatus(o, s).finalizer = o.finalizer
           /\ WithStatus(o, s).ownerID = o.ownerID
           /\ WithStatus(o, s).providerID = o.providerID
           /\ WithStatus(o, s).zone = s.zone
           /\ WithStatus(o, s).provisioned = s.provisioned
BY DEF WithStatus, MachineObject

LEMMA WithSpecFields ==
    ASSUME NEW o \in MachineObject, NEW s \in MachineObject
    PROVE  /\ WithSpec(o, s).exists = o.exists
           /\ WithSpec(o, s).deleting = o.deleting
           /\ WithSpec(o, s).finalizer = s.finalizer
           /\ WithSpec(o, s).ownerID = s.ownerID
           /\ WithSpec(o, s).providerID = s.providerID
           /\ WithSpec(o, s).zone = o.zone
           /\ WithSpec(o, s).provisioned = o.provisioned
BY DEF WithSpec, MachineObject

\* Whether the API server takes the write or not, the object is neither created
\* nor deleted, its finalizer and deletion timestamp stay, and what is written
\* once stays.
Kept ==
    /\ obj'.exists = obj.exists /\ obj'.deleting = obj.deleting
    /\ obj.finalizer => obj'.finalizer
    /\ obj'.finalizer => obj'.ownerID # None
    /\ obj.ownerID # None => obj'.ownerID = obj.ownerID
    /\ obj.zone # None => obj'.zone = obj.zone
    /\ obj.providerID # None => obj'.providerID = obj.providerID
    /\ UNCHANGED cache
    /\ cacheCurrent' => cacheCurrent /\ obj' = obj

LEMMA KeptByStatus ==
    ASSUME IInv, NEW s \in MachineObject,
           snapCurrent /\ obj.zone # None => s.zone = obj.zone,
           Store(WithStatus(obj, s)) \/ Refused
    PROVE  Kept /\ UNCHANGED <<obj.finalizer, obj.ownerID, obj.providerID>>
<1>1. CASE Store(WithStatus(obj, s))
  <2>. DEFINE w == WithStatus(obj, s)
  <2>1. obj' = w /\ UNCHANGED cache /\ snapCurrent /\ (cacheCurrent' => cacheCurrent /\ w = obj)
    BY <1>1 DEF Store
  <2>2. w.zone = s.zone /\ w.exists = obj.exists /\ w.deleting = obj.deleting
        /\ w.finalizer = obj.finalizer /\ w.ownerID = obj.ownerID /\ w.providerID = obj.providerID
    BY WithStatusFields DEF IInv, TypeOK, ApiOK
  <2>. HIDE DEF w
  <2>. QED BY <2>1, <2>2 DEF Kept, IInv, CacheLags
<1>2. CASE Refused BY <1>2 DEF Kept, Refused, Conflict, api, IInv, CacheLags
<1>. QED BY <1>1, <1>2

LEMMA KeptBySpec ==
    ASSUME IInv, NEW s \in MachineObject,
           snapCurrent => /\ s.finalizer /\ s.ownerID # None
                          /\ obj.ownerID # None => s.ownerID = obj.ownerID
                          /\ obj.providerID # None => s.providerID = obj.providerID,
           Store(WithSpec(obj, s)) \/ Refused
    PROVE  Kept /\ UNCHANGED <<obj.zone, obj.provisioned>>
<1>1. CASE Store(WithSpec(obj, s))
  <2>. DEFINE w == WithSpec(obj, s)
  <2>1. obj' = w /\ UNCHANGED cache /\ snapCurrent /\ (cacheCurrent' => cacheCurrent /\ w = obj)
    BY <1>1 DEF Store
  <2>2. w.zone = obj.zone /\ w.exists = obj.exists /\ w.deleting = obj.deleting
        /\ w.finalizer = s.finalizer /\ w.ownerID = s.ownerID /\ w.providerID = s.providerID
        /\ w.provisioned = obj.provisioned
    BY WithSpecFields DEF IInv, TypeOK, ApiOK
  <2>. HIDE DEF w
  <2>. QED BY <2>1, <2>2 DEF Kept, IInv, CacheLags
<1>2. CASE Refused BY <1>2 DEF Kept, Refused, Conflict, api, IInv, CacheLags
<1>. QED BY <1>1, <1>2

\* Such a write keeps what IInv says about the stored object and the cloud.
LEMMA KeptKeeps ==
    ASSUME IInv, Kept, UNCHANGED <<deps, vmState, backend, node>>
    PROVE  CacheLags' /\ HeldUnderFinalizer' /\ Labelled' /\ NothingDangling'
<1>. USE DEF IInv, Kept, TypeOK, ApiOK
<1>1. CacheLags' BY DEF CacheLags, Lags
<1>2. HeldUnderFinalizer' BY DEF HeldUnderFinalizer, deps, vmState, Present
<1>3. Labelled'
  <2>1. (\A r \in Resource : res[r] # "absent" /\ obj.exists =>
           owner[r] = obj.ownerID /\ owner[r] # None)'
    BY DEF Labelled, deps
  <2>2. OneZone' BY DEF Labelled, OneZone, deps, vmState
  <2>. QED BY <2>1, <2>2 DEF Labelled
<1>4. NothingDangling' BY DEF NothingDangling, Present, deps, vmState
<1>. QED BY <1>1, <1>2, <1>3, <1>4

LEMMA NodeKept == ASSUME NodeLinked, UNCHANGED <<obj.providerID, node>> PROVE NodeLinked'
BY DEF NodeLinked, node

\* A pass that returns forgets everything; IInv says little about an idle
\* controller.
LEMMA ReturnKeeps ==
    ASSUME IInv, NEW q \in BOOLEAN, Return(q), UNCHANGED res,
           cache.deleting => cache'.deleting
    PROVE  SnapLags' /\ CurrentAgrees' /\ DeletedByDeletion'
BY DEF IInv, Return, Blank, NewMachine, SnapLags, CurrentAgrees, DeletedByDeletion,
       CreatePCs, ExistingPCs, DeletePCs

LEMMA ReturnForgets ==
    ASSUME IInv, NEW q \in BOOLEAN, Return(q), UNCHANGED vmState, UNCHANGED backend
    PROVE  Creating' /\ Linking' /\ Deleting'
BY DEF IInv, Return, Creating, Linking, Deleting, vmState, CreatePCs, ExistingPCs, DeletePCs

\* What a step does not touch stays.
LEMMA Frame ==
    ASSUME IInv
    PROVE  /\ UNCHANGED api => CacheLags' /\ ProvisionedHasProviderID'
           /\ UNCHANGED <<api, node>> => NodeLinked'
           /\ UNCHANGED <<api, vmState, deps, backend>> => HeldUnderFinalizer'
           /\ UNCHANGED <<api, vmState, deps>> => Labelled'
           /\ UNCHANGED <<vmState, deps>> => NothingDangling'
BY DEF IInv, api, vmState, deps, node, CacheLags, Lags, ProvisionedHasProviderID, NodeLinked,
       HeldUnderFinalizer, Present, Labelled, OneZone, NothingDangling

\* ... whatever the informer has seen.
LEMMA FrameObject ==
    ASSUME IInv, UNCHANGED <<obj, deps, vmState, backend, node>>
    PROVE  ProvisionedHasProviderID' /\ NodeLinked' /\ HeldUnderFinalizer'
           /\ Labelled' /\ NothingDangling'
BY DEF IInv, vmState, deps, node, ProvisionedHasProviderID, NodeLinked,
       HeldUnderFinalizer, Present, Labelled, OneZone, NothingDangling

LEMMA BeginIgnoredKeeps == ASSUME IInv, TypeOK', BeginIgnored PROVE IInv'
<1>. USE DEF IInv, BeginIgnored, local, api, deps, vmState, CreatePCs, ExistingPCs, DeletePCs
<1>1. CacheLags' /\ ProvisionedHasProviderID' /\ NodeLinked' /\ HeldUnderFinalizer' /\ Labelled' /\ NothingDangling'
  BY Frame
<1>2. SnapLags' BY DEF SnapLags, CacheLags, Lags
<1>3. CurrentAgrees' BY DEF CurrentAgrees, SnapLags, CacheLags, Lags
<1>4. DeletedByDeletion' BY DEF DeletedByDeletion, SnapLags, Creating
<1>5. Creating' BY DEF Creating, SnapLags, Present
<1>6. Linking' BY DEF Linking, SnapLags, Lags
<1>7. Deleting' BY DEF Deleting, Present
<1>. QED BY <1>1, <1>2, <1>3, <1>4, <1>5, <1>6, <1>7

LEMMA BeginAdoptionKeeps == ASSUME IInv, TypeOK', BeginAdoption PROVE IInv'
<1>. USE DEF IInv, BeginAdoption, Begin, CreatePCs, ExistingPCs, DeletePCs
<1>1. CacheLags' /\ ProvisionedHasProviderID' /\ NodeLinked' /\ HeldUnderFinalizer' /\ Labelled' /\ NothingDangling'
  BY Frame
<1>2. SnapLags' BY MachineAssumption DEF SnapLags, CacheLags, api
<1>3. CurrentAgrees' BY DEF CurrentAgrees, CacheLags, api
<1>4. DeletedByDeletion' BY DEF DeletedByDeletion, deps
<1>5. Creating' BY DEF Creating, SnapLags, Present
<1>6. Linking' BY DEF Linking, vmState
<1>7. Deleting' BY DEF Deleting, Present
<1>. QED BY <1>1, <1>2, <1>3, <1>4, <1>5, <1>6, <1>7

LEMMA BeginNormalKeeps == ASSUME IInv, TypeOK', BeginNormal PROVE IInv'
<1>. USE DEF IInv, BeginNormal, Begin, CreatePCs, ExistingPCs, DeletePCs
<1>1. CacheLags' /\ ProvisionedHasProviderID' /\ NodeLinked' /\ HeldUnderFinalizer' /\ Labelled' /\ NothingDangling'
  BY Frame
<1>2. SnapLags' BY DEF SnapLags, CacheLags, Lags, api
<1>3. CurrentAgrees' BY DEF CurrentAgrees, CacheLags, api
<1>4. DeletedByDeletion' BY DEF DeletedByDeletion, deps
<1>5. Creating' BY DEF Creating, CacheLags, Lags, api
<1>6. Linking' BY DEF Linking, vmState
<1>7. Deleting' BY DEF Deleting, Present
<1>. QED BY <1>1, <1>2, <1>3, <1>4, <1>5, <1>6, <1>7

LEMMA BeginDeleteKeeps == ASSUME IInv, TypeOK', BeginDelete PROVE IInv'
<1>. USE DEF IInv, BeginDelete, Begin, CreatePCs, ExistingPCs, DeletePCs
<1>1. CacheLags' /\ ProvisionedHasProviderID' /\ NodeLinked' /\ HeldUnderFinalizer' /\ Labelled' /\ NothingDangling'
  BY Frame
<1>2. SnapLags' BY DEF SnapLags, CacheLags, Lags, api
<1>3. CurrentAgrees' BY DEF CurrentAgrees, CacheLags, api
<1>4. DeletedByDeletion' BY DEF DeletedByDeletion, api
<1>5. Creating' BY DEF Creating, SnapLags, Present
<1>6. Linking' BY DEF Linking, vmState
<1>7. Deleting' BY DEF Deleting, CacheLags, Lags, api
<1>. QED BY <1>1, <1>2, <1>3, <1>4, <1>5, <1>6, <1>7

LEMMA GetVMKeeps == ASSUME IInv, TypeOK', GetVM PROVE IInv'
<1>. USE DEF IInv, GetVM, Return, Go, Fail, Blank, NewMachine, AfterAttachments, local,
     CreatePCs, ExistingPCs, DeletePCs
<1>1. CacheLags' /\ ProvisionedHasProviderID' /\ NodeLinked' /\ HeldUnderFinalizer' /\ Labelled' /\ NothingDangling'
  BY Frame
<1>2. SnapLags' BY DEF SnapLags, CacheLags, Lags, api
<1>3. CurrentAgrees' BY DEF CurrentAgrees, api
<1>4. DeletedByDeletion' BY DEF DeletedByDeletion, SnapLags, deps
<1>5. Creating' BY DEF Creating, vmState, api
<1>6. Linking' BY DEF Linking, SnapLags, Lags, vmState, api
<1>7. Deleting' BY DEF Deleting, Present
<1>. QED BY <1>1, <1>2, <1>3, <1>4, <1>5, <1>6, <1>7

LEMMA BootDiskKeeps == ASSUME IInv, TypeOK', BootDisk PROVE IInv'
<1>. USE DEF IInv, BootDisk, Return, Go, Fail, Loop, Provision, Blank, NewMachine, local,
     CreatePCs, ExistingPCs, DeletePCs
<1>1. CacheLags' /\ ProvisionedHasProviderID' /\ NodeLinked' BY Frame
<1>2. HeldUnderFinalizer' BY DEF HeldUnderFinalizer, Creating, api
<1>3. Labelled'
  BY DEF Labelled, OneZone, Creating, SnapLags, Lags, TypeOK, DepsOK, Resource, vmState,
     deps, api
<1>4. NothingDangling' BY DEF NothingDangling, Creating, Deleting, vmState
<1>5. SnapLags' BY DEF SnapLags, CacheLags, Lags, api
<1>6. CurrentAgrees' BY DEF CurrentAgrees, api
<1>7. DeletedByDeletion' BY DEF DeletedByDeletion, SnapLags, TypeOK, DepsOK, deps
<1>8. Creating' BY DEF Creating, Present, vmState, deps, api
<1>9. Linking' BY DEF Linking, vmState
<1>10. Deleting' BY DEF Deleting, Present
<1>. QED BY <1>1, <1>2, <1>3, <1>4, <1>5, <1>6, <1>7, <1>8, <1>9, <1>10

LEMMA VisitDiskKeeps == ASSUME IInv, TypeOK', NEW d \in DataDisks, VisitDisk(d) PROVE IInv'
<1>. USE DEF IInv, VisitDisk, Fail, Provision, local, CreatePCs, ExistingPCs, DeletePCs
<1>1. CacheLags' /\ ProvisionedHasProviderID' /\ NodeLinked' BY Frame
<1>2. HeldUnderFinalizer' BY DEF HeldUnderFinalizer, Creating, api
<1>3. Labelled'
  BY DEF Labelled, OneZone, Creating, SnapLags, Lags, TypeOK, DepsOK, Resource, vmState,
     deps, api
<1>4. NothingDangling' BY DEF NothingDangling, Creating, Deleting, vmState
<1>5. SnapLags' BY DEF SnapLags, CacheLags, Lags, api
<1>6. CurrentAgrees' BY DEF CurrentAgrees, api
<1>7. DeletedByDeletion' BY DEF DeletedByDeletion, SnapLags, TypeOK, DepsOK, deps
<1>8. Creating'
  BY DEF Creating, Present, TypeOK, DepsOK, Resource, Disk, Dependent, vmState, deps, api
<1>9. Linking' BY DEF Linking, vmState
<1>10. Deleting' BY DEF Deleting, Present
<1>. QED BY <1>1, <1>2, <1>3, <1>4, <1>5, <1>6, <1>7, <1>8, <1>9, <1>10

LEMMA DisksVisitedKeeps == ASSUME IInv, TypeOK', DisksVisited PROVE IInv'
<1>. USE DEF IInv, DisksVisited, Loop, CreatePCs, ExistingPCs, DeletePCs
<1>1. CacheLags' /\ ProvisionedHasProviderID' /\ NodeLinked' /\ HeldUnderFinalizer' /\ Labelled' /\ NothingDangling'
  BY Frame
<1>2. SnapLags' BY DEF SnapLags, CacheLags, Lags, TypeOK, PassOK, MachineObject, api
<1>3. CurrentAgrees'
  <2>1. snap'.finalizer = snap.finalizer /\ snap'.ownerID = snap.ownerID
        /\ snap'.zone = snap.zone /\ snap'.providerID = snap.providerID
    BY DEF TypeOK, PassOK, MachineObject
  <2>2. snapCurrent' = snapCurrent /\ pc' # "idle" /\ obj' = obj BY DEF api
  <2>. QED BY <2>1, <2>2 DEF CurrentAgrees
<1>4. DeletedByDeletion' BY DEF DeletedByDeletion, SnapLags, deps
<1>5. Creating' BY DEF Creating, Present, TypeOK, PassOK, MachineObject, vmState, deps, api
<1>6. Linking' BY DEF Linking, vmState
<1>7. Deleting' BY DEF Deleting, Present
<1>. QED BY <1>1, <1>2, <1>3, <1>4, <1>5, <1>6, <1>7

LEMMA DeleteStaleDiskKeeps == ASSUME IInv, TypeOK', NEW d \in DataDisks, DeleteStaleDisk(d) PROVE IInv'
<1>. USE DEF IInv, DeleteStaleDisk, Fail, Loop, Deleted, local, CreatePCs, ExistingPCs,
     DeletePCs
<1>1. CacheLags' /\ ProvisionedHasProviderID' /\ NodeLinked' BY Frame
<1>2. HeldUnderFinalizer' BY DEF HeldUnderFinalizer, Creating, api
<1>3. Labelled' BY DEF Labelled, OneZone, TypeOK, DepsOK, Resource, vmState, api
<1>4. NothingDangling' BY DEF NothingDangling, Creating, Deleting, vmState
<1>5. SnapLags' BY DEF SnapLags, CacheLags, Lags, api
<1>6. CurrentAgrees' BY DEF CurrentAgrees, api
<1>7. DeletedByDeletion' BY DEF DeletedByDeletion, SnapLags, TypeOK, DepsOK
<1>8. Creating'
  BY MachineAssumption DEF Creating, Present, TypeOK, DepsOK, Resource, Disk, Dependent,
     vmState, api
<1>9. Linking' BY DEF Linking, vmState
<1>10. Deleting' BY DEF Deleting, Present
<1>. QED BY <1>1, <1>2, <1>3, <1>4, <1>5, <1>6, <1>7, <1>8, <1>9, <1>10

LEMMA StaleDisksDeletedKeeps == ASSUME IInv, TypeOK', StaleDisksDeleted PROVE IInv'
<1>. USE DEF IInv, StaleDisksDeleted, CreatePCs, ExistingPCs, DeletePCs
<1>1. CacheLags' /\ ProvisionedHasProviderID' /\ NodeLinked' /\ HeldUnderFinalizer' /\ Labelled' /\ NothingDangling'
  BY Frame
<1>2. SnapLags' BY DEF SnapLags, CacheLags, Lags, api
<1>3. CurrentAgrees' BY DEF CurrentAgrees, api
<1>4. DeletedByDeletion' BY DEF DeletedByDeletion, SnapLags, deps
<1>5. Creating' BY DEF Creating, Present, vmState, deps, api
<1>6. Linking' BY DEF Linking, vmState
<1>7. Deleting' BY DEF Deleting, Present
<1>. QED BY <1>1, <1>2, <1>3, <1>4, <1>5, <1>6, <1>7

LEMMA PublicIPKeeps == ASSUME IInv, TypeOK', PublicIP PROVE IInv'
<1>. USE DEF IInv, PublicIP, Fail, Go, Loop, Provision, local, CreatePCs, ExistingPCs,
     DeletePCs
<1>1. CacheLags' /\ ProvisionedHasProviderID' /\ NodeLinked' BY Frame
<1>2. HeldUnderFinalizer' BY DEF HeldUnderFinalizer, Creating, api
<1>3. Labelled'
  BY MachineAssumption DEF Labelled, OneZone, Creating, TypeOK, PassOK, DepsOK,
     MachineObject, Resource, Disk, Dependent, vmState, deps, api
<1>4. NothingDangling' BY DEF NothingDangling, Creating, Deleting, vmState
<1>5. SnapLags' BY DEF SnapLags, CacheLags, Lags, api
<1>6. CurrentAgrees' BY DEF CurrentAgrees, api
<1>7. DeletedByDeletion' BY DEF DeletedByDeletion, SnapLags, TypeOK, DepsOK, deps
<1>8. Creating'
  BY DEF Creating, DeletedByDeletion, SnapLags, Present, Resource, vmState, deps, api
<1>9. Linking' BY DEF Linking, vmState
<1>10. Deleting' BY DEF Deleting, Present
<1>. QED BY <1>1, <1>2, <1>3, <1>4, <1>5, <1>6, <1>7, <1>8, <1>9, <1>10

LEMMA VisitSGKeeps == ASSUME IInv, TypeOK', NEW g \in InlineSGs, VisitSG(g) PROVE IInv'
<1>. USE DEF IInv, VisitSG, Fail, Loop, Provision, local, CreatePCs, ExistingPCs, DeletePCs
<1>1. CacheLags' /\ ProvisionedHasProviderID' /\ NodeLinked' BY Frame
<1>2. HeldUnderFinalizer' BY DEF HeldUnderFinalizer, Creating, api
<1>3. Labelled'
  BY MachineAssumption DEF Labelled, OneZone, Creating, TypeOK, DepsOK, Resource, Disk,
     Dependent, vmState, deps, api
<1>4. NothingDangling' BY DEF NothingDangling, Creating, Deleting, vmState
<1>5. SnapLags' BY DEF SnapLags, CacheLags, Lags, api
<1>6. CurrentAgrees' BY DEF CurrentAgrees, api
<1>7. DeletedByDeletion' BY DEF DeletedByDeletion, SnapLags, TypeOK, DepsOK, deps
<1>8. Creating'
  BY DEF Creating, DeletedByDeletion, SnapLags, Present, TypeOK, DepsOK, Resource, Disk,
     Dependent, vmState, deps, api
<1>9. Linking' BY DEF Linking, vmState
<1>10. Deleting' BY DEF Deleting, Present
<1>. QED BY <1>1, <1>2, <1>3, <1>4, <1>5, <1>6, <1>7, <1>8, <1>9, <1>10

LEMMA SGsVisitedKeeps == ASSUME IInv, TypeOK', SGsVisited PROVE IInv'
<1>. USE DEF IInv, SGsVisited, Go, local, CreatePCs, ExistingPCs, DeletePCs
<1>1. CacheLags' /\ ProvisionedHasProviderID' /\ NodeLinked' /\ HeldUnderFinalizer' /\ Labelled' /\ NothingDangling'
  BY Frame
<1>2. SnapLags' BY DEF SnapLags, CacheLags, Lags, api
<1>3. CurrentAgrees' BY DEF CurrentAgrees, api
<1>4. DeletedByDeletion' BY DEF DeletedByDeletion, SnapLags, deps
<1>5. Creating' BY DEF Creating, Present, vmState, deps, api
<1>6. Linking' BY DEF Linking, vmState
<1>7. Deleting' BY DEF Deleting, Present
<1>. QED BY <1>1, <1>2, <1>3, <1>4, <1>5, <1>6, <1>7

LEMMA CreateVMKeeps == ASSUME IInv, TypeOK', CreateVM PROVE IInv'
<1>. USE DEF IInv, CreateVM, Return, Fail, NewVM, Blank, NewMachine, local, CreatePCs,
     ExistingPCs, DeletePCs
<1>1. CacheLags' /\ ProvisionedHasProviderID' /\ NodeLinked' BY Frame
<1>2. HeldUnderFinalizer' BY DEF HeldUnderFinalizer, Creating, api
<1>3. Labelled' BY DEF Labelled, OneZone, Creating, SnapLags, Lags, vmState, deps, api
<1>4. NothingDangling'
  BY DEF NothingDangling, Creating, Deleting, Present, TypeOK, PassOK, MachineObject,
     Resource, Disk, Dependent, vmState, deps
<1>5. SnapLags' BY DEF SnapLags, api
<1>6. CurrentAgrees' BY DEF CurrentAgrees, api
<1>7. DeletedByDeletion' BY DEF DeletedByDeletion, SnapLags, deps
<1>8. Creating' BY DEF Creating, SnapLags, Present
<1>9. Linking' BY DEF Linking, vmState
<1>10. Deleting' BY DEF Deleting, Present
<1>. QED BY <1>1, <1>2, <1>3, <1>4, <1>5, <1>6, <1>7, <1>8, <1>9, <1>10

LEMMA UpdateVMSGsKeeps == ASSUME IInv, TypeOK', UpdateVMSGs PROVE IInv'
<1>. USE DEF IInv, UpdateVMSGs, Fail, Go, Attach, AlreadyDone, local, CreatePCs,
     ExistingPCs, DeletePCs
<1>1. CacheLags' /\ ProvisionedHasProviderID' /\ NodeLinked' BY Frame
<1>2. HeldUnderFinalizer' BY DEF HeldUnderFinalizer, Creating, api
<1>3. Labelled' BY DEF Labelled, OneZone, TypeOK, VMOK, deps, api
<1>4. NothingDangling' BY DEF NothingDangling, Deleting, Present, TypeOK, VMOK, deps
<1>5. SnapLags' BY DEF SnapLags, CacheLags, Lags, api
<1>6. CurrentAgrees' BY DEF CurrentAgrees, api
<1>7. DeletedByDeletion' BY DEF DeletedByDeletion, SnapLags, deps
<1>8. Creating' BY DEF Creating, api
<1>9. Linking' BY DEF Linking, TypeOK, VMOK
<1>10. Deleting' BY DEF Deleting, Present
<1>. QED BY <1>1, <1>2, <1>3, <1>4, <1>5, <1>6, <1>7, <1>8, <1>9, <1>10

LEMMA UpdateVMIPKeeps == ASSUME IInv, TypeOK', UpdateVMIP PROVE IInv'
<1>. USE DEF IInv, UpdateVMIP, Fail, Go, Attach, AlreadyDone, local, CreatePCs, ExistingPCs,
     DeletePCs
<1>1. CacheLags' /\ ProvisionedHasProviderID' /\ NodeLinked' BY Frame
<1>2. HeldUnderFinalizer' BY DEF HeldUnderFinalizer, Creating, api
<1>3. Labelled' BY DEF Labelled, OneZone, TypeOK, VMOK, deps, api
<1>4. NothingDangling' BY DEF NothingDangling, Deleting, Present, TypeOK, VMOK, deps
<1>5. SnapLags' BY DEF SnapLags, CacheLags, Lags, api
<1>6. CurrentAgrees' BY DEF CurrentAgrees, api
<1>7. DeletedByDeletion' BY DEF DeletedByDeletion, SnapLags, deps
<1>8. Creating' BY DEF Creating, api
<1>9. Linking' BY DEF Linking, TypeOK, VMOK
<1>10. Deleting' BY DEF Deleting, Present
<1>. QED BY <1>1, <1>2, <1>3, <1>4, <1>5, <1>6, <1>7, <1>8, <1>9, <1>10

LEMMA UpdateVMDisksKeeps == ASSUME IInv, TypeOK', UpdateVMDisks PROVE IInv'
<1>. USE DEF IInv, UpdateVMDisks, Fail, Go, Attach, AfterAttachments, local, CreatePCs,
     ExistingPCs, DeletePCs
<1>1. CacheLags' /\ ProvisionedHasProviderID' /\ NodeLinked' BY Frame
<1>2. HeldUnderFinalizer' BY DEF HeldUnderFinalizer, Creating, api
<1>3. Labelled' BY DEF Labelled, OneZone, TypeOK, VMOK, deps, api
<1>4. NothingDangling' BY DEF NothingDangling, Deleting, Present, TypeOK, VMOK, deps
<1>5. SnapLags' BY DEF SnapLags, CacheLags, Lags, api
<1>6. CurrentAgrees' BY DEF CurrentAgrees, api
<1>7. DeletedByDeletion' BY DEF DeletedByDeletion, SnapLags, deps
<1>8. Creating' BY DEF Creating, api
<1>9. Linking' BY DEF Linking, SnapLags, Lags, TypeOK, VMOK, api
<1>10. Deleting' BY DEF Deleting, Present
<1>. QED BY <1>1, <1>2, <1>3, <1>4, <1>5, <1>6, <1>7, <1>8, <1>9, <1>10

LEMMA AddBackendKeeps == ASSUME IInv, TypeOK', AddBackend PROVE IInv'
<1>. USE DEF IInv, AddBackend, Fail, Go, local, CreatePCs, ExistingPCs, DeletePCs
<1>1. CacheLags' /\ ProvisionedHasProviderID' /\ NodeLinked' /\ Labelled' /\ NothingDangling'
  BY Frame
<1>2. HeldUnderFinalizer' BY DEF HeldUnderFinalizer, Creating, api
<1>3. SnapLags' BY DEF SnapLags, CacheLags, Lags, api
<1>4. CurrentAgrees' BY DEF CurrentAgrees, api
<1>5. DeletedByDeletion' BY DEF DeletedByDeletion, SnapLags, deps
<1>6. Creating' BY DEF Creating, api
<1>7. Linking' BY DEF Linking, SnapLags, Lags, vmState, api
<1>8. Deleting'
  <2>1. backend' \in BOOLEAN BY DEF TypeOK, OutsideOK
  <2>2. pc = "backend" /\ ControlPlane /\ pc' \notin DeletePCs BY DEF Linking
  <2>. QED BY <2>2 DEF Deleting
<1>. QED BY <1>1, <1>2, <1>3, <1>4, <1>5, <1>6, <1>7, <1>8

LEMMA RefetchKeeps == ASSUME IInv, TypeOK', Refetch PROVE IInv'
<1>. USE DEF IInv, Refetch, Return, Blank, NewMachine, CreatePCs, ExistingPCs, DeletePCs
<1>1. CacheLags' /\ ProvisionedHasProviderID' /\ NodeLinked' /\ HeldUnderFinalizer' /\ Labelled' /\ NothingDangling'
  BY Frame
<1>2. SnapLags' BY DEF SnapLags, CacheLags, Lags, api
<1>3. CurrentAgrees'
  <2>1. CASE cache.exists BY <2>1 DEF CurrentAgrees, CacheLags, api
  <2>2. CASE ~cache.exists BY <2>2 DEF CurrentAgrees
  <2>. QED BY <2>1, <2>2
<1>4. DeletedByDeletion' BY DEF DeletedByDeletion, SnapLags, deps
<1>5. Creating' BY DEF Creating, api
<1>6. Linking' BY DEF Linking, vmState, api
<1>7. Deleting' BY DEF Deleting, Present
<1>. QED BY <1>1, <1>2, <1>3, <1>4, <1>5, <1>6, <1>7

LEMMA DeregisterKeeps == ASSUME IInv, TypeOK', Deregister PROVE IInv'
<1>. USE DEF IInv, Deregister, CreatePCs, ExistingPCs, DeletePCs
<1>1. CacheLags' /\ ProvisionedHasProviderID' /\ NodeLinked' /\ Labelled' /\ NothingDangling'
  BY Frame
<1>2. HeldUnderFinalizer' BY DEF HeldUnderFinalizer, Present, vmState, deps, api
<1>3. SnapLags' BY DEF SnapLags, CacheLags, Lags, api
<1>4. CurrentAgrees' BY DEF CurrentAgrees, api
<1>5. DeletedByDeletion' BY DEF DeletedByDeletion, deps, api
<1>6. Creating' BY DEF Creating, SnapLags, Present
<1>7. Linking' BY DEF Linking, vmState
<1>8. Deleting'
  <2>1. snap' = snap /\ obj' = obj /\ snap.deleting /\ snap.ownerID = obj.ownerID
    BY DEF Deleting, api
  <2>2. backend' => backend BY DEF TypeOK, OutsideOK
  <2>3. ~errs' => ~backend' BY DEF TypeOK, OutsideOK
  <2>. QED BY <2>1, <2>2, <2>3 DEF Deleting
<1>. QED BY <1>1, <1>2, <1>3, <1>4, <1>5, <1>6, <1>7, <1>8

LEMMA DeleteVMKeeps == ASSUME IInv, TypeOK', DeleteVM PROVE IInv'
<1>. USE DEF IInv, DeleteVM, Return, Go, Blank, NewMachine, local, CreatePCs, ExistingPCs,
     DeletePCs
<1>1. CacheLags' /\ ProvisionedHasProviderID' /\ NodeLinked' BY Frame
<1>2. HeldUnderFinalizer' BY DEF HeldUnderFinalizer, Present, deps, api
<1>3. Labelled' BY DEF Labelled, OneZone, TypeOK, VMOK, deps, api
<1>4. NothingDangling' BY DEF NothingDangling, Deleting, Present, TypeOK, VMOK, deps
<1>5. SnapLags' BY DEF SnapLags, CacheLags, Lags, api
<1>6. CurrentAgrees' BY DEF CurrentAgrees, api
<1>7. DeletedByDeletion' BY DEF DeletedByDeletion, deps, api
<1>8. Creating' BY DEF Creating, SnapLags, Present
<1>9. Linking' BY DEF Linking, TypeOK, VMOK
<1>10. Deleting' BY DEF Deleting, api
<1>. QED BY <1>1, <1>2, <1>3, <1>4, <1>5, <1>6, <1>7, <1>8, <1>9, <1>10

LEMMA ListOwnedKeeps == ASSUME IInv, TypeOK', ListOwned PROVE IInv'
<1>. USE DEF IInv, ListOwned, Loop, Owned, CreatePCs, ExistingPCs, DeletePCs
<1>1. CacheLags' /\ ProvisionedHasProviderID' /\ NodeLinked' /\ HeldUnderFinalizer' /\ Labelled' /\ NothingDangling'
  BY Frame
<1>2. SnapLags' BY DEF SnapLags, CacheLags, Lags, api
<1>3. CurrentAgrees' BY DEF CurrentAgrees, api
<1>4. DeletedByDeletion' BY DEF DeletedByDeletion, deps, api
<1>5. Creating' BY DEF Creating, SnapLags, Present
<1>6. Linking' BY DEF Linking, vmState
<1>7. Deleting' BY DEF Deleting, HeldUnderFinalizer, Labelled, Present, vmState, deps, api
<1>. QED BY <1>1, <1>2, <1>3, <1>4, <1>5, <1>6, <1>7

LEMMA DeleteOwnedKeeps == ASSUME IInv, TypeOK', NEW r \in Resource, DeleteOwned(r) PROVE IInv'
<1>. USE DEF IInv, DeleteOwned, Deleted, CreatePCs, ExistingPCs, DeletePCs
<1>1. CacheLags' /\ ProvisionedHasProviderID' /\ NodeLinked' BY Frame
<1>2. HeldUnderFinalizer' BY DEF HeldUnderFinalizer, Present, TypeOK, DepsOK, vmState, api
<1>3. Labelled' BY DEF Labelled, OneZone, TypeOK, DepsOK, Resource, vmState, api
<1>4. NothingDangling' BY DEF NothingDangling, Deleting, vmState
<1>5. SnapLags' BY DEF SnapLags, CacheLags, Lags, api
<1>6. CurrentAgrees' BY DEF CurrentAgrees, api
<1>7. DeletedByDeletion'
  <2>1. snap.deleting /\ cache.deleting BY DEF Deleting, SnapLags
  <2>. QED BY <2>1 DEF DeletedByDeletion, api
<1>8. Creating' BY DEF Creating, SnapLags, Present
<1>9. Linking' BY DEF Linking, vmState
<1>10. Deleting' BY DEF Deleting, Present, TypeOK, DepsOK, vmState, api
<1>. QED BY <1>1, <1>2, <1>3, <1>4, <1>5, <1>6, <1>7, <1>8, <1>9, <1>10

LEMMA CacheSyncKeeps == ASSUME IInv, TypeOK', CacheSync PROVE IInv'
<1>. USE DEF IInv, CacheSync, local, CreatePCs, ExistingPCs, DeletePCs
<1>1. ProvisionedHasProviderID' /\ NodeLinked' /\ HeldUnderFinalizer' /\ Labelled' /\ NothingDangling' BY FrameObject
<1>2. CacheLags' BY DEF CacheLags, Lags, ProvisionedHasProviderID
<1>3. SnapLags' BY DEF SnapLags, CacheLags, Lags
<1>4. CurrentAgrees' BY DEF CurrentAgrees, SnapLags, CacheLags, Lags
<1>5. DeletedByDeletion'
  <2>1. cache.deleting => obj.deleting BY DEF CacheLags, Lags
  <2>. QED BY <2>1 DEF DeletedByDeletion, deps
<1>6. Creating' BY DEF Creating, Present, vmState, deps
<1>7. Linking' BY DEF Linking, vmState
<1>8. Deleting' BY DEF Deleting, Present, vmState, deps
<1>. QED BY <1>1, <1>2, <1>3, <1>4, <1>5, <1>6, <1>7, <1>8

LEMMA CrashKeeps == ASSUME IInv, TypeOK', Crash PROVE IInv'
<1>. USE DEF IInv, Crash, Blank, NewMachine, CreatePCs, ExistingPCs, DeletePCs
<1>1. ProvisionedHasProviderID' /\ NodeLinked' /\ HeldUnderFinalizer' /\ Labelled' /\ NothingDangling' BY FrameObject
<1>2. CacheLags' BY DEF CacheLags, Lags, ProvisionedHasProviderID
<1>3. SnapLags' BY DEF SnapLags, CacheLags, Lags
<1>4. CurrentAgrees' BY DEF CurrentAgrees, SnapLags, CacheLags, Lags
<1>5. DeletedByDeletion' BY DEF DeletedByDeletion, SnapLags, deps
<1>6. Creating' BY DEF Creating, SnapLags, Present
<1>7. Linking' BY DEF Linking, vmState
<1>8. Deleting' BY DEF Deleting, Present
<1>. QED BY <1>1, <1>2, <1>3, <1>4, <1>5, <1>6, <1>7, <1>8

LEMMA UserDeleteKeeps == ASSUME IInv, TypeOK', UserDelete PROVE IInv'
<1>. USE DEF IInv, UserDelete, Write, CreatePCs, ExistingPCs, DeletePCs
<1>1. NothingDangling' BY Frame
<1>2. CacheLags' BY DEF CacheLags, Lags
<1>3. ProvisionedHasProviderID' BY DEF ProvisionedHasProviderID
<1>4. NodeLinked'
  <2>1. obj'.providerID = obj.providerID BY DEF TypeOK, ApiOK, MachineObject
  <2>. QED BY <2>1 DEF NodeLinked, node
<1>5. HeldUnderFinalizer' BY DEF HeldUnderFinalizer, Present, vmState, deps
<1>6. Labelled' BY DEF Labelled, OneZone, vmState, deps
<1>7. SnapLags' BY DEF SnapLags, CacheLags, Lags
<1>8. CurrentAgrees' BY DEF CurrentAgrees, SnapLags, CacheLags, Lags
<1>9. DeletedByDeletion' BY DEF DeletedByDeletion, deps
<1>10. Creating' BY DEF Creating, Present, vmState, deps
<1>11. Linking' BY DEF Linking, vmState
<1>12. Deleting' BY DEF Deleting, SnapLags
<1>. QED BY <1>1, <1>2, <1>3, <1>4, <1>5, <1>6, <1>7, <1>8, <1>9, <1>10, <1>11, <1>12

LEMMA UserEditKeeps == ASSUME IInv, TypeOK', UserEdit PROVE IInv'
<1>. USE DEF IInv, UserEdit, Write, CreatePCs, ExistingPCs, DeletePCs
<1>1. NothingDangling' BY Frame
<1>2. CacheLags' BY DEF CacheLags, Lags, TypeOK, ApiOK, MachineObject
<1>3. ProvisionedHasProviderID'
  BY DEF ProvisionedHasProviderID, TypeOK, ApiOK, MachineObject
<1>4. NodeLinked'
  <2>1. obj'.providerID = obj.providerID BY DEF TypeOK, ApiOK, MachineObject
  <2>. QED BY <2>1 DEF NodeLinked, node
<1>5. HeldUnderFinalizer'
  BY DEF HeldUnderFinalizer, Present, TypeOK, ApiOK, MachineObject, vmState, deps
<1>6. Labelled' BY DEF Labelled, OneZone, TypeOK, ApiOK, MachineObject, vmState, deps
<1>7. SnapLags' BY DEF SnapLags, CacheLags, Lags, TypeOK, ApiOK, MachineObject
<1>8. CurrentAgrees' BY DEF CurrentAgrees, SnapLags, CacheLags, Lags
<1>9. DeletedByDeletion' BY DEF DeletedByDeletion, deps
<1>10. Creating' BY DEF Creating, Present, TypeOK, ApiOK, MachineObject, vmState, deps
<1>11. Linking' BY DEF Linking, TypeOK, ApiOK, MachineObject, vmState
<1>12. Deleting' BY DEF Deleting, Present, TypeOK, ApiOK, MachineObject, vmState, deps
<1>. QED BY <1>1, <1>2, <1>3, <1>4, <1>5, <1>6, <1>7, <1>8, <1>9, <1>10, <1>11, <1>12

LEMMA BootstrapKeeps == ASSUME IInv, TypeOK', Bootstrap PROVE IInv'
<1>. USE DEF IInv, Bootstrap, local, api, deps, vmState, CreatePCs, ExistingPCs, DeletePCs
<1>1. CacheLags' /\ ProvisionedHasProviderID' /\ NodeLinked' /\ HeldUnderFinalizer' /\ Labelled' /\ NothingDangling'
  BY Frame
<1>2. SnapLags' BY DEF SnapLags, CacheLags, Lags
<1>3. CurrentAgrees' BY DEF CurrentAgrees, SnapLags, CacheLags, Lags
<1>4. DeletedByDeletion' BY DEF DeletedByDeletion, SnapLags, Creating
<1>5. Creating' BY DEF Creating, SnapLags, Present
<1>6. Linking' BY DEF Linking, SnapLags, Lags
<1>7. Deleting' BY DEF Deleting, Present
<1>. QED BY <1>1, <1>2, <1>3, <1>4, <1>5, <1>6, <1>7

LEMMA ClusterGoneKeeps == ASSUME IInv, TypeOK', ClusterGone PROVE IInv'
<1>. USE DEF IInv, ClusterGone, local, api, deps, vmState, CreatePCs, ExistingPCs, DeletePCs
<1>1. CacheLags' /\ ProvisionedHasProviderID' /\ NodeLinked' /\ Labelled' /\ NothingDangling'
  BY Frame
<1>2. HeldUnderFinalizer' BY DEF HeldUnderFinalizer, Creating, Present
<1>3. SnapLags' BY DEF SnapLags, CacheLags, Lags
<1>4. CurrentAgrees' BY DEF CurrentAgrees, SnapLags, CacheLags, Lags
<1>5. DeletedByDeletion' BY DEF DeletedByDeletion, SnapLags, Creating
<1>6. Creating' BY DEF Creating, SnapLags, Present
<1>7. Linking' BY DEF Linking, SnapLags, Lags
<1>8. Deleting' BY DEF Deleting, Present
<1>. QED BY <1>1, <1>2, <1>3, <1>4, <1>5, <1>6, <1>7, <1>8

LEMMA CloudProgressKeeps == ASSUME IInv, TypeOK', CloudProgress PROVE IInv'
<1>. USE DEF IInv, CloudProgress, NoVM, local, api, CreatePCs, ExistingPCs, DeletePCs
<1>1. CacheLags' /\ ProvisionedHasProviderID' /\ NodeLinked' BY Frame
<1>2. HeldUnderFinalizer' BY DEF HeldUnderFinalizer, Present, TypeOK, DepsOK
<1>3. Labelled' BY DEF Labelled, OneZone, TypeOK, DepsOK, VMOK, Resource
<1>4. NothingDangling' BY DEF NothingDangling, Deleting, Present, TypeOK, DepsOK, VMOK
<1>5. SnapLags' BY DEF SnapLags, CacheLags, Lags
<1>6. CurrentAgrees' BY DEF CurrentAgrees, SnapLags, CacheLags, Lags
<1>7. DeletedByDeletion' BY DEF DeletedByDeletion, TypeOK, DepsOK
<1>8. Creating' BY DEF Creating, Present, TypeOK, DepsOK, Resource, Disk, Dependent
<1>9. Linking' BY DEF Linking, TypeOK, VMOK
<1>10. Deleting' BY DEF Deleting, Present, TypeOK, DepsOK
<1>. QED BY <1>1, <1>2, <1>3, <1>4, <1>5, <1>6, <1>7, <1>8, <1>9, <1>10

LEMMA DiskFailsKeeps == ASSUME IInv, TypeOK', DiskFails PROVE IInv'
<1>. USE DEF IInv, DiskFails, local, api, vmState, Disk, CreatePCs, ExistingPCs, DeletePCs
<1>1. CacheLags' /\ ProvisionedHasProviderID' /\ NodeLinked' BY Frame
<1>2. HeldUnderFinalizer' BY DEF HeldUnderFinalizer, Creating, Present
<1>3. Labelled' BY DEF Labelled, OneZone, Creating
<1>4. NothingDangling' BY DEF NothingDangling, Creating, Deleting, Present
<1>5. SnapLags' BY DEF SnapLags, CacheLags, Lags
<1>6. CurrentAgrees' BY DEF CurrentAgrees, SnapLags, CacheLags, Lags
<1>7. DeletedByDeletion' BY DEF DeletedByDeletion, SnapLags, Creating
<1>8. Creating' BY DEF Creating, SnapLags, Present
<1>9. Linking' BY DEF Linking, SnapLags, Lags
<1>10. Deleting' BY DEF Deleting, Present
<1>. QED BY <1>1, <1>2, <1>3, <1>4, <1>5, <1>6, <1>7, <1>8, <1>9, <1>10

LEMMA VMLostKeeps == ASSUME IInv, TypeOK', VMLost PROVE IInv'
<1>. USE DEF IInv, VMLost, NoVM, local, api, deps, CreatePCs, ExistingPCs, DeletePCs
<1>1. CacheLags' /\ ProvisionedHasProviderID' /\ NodeLinked' BY Frame
<1>2. HeldUnderFinalizer' BY DEF HeldUnderFinalizer, Creating, Present
<1>3. Labelled' BY DEF Labelled, OneZone, Creating
<1>4. NothingDangling' BY DEF NothingDangling, Creating, Deleting, Present
<1>5. SnapLags' BY DEF SnapLags, CacheLags, Lags
<1>6. CurrentAgrees' BY DEF CurrentAgrees, SnapLags, CacheLags, Lags
<1>7. DeletedByDeletion' BY DEF DeletedByDeletion, SnapLags, Creating
<1>8. Creating' BY DEF Creating, SnapLags, Present
<1>9. Linking' BY DEF Linking, SnapLags, Lags
<1>10. Deleting' BY DEF Deleting, Present
<1>. QED BY <1>1, <1>2, <1>3, <1>4, <1>5, <1>6, <1>7, <1>8, <1>9, <1>10

LEMMA NodeProgressKeeps == ASSUME IInv, TypeOK', NodeProgress PROVE IInv'
<1>. USE DEF IInv, NodeProgress, local, api, deps, vmState, CreatePCs, ExistingPCs, DeletePCs
<1>1. CacheLags' /\ ProvisionedHasProviderID' /\ HeldUnderFinalizer' /\ Labelled' /\ NothingDangling'
  BY Frame
<1>2. NodeLinked' BY DEF NodeLinked
<1>3. SnapLags' BY DEF SnapLags, CacheLags, Lags
<1>4. CurrentAgrees' BY DEF CurrentAgrees, SnapLags, CacheLags, Lags
<1>5. DeletedByDeletion' BY DEF DeletedByDeletion, SnapLags, Creating
<1>6. Creating' BY DEF Creating, SnapLags, Present
<1>7. Linking' BY DEF Linking, SnapLags, Lags
<1>8. Deleting' BY DEF Deleting, Present
<1>. QED BY <1>1, <1>2, <1>3, <1>4, <1>5, <1>6, <1>7, <1>8

-----------------------------------------------------------------------------
(* The steps that write the object *)

LEMMA PersistIDKeeps == ASSUME IInv, TypeOK', PersistID PROVE IInv'
<1>. USE DEF IInv, PersistID
<1>1. Kept /\ UNCHANGED <<obj.zone, obj.provisioned>>
  <2>1. snap \in MachineObject BY DEF TypeOK, PassOK
  <2>2. snapCurrent => /\ snap.finalizer /\ snap.ownerID # None
                       /\ obj.ownerID # None => snap.ownerID = obj.ownerID
                       /\ obj.providerID # None => snap.providerID = obj.providerID
    BY DEF SnapLags, CurrentAgrees
  <2>. QED BY <2>1, <2>2, KeptBySpec
<1>2. CacheLags' /\ HeldUnderFinalizer' /\ Labelled' /\ NothingDangling'
  BY <1>1, KeptKeeps
<1>3. SnapLags' /\ CurrentAgrees' /\ DeletedByDeletion' BY <1>1, ReturnKeeps DEF Kept, deps
<1>4. Creating' /\ Linking' /\ Deleting' BY ReturnForgets
<1>5. ProvisionedHasProviderID' BY <1>1 DEF ProvisionedHasProviderID, Kept
<1>6. NodeLinked'
  <2>1. CASE Refused BY <2>1 DEF NodeLinked, node, Refused, Conflict, api
  <2>2. CASE Store(WithSpec(obj, snap))
    <3>1. obj'.providerID = obj.providerID
      BY <2>2, WithSpecFields DEF Store, CurrentAgrees, TypeOK, ApiOK, PassOK
    <3>. QED BY <3>1 DEF NodeLinked, node
  <2>. QED BY <2>1, <2>2
<1>. QED BY <1>6, <1>2, <1>3, <1>4, <1>5

LEMMA HandleErrorKeeps == ASSUME IInv, TypeOK', HandleError PROVE IInv'
<1>. USE DEF IInv, HandleError
<1>. DEFINE s == [snap EXCEPT !.ready = FALSE]
<1>1. /\ s \in MachineObject /\ s.zone = snap.zone /\ s.provisioned = snap.provisioned
  BY DEF TypeOK, PassOK, MachineObject
<1>2. Store(WithStatus(obj, s)) \/ Refused OBVIOUS
<1>. HIDE DEF s
<1>3. Kept /\ UNCHANGED <<obj.finalizer, obj.ownerID, obj.providerID>>
  BY <1>1, <1>2, KeptByStatus DEF CurrentAgrees
<1>4. CacheLags' /\ HeldUnderFinalizer' /\ Labelled' /\ NothingDangling' /\ NodeLinked'
  BY <1>3, KeptKeeps, NodeKept
<1>5. SnapLags' /\ CurrentAgrees' /\ DeletedByDeletion' BY <1>3, ReturnKeeps DEF Kept, deps
<1>6. Creating' /\ Linking' /\ Deleting' BY ReturnForgets
<1>7. ProvisionedHasProviderID'
  <2>1. CASE Refused BY <2>1 DEF ProvisionedHasProviderID, Refused, Conflict, api
  <2>2. CASE Store(WithStatus(obj, s))
    <3>1. obj'.provisioned = snap.provisioned
      BY <1>1, <2>2, WithStatusFields DEF Store, TypeOK, ApiOK
    <3>. QED BY <1>3, <3>1 DEF ProvisionedHasProviderID, SnapLags
  <2>. QED BY <1>2, <2>1, <2>2
<1>. QED BY <1>4, <1>5, <1>6, <1>7

LEMMA FlushKeeps == ASSUME IInv, TypeOK', Flush PROVE IInv'
<1>. USE DEF IInv, Flush
<1>1. snap \in MachineObject BY DEF TypeOK, PassOK
<1>2. Kept /\ UNCHANGED <<obj.finalizer, obj.ownerID, obj.providerID>>
  BY <1>1, KeptByStatus DEF CurrentAgrees
<1>3. CacheLags' /\ HeldUnderFinalizer' /\ Labelled' /\ NothingDangling' /\ NodeLinked'
  BY <1>2, KeptKeeps, NodeKept
<1>4. SnapLags' /\ CurrentAgrees' /\ DeletedByDeletion' BY <1>2, ReturnKeeps DEF Kept, deps
<1>5. Creating' /\ Linking' /\ Deleting' BY ReturnForgets
<1>6. ProvisionedHasProviderID'
  <2>1. CASE Refused BY <2>1 DEF ProvisionedHasProviderID, Refused, Conflict, api
  <2>2. CASE Store(WithStatus(obj, snap))
    <3>1. obj'.provisioned = snap.provisioned
      BY <1>1, <2>2, WithStatusFields DEF Store, TypeOK, ApiOK
    <3>. QED BY <1>2, <3>1 DEF ProvisionedHasProviderID, SnapLags
  <2>. QED BY <2>1, <2>2
<1>. QED BY <1>3, <1>4, <1>5, <1>6

LEMMA PickZoneKeeps == ASSUME IInv, TypeOK', PickZone PROVE IInv'
<1>. USE DEF IInv, PickZone
<1>1. CASE UNCHANGED api /\ Return(TRUE)
  <2>1. CacheLags' /\ ProvisionedHasProviderID' /\ NodeLinked' /\ HeldUnderFinalizer'
        /\ Labelled' /\ NothingDangling'
    BY <1>1, Frame
  <2>2. SnapLags' /\ CurrentAgrees' /\ DeletedByDeletion' BY <1>1, ReturnKeeps DEF api, deps
  <2>3. Creating' /\ Linking' /\ Deleting' BY <1>1, ReturnForgets
  <2>. QED BY <2>1, <2>2, <2>3
<1>2. CASE UNCHANGED api /\ snap.zone # None /\ Go("getVM")
  <2>. USE <1>2 DEF Go, local, CreatePCs, ExistingPCs, DeletePCs
  <2>1. CacheLags' /\ ProvisionedHasProviderID' /\ NodeLinked' /\ HeldUnderFinalizer'
        /\ Labelled' /\ NothingDangling'
    BY Frame
  <2>2. SnapLags' BY DEF SnapLags, Lags, api
  <2>3. CurrentAgrees' BY DEF CurrentAgrees, api
  <2>4. DeletedByDeletion' BY DEF DeletedByDeletion, deps, api
  <2>5. Creating' BY DEF Creating, api
  <2>6. Linking' BY DEF Linking, vmState
  <2>7. Deleting' BY DEF Deleting
  <2>. QED BY <2>1, <2>2, <2>3, <2>4, <2>5, <2>6, <2>7
<1>3. ASSUME NEW z \in Zones, snap.zone = None, snap' = [snap EXCEPT !.zone = z],
             \/ Store(WithStatus(obj, [snap EXCEPT !.zone = z])) /\ pc' = "getVM"
             \/ Refused /\ pc' = "fail",
             UNCHANGED <<queued, snapCurrent, todo, pending, errs, seen>>
      PROVE  IInv'
  <2>. USE DEF CreatePCs, ExistingPCs, DeletePCs
  <2>1. /\ snap' \in MachineObject /\ snap'.zone = z /\ z # None
        /\ snap'.provisioned = snap.provisioned /\ snap'.deleting = snap.deleting
        /\ snap'.ownerID = snap.ownerID /\ snap'.finalizer = snap.finalizer
        /\ snap'.providerID = snap.providerID
    BY <1>3, MachineAssumption DEF TypeOK, PassOK, MachineObject
  <2>2. Store(WithStatus(obj, snap')) \/ Refused BY <1>3
  <2>3. Kept /\ UNCHANGED <<obj.finalizer, obj.ownerID, obj.providerID>>
    <3>1. snapCurrent /\ obj.zone # None => snap'.zone = obj.zone BY <1>3 DEF CurrentAgrees
    <3>. QED BY <2>1, <2>2, <3>1, KeptByStatus
  <2>4. pc' = "getVM" => obj'.zone = z /\ obj'.provisioned = snap.provisioned
    <3>1. CASE pc' = "getVM"
      <4>1. obj' = WithStatus(obj, snap') BY <1>3, <3>1 DEF Store
      <4>. QED BY <2>1, <4>1, WithStatusFields DEF TypeOK, ApiOK
    <3>. QED BY <3>1
  <2>5. CacheLags' /\ HeldUnderFinalizer' /\ Labelled' /\ NothingDangling' /\ NodeLinked'
    BY <2>3, KeptKeeps, NodeKept
  <2>6. SnapLags' BY <1>3, <2>1, <2>3, <2>4 DEF SnapLags, Lags, Kept
  <2>7. CurrentAgrees'
    <3>1. CASE pc' = "getVM" BY <1>3, <2>1, <2>3, <2>4, <3>1 DEF CurrentAgrees, Kept
    <3>2. CASE pc' = "fail"
      BY <1>3, <2>1, <2>3, <3>2 DEF CurrentAgrees, Kept, Refused, Conflict, api, Store
    <3>. QED BY <1>3, <3>1, <3>2
  <2>8. DeletedByDeletion' BY <1>3, <2>1, <2>3 DEF DeletedByDeletion, Kept, deps
  <2>9. Creating' BY <1>3, <2>1, <2>3 DEF Creating, Kept
  <2>10. Linking' BY <1>3 DEF Linking, vmState
  <2>11. Deleting' BY <1>3 DEF Deleting
  <2>12. ProvisionedHasProviderID'
    <3>1. CASE pc' = "getVM" BY <2>3, <2>4, <3>1 DEF ProvisionedHasProviderID, SnapLags
    <3>2. CASE Refused BY <3>2 DEF ProvisionedHasProviderID, Refused, Conflict, api
    <3>. QED BY <1>3, <3>1, <3>2
  <2>. QED BY <2>5, <2>6, <2>7, <2>8, <2>9, <2>10, <2>11, <2>12
<1>. QED BY <1>1, <1>2, <1>3

LEMMA SetProviderIDKeeps == ASSUME IInv, TypeOK', SetProviderID PROVE IInv'
<1>. USE DEF IInv, SetProviderID
<1>. DEFINE s == [snap EXCEPT !.providerID = seen]
<1>1. /\ s \in MachineObject /\ s.providerID = seen /\ seen # None
      /\ s.ownerID = snap.ownerID /\ s.finalizer = snap.finalizer /\ s.zone = snap.zone
      /\ s.provisioned = snap.provisioned /\ s.deleting = snap.deleting
  BY MachineAssumption DEF TypeOK, PassOK, MachineObject, Linking, ExistingPCs
<1>2. /\ snap.providerID = None /\ ~ExternalCCM
      /\ obj.exists /\ obj.finalizer /\ obj.ownerID # None
  BY DEF Linking, Creating, CacheLags, ExistingPCs
<1>3. Store(WithSpec(obj, s)) \/ Refused OBVIOUS
<1>4. snapCurrent => obj.providerID = None /\ snap.ownerID = obj.ownerID /\ snap.finalizer
  BY <1>2 DEF CurrentAgrees
<1>5. CASE Store(WithSpec(obj, s)) /\ pc' = "refetch" /\ snap' = s
           /\ UNCHANGED <<snapCurrent, todo, pending, errs, seen>>
  <2>. USE <1>5 DEF CreatePCs, ExistingPCs, DeletePCs
  <2>. HIDE DEF s
  <2>1. Kept /\ UNCHANGED <<obj.zone, obj.provisioned>> BY <1>1, <1>2, <1>4, KeptBySpec
  <2>2. obj'.providerID = seen /\ obj'.finalizer = snap.finalizer /\ obj'.ownerID = snap.ownerID
    BY <1>1, WithSpecFields DEF Store, TypeOK, ApiOK
  <2>3. CacheLags' /\ HeldUnderFinalizer' /\ Labelled' /\ NothingDangling'
    BY <2>1, KeptKeeps
  <2>4. SnapLags' BY <1>1, <2>1, <2>2 DEF SnapLags, Lags, Kept
  <2>5. CurrentAgrees' BY <1>1, <2>1, <2>2 DEF CurrentAgrees, Kept
  <2>6. DeletedByDeletion' BY <1>1, <2>1 DEF DeletedByDeletion, Kept, deps
  <2>7. Creating' BY <2>1 DEF Creating, Kept
  <2>8. Linking' BY <1>1, <2>2 DEF Linking, vmState
  <2>9. Deleting' BY DEF Deleting
  <2>10. ProvisionedHasProviderID' BY <1>1, <2>2 DEF ProvisionedHasProviderID
  <2>11. NodeLinked' BY <1>2, <1>4, <2>2 DEF NodeLinked, node, Store
  <2>. QED BY <2>3, <2>4, <2>5, <2>6, <2>7, <2>8, <2>9, <2>10, <2>11
<1>6. CASE Refused /\ Return(obj.exists)
  <2>1. UNCHANGED api BY <1>6 DEF Refused, Conflict
  <2>2. CacheLags' /\ ProvisionedHasProviderID' /\ NodeLinked' /\ HeldUnderFinalizer'
        /\ Labelled' /\ NothingDangling'
    BY <2>1, Frame
  <2>3. obj.exists \in BOOLEAN BY DEF TypeOK, ApiOK, MachineObject
  <2>4. SnapLags' /\ CurrentAgrees' /\ DeletedByDeletion' BY <1>6, <2>1, <2>3, ReturnKeeps DEF api, deps
  <2>5. Creating' /\ Linking' /\ Deleting' BY <1>6, <2>3, ReturnForgets
  <2>. QED BY <2>2, <2>4, <2>5
<1>. QED BY <1>5, <1>6

LEMMA UpdateStatusKeeps == ASSUME IInv, TypeOK', UpdateStatus PROVE IInv'
<1>. USE DEF IInv, UpdateStatus
<1>. DEFINE s == [snap EXCEPT !.ready = TRUE, !.machineID = seen, !.provisioned = TRUE]
<1>1. /\ s \in MachineObject /\ s.zone = snap.zone /\ s.provisioned = TRUE
      /\ s.ownerID = snap.ownerID /\ s.finalizer = snap.finalizer
      /\ s.providerID = snap.providerID /\ s.deleting = snap.deleting
  BY DEF TypeOK, PassOK, MachineObject
<1>2. obj.exists /\ obj.finalizer /\ (~ExternalCCM => obj.providerID # None)
  BY DEF Linking, Creating, ExistingPCs
<1>3. Store(WithStatus(obj, s)) \/ Refused OBVIOUS
<1>4. CASE /\ Store(WithStatus(obj, s)) /\ pc' = "link" /\ snap' = s
           /\ UNCHANGED <<snapCurrent, todo, pending, errs, seen>>
  <2>. USE <1>4 DEF CreatePCs, ExistingPCs, DeletePCs
  <2>. HIDE DEF s
  <2>1. Kept /\ UNCHANGED <<obj.finalizer, obj.ownerID, obj.providerID>>
    BY <1>1, KeptByStatus DEF CurrentAgrees
  <2>2. obj'.zone = snap.zone /\ obj'.provisioned = TRUE
    BY <1>1, WithStatusFields DEF Store, TypeOK, ApiOK
  <2>3. CacheLags' /\ HeldUnderFinalizer' /\ Labelled' /\ NothingDangling' /\ NodeLinked'
    BY <2>1, KeptKeeps, NodeKept
  <2>4. SnapLags' BY <1>1, <1>2, <2>1, <2>2 DEF SnapLags, Lags, Kept
  <2>5. CurrentAgrees' BY <1>1, <2>1, <2>2 DEF CurrentAgrees, Kept
  <2>6. DeletedByDeletion' BY <1>1, <2>1 DEF DeletedByDeletion, Kept, deps
  <2>7. Creating' BY <1>1, <2>1 DEF Creating, Kept
  <2>8. Linking' BY <1>2, <2>1 DEF Linking, vmState
  <2>9. Deleting' BY DEF Deleting
  <2>10. ProvisionedHasProviderID' BY <1>2, <2>1 DEF ProvisionedHasProviderID
  <2>. QED BY <2>3, <2>4, <2>5, <2>6, <2>7, <2>8, <2>9, <2>10
<1>5. CASE Refused /\ Return(TRUE)
  <2>1. UNCHANGED api BY <1>5 DEF Refused, Conflict
  <2>2. CacheLags' /\ ProvisionedHasProviderID' /\ NodeLinked' /\ HeldUnderFinalizer'
        /\ Labelled' /\ NothingDangling'
    BY <2>1, Frame
  <2>3. SnapLags' /\ CurrentAgrees' /\ DeletedByDeletion' BY <1>5, <2>1, ReturnKeeps DEF api, deps
  <2>4. Creating' /\ Linking' /\ Deleting' BY <1>5, ReturnForgets
  <2>. QED BY <2>2, <2>3, <2>4
<1>. QED BY <1>4, <1>5

LEMMA LinkNodeKeeps == ASSUME IInv, TypeOK', LinkNode PROVE IInv'
<1>. USE DEF IInv
<1>1. PICK q \in BOOLEAN : Return(q)
  BY DEF LinkNode, TypeOK, ApiOK, MachineObject
<1>2. /\ UNCHANGED <<cache, deps, vmState, backend>>
  BY DEF LinkNode, api
<1>3. SnapLags' /\ CurrentAgrees' /\ DeletedByDeletion' BY <1>1, <1>2, ReturnKeeps DEF deps
<1>4. Creating' /\ Linking' /\ Deleting' BY <1>1, <1>2, ReturnForgets
<1>5. CASE UNCHANGED <<api, node>>
  <2>1. CacheLags' /\ ProvisionedHasProviderID' /\ NodeLinked' /\ HeldUnderFinalizer'
        /\ Labelled' /\ NothingDangling'
    BY <1>2, <1>5, Frame
  <2>. QED BY <1>3, <1>4, <2>1
<1>6. CASE /\ ~ExternalCCM /\ UNCHANGED api /\ pc = "link"
           /\ snap.providerID # None /\ nodeID' = snap.providerID
  <2>1. CacheLags' /\ ProvisionedHasProviderID' /\ HeldUnderFinalizer'
        /\ Labelled' /\ NothingDangling'
    BY <1>2, <1>6, Frame
  <2>2. snap.providerID = obj.providerID BY <1>6 DEF SnapLags, Lags, ExistingPCs
  <2>3. NodeLinked' BY <1>6, <2>2 DEF NodeLinked, api
  <2>. QED BY <1>3, <1>4, <2>1, <2>3
<1>7. CASE /\ ExternalCCM /\ nodeID # None /\ UNCHANGED node
           /\ obj' = IF obj.exists THEN [obj EXCEPT !.providerID = nodeID] ELSE obj
           /\ cacheCurrent' = (cacheCurrent /\ obj' = obj)
  <2>1. /\ obj'.exists = obj.exists /\ obj'.deleting = obj.deleting
        /\ obj'.finalizer = obj.finalizer /\ obj'.ownerID = obj.ownerID
        /\ obj'.zone = obj.zone
        /\ obj'.providerID \in {obj.providerID, nodeID}
    BY <1>7 DEF TypeOK, ApiOK, MachineObject
  <2>2. obj.providerID # None => obj'.providerID = obj.providerID
    BY <1>7, <2>1 DEF NodeLinked
  <2>3. Kept BY <1>2, <1>7, <2>1, <2>2 DEF Kept, CacheLags
  <2>4. CacheLags' /\ HeldUnderFinalizer' /\ Labelled' /\ NothingDangling'
    BY <1>2, <1>7, <2>3, KeptKeeps
  <2>5. NodeLinked' BY <1>7, <2>1 DEF NodeLinked, node
  <2>6. ProvisionedHasProviderID' BY <1>7 DEF ProvisionedHasProviderID
  <2>. QED BY <1>3, <1>4, <2>4, <2>5, <2>6
<1>. QED BY <1>5, <1>6, <1>7 DEF LinkNode, node

LEMMA FinishDeleteKeeps == ASSUME IInv, TypeOK', FinishDelete PROVE IInv'
<1>. USE DEF IInv
<1>1. PICK q \in BOOLEAN : Return(q) BY DEF FinishDelete
<1>2. UNCHANGED <<cache, deps, vmState, backend, node>>
  BY DEF FinishDelete, Store, Refused, Conflict, api
<1>3. SnapLags' /\ CurrentAgrees' /\ DeletedByDeletion' BY <1>1, <1>2, ReturnKeeps DEF deps
<1>4. Creating' /\ Linking' /\ Deleting' BY <1>1, <1>2, ReturnForgets
<1>5. CASE UNCHANGED api
  <2>1. CacheLags' /\ ProvisionedHasProviderID' /\ NodeLinked' /\ HeldUnderFinalizer'
        /\ Labelled' /\ NothingDangling'
    BY <1>2, <1>5, Frame
  <2>. QED BY <1>3, <1>4, <2>1
<1>6. CASE /\ ~errs /\ pc = "delOwned" /\ todo = {}
           /\ Store([obj EXCEPT !.finalizer = FALSE, !.exists = FALSE])
  <2>1. /\ obj'.exists = FALSE /\ obj'.finalizer = FALSE
        /\ obj'.deleting = obj.deleting /\ obj'.ownerID = obj.ownerID
        /\ obj'.zone = obj.zone /\ obj'.providerID = obj.providerID
        /\ obj'.provisioned = obj.provisioned
    BY <1>6 DEF Store, TypeOK, ApiOK, MachineObject
  <2>2. snap.deleting /\ cache.deleting /\ obj.exists
    BY <1>6 DEF Deleting, SnapLags, Store, CurrentAgrees, DeletePCs
  <2>3. cacheCurrent' => obj' = cache'
    BY <1>2, <1>6 DEF Store, CacheLags
  <2>4. CacheLags' BY <1>2, <2>1, <2>2, <2>3 DEF CacheLags, Lags
  <2>5. HeldUnderFinalizer'
    <3>1. vm.st = "absent" /\ ~backend /\ \A r \in Resource : ~Present(r)
      BY <1>6 DEF Deleting
    <3>. QED BY <1>2, <3>1 DEF HeldUnderFinalizer, Present, deps, vmState
  <2>6. Labelled' BY <1>2, <2>1 DEF Labelled, OneZone, deps, vmState
  <2>7. NothingDangling' BY <1>2 DEF NothingDangling, Present, deps, vmState
  <2>8. ProvisionedHasProviderID' BY <2>1 DEF ProvisionedHasProviderID
  <2>9. NodeLinked' BY <1>2, <2>1 DEF NodeLinked, node
  <2>. QED BY <1>3, <1>4, <2>4, <2>5, <2>6, <2>7, <2>8, <2>9
<1>. QED BY <1>5, <1>6 DEF FinishDelete, Refused, Conflict

-----------------------------------------------------------------------------
(* The inductive invariant *)

LEMMA InitInv == Init => IInv
<1>. SUFFICES ASSUME Init PROVE IInv OBVIOUS
<1>. USE DEF Init, Blank, NewMachine, NoVM, CreatePCs, ExistingPCs, DeletePCs
<1>1. PICK w \in InitialWants : obj = NewMachine(w) OBVIOUS
<1>2. TypeOK BY InitType
<1>3. CacheLags /\ SnapLags /\ CurrentAgrees
  BY <1>1 DEF CacheLags, SnapLags, CurrentAgrees, Lags
<1>4. HeldUnderFinalizer /\ Labelled /\ DeletedByDeletion /\ NothingDangling
  BY DEF HeldUnderFinalizer, Present, Labelled, OneZone, DeletedByDeletion, NothingDangling,
     Resource
<1>5. Creating /\ Linking /\ Deleting BY DEF Creating, Linking, Deleting
<1>6. ProvisionedHasProviderID /\ NodeLinked
  BY <1>1 DEF ProvisionedHasProviderID, NodeLinked
<1>. QED BY <1>2, <1>3, <1>4, <1>5, <1>6 DEF IInv

LEMMA PassKeeps == ASSUME IInv, TypeOK', Pass PROVE IInv'
BY BeginIgnoredKeeps, BeginAdoptionKeeps, BeginNormalKeeps, BeginDeleteKeeps, PersistIDKeeps,
   HandleErrorKeeps, PickZoneKeeps, GetVMKeeps, BootDiskKeeps, FlushKeeps, VisitDiskKeeps,
   DisksVisitedKeeps, DeleteStaleDiskKeeps, StaleDisksDeletedKeeps, PublicIPKeeps, VisitSGKeeps,
   SGsVisitedKeeps, CreateVMKeeps, UpdateVMSGsKeeps, UpdateVMIPKeeps, UpdateVMDisksKeeps,
   AddBackendKeeps, SetProviderIDKeeps, RefetchKeeps, UpdateStatusKeeps, LinkNodeKeeps,
   DeregisterKeeps, DeleteVMKeeps, ListOwnedKeeps, DeleteOwnedKeeps, FinishDeleteKeeps
DEF Pass

LEMMA EnvironmentKeeps == ASSUME IInv, TypeOK', Environment PROVE IInv'
BY CacheSyncKeeps, CrashKeeps, UserDeleteKeeps, UserEditKeeps, BootstrapKeeps, ClusterGoneKeeps,
   CloudProgressKeeps, DiskFailsKeeps, VMLostKeeps, NodeProgressKeeps
DEF Environment

LEMMA StutterKeeps == ASSUME IInv, UNCHANGED vars PROVE IInv'
<1>. USE DEF IInv, vars, local, CreatePCs, ExistingPCs, DeletePCs
<1>1. TypeOK' BY NextType
<1>2. CacheLags' /\ ProvisionedHasProviderID' /\ NodeLinked' /\ HeldUnderFinalizer'
      /\ Labelled' /\ NothingDangling'
  BY Frame
<1>3. SnapLags' BY DEF SnapLags, Lags, api
<1>4. CurrentAgrees' /\ DeletedByDeletion' BY DEF CurrentAgrees, DeletedByDeletion, api, deps
<1>5. Creating' BY DEF Creating, Present, api, deps, vmState
<1>6. Linking' /\ Deleting' BY DEF Linking, Deleting, Present, api, deps, vmState
<1>. QED BY <1>1, <1>2, <1>3, <1>4, <1>5, <1>6

LEMMA NextInv == IInv /\ [Next]_vars => IInv'
<1>. SUFFICES ASSUME IInv, [Next]_vars PROVE IInv' OBVIOUS
<1>1. TypeOK' BY NextType DEF IInv
<1>. QED BY <1>1, PassKeeps, EnvironmentKeeps, StutterKeeps DEF Next

\* What a pass may rely on at each of its calls holds whatever users, watch
\* events, restarts, failed calls and the cloud have done in between.
THEOREM Inductive == Spec => []IInv
BY InitInv, NextInv, PTL DEF Spec

-----------------------------------------------------------------------------
(* Invariants *)

\* Nothing in the cloud outlives the object (RemoveFinalizer comes last).
THEOREM LeaksNothing == Spec => []NoLeak
<1>1. IInv => NoLeak BY DEF IInv, HeldUnderFinalizer, NoLeak
<1>. QED BY <1>1, Inductive, PTL

\* Teardown finds everything: what exists carries the stored ownership ID.
THEOREM FindsByLabel == Spec => []FoundByLabel
<1>1. IInv => FoundByLabel BY DEF IInv, Labelled, HeldUnderFinalizer, FoundByLabel
<1>. QED BY <1>1, Inductive, PTL

\* All disks and the VM are in the zone that pickAndUpdateZoneForMachine stored.
THEOREM StaysInOneZone == Spec => []OneZone
<1>1. IInv => OneZone BY DEF IInv, Labelled
<1>. QED BY <1>1, Inductive, PTL

\* A VM never refers to what is not there.
THEOREM DanglesNothing == Spec => []NothingDangling
<1>1. IInv => NothingDangling BY DEF IInv
<1>. QED BY <1>1, Inductive, PTL

\* CAPI never sees a provisioned machine without providerID.
THEOREM ProviderIDFirst == Spec => []ProvisionedHasProviderID
<1>1. IInv => ProvisionedHasProviderID BY DEF IInv
<1>. QED BY <1>1, Inductive, PTL

\* Node and machine agree on the providerID.
THEOREM LinksNode == Spec => []NodeLinked
<1>1. IInv => NodeLinked BY DEF IInv
<1>. QED BY <1>1, Inductive, PTL

-----------------------------------------------------------------------------
(* Steps *)

\* The actions that write the object, each with what it keeps.
Writers ==
    \/ PersistID \/ HandleError \/ PickZone \/ Flush \/ SetProviderID \/ UpdateStatus
    \/ LinkNode \/ FinishDelete \/ UserDelete \/ UserEdit

LEMMA OthersDoNotWrite == [Next]_vars => Writers \/ UNCHANGED obj
BY DEF Next, Pass, Environment, Writers, vars, api, BeginIgnored, BeginAdoption, BeginNormal,
   BeginDelete, Begin, GetVM, BootDisk, VisitDisk, DisksVisited, DeleteStaleDisk,
   StaleDisksDeleted, PublicIP, VisitSG, SGsVisited, CreateVM, UpdateVMSGs, UpdateVMIP,
   UpdateVMDisks, AddBackend, Refetch, Deregister, DeleteVM, ListOwned, DeleteOwned,
   CacheSync, Crash, Bootstrap, ClusterGone, CloudProgress, DiskFails, VMLost, NodeProgress

WrittenOnceStep ==
    /\ obj.ownerID # None => obj'.ownerID = obj.ownerID
    /\ obj.zone # None => obj'.zone = obj.zone
    /\ obj.providerID # None => obj'.providerID = obj.providerID

LEMMA WritersWriteOnce == ASSUME IInv, Writers PROVE WrittenOnceStep
<1>. USE DEF IInv, WrittenOnceStep
<1>1. ASSUME NEW s \in MachineObject, s.zone = snap.zone, Store(WithStatus(obj, s)) \/ Refused
      PROVE  WrittenOnceStep
  BY <1>1, KeptByStatus DEF CurrentAgrees, Kept
<1>2. CASE PersistID
  <2>1. snap \in MachineObject BY DEF TypeOK, PassOK
  <2>2. snapCurrent => snap.finalizer /\ snap.ownerID # None
    BY <1>2 DEF PersistID, SnapLags
  <2>. QED BY <1>2, <2>1, <2>2, KeptBySpec DEF PersistID, CurrentAgrees, Kept
<1>3. CASE HandleError
  <2>1. /\ [snap EXCEPT !.ready = FALSE] \in MachineObject
        /\ [snap EXCEPT !.ready = FALSE].zone = snap.zone
    BY DEF TypeOK, PassOK, MachineObject
  <2>. QED BY <1>1, <1>3, <2>1 DEF HandleError
<1>4. CASE PickZone
  <2>1. CASE UNCHANGED api BY <2>1 DEF api
  <2>2. ASSUME NEW z \in Zones, snap.zone = None,
               Store(WithStatus(obj, [snap EXCEPT !.zone = z])) \/ Refused
        PROVE  WrittenOnceStep
    <3>1. [snap EXCEPT !.zone = z] \in MachineObject BY DEF TypeOK, PassOK, MachineObject
    <3>. QED BY <2>2, <3>1, KeptByStatus DEF CurrentAgrees, Kept
  <2>. QED BY <1>4, <2>1, <2>2 DEF PickZone
<1>5. CASE Flush BY <1>1, <1>5 DEF Flush, TypeOK, PassOK
<1>6. CASE SetProviderID
  <2>1. /\ [snap EXCEPT !.providerID = seen] \in MachineObject
        /\ [snap EXCEPT !.providerID = seen].finalizer = snap.finalizer
        /\ [snap EXCEPT !.providerID = seen].ownerID = snap.ownerID
    BY DEF TypeOK, PassOK, MachineObject
  <2>2. snap.providerID = None /\ obj.finalizer /\ obj.ownerID # None
    BY <1>6 DEF SetProviderID, Linking, Creating, CacheLags, ExistingPCs
  <2>. QED BY <1>6, <2>1, <2>2, KeptBySpec DEF SetProviderID, CurrentAgrees, Kept
<1>7. CASE UpdateStatus
  <2>. DEFINE s == [snap EXCEPT !.ready = TRUE, !.machineID = seen, !.provisioned = TRUE]
  <2>1. s \in MachineObject /\ s.zone = snap.zone BY DEF TypeOK, PassOK, MachineObject
  <2>2. Store(WithStatus(obj, s)) \/ Refused BY <1>7 DEF UpdateStatus
  <2>. HIDE DEF s
  <2>. QED BY <1>1, <2>1, <2>2
<1>8. CASE LinkNode
  <2>1. CASE UNCHANGED obj BY <2>1
  <2>2. CASE /\ ExternalCCM /\ nodeID # None
             /\ obj' = IF obj.exists THEN [obj EXCEPT !.providerID = nodeID] ELSE obj
    BY <2>2 DEF NodeLinked, TypeOK, ApiOK, MachineObject
  <2>. QED BY <1>8, <2>1, <2>2 DEF LinkNode, api
<1>9. CASE FinishDelete
  BY <1>9 DEF FinishDelete, Store, Refused, Conflict, api, TypeOK, ApiOK, MachineObject
<1>10. CASE UserDelete \/ UserEdit
  BY <1>10 DEF UserDelete, UserEdit, Write, TypeOK, ApiOK, MachineObject
<1>. QED BY <1>2, <1>3, <1>4, <1>5, <1>6, <1>7, <1>8, <1>9, <1>10 DEF Writers

\* No stale pass ever takes back an ownership ID, a zone or a providerID.
THEOREM WritesOnce == Spec => WrittenOnce
<1>1. IInv /\ [Next]_vars => WrittenOnceStep
  BY WritersWriteOnce, OthersDoNotWrite DEF WrittenOnceStep
<1>. QED BY <1>1, Inductive, PTL DEF Spec, WrittenOnce, WrittenOnceStep

\* The actions that change a dependent resource.
Movers ==
    \/ BootDisk \/ PublicIP \/ CloudProgress \/ DiskFails
    \/ \E d \in DataDisks : VisitDisk(d) \/ DeleteStaleDisk(d)
    \/ \E g \in InlineSGs : VisitSG(g)
    \/ \E r \in Resource : DeleteOwned(r)

LEMMA OthersDoNotMove == [Next]_vars => Movers \/ UNCHANGED res
BY DEF Next, Pass, Environment, Movers, vars, deps, BeginIgnored, BeginAdoption, BeginNormal,
   BeginDelete, Begin, PersistID, HandleError, PickZone, GetVM, Flush, DisksVisited,
   StaleDisksDeleted, SGsVisited, CreateVM, UpdateVMSGs, UpdateVMIP, UpdateVMDisks, AddBackend,
   SetProviderID, Refetch, UpdateStatus, LinkNode, Deregister, DeleteVM, ListOwned,
   FinishDelete, CacheSync, Crash, UserDelete, UserEdit, Write, Bootstrap, ClusterGone, VMLost,
   NodeProgress

VMGoesFirstStep == \A r \in Resource : Present(r) /\ ~Present(r)' => vm.st = "absent"

LEMMA MoversSpareTheVM == ASSUME IInv, Movers PROVE VMGoesFirstStep
<1>. USE DEF IInv, VMGoesFirstStep, Present, TypeOK, DepsOK
<1>1. CASE BootDisk BY <1>1 DEF BootDisk, Provision, deps
<1>2. CASE PublicIP BY <1>2 DEF PublicIP, Provision, deps
<1>3. CASE CloudProgress BY <1>3 DEF CloudProgress
<1>4. CASE DiskFails BY <1>4 DEF DiskFails
<1>5. ASSUME NEW d \in DataDisks, VisitDisk(d) PROVE VMGoesFirstStep
  BY <1>5 DEF VisitDisk, Provision, deps
<1>6. ASSUME NEW d \in DataDisks, DeleteStaleDisk(d) PROVE VMGoesFirstStep
  BY <1>6 DEF DeleteStaleDisk, Creating, CreatePCs
<1>7. ASSUME NEW g \in InlineSGs, VisitSG(g) PROVE VMGoesFirstStep
  BY <1>7 DEF VisitSG, Provision, deps
<1>8. ASSUME NEW r \in Resource, DeleteOwned(r) PROVE VMGoesFirstStep
  BY <1>8 DEF DeleteOwned, Deleting
<1>. QED BY <1>1, <1>2, <1>3, <1>4, <1>5, <1>6, <1>7, <1>8 DEF Movers

\* While a VM exists, even one that is shutting down, nothing it may use goes.
THEOREM KeepsVMFirst == Spec => VMGoesFirst
<1>1. IInv /\ [Next]_vars => VMGoesFirstStep
  BY MoversSpareTheVM, OthersDoNotMove DEF VMGoesFirstStep, Present
<1>. QED BY <1>1, Inductive, PTL DEF Spec, VMGoesFirst, VMGoesFirstStep

=============================================================================
