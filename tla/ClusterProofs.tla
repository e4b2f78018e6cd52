--------------------------- MODULE ClusterProofs ---------------------------
(***************************************************************************)
(* The safety of Cluster, proved from the inductive invariant IInv of      *)
(* ClusterInv, for any sets of ownership IDs, UIDs, ports and groups, any  *)
(* bounds, and any setting of its switches.                                *)
(***************************************************************************)
EXTENDS ClusterInv, TLAPS

-----------------------------------------------------------------------------
(* Names and references *)

LEMMA NamesExist ==
    ASSUME NEW p \in UIDs
    PROVE  /\ LBName(p) \in Name /\ IPName(p) \in Name /\ PoolName(p) \in Name
           /\ \A q \in Ports : SvcName(p, q) \in Name /\ RouteName(p, q) \in Name
           /\ \A g \in InlineSGs : SGName(p, g) \in Name
BY DEF Name, LBName, IPName, PoolName, SvcName, RouteName, SGName

LEMMA NameParts ==
    ASSUME NEW p, NEW i
    PROVE  /\ LBName(p)[1] = p /\ LBName(p)[2] = "lb"
           /\ IPName(p)[1] = p /\ IPName(p)[2] = "ip"
           /\ PoolName(p)[1] = p /\ PoolName(p)[2] = "pool"
           /\ SvcName(p, i)[1] = p /\ SvcName(p, i)[2] = "svc"
           /\ RouteName(p, i)[1] = p /\ RouteName(p, i)[2] = "route"
           /\ SGName(p, i)[1] = p /\ SGName(p, i)[2] = "sg"
BY DEF LBName, IPName, PoolName, SvcName, RouteName, SGName

LEMMA NameKinds ==
    ASSUME NEW n \in Name
    PROVE  /\ n[1] \in UIDs
           /\ n[2] \in {"lb", "ip", "pool", "svc", "route", "sg"}
           /\ n[2] = "lb" => n = LBName(n[1])
           /\ n[2] = "ip" => n = IPName(n[1])
           /\ n[2] = "pool" => n = PoolName(n[1])
           /\ n[2] = "svc" => \E q \in Ports : n = SvcName(n[1], q)
           /\ n[2] = "route" => \E q \in Ports : n = RouteName(n[1], q)
           /\ n[2] = "sg" => \E g \in InlineSGs : n = SGName(n[1], g)
<1>. USE DEF LBName, IPName, PoolName, SvcName, RouteName, SGName
<1>1. CASE n \in UIDs \X {"lb", "ip", "pool"} \X {"only"}
  <2>1. PICK p \in UIDs, k \in {"lb", "ip", "pool"} : n = <<p, k, "only">> BY <1>1
  <2>. QED BY <2>1
<1>2. CASE n \in UIDs \X {"svc", "route"} \X Ports
  <2>1. PICK p \in UIDs, k \in {"svc", "route"}, q \in Ports : n = <<p, k, q>> BY <1>2
  <2>. QED BY <2>1
<1>3. CASE n \in UIDs \X {"sg"} \X InlineSGs
  <2>1. PICK p \in UIDs, g \in InlineSGs : n = <<p, "sg", g>> BY <1>3
  <2>. QED BY <2>1
<1>. QED BY <1>1, <1>2, <1>3 DEF Name

LEMMA References ==
    ASSUME NEW p
    PROVE  /\ Refs(LBName(p)) = {RouteName(p, q) : q \in Ports} \cup (IF OwnIP THEN {IPName(p)} ELSE {})
           /\ Refs(IPName(p)) = {} /\ Refs(PoolName(p)) = {}
           /\ \A q : Refs(SvcName(p, q)) = {PoolName(p)} /\ Refs(RouteName(p, q)) = {SvcName(p, q)}
                     /\ Refs(SGName(p, q)) = {}
BY DEF Refs, LBName, IPName, PoolName, SvcName, RouteName, SGName

LEMMA ReferencesAreNames ==
    ASSUME NEW n \in Name PROVE Refs(n) \subseteq Name
BY NameKinds, References, NamesExist

LEMMA PrefixType ==
    ASSUME NEW o \in ClusterObject
    PROVE  PrefixOf(o) \in UIDs /\ PrefixOf(o) # None
BY ClusterAssumption DEF PrefixOf, ClusterObject, ClusterAssumption

LEMMA FirstUIDType == FirstUID \in UIDs
BY ClusterAssumption DEF ClusterAssumption, FirstUID

LEMMA BlankType == Blank \in ClusterObject
BY FirstUIDType, ClusterAssumption DEF Blank, NewCluster, ClusterObject

-----------------------------------------------------------------------------
(* What a step leaves alone *)

LEMMA ApiFrame ==
    ASSUME IInv, UNCHANGED api
    PROVE  ApiOK' /\ Stored' /\ CacheLags' /\ P' = P
BY DEF IInv, TypeOK, ApiOK, api, Stored, CacheLags, Copy, P

LEMMA DepsFrame ==
    ASSUME IInv, UNCHANGED <<obj, deps>>
    PROVE  DepsOK' /\ Held' /\ WholeStack' /\ EndpointIsServed'
BY DEF IInv, TypeOK, DepsOK, deps, Held, WholeStack, EndpointIsServed, P

\* Nothing is being deleted while a pass builds.
LEMMA NoneDeleting ==
    ASSUME IInv, ~cache.deleting \/ ~Calm
    PROVE  drivers = "present" /\ \A n \in Name : res[n] # "deleting"
BY DEF IInv, DeletedByDeletion

LEMMA CalmFrame ==
    ASSUME IInv, UNCHANGED <<obj, deps>>, cache.deleting => cache'.deleting /\ (Calm => Calm')
    PROVE  DeletedByDeletion'
BY DEF IInv, DeletedByDeletion, deps

-----------------------------------------------------------------------------
(* What the cloud makes *)

LEMMA MakeMakes ==
    ASSUME DepsOK, NEW n \in Name, Make(n), snap.ownerID \in OwnershipIDs \cup {None}
    PROVE  /\ DepsOK' /\ UNCHANGED drivers
           /\ \A m \in Name \ {n} : res'[m] = res[m] /\ owner'[m] = owner[m]
           /\ res[n] # "absent" => res'[n] = res[n] /\ owner'[n] = owner[n]
           /\ res[n] = "absent" => res'[n] \in {"creating", "ready"} /\ owner'[n] = snap.ownerID
BY DEF DepsOK, Make

\* A building pass adds n to the stack: what n refers to is standing, and n is
\* under the stored name.
LEMMA MakeKeeps ==
    ASSUME IInv, UNCHANGED <<obj, cache>>, pc \in NormalPCs, NEW n \in Name, Make(n) \/ UNCHANGED deps,
           n[2] # "sg" => obj.managed /\ n[1] = P,
           n[2] = "ip" => OwnIP,
           \A m \in Refs(n) : Standing(m)
    PROVE  /\ DepsOK' /\ Held' /\ WholeStack' /\ EndpointIsServed' /\ DeletedByDeletion'
           /\ \A m \in Name : Standing(m) => Standing(m)'
           /\ \A m \in Name : res[m] = "ready" => res'[m] = "ready"
           /\ Make(n) => Standing(n)'
<1>1. /\ DepsOK /\ snap.ownerID \in OwnershipIDs \cup {None} /\ snap.ownerID = obj.ownerID
      /\ obj.finalizer
  BY DEF IInv, TypeOK, PassOK, ClusterObject, BaseLags, SnapLags, Copy, NormalPCs
<1>2. ~Calm /\ \A m \in Name : res[m] # "deleting"
  BY NoneDeleting DEF Calm, NormalPCs, DeletePCs
<1>3. CASE Make(n)
  <2>1. /\ DepsOK' /\ UNCHANGED drivers
        /\ \A m \in Name : res[m] # "absent" => res'[m] = res[m] /\ owner'[m] = owner[m]
        /\ \A m \in Name \ {n} : res'[m] = res[m]
        /\ res[n] = "absent" => res'[n] \in {"creating", "ready"} /\ owner'[n] = obj.ownerID
    BY <1>1, <1>3, MakeMakes
  <2>2. Held' BY <1>1, <2>1 DEF Held, IInv, P
  <2>3. \A m \in Name : Standing(m) => Standing(m)' BY <2>1 DEF Standing
  <2>4. WholeStack'
    <3>1. SUFFICES ASSUME NEW k \in Name, res'[k] # "absent", NEW m \in Refs(k)
                   PROVE  Standing(m)'
      BY DEF WholeStack, Standing
    <3>2. m \in Name BY ReferencesAreNames
    <3>3. CASE k = n BY <2>3, <3>1, <3>2, <3>3
    <3>4. CASE k # n BY <2>1, <2>3, <3>1, <3>2, <3>4 DEF IInv, WholeStack, Standing
    <3>. QED BY <3>3, <3>4
  <2>5. EndpointIsServed'
    <3>1. obj \in ClusterObject /\ P \in UIDs BY PrefixType DEF IInv, TypeOK, ApiOK, P
    <3>2. LBName(P) \in Name /\ IPName(P) \in Name BY <3>1, NamesExist
    <3>. QED BY <2>1, <3>2 DEF IInv, EndpointIsServed, P
  <2>6. DeletedByDeletion' BY <1>2, <2>1 DEF IInv, DeletedByDeletion
  <2>. QED BY <1>2, <2>1, <2>2, <2>3, <2>4, <2>5, <2>6 DEF Standing, DepsOK
<1>4. CASE ~Make(n)
  <2>1. UNCHANGED deps BY <1>4
  <2>. QED BY <1>2, <1>4, <2>1, DepsFrame DEF IInv, DeletedByDeletion, deps, Standing
<1>. QED BY <1>3, <1>4

-----------------------------------------------------------------------------
(* The memory of a pass *)

LEMMA OthersType ==
    ASSUME IInv
    PROVE  /\ UNCHANGED <<secrets, usedUIDs>> => SecretsOK'
           /\ UNCHANGED bounds \/ Fault => BoundsOK'
BY DEF IInv, TypeOK, SecretsOK, BoundsOK, secrets, bounds, Fault

LEMMA Naming ==
    ASSUME IInv
    PROVE  /\ P \in UIDs /\ P # None
           /\ pc # "idle" => /\ Prefix = P /\ snap.managed = obj.managed
                             /\ snap.ownerID = obj.ownerID \/ pc = "persistID"
                             /\ snap.ownerID \in OwnershipIDs
<1>1. P \in UIDs /\ P # None BY PrefixType DEF IInv, TypeOK, ApiOK, P
<1>2. ASSUME pc # "idle" PROVE Prefix = P /\ snap.managed = obj.managed /\ snap.ownerID \in OwnershipIDs
  BY <1>2 DEF IInv, BaseLags, SnapLags, Copy, Prefix, TypeOK, PassOK, ClusterObject
<1>3. ASSUME pc # "idle", pc # "persistID" PROVE snap.ownerID = obj.ownerID
  BY <1>3 DEF IInv, BaseLags, SnapLags, Copy, TypeOK, PassOK, PCs
<1>. QED BY <1>1, <1>2, <1>3

LEMMA BaseFrame ==
    ASSUME IInv, UNCHANGED <<obj, cache, base, snapCurrent>>,
           \/ pc \in NormalPCs /\ pc' \in NormalPCs
           \/ pc \in DeletePCs /\ pc' \in DeletePCs
    PROVE  BaseLags'
BY DEF IInv, BaseLags, Copy, P, NormalPCs, DeletePCs

\* Ready or not is all that the pass changes.
LEMMA SnapFrame ==
    ASSUME IInv, UNCHANGED <<obj, base>>,
           \/ snap' = snap
           \/ \E b \in BOOLEAN : snap' = [snap EXCEPT !.ready = b],
           pc \in NormalPCs \ {"copy"}, pc' \in NormalPCs \ {"copy"},
           pc' \in StackPCs => pc \in StackPCs,
           pc \in {"sgs", "patch", "patchStatus"} => pc' \in {"sgs", "patch", "patchStatus"},
           Served(P) => Served(P)'
    PROVE  SnapLags'
<1>1. /\ snap'.exists = snap.exists /\ snap'.uid = snap.uid /\ snap'.managed = snap.managed
      /\ snap'.deleting = snap.deleting /\ snap'.finalizer = snap.finalizer
      /\ snap'.ownerID = snap.ownerID /\ snap'.prefix = snap.prefix /\ snap'.lb = snap.lb
      /\ snap'.endpoint = snap.endpoint
  BY DEF IInv, TypeOK, PassOK, ClusterObject
<1>2. PrefixOf(snap') = PrefixOf(snap) BY <1>1 DEF PrefixOf
<1>3. P' = P BY DEF P
<1>. QED BY <1>1, <1>2, <1>3 DEF IInv, SnapLags, NormalPCs

LEMMA DeleteFrame ==
    ASSUME IInv, UNCHANGED <<obj, cache, base, snap, snapCurrent>>, pc \in DeletePCs, pc' \in DeletePCs
    PROVE  BaseLags' /\ SnapLags' /\ Building'
<1>1. BaseLags' BY BaseFrame
<1>2. SnapLags' BY DEF IInv, SnapLags, P, Served, NormalPCs, DeletePCs, StackPCs
<1>3. Building' BY DEF Building, DeletePCs
<1>. QED BY <1>1, <1>2, <1>3

\* The pass gives its object to the deferred patch.
LEMMA LeaveKeeps ==
    ASSUME IInv, UNCHANGED <<obj, cache>>, pc \in Creators, NEW s, NEW q \in BOOLEAN, Leave(s, q),
           s = snap \/ \E b \in BOOLEAN : s = [snap EXCEPT !.ready = b],
           Served(P) => Served(P)'
    PROVE  PassOK' /\ BaseLags' /\ SnapLags' /\ Loops' /\ Building' /\ TearingDown'
<1>. USE DEF Leave
<1>1. PassOK' BY DEF IInv, TypeOK, PassOK, PCs, NormalPCs, ClusterObject
<1>2. BaseLags' BY BaseFrame DEF Creators, NormalPCs
<1>3. SnapLags' BY SnapFrame DEF Creators, NormalPCs, StackPCs
<1>4. Loops' /\ Building' /\ TearingDown' BY DEF Loops, Building, TearingDown, DeletePCs
<1>. QED BY <1>1, <1>2, <1>3, <1>4

LEMMA FailIsLeave == Fail => Leave([snap EXCEPT !.ready = FALSE], TRUE)
BY DEF Fail

\* A pass that returns forgets everything.
LEMMA ReturnKeeps ==
    ASSUME IInv, NEW q \in BOOLEAN, Return(q)
    PROVE  PassOK' /\ BaseLags' /\ SnapLags' /\ Loops' /\ Building' /\ TearingDown'
BY BlankType
   DEF IInv, TypeOK, PassOK, Return, Forget, PCs, Ports, BaseLags, SnapLags, Loops, Building,
       TearingDown, DeletePCs

-----------------------------------------------------------------------------
(* Reconcile *)

LEMMA BeginIgnoredKeeps == ASSUME IInv, BeginIgnored PROVE IInv'
<1>. USE DEF BeginIgnored
<1>1. ApiOK' /\ Stored' /\ CacheLags' BY ApiFrame
<1>2. DepsOK' /\ Held' /\ WholeStack' /\ EndpointIsServed' BY DepsFrame DEF api
<1>3. DeletedByDeletion' BY CalmFrame DEF api, Calm
<1>4. PassOK' BY DEF IInv, TypeOK, PassOK, memory
<1>5. BaseLags' /\ SnapLags' /\ Loops' /\ Building' /\ TearingDown'
  BY DEF BaseLags, SnapLags, Loops, Building, TearingDown, DeletePCs
<1>6. SecretsOK' /\ BoundsOK' BY OthersType
<1>. QED BY <1>1, <1>2, <1>3, <1>4, <1>5, <1>6 DEF IInv, TypeOK

LEMMA BeginKeeps ==
    ASSUME IInv, NEW s \in ClusterObject, NEW l \in {"persistID", "copy", "workload"}, Begin(s, l),
           s.exists, s.uid = cache.uid, s.managed = cache.managed, s.deleting = cache.deleting,
           s.prefix = cache.prefix, s.lb = cache.lb, s.endpoint = cache.endpoint,
           s.finalizer, s.ownerID # None, cache.ownerID # None => s.ownerID = cache.ownerID,
           l = "persistID" => ~cache.deleting /\ ~cache.finalizer,
           l = "copy" => ~cache.deleting /\ cache.finalizer,
           l = "workload" => cache.deleting /\ cache.finalizer
    PROVE  IInv'
<1>. USE DEF Begin
<1>1. ApiOK' /\ Stored' /\ CacheLags' BY ApiFrame
<1>2. DepsOK' /\ Held' /\ WholeStack' /\ EndpointIsServed' BY DepsFrame DEF api
<1>3. DeletedByDeletion' BY NoneDeleting DEF IInv, DeletedByDeletion, api, deps, Calm, DeletePCs
<1>4. PassOK' BY DEF IInv, TypeOK, ApiOK, PassOK, PCs, NormalPCs, DeletePCs
<1>5. BaseLags'
  BY DEF IInv, CacheLags, Stored, BaseLags, Copy, P, api, NormalPCs, DeletePCs
<1>6. SnapLags'
  <2>1. PrefixOf(s) = P BY DEF IInv, CacheLags, Copy, PrefixOf
  <2>. QED BY <2>1 DEF SnapLags, P, api, NormalPCs, StackPCs
<1>7. Loops' /\ Building' /\ TearingDown' BY DEF Loops, Building, TearingDown, DeletePCs
<1>8. SecretsOK' /\ BoundsOK' BY OthersType
<1>. QED BY <1>1, <1>2, <1>3, <1>4, <1>5, <1>6, <1>7, <1>8 DEF IInv, TypeOK

LEMMA BeginAdoptionKeeps == ASSUME IInv, BeginAdoption PROVE IInv'
<1>1. PICK id \in OwnershipIDs :
         Begin([cache EXCEPT !.finalizer = TRUE, !.ownerID = IF @ = None THEN id ELSE @], "persistID")
  BY Zenon DEF BeginAdoption
<1>. DEFINE s == [cache EXCEPT !.finalizer = TRUE, !.ownerID = IF @ = None THEN id ELSE @]
<1>2. cache \in ClusterObject /\ cache.exists /\ id # None
  BY <1>1, ClusterAssumption DEF Begin, IInv, TypeOK, ApiOK, ClusterAssumption
<1>3. /\ s \in ClusterObject /\ s.exists /\ s.uid = cache.uid /\ s.managed = cache.managed
      /\ s.deleting = cache.deleting /\ s.prefix = cache.prefix /\ s.lb = cache.lb
      /\ s.endpoint = cache.endpoint /\ s.finalizer /\ s.ownerID # None
      /\ cache.ownerID # None => s.ownerID = cache.ownerID
  BY <1>2 DEF ClusterObject
<1>4. ~cache.deleting /\ ~cache.finalizer
  BY <1>2 DEF BeginAdoption, IInv, CacheLags, Copy
<1>. HIDE DEF s
<1>5. Begin(s, "persistID") BY <1>1 DEF s
<1>. QED BY <1>3, <1>4, <1>5, BeginKeeps

LEMMA BeginNormalKeeps == ASSUME IInv, BeginNormal PROVE IInv'
<1>1. Begin(cache, "copy") /\ cache.exists /\ ~cache.deleting /\ cache.finalizer /\ cache.ownerID # None
  BY DEF BeginNormal, Begin
<1>2. cache \in ClusterObject BY DEF IInv, TypeOK, ApiOK
<1>. QED BY <1>1, <1>2, BeginKeeps

LEMMA BeginDeleteKeeps == ASSUME IInv, BeginDelete PROVE IInv'
<1>1. Begin(cache, "workload") /\ cache.exists /\ cache.deleting /\ cache.finalizer /\ cache.ownerID # None
  BY DEF BeginDelete, Begin
<1>2. cache \in ClusterObject BY DEF IInv, TypeOK, ApiOK
<1>. QED BY <1>1, <1>2, BeginKeeps

\* The write of the IDs is over the object the pass has read, or refused.
LEMMA PersistIDKeeps == ASSUME IInv, PersistID PROVE IInv'
<1>. USE DEF PersistID
<1>. DEFINE o == [obj EXCEPT !.finalizer = snap.finalizer, !.ownerID = snap.ownerID]
<1>1. PassOK' /\ BaseLags' /\ SnapLags' /\ Loops' /\ Building' /\ TearingDown' BY ReturnKeeps
<1>2. pc' = "idle" /\ SecretsOK'
  BY OthersType DEF Return
<1>3. CASE UNCHANGED api /\ (UNCHANGED bounds \/ Fault)
  <2>1. ApiOK' /\ Stored' /\ CacheLags' BY <1>3, ApiFrame
  <2>2. DepsOK' /\ Held' /\ WholeStack' /\ EndpointIsServed' BY <1>3, DepsFrame DEF api
  <2>3. DeletedByDeletion' BY <1>2, <1>3, CalmFrame DEF api, Calm
  <2>4. BoundsOK' BY <1>3, OthersType
  <2>. QED BY <1>1, <1>2, <2>1, <2>2, <2>3, <2>4 DEF IInv, TypeOK
<1>4. CASE Store(o) /\ UNCHANGED bounds
  <2>1. /\ obj' = o /\ UNCHANGED cache /\ cacheCurrent' \in BOOLEAN
        /\ cacheCurrent' => cacheCurrent /\ obj' = obj
    BY <1>4 DEF Store, IInv, TypeOK, ApiOK
  <2>2. /\ obj = base /\ ~obj.finalizer /\ obj.exists /\ ~obj.deleting /\ snap.finalizer
        /\ snap.ownerID # None /\ obj.ownerID = None
    BY <1>4 DEF Store, IInv, BaseLags, SnapLags, Stored
  <2>3. /\ obj' \in ClusterObject
        /\ obj'.exists = obj.exists /\ obj'.deleting = obj.deleting /\ obj'.uid = obj.uid
        /\ obj'.managed = obj.managed /\ obj'.prefix = obj.prefix /\ obj'.lb = obj.lb
        /\ obj'.endpoint = obj.endpoint /\ obj'.finalizer /\ obj'.ownerID = snap.ownerID
    <3>1. obj \in ClusterObject /\ snap.ownerID \in OwnershipIDs /\ snap.finalizer = TRUE
      BY <2>2 DEF IInv, TypeOK, ApiOK, PassOK, ClusterObject
    <3>2. obj' = [obj EXCEPT !.finalizer = TRUE, !.ownerID = snap.ownerID] BY <2>1, <3>1
    <3>. QED BY <3>1, <3>2 DEF ClusterObject
  <2>4. P' = P BY <2>3 DEF P, PrefixOf
  <2>5. \A n \in Name : res[n] = "absent" BY <2>2 DEF IInv, Held
  <2>6. Stored' BY <2>2, <2>3, <2>4 DEF IInv, Stored
  <2>7. CacheLags' BY <2>1, <2>2, <2>3, <2>4 DEF IInv, CacheLags, Copy
  <2>8. DepsOK' /\ Held' /\ WholeStack' BY <2>5 DEF IInv, TypeOK, DepsOK, deps, Held, WholeStack
  <2>9. EndpointIsServed' BY <2>3, <2>4 DEF IInv, EndpointIsServed, P, deps
  <2>10. DeletedByDeletion' BY <1>2, <2>1, <2>2, <2>3 DEF IInv, DeletedByDeletion, deps, Calm
  <2>11. ApiOK' /\ BoundsOK' BY <1>4, <2>1, <2>3, OthersType DEF IInv, TypeOK, ApiOK
  <2>. QED BY <1>1, <1>2, <2>6, <2>7, <2>8, <2>9, <2>10, <2>11 DEF IInv, TypeOK
<1>. QED BY <1>3, <1>4 DEF Refused

-----------------------------------------------------------------------------
(* reconcileNormal *)

\* A step within a building pass leaves the stored object alone.
LEMMA BuildingStep ==
    ASSUME IInv, UNCHANGED <<api, secrets, usedUIDs>>, UNCHANGED bounds \/ Fault,
           pc \in NormalPCs, pc' \in NormalPCs, UNCHANGED <<base, snapCurrent>>,
           DepsOK' /\ Held' /\ WholeStack' /\ EndpointIsServed' /\ DeletedByDeletion',
           PassOK', SnapLags', Loops', Building'
    PROVE  IInv'
<1>1. ApiOK' /\ Stored' /\ CacheLags' BY ApiFrame
<1>2. BaseLags' BY BaseFrame DEF api
<1>3. TearingDown' BY DEF TearingDown, NormalPCs, DeletePCs
<1>4. SecretsOK' /\ BoundsOK' BY OthersType
<1>. QED BY <1>1, <1>2, <1>3, <1>4 DEF IInv, TypeOK

\* ... and, if it changes nothing in the cloud, the cloud.
LEMMA QuietStep ==
    ASSUME IInv, UNCHANGED <<api, deps, secrets, usedUIDs>>, UNCHANGED bounds \/ Fault,
           pc \in NormalPCs, pc' \in NormalPCs, UNCHANGED <<base, snapCurrent>>,
           PassOK', SnapLags', Loops', Building'
    PROVE  IInv'
<1>1. DepsOK' /\ Held' /\ WholeStack' /\ EndpointIsServed' BY DepsFrame DEF api
<1>2. DeletedByDeletion' BY CalmFrame DEF api, Calm, NormalPCs, DeletePCs
<1>. QED BY <1>1, <1>2, BuildingStep

LEMMA QuietLeave ==
    ASSUME IInv, UNCHANGED <<api, deps, secrets, usedUIDs>>, UNCHANGED bounds \/ Fault,
           pc \in Creators, NEW s, NEW q \in BOOLEAN, Leave(s, q),
           s = snap \/ \E b \in BOOLEAN : s = [snap EXCEPT !.ready = b]
    PROVE  IInv'
<1>1. Served(P) => Served(P)' BY DEF Served, P, api, deps
<1>2. PassOK' /\ SnapLags' /\ Loops' /\ Building' BY <1>1, LeaveKeeps DEF api
<1>3. pc \in NormalPCs /\ pc' \in NormalPCs /\ UNCHANGED <<base, snapCurrent>>
  BY DEF Leave, Creators, NormalPCs
<1>. QED BY <1>2, <1>3, QuietStep

\* A creation of n that fails, with or without effect.
LEMMA FailedCreate ==
    ASSUME IInv, UNCHANGED <<api, secrets, usedUIDs>>, Fault, Fail,
           pc \in Creators, NEW n \in Name, Make(n) \/ UNCHANGED deps,
           n[2] # "sg" => obj.managed /\ n[1] = P,
           n[2] = "ip" => OwnIP,
           \A m \in Refs(n) : Standing(m)
    PROVE  IInv'
<1>1. pc \in NormalPCs BY DEF Creators
<1>2. /\ DepsOK' /\ Held' /\ WholeStack' /\ EndpointIsServed' /\ DeletedByDeletion'
      /\ \A m \in Name : res[m] = "ready" => res'[m] = "ready"
  BY <1>1, MakeKeeps DEF api
<1>3. Served(P) => Served(P)'
  <2>1. LBName(P) \in Name /\ IPName(P) \in Name /\ P' = P BY Naming, NamesExist, ApiFrame
  <2>. QED BY <1>2, <2>1 DEF Served
<1>4. Leave([snap EXCEPT !.ready = FALSE], TRUE) BY FailIsLeave
<1>5. PassOK' /\ SnapLags' /\ Loops' /\ Building' BY <1>3, <1>4, LeaveKeeps DEF api
<1>6. pc' \in NormalPCs /\ UNCHANGED <<base, snapCurrent>> BY <1>4 DEF Leave, NormalPCs
<1>. QED BY <1>1, <1>2, <1>5, <1>6, BuildingStep

\* A creation of n after which the pass goes on with its stack.
LEMMA Created ==
    ASSUME IInv, UNCHANGED <<api, secrets, usedUIDs, bounds, base, snap, snapCurrent>>,
           pc \in Creators, pc' \in Creators, pc' \in StackPCs => pc \in StackPCs,
           pc = "sgs" => pc' = "sgs",
           NEW n \in Name, Make(n),
           n[2] # "sg" => obj.managed /\ n[1] = P,
           n[2] = "ip" => OwnIP,
           \A m \in Refs(n) : Standing(m),
           PassOK', Loops', Building'
    PROVE  IInv'
<1>1. pc \in NormalPCs /\ pc' \in NormalPCs BY DEF Creators
<1>2. /\ DepsOK' /\ Held' /\ WholeStack' /\ EndpointIsServed' /\ DeletedByDeletion'
      /\ \A m \in Name : res[m] = "ready" => res'[m] = "ready"
  BY <1>1, MakeKeeps DEF api
<1>3. Served(P) => Served(P)'
  <2>1. LBName(P) \in Name /\ IPName(P) \in Name /\ P' = P BY Naming, NamesExist, ApiFrame
  <2>. QED BY <1>2, <2>1 DEF Served
<1>4. SnapLags' BY <1>3, SnapFrame DEF api, Creators, NormalPCs
<1>. QED BY <1>1, <1>2, <1>4, BuildingStep

LEMMA CopyCredentialsKeeps == ASSUME IInv, CopyCredentials PROVE IInv'
<1>. USE DEF CopyCredentials
<1>. DEFINE s == [snap EXCEPT !.prefix = IF snap.managed \/ InlineSGs # {} THEN Prefix ELSE @]
<1>1. /\ snap' = s /\ pc' = (IF snap.managed THEN "getLB" ELSE "sgs")
      /\ todo' = (IF snap.managed THEN {} ELSE InlineSGs) /\ UNCHANGED <<base, snapCurrent>>
  OBVIOUS
<1>2. snap \in ClusterObject /\ Prefix = P /\ P \in UIDs /\ P # None
  BY Naming DEF IInv, TypeOK, PassOK
<1>3. /\ s \in ClusterObject /\ s.exists = snap.exists /\ s.uid = snap.uid /\ s.managed = snap.managed
      /\ s.deleting = snap.deleting /\ s.finalizer = snap.finalizer /\ s.ownerID = snap.ownerID
      /\ s.lb = snap.lb /\ s.endpoint = snap.endpoint
      /\ s.prefix = IF snap.managed \/ InlineSGs # {} THEN P ELSE snap.prefix
  BY <1>2 DEF ClusterObject
<1>4. PrefixOf(s) = P BY <1>2, <1>3 DEF Prefix, PrefixOf
<1>. HIDE DEF s
<1>5. ApiOK' /\ Stored' /\ CacheLags' /\ P' = P BY ApiFrame
<1>6. DepsOK' /\ Held' /\ WholeStack' /\ EndpointIsServed' BY DepsFrame DEF api
<1>7. DeletedByDeletion' BY CalmFrame DEF api, Calm, DeletePCs
<1>8. PassOK' BY <1>1, <1>3 DEF IInv, TypeOK, PassOK, PCs, NormalPCs, ClusterObject
<1>9. BaseLags' BY <1>1, BaseFrame DEF api, NormalPCs
<1>10. SnapLags'
  BY <1>1, <1>2, <1>3, <1>4, <1>5 DEF IInv, SnapLags, PrefixOf, Prefix, api, NormalPCs, StackPCs
<1>11. Loops' /\ Building' /\ TearingDown' BY <1>1 DEF Loops, Building, TearingDown, DeletePCs
<1>12. SecretsOK' /\ BoundsOK' BY OthersType DEF IInv, TypeOK, SecretsOK
<1>. QED BY <1>5, <1>6, <1>7, <1>8, <1>9, <1>10, <1>11, <1>12 DEF IInv, TypeOK

LEMMA GoKeeps ==
    ASSUME IInv, UNCHANGED <<api, deps, secrets, usedUIDs, bounds>>, NEW l \in Creators, Go(l),
           pc \in Creators, l \in StackPCs => pc \in StackPCs, pc = "sgs" => l = "sgs",
           Loops', Building'
    PROVE  IInv'
<1>. USE DEF Go, memory
<1>1. Served(P) => Served(P)' BY DEF Served, P, api, deps
<1>2. SnapLags' BY <1>1, SnapFrame DEF api, Creators, NormalPCs
<1>3. PassOK' BY DEF IInv, TypeOK, PassOK, Creators, PCs
<1>. QED BY <1>2, <1>3, QuietStep DEF Creators

LEMMA GetLBKeeps == ASSUME IInv, GetLB PROVE IInv'
<1>. USE DEF GetLB
<1>1. pc \in Creators /\ pc \in StackPCs BY DEF Creators, NormalPCs, StackPCs
<1>2. CASE Go(IF OwnIP THEN "ip" ELSE "ipWait") /\ UNCHANGED bounds
  <2>1. Loops' /\ Building' BY <1>2 DEF Go, Loops, Building, DeletePCs
  <2>. QED BY <1>1, <1>2, <2>1, GoKeeps DEF Creators, NormalPCs, StackPCs
<1>3. CASE Go("build") /\ UNCHANGED bounds
  <2>1. Loops' /\ Building' BY <1>3 DEF Go, Loops, Building, DeletePCs
  <2>. QED BY <1>1, <1>3, <2>1, GoKeeps DEF Creators, NormalPCs, StackPCs
<1>4. CASE Fault /\ Fail BY <1>1, <1>4, FailIsLeave, QuietLeave
<1>. QED BY <1>2, <1>3, <1>4

LEMMA CreateIPKeeps == ASSUME IInv, CreateIP PROVE IInv'
<1>. USE DEF CreateIP
<1>. DEFINE n == IPName(Prefix)
<1>1. /\ pc \in Creators /\ n \in Name /\ n[1] = P /\ n[2] = "ip" /\ obj.managed /\ OwnIP
      /\ Refs(n) = {}
  BY Naming, NamesExist, NameParts, References
     DEF IInv, SnapLags, Building, Creators, NormalPCs, StackPCs
<1>. HIDE DEF n
<1>2. CASE Make(n) /\ Go("ipWait") /\ UNCHANGED bounds
  <2>1. PassOK' /\ Loops' /\ Building'
    BY <1>1, <1>2 DEF Go, memory, IInv, TypeOK, PassOK, PCs, NormalPCs, Loops, Building
  <2>. QED BY <1>1, <1>2, <2>1, Created DEF Go, memory, Creators, NormalPCs, StackPCs
<1>3. CASE Fault /\ Fail /\ (Make(n) \/ UNCHANGED deps) BY <1>1, <1>3, FailedCreate
<1>. QED BY <1>2, <1>3 DEF Creates, n

LEMMA AwaitIPKeeps == ASSUME IInv, AwaitIP PROVE IInv'
<1>. USE DEF AwaitIP
<1>1. pc \in Creators /\ pc \in StackPCs BY DEF Creators, NormalPCs, StackPCs
<1>2. CASE (OwnIP => res[IPName(Prefix)] = "ready") /\ Go("pool")
  <2>1. OwnIP => Standing(IPName(P))' BY <1>2, Naming, ApiFrame DEF Standing, deps
  <2>2. Loops' /\ Building' BY <1>2, <2>1, ApiFrame DEF Go, Loops, Building
  <2>. QED BY <1>1, <1>2, <2>2, GoKeeps DEF Creators, NormalPCs, StackPCs
<1>3. CASE Fail BY <1>1, <1>3, FailIsLeave, QuietLeave
<1>. QED BY <1>2, <1>3

LEMMA CreatePoolKeeps == ASSUME IInv, CreatePool PROVE IInv'
<1>1. PICK p \in UIDs : p = P /\ p = P' /\ p = Prefix
  BY Naming, ApiFrame DEF CreatePool
<1>. DEFINE n == PoolName(p)
<1>2. /\ pc = "pool" /\ pc \in Creators /\ pc \in NormalPCs /\ n \in Name /\ n[1] = P /\ n[2] = "pool"
      /\ obj.managed /\ Refs(n) = {} /\ IPName(p) \in Name
      /\ UNCHANGED <<api, secrets, usedUIDs, obj, cache>>
  BY <1>1, Naming, NamesExist, NameParts, References
     DEF CreatePool, IInv, SnapLags, Creators, NormalPCs, StackPCs, api
<1>3. CASE /\ Make(n) /\ pc' = "svc" /\ item' = API /\ todo' = ExtraPorts /\ UNCHANGED bounds
           /\ UNCHANGED <<queued, base, snap, snapCurrent, errs, still, again>>
  <2>1. Standing(n)' /\ (Standing(IPName(p)) => Standing(IPName(p))')
    BY <1>2, <1>3, MakeKeeps
  <2>2. Building'
    <3>1. OwnIP => Standing(IPName(p)) BY <1>1, <1>2 DEF IInv, Building
    <3>. QED BY <1>1, <1>3, <2>1, <3>1 DEF Building, Standing, Ports
  <2>3. PassOK' /\ Loops' BY <1>2, <1>3 DEF IInv, TypeOK, PassOK, PCs, NormalPCs, Loops, Ports
  <2>. QED BY <1>2, <1>3, <2>2, <2>3, Created DEF Creators, NormalPCs, StackPCs
<1>4. CASE Fault /\ Fail /\ (Make(n) \/ UNCHANGED deps)
  BY <1>2, <1>4, FailedCreate
<1>. QED BY <1>1, <1>3, <1>4 DEF CreatePool, Creates

LEMMA CreateServiceKeeps == ASSUME IInv, CreateService PROVE IInv'
<1>1. PICK p \in UIDs, i \in Ports : p = P /\ p = P' /\ p = Prefix /\ i = item
  BY Naming, ApiFrame DEF CreateService, IInv, Loops
<1>. DEFINE n == SvcName(p, i)
<1>2. /\ pc = "svc" /\ pc \in Creators /\ pc \in NormalPCs /\ n \in Name /\ n[1] = P /\ n[2] = "svc"
      /\ obj.managed /\ IPName(p) \in Name /\ PoolName(p) \in Name
      /\ \A q \in Ports : RouteName(p, q) \in Name
      /\ UNCHANGED <<api, secrets, usedUIDs, obj, cache>>
  BY <1>1, Naming, NamesExist, NameParts
     DEF CreateService, IInv, SnapLags, Creators, NormalPCs, StackPCs, api
<1>3. /\ OwnIP => Standing(IPName(p))
      /\ Standing(PoolName(p))
      /\ \A q \in Ports \ (todo \cup {i}) : Standing(RouteName(p, q))
  BY <1>1, <1>2 DEF IInv, Building
<1>4. \A m \in Refs(n) : Standing(m) BY <1>3, References
<1>5. CASE Make(n) /\ Go("route") /\ UNCHANGED bounds
  <2>1. Standing(n)' /\ \A m \in Name : Standing(m) => Standing(m)' BY <1>2, <1>4, <1>5, MakeKeeps
  <2>2. Building'
    <3>1. pc' = "route" /\ item' = i /\ todo' = todo BY <1>1, <1>5 DEF Go, memory
    <3>. QED BY <1>1, <1>2, <1>3, <2>1, <3>1 DEF Building
  <2>3. PassOK' /\ Loops'
    BY <1>2, <1>5 DEF Go, memory, IInv, TypeOK, PassOK, PCs, NormalPCs, Loops
  <2>. QED BY <1>2, <1>4, <1>5, <2>2, <2>3, Created DEF Go, memory, Creators, NormalPCs, StackPCs
<1>6. CASE Fault /\ Fail /\ (Make(n) \/ UNCHANGED deps)
  BY <1>2, <1>4, <1>6, FailedCreate
<1>. QED BY <1>1, <1>5, <1>6 DEF CreateService, Creates

LEMMA CreateRouteKeeps == ASSUME IInv, CreateRoute PROVE IInv'
<1>1. PICK p \in UIDs, i \in Ports : p = P /\ p = P' /\ p = Prefix /\ i = item
  BY Naming, ApiFrame DEF CreateRoute, IInv, Loops
<1>. DEFINE n == RouteName(p, i)
<1>2. /\ pc = "route" /\ pc \in Creators /\ pc \in NormalPCs /\ n \in Name /\ n[1] = P
      /\ n[2] = "route" /\ obj.managed /\ IPName(p) \in Name /\ PoolName(p) \in Name
      /\ \A q \in Ports : RouteName(p, q) \in Name
      /\ UNCHANGED <<api, secrets, usedUIDs, obj, cache>> /\ todo \subseteq ExtraPorts
  BY <1>1, Naming, NamesExist, NameParts
     DEF CreateRoute, IInv, SnapLags, Loops, Creators, NormalPCs, StackPCs, api
<1>3. /\ OwnIP => Standing(IPName(p))
      /\ Standing(PoolName(p)) /\ Standing(SvcName(p, i))
      /\ \A q \in Ports \ (todo \cup {i}) : Standing(RouteName(p, q))
  BY <1>1, <1>2 DEF IInv, Building
<1>4. \A m \in Refs(n) : Standing(m) BY <1>3, References
<1>5. ASSUME Make(n)
      PROVE  /\ OwnIP => Standing(IPName(p))'
             /\ Standing(PoolName(p))'
             /\ \A q \in Ports \ todo : Standing(RouteName(p, q))'
  <2>1. Standing(n)' /\ \A m \in Name : Standing(m) => Standing(m)' BY <1>2, <1>4, <1>5, MakeKeeps
  <2>. QED BY <1>2, <1>3, <2>1
<1>6. CASE Make(n) /\ todo = {} /\ At("lb", API) /\ UNCHANGED bounds
  <2>1. Building' BY <1>1, <1>5, <1>6 DEF At, Building
  <2>2. PassOK' /\ Loops'
    BY <1>2, <1>6 DEF At, IInv, TypeOK, PassOK, PCs, NormalPCs, Loops, Ports
  <2>. QED BY <1>2, <1>4, <1>6, <2>1, <2>2, Created DEF At, Creators, NormalPCs, StackPCs
<1>7. ASSUME NEW q \in todo, Make(n), UNCHANGED bounds,
             pc' = "svc" /\ item' = q /\ todo' = todo \ {q},
             UNCHANGED <<queued, base, snap, snapCurrent, errs, still, again>>
      PROVE  IInv'
  <2>1. Building' BY <1>1, <1>5, <1>7 DEF Building
  <2>2. PassOK' /\ Loops'
    BY <1>2, <1>7 DEF IInv, TypeOK, PassOK, PCs, NormalPCs, Loops, Ports
  <2>. QED BY <1>2, <1>4, <1>7, <2>1, <2>2, Created DEF Creators, NormalPCs, StackPCs
<1>8. CASE Fault /\ Fail /\ (Make(n) \/ UNCHANGED deps)
  BY <1>2, <1>4, <1>8, FailedCreate
<1>. QED BY <1>1, <1>6, <1>7, <1>8 DEF CreateRoute, Creates

LEMMA CreateLBKeeps == ASSUME IInv, CreateLB PROVE IInv'
<1>1. PICK p \in UIDs : p = P /\ p = Prefix
  BY Naming DEF CreateLB
<1>. DEFINE n == LBName(p)
<1>2. /\ pc = "lb" /\ pc \in Creators /\ pc \in NormalPCs /\ n \in Name /\ n[1] = P /\ n[2] = "lb"
      /\ obj.managed /\ UNCHANGED <<api, secrets, usedUIDs, obj, cache>>
  BY <1>1, Naming, NamesExist, NameParts
     DEF CreateLB, IInv, SnapLags, Creators, NormalPCs, StackPCs, api
<1>3. \A m \in Refs(n) : Standing(m) BY <1>1, <1>2, References DEF IInv, Building
<1>4. CASE Make(n) /\ Go("build") /\ UNCHANGED bounds
  <2>1. PassOK' /\ Loops' /\ Building'
    BY <1>4 DEF Go, memory, IInv, TypeOK, PassOK, PCs, NormalPCs, Loops, Building
  <2>. QED BY <1>2, <1>3, <1>4, <2>1, Created DEF Go, memory, Creators, NormalPCs, StackPCs
<1>5. CASE Fault /\ Fail /\ (Make(n) \/ UNCHANGED deps)
  BY <1>2, <1>3, <1>5, FailedCreate
<1>. QED BY <1>1, <1>4, <1>5 DEF CreateLB, Creates

\* The endpoint is taken from a load balancer and an address that are ready.
LEMMA UseLBKeeps == ASSUME IInv, UseLB PROVE IInv'
<1>. DEFINE active == res[LBName(Prefix)] = "ready" /\ (OwnIP => res[IPName(Prefix)] = "ready")
            used == [snap EXCEPT !.lb = Prefix,
                                 !.endpoint = IF @ = None THEN Address(Prefix) ELSE @]
<1>1. /\ pc = "build" /\ pc \in Creators /\ pc \in NormalPCs /\ snap.managed /\ snap \in ClusterObject
      /\ Prefix = P /\ P \in UIDs /\ P' = P /\ snap.prefix # None /\ snap.endpoint = base.endpoint
      /\ UNCHANGED <<api, deps, secrets, usedUIDs>>
  BY Naming, ApiFrame
     DEF UseLB, IInv, TypeOK, PassOK, SnapLags, Creators, NormalPCs, StackPCs
<1>2. CASE ~active /\ Leave(snap, TRUE) /\ UNCHANGED bounds BY <1>1, <1>2, QuietLeave
<1>3. CASE Fault /\ Fail BY <1>1, <1>3, FailIsLeave, QuietLeave
<1>4. CASE Fault /\ Leave(snap, TRUE) BY <1>1, <1>4, QuietLeave
<1>5. CASE /\ active /\ UNCHANGED bounds
           /\ pc' = "sgs" /\ snap' = used /\ todo' = InlineSGs
           /\ UNCHANGED <<queued, base, snapCurrent, item, errs, still, again>>
  <2>1. Address(P) \in UIDs \cup {UserAddress, None} BY <1>1 DEF Address
  <2>2. /\ used \in ClusterObject /\ used.exists = snap.exists /\ used.uid = snap.uid
        /\ used.managed = snap.managed /\ used.deleting = snap.deleting /\ used.prefix = snap.prefix
        /\ used.finalizer = snap.finalizer /\ used.ownerID = snap.ownerID /\ used.lb = P
        /\ used.endpoint = IF snap.endpoint = None THEN Address(P) ELSE snap.endpoint
    BY <1>1, <2>1 DEF ClusterObject
  <2>3. PrefixOf(used) = P BY <1>1, <2>2 DEF Prefix, PrefixOf
  <2>4. Served(P)' BY <1>1, <1>5 DEF Served, deps
  <2>. HIDE DEF used, active
  <2>5. PassOK' BY <1>5, <2>2 DEF IInv, TypeOK, PassOK, PCs, NormalPCs
  <2>6. SnapLags'
    BY <1>1, <1>5, <2>2, <2>3, <2>4 DEF IInv, SnapLags, api, NormalPCs, StackPCs
  <2>7. Loops' /\ Building' BY <1>5 DEF Loops, Building
  <2>8. pc' \in NormalPCs /\ UNCHANGED <<base, snapCurrent>> BY <1>5 DEF NormalPCs
  <2>. QED BY <1>1, <1>5, <2>5, <2>6, <2>7, <2>8, QuietStep
<1>. QED BY <1>2, <1>3, <1>4, <1>5 DEF UseLB

LEMMA VisitSGKeeps == ASSUME IInv, NEW g \in InlineSGs, VisitSG(g) PROVE IInv'
<1>1. PICK p \in UIDs : p = Prefix BY Naming DEF VisitSG
<1>. DEFINE n == SGName(p, g)
<1>2. /\ pc = "sgs" /\ pc \in Creators /\ n \in Name /\ n[2] = "sg" /\ Refs(n) = {}
      /\ todo \subseteq InlineSGs /\ UNCHANGED <<api, secrets, usedUIDs>>
  BY NamesExist, NameParts, References DEF VisitSG, IInv, Loops, Creators, NormalPCs
<1>3. CASE Make(n) /\ Loop("sgs", todo \ {g}) /\ UNCHANGED bounds
  <2>1. PassOK' /\ Loops' /\ Building'
    BY <1>2, <1>3 DEF Loop, IInv, TypeOK, PassOK, PCs, NormalPCs, Loops, Building
  <2>. QED BY <1>2, <1>3, <2>1, Created DEF Loop, Creators, NormalPCs, StackPCs
<1>4. CASE Fault /\ Fail /\ (Make(n) \/ UNCHANGED deps)
  BY <1>2, <1>4, FailedCreate
<1>. QED BY <1>1, <1>3, <1>4 DEF VisitSG, Creates

LEMMA ProvisionedKeeps == ASSUME IInv, Provisioned PROVE IInv'
<1>1. Leave([snap EXCEPT !.ready = TRUE], FALSE) /\ pc \in Creators
  BY DEF Provisioned, Creators, NormalPCs
<1>. QED BY <1>1, QuietLeave DEF Provisioned

-----------------------------------------------------------------------------
(* The deferred patch *)

\* What it may send: what the object lacks, as the pass knows it.
LEMMA PatchKeeps ==
    ASSUME IInv, pc \in {"patch", "patchStatus"}, NEW o \in ClusterObject, Patch(o),
           UNCHANGED <<deps, secrets, usedUIDs>>,
           o.exists = obj.exists, o.uid = obj.uid, o.managed = obj.managed,
           o.deleting = obj.deleting, o.finalizer = obj.finalizer, o.ownerID = obj.ownerID,
           o.prefix # obj.prefix => o.prefix = P,
           o.lb # obj.lb => o.lb = P /\ obj.managed,
           obj.prefix # None => o.prefix = obj.prefix,
           o.endpoint # obj.endpoint =>
               obj.managed /\ o.prefix # None /\ o.endpoint = Address(P) /\ Served(P),
           obj.endpoint # None => o.endpoint = obj.endpoint
    PROVE  /\ ApiOK' /\ Stored' /\ CacheLags' /\ P' = P
           /\ DepsOK' /\ Held' /\ WholeStack' /\ EndpointIsServed'
           /\ UNCHANGED cache /\ \A c \in ClusterObject : Copy(c) => Copy(c)'
           /\ obj'.exists = obj.exists /\ obj'.finalizer = obj.finalizer
           /\ obj'.deleting = obj.deleting /\ obj'.ownerID = obj.ownerID
<1>1. /\ obj' = (IF obj.exists THEN o ELSE obj) /\ UNCHANGED cache /\ cacheCurrent' \in BOOLEAN
      /\ cacheCurrent' => cacheCurrent /\ obj' = obj
  BY DEF Patch, IInv, TypeOK, ApiOK
<1>2. obj.exists /\ obj' = o BY <1>1 DEF IInv, BaseLags, NormalPCs
<1>3. obj \in ClusterObject /\ P \in UIDs /\ P # None BY Naming DEF IInv, TypeOK, ApiOK
<1>4. P' = P BY <1>2, <1>3 DEF P, PrefixOf
<1>5. \A c \in ClusterObject : Copy(c) => Copy(c)'
  BY <1>2, <1>3, <1>4 DEF Copy
<1>6. ApiOK' BY <1>1, <1>2 DEF IInv, TypeOK, ApiOK
<1>7. Stored' BY <1>2, <1>3, <1>4 DEF IInv, Stored
<1>8. CacheLags' BY <1>1, <1>2, <1>5 DEF IInv, TypeOK, ApiOK, CacheLags
<1>9. DepsOK' /\ Held' /\ WholeStack'
  BY <1>2, <1>4 DEF IInv, TypeOK, DepsOK, deps, Held, WholeStack
<1>10. EndpointIsServed' BY <1>2, <1>4 DEF IInv, EndpointIsServed, Served, P, deps
<1>. QED BY <1>1, <1>2, <1>4, <1>5, <1>6, <1>7, <1>8, <1>9, <1>10

LEMMA PatchMetaAndSpecKeeps == ASSUME IInv, PatchMetaAndSpec PROVE IInv'
<1>. DEFINE o == [obj EXCEPT
                   !.prefix   = IF snap.prefix # base.prefix THEN snap.prefix ELSE @,
                   !.endpoint = IF snap.endpoint # base.endpoint THEN snap.endpoint ELSE @]
<1>1. /\ pc = "patch" /\ UNCHANGED <<deps, secrets, usedUIDs>>
      /\ obj \in ClusterObject /\ snap \in ClusterObject /\ P # None
  BY Naming DEF PatchMetaAndSpec, IInv, TypeOK, ApiOK, PassOK
<1>2. /\ Copy(base) /\ base \in ClusterObject /\ PrefixOf(snap) = P /\ snap.managed = obj.managed
      /\ snap.prefix # base.prefix => base.prefix = None
      /\ snap.managed => snap.prefix # None
      /\ snap.endpoint # base.endpoint =>
            base.endpoint = None /\ snap.endpoint = Address(P) /\ snap.managed /\ Served(P)
  BY <1>1, Naming DEF IInv, BaseLags, SnapLags, TypeOK, PassOK, NormalPCs
<1>3. CASE /\ Patch(o) /\ Go("patchStatus") /\ UNCHANGED bounds
  <2>1. /\ o \in ClusterObject
        /\ o.exists = obj.exists /\ o.uid = obj.uid /\ o.managed = obj.managed
        /\ o.deleting = obj.deleting /\ o.finalizer = obj.finalizer /\ o.ownerID = obj.ownerID
        /\ o.lb = obj.lb
        /\ o.prefix = IF snap.prefix # base.prefix THEN snap.prefix ELSE obj.prefix
        /\ o.endpoint = IF snap.endpoint # base.endpoint THEN snap.endpoint ELSE obj.endpoint
    <3>. DEFINE x == IF snap.prefix # base.prefix THEN snap.prefix ELSE obj.prefix
                y == IF snap.endpoint # base.endpoint THEN snap.endpoint ELSE obj.endpoint
    <3>1. x \in UIDs \cup {None} /\ y \in UIDs \cup {UserAddress, None} BY <1>1 DEF ClusterObject
    <3>2. o = [obj EXCEPT !.prefix = x, !.endpoint = y] BY <1>1 DEF ClusterObject
    <3>. HIDE DEF x, y, o
    <3>3. /\ o \in ClusterObject /\ o.prefix = x /\ o.endpoint = y
          /\ o.exists = obj.exists /\ o.uid = obj.uid /\ o.managed = obj.managed
          /\ o.deleting = obj.deleting /\ o.finalizer = obj.finalizer /\ o.ownerID = obj.ownerID
          /\ o.lb = obj.lb
      BY <1>1, <3>1, <3>2 DEF ClusterObject
    <3>. QED BY <3>3 DEF x, y
  <2>. HIDE DEF o
  <2>2. obj.prefix # None => obj.prefix = P BY DEF P, PrefixOf
  <2>3. snap.prefix # base.prefix => snap.prefix = P BY <1>2 DEF PrefixOf
  <2>4. snap.managed => o.prefix # None BY <1>1, <1>2, <2>1, <2>3 DEF Copy
  <2>5. obj.endpoint # None => obj.endpoint = Address(P) BY DEF IInv, Stored
  <2>6. UNCHANGED <<base, snap, snapCurrent, item, todo, errs, still, again, queued>> /\ pc' = "patchStatus"
    BY <1>3 DEF Go, memory
  <2>7. /\ ApiOK' /\ Stored' /\ CacheLags' /\ P' = P
        /\ DepsOK' /\ Held' /\ WholeStack' /\ EndpointIsServed'
        /\ Copy(base)'
        /\ obj'.exists = obj.exists /\ obj'.finalizer = obj.finalizer
        /\ obj'.deleting = obj.deleting /\ obj'.ownerID = obj.ownerID
    BY <1>1, <1>2, <1>3, <2>1, <2>2, <2>3, <2>4, <2>5, <2>6, PatchKeeps DEF Copy
  <2>8. PassOK' BY <2>6 DEF IInv, TypeOK, PassOK, PCs, NormalPCs
  <2>9. BaseLags'
    BY <1>1, <1>3, <2>6, <2>7 DEF Patch, IInv, BaseLags, NormalPCs, DeletePCs
  <2>10. SnapLags'
    BY <1>1, <2>6, <2>7 DEF IInv, SnapLags, Served, deps, NormalPCs, StackPCs
  <2>11. Loops' /\ Building' /\ TearingDown' BY <2>6 DEF Loops, Building, TearingDown, DeletePCs
  <2>12. DeletedByDeletion'
    BY <1>1, <1>3, <2>6, <2>7 DEF Patch, IInv, DeletedByDeletion, deps, Calm, DeletePCs
  <2>13. SecretsOK' /\ BoundsOK' BY <1>1, <1>3, OthersType
  <2>. QED BY <2>7, <2>8, <2>9, <2>10, <2>11, <2>12, <2>13 DEF IInv, TypeOK
<1>4. CASE /\ Fault /\ UNCHANGED api
           /\ pc' = "patchStatus" /\ again' = TRUE
           /\ UNCHANGED <<queued, base, snap, snapCurrent, item, todo, errs, still>>
  <2>1. Served(P) => Served(P)' BY <1>1, <1>4 DEF Served, P, api, deps
  <2>2. SnapLags' BY <1>1, <1>4, <2>1, SnapFrame DEF api, NormalPCs, StackPCs
  <2>3. PassOK' /\ Loops' /\ Building'
    BY <1>4 DEF IInv, TypeOK, PassOK, PCs, NormalPCs, Loops, Building
  <2>. QED BY <1>1, <1>4, <2>2, <2>3, QuietStep DEF NormalPCs
<1>. HIDE DEF o
<1>. QED BY <1>3, <1>4, Zenon DEF PatchMetaAndSpec, o

LEMMA PatchStatusKeeps == ASSUME IInv, PatchStatus PROVE IInv'
<1>. DEFINE o == [obj EXCEPT
                   !.ready = IF snap.ready # base.ready THEN snap.ready ELSE @,
                   !.lb    = IF snap.lb # base.lb THEN snap.lb ELSE @]
<1>1. /\ pc = "patchStatus" /\ UNCHANGED <<deps, secrets, usedUIDs>>
      /\ obj \in ClusterObject /\ snap \in ClusterObject
  BY DEF PatchStatus, IInv, TypeOK, ApiOK, PassOK
<1>2. snap.lb # base.lb => snap.lb = P /\ obj.managed
  BY <1>1, Naming DEF IInv, SnapLags
<1>3. PICK q \in BOOLEAN : Return(q) BY <1>1 DEF PatchStatus, IInv, TypeOK, PassOK, ClusterObject
<1>4. PassOK' /\ BaseLags' /\ SnapLags' /\ Loops' /\ Building' /\ TearingDown' /\ pc' = "idle"
  BY <1>3, ReturnKeeps DEF Return
<1>5. CASE Patch(o) /\ UNCHANGED bounds
  <2>1. /\ o \in ClusterObject
        /\ o.exists = obj.exists /\ o.uid = obj.uid /\ o.managed = obj.managed
        /\ o.deleting = obj.deleting /\ o.finalizer = obj.finalizer /\ o.ownerID = obj.ownerID
        /\ o.prefix = obj.prefix /\ o.endpoint = obj.endpoint
        /\ o.lb # obj.lb => o.lb = P /\ obj.managed
    <3>. DEFINE x == IF snap.ready # base.ready THEN snap.ready ELSE obj.ready
                y == IF snap.lb # base.lb THEN snap.lb ELSE obj.lb
    <3>1. x \in BOOLEAN /\ y \in UIDs \cup {None} BY <1>1 DEF ClusterObject
    <3>2. o = [obj EXCEPT !.ready = x, !.lb = y] BY <1>1 DEF ClusterObject
    <3>3. y # obj.lb => y = P /\ obj.managed BY <1>2
    <3>. HIDE DEF x, y, o
    <3>. QED BY <1>1, <3>1, <3>2, <3>3 DEF ClusterObject
  <2>. HIDE DEF o
  <2>2. /\ ApiOK' /\ Stored' /\ CacheLags'
        /\ DepsOK' /\ Held' /\ WholeStack' /\ EndpointIsServed' /\ UNCHANGED cache
        /\ obj'.exists = obj.exists /\ obj'.ownerID = obj.ownerID
    BY <1>1, <1>5, <2>1, PatchKeeps
  <2>3. DeletedByDeletion' BY <1>1, <1>4, <2>2 DEF IInv, DeletedByDeletion, deps, Calm
  <2>4. SecretsOK' /\ BoundsOK' BY <1>1, <1>5, OthersType
  <2>. QED BY <1>4, <2>2, <2>3, <2>4 DEF IInv, TypeOK
<1>6. CASE Fault /\ UNCHANGED api
  <2>1. ApiOK' /\ Stored' /\ CacheLags' BY <1>6, ApiFrame
  <2>2. DepsOK' /\ Held' /\ WholeStack' /\ EndpointIsServed' BY <1>1, <1>6, DepsFrame DEF api
  <2>3. DeletedByDeletion' BY <1>1, <1>4, <1>6, CalmFrame DEF api, Calm
  <2>4. SecretsOK' /\ BoundsOK' BY <1>1, <1>6, OthersType
  <2>. QED BY <1>4, <2>1, <2>2, <2>3, <2>4 DEF IInv, TypeOK
<1>. QED BY <1>5, <1>6 DEF PatchStatus

-----------------------------------------------------------------------------
(* cleanupResources *)

LEMMA DeletionPass ==
    ASSUME IInv, pc \in DeletePCs
    PROVE  /\ obj.deleting /\ cache.deleting /\ snap.ownerID = obj.ownerID /\ obj.ownerID # None
           /\ Calm
BY Naming, ClusterAssumption
   DEF IInv, BaseLags, SnapLags, Copy, DeletePCs, Calm, ClusterAssumption

\* What a deleting call of the teardown does to the cloud.
LEMMA DeletesKeeps ==
    ASSUME IInv, pc \in DeletePCs, pc' \in DeletePCs, UNCHANGED <<obj, cache>>, NEW n \in Name, Deletes(n)
    PROVE  /\ DepsOK' /\ Held' /\ WholeStack' /\ EndpointIsServed' /\ DeletedByDeletion'
           /\ UNCHANGED drivers /\ \A m \in Name : res[m] = "absent" => res'[m] = "absent"
           /\ errs' \in BOOLEAN /\ (errs => errs')
           /\ UNCHANGED bounds \/ Fault
<1>1. obj.deleting /\ cache.deleting /\ Calm' BY DeletionPass DEF Calm
<1>2. errs' \in BOOLEAN /\ (errs => errs') /\ (UNCHANGED bounds \/ Fault)
  BY DEF Deletes, IInv, TypeOK, PassOK
<1>3. CASE UNCHANGED deps
  BY <1>1, <1>2, <1>3, DepsFrame, CalmFrame DEF deps
<1>4. CASE ~Referred(n) /\ Delete(n)
  <2>1. /\ UNCHANGED <<owner, drivers>> /\ DepsOK'
        /\ \A m \in Name : res[m] = "absent" <=> res'[m] = "absent"
        /\ \A m \in Name \ {n} : res'[m] = res[m]
    BY <1>4 DEF Delete, IInv, TypeOK, DepsOK
  <2>2. Held' BY <2>1 DEF IInv, Held, P
  <2>3. WholeStack'
    <3>1. SUFFICES ASSUME NEW k \in Name, res'[k] # "absent", NEW m \in Refs(k)
                   PROVE  res'[m] \in {"creating", "ready"}
      BY DEF WholeStack
    <3>2. m # n BY <1>4, <2>1, <3>1 DEF Referred
    <3>. QED BY <2>1, <3>1, <3>2, ReferencesAreNames DEF IInv, WholeStack
  <2>4. EndpointIsServed' BY <1>1 DEF IInv, EndpointIsServed
  <2>5. DeletedByDeletion' BY <1>1, <2>1 DEF IInv, DeletedByDeletion
  <2>. QED BY <1>2, <2>1, <2>2, <2>3, <2>4, <2>5
<1>. QED BY <1>3, <1>4 DEF Deletes

\* A step of the teardown over the cloud it leaves.
LEMMA TeardownStep ==
    ASSUME IInv, pc \in DeletePCs, pc' \in DeletePCs,
           UNCHANGED <<api, base, snap, snapCurrent, secrets, usedUIDs>>,
           UNCHANGED bounds \/ Fault,
           DepsOK' /\ Held' /\ WholeStack' /\ EndpointIsServed' /\ DeletedByDeletion',
           PassOK', Loops', TearingDown'
    PROVE  IInv'
<1>1. ApiOK' /\ Stored' /\ CacheLags' BY ApiFrame
<1>2. BaseLags' /\ SnapLags' /\ Building' BY DeleteFrame DEF api
<1>3. SecretsOK' /\ BoundsOK' BY OthersType
<1>. QED BY <1>1, <1>2, <1>3 DEF IInv, TypeOK

LEMMA QuietTeardown ==
    ASSUME IInv, pc \in DeletePCs, pc' \in DeletePCs,
           UNCHANGED <<api, deps, base, snap, snapCurrent, secrets, usedUIDs>>,
           UNCHANGED bounds \/ Fault,
           PassOK', Loops', TearingDown'
    PROVE  IInv'
<1>1. DepsOK' /\ Held' /\ WholeStack' /\ EndpointIsServed' BY DepsFrame DEF api
<1>2. DeletedByDeletion' BY CalmFrame DEF api, Calm
<1>. QED BY <1>1, <1>2, TeardownStep

LEMMA CleanupWorkloadKeeps == ASSUME IInv, CleanupWorkload PROVE IInv'
<1>. USE DEF CleanupWorkload
<1>1. /\ pc \in DeletePCs /\ pc' \in {"delLB", "list"} /\ (pc' = "list" => item' = "sg" /\ ~snap.managed)
      /\ item' \in Ports \cup Kinds
      /\ UNCHANGED <<api, base, snap, snapCurrent, queued, todo, again, res, owner, secrets, usedUIDs>>
      /\ UNCHANGED bounds \/ Fault
  BY DEF IInv, TypeOK, PassOK, DeletePCs, Kinds, deps
<1>2. /\ errs' \in BOOLEAN /\ still' \in BOOLEAN /\ drivers' \in {"present", "deleting", "gone"}
      /\ drivers = "gone" => drivers' = "gone"
      /\ ~errs' /\ ~still' => drivers' = "gone"
  BY DEF IInv, TypeOK, PassOK, DepsOK, deps
<1>3. obj.deleting /\ cache.deleting /\ obj.ownerID # None /\ snap.managed = obj.managed
  BY <1>1, DeletionPass, Naming DEF DeletePCs
<1>4. DepsOK' /\ Held' /\ WholeStack' /\ EndpointIsServed'
  BY <1>1, <1>2 DEF IInv, TypeOK, DepsOK, Held, WholeStack, EndpointIsServed, P, api
<1>5. DeletedByDeletion' BY <1>1, <1>2, <1>3 DEF IInv, DeletedByDeletion, Calm, DeletePCs, api
<1>6. PassOK' /\ Loops' BY <1>1, <1>2 DEF IInv, TypeOK, PassOK, PCs, DeletePCs, Loops, Kinds
<1>7. TearingDown' BY <1>1, <1>2, <1>3 DEF IInv, Held, TearingDown, DeletePCs
<1>. QED BY <1>1, <1>4, <1>5, <1>6, <1>7, TeardownStep DEF DeletePCs

LEMMA DeleteLBKeeps == ASSUME IInv, DeleteLB PROVE IInv'
<1>1. PICK p \in UIDs : p = Prefix BY Naming DEF DeleteLB
<1>2. pc \in DeletePCs /\ pc' \in DeletePCs /\ Deletes(LBName(p)) /\ LBName(p) \in Name
      /\ UNCHANGED <<obj, cache, api>>
  BY <1>1, NamesExist DEF DeleteLB, DeletePCs, api
<1>3. /\ DepsOK' /\ Held' /\ WholeStack' /\ EndpointIsServed' /\ DeletedByDeletion'
      /\ UNCHANGED drivers /\ errs' \in BOOLEAN /\ (errs => errs') /\ (UNCHANGED bounds \/ Fault)
  BY <1>2, DeletesKeeps
<1>4. PassOK' /\ Loops' /\ TearingDown'
  BY <1>2, <1>3
     DEF DeleteLB, IInv, TypeOK, PassOK, PCs, Kinds, Loops, TearingDown, DeletePCs
<1>. QED BY <1>2, <1>3, <1>4, TeardownStep DEF DeleteLB

LEMMA DeleteIPKeeps == ASSUME IInv, DeleteIP PROVE IInv'
<1>1. PICK p \in UIDs : p = Prefix BY Naming DEF DeleteIP
<1>2. pc \in DeletePCs /\ pc' \in DeletePCs /\ Deletes(IPName(p)) /\ IPName(p) \in Name
      /\ UNCHANGED <<obj, cache, api>>
  BY <1>1, NamesExist DEF DeleteIP, DeletePCs, api
<1>3. /\ DepsOK' /\ Held' /\ WholeStack' /\ EndpointIsServed' /\ DeletedByDeletion'
      /\ UNCHANGED drivers /\ errs' \in BOOLEAN /\ (errs => errs') /\ (UNCHANGED bounds \/ Fault)
  BY <1>2, DeletesKeeps
<1>4. PassOK' /\ Loops' /\ TearingDown'
  BY <1>2, <1>3
     DEF DeleteIP, IInv, TypeOK, PassOK, PCs, Loops, TearingDown, DeletePCs
<1>. QED BY <1>2, <1>3, <1>4, TeardownStep DEF DeleteIP

LEMMA ListOwnedKeeps == ASSUME IInv, ListOwned PROVE IInv'
<1>1. /\ pc \in DeletePCs /\ pc' \in DeletePCs /\ pc = "list" /\ pc' = "delListed" /\ item' = item
      /\ UNCHANGED <<api, deps, base, snap, snapCurrent, queued, still, again, secrets, usedUIDs>>
      /\ UNCHANGED bounds \/ Fault
      /\ todo' \subseteq Name /\ errs' \in BOOLEAN /\ (errs => errs')
  BY DEF ListOwned, IInv, TypeOK, PassOK, DeletePCs
<1>2. PassOK' /\ Loops'
  BY <1>1 DEF IInv, TypeOK, PassOK, PCs, Loops, Kinds, DeletePCs
<1>3. TearingDown' BY <1>1 DEF IInv, TearingDown, deps
<1>. QED BY <1>1, <1>2, <1>3, QuietTeardown

LEMMA DeleteListedKeeps == ASSUME IInv, NEW n \in Name, DeleteListed(n) PROVE IInv'
<1>1. /\ pc \in DeletePCs /\ pc' = pc /\ pc = "delListed" /\ Deletes(n) /\ UNCHANGED <<obj, cache, api>>
  BY DEF DeleteListed, DeletePCs, api
<1>2. /\ DepsOK' /\ Held' /\ WholeStack' /\ EndpointIsServed' /\ DeletedByDeletion'
      /\ UNCHANGED drivers /\ \A m \in Name : res[m] = "absent" => res'[m] = "absent"
      /\ errs' \in BOOLEAN /\ (errs => errs') /\ (UNCHANGED bounds \/ Fault)
  BY <1>1, DeletesKeeps
<1>3. PassOK' /\ Loops' BY <1>1, <1>2 DEF DeleteListed, IInv, TypeOK, PassOK, Loops
<1>4. TearingDown' BY <1>1, <1>2 DEF DeleteListed, IInv, TearingDown
<1>. QED BY <1>1, <1>2, <1>3, <1>4, TeardownStep DEF DeleteListed

LEMMA KindDoneKeeps == ASSUME IInv, KindDone PROVE IInv'
<1>1. /\ pc = "delListed" /\ UNCHANGED <<base, snap, snapCurrent, queued, errs, still, again, todo>>
      /\ UNCHANGED <<api, deps, secrets, usedUIDs, bounds>> /\ todo = {}
      /\ \/ pc' = "list" /\ item' \in {"svc", "pool"}
         \/ pc' \in {"delIP", "complete"} /\ item' = item
         \/ pc' = "recheck" /\ item' = item /\ item = "sg"
  BY DEF KindDone, At, Go, memory, AfterKind
<1>2. PassOK' /\ Loops' BY <1>1 DEF IInv, TypeOK, PassOK, PCs, DeletePCs, Loops, Kinds
<1>3. TearingDown' BY <1>1 DEF IInv, TearingDown, DeletePCs, deps
<1>. QED BY <1>1, <1>2, <1>3, QuietTeardown DEF DeletePCs

\* The look by name and by label sees the whole stack.
LEMMA CheckDeletionKeeps == ASSUME IInv, CheckDeletion PROVE IInv'
<1>1. /\ pc = "complete" /\ pc' = "list" /\ item' = "sg"
      /\ UNCHANGED <<api, deps, base, snap, snapCurrent, queued, todo, again, secrets, usedUIDs>>
      /\ UNCHANGED bounds \/ Fault
      /\ errs' \in BOOLEAN /\ still' \in BOOLEAN /\ (errs => errs') /\ (still => still')
      /\ ~errs' /\ ~still' => \A n \in Name : OfStack(n) => res[n] = "absent"
  BY DEF CheckDeletion, IInv, TypeOK, PassOK
<1>2. PassOK' /\ Loops' BY <1>1 DEF IInv, TypeOK, PassOK, PCs, DeletePCs, Loops, Kinds
<1>3. ASSUME NEW n \in Name, n[2] # "sg", res[n] # "absent" PROVE OfStack(n)
  <2>1. n[1] = Prefix /\ owner[n] = snap.ownerID /\ (n[2] = "ip" => OwnIP)
    BY <1>1, <1>3, Naming, DeletionPass DEF IInv, Held, DeletePCs
  <2>2. n[2] \in {"lb", "ip"} => n[3] = "only" BY NameKinds DEF LBName, IPName
  <2>. QED BY <1>3, <2>1, <2>2, NameKinds DEF OfStack
<1>4. TearingDown' BY <1>1, <1>3 DEF IInv, TearingDown, DeletePCs, deps
<1>. QED BY <1>1, <1>2, <1>4, QuietTeardown DEF DeletePCs

\* The finalizer goes with the object, over the version that the pass has read,
\* once nothing is left of the stack, of the groups and of the drivers.
LEMMA FinishKeeps == ASSUME IInv, Finish PROVE IInv'
<1>. DEFINE o == [obj EXCEPT !.finalizer = FALSE, !.exists = FALSE]
            left == \E n \in Name : n[2] = "sg" /\ res[n] # "absent" /\ owner[n] = snap.ownerID
<1>1. /\ pc = "recheck" /\ pc \in DeletePCs /\ UNCHANGED <<deps, secrets, usedUIDs>>
      /\ obj.deleting /\ cache.deleting /\ snap.ownerID = obj.ownerID /\ obj.ownerID # None
      /\ obj \in ClusterObject
  BY DeletionPass DEF Finish, DeletePCs, IInv, TypeOK, ApiOK
<1>2. PICK q \in BOOLEAN : Return(q) BY DEF Finish
<1>3. /\ PassOK' /\ BaseLags' /\ SnapLags' /\ Loops' /\ Building' /\ TearingDown'
      /\ pc' = "idle" /\ SecretsOK'
  BY <1>1, <1>2, ReturnKeeps, OthersType DEF Return
<1>4. CASE UNCHANGED api /\ (UNCHANGED bounds \/ Fault)
  <2>1. ApiOK' /\ Stored' /\ CacheLags' BY <1>4, ApiFrame
  <2>2. DepsOK' /\ Held' /\ WholeStack' /\ EndpointIsServed' BY <1>1, <1>4, DepsFrame DEF api
  <2>3. DeletedByDeletion' BY <1>1, <1>3, <1>4, CalmFrame DEF api, Calm
  <2>4. BoundsOK' BY <1>4, OthersType
  <2>. QED BY <1>3, <2>1, <2>2, <2>3, <2>4 DEF IInv, TypeOK
<1>5. CASE ~errs /\ ~still /\ ~left /\ Store(o) /\ UNCHANGED bounds
  <2>1. /\ obj' = o /\ UNCHANGED cache /\ cacheCurrent' \in BOOLEAN
        /\ cacheCurrent' => cacheCurrent /\ obj' = obj
    BY <1>5 DEF Store, IInv, TypeOK, ApiOK
  <2>2. obj = base /\ obj.exists /\ obj.finalizer
    BY <1>1, <1>5 DEF Store, IInv, BaseLags
  <2>3. /\ obj' \in ClusterObject /\ ~obj'.exists /\ ~obj'.finalizer
        /\ obj'.deleting /\ obj'.uid = obj.uid /\ obj'.ownerID = obj.ownerID
        /\ obj'.managed = obj.managed /\ obj'.prefix = obj.prefix /\ obj'.lb = obj.lb
        /\ obj'.endpoint = obj.endpoint
    BY <1>1, <2>1 DEF ClusterObject
  <2>4. P' = P BY <2>3 DEF P, PrefixOf
  <2>5. drivers = "gone" /\ \A n \in Name : res[n] = "absent"
    <3>1. drivers = "gone" /\ \A n \in Name : n[2] # "sg" => res[n] = "absent"
      BY <1>1, <1>5 DEF IInv, TearingDown
    <3>2. \A n \in Name : n[2] = "sg" => res[n] = "absent"
      BY <1>1, <1>5 DEF IInv, Held
    <3>. QED BY <3>1, <3>2
  <2>6. Stored' BY <2>3, <2>4 DEF IInv, Stored
  <2>7. CacheLags' BY <1>1, <2>1, <2>2, <2>3, <2>4 DEF IInv, CacheLags, Copy
  <2>8. DepsOK' /\ Held' /\ WholeStack'
    BY <1>1, <2>5 DEF IInv, TypeOK, DepsOK, deps, Held, WholeStack
  <2>9. EndpointIsServed' BY <2>3, <2>4 DEF IInv, EndpointIsServed, P
  <2>10. DeletedByDeletion' BY <1>1, <1>3, <2>1, <2>3, <2>5 DEF DeletedByDeletion, deps, Calm
  <2>11. ApiOK' /\ BoundsOK' BY <1>5, <2>1, <2>3, OthersType DEF IInv, TypeOK, ApiOK
  <2>. QED BY <1>3, <2>6, <2>7, <2>8, <2>9, <2>10, <2>11 DEF IInv, TypeOK
<1>. QED BY <1>4, <1>5 DEF Finish, Refused

-----------------------------------------------------------------------------
(* The environment *)

LEMMA CacheSyncKeeps == ASSUME IInv, CacheSync PROVE IInv'
<1>. USE DEF CacheSync
<1>1. ApiOK' /\ Stored' /\ P' = P BY DEF IInv, TypeOK, ApiOK, Stored, P
<1>2. CacheLags' BY <1>1 DEF IInv, TypeOK, ApiOK, ClusterObject, Stored, CacheLags, Copy, P
<1>3. DepsOK' /\ Held' /\ WholeStack' /\ EndpointIsServed' BY DepsFrame
<1>4. DeletedByDeletion' BY CalmFrame DEF IInv, CacheLags, Calm
<1>5. PassOK' BY DEF IInv, TypeOK, PassOK, memory
<1>6. BaseLags'
  BY <1>1 DEF IInv, CacheLags, BaseLags, Copy, P, memory
<1>7. SnapLags' BY <1>1 DEF IInv, SnapLags, Served, deps, memory
<1>8. Loops' /\ Building' /\ TearingDown'
  BY <1>1 DEF IInv, Loops, Building, TearingDown, Standing, deps, memory
<1>9. SecretsOK' /\ BoundsOK' BY OthersType
<1>. QED BY <1>1, <1>2, <1>3, <1>4, <1>5, <1>6, <1>7, <1>8, <1>9 DEF IInv, TypeOK

LEMMA CrashKeeps == ASSUME IInv, Crash PROVE IInv'
<1>. USE DEF Crash, Restart
<1>1. obj' = obj /\ cache' = obj /\ pc' = "idle" /\ P' = P BY DEF P
<1>2. ApiOK' /\ Stored' BY <1>1 DEF IInv, TypeOK, ApiOK, Stored
<1>3. CacheLags' BY <1>1 DEF IInv, TypeOK, ApiOK, ClusterObject, Stored, CacheLags, Copy, P
<1>4. DepsOK' /\ Held' /\ WholeStack' /\ EndpointIsServed' BY DepsFrame
<1>5. DeletedByDeletion' BY CalmFrame DEF IInv, CacheLags, Calm
<1>6. PassOK' BY BlankType DEF IInv, TypeOK, PassOK, PCs, Ports, Forget
<1>7. BaseLags' /\ SnapLags' /\ Loops' /\ Building' /\ TearingDown'
  BY <1>1 DEF BaseLags, SnapLags, Loops, Building, TearingDown, DeletePCs
<1>8. SecretsOK' /\ BoundsOK' BY DEF IInv, TypeOK, SecretsOK, BoundsOK, secrets
<1>. QED BY <1>2, <1>3, <1>4, <1>5, <1>6, <1>7, <1>8 DEF IInv, TypeOK

\* A write by a user: the pass's resourceVersion is not the stored one any more.
LEMMA WriteKeeps ==
    ASSUME IInv, NEW o \in ClusterObject, Write(o), UNCHANGED bounds \/ BoundsOK',
           o.uid = obj.uid, o.managed = obj.managed, o.finalizer = obj.finalizer,
           o.ownerID = obj.ownerID, o.prefix = obj.prefix, o.lb = obj.lb, o.endpoint = obj.endpoint,
           obj.deleting => o.deleting, o.exists \/ ~obj.finalizer
    PROVE  IInv'
<1>. USE DEF Write
<1>1. obj' = o /\ obj.exists /\ P' = P BY DEF P, PrefixOf
<1>2. ApiOK' /\ Stored' BY <1>1 DEF IInv, TypeOK, ApiOK, Stored
<1>3. CacheLags' BY <1>1 DEF IInv, CacheLags, Copy
<1>4. DepsOK' /\ Held' /\ WholeStack'
  BY <1>1 DEF IInv, TypeOK, DepsOK, deps, Held, WholeStack
<1>5. EndpointIsServed' BY <1>1 DEF IInv, EndpointIsServed, deps, P
<1>6. DeletedByDeletion' BY <1>1 DEF IInv, Stored, DeletedByDeletion, deps, Calm
<1>7. PassOK' BY DEF IInv, TypeOK, PassOK
<1>8. BaseLags' BY <1>1 DEF IInv, BaseLags, Copy
<1>9. SnapLags' BY <1>1 DEF IInv, SnapLags, Served, deps
<1>10. Loops' /\ Building' /\ TearingDown'
  BY <1>1 DEF IInv, Loops, Building, TearingDown, Standing, deps
<1>11. SecretsOK' /\ BoundsOK' BY OthersType
<1>. QED BY <1>2, <1>3, <1>4, <1>5, <1>6, <1>7, <1>8, <1>9, <1>10, <1>11 DEF IInv, TypeOK

LEMMA UserDeleteKeeps == ASSUME IInv, UserDelete PROVE IInv'
<1>. DEFINE o == [obj EXCEPT !.deleting = TRUE, !.exists = obj.finalizer]
<1>1. obj \in ClusterObject BY DEF IInv, TypeOK, ApiOK
<1>2. /\ o \in ClusterObject /\ o.uid = obj.uid /\ o.managed = obj.managed
      /\ o.finalizer = obj.finalizer /\ o.ownerID = obj.ownerID /\ o.prefix = obj.prefix
      /\ o.lb = obj.lb /\ o.endpoint = obj.endpoint /\ o.deleting /\ (o.exists \/ ~obj.finalizer)
  <2>1. obj.finalizer \in BOOLEAN BY <1>1 DEF ClusterObject
  <2>. QED BY <1>1, <2>1 DEF ClusterObject
<1>. HIDE DEF o
<1>. QED BY <1>2, WriteKeeps DEF UserDelete, o

LEMMA UserPauseKeeps == ASSUME IInv, UserPause PROVE IInv'
<1>. DEFINE o == [obj EXCEPT !.paused = ~@]
<1>1. obj \in ClusterObject BY DEF IInv, TypeOK, ApiOK
<1>2. /\ o \in ClusterObject /\ o.uid = obj.uid /\ o.managed = obj.managed
      /\ o.finalizer = obj.finalizer /\ o.ownerID = obj.ownerID /\ o.prefix = obj.prefix
      /\ o.lb = obj.lb /\ o.endpoint = obj.endpoint /\ o.deleting = obj.deleting
      /\ o.exists = obj.exists
  <2>1. (~obj.paused) \in BOOLEAN BY <1>1 DEF ClusterObject
  <2>. QED BY <1>1, <2>1 DEF ClusterObject
<1>3. Write(o) /\ BoundsOK' BY DEF UserPause, IInv, TypeOK, BoundsOK
<1>. HIDE DEF o
<1>4. o.exists \/ ~obj.finalizer BY <1>2, <1>3 DEF Write
<1>. QED BY <1>2, <1>3, <1>4, WriteKeeps

\* The object keeps its names although it loses its UID and its status: the
\* endpoint it must have to be moved came with a prefix.  Without a managed
\* endpoint there is no stack, and the groups are found by label.
LEMMA MoveKeeps == ASSUME IInv, Move PROVE IInv'
<1>1. PICK u \in UIDs :
         /\ Restart([obj EXCEPT !.uid = u, !.ready = FALSE, !.lb = None, !.paused = FALSE])
         /\ usedUIDs' = usedUIDs \cup {u}
  BY Zenon DEF Move
<1>2. /\ obj \in ClusterObject /\ obj.exists /\ ~obj.deleting
      /\ obj.managed => obj.endpoint # None
      /\ UNCHANGED <<copied, deps, bounds>> /\ source' \in {source, FALSE}
  BY DEF Move, IInv, TypeOK, ApiOK
<1>3. /\ obj' = [obj EXCEPT !.uid = u, !.ready = FALSE, !.lb = None, !.paused = FALSE]
      /\ cache' = obj' /\ cacheCurrent' = TRUE /\ pc' = "idle" /\ queued' = TRUE /\ Forget
  BY <1>1 DEF Restart
<1>4. /\ obj' \in ClusterObject /\ obj'.exists /\ ~obj'.deleting /\ obj'.lb = None
      /\ obj'.finalizer = obj.finalizer /\ obj'.ownerID = obj.ownerID /\ obj'.prefix = obj.prefix
      /\ obj'.endpoint = obj.endpoint /\ obj'.managed = obj.managed
  BY <1>2, <1>3 DEF ClusterObject
<1>5. obj.managed => obj.prefix # None /\ P' = P
  BY <1>2, <1>4 DEF IInv, Stored, P, PrefixOf
<1>6. ApiOK' /\ Stored' BY <1>2, <1>3, <1>4, <1>5 DEF IInv, TypeOK, ApiOK, Stored
<1>7. CacheLags' BY <1>3, <1>4, <1>6 DEF ApiOK, ClusterObject, Stored, CacheLags, Copy, P
<1>8. DepsOK' /\ Held' /\ WholeStack'
  BY <1>2, <1>4, <1>5 DEF IInv, TypeOK, DepsOK, deps, Held, WholeStack
<1>9. EndpointIsServed'
  <2>1. ~obj.managed => obj.endpoint = None BY DEF IInv, Stored
  <2>. QED BY <1>2, <1>4, <1>5, <2>1 DEF IInv, EndpointIsServed, deps, P
<1>10. DeletedByDeletion'
  <2>1. ~cache.deleting BY <1>2 DEF IInv, CacheLags
  <2>. QED BY <1>2, <1>3, <1>4, <2>1, NoneDeleting DEF DeletedByDeletion, deps
<1>11. PassOK' BY <1>3, BlankType DEF IInv, TypeOK, PassOK, PCs, Ports, Forget
<1>12. BaseLags' /\ SnapLags' /\ Loops' /\ Building' /\ TearingDown'
  BY <1>3 DEF BaseLags, SnapLags, Loops, Building, TearingDown, DeletePCs
<1>13. SecretsOK' /\ BoundsOK'
  BY <1>1, <1>2 DEF IInv, TypeOK, SecretsOK, BoundsOK, bounds
<1>. QED BY <1>6, <1>7, <1>8, <1>9, <1>10, <1>11, <1>12, <1>13 DEF IInv, TypeOK

\* The cloud ends what it has begun: nothing refers to what it takes away.
LEMMA CloudProgressKeeps == ASSUME IInv, CloudProgress PROVE IInv'
<1>1. UNCHANGED <<api, memory, pc, queued, owner, secrets, usedUIDs, bounds>>
  BY DEF CloudProgress
<1>2. ApiOK' /\ Stored' /\ CacheLags' /\ P' = P BY <1>1, ApiFrame
<1>3. /\ DepsOK' /\ (drivers' = drivers \/ (drivers = "deleting" /\ drivers' = "gone"))
      /\ \A n \in Name : /\ res'[n] # "absent" => res[n] # "absent"
                         /\ res'[n] = "deleting" => res[n] = "deleting"
                         /\ Standing(n) => Standing(n)'
                         /\ res[n] = "ready" => res'[n] = "ready"
  BY <1>1 DEF CloudProgress, IInv, TypeOK, DepsOK, Standing
<1>4. Held' BY <1>1, <1>2, <1>3 DEF IInv, Held, api
<1>5. WholeStack' BY <1>3, ReferencesAreNames DEF IInv, WholeStack, Standing
<1>6. PICK p \in UIDs : p = P /\ p = P' BY <1>2, Naming
<1>7. LBName(p) \in Name /\ IPName(p) \in Name /\ PoolName(p) \in Name
      /\ \A q \in Ports : SvcName(p, q) \in Name /\ RouteName(p, q) \in Name
  BY NamesExist
<1>8. EndpointIsServed' BY <1>1, <1>3, <1>6, <1>7 DEF IInv, EndpointIsServed, P, api
<1>9. DeletedByDeletion' BY <1>1, <1>3 DEF IInv, DeletedByDeletion, Calm, api
<1>10. PassOK' BY <1>1 DEF IInv, TypeOK, PassOK, memory
<1>11. BaseLags' BY <1>1, <1>2 DEF IInv, BaseLags, Copy, api, memory
<1>12. SnapLags' BY <1>1, <1>3, <1>6, <1>7 DEF IInv, SnapLags, Served, api, memory
<1>13. Loops' /\ TearingDown' BY <1>1, <1>3 DEF IInv, TypeOK, DepsOK, Loops, TearingDown, memory
<1>14. Building' BY <1>1, <1>3, <1>6, <1>7 DEF IInv, Loops, Building, memory
<1>15. SecretsOK' /\ BoundsOK' BY <1>1, OthersType
<1>. QED BY <1>2, <1>3, <1>4, <1>5, <1>8, <1>9, <1>10, <1>11, <1>12, <1>13, <1>14, <1>15
         DEF IInv, TypeOK

-----------------------------------------------------------------------------
(* All steps *)

LEMMA StutterKeeps == ASSUME IInv, UNCHANGED vars PROVE IInv'
<1>. USE DEF vars, memory
<1>1. ApiOK' /\ Stored' /\ CacheLags' /\ P' = P BY ApiFrame
<1>2. DepsOK' /\ Held' /\ WholeStack' /\ EndpointIsServed' BY DepsFrame DEF api
<1>3. DeletedByDeletion' BY CalmFrame DEF api, Calm
<1>4. PassOK' BY DEF IInv, TypeOK, PassOK
<1>5. BaseLags' BY <1>1 DEF IInv, BaseLags, Copy, api
<1>6. SnapLags' BY <1>1 DEF IInv, SnapLags, Served, deps
<1>7. Loops' /\ TearingDown' BY DEF IInv, Loops, TearingDown, deps
<1>8. Building' BY <1>1 DEF IInv, Building, Standing, deps
<1>9. SecretsOK' /\ BoundsOK' BY OthersType
<1>. QED BY <1>1, <1>2, <1>3, <1>4, <1>5, <1>6, <1>7, <1>8, <1>9 DEF IInv, TypeOK

LEMMA InitIInv == Init => IInv
<1>. SUFFICES ASSUME Init PROVE IInv OBVIOUS
<1>. USE DEF Init
<1>1. PICK m \in Managements : obj = NewCluster(FirstUID, m) OBVIOUS
<1>2. /\ obj \in ClusterObject /\ obj.exists /\ ~obj.deleting /\ ~obj.finalizer
      /\ obj.ownerID = None /\ obj.lb = None /\ obj.endpoint = None
  BY <1>1, FirstUIDType, ClusterAssumption
     DEF NewCluster, ClusterObject, ClusterAssumption
<1>3. ~cache.exists /\ ~cache.deleting BY DEF Blank, NewCluster
<1>4. ApiOK /\ PassOK BY <1>2, BlankType DEF ApiOK, PassOK, PCs, Ports
<1>5. DepsOK /\ SecretsOK /\ BoundsOK BY FirstUIDType DEF DepsOK, SecretsOK, BoundsOK
<1>6. Stored /\ CacheLags BY <1>2, <1>3 DEF Stored, CacheLags
<1>7. BaseLags /\ SnapLags /\ Loops /\ Building /\ TearingDown
  BY DEF BaseLags, SnapLags, Loops, Building, TearingDown, DeletePCs
<1>8. Held /\ WholeStack /\ EndpointIsServed /\ DeletedByDeletion
  BY <1>2 DEF Held, WholeStack, EndpointIsServed, DeletedByDeletion
<1>. QED BY <1>4, <1>5, <1>6, <1>7, <1>8 DEF IInv, TypeOK

LEMMA PassKeeps == ASSUME IInv, Pass PROVE IInv'
<1>1. CASE BeginIgnored \/ BeginAdoption \/ BeginNormal \/ BeginDelete \/ PersistID
  BY <1>1, BeginIgnoredKeeps, BeginAdoptionKeeps, BeginNormalKeeps, BeginDeleteKeeps, PersistIDKeeps
<1>2. CASE CopyCredentials \/ GetLB \/ CreateIP \/ AwaitIP \/ CreatePool \/ CreateService
  BY <1>2, CopyCredentialsKeeps, GetLBKeeps, CreateIPKeeps, AwaitIPKeeps, CreatePoolKeeps,
     CreateServiceKeeps
<1>3. CASE CreateRoute \/ CreateLB \/ UseLB \/ Provisioned \/ PatchMetaAndSpec \/ PatchStatus
  BY <1>3, CreateRouteKeeps, CreateLBKeeps, UseLBKeeps, ProvisionedKeeps, PatchMetaAndSpecKeeps,
     PatchStatusKeeps
<1>4. CASE \E g \in InlineSGs : VisitSG(g) BY <1>4, VisitSGKeeps
<1>5. CASE \/ CleanupWorkload \/ DeleteLB \/ ListOwned \/ KindDone \/ DeleteIP
           \/ CheckDeletion \/ Finish
  BY <1>5, CleanupWorkloadKeeps, DeleteLBKeeps, ListOwnedKeeps, KindDoneKeeps, DeleteIPKeeps,
     CheckDeletionKeeps, FinishKeeps
<1>6. CASE \E n \in Name : DeleteListed(n) BY <1>6, DeleteListedKeeps
<1>. QED BY <1>1, <1>2, <1>3, <1>4, <1>5, <1>6, Zenon DEF Pass

LEMMA EnvironmentKeeps == ASSUME IInv, Environment PROVE IInv'
BY CacheSyncKeeps, CrashKeeps, UserDeleteKeeps, UserPauseKeeps, MoveKeeps, CloudProgressKeeps, Zenon
   DEF Environment

\* What a running pass may rely on at each of its calls, whatever users, crashes,
\* moves and the cloud do meanwhile (evroccluster_controller.go, loadbalancer.go).
THEOREM ClusterInductive == Spec => []IInv
<1>1. IInv /\ [Next]_vars => IInv' BY PassKeeps, EnvironmentKeeps, StutterKeeps, Zenon DEF Next
<1>. QED BY <1>1, InitIInv, PTL DEF Spec

-----------------------------------------------------------------------------
(* What follows *)

\* Every variable of the controller's model keeps its type: in particular a pass
\* is always at one of its calls, with an object that it has read.
THEOREM ClusterTypes == Spec => []TypeOK
<1>1. IInv => TypeOK BY DEF IInv
<1>. QED BY <1>1, ClusterInductive, PTL

\* HandleDeletion removes the finalizer only when nothing is left in the cloud,
\* neither of the stack and the groups nor of what the drivers have made.
THEOREM ClusterLeavesNothing == Spec => []NothingLeft
<1>1. IInv => NothingLeft BY DEF IInv, Stored, Held, DeletedByDeletion, NothingLeft
<1>. QED BY <1>1, ClusterInductive, PTL

\* The stack of loadbalancer.go always is what clusterResourcePrefix of the
\* stored object names, labelled with its ownership ID, before and after a move.
THEOREM ClusterStackIsFound == Spec => []FoundByNameAndLabel
<1>1. IInv => FoundByNameAndLabel BY DEF IInv, Stored, Held, FoundByNameAndLabel, P
<1>. QED BY <1>1, ClusterInductive, PTL

\* The endpoint that useLoadBalancer stores is the address of the cluster's one
\* load balancer, which is ready as long as nobody deletes the cluster.
THEOREM ClusterEndpointIsServed == Spec => []EndpointIsServed
<1>1. IInv => EndpointIsServed BY DEF IInv
<1>. QED BY <1>1, ClusterInductive, PTL

\* Create's order and the order of lbResourceKinds: no reference to what is
\* gone, or going, is ever left in the cloud.
THEOREM ClusterStackIsWhole == Spec => []WholeStack
<1>1. IInv => WholeStack BY DEF IInv
<1>. QED BY <1>1, ClusterInductive, PTL

-----------------------------------------------------------------------------
(* What is written once *)

NamesKept ==
    /\ obj.ownerID # None => obj'.ownerID = obj.ownerID
    /\ obj.prefix # None => obj'.prefix = obj.prefix
    /\ obj.endpoint # None => obj'.endpoint = obj.endpoint

\* Few steps write the stored object.
LEMMA Writers ==
    ASSUME Next
    PROVE  \/ UNCHANGED obj
           \/ PersistID \/ PatchMetaAndSpec \/ PatchStatus \/ Finish
           \/ UserDelete \/ UserPause \/ Move
<1>. USE DEF api
<1>1. CASE BeginIgnored \/ BeginAdoption \/ BeginNormal \/ BeginDelete
  BY <1>1, Zenon DEF BeginIgnored, BeginAdoption, BeginNormal, BeginDelete, Begin
<1>2. CASE CopyCredentials \/ GetLB \/ CreateIP \/ AwaitIP \/ CreatePool \/ CreateService
  BY <1>2 DEF CopyCredentials, GetLB, CreateIP, AwaitIP, CreatePool, CreateService
<1>3. CASE CreateRoute \/ CreateLB \/ UseLB \/ Provisioned \/ \E g \in InlineSGs : VisitSG(g)
  BY <1>3 DEF CreateRoute, CreateLB, UseLB, Provisioned, VisitSG
<1>4. CASE CleanupWorkload \/ DeleteLB \/ ListOwned \/ KindDone \/ DeleteIP \/ CheckDeletion
  BY <1>4 DEF CleanupWorkload, DeleteLB, ListOwned, KindDone, DeleteIP, CheckDeletion
<1>5. CASE \E n \in Name : DeleteListed(n) BY <1>5 DEF DeleteListed
<1>6. CASE CacheSync \/ Crash \/ CloudProgress BY <1>6 DEF CacheSync, Crash, Restart, CloudProgress
<1>. QED BY <1>1, <1>2, <1>3, <1>4, <1>5, <1>6, Zenon DEF Next, Pass, Environment

LEMMA PersistIDKeepsNames == ASSUME IInv, PersistID PROVE NamesKept
<1>1. CASE UNCHANGED api BY <1>1 DEF api, NamesKept
<1>2. CASE Store([obj EXCEPT !.finalizer = snap.finalizer, !.ownerID = snap.ownerID])
  <2>1. obj.ownerID = None BY <1>2 DEF PersistID, Store, IInv, BaseLags, Stored
  <2>2. obj \in ClusterObject BY DEF IInv, TypeOK, ApiOK
  <2>3. obj' = [obj EXCEPT !.finalizer = snap.finalizer, !.ownerID = snap.ownerID]
    BY <1>2 DEF Store
  <2>. QED BY <2>1, <2>2, <2>3 DEF ClusterObject, NamesKept
<1>. QED BY <1>1, <1>2 DEF PersistID, Refused

\* What a pass has added to its copy is missing in the stored object, or there
\* with the same value.
LEMMA PatchKeepsNames == ASSUME IInv, PatchMetaAndSpec PROVE NamesKept
<1>. DEFINE x == IF snap.prefix # base.prefix THEN snap.prefix ELSE obj.prefix
            y == IF snap.endpoint # base.endpoint THEN snap.endpoint ELSE obj.endpoint
            o == [obj EXCEPT
                   !.prefix   = IF snap.prefix # base.prefix THEN snap.prefix ELSE @,
                   !.endpoint = IF snap.endpoint # base.endpoint THEN snap.endpoint ELSE @]
<1>1. CASE UNCHANGED api BY <1>1 DEF api, NamesKept
<1>2. CASE Patch(o)
  <2>1. /\ PrefixOf(snap) = P
        /\ snap.endpoint # base.endpoint => base.endpoint = None /\ snap.endpoint = Address(P)
        /\ snap.prefix # base.prefix => base.prefix = None
        /\ obj \in ClusterObject
    BY DEF PatchMetaAndSpec, IInv, SnapLags, TypeOK, ApiOK
  <2>2. obj.prefix # None => obj.prefix = P BY DEF P, PrefixOf
  <2>3. snap.prefix # base.prefix => snap.prefix = P \/ snap.prefix = None BY <2>1 DEF PrefixOf
  <2>4. obj.endpoint # None => obj.endpoint = Address(P) BY DEF IInv, Stored
  <2>5. snap.prefix = None => base.prefix = None BY <2>1
  <2>6. obj.prefix # None => x = obj.prefix BY <2>1, <2>2, <2>3, <2>5
  <2>7. obj.endpoint # None => y = obj.endpoint BY <2>1, <2>4
  <2>8. o = [obj EXCEPT !.prefix = x, !.endpoint = y] BY <2>1 DEF ClusterObject
  <2>. HIDE DEF o, x, y
  <2>9. obj' = o \/ obj' = obj BY <1>2 DEF Patch
  <2>10. o.prefix = x /\ o.endpoint = y /\ o.ownerID = obj.ownerID BY <2>1, <2>8 DEF ClusterObject
  <2>. QED BY <2>6, <2>7, <2>9, <2>10 DEF NamesKept
<1>. HIDE DEF o
<1>. QED BY <1>1, <1>2, Zenon DEF PatchMetaAndSpec, o

LEMMA OthersKeepNames ==
    ASSUME IInv, PatchStatus \/ Finish \/ UserDelete \/ UserPause \/ Move
    PROVE  NamesKept
<1>1. obj \in ClusterObject BY DEF IInv, TypeOK, ApiOK
<1>2. CASE UNCHANGED obj BY <1>2 DEF NamesKept
<1>3. CASE PatchStatus
  <2>1. PICK x, y : \/ obj' = [obj EXCEPT !.ready = x, !.lb = y]
                    \/ UNCHANGED obj
    BY <1>3, Zenon DEF PatchStatus, Patch, api
  <2>. QED BY <1>1, <1>2, <2>1 DEF ClusterObject, NamesKept
<1>4. CASE Finish
  <2>1. obj' = [obj EXCEPT !.finalizer = FALSE, !.exists = FALSE] \/ UNCHANGED obj
    BY <1>4, Zenon DEF Finish, Store, Refused, api
  <2>. QED BY <1>1, <1>2, <2>1 DEF ClusterObject, NamesKept
<1>5. CASE UserDelete BY <1>1, <1>5 DEF UserDelete, Write, ClusterObject, NamesKept
<1>6. CASE UserPause BY <1>1, <1>6 DEF UserPause, Write, ClusterObject, NamesKept
<1>7. CASE Move
  <2>1. PICK u : obj' = [obj EXCEPT !.uid = u, !.ready = FALSE, !.lb = None, !.paused = FALSE]
    BY <1>7, Zenon DEF Move, Restart
  <2>. QED BY <1>1, <2>1 DEF ClusterObject, NamesKept
<1>. QED BY <1>3, <1>4, <1>5, <1>6, <1>7

\* EnsureFinalizer, the deferred patches and clusterctl move: ownership ID,
\* prefix annotation and endpoint are written once, whichever pass is how stale.
THEOREM ClusterNamesAreStable == Spec => NamesAreStable
<1>1. IInv /\ [Next]_vars => [NamesKept]_vars
  BY Writers, PersistIDKeepsNames, PatchKeepsNames, OthersKeepNames DEF NamesKept
<1>. QED BY <1>1, ClusterInductive, PTL DEF Spec, NamesAreStable, NamesKept

=============================================================================
