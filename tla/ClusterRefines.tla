--------------------------- MODULE ClusterRefines ---------------------------
(***************************************************************************)
(* Cluster implements ResourceStack: proved from the inductive invariant.  *)
(***************************************************************************)
EXTENDS ClusterProofs

-----------------------------------------------------------------------------
(* The life of the object *)

\* The object gets its finalizer by the write of the IDs, and loses it, and
\* goes, by the end of a deletion.
LEMMA Life ==
    ASSUME IInv, Next
    PROVE  \/ obj'.exists = obj.exists /\ obj'.finalizer = obj.finalizer
           \/ /\ obj.exists /\ ~obj.finalizer /\ obj'.exists /\ obj'.finalizer
              /\ pc' = "idle" /\ ~cache'.deleting
           \/ obj.exists /\ ~obj.finalizer /\ ~obj'.exists
           \/ phase = "closing" /\ ~obj'.exists
<1>1. obj \in ClusterObject BY DEF IInv, TypeOK, ApiOK
<1>2. CASE UNCHANGED obj BY <1>2
<1>3. CASE PersistID
  <2>1. CASE UNCHANGED api BY <1>2, <2>1 DEF api
  <2>2. CASE Store([obj EXCEPT !.finalizer = snap.finalizer, !.ownerID = snap.ownerID])
    <3>1. obj = base /\ obj.exists /\ ~obj.finalizer /\ ~obj.deleting /\ snap.finalizer
      BY <1>3, <2>2 DEF PersistID, Store, IInv, BaseLags, SnapLags
    <3>2. ~cache.deleting BY <3>1 DEF IInv, CacheLags
    <3>3. /\ obj' = [obj EXCEPT !.finalizer = snap.finalizer, !.ownerID = snap.ownerID]
          /\ cache' = cache /\ pc' = "idle"
      BY <1>3, <2>2 DEF PersistID, Store, Return
    <3>. QED BY <1>1, <3>1, <3>2, <3>3 DEF ClusterObject
  <2>. QED BY <1>3, <2>1, <2>2 DEF PersistID, Refused
<1>4. CASE PatchMetaAndSpec
  <2>1. PICK x, y : obj' = [obj EXCEPT !.prefix = x, !.endpoint = y] \/ UNCHANGED obj
    BY <1>4, Zenon DEF PatchMetaAndSpec, Patch, api
  <2>. QED BY <1>1, <2>1 DEF ClusterObject
<1>5. CASE PatchStatus
  <2>1. PICK x, y : obj' = [obj EXCEPT !.ready = x, !.lb = y] \/ UNCHANGED obj
    BY <1>5, Zenon DEF PatchStatus, Patch, api
  <2>. QED BY <1>1, <2>1 DEF ClusterObject
<1>6. CASE Finish
  <2>1. CASE UNCHANGED obj BY <1>2, <2>1
  <2>2. CASE Store([obj EXCEPT !.finalizer = FALSE, !.exists = FALSE])
    <3>1. pc \in DeletePCs /\ cache.deleting /\ obj.exists /\ obj.finalizer
      BY <1>6, <2>2, DeletionPass DEF Finish, Store, IInv, BaseLags, DeletePCs
    <3>2. phase = "closing" BY <3>1 DEF phase
    <3>3. ~obj'.exists BY <1>1, <2>2 DEF Store, ClusterObject
    <3>. QED BY <3>2, <3>3
  <2>. QED BY <1>6, <2>1, <2>2, Zenon DEF Finish, Refused, api
<1>7. CASE UserDelete BY <1>1, <1>7 DEF UserDelete, Write, ClusterObject
<1>8. CASE UserPause BY <1>1, <1>8 DEF UserPause, Write, ClusterObject
<1>9. CASE Move
  <2>1. PICK u : obj' = [obj EXCEPT !.uid = u, !.ready = FALSE, !.lb = None, !.paused = FALSE]
    BY <1>9, Zenon DEF Move, Restart
  <2>. QED BY <1>1, <2>1 DEF ClusterObject
<1>. QED BY <1>2, <1>3, <1>4, <1>5, <1>6, <1>7, <1>8, <1>9, Writers

\* Once the controller has seen the deletion and no pass that builds is left,
\* none begins.
LEMMA StaysClosing ==
    ASSUME IInv, Next, cache.deleting, Calm, obj.exists
    PROVE  cache'.deleting /\ Calm'
<1>1. obj.deleting BY DEF IInv, CacheLags
<1>. USE DEF Calm
<1>2. CASE BeginIgnored \/ BeginAdoption \/ BeginNormal \/ BeginDelete
  BY <1>2, Zenon DEF BeginIgnored, BeginAdoption, BeginNormal, BeginDelete, Begin, api, DeletePCs
<1>3. CASE \/ PersistID \/ CopyCredentials \/ GetLB \/ CreateIP \/ AwaitIP \/ CreatePool
           \/ CreateService \/ CreateRoute \/ CreateLB \/ UseLB \/ Provisioned
           \/ PatchMetaAndSpec \/ PatchStatus \/ \E g \in InlineSGs : VisitSG(g)
  BY <1>3 DEF PersistID, CopyCredentials, GetLB, CreateIP, AwaitIP, CreatePool, CreateService,
     CreateRoute, CreateLB, UseLB, Provisioned, PatchMetaAndSpec, PatchStatus, VisitSG, DeletePCs
<1>4. CASE CleanupWorkload \/ DeleteLB \/ ListOwned \/ DeleteIP \/ CheckDeletion
  BY <1>4 DEF CleanupWorkload, DeleteLB, ListOwned, DeleteIP, CheckDeletion, api, DeletePCs
<1>5. CASE KindDone BY <1>5 DEF KindDone, At, Go, api, DeletePCs
<1>6. CASE \E n \in Name : DeleteListed(n) BY <1>6 DEF DeleteListed, api, DeletePCs
<1>7. CASE Finish BY <1>7 DEF Finish, Store, Refused, Return, api
<1>8. CASE CacheSync \/ Crash \/ CloudProgress
  BY <1>1, <1>8 DEF CacheSync, Crash, Restart, CloudProgress, api
<1>9. CASE UserDelete \/ UserPause BY <1>9 DEF UserDelete, UserPause, Write
<1>10. CASE Move BY <1>1, <1>10 DEF Move
<1>. QED BY <1>2, <1>3, <1>4, <1>5, <1>6, <1>7, <1>8, <1>9, <1>10, Zenon DEF Next, Pass, Environment

\* Nothing but the phase of the claim changes.
LEMMA PhaseStep ==
    ASSUME IInv, IInv', Next, UNCHANGED <<standing, falling, tenants>>
    PROVE  [Stack!Next]_(Stack!stackVars)
<1>. USE DEF Stack!stackVars, Stack!Next
<1>1. CASE UNCHANGED phase BY <1>1
<1>2. CASE phase = "unclaimed" /\ phase' = "open" BY <1>2 DEF Stack!Open
<1>3. CASE phase = "open" /\ phase' = "closing" BY <1>3 DEF Stack!Close
<1>4. CASE phase \in {"unclaimed", "closing"} /\ phase' = "released"
  <2>1. ~obj'.exists BY <1>4 DEF phase
  <2>2. \A n \in Name : res'[n] = "absent" BY <2>1 DEF IInv, Stored, Held
  <2>3. standing' = {} /\ falling' = {} BY <2>2 DEF standing, falling
  <2>4. ASSUME phase = "closing" PROVE ~tenants'
    <3>1. obj.ownerID # None BY <2>4 DEF phase, IInv, Stored
    <3>2. obj'.ownerID # None
      BY <3>1, Writers, PersistIDKeepsNames, PatchKeepsNames, OthersKeepNames DEF NamesKept
    <3>. QED BY <2>1, <3>2 DEF IInv, DeletedByDeletion, tenants
  <2>. QED BY <1>4, <2>3, <2>4 DEF Stack!Release
<1>5. \/ UNCHANGED phase
      \/ phase = "unclaimed" /\ phase' = "open"
      \/ phase = "open" /\ phase' = "closing"
      \/ phase \in {"unclaimed", "closing"} /\ phase' = "released"
  <2>1. CASE obj'.exists = obj.exists /\ obj'.finalizer = obj.finalizer
    <3>1. CASE obj.exists /\ cache.deleting /\ Calm
      BY <2>1, <3>1, StaysClosing DEF phase, Calm
    <3>2. CASE ~(obj.exists /\ cache.deleting /\ Calm)
      BY <2>1, <3>2 DEF phase, Calm
    <3>. QED BY <3>1, <3>2
  <2>2. CASE ~(obj'.exists = obj.exists /\ obj'.finalizer = obj.finalizer)
    BY <2>2, Life DEF phase
  <2>. QED BY <2>1, <2>2
<1>. QED BY <1>1, <1>2, <1>3, <1>4, <1>5

-----------------------------------------------------------------------------
(* The cloud *)

LEMMA NothingRefersToItself == ASSUME NEW n \in Name PROVE n \notin Refs(n)
BY NameKinds, References, NameParts

\* A creating call raises what is not there yet, on what is standing.
LEMMA MakeRaises ==
    ASSUME IInv, IInv', pc \in NormalPCs, pc' \in NormalPCs, UNCHANGED <<obj, cache>>,
           NEW n \in Name, Make(n)
    PROVE  [Stack!Next]_(Stack!stackVars)
<1>1. phase = "open" /\ phase' = "open"
  BY DEF IInv, BaseLags, phase, NormalPCs, DeletePCs
<1>2. DepsOK /\ snap.ownerID \in OwnershipIDs \cup {None}
  BY DEF IInv, TypeOK, PassOK, ClusterObject
<1>3. /\ UNCHANGED drivers
      /\ \A m \in Name \ {n} : res'[m] = res[m]
      /\ res[n] # "absent" => res'[n] = res[n]
      /\ res[n] = "absent" => res'[n] \in {"creating", "ready"}
  BY <1>2, MakeMakes
<1>4. CASE res[n] # "absent"
  <2>1. \A m \in Name : res'[m] = res[m] BY <1>3, <1>4
  <2>. QED BY <1>1, <1>3, <2>1 DEF Stack!stackVars, standing, falling, tenants
<1>5. CASE res[n] = "absent"
  <2>1. standing' = standing \cup {n} BY <1>3, <1>5 DEF standing
  <2>2. falling' = falling BY <1>3, <1>5 DEF falling
  <2>3. n \notin standing \cup falling BY <1>5 DEF standing, falling
  <2>4. Refs(n) \subseteq standing
    <3>1. \A m \in Refs(n) : m \in Name /\ m # n BY ReferencesAreNames, NothingRefersToItself
    <3>2. \A m \in Refs(n) : res'[m] \in {"creating", "ready"} BY <1>3, <1>5 DEF IInv, WholeStack
    <3>. QED BY <1>3, <3>1, <3>2 DEF standing
  <2>5. Stack!Raise(n) BY <1>1, <1>3, <2>1, <2>2, <2>3, <2>4 DEF Stack!Raise, tenants
  <2>. QED BY <2>5 DEF Stack!Next
<1>. QED BY <1>4, <1>5

\* A delete that the cloud takes drops what nothing refers to any more.
LEMMA DeleteDrops ==
    ASSUME IInv, pc \in DeletePCs, pc' \in DeletePCs, UNCHANGED <<obj, cache>>,
           NEW n \in Name, ~Referred(n), Delete(n)
    PROVE  [Stack!Next]_(Stack!stackVars)
<1>1. phase' = phase BY DEF phase
<1>2. /\ UNCHANGED drivers
      /\ \A m \in Name \ {n} : res'[m] = res[m]
      /\ res[n] = "absent" => res'[n] = "absent"
      /\ res[n] # "absent" => res'[n] = "deleting"
  BY DEF Delete, IInv, TypeOK, DepsOK
<1>3. CASE n \notin standing
  <2>1. \A m \in Name : res'[m] = res[m] BY <1>2, <1>3 DEF standing, IInv, TypeOK, DepsOK
  <2>. QED BY <1>1, <1>2, <2>1 DEF Stack!stackVars, standing, falling, tenants
<1>4. CASE n \in standing
  <2>1. phase = "closing" BY <1>4, DeletionPass DEF standing, IInv, Held, Stored, phase
  <2>2. standing' = standing \ {n} /\ falling' = falling \cup {n}
    BY <1>2, <1>4 DEF standing, falling
  <2>3. \A m \in standing \cup falling : n \notin Refs(m) BY DEF Referred, standing, falling
  <2>4. Stack!Drop(n) BY <1>1, <1>2, <1>4, <2>1, <2>2, <2>3 DEF Stack!Drop, tenants
  <2>. QED BY <2>4 DEF Stack!Next
<1>. QED BY <1>3, <1>4

LEMMA ProgressVanishes == ASSUME IInv, CloudProgress PROVE [Stack!Next]_(Stack!stackVars)
<1>. USE DEF Stack!Next, Stack!stackVars
<1>1. phase' = phase BY DEF CloudProgress, phase, api
<1>2. DepsOK BY DEF IInv, TypeOK
<1>3. ASSUME NEW n \in Name, res[n] = "creating", res' = [res EXCEPT ![n] = "ready"], UNCHANGED drivers
      PROVE  UNCHANGED Stack!stackVars
  BY <1>1, <1>2, <1>3 DEF DepsOK, standing, falling, tenants
<1>4. ASSUME NEW n \in Name, res[n] = "deleting", res' = [res EXCEPT ![n] = "absent"], UNCHANGED drivers
      PROVE  Stack!Vanish(n)
  BY <1>1, <1>2, <1>4 DEF DepsOK, standing, falling, tenants, Stack!Vanish
<1>5. ASSUME drivers = "deleting", drivers' = "gone", UNCHANGED res PROVE Stack!Evict
  <2>1. cache.deleting /\ Calm /\ obj.ownerID # None /\ obj.exists
    BY <1>5 DEF IInv, DeletedByDeletion
  <2>2. phase = "closing" BY <2>1 DEF phase, Calm, IInv, Stored
  <2>. QED BY <1>1, <1>5, <2>2 DEF standing, falling, tenants, Stack!Evict
<1>. QED BY <1>3, <1>4, <1>5 DEF CloudProgress

\* Whatever else a step does, it does one thing in the cloud.
LEMMA CloudSteps ==
    ASSUME IInv, Next
    PROVE  \/ UNCHANGED <<standing, falling, tenants>>
           \/ /\ pc \in NormalPCs /\ pc' \in NormalPCs /\ UNCHANGED <<obj, cache>>
              /\ \E n \in Name : Make(n)
           \/ /\ pc \in DeletePCs /\ pc' \in DeletePCs /\ UNCHANGED <<obj, cache>>
              /\ \E n \in Name : ~Referred(n) /\ Delete(n)
           \/ CloudProgress
<1>1. CASE UNCHANGED <<res, tenants>> BY <1>1 DEF standing, falling
<1>2. ASSUME UNCHANGED deps PROVE UNCHANGED <<standing, falling, tenants>>
  BY <1>2 DEF deps, standing, falling, tenants
<1>3. CASE \/ BeginIgnored \/ BeginAdoption \/ BeginNormal \/ BeginDelete \/ PersistID
           \/ CopyCredentials \/ GetLB \/ AwaitIP \/ UseLB \/ Provisioned
           \/ PatchMetaAndSpec \/ PatchStatus
  BY <1>2, <1>3, Zenon DEF BeginIgnored, BeginAdoption, BeginNormal, BeginDelete, Begin, PersistID,
     CopyCredentials, GetLB, AwaitIP, UseLB, Provisioned, PatchMetaAndSpec, PatchStatus
<1>4. CASE ListOwned \/ KindDone \/ CheckDeletion \/ Finish
  BY <1>2, <1>4, Zenon DEF ListOwned, KindDone, CheckDeletion, Finish
<1>5. CASE CacheSync \/ Crash \/ UserDelete \/ UserPause \/ Move
  BY <1>2, <1>5, Zenon DEF CacheSync, Crash, UserDelete, UserPause, Write, Move
<1>6. CASE CleanupWorkload
  <2>1. UNCHANGED res /\ UNCHANGED tenants BY <1>6 DEF CleanupWorkload, tenants, deps
  <2>. QED BY <1>1, <2>1
<1>7. CASE CreateIP
  <2>1. PICK n \in Name : n = IPName(Prefix)
    BY <1>7, Naming, NamesExist DEF CreateIP
  <2>2. pc \in NormalPCs /\ pc' \in NormalPCs /\ UNCHANGED api /\ (Make(n) \/ UNCHANGED deps)
    BY <1>7, <2>1 DEF CreateIP, Creates, Fail, Leave, Go, NormalPCs
  <2>. QED BY <1>2, <2>2 DEF api
<1>8. CASE CreatePool
  <2>1. PICK n \in Name : n = PoolName(Prefix)
    BY <1>8, Naming, NamesExist DEF CreatePool
  <2>2. pc \in NormalPCs /\ pc' \in NormalPCs /\ UNCHANGED api /\ (Make(n) \/ UNCHANGED deps)
    BY <1>8, <2>1 DEF CreatePool, Creates, Fail, Leave, Go, NormalPCs
  <2>. QED BY <1>2, <2>2 DEF api
<1>9. CASE CreateService
  <2>1. PICK n \in Name : n = SvcName(Prefix, item)
    BY <1>9, Naming, NamesExist DEF CreateService, IInv, Loops
  <2>2. pc \in NormalPCs /\ pc' \in NormalPCs /\ UNCHANGED api /\ (Make(n) \/ UNCHANGED deps)
    BY <1>9, <2>1 DEF CreateService, Creates, Fail, Leave, Go, NormalPCs
  <2>. QED BY <1>2, <2>2 DEF api
<1>10. CASE CreateRoute
  <2>1. PICK n \in Name : n = RouteName(Prefix, item)
    BY <1>10, Naming, NamesExist DEF CreateRoute, IInv, Loops
  <2>2. pc \in NormalPCs /\ pc' \in NormalPCs /\ UNCHANGED api /\ (Make(n) \/ UNCHANGED deps)
    BY <1>10, <2>1 DEF CreateRoute, Creates, Fail, Leave, Go, At, NormalPCs
  <2>. QED BY <1>2, <2>2 DEF api
<1>11. CASE CreateLB
  <2>1. PICK n \in Name : n = LBName(Prefix)
    BY <1>11, Naming, NamesExist DEF CreateLB
  <2>2. pc \in NormalPCs /\ pc' \in NormalPCs /\ UNCHANGED api /\ (Make(n) \/ UNCHANGED deps)
    BY <1>11, <2>1 DEF CreateLB, Creates, Fail, Leave, Go, NormalPCs
  <2>. QED BY <1>2, <2>2 DEF api
<1>12. ASSUME NEW g \in InlineSGs, VisitSG(g)
       PROVE  \/ UNCHANGED <<standing, falling, tenants>>
              \/ /\ pc \in NormalPCs /\ pc' \in NormalPCs /\ UNCHANGED <<obj, cache>>
                 /\ \E n \in Name : Make(n)
  <2>1. PICK n \in Name : n = SGName(Prefix, g) BY <1>12, Naming, NamesExist DEF VisitSG
  <2>2. pc \in NormalPCs /\ pc' \in NormalPCs /\ UNCHANGED api /\ (Make(n) \/ UNCHANGED deps)
    BY <1>12, <2>1 DEF VisitSG, Creates, Fail, Leave, Loop, NormalPCs
  <2>. QED BY <1>2, <2>2 DEF api
<1>13. CASE DeleteLB
  <2>1. PICK n \in Name : n = LBName(Prefix) BY <1>13, Naming, NamesExist DEF DeleteLB
  <2>2. /\ pc \in DeletePCs /\ pc' \in DeletePCs /\ UNCHANGED api
        /\ (~Referred(n) /\ Delete(n)) \/ UNCHANGED deps
    BY <1>13, <2>1 DEF DeleteLB, Deletes, DeletePCs
  <2>. QED BY <1>2, <2>2 DEF api
<1>14. CASE DeleteIP
  <2>1. PICK n \in Name : n = IPName(Prefix) BY <1>14, Naming, NamesExist DEF DeleteIP
  <2>2. /\ pc \in DeletePCs /\ pc' \in DeletePCs /\ UNCHANGED api
        /\ (~Referred(n) /\ Delete(n)) \/ UNCHANGED deps
    BY <1>14, <2>1 DEF DeleteIP, Deletes, DeletePCs
  <2>. QED BY <1>2, <2>2 DEF api
<1>15. ASSUME NEW n \in Name, DeleteListed(n)
       PROVE  \/ UNCHANGED <<standing, falling, tenants>>
              \/ /\ pc \in DeletePCs /\ pc' \in DeletePCs /\ UNCHANGED <<obj, cache>>
                 /\ \E m \in Name : ~Referred(m) /\ Delete(m)
  <2>1. /\ pc \in DeletePCs /\ pc' \in DeletePCs /\ UNCHANGED api
        /\ (~Referred(n) /\ Delete(n)) \/ UNCHANGED deps
    BY <1>15 DEF DeleteListed, Deletes, DeletePCs
  <2>. QED BY <1>2, <2>1 DEF api
<1>16. CASE CreateRoute \/ CreateLB \/ \E g \in InlineSGs : VisitSG(g) BY <1>10, <1>11, <1>12, <1>16
<1>17. CASE \E n \in Name : DeleteListed(n) BY <1>15, <1>17
<1>. QED BY <1>3, <1>4, <1>5, <1>6, <1>7, <1>8, <1>9, <1>13, <1>14, <1>16, <1>17, Zenon
         DEF Next, Pass, Environment

-----------------------------------------------------------------------------

LEMMA StepRefinesStack ==
    ASSUME IInv, IInv', [Next]_vars PROVE [Stack!Next]_(Stack!stackVars)
<1>1. CASE UNCHANGED vars
  BY <1>1 DEF vars, api, deps, Stack!stackVars, phase, standing, falling, tenants
<1>2. CASE Next BY <1>2, CloudSteps, PhaseStep, MakeRaises, DeleteDrops, ProgressVanishes
<1>. QED BY <1>1, <1>2

LEMMA InitRefinesStack == Init => Stack!Init
<1>. SUFFICES ASSUME Init PROVE Stack!Init OBVIOUS
<1>1. obj.exists /\ ~obj.finalizer BY DEF Init, NewCluster
<1>2. phase = "unclaimed" BY <1>1 DEF phase
<1>3. standing = {} /\ falling = {} /\ tenants
  BY DEF Init, standing, falling, tenants
<1>. QED BY <1>2, <1>3 DEF Stack!Init

\* The controller keeps the promise of ResourceStack: nothing is built before the
\* finalizer is stored nor once a deletion has begun, everything is built on what
\* stands and taken down from the root, and the finalizer goes last.
THEOREM ClusterRefinesStack == Spec => ImplementsStack
<1>1. IInv /\ IInv' /\ [Next]_vars => [Stack!Next]_(Stack!stackVars) BY StepRefinesStack
<1>. QED BY <1>1, InitRefinesStack, ClusterInductive, PTL DEF Spec, ImplementsStack, Stack!Spec

=============================================================================
