------------------------------ MODULE Cluster ------------------------------
(***************************************************************************)
(* The EvrocCluster controller (internal/controller/                       *)
(* evroccluster_controller.go) for one cluster, with the load balancer     *)
(* stack it builds and takes down (internal/cloud/loadbalancer.go).        *)
(*                                                                         *)
(* The stack is a graph: a load balancer refers to a public IP and to one  *)
(* route per port, a route to its backend service, a service to the        *)
(* backend pool.  It is built from the leaves up and the cloud takes it    *)
(* down from the root: a delete of what is still referred to conflicts.    *)
(*                                                                         *)
(* Load balancer and IP are found by a name made of the cluster's resource *)
(* prefix, everything else by the capi_cluster-id label.  Prefix and label *)
(* value are annotations of the object; clusterctl move carries them to    *)
(* another management cluster, where the object has a new UID and no       *)
(* status.                                                                 *)
(*                                                                         *)
(* As in Machine every call is a step, and a resourceVersion is the flag   *)
(* "this copy is current".                                                 *)
(***************************************************************************)
EXTENDS Naturals

CONSTANTS
    UIDs,           \* UIDs API servers give the object, one per move
    OwnershipIDs,   \* values uuid.NewString can return
    ExtraPorts,     \* additional ports of the load balancer
    InlineSGs,      \* inline security groups of the spec
    None,           \* the empty string / nil pointer
    Managements,    \* whether the provider owns the control plane endpoint
    OwnIP,          \* ... and its public IP, no existing one being named
    SlowKinds,      \* the kinds of resources that are not ready at once
    MaxFaults,      \* bound: calls that fail although nothing forbids them
    MaxCrashes,     \* bound: restarts of the controller process
    MaxPauses       \* bound: pause toggles by users

API == "kube-apiserver"
Ports == {API} \cup ExtraPorts
UserAddress == "user-address"

\* A cloud resource is a resource prefix, a kind and what tells resources of
\* the kind apart.
LBName(p) == <<p, "lb", "only">>
IPName(p) == <<p, "ip", "only">>
PoolName(p) == <<p, "pool", "only">>
SvcName(p, q) == <<p, "svc", q>>
RouteName(p, q) == <<p, "route", q>>
SGName(p, g) == <<p, "sg", g>>

Name ==
    (UIDs \X {"lb", "ip", "pool"} \X {"only"}) \cup (UIDs \X {"svc", "route"} \X Ports)
        \cup (UIDs \X {"sg"} \X InlineSGs)

Refs(n) ==
    CASE n[2] = "lb" -> {RouteName(n[1], q) : q \in Ports} \cup (IF OwnIP THEN {IPName(n[1])} ELSE {})
      [] n[2] = "route" -> {SvcName(n[1], n[3])}
      [] n[2] = "svc" -> {PoolName(n[1])}
      [] OTHER -> {}

ASSUME ClusterAssumption ==
    /\ UIDs # {} /\ None \notin UIDs /\ UserAddress \notin UIDs \cup {None}
    /\ OwnershipIDs # {} /\ None \notin OwnershipIDs
    /\ API \notin ExtraPorts
    /\ Managements # {} /\ Managements \cup {OwnIP} \subseteq BOOLEAN
    /\ SlowKinds \subseteq {"lb", "ip", "pool", "svc", "route", "sg"}
    /\ {MaxFaults, MaxCrashes, MaxPauses} \subseteq Nat

VARIABLES
    obj,          \* the EvrocCluster in the API server
    cache,        \* the informer's copy of it
    cacheCurrent, \* that copy is the stored version
    base,         \* the running pass's copy as it was read
    snap,         \* ... and as the pass has changed it
    snapCurrent,  \* its resourceVersion is the stored one
    pc,           \* the call the running pass makes next
    item,         \* the port, or the kind of resource, the pass is at
    todo,         \* what the current loop has still to visit
    errs, still,  \* the deletion pass has met an error, something left
    again,        \* what the pass returns after its deferred patch
    queued,       \* the key is in the workqueue, maybe after a delay
    res,          \* cloud state of every resource
    owner,        \* its capi_cluster-id label
    drivers,      \* what the CCM and CSI drivers made in the cloud
    source,       \* the user's credential secret exists in this cluster
    copied,       \* the owned copy of it exists
    usedUIDs,     \* UIDs the object has had
    faults, crashes, pauses

api     == <<obj, cache, cacheCurrent>>
memory  == <<base, snap, snapCurrent, item, todo, errs, still, again>>
deps    == <<res, owner, drivers>>
secrets == <<source, copied>>
bounds  == <<faults, crashes, pauses>>
vars == <<api, memory, pc, queued, deps, secrets, usedUIDs, bounds>>

-----------------------------------------------------------------------------
(* Types *)

ClusterObject ==
    [exists: BOOLEAN, deleting: BOOLEAN, paused: BOOLEAN, finalizer: BOOLEAN,
     uid: UIDs, ownerID: OwnershipIDs \cup {None}, prefix: UIDs \cup {None},
     managed: BOOLEAN, endpoint: UIDs \cup {UserAddress, None},
     \* status:
     ready: BOOLEAN, lb: UIDs \cup {None}]

NewCluster(u, m) ==
    [exists |-> TRUE, deleting |-> FALSE, paused |-> FALSE, finalizer |-> FALSE,
     uid |-> u, ownerID |-> None, prefix |-> None,
     managed |-> m, endpoint |-> None,
     ready |-> FALSE, lb |-> None]

\* UIDs mean nothing, so the first one is as good as any.
FirstUID == CHOOSE u \in UIDs : TRUE
Blank == [NewCluster(FirstUID, TRUE) EXCEPT !.exists = FALSE]

NormalPCs == {"copy", "getLB", "ip", "ipWait", "pool", "svc", "route", "lb", "build", "sgs", "patch", "patchStatus"}
DeletePCs == {"workload", "delLB", "list", "delListed", "delIP", "complete", "recheck"}
PCs == {"idle", "persistID"} \cup NormalPCs \cup DeletePCs

\* What is listed by label.
Kinds == {"route", "svc", "pool", "sg"}

ApiOK == obj \in ClusterObject /\ cache \in ClusterObject /\ cacheCurrent \in BOOLEAN
PassOK ==
    /\ base \in ClusterObject /\ snap \in ClusterObject /\ snapCurrent \in BOOLEAN
    /\ pc \in PCs /\ item \in Ports \cup Kinds
    /\ todo \subseteq Name \cup ExtraPorts \cup InlineSGs
    /\ errs \in BOOLEAN /\ still \in BOOLEAN /\ again \in BOOLEAN /\ queued \in BOOLEAN
DepsOK ==
    /\ res \in [Name -> {"absent", "creating", "ready", "deleting"}]
    /\ owner \in [Name -> OwnershipIDs \cup {None}]
    /\ drivers \in {"present", "deleting", "gone"}
SecretsOK == source \in BOOLEAN /\ copied \in BOOLEAN /\ usedUIDs \subseteq UIDs
BoundsOK == faults \in Nat /\ crashes \in Nat /\ pauses \in Nat

TypeOK == ApiOK /\ PassOK /\ DepsOK /\ SecretsOK /\ BoundsOK

Init ==
    /\ \E m \in Managements : obj = NewCluster(FirstUID, m)
    /\ usedUIDs = {FirstUID}
    /\ cache = Blank /\ cacheCurrent = FALSE
    /\ base = Blank /\ snap = Blank /\ snapCurrent = FALSE
    /\ pc = "idle" /\ item = API /\ todo = {}
    /\ errs = FALSE /\ still = FALSE /\ again = FALSE /\ queued = FALSE
    /\ res = [n \in Name |-> "absent"]
    /\ owner = [n \in Name |-> None]
    /\ drivers = "present"
    /\ source = TRUE /\ copied = FALSE
    /\ faults = 0 /\ crashes = 0 /\ pauses = 0

-----------------------------------------------------------------------------
(* Building blocks of a pass *)

Fault == faults < MaxFaults /\ faults' = faults + 1 /\ UNCHANGED <<crashes, pauses>>

Forget ==
    /\ base' = Blank /\ snap' = Blank /\ snapCurrent' = FALSE
    /\ item' = API /\ todo' = {} /\ errs' = FALSE /\ still' = FALSE /\ again' = FALSE

Return(requeue) == pc' = "idle" /\ queued' = (queued \/ requeue) /\ Forget

Go(l) == pc' = l /\ UNCHANGED <<queued, memory>>

\* On with the call at l for i, or for the things in s.
At(l, i) == pc' = l /\ item' = i /\ UNCHANGED <<queued, base, snap, snapCurrent, todo, errs, still, again>>
Loop(l, s) == pc' = l /\ todo' = s /\ UNCHANGED <<queued, base, snap, snapCurrent, item, errs, still, again>>

\* Mutant: the pass never comes back.
LeaveForGood(s, requeue) ==
    /\ pc' = "patch" /\ snap' = s /\ again' = FALSE
    /\ UNCHANGED <<queued, base, snapCurrent, item, todo, errs, still>>

\* reconcileNormal ends: its object goes out with the deferred patch.
Leave(s, requeue) ==
    /\ pc' = "patch" /\ snap' = s /\ again' = requeue
    /\ UNCHANGED <<queued, base, snapCurrent, item, todo, errs, still>>

\* handleClusterError
Fail == Leave([snap EXCEPT !.ready = FALSE], TRUE)

Store(o) ==
    /\ snapCurrent
    /\ obj' = o /\ cacheCurrent' = (cacheCurrent /\ o = obj) /\ UNCHANGED cache

Refused == (~snapCurrent /\ UNCHANGED <<api, bounds>>) \/ (Fault /\ UNCHANGED api)

\* Mutant: names are made of the UID alone.
PrefixOfUID(o) == o.uid

\* Mutant: the annotation is not looked at.
PrefixOfStatus(o) == IF o.lb # None THEN o.lb ELSE o.uid

\* clusterResourcePrefix: the annotation, else the recorded load balancer's
\* name, else the UID.
PrefixOf(o) == IF o.prefix # None THEN o.prefix ELSE IF o.lb # None THEN o.lb ELSE o.uid
Prefix == PrefixOf(snap)

Address(p) == IF OwnIP THEN p ELSE UserAddress

\* The cloud creates n with the cluster's ownership ID, or answers that n is
\* there already, which Create takes for success.
Make(n) ==
    /\ res' = [res EXCEPT ![n] = IF @ # "absent" THEN @
                                    ELSE IF n[2] \in SlowKinds THEN "creating" ELSE "ready"]
    /\ owner' = [owner EXCEPT ![n] = IF res[n] = "absent" THEN snap.ownerID ELSE @]
    /\ UNCHANGED drivers

\* A creating call of reconcileNormal: it succeeds and the pass goes on, or it
\* fails, with or without effect.
Creates(n, next) ==
    \/ Make(n) /\ next /\ UNCHANGED bounds
    \/ Fault /\ Fail /\ (Make(n) \/ UNCHANGED deps)

\* The cloud deletes what nothing refers to any more; for the rest it answers
\* NotFound or Conflict.
Referred(n) == \E m \in Name : res[m] # "absent" /\ n \in Refs(m)
Delete(n) ==
    /\ res' = [res EXCEPT ![n] = IF @ = "absent" THEN @ ELSE "deleting"]
    /\ UNCHANGED <<owner, drivers>>

\* A deleting call of the teardown: NotFound is fine, any other error is kept
\* and does not stop the pass.
Deletes(n) ==
    \/ ~Referred(n) /\ Delete(n) /\ UNCHANGED <<errs, bounds>>
    \/ Referred(n) /\ res[n] # "absent" /\ errs' = TRUE /\ UNCHANGED <<deps, bounds>>
    \/ Fault /\ errs' = TRUE /\ (UNCHANGED deps \/ (~Referred(n) /\ Delete(n)))

-----------------------------------------------------------------------------
(* Reconcile: what a pass does before reconcileNormal *)

\* Gone, paused, or being deleted without our finalizer: nothing happens.
BeginIgnored ==
    /\ pc = "idle" /\ queued
    /\ ~cache.exists \/ cache.paused \/ (cache.deleting /\ ~cache.finalizer)
    /\ queued' = FALSE
    /\ UNCHANGED <<api, memory, pc, deps, secrets, usedUIDs, bounds>>

\* Mutant: the owned copy of the credentials is not looked at.
BeginWithUserSecret(s, l) ==
    /\ pc = "idle" /\ queued
    /\ cache.exists /\ ~cache.paused /\ source
    /\ pc' = l /\ queued' = FALSE
    /\ base' = cache /\ snap' = s /\ snapCurrent' = cacheCurrent
    /\ UNCHANGED <<api, item, todo, errs, still, again, deps, secrets, usedUIDs, bounds>>

\* resolveCloudClient takes the user's secret, else the owned copy; with
\* neither the pass is retried with nothing done.
Begin(s, l) ==
    /\ pc = "idle" /\ queued
    /\ cache.exists /\ ~cache.paused /\ (source \/ copied)
    /\ pc' = l /\ queued' = FALSE
    /\ base' = cache /\ snap' = s /\ snapCurrent' = cacheCurrent
    /\ UNCHANGED <<api, item, todo, errs, still, again, deps, secrets, usedUIDs, bounds>>

BeginAdoption ==
    /\ ~cache.deleting
    /\ ~cache.finalizer \/ cache.ownerID = None
    /\ \E id \in OwnershipIDs :
          Begin([cache EXCEPT !.finalizer = TRUE,
                              !.ownerID = IF @ = None THEN id ELSE @], "persistID")

\* EnsureFinalizer's Update stores the finalizer and the ownership ID.
PersistID ==
    /\ pc = "persistID"
    /\ \/ /\ Store([obj EXCEPT !.finalizer = snap.finalizer, !.ownerID = snap.ownerID])
          /\ UNCHANGED bounds
       \/ Refused
    /\ Return(TRUE)
    /\ UNCHANGED <<deps, secrets, usedUIDs>>

\* Mutant: a cluster that is being deleted is reconciled like any other.
BeginNormalAlways ==
    /\ cache.finalizer /\ cache.ownerID # None
    /\ Begin(cache, "copy")

BeginNormal ==
    /\ ~cache.deleting /\ cache.finalizer /\ cache.ownerID # None
    /\ Begin(cache, "copy")

\* cleanupResources refuses a cluster without ownership ID.
BeginDelete ==
    /\ cache.deleting /\ cache.finalizer /\ cache.ownerID # None
    /\ Begin(cache, "workload")

-----------------------------------------------------------------------------
(* reconcileNormal *)

\* ensureCredentialSecretCopy; an error is logged and the pass goes on.
CopyCredentials ==
    /\ pc = "copy"
    /\ LET next == IF snap.managed THEN "getLB" ELSE "sgs"
           prefixed == [snap EXCEPT !.prefix = IF snap.managed \/ InlineSGs # {} THEN Prefix ELSE @]
       IN  pc' = next /\ snap' = prefixed /\ todo' = IF snap.managed THEN {} ELSE InlineSGs
    /\ \/ copied' = (copied \/ source) /\ UNCHANGED bounds
       \/ source /\ Fault /\ copied' \in {copied, TRUE}
    /\ UNCHANGED <<api, queued, base, snapCurrent, item, errs, still, again, deps, source, usedUIDs>>

\* reconcileAutoCreatedLoadBalancer asks the cloud, not the status.
GetLB ==
    /\ pc = "getLB"
    /\ \/ res[LBName(Prefix)] = "absent" /\ Go(IF OwnIP THEN "ip" ELSE "ipWait") /\ UNCHANGED bounds
       \/ res[LBName(Prefix)] # "absent" /\ Go("build") /\ UNCHANGED bounds
       \/ Fault /\ Fail
    /\ UNCHANGED <<api, deps, secrets, usedUIDs>>

CreateIP ==
    /\ pc = "ip"
    /\ Creates(IPName(Prefix), Go("ipWait"))
    /\ UNCHANGED <<api, secrets, usedUIDs>>

\* WaitForReady blocks the worker for up to three minutes, also for a user's
\* own IP, which may or may not be ready.
AwaitIP ==
    /\ pc = "ipWait"
    /\ \/ (OwnIP => res[IPName(Prefix)] = "ready") /\ Go("pool")
       \/ (OwnIP => res[IPName(Prefix)] # "ready") /\ Fail
    /\ UNCHANGED <<api, deps, secrets, usedUIDs, bounds>>

CreatePool ==
    /\ pc = "pool"
    /\ Creates(PoolName(Prefix),
              /\ pc' = "svc" /\ item' = API /\ todo' = ExtraPorts
              /\ UNCHANGED <<queued, base, snap, snapCurrent, errs, still, again>>)
    /\ UNCHANGED <<api, secrets, usedUIDs>>

\* A service and a route per port, the API server's first.
CreateService ==
    /\ pc = "svc"
    /\ Creates(SvcName(Prefix, item), Go("route"))
    /\ UNCHANGED <<api, secrets, usedUIDs>>

\* Mutant: the load balancer is created after the first port.
CreateFirstRoute ==
    /\ pc = "route"
    /\ Creates(RouteName(Prefix, item), At("lb", API))
    /\ UNCHANGED <<api, secrets, usedUIDs>>

CreateRoute ==
    /\ pc = "route"
    /\ Creates(RouteName(Prefix, item),
              \/ todo = {} /\ At("lb", API)
              \/ \E q \in todo :
                    /\ pc' = "svc" /\ item' = q /\ todo' = todo \ {q}
                    /\ UNCHANGED <<queued, base, snap, snapCurrent, errs, still, again>>)
    /\ UNCHANGED <<api, secrets, usedUIDs>>

CreateLB ==
    /\ pc = "lb"
    /\ Creates(LBName(Prefix), Go("build"))
    /\ UNCHANGED <<api, secrets, usedUIDs>>

\* buildLoadBalancer, then useLoadBalancer: without an address or an active
\* load balancer the pass ends and comes back.
UseLB ==
    /\ pc = "build"
    /\ LET active == res[LBName(Prefix)] = "ready" /\ (OwnIP => res[IPName(Prefix)] = "ready")
           used == [snap EXCEPT !.lb = Prefix,
                                !.endpoint = IF @ = None THEN Address(Prefix) ELSE @]
       IN  \/ ~active /\ Leave(snap, TRUE) /\ UNCHANGED bounds
           \/ /\ active /\ UNCHANGED bounds
              /\ pc' = "sgs" /\ snap' = used /\ todo' = InlineSGs
              /\ UNCHANGED <<queued, base, snapCurrent, item, errs, still, again>>
           \* the load balancer, or its IP, cannot be read
           \/ Fault /\ (Fail \/ Leave(snap, TRUE))
    /\ UNCHANGED <<api, deps, secrets, usedUIDs>>

\* reconcileSecurityGroups: each inline group is created or updated.
VisitSG(g) ==
    /\ pc = "sgs" /\ g \in todo
    /\ Creates(SGName(Prefix, g), Loop("sgs", todo \ {g}))
    /\ UNCHANGED <<api, secrets, usedUIDs>>

Provisioned ==
    /\ pc = "sgs" /\ todo = {}
    /\ Leave([snap EXCEPT !.ready = TRUE], FALSE)
    /\ UNCHANGED <<api, deps, secrets, usedUIDs, bounds>>

\* The deferred patch sends what the pass has changed, without a
\* resourceVersion: metadata and spec first, then the status.  Either request
\* can fail alone, and then the pass is retried.
Patch(o) ==
    /\ obj' = IF obj.exists THEN o ELSE obj
    /\ cacheCurrent' = (cacheCurrent /\ obj' = obj)
    /\ UNCHANGED cache

PatchMetaAndSpec ==
    /\ pc = "patch"
    /\ \/ /\ Patch([obj EXCEPT
                   !.prefix   = IF snap.prefix # base.prefix THEN snap.prefix ELSE @,
                   !.endpoint = IF snap.endpoint # base.endpoint THEN snap.endpoint ELSE @])
          /\ Go("patchStatus") /\ UNCHANGED bounds
       \/ /\ Fault /\ UNCHANGED api
          /\ pc' = "patchStatus" /\ again' = TRUE
          /\ UNCHANGED <<queued, base, snap, snapCurrent, item, todo, errs, still>>
    /\ UNCHANGED <<deps, secrets, usedUIDs>>

PatchStatus ==
    /\ pc = "patchStatus"
    /\ \/ /\ Patch([obj EXCEPT
                   !.ready = IF snap.ready # base.ready THEN snap.ready ELSE @,
                   !.lb    = IF snap.lb # base.lb THEN snap.lb ELSE @])
          /\ Return(again \/ ~obj.exists) /\ UNCHANGED bounds
       \/ Fault /\ UNCHANGED api /\ Return(TRUE)
    /\ UNCHANGED <<deps, secrets, usedUIDs>>

-----------------------------------------------------------------------------
(* cleanupResources: one round of deletes, then a look at what is left *)

\* WorkloadResources().Cleanup (module WorkloadCleanup): it reports something
\* left until a call finds nothing.
CleanupWorkload ==
    /\ pc = "workload"
    /\ \/ drivers = "gone" /\ UNCHANGED <<deps, errs, still, bounds>>
       \/ /\ drivers # "gone" /\ still' = TRUE /\ UNCHANGED <<errs, bounds>>
          /\ drivers' = "deleting" /\ UNCHANGED <<res, owner>>
       \/ /\ Fault /\ errs' = TRUE /\ UNCHANGED <<res, owner, still>>
          /\ drivers' \in {drivers, IF drivers = "gone" THEN "gone" ELSE "deleting"}
    /\ IF snap.managed THEN pc' = "delLB" /\ item' = item
                       ELSE pc' = "list" /\ item' = "sg"
    /\ UNCHANGED <<api, queued, base, snap, snapCurrent, todo, again, secrets, usedUIDs>>

DeleteLB ==
    /\ pc = "delLB" /\ Deletes(LBName(Prefix))
    /\ pc' = "list" /\ item' = "route"
    /\ UNCHANGED <<api, queued, base, snap, snapCurrent, todo, still, again, secrets, usedUIDs>>

\* lbResourceKinds, "in the order they must be deleted", then the IP; the
\* security groups come after the load balancer has been looked at.
AfterKind(k) ==
    CASE k = "route" -> "svc" [] k = "svc" -> "pool" [] OTHER -> k

ListOwned ==
    /\ pc = "list"
    /\ LET owned == {n \in Name : n[2] = item /\ res[n] # "absent" /\ owner[n] = snap.ownerID}
       IN  \/ todo' = owned /\ UNCHANGED <<errs, bounds>>
           \/ Fault /\ todo' = {} /\ errs' = TRUE
    /\ pc' = "delListed"
    /\ UNCHANGED <<api, queued, base, snap, snapCurrent, item, still, again, deps, secrets, usedUIDs>>

DeleteListed(n) ==
    /\ pc = "delListed" /\ n \in todo /\ Deletes(n)
    /\ todo' = todo \ {n}
    /\ UNCHANGED <<api, pc, queued, base, snap, snapCurrent, item, still, again, secrets, usedUIDs>>

KindDone ==
    /\ pc = "delListed" /\ todo = {}
    /\ \/ item \in {"route", "svc"} /\ At("list", AfterKind(item))
       \/ item = "pool" /\ Go(IF OwnIP THEN "delIP" ELSE "complete")
       \/ item = "sg" /\ Go("recheck")
    /\ UNCHANGED <<api, deps, secrets, usedUIDs, bounds>>

DeleteIP ==
    /\ pc = "delIP" /\ Deletes(IPName(Prefix))
    /\ pc' = "complete"
    /\ UNCHANGED <<api, queued, base, snap, snapCurrent, item, todo, still, again, secrets, usedUIDs>>

\* Mutant: only what carries the label is looked for.
OfStackByLabel(n) == n[2] \in {"route", "svc", "pool"} /\ owner[n] = snap.ownerID

\* DeletionComplete: by name and by label, nothing of the stack is there.  The
\* reads are one step: nothing is created meanwhile.
OfStack(n) ==
    \/ n[1] = Prefix /\ n[2] # "sg" /\ n[3] \in {"only", API} /\ (OwnIP \/ n[2] # "ip")
    \/ n[2] \in {"route", "svc", "pool"} /\ owner[n] = snap.ownerID

\* Mutant: what is left of the stack replaces what is left of the drivers.
CheckDeletionAnew ==
    /\ pc = "complete"
    /\ \/ still' = (\E n \in Name : OfStack(n) /\ res[n] # "absent") /\ UNCHANGED <<errs, bounds>>
       \/ Fault /\ errs' = TRUE /\ UNCHANGED still
    /\ pc' = "list" /\ item' = "sg"
    /\ UNCHANGED <<api, queued, base, snap, snapCurrent, todo, again, deps, secrets, usedUIDs>>

CheckDeletion ==
    /\ pc = "complete"
    /\ \/ still' = (still \/ \E n \in Name : OfStack(n) /\ res[n] # "absent") /\ UNCHANGED <<errs, bounds>>
       \/ Fault /\ errs' = TRUE /\ UNCHANGED still
    /\ pc' = "list" /\ item' = "sg"
    /\ UNCHANGED <<api, queued, base, snap, snapCurrent, todo, again, deps, secrets, usedUIDs>>

\* The recheck of the groups, then HandleDeletion: the finalizer goes only
\* after a round that met no error and found nothing left.
Finish ==
    /\ pc = "recheck"
    /\ LET left == \E n \in Name : n[2] = "sg" /\ res[n] # "absent" /\ owner[n] = snap.ownerID
       IN  \/ (errs \/ still \/ left) /\ Return(TRUE) /\ UNCHANGED <<api, bounds>>
           \/ Fault /\ Return(TRUE) /\ UNCHANGED api
           \/ /\ ~errs /\ ~still /\ ~left /\ UNCHANGED bounds
              /\ Store([obj EXCEPT !.finalizer = FALSE, !.exists = FALSE])
              /\ Return(FALSE)
           \/ ~errs /\ ~still /\ ~left /\ Refused /\ Return(TRUE)
    /\ UNCHANGED <<deps, secrets, usedUIDs>>

-----------------------------------------------------------------------------
(* The environment of the controller *)

CacheSync ==
    /\ ~cacheCurrent
    /\ cache' = obj /\ cacheCurrent' = TRUE /\ queued' = TRUE
    /\ UNCHANGED <<obj, memory, pc, deps, secrets, usedUIDs, bounds>>

\* A controller that starts lists the objects and enqueues them.
Restart(o) ==
    /\ obj' = o /\ cache' = o /\ cacheCurrent' = TRUE
    /\ pc' = "idle" /\ queued' = TRUE /\ Forget

Crash ==
    /\ pc # "idle" /\ crashes < MaxCrashes /\ crashes' = crashes + 1
    /\ Restart(obj)
    /\ UNCHANGED <<deps, secrets, usedUIDs, faults, pauses>>

Write(o) ==
    /\ obj.exists /\ o # obj
    /\ obj' = o /\ cacheCurrent' = FALSE /\ snapCurrent' = FALSE
    /\ UNCHANGED <<cache, base, snap, item, todo, errs, still, again, pc, queued, deps, secrets, usedUIDs>>

UserDelete ==
    /\ ~obj.deleting
    /\ Write([obj EXCEPT !.deleting = TRUE, !.exists = obj.finalizer])
    /\ UNCHANGED bounds

UserPause ==
    /\ pauses < MaxPauses /\ pauses' = pauses + 1
    /\ Write([obj EXCEPT !.paused = ~@])
    /\ UNCHANGED <<faults, crashes>>

\* clusterctl move.  It requires a paused cluster whose infrastructure is
\* provisioned and whose control plane is up, hence a stored endpoint.  The
\* other management cluster gives the object a new UID and has the owned copy
\* of the secret, the user's own only maybe; the old one's pass, if one is
\* running, has nothing to write to any more.  The move unpauses in the end.
Move ==
    /\ obj.exists /\ obj.paused /\ ~obj.deleting /\ obj.ready /\ (obj.managed => obj.endpoint # None)
    /\ \E u \in UIDs \ usedUIDs :
          /\ Restart([obj EXCEPT !.uid = u, !.ready = FALSE, !.lb = None, !.paused = FALSE])
          /\ usedUIDs' = usedUIDs \cup {u}
    /\ source' \in {source, FALSE}
    /\ UNCHANGED <<copied, deps, bounds>>

CloudProgress ==
    /\ \/ /\ \E n \in Name :
               \/ res[n] = "creating" /\ res' = [res EXCEPT ![n] = "ready"]
               \/ res[n] = "deleting" /\ res' = [res EXCEPT ![n] = "absent"]
          /\ UNCHANGED drivers
       \/ drivers = "deleting" /\ drivers' = "gone" /\ UNCHANGED res
    /\ UNCHANGED <<api, memory, pc, queued, owner, secrets, usedUIDs, bounds>>

-----------------------------------------------------------------------------
Pass ==
    \/ BeginIgnored \/ BeginAdoption \/ BeginNormal \/ BeginDelete \/ PersistID
    \/ CopyCredentials \/ GetLB \/ CreateIP \/ AwaitIP \/ CreatePool \/ CreateService
    \/ CreateRoute \/ CreateLB \/ UseLB \/ Provisioned \/ PatchMetaAndSpec \/ PatchStatus
    \/ \E g \in InlineSGs : VisitSG(g)
    \/ CleanupWorkload \/ DeleteLB \/ ListOwned \/ KindDone \/ DeleteIP
    \/ CheckDeletion \/ Finish
    \/ \E n \in Name : DeleteListed(n)

Environment ==
    \/ CacheSync \/ Crash \/ UserDelete \/ UserPause \/ Move \/ CloudProgress

Next == Pass \/ Environment

Spec == Init /\ [][Next]_vars

\* The workqueue runs queued keys, watch events arrive and the cloud finishes
\* what it has begun.  Users, crashes and failures owe nothing.
FairSpec == Spec /\ WF_vars(Pass) /\ WF_vars(CacheSync) /\ WF_vars(CloudProgress)

-----------------------------------------------------------------------------
(* Safety *)

\* Whether the load balancer is provisioned is asked by name and its teardown
\* goes by name, so the stack must be the one that the stored object names, in
\* whatever management cluster it is now; and what teardown finds by label
\* carries the stored ownership ID.  Groups are found by label alone: after a
\* move between the two patches of a pass, old ones can carry another prefix.
FoundByNameAndLabel ==
    obj.exists =>
        \A n \in Name : res[n] # "absent" =>
            /\ n[2] # "sg" => n[1] = PrefixOf(obj)
            /\ owner[n] = obj.ownerID /\ owner[n] # None

\* DeletionComplete and the recheck hold the finalizer "until teardown has
\* actually finished": an object that is gone has left nothing, not even on its
\* way out.
NothingLeft ==
    ~obj.exists => /\ \A n \in Name : res[n] = "absent"
                   /\ obj.ownerID # None => drivers = "gone"

\* The endpoint is written once.  It is the address of the public IP of the
\* one load balancer, which is there as long as nobody deletes the cluster.
EndpointIsServed ==
    obj.endpoint # None =>
        /\ obj.endpoint = Address(PrefixOf(obj))
        /\ obj.exists /\ ~obj.deleting =>
               /\ res[LBName(PrefixOf(obj))] = "ready"
               /\ OwnIP => res[IPName(PrefixOf(obj))] = "ready"

\* The cloud never holds a reference to what is gone, so a teardown never gets
\* stuck behind one, and a load balancer always has its whole stack.
WholeStack ==
    \A n \in Name : res[n] # "absent" => \A m \in Refs(n) : res[m] \in {"creating", "ready"}

\* Prefix, ownership ID and endpoint are never taken back, neither by a stale
\* pass nor by a move.
NamesAreStable ==
    [][/\ obj.ownerID # None => obj'.ownerID = obj.ownerID
       /\ obj.prefix # None => obj'.prefix = obj.prefix
       /\ obj.endpoint # None => obj'.endpoint = obj.endpoint]_vars

(* Refinement: the cluster is a claim on a stack *)

\* The claim is being closed as soon as the controller has seen the deletion
\* and no pass that has begun before it is still building.
phase ==
    CASE ~obj.exists -> "released"
      [] obj.exists /\ ~obj.finalizer -> "unclaimed"
      [] OTHER -> IF cache.deleting /\ pc \in {"idle"} \cup DeletePCs THEN "closing" ELSE "open"

standing == {n \in Name : res[n] \in {"creating", "ready"}}
falling  == {n \in Name : res[n] = "deleting"}
tenants  == drivers # "gone"
Stack == INSTANCE ResourceStack WITH Resource <- Name, Needs <- Refs

\* The controller's passes implement ResourceStack: the stack grows from the
\* leaves up and under the finalizer, a deletion that has begun is never crossed
\* by a pass that builds, what is referred to goes last, and the finalizer after
\* it.
ImplementsStack == Stack!Spec

(* Liveness *)

Stuck == obj.paused \/ ~(source \/ copied)

\* A cluster becomes ready, endpoint included.
BecomesReady ==
    <>(\/ obj.ready /\ (obj.managed => obj.endpoint # None)
       \/ obj.deleting \/ Stuck)

\* However often the cloud answers Conflict while the stack goes down one layer
\* at a time, a deletion finishes.
DeletionCompletes ==
    obj.exists /\ obj.deleting ~> ~obj.exists \/ Stuck

=============================================================================
