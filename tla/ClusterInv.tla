----------------------------- MODULE ClusterInv -----------------------------
(***************************************************************************)
(* The inductive invariant behind the safety properties of Cluster: what a *)
(* running pass may rely on at each of its calls.                          *)
(***************************************************************************)
EXTENDS Cluster

Creators == NormalPCs \ {"copy", "patch", "patchStatus"}
StackPCs == {"getLB", "ip", "ipWait", "pool", "svc", "route", "lb", "build"}

\* No pass that builds is running.
Calm == pc = "idle" \/ pc \in DeletePCs

P == PrefixOf(obj)

Standing(n) == res[n] \in {"creating", "ready"}

Served(p) == res[LBName(p)] = "ready" /\ (OwnIP => res[IPName(p)] = "ready")

-----------------------------------------------------------------------------
(* The copies of the object *)

\* c is a copy of the stored object, maybe an old one: what is written once is
\* missing or the same, and it names the same stack.
Copy(c) ==
    /\ c.uid = obj.uid /\ c.managed = obj.managed /\ PrefixOf(c) = P
    /\ c.ownerID # None => c.ownerID = obj.ownerID
    /\ c.prefix # None => c.prefix = obj.prefix
    /\ c.endpoint # None => c.endpoint = obj.endpoint
    /\ c.deleting => obj.deleting
    /\ c.finalizer => (obj.finalizer \/ ~obj.exists) /\ c.ownerID # None

\* An endpoint is stored together with the prefix it was made of.  That is what
\* lets the object be moved: without status and UID it still names its stack.
Stored ==
    /\ obj.finalizer => obj.exists /\ obj.ownerID # None
    /\ obj.exists /\ ~obj.finalizer => obj.ownerID = None
    /\ obj.endpoint # None => obj.prefix # None /\ obj.endpoint = Address(P)
    /\ ~obj.managed => obj.lb = None /\ obj.endpoint = None

\* The informer's copy.  A deletion that has released the object has been seen
\* by the informer before: only passes over deleting objects release.
CacheLags ==
    /\ cacheCurrent => cache = obj
    /\ cache.exists => Copy(cache)
    /\ cache.deleting => obj.deleting
    /\ cache.exists /\ cache.finalizer /\ ~cache.deleting => obj.exists /\ obj.finalizer

\* The pass's copy as it was read.  Only the write of the IDs and the removal of
\* the finalizer carry its resourceVersion.
BaseLags ==
    pc # "idle" =>
        /\ base.exists /\ Copy(base)
        /\ cache.exists \/ ~obj.exists
        /\ snapCurrent /\ (pc = "persistID" \/ pc \in DeletePCs) => obj = base
        /\ pc \in NormalPCs => base.finalizer /\ ~base.deleting /\ obj.exists /\ obj.finalizer
        /\ pc \in DeletePCs => base.finalizer /\ base.deleting /\ cache.deleting
        /\ pc = "persistID" => ~base.finalizer /\ ~base.deleting

\* ... and as the pass has changed it: the IDs before they are stored, then
\* prefix, readiness, load balancer and at last the endpoint.
SnapLags ==
    pc # "idle" =>
        /\ snap.exists /\ snap.uid = base.uid /\ snap.managed = base.managed
        /\ snap.deleting = base.deleting /\ PrefixOf(snap) = P
        /\ snap.finalizer /\ snap.ownerID # None
        /\ base.ownerID # None => snap.ownerID = base.ownerID
        /\ snap.prefix # base.prefix => base.prefix = None /\ pc \in NormalPCs \ {"copy"}
        /\ snap.managed /\ pc \in NormalPCs \ {"copy"} => snap.prefix # None
        /\ pc \in StackPCs => snap.managed
        /\ snap.lb # base.lb => snap.lb = P /\ snap.managed
        /\ snap.endpoint # base.endpoint =>
              /\ pc \in {"sgs", "patch", "patchStatus"}
              /\ base.endpoint = None /\ snap.endpoint = Address(P)
              /\ snap.managed /\ Served(P)

-----------------------------------------------------------------------------
(* The cloud *)

\* Resources exist only under a stored finalizer, with the stored ownership ID,
\* and under the name the stored object gives.
Held ==
    \A n \in Name : res[n] # "absent" =>
        /\ obj.finalizer
        /\ owner[n] = obj.ownerID
        /\ n[2] # "sg" => obj.managed /\ n[1] = P
        /\ n[2] = "ip" => OwnIP

\* Only a deletion deletes, and it is never crossed by a pass that builds.
DeletedByDeletion ==
    /\ \A n \in Name : res[n] = "deleting" => cache.deleting /\ Calm
    /\ drivers # "present" => cache.deleting /\ Calm /\ obj.ownerID # None
    /\ ~obj.exists /\ obj.ownerID # None => drivers = "gone"

-----------------------------------------------------------------------------
(* The progress of a pass *)

\* What the loops have still to visit.
Loops ==
    /\ pc \in {"svc", "route"} => item \in Ports /\ todo \subseteq ExtraPorts
    /\ pc = "sgs" => todo \subseteq InlineSGs
    /\ pc \in {"list", "delListed"} => item \in Kinds
    /\ pc = "delListed" => todo \subseteq Name

\* A pass that builds: the layers below the one it is at are standing.
Building ==
    /\ pc = "ip" => OwnIP
    /\ pc \in {"pool", "svc", "route", "lb"} /\ OwnIP => Standing(IPName(P))
    /\ pc \in {"svc", "route", "lb"} => Standing(PoolName(P))
    /\ pc = "route" => Standing(SvcName(P, item))
    /\ pc \in {"svc", "route"} => \A q \in Ports \ (todo \cup {item}) : Standing(RouteName(P, q))
    /\ pc = "lb" => \A q \in Ports : Standing(RouteName(P, q))

\* A round of deletes that has met no error and found nothing left has nothing
\* left behind it.
TearingDown ==
    pc \in DeletePCs /\ ~errs /\ ~still =>
        /\ pc # "workload" => drivers = "gone"
        /\ pc = "recheck" \/ (pc \in {"list", "delListed"} /\ item = "sg") =>
              \A n \in Name : n[2] # "sg" => res[n] = "absent"

IInv ==
    /\ TypeOK
    /\ Stored /\ CacheLags /\ BaseLags /\ SnapLags
    /\ Held /\ DeletedByDeletion /\ WholeStack /\ EndpointIsServed
    /\ Loops /\ Building /\ TearingDown

=============================================================================
