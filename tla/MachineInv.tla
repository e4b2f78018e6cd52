----------------------------- MODULE MachineInv -----------------------------
(***************************************************************************)
(* The inductive invariant behind the safety properties of Machine: what a *)
(* running pass may rely on at each of its calls.                          *)
(***************************************************************************)
EXTENDS Machine

\* c is a copy of the stored object, maybe an old one: what is written once is
\* missing or the same, and a deletion is never undone.
Lags(c) ==
    /\ c.ownerID # None => c.ownerID = obj.ownerID
    /\ c.zone # None => c.zone = obj.zone
    /\ c.providerID # None => c.providerID = obj.providerID
    /\ c.deleting => obj.deleting
    /\ c.finalizer => obj.finalizer \/ ~obj.exists

\* The informer's copy.  A deletion that has released the object has been seen
\* by the informer before: only passes over deleting objects release.
CacheLags ==
    /\ cacheCurrent => cache = obj
    /\ Lags(cache)
    /\ cache.exists /\ cache.finalizer /\ ~cache.deleting => obj.exists /\ obj.finalizer
    /\ obj.finalizer => obj.ownerID # None
    /\ cache.provisioned /\ ~ExternalCCM => obj.providerID # None

\* The pass's copy.  What it has not stored yet are the ownership ID and the
\* finalizer at "persistID" and maybe the zone at "fail".
SnapLags ==
    /\ pc \in CreatePCs \cup ExistingPCs \cup DeletePCs => Lags(snap)
    /\ snap.deleting => obj.deleting /\ cache.deleting
    /\ pc \in CreatePCs \cup {"persistID", "fail"} \cup (ExistingPCs \ {"status", "link"}) => ~snap.deleting
    /\ pc = "persistID" => snap.finalizer /\ snap.ownerID # None
    /\ snap.provisioned /\ ~ExternalCCM => obj.providerID # None

\* A write that the API server accepts loses nothing that is written once.
CurrentAgrees ==
    snapCurrent =>
        /\ pc # "idle" /\ obj.exists
        /\ obj.finalizer => snap.finalizer
        /\ obj.ownerID # None => snap.ownerID = obj.ownerID
        /\ obj.zone # None => snap.zone = obj.zone
        /\ snap.providerID = obj.providerID

\* Cloud resources exist only under a stored finalizer.
HeldUnderFinalizer ==
    ~(obj.exists /\ obj.finalizer) =>
        /\ vm.st = "absent"
        /\ \A r \in Resource : ~Present(r)
        /\ ~backend

\* ... with the stored ownership ID and zone.
Labelled ==
    /\ \A r \in Resource : res[r] # "absent" /\ obj.exists =>
          owner[r] = obj.ownerID /\ owner[r] # None
    /\ OneZone

\* Outside data disks only a deletion pass deletes.
DeletedByDeletion ==
    \A r \in Resource \ DataDisks :
        res[r] = "deleting" => cache.deleting /\ (pc = "idle" \/ snap.deleting)

\* A pass that creates: the object is claimed, the zone is known, there is no
\* VM, and what has been visited is there.
Creating ==
    /\ pc \in CreatePCs \cup ExistingPCs => obj.exists /\ obj.finalizer
    /\ pc \in CreatePCs => snap.ownerID = obj.ownerID /\ snap.ownerID # None
    /\ pc \in CreatePCs \ {"pickZone"} => snap.zone # None
    /\ pc \in CreatePCs \ {"pickZone", "getVM"} => vm.st = "absent"
    /\ pc \in {"disks", "stale", "ip", "sgs", "createVM"} => Present(Boot)
    /\ pc = "disks" /\ ~pending => \A d \in (snap.wants \cap DataDisks) \ todo : Present(d)
    /\ pc = "stale" => todo \cap snap.wants = {}
    /\ pc \in {"stale", "ip", "sgs", "createVM"} => \A d \in snap.wants \cap DataDisks : Present(d)
    /\ pc \in {"sgs", "createVM"} /\ IP \in snap.wants => Present(IP)
    /\ pc = "sgs" => \A g \in (snap.wants \cap InlineSGs) \ todo : Present(g)
    /\ pc = "createVM" => \A g \in snap.wants \cap InlineSGs : Present(g)

\* A pass over a VM that was ready.
Linking ==
    /\ vm.st # "absent" => vm.uid \in UIDs
    /\ pc \in ExistingPCs => seen \in UIDs
    /\ pc = "backend" => ControlPlane
    /\ pc = "providerID" => snap.providerID = None /\ ~ExternalCCM
    /\ pc \in {"refetch", "status", "link"} /\ ~ExternalCCM => obj.providerID # None

\* A deletion pass: what has been done so far unless it has met an error.
Deleting ==
    /\ backend => ControlPlane
    /\ pc \in DeletePCs => snap.deleting /\ snap.ownerID = obj.ownerID
    /\ pc \in {"deleteVM", "list", "delOwned"} /\ ~errs => ~backend
    /\ pc \in {"list", "delOwned"} => vm.st = "absent"
    /\ pc = "delOwned" /\ ~errs => \A r \in Resource \ todo : ~Present(r)

IInv ==
    /\ TypeOK
    /\ CacheLags /\ SnapLags /\ CurrentAgrees
    /\ HeldUnderFinalizer /\ Labelled /\ DeletedByDeletion /\ NothingDangling
    /\ Creating /\ Linking /\ Deleting
    /\ ProvisionedHasProviderID /\ NodeLinked

=============================================================================
