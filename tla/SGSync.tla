------------------------------- MODULE SGSync -------------------------------
(***************************************************************************)
(* Security groups of a cluster on the VMs of its machines: the part of    *)
(* the EvrocCluster controller that creates and deletes the groups and     *)
(* tells the machines, and the part of the EvrocMachine controller that    *)
(* gives them to the VMs.                                                  *)
(*                                                                         *)
(* The two share nothing but the API server.  The machine controller reads *)
(* the groups from the cluster's status and does not watch the cluster; it *)
(* runs when its machine changes, so the cluster controller changes an     *)
(* annotation of the machine.  It does so before the status that holds the *)
(* new groups is stored.  The cluster controller in turn runs whenever a   *)
(* machine changes.                                                        *)
(*                                                                         *)
(* A machine controller pass and the cluster controller's pass interleave  *)
(* call by call.  Each object has one key in a workqueue, which runs one   *)
(* pass of a key at a time.                                                *)
(***************************************************************************)
EXTENDS Naturals

CONSTANTS
    Machines,       \* machines that inherit the cluster's groups
    ControlPlanes,  \* those with the control plane label
    Inline,         \* cloud names of groups the provider creates
    Existing,       \* names of groups the user has made
    Specs,          \* what spec.securityGroups may be
    InitialSpecs,   \* what it is at first
    NoConfig,       \* spec.securityGroups = nil
    MaxEdits,       \* bound: edits of spec.securityGroups
    MaxFailures,    \* bound: calls that fail although nothing forbids them,
                    \* and restarts of the process
    MaxEvents       \* bound: edits and failures together

Sections == {"common", "controlPlane", "worker"}
Names == Inline \cup Existing

ASSUME SGSyncAssumption ==
    /\ ControlPlanes \subseteq Machines
    /\ Inline \cap Existing = {}
    /\ Specs \subseteq [Sections -> SUBSET Names] \cup {NoConfig}
    /\ InitialSpecs \subseteq Specs
    /\ {MaxEdits, MaxFailures, MaxEvents} \subseteq Nat

VARIABLES
    cluster,     \* the EvrocCluster in the API server
    cache,       \* the informer's copy of it
    cqueued,     \* its key is in the workqueue
    cpass,       \* the running pass of the cluster controller
    machine,     \* the EvrocMachines in the API server
    cached,      \* the informer's copies of them
    fresh,       \* who has the stored version of a machine: cache, pass, list
    mqueued,     \* machines whose key is in the workqueue
    mpass,       \* the running pass of each machine
    exists,      \* inline groups that exist in the cloud
    up,          \* machines whose VM exists
    vm,          \* its groups
    untold,      \* machines an announcement to which failed and was not repeated
    dropped,     \* machines whose last pass was refused a missing group for good
    rejected,    \* machines whose last pass met another bad request, which is not retried
    abandoned,   \* how the last pass of the cluster met one: not, and stored so, or not
    outdated,    \* a pass has begun with a list that was not the stored one any more
    edits, failures

cvars  == <<cluster, cache, cqueued, cpass>>
mvars  == <<machine, cached, fresh, mqueued, mpass>>
vms    == <<up, vm>>
history == <<untold, dropped, rejected, abandoned, outdated>>
bounds == <<edits, failures>>
vars   == <<cvars, mvars, exists, vms, history, bounds>>

-----------------------------------------------------------------------------
(* Groups *)

\* The list of groups in the status: name and role of each.
Listed(spec) ==
    IF spec = NoConfig THEN {} ELSE UNION {spec[s] \X {s} : s \in Sections}

InList(list) == {n \in Names : \E s \in Sections : <<n, s>> \in list}

Managed(list) == {n \in Inline : \E s \in Sections : <<n, s>> \in list}

Role(m) == IF m \in ControlPlanes THEN "controlPlane" ELSE "worker"

\* What a machine inherits from a list.
clusterSecurityGroupNamesForRole(list, m) ==
    {n \in Names : <<n, "common">> \in list \/ <<n, Role(m)>> \in list}

\* A request that names these groups is one the cloud can serve.
Served(groups) == groups \subseteq exists \cup Existing

-----------------------------------------------------------------------------
(* Types *)

\* A pass keeps nothing when it has ended.
NoPass == [pc |-> "idle"]

Lists == SUBSET (Names \X Sections)
ClusterObject == [spec: Specs, groups: Lists, ready: BOOLEAN, version: Nat]
MachineObject == [hasID: BOOLEAN, ready: BOOLEAN, synced: Nat]

TypeOK ==
    /\ cluster \in ClusterObject /\ cache \in ClusterObject
    /\ cpass \in {NoPass} \cup
                 [pc: {"groups", "stale", "list", "announce", "patch"}, base: ClusterObject,
                  groups: Lists, ready: BOOLEAN, terminal: BOOLEAN, todo: SUBSET (Names \cup Machines)]
    /\ machine \in [Machines -> MachineObject] /\ cached \in [Machines -> MachineObject]
    /\ fresh \in [Machines -> SUBSET {"cache", "pass", "list"}]
    /\ mpass \in [Machines -> {NoPass} \cup [pc: {"vm"}, view: Lists, hasID: BOOLEAN]
                                   \cup [pc: {"status"}]]
    /\ mqueued \subseteq Machines /\ cqueued \in BOOLEAN
    /\ exists \subseteq Inline
    /\ up \subseteq Machines /\ vm \in [Machines -> SUBSET Names]
    /\ untold \subseteq Machines /\ dropped \subseteq Machines /\ rejected \subseteq Machines
    /\ abandoned \in {"no", "reported", "unreported"} /\ outdated \in BOOLEAN
    /\ edits \in Nat /\ failures \in Nat

\* The cluster and some of the machines have been reconciled, the others have
\* just been created.
Init ==
    /\ \E s \in InitialSpecs : cluster = [spec |-> s, groups |-> Listed(s), ready |-> TRUE, version |-> 0]
    /\ cache = cluster /\ cqueued = FALSE /\ cpass = NoPass
    /\ up \in SUBSET Machines
    /\ machine = [m \in Machines |-> [hasID |-> m \in up, ready |-> m \in up, synced |-> 0]]
    /\ cached = machine /\ fresh = [m \in Machines |-> {"cache"}]
    /\ mqueued = Machines \ up /\ mpass = [m \in Machines |-> NoPass]
    /\ exists = Managed(cluster.groups) 
    /\ untold = {} /\ dropped = {} /\ rejected = {} /\ abandoned = "no" /\ outdated = FALSE
    /\ vm = [m \in Machines |-> IF m \in up THEN clusterSecurityGroupNamesForRole(cluster.groups, m) ELSE {}]
    /\ edits = 0 /\ failures = 0

-----------------------------------------------------------------------------
(* The API server and its watches *)

Fault == failures < MaxFailures /\ edits + failures < MaxEvents /\ failures' = failures + 1

\* A write that changes nothing makes no new version.
WriteCluster(new) ==
    cluster' = IF new = cluster THEN cluster ELSE [new EXCEPT !.version = cluster.version + 1]

\* The writer drops its copy.
WriteMachine(m, new, who) ==
    /\ machine' = [machine EXCEPT ![m] = new]
    /\ fresh' = [fresh EXCEPT ![m] = IF new = machine[m] THEN @ \ {who} ELSE {}]

WritesNothing(m, who) == fresh' = [fresh EXCEPT ![m] = @ \ {who}] /\ UNCHANGED machine

\* An event of the cluster queues its key.
ClusterEvent ==
    /\ cache # cluster
    /\ cache' = cluster /\ cqueued' = TRUE
    /\ UNCHANGED <<cluster, cpass, mvars, exists, vms, history, bounds>>

\* Mutant: the cluster controller does not watch machines.
machineToItself(m) ==
    /\ "cache" \notin fresh[m]
    /\ cached' = [cached EXCEPT ![m] = machine[m]] /\ fresh' = [fresh EXCEPT ![m] = @ \cup {"cache"}]
    /\ mqueued' = mqueued \cup {m}
    /\ UNCHANGED <<cluster, cache, cqueued, cpass, machine, mpass, exists, vms, history, bounds>>

\* An event of a machine queues its key and that of the cluster.
machineToCluster(m) ==
    /\ "cache" \notin fresh[m]
    /\ cached' = [cached EXCEPT ![m] = machine[m]] /\ fresh' = [fresh EXCEPT ![m] = @ \cup {"cache"}]
    /\ mqueued' = mqueued \cup {m} /\ cqueued' = TRUE
    /\ UNCHANGED <<cluster, cache, cpass, machine, mpass, exists, vms, history, bounds>>

\* kubectl edit
Edit ==
    /\ edits < MaxEdits /\ edits + failures < MaxEvents /\ edits' = edits + 1
    /\ \E s \in Specs \ {cluster.spec} : WriteCluster([cluster EXCEPT !.spec = s])
    /\ UNCHANGED <<cache, cqueued, cpass, mvars, exists, vms, history, failures>>

\* The process restarts: it lists all objects, and all of them are queued.
Restart ==
    /\ Fault
    /\ cache' = cluster /\ cqueued' = TRUE /\ cpass' = NoPass
    /\ cached' = machine /\ fresh' = [m \in Machines |-> {"cache"}]
    /\ mqueued' = Machines /\ mpass' = [m \in Machines |-> NoPass]
    /\ UNCHANGED <<cluster, machine, exists, vms, history, edits>>

-----------------------------------------------------------------------------
(* EvrocCluster controller: reconcileSecurityGroups *)

\* A pass ends in the deferred patch, with or without an error.
ToPatch(p, ok) == [p EXCEPT !.pc = "patch", !.ready = ok, !.todo = {}]

\* An error of the class of bad requests is terminal.
handleClusterError(p, terminal) == ToPatch([p EXCEPT !.terminal = terminal], FALSE)

\* Mutant: machines are told only when the list changes.
ToListIfChanged(p) ==
    IF p.base.groups = Listed(p.base.spec) THEN ToPatch(p, TRUE)
    ELSE [p EXCEPT !.pc = "list", !.groups = Listed(p.base.spec), !.todo = {}]

\* The new list is set in memory before the machines are told.  Without
\* configuration they are told only if there was a list.
ToList(p) ==
    IF p.base.spec = NoConfig /\ p.base.groups = {} THEN ToPatch(p, TRUE)
    ELSE [p EXCEPT !.pc = "list", !.groups = Listed(p.base.spec), !.todo = {}]

\* Mutant: a group is stale in the section it has left.
deleteStaleEntries(p) ==
    LET stale == Managed(p.base.groups \ Listed(p.base.spec))
    IN  IF stale = {} THEN ToList(p) ELSE [p EXCEPT !.pc = "stale", !.todo = stale]

\* Mutant: without configuration there is nothing to compare with.
deleteStaleIfConfigured(p) ==
    LET stale == IF p.base.spec = NoConfig THEN {} ELSE Managed(p.base.groups) \ Managed(Listed(p.base.spec))
    IN  IF stale = {} THEN ToList(p) ELSE [p EXCEPT !.pc = "stale", !.todo = stale]

deleteStaleSecurityGroups(p) ==
    LET stale == Managed(p.base.groups) \ Managed(Listed(p.base.spec))
    IN  IF stale = {} THEN ToList(p) ELSE [p EXCEPT !.pc = "stale", !.todo = stale]

\* A pass starts from the copy in the cache.  What it does before the groups
\* (the load balancer) may fail.
ReconcileCluster ==
    /\ cpass.pc = "idle" /\ cqueued
    /\ cqueued' = FALSE /\ outdated' = (outdated \/ cache.groups # cluster.groups)
    /\ LET p == [pc |-> "groups", base |-> cache, groups |-> cache.groups, ready |-> cache.ready,
                 terminal |-> FALSE, todo |-> InList(Listed(cache.spec))]
       IN  \/ /\ cpass' = IF p.todo = {} THEN deleteStaleSecurityGroups(p) ELSE p
              /\ UNCHANGED failures
           \/ Fault /\ \E terminal \in BOOLEAN : cpass' = handleClusterError(p, terminal)
    /\ abandoned' = "no"
    /\ UNCHANGED <<cluster, cache, mvars, exists, vms, untold, dropped, rejected, edits>>

\* Section by section: common, controlPlane, worker.
FirstSection ==
    LET named(s) == \E g \in cpass.todo : <<g, s>> \in Listed(cpass.base.spec)
    IN  CHOOSE s \in Sections : named(s) /\ (named("common") => s = "common")
                                         /\ (s = "worker" => ~named("controlPlane"))

IsNext(g) == <<g, FirstSection>> \in Listed(cpass.base.spec)

\* Mutant: the groups of the first section are taken for all.
reconcileFirstSection(g) ==
    /\ cpass.pc = "groups" /\ g \in cpass.todo /\ IsNext(g)
    /\ exists' = exists \cup ({g} \cap Inline)
    /\ LET p == [cpass EXCEPT !.todo = {h \in @ \ {g} : IsNext(h)}]
       IN  cpass' = IF p.todo = {} THEN deleteStaleSecurityGroups(p) ELSE p
    /\ UNCHANGED <<cluster, cache, cqueued, mvars, vms, history, bounds>>

\* An inline group is created or updated, one of the user looked up.
reconcileSecurityGroupSection(g) ==
    /\ cpass.pc = "groups" /\ g \in cpass.todo /\ IsNext(g)
    /\ exists' = exists \cup ({g} \cap Inline)
    /\ LET p == [cpass EXCEPT !.todo = @ \ {g}]
       IN  cpass' = IF p.todo = {} THEN deleteStaleSecurityGroups(p) ELSE p
    /\ UNCHANGED <<cluster, cache, cqueued, mvars, vms, history, bounds>>

DeleteStale(g) ==
    /\ cpass.pc = "stale" /\ g \in cpass.todo
    /\ exists' = exists \ {g}
    /\ LET p == [cpass EXCEPT !.todo = @ \ {g}]
       IN  cpass' = IF p.todo = {} THEN ToList(p) ELSE p
    /\ UNCHANGED <<cluster, cache, cqueued, mvars, vms, history, bounds>>

\* An error ends the pass at once; the list in the status stays as it was.  A
\* bad request has done nothing, a call that failed otherwise may have.
GroupCallFails(g) ==
    /\ cpass.pc \in {"groups", "stale"} /\ g \in cpass.todo /\ Fault
    /\ \/ /\ cpass.pc = "groups" /\ IsNext(g)
          /\ exists' \in {exists, exists \cup ({g} \cap Inline)}
       \/ cpass.pc = "stale" /\ exists' \in {exists, exists \ {g}}
    /\ \E terminal \in BOOLEAN :
          /\ terminal => UNCHANGED exists
          /\ cpass' = handleClusterError(cpass, terminal)
    /\ UNCHANGED <<cluster, cache, cqueued, mvars, vms, history, edits>>

\* The machines are read from the cache.  One without a VM is not told.
ListMachines ==
    /\ cpass.pc = "list"
    /\ LET told == {m \in Machines : cached[m].hasID}
       IN  /\ cpass' = IF told = {} THEN ToPatch(cpass, TRUE) ELSE [cpass EXCEPT !.pc = "announce", !.todo = told]
           /\ fresh' = [m \in Machines |-> IF m \in told /\ "cache" \in fresh[m] THEN fresh[m] \cup {"list"}
                                           ELSE fresh[m]]
    /\ UNCHANGED <<cluster, cache, cqueued, machine, cached, mqueued, mpass, exists, vms, history, bounds>>

\* An error of this List ends the pass too, with the new list.
ListFails ==
    /\ cpass.pc = "list" /\ Fault
    /\ cpass' = handleClusterError(cpass, FALSE)
    /\ UNCHANGED <<cluster, cache, cqueued, mvars, exists, vms, history, edits>>

\* Mutant: the time.
AnnotationOfTime(m) == (machine[m].synced + 1) % 2

\* The annotation is the version of the cluster the pass has read.
Annotation(m) == cpass.base.version

\* A failed update, by a conflict or another error, is logged and forgotten.
reconcileClusterSecurityGroupsOnVMs(m) ==
    /\ cpass.pc = "announce" /\ m \in cpass.todo
    /\ \/ /\ "list" \in fresh[m]
          /\ WriteMachine(m, [machine[m] EXCEPT !.synced = Annotation(m)], "list")
          /\ untold' = untold \ {m} /\ UNCHANGED failures
       \/ /\ "list" \notin fresh[m]
          /\ WritesNothing(m, "list") /\ UNCHANGED <<history, failures>>
       \/ /\ Fault /\ WritesNothing(m, "list")
          /\ untold' = untold \cup {m}
    /\ LET p == [cpass EXCEPT !.todo = @ \ {m}]
       IN  cpass' = IF p.todo = {} THEN ToPatch(p, TRUE) ELSE p
    /\ UNCHANGED <<cluster, cache, cqueued, cached, mqueued, mpass, exists, vms, dropped, rejected, abandoned,
                   outdated, edits>>

\* What is left of a pass that met a terminal error: its status, unless the
\* patch failed as a whole.
Abandoned(stored) ==
    abandoned' = IF ~cpass.terminal THEN "no" ELSE IF stored THEN "reported" ELSE "unreported"

\* Mutant: a failed patch is not tried again.
PatchOnce ==
    /\ cpass.pc = "patch"
    /\ \E stored \in BOOLEAN :
          /\ IF stored THEN UNCHANGED failures ELSE Fault
          /\ IF stored THEN WriteCluster([cluster EXCEPT !.groups = cpass.groups, !.ready = cpass.ready])
             ELSE UNCHANGED cluster
          /\ cqueued' = (cqueued \/ (stored /\ ~cpass.terminal /\ ~cpass.ready))
          /\ Abandoned(stored)
    /\ cpass' = NoPass
    /\ UNCHANGED <<cache, mvars, exists, vms, untold, dropped, rejected, outdated, edits>>

\* The patch sends what the pass has changed, whatever the stored version is.
\* It may fail, as a whole or after it has been stored.  The key is queued
\* again after an error of the pass or of the patch; the error of a patch is
\* joined to that of the pass, and a terminal one stays terminal.
Patch ==
    /\ cpass.pc = "patch"
    /\ \E stored, failed \in BOOLEAN :
          /\ IF failed THEN Fault ELSE stored /\ UNCHANGED failures
          /\ IF stored
             THEN WriteCluster([cluster EXCEPT
                      !.groups = IF cpass.groups = cpass.base.groups THEN @ ELSE cpass.groups,
                      !.ready = IF cpass.ready = cpass.base.ready THEN @ ELSE cpass.ready])
             ELSE UNCHANGED cluster
          /\ cqueued' = (cqueued \/ (~cpass.terminal /\ (failed \/ ~cpass.ready)))
          /\ Abandoned(stored)
    /\ cpass' = NoPass
    /\ UNCHANGED <<cache, mvars, exists, vms, untold, dropped, rejected, outdated, edits>>

ClusterPass ==
    \/ ReconcileCluster \/ ListMachines \/ ListFails \/ Patch
    \/ \E g \in Names : reconcileSecurityGroupSection(g) \/ DeleteStale(g) \/ GroupCallFails(g)
    \/ \E m \in Machines : reconcileClusterSecurityGroupsOnVMs(m)

-----------------------------------------------------------------------------
(* EvrocMachine controller *)

\* A pass reads machine and cluster from the cache once, at its start.
ReconcileMachine(m) ==
    /\ mpass[m].pc = "idle" /\ m \in mqueued
    /\ mqueued' = mqueued \ {m}
    /\ mpass' = [mpass EXCEPT ![m] = [pc |-> "vm", view |-> cache.groups, hasID |-> cached[m].hasID]]
    /\ fresh' = [fresh EXCEPT ![m] = IF "cache" \in @ THEN @ \cup {"pass"} ELSE @]
    /\ dropped' = dropped \ {m} /\ rejected' = rejected \ {m}
    /\ UNCHANGED <<cvars, machine, cached, exists, vms, untold, abandoned, outdated, bounds>>

At(m, pc) == mpass[m].pc = pc
Goto(m, pc) == mpass' = [mpass EXCEPT ![m] = [pc |-> pc]]
EndPass(m) == mpass' = [mpass EXCEPT ![m] = NoPass]
Desired(m) == clusterSecurityGroupNamesForRole(mpass[m].view, m)

\* The VM is created with the groups, and the machine is looked at again.
buildNetworking(m) ==
    /\ At(m, "vm") /\ m \notin up /\ Served(Desired(m))
    /\ up' = up \cup {m} /\ vm' = [vm EXCEPT ![m] = Desired(m)]
    /\ EndPass(m) /\ WritesNothing(m, "pass") /\ mqueued' = mqueued \cup {m}
    /\ UNCHANGED <<cvars, cached, exists, history, bounds>>

\* The groups of an existing VM are changed only once the machine has an ID.
reconcileVMSecurityGroups(m) ==
    /\ At(m, "vm") /\ m \in up
    /\ mpass[m].hasID /\ vm[m] # Desired(m) => Served(Desired(m))
    /\ vm' = [vm EXCEPT ![m] = IF mpass[m].hasID THEN Desired(m) ELSE @]
    /\ Goto(m, "status")
    /\ UNCHANGED <<cvars, machine, cached, fresh, mqueued, exists, up, history, bounds>>

\* handleMachineError: the status is written as far as it can be, and an error
\* of the class of bad requests is not retried.
HandleCloudError(m, terminal) ==
    /\ \/ "pass" \in fresh[m] /\ WriteMachine(m, [machine[m] EXCEPT !.ready = FALSE], "pass")
       \/ WritesNothing(m, "pass")
    /\ mqueued' = IF terminal THEN mqueued ELSE mqueued \cup {m}
    /\ EndPass(m)
    /\ UNCHANGED <<cvars, cached, exists, untold, abandoned, outdated, edits>>

\* External: the cloud refuses a request that names a group that is not there,
\* by an error of one class or another.
RequestRefused(m) ==
    /\ At(m, "vm") /\ ~Served(Desired(m))
    /\ m \notin up \/ (mpass[m].hasID /\ vm[m] # Desired(m))
    /\ \E terminal \in BOOLEAN :
          HandleCloudError(m, terminal) /\ dropped' = IF terminal THEN dropped \cup {m} ELSE dropped
    /\ UNCHANGED <<vms, rejected, failures>>

\* Any call of the pass may fail otherwise.  A bad request has done nothing, a
\* call that failed otherwise may have.
VMCallFails(m) ==
    /\ At(m, "vm") /\ Fault
    /\ \/ HandleCloudError(m, TRUE) /\ rejected' = rejected \cup {m} /\ UNCHANGED vms
       \/ HandleCloudError(m, FALSE) /\ UNCHANGED <<vms, rejected>>
       \/ /\ Served(Desired(m)) /\ (m \in up => mpass[m].hasID)
          /\ HandleCloudError(m, FALSE)
          /\ up' = up \cup {m} /\ vm' = [vm EXCEPT ![m] = Desired(m)] /\ UNCHANGED rejected
    /\ UNCHANGED dropped

\* The status update of a pass that went well; a conflict is retried.
UpdateStatus(m) ==
    /\ At(m, "status")
    /\ \/ /\ "pass" \in fresh[m]
          /\ WriteMachine(m, [machine[m] EXCEPT !.hasID = TRUE, !.ready = TRUE], "pass")
          /\ UNCHANGED <<mqueued, failures>>
       \/ /\ ("pass" \notin fresh[m] /\ UNCHANGED failures) \/ Fault
          /\ WritesNothing(m, "pass") /\ mqueued' = mqueued \cup {m}
    /\ EndPass(m)
    /\ UNCHANGED <<cvars, cached, exists, vms, history, edits>>

MachinePass(m) ==
    \/ ReconcileMachine(m) \/ buildNetworking(m) \/ reconcileVMSecurityGroups(m)
    \/ RequestRefused(m) \/ VMCallFails(m) \/ UpdateStatus(m)

-----------------------------------------------------------------------------
(* Specification *)

Next ==
    \/ Edit \/ Restart \/ ClusterEvent \/ ClusterPass
    \/ \E m \in Machines : machineToCluster(m) \/ MachinePass(m)

Spec == Init /\ [][Next]_vars

\* Watches deliver, and workers go on with every pass.  Users need not edit,
\* and no call need fail.
FairSpec ==
    /\ Spec
    /\ WF_vars(ClusterEvent) /\ WF_vars(ClusterPass)
    /\ \A m \in Machines : WF_vars(machineToCluster(m)) /\ WF_vars(MachinePass(m))

-----------------------------------------------------------------------------
(* Properties *)

\* What the spec asks for, for one machine and in all.
Wanted(m) == clusterSecurityGroupNamesForRole(Listed(cluster.spec), m)
WantedGroups == Managed(Listed(cluster.spec))

\* Nothing is running, queued or on its way, for the cluster and in all.
ClusterQuiet == cpass.pc = "idle" /\ ~cqueued /\ cache = cluster
Quiet ==
    /\ ClusterQuiet
    /\ mqueued = {} /\ \A m \in Machines : mpass[m].pc = "idle" /\ "cache" \in fresh[m]

\* No wake-up is lost: when both controllers have come to rest, every VM has
\* the groups the spec asks for, although the machine controller does not
\* watch the cluster, machines are told before the list is stored, conflicts
\* with the machine controller are ignored and a machine without an ID is not
\* told at all.  Excepted are a configuration that has been removed as a whole,
\* a machine an announcement to which has failed, and what HandleCloudError
\* gives up: a pass of the cluster or of the machine that met a bad request,
\* and one of a machine without an ID that met a group just deleted and was
\* refused for good: nothing wakes it when the new list is there.
QuietIsSettled ==
    Quiet /\ cluster.spec # NoConfig /\ abandoned = "no" =>
        \A m \in Machines \ untold :
            vm[m] = Wanted(m) \/ m \in rejected \/ (m \in dropped /\ ~machine[m].hasID)

\* A cluster at rest that is not as its spec asks says so.  When both
\* controllers have come to rest the status names exactly the groups of the
\* spec, and they exist, whatever was edited, read too early or failed and was
\* tried again; or the last pass met a bad request, which is not tried again
\* (HandleCloudError), and the status is not ready.  Only when the deferred
\* patch of that pass failed too, whose error is joined to one that is not
\* retried, is nothing said of it.
QuietIsListed ==
    Quiet => \/ cluster.groups = Listed(cluster.spec) /\ WantedGroups \subseteq exists
             \/ abandoned = "reported" /\ ~cluster.ready
             \/ abandoned = "unreported"

\* A pass that has read the stored spec deletes none of its groups, not even
\* one that has moved to another section (deleteStaleSecurityGroups compares
\* names, not roles).
DeletesNoWanted ==
    [][cpass.pc = "stale" /\ cpass.base.spec = cluster.spec => WantedGroups \cap exists \subseteq exists']_vars

\* The two controllers, each of which wakes the other, come to rest: telling a
\* machine the version it has been told changes nothing and wakes nobody.  Only
\* where the cluster controller has given up may a machine be tried for ever:
\* its VM is refused as long as the status names a group that is gone.
ComeToRest == <>[](ClusterQuiet /\ (Quiet \/ abandoned # "no"))

\* "deletes cloud resources for inline SGs removed from the spec": no group
\* outlives its place in the spec, however edits and passes interleave, as
\* long as no call fails, no pass is cut short and each pass has read the list
\* the one before it has stored.  (A pass that fails puts none of the groups it
\* has created into the status, and one that has read an old list takes what
\* the last one has created out of it again; if the spec drops them before the
\* next pass, nobody deletes them until the cluster goes.)
RemovedGroupsGo == Quiet /\ failures = 0 /\ ~outdated => exists \subseteq WantedGroups

\* reconcileVMSecurityGroups: when "all groups resolve to empty, the VM's
\* security groups are cleared (not left stale)".  Refuted without any failed
\* call: machines are told that the configuration is gone only once, before
\* the empty list is stored.
ReachesEveryVM ==
    Quiet /\ abandoned = "no" => \A m \in Machines : vm[m] = Wanted(m) \/ m \in untold \cup dropped \cup rejected

-----------------------------------------------------------------------------
(* The inductive invariant: what the cluster controller relies on *)

\* The inline groups a copy of the cluster asks for.
Asked(c) == Managed(Listed(c.spec))

\* Copies lag, and one that has the stored version is the stored object.
Lags(copy, c) == copy.version <= c.version /\ (copy.version = c.version => copy = c)

CopiesLag ==
    /\ Lags(cache, cluster)
    /\ cpass.pc # "idle" => Lags(cpass.base, cache) /\ (cqueued \/ cpass.base = cache)

\* What a pass has done by the time of each call.
Progress ==
    /\ cpass.pc = "groups" =>
         cpass.todo \subseteq Names /\ Asked(cpass.base) \ cpass.todo \subseteq exists
    /\ cpass.pc = "stale" => cpass.todo \cap Asked(cpass.base) = {} /\ Asked(cpass.base) \subseteq exists
    /\ cpass.pc \in {"groups", "stale"} => cpass.groups = cpass.base.groups
    /\ cpass.pc \in {"list", "announce"} \/ (cpass.pc = "patch" /\ cpass.ready) =>
         cpass.groups = Listed(cpass.base.spec) /\ Asked(cpass.base) \subseteq exists
    /\ cpass.pc # "idle" /\ cpass.terminal => cpass.pc = "patch" /\ ~cpass.ready

\* With nothing queued and nothing to be delivered the last pass has read what
\* is stored, and has stored what it found unless it gave up.
Settled ==
    ClusterQuiet =>
        \/ cluster.groups = Listed(cluster.spec) /\ Asked(cluster) \subseteq exists
        \/ abandoned = "reported" /\ ~cluster.ready
        \/ abandoned = "unreported"

\* Every group is in a list that is still to be compared, and nothing is given
\* up without an error.
Accounted ==
    failures = 0 /\ ~outdated =>
        /\ abandoned = "no"
        /\ cpass.pc = "idle" => exists \subseteq Managed(cluster.groups)
        /\ cpass.pc # "idle" => cpass.base.groups = cluster.groups
        /\ cpass.pc = "groups" => exists \subseteq Managed(cluster.groups) \cup Asked(cpass.base)
        /\ cpass.pc = "stale" => exists \subseteq Asked(cpass.base) \cup cpass.todo
        /\ cpass.pc \in {"list", "announce", "patch"} => exists \subseteq Asked(cpass.base)
        /\ cpass.pc = "patch" => cpass.ready

IInv == TypeOK /\ CopiesLag /\ Progress /\ Settled /\ Accounted

-----------------------------------------------------------------------------
(* ... and what a machine can count on to be woken up *)

Told(m) == machine[m].synced = cluster.version

\* No machine is told a version that the cache, or a running pass of the cluster,
\* does not have yet.  One that has been told the stored version is served by
\* every pass to come.
VersionTold(m) ==
    /\ machine[m].synced <= cache.version
    /\ cpass.pc # "idle" => machine[m].synced <= cpass.base.version
    /\ Told(m) => Asked(cluster) \subseteq exists
    /\ "cache" \in fresh[m] => cached[m] = machine[m]

\* A pass of the cluster is running, or is to come, that tells m.
Telling(m) ==
    \/ cqueued \/ cache # cluster
    \/ cpass.pc \in {"groups", "stale", "list"}
    \/ cpass.pc = "announce" /\ m \in cpass.todo /\ "list" \in fresh[m]
    \/ cpass.pc = "patch" /\ ~cpass.ready /\ ~cpass.terminal

\* The pass of the cluster that is ending, or the last one, met a bad request
\* and is not repeated.
GivenUp == IF cpass.pc = "idle" THEN abandoned # "no" ELSE cpass.terminal

\* Whoever has not been told the stored version will be, unless the controller
\* of the cluster has given up.
ToBeTold(m) ==
    machine[m].hasID /\ m \notin untold /\ cluster.spec # NoConfig =>
        Told(m) \/ "cache" \notin fresh[m] \/ Telling(m) \/ GivenUp

\* Whoever has been told it has the groups, or a pass that gives them to the VM
\* is running or to come, unless the last one met a bad request.
ToBeServed(m) ==
    machine[m].hasID /\ Told(m) /\ cluster.groups = Listed(cluster.spec) =>
        \/ "cache" \notin fresh[m] \/ m \in mqueued \/ m \in rejected
        \/ At(m, "vm") /\ mpass[m].hasID /\ mpass[m].view = cluster.groups
        \/ ~At(m, "vm") /\ vm[m] = Wanted(m)

\* A machine gets its ID, unless its last pass was given up.
ToGetAnID(m) ==
    ~machine[m].hasID =>
        "cache" \notin fresh[m] \/ m \in mqueued \/ m \in dropped \cup rejected \/ ~At(m, "idle")

\* Every VM whose groups are not those of the spec has a wake-up on its way, or
\* HandleCloudError has given up on the machine or on the cluster.
WakeUps == \A m \in Machines : VersionTold(m) /\ ToBeTold(m) /\ ToBeServed(m) /\ ToGetAnID(m)

=============================================================================
