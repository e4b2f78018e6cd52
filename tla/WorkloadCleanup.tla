--------------------------- MODULE WorkloadCleanup ---------------------------
(***************************************************************************)
(* WorkloadResources().Cleanup (internal/cloud/workload.go): the removal   *)
(* of what the CCM and CSI drivers made from inside the workload cluster.  *)
(* A cluster's deletion calls it in every pass until a call reports        *)
(* nothing pending; module Cluster keeps only that (variable drivers).     *)
(*                                                                         *)
(* One call lists and deletes one kind of resource after the other.  The   *)
(* cloud accepts a delete before the resource is gone and answers Conflict *)
(* for what is still referred to, so a stack goes down over several calls. *)
(***************************************************************************)
EXTENDS Naturals, Sequences

CONSTANTS
    Services,   \* services of type LoadBalancer, a stack each
    Volumes,    \* CSI volumes, an attachment and a disk each
    MaxFaults   \* bound: calls that fail although nothing forbids them

ASSUME WorkloadAssumption == MaxFaults \in Nat

\* Mutant: the routes are forgotten.
KindsWithoutRoute == <<"lb", "svc", "pool", "ip", "attachment", "disk">>

\* The order in which Cleanup visits the kinds.
Kinds == <<"lb", "route", "svc", "pool", "ip", "attachment", "disk">>

Item == ({"lb", "route", "svc", "pool", "ip"} \X Services) \cup ({"attachment", "disk"} \X Volumes)
OfKind(k) == {n \in Item : n[1] = k}
Refs(n) ==
    CASE n[1] = "lb" -> {<<k, n[2]>> : k \in {"route", "ip"}}
      [] n[1] = "route" -> {<<"svc", n[2]>>}
      [] n[1] = "svc" -> {<<"pool", n[2]>>}
      [] n[1] = "attachment" -> {<<"disk", n[2]>>}
      [] OTHER -> {}

\* What MergeLabels gives a VM, and what Cleanup lists the cluster's VMs by.
VMLabels == {"capi_cluster-name", "capi_role", "capi_provider"}
VMSelector == "capi_cluster-id"

VARIABLES
    res,       \* cloud state of every driver resource
    vms,       \* VMs of the cluster that are shutting down still exist
    annotated, \* the EvrocCluster asks for the deletion of CSI disks
    at,        \* position in Kinds of the running call, 0 when none runs
    todo,      \* listed resources the call has still to delete
    listed,    \* the kind at this position has been listed
    pending,   \* the call has found something
    attached,  \* ... an attachment among it
    asked,     \* the call was told to delete disks
    report,    \* what the last call returned
    faults

call == <<at, todo, listed, pending, attached, asked, report>>
vars == <<res, vms, annotated, call, faults>>

TypeOK ==
    /\ res \in [Item -> {"absent", "present", "deleting"}]
    /\ vms \in BOOLEAN /\ annotated \in BOOLEAN /\ listed \in BOOLEAN /\ pending \in BOOLEAN
    /\ attached \in BOOLEAN /\ asked \in BOOLEAN
    /\ at \in 0..Len(Kinds) /\ todo \subseteq (IF at = 0 THEN {} ELSE OfKind(Kinds[at]))
    /\ report \in {"none", "pending", "failed", "done"}
    /\ faults \in 0..MaxFaults

Init ==
    /\ res \in [Item -> {"absent", "present"}]
    /\ \A n \in Item : res[n] = "present" => \A m \in Refs(n) : res[m] = "present"
    /\ vms \in BOOLEAN /\ annotated \in BOOLEAN
    /\ at = 0 /\ todo = {} /\ listed = FALSE /\ pending = FALSE /\ attached = FALSE /\ asked = FALSE
    /\ report = "none" /\ faults = 0

-----------------------------------------------------------------------------
Return(r) ==
    /\ at' = 0 /\ todo' = {} /\ listed' = FALSE /\ pending' = FALSE /\ attached' = FALSE
    /\ report' = r /\ UNCHANGED asked

Fault == faults < MaxFaults /\ faults' = faults + 1

\* The call starts by looking for the cluster's VMs and waits while it finds one.
Begin ==
    /\ at = 0
    /\ asked' = annotated
    /\ \/ /\ vms /\ VMSelector \in VMLabels
          /\ report' = "pending" /\ UNCHANGED <<at, faults>>
       \/ /\ ~(vms /\ VMSelector \in VMLabels)
          /\ report' = "none" /\ at' = 1 /\ UNCHANGED faults
       \/ Fault /\ report' = "failed" /\ UNCHANGED at
    /\ UNCHANGED <<res, vms, annotated, todo, listed, pending, attached>>

\* Mutant: only the last kind decides what is reported.
ListKindAlone ==
    /\ at # 0 /\ ~listed
    /\ todo' = {n \in OfKind(Kinds[at]) : res[n] # "absent"}
    /\ listed' = TRUE /\ pending' = (todo' # {})
    /\ attached' = (Kinds[at] = "attachment" /\ todo' # {})
    /\ UNCHANGED <<at, asked, report, faults, res, vms, annotated>>

\* deleteOwned lists one kind by the managed-by label; what is on its way out
\* is still listed.
ListKind ==
    /\ at # 0 /\ ~listed
    /\ \/ /\ todo' = {n \in OfKind(Kinds[at]) : res[n] # "absent"}
          /\ listed' = TRUE /\ pending' = (pending \/ todo' # {})
          /\ attached' = (Kinds[at] = "attachment" /\ todo' # {})
          /\ UNCHANGED <<at, asked, report, faults>>
       \/ Fault /\ Return("failed")
    /\ UNCHANGED <<res, vms, annotated>>

\* The cloud refuses to delete what is referred to and to detach a disk from a
\* VM that exists.
Held(n) ==
    \/ \E m \in Item : res[m] # "absent" /\ n \in Refs(m)
    \/ n[1] = "attachment" /\ vms

\* NotFound and Conflict are tolerated, any other error ends the call.
DeleteOwned(n) ==
    /\ n \in todo
    /\ LET gone == [res EXCEPT ![n] = IF @ = "absent" THEN @ ELSE "deleting"]
       IN  \/ /\ res' = IF Held(n) THEN res ELSE gone
              /\ todo' = todo \ {n} /\ UNCHANGED <<at, listed, pending, attached, asked, report, faults>>
           \/ Fault /\ Return("failed") /\ (UNCHANGED res \/ (~Held(n) /\ res' = gone))
    /\ UNCHANGED <<vms, annotated>>

\* Mutant: the annotation is not looked at.
KindDoneUnasked ==
    /\ at # 0 /\ listed /\ todo = {}
    /\ IF Kinds[at] = "disk" \/ (Kinds[at] = "attachment" /\ attached)
       THEN Return(IF pending THEN "pending" ELSE "done")
       ELSE /\ at' = at + 1 /\ listed' = FALSE
            /\ UNCHANGED <<todo, pending, attached, asked, report>>
    /\ UNCHANGED <<res, vms, annotated, faults>>

\* Mutant: an attachment on its way out does not keep the disks.
KindDoneAttached ==
    /\ at # 0 /\ listed /\ todo = {}
    /\ IF Kinds[at] = "disk" \/ (Kinds[at] = "attachment" /\ ~asked)
       THEN Return(IF pending THEN "pending" ELSE "done")
       ELSE /\ at' = at + 1 /\ listed' = FALSE
            /\ UNCHANGED <<todo, pending, attached, asked, report>>
    /\ UNCHANGED <<res, vms, annotated, faults>>

\* A call that has met an attachment, or is not to delete disks, ends before
\* the disks.
KindDone ==
    /\ at # 0 /\ listed /\ todo = {}
    /\ IF Kinds[at] = "disk" \/ (Kinds[at] = "attachment" /\ (attached \/ ~asked))
       THEN Return(IF pending THEN "pending" ELSE "done")
       ELSE /\ at' = at + 1 /\ listed' = FALSE
            /\ UNCHANGED <<todo, pending, attached, asked, report>>
    /\ UNCHANGED <<res, vms, annotated, faults>>

-----------------------------------------------------------------------------
(* The environment *)

CloudProgress ==
    /\ \/ /\ \E n \in Item : res[n] = "deleting" /\ res' = [res EXCEPT ![n] = "absent"]
          /\ UNCHANGED vms
       \/ vms /\ vms' = FALSE /\ UNCHANGED res
    /\ UNCHANGED <<annotated, call, faults>>

UserAnnotates ==
    /\ annotated' = ~annotated
    /\ UNCHANGED <<res, vms, call, faults>>

Pass == Begin \/ ListKind \/ KindDone \/ \E n \in Item : DeleteOwned(n)

Next == Pass \/ CloudProgress \/ UserAnnotates

Spec == Init /\ [][Next]_vars

\* The cluster's deletion calls again until it is told that nothing is pending,
\* and the cloud finishes what it has begun.
FairSpec == Spec /\ WF_vars(Pass) /\ WF_vars(CloudProgress)

-----------------------------------------------------------------------------
\* "Pending stays true until a call finds nothing owned, because the API
\* accepts a delete before the resource has actually disappeared": when a call
\* reports nothing pending, the stacks and attachments are gone from the cloud,
\* and so are the disks if they were to be deleted.
DoneMeansGone ==
    report = "done" =>
        \A n \in Item : n[1] # "disk" \/ asked => res[n] = "absent"

\* A volume's data is given up only by a call that was told to, once the
\* attachment is gone, whatever the annotation says later.
DisksAreKept ==
    [][\A v \in Volumes :
          res[<<"disk", v>>] = "present" /\ res'[<<"disk", v>>] # "present" =>
              asked /\ res[<<"attachment", v>>] = "absent"]_vars

\* The running call has listed the kind of n.
Visited(n) == \E i \in 1 .. at : n[1] = Kinds[i] /\ (i = at => listed)

\* A call that has found nothing has seen that nothing is there, and goes on to
\* the disks only if it was told to and there are no attachments: what the
\* proofs of DoneMeansGone and DisksAreKept rest on.
IInv ==
    /\ TypeOK
    /\ IF at = 0 THEN ~listed ELSE report = "none"
    /\ ~pending => ~attached /\ \A n \in Item : Visited(n) => res[n] = "absent"
    /\ at = 6 /\ listed /\ ~attached => \A n \in OfKind("attachment") : res[n] = "absent"
    /\ at = 7 => asked /\ \A n \in OfKind("attachment") : res[n] = "absent"
    /\ DoneMeansGone

\* The calls come to an end, one layer of the stacks after the other.
CleanupFinishes == <>(report = "done")

\* "A removed Machine does not prove its VM has finished asynchronous deletion"
\* (Cleanup, workload.go:40): while the cluster has VMs nothing is deleted.
WaitsForVMs ==
    [][vms => \A n \in Item : res[n] = "present" => res'[n] = "present"]_vars

=============================================================================
