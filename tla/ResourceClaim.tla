--------------------------- MODULE ResourceClaim ---------------------------
(***************************************************************************)
(* What a machine promises to whoever pays for the cloud: an abstract      *)
(* specification of ownership by finalizer.                                *)
(*                                                                         *)
(* A claim is made once and released once.  Dependent resources are        *)
(* acquired and the virtual machine is started only under a claim; a       *)
(* dependent is given up only while no virtual machine is running; the     *)
(* claim is released only when nothing is held any more.                   *)
(***************************************************************************)
CONSTANT Resource

VARIABLES
    claim,    \* "unclaimed", "claimed" or "released"
    held,     \* the dependent resources that exist and are not being deleted
    running   \* the virtual machine exists, maybe shutting down

claimVars == <<claim, held, running>>

Init == claim = "unclaimed" /\ held = {} /\ running = FALSE

\* The finalizer is stored.
MakeClaim ==
    /\ claim = "unclaimed" /\ claim' = "claimed"
    /\ UNCHANGED <<held, running>>

Acquire ==
    /\ claim = "claimed"
    /\ \E r \in Resource \ held : held' = held \cup {r}
    /\ UNCHANGED <<claim, running>>

\* Deleting a disk, address or group, or finding out that one is unusable.
GiveUp ==
    /\ claim = "claimed" /\ ~running
    /\ \E r \in held : held' = held \ {r}
    /\ UNCHANGED <<claim, running>>

Start ==
    /\ claim = "claimed" /\ ~running /\ running' = TRUE
    /\ UNCHANGED <<claim, held>>

Stop ==
    /\ claim = "claimed" /\ running /\ running' = FALSE
    /\ UNCHANGED <<claim, held>>

\* The finalizer goes, or the object was deleted before it had one.
Release ==
    /\ claim # "released" /\ claim' = "released"
    /\ ~running /\ held = {}
    /\ UNCHANGED <<held, running>>

Next == MakeClaim \/ Acquire \/ GiveUp \/ Start \/ Stop \/ Release

Spec == Init /\ [][Next]_claimVars

=============================================================================
