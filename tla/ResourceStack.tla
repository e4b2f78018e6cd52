--------------------------- MODULE ResourceStack ---------------------------
(***************************************************************************)
(* What a cluster promises to whoever pays for the cloud: an abstract      *)
(* specification of a stack of resources that refer to one another.        *)
(*                                                                         *)
(* Under a claim the stack grows from the leaves up.  Once the claim is    *)
(* being closed nothing is built any more, the stack goes down from the    *)
(* root, and the claim is released when nothing is left, neither of the    *)
(* stack nor of what tenants have made beside it.                          *)
(***************************************************************************)
CONSTANTS
    Resource,
    Needs(_)   \* the resources that one refers to

VARIABLES
    phase,     \* of the claim: "unclaimed", "open", "closing" or "released"
    standing,  \* the resources that exist and are not being deleted
    falling,   \* those that are being deleted
    tenants    \* something made beside the stack is in the cloud

stackVars == <<phase, standing, falling, tenants>>

Init == phase = "unclaimed" /\ standing = {} /\ falling = {} /\ tenants = TRUE

Open ==
    /\ phase = "unclaimed" /\ phase' = "open"
    /\ UNCHANGED <<standing, falling, tenants>>

Raise(r) ==
    /\ phase = "open"
    /\ r \notin standing \cup falling /\ Needs(r) \subseteq standing
    /\ standing' = standing \cup {r}
    /\ UNCHANGED <<phase, falling, tenants>>

\* There is no way back.
Close ==
    /\ phase = "open" /\ phase' = "closing"
    /\ UNCHANGED <<standing, falling, tenants>>

Drop(r) ==
    /\ phase = "closing"
    /\ r \in standing /\ \A s \in standing \cup falling : r \notin Needs(s)
    /\ standing' = standing \ {r} /\ falling' = falling \cup {r}
    /\ UNCHANGED <<phase, tenants>>

Vanish(r) ==
    /\ r \in falling /\ falling' = falling \ {r}
    /\ UNCHANGED <<phase, standing, tenants>>

Evict ==
    /\ phase = "closing" /\ tenants /\ tenants' = FALSE
    /\ UNCHANGED <<phase, standing, falling>>

\* A claim that was never opened has let nobody in.
Release ==
    /\ phase \in {"unclaimed", "closing"} /\ phase' = "released"
    /\ standing = {} /\ falling = {} /\ (phase = "closing" => ~tenants)
    /\ UNCHANGED <<standing, falling, tenants>>

Next ==
    \/ Open \/ Close \/ Evict \/ Release
    \/ \E r \in Resource : Raise(r) \/ Drop(r) \/ Vanish(r)

Spec == Init /\ [][Next]_stackVars

=============================================================================
