------------------------------ MODULE MCFleet ------------------------------
(***************************************************************************)
(* Instances of Fleet for TLC.                                             *)
(***************************************************************************)
EXTENDS Fleet, TLC

CONSTANTS k, m1, m2, za, zb, v1, v2, n1, n2

\* The longest cluster and machine names the webhook takes, a name that fits
\* beside a machine's, and one that does not.
Lengths == k :> 48 @@ m1 :> 53 @@ m2 :> 53 @@ n1 :> 9 @@ n2 :> 10

TwoZones == <<za, zb>>
ListsOfZones == {<<>>, <<za>>, <<zb, za>>, <<zb, zb>>}
ListsOfNames == {<<>>, <<n1>>, <<n1, n1>>, <<n2>>}
Once == {"controlPlaneEndpoint"}
Same == Permutations(Machines)

\* A cluster with one zone or the default ones, and an endpoint to come.
Created ==
    [place: {[f \in {"project", "region"} |-> v1]}, managed: {TRUE},
     once: {[f \in Once |-> None]}, subnets: {[z \in Zones |-> IF z = zb THEN v1 ELSE None]},
     zones: {<<zb>>, <<>>}, inline: {<<>>}, existing: {<<>>}, formed: {TRUE}]

\* A machine that names no image and no groups.
CreatedMachine ==
    [place: {[f \in {"project", "region"} |-> v1]},
     build: {[f \in BuildFields |-> IF f = "image" THEN None ELSE v1]},
     disks: {<<>>}, inherit: {FALSE}, inline: {<<>>}, existing: {<<>>},
     publicIP: {{}}, formed: {TRUE}]

=============================================================================
