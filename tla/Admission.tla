----------------------------- MODULE Admission -----------------------------
(***************************************************************************)
(* The admission webhooks: what the API server lets into the spec of an    *)
(* EvrocCluster and of an EvrocMachine.  Every write of metadata and spec  *)
(* passes them, a user's and a controller's; a write of the status does    *)
(* not.                                                                    *)
(*                                                                         *)
(* Fields that are treated alike are one function.  Names are model        *)
(* values with a length.  What is wrong with the format of a single field  *)
(* (regions, URLs, ports, labels, images) makes a spec that is not formed. *)
(***************************************************************************)
EXTENDS Naturals, Sequences, Functions

CONSTANTS
    None,           \* an empty field
    Values,         \* values of fields
    Default,        \* the one the webhook gives an empty field
    Zones,          \* zones of the region
    DefaultZones,   \* the list of all of them, a, b, c
    OnceFields,     \* fields of a cluster that may be set once
    Names,          \* names of groups and disks
    Length          \* length of each name, of clusters and machines also

MaxLength == 63

ASSUME AdmissionAssumption ==
    /\ Default \in Values /\ None \notin Values
    /\ DefaultZones \in Seq(Zones) /\ DefaultZones # <<>> /\ IsInjective(DefaultZones)
    /\ "controlPlaneEndpoint" \in OnceFields
    /\ \A n \in DOMAIN Length : Length[n] \in Nat

-----------------------------------------------------------------------------
(* EvrocCluster *)

\* place is the project and the region; managed is who owns the endpoint.
\* The groups of the three sections are one list, and so are the existing ones.
ClusterSpec ==
    [place: [{"project", "region"} -> Values \cup {None}], managed: BOOLEAN,
     once: [OnceFields -> Values \cup {None}], subnets: [Zones -> Values \cup {None}],
     zones: Seq(Zones), inline: Seq(Names), existing: Seq(Names), formed: BOOLEAN]

DefaultCluster(c) ==
    [c EXCEPT !.place["region"] = IF @ = None THEN Default ELSE @,
              !.zones = IF @ = <<>> THEN DefaultZones ELSE @]

\* The cluster's resources are named after it and eight letters of its UID.
validateEvrocCluster(name, c) ==
    /\ \A f \in DOMAIN c.place : c.place[f] # None
    /\ c.formed
    /\ c.zones # <<>> /\ IsInjective(c.zones)
    /\ Length[name] + 9 + Len("-cp-ip") <= MaxLength
    /\ IsInjective(c.inline \o c.existing)
    /\ \A g \in Range(c.inline) : Length[name] + 9 + 1 + Length[g] <= MaxLength

\* Mutant: zones may go.
KeepsFields(old, new) ==
    /\ new.place = old.place /\ new.managed = old.managed
    /\ \A f \in OnceFields : old.once[f] # None => new.once[f] = old.once[f]
    /\ \A z \in Zones : old.subnets[z] # None => new.subnets[z] = old.subnets[z]

\* Mutant: a zone's subnet may be taken away.
KeepsNamedSubnets(old, new) ==
    /\ new.place = old.place /\ new.managed = old.managed
    /\ \A f \in OnceFields : old.once[f] # None => new.once[f] = old.once[f]
    /\ \A z \in Zones : new.subnets[z] # None /\ old.subnets[z] # None => new.subnets[z] = old.subnets[z]
    /\ Range(old.zones) \subseteq Range(new.zones)

\* Whether a cluster may change from one spec to another.
KeepsImmutable(old, new) ==
    /\ new.place = old.place /\ new.managed = old.managed
    /\ \A f \in OnceFields : old.once[f] # None => new.once[f] = old.once[f]
    /\ \A z \in Zones : old.subnets[z] # None => new.subnets[z] = old.subnets[z]
    /\ Range(old.zones) \subseteq Range(new.zones)

ValidateClusterUpdate(name, old, new) == KeepsImmutable(old, new) /\ validateEvrocCluster(name, new)

-----------------------------------------------------------------------------
(* EvrocMachine *)

\* What a VM is built from and keeps for its life.
BuildFields == {"computeProfile", "image", "rootDiskSize"}

\* inherit: the machine has the groups of its cluster.
MachineSpec ==
    [place: [{"project", "region"} -> Values \cup {None}], build: [BuildFields -> Values \cup {None}],
     disks: Seq(Names), inherit: BOOLEAN, inline: Seq(Names), existing: Seq(Names),
     publicIP: SUBSET {"enabled", "existingID"}, formed: BOOLEAN]

\* Names no groups and inherits none: a VM without groups has no network.
Bare(s) == ~s.inherit /\ s.inline = <<>> /\ s.existing = <<>>

\* Mutant: a machine is taken to want what it says.
DefaultMachineFields(s) ==
    [s EXCEPT !.place["region"] = IF @ = None THEN Default ELSE @,
              !.build["image"] = IF @ = None THEN Default ELSE @]

DefaultMachine(s) ==
    [s EXCEPT !.place["region"] = IF @ = None THEN Default ELSE @,
              !.build["image"] = IF @ = None THEN Default ELSE @,
              !.inherit = @ \/ Bare(s)]

validateEvrocMachine(m, s) ==
    /\ \A f \in DOMAIN s.place : s.place[f] # None
    /\ \A f \in BuildFields : s.build[f] # None
    /\ s.formed
    /\ Length[m] + Len("-boot-disk") <= MaxLength
    /\ s.publicIP # {"enabled", "existingID"}
    /\ IsInjective(s.disks) /\ IsInjective(s.inline \o s.existing)
    /\ \A n \in Range(s.disks) \cup Range(s.inline) : Length[m] + 1 + Length[n] <= MaxLength

ValidateMachineUpdate(m, old, new) ==
    new.place = old.place /\ new.build = old.build /\ validateEvrocMachine(m, new)

=============================================================================
