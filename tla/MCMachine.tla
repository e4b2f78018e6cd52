----------------------------- MODULE MCMachine -----------------------------
(***************************************************************************)
(* Instances of Machine for TLC.                                           *)
(***************************************************************************)
EXTENDS MachineInv

CONSTANTS d1, d2, g1

JustDisk    == {{d1}}
DiskAndIP   == {{d1, IP}}
Everything  == {{d1, g1, IP}}
Nothing     == {{}}
SwapDisks   == {{d1}, {d2}}

=============================================================================
