-------------------------- MODULE MCWorkloadCleanup --------------------------
(***************************************************************************)
(* Instances of WorkloadCleanup for TLC.                                   *)
(***************************************************************************)
EXTENDS WorkloadCleanup

=============================================================================
