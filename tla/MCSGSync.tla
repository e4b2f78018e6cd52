------------------------------ MODULE MCSGSync ------------------------------
(***************************************************************************)
(* Instances of SGSync for TLC.                                            *)
(***************************************************************************)
EXTENDS SGSync

CONSTANTS w, a, b, e

\* A group for all and one for workers; the group of workers moved to all, the
\* other one replaced by an existing one; none.
Sec(common, worker) ==
    [s \in Sections |-> CASE s = "common" -> common [] s = "worker" -> worker [] OTHER -> {}]

ThreeSpecs == {Sec({a}, {b}), Sec({b}, {e}), NoConfig}
OneSpec    == {Sec({b}, {e})}

=============================================================================
