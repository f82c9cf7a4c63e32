-------------------------- MODULE MCAlertLifecycle --------------------------
(* Instances of AlertLifecycle for TLC. *)
EXTENDS AlertLifecycle, TLC

CONSTANTS a1, a2, p1, p2

TransitionsOf == (a1 :> 3) @@ (a2 :> 2)

Symmetry == Permutations(ProcessId)
=============================================================================
