----------------------------- MODULE MCJobQueue -----------------------------
(* Instances of JobQueue for TLC. *)
EXTENDS JobQueue, TLC

CONSTANTS j1, j2, j3, w1, w2, w3

Symmetry == Permutations(Job) \cup Permutations(Worker)
=============================================================================
