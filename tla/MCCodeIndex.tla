----------------------------- MODULE MCCodeIndex ------------------------------
(* Instances of CodeIndex for TLC. *)
EXTENDS CodeIndex, TLC

CONSTANTS a, b, f, g, m1, m2

Symmetry == Permutations(IndexCommands) \cup Permutations(Models) \cup Permutations(Files)
=============================================================================
