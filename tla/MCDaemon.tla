------------------------------ MODULE MCDaemon -------------------------------
(* Instances of Daemon for TLC.  Liveness is checked: no symmetry. *)
EXTENDS Daemon

CONSTANTS p1, sh, vi, c1, c2
=============================================================================
