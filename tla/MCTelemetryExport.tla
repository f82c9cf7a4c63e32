-------------------------- MODULE MCTelemetryExport --------------------------
(* Instances of TelemetryExport for TLC. *)
EXTENDS TelemetryExport, TLC

CONSTANTS netlink, socket

Symmetry == Permutations({netlink, socket})
=============================================================================
