---------------------------- MODULE IngestLedger ----------------------------
(***************************************************************************)
(* What ingestion promises (docs/FLEET_CONTROL_PLANE.md, docs/TELEMETRY_     *)
(* PROTOCOL.md): an envelope is stored at most once and with it, in one step *)
(* and once, its reasoning job and its notifications; only what is stored    *)
(* is acknowledged; a sequence number is stored for one envelope only.       *)
(***************************************************************************)
EXTENDS Naturals

CONSTANTS NeedsJob, Notifies  \* the sequence numbers of such envelopes

VARIABLES stored, jobs, notified, acknowledged

vars == <<stored, jobs, notified, acknowledged>>

Init ==
    /\ stored = {} /\ jobs = {} /\ acknowledged = {}
    /\ notified = [e \in DOMAIN notified |-> 0]

Store ==
    /\ stored \subseteq stored'
    /\ \A e, f \in stored' : e.seq = f.seq => e = f
    /\ jobs' = jobs \cup {e \in stored' \ stored : e.seq \in NeedsJob}
    /\ notified' = [e \in DOMAIN notified |->
                      IF e \in stored' \ stored /\ e.seq \in Notifies
                      THEN notified[e] + 1 ELSE notified[e]]
    /\ UNCHANGED acknowledged

Acknowledge ==
    /\ acknowledged \subseteq acknowledged'
    /\ acknowledged' \subseteq stored
    /\ UNCHANGED <<stored, jobs, notified>>

Spec == Init /\ [][Store \/ Acknowledge]_vars
=============================================================================
