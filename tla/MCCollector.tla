----------------------------- MODULE MCCollector -----------------------------
(***************************************************************************)
(* The collector for TLC: its admission control and its ingestion, which   *)
(* share no state.  A behaviour is of the one or of the other, so that     *)
(* their states add up instead of multiplying.                             *)
(***************************************************************************)
EXTENDS CollectorIngest, Admission, TLC

CONSTANTS r1, r2, r3, q1, q2, q3, q4, n1, n2, n3

VARIABLE part

Symmetry == Permutations(Request) \cup Permutations(Identity)

\* The part at rest has one initial state.
CollectorInit ==
    /\ Init /\ AdmissionInit
    /\ part \in {"ingestion", "admission"}
    /\ part = "ingestion" => \E i \in Identity : who = [c \in Call |-> i]

CollectorNext ==
    /\ UNCHANGED part
    /\ \/ part = "ingestion" /\ Next /\ UNCHANGED admissionVars
       \/ part = "admission" /\ AdmissionNext /\ UNCHANGED vars

CollectorSpec == CollectorInit /\ [][CollectorNext]_<<vars, admissionVars, part>>
=============================================================================
