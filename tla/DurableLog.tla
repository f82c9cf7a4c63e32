----------------------------- MODULE DurableLog -----------------------------
(***************************************************************************)
(* What the spool promises to its users: sequence numbers are issued in     *)
(* order and never twice, an entry is stored under an issued number nobody  *)
(* stored under before, and an entry only leaves the log for good.          *)
(***************************************************************************)
EXTENDS Naturals

VARIABLES
    issued,  \* highest sequence handed out
    log,     \* entries in the spool
    gone     \* entries acknowledged or quarantined

vars == <<issued, log, gone>>

Init == issued = 0 /\ log = {} /\ gone = {}

Issue == issued' = issued + 1 /\ UNCHANGED <<log, gone>>

Store ==
    /\ \E e \in log' :
         /\ e.seq \in 1..issued
         /\ \A f \in log \cup gone : f.seq # e.seq
         /\ log' = log \cup {e}
    /\ UNCHANGED <<issued, gone>>

Remove ==
    /\ gone \subseteq gone'
    /\ gone' \subseteq gone \cup log
    /\ log' = log \ gone'
    /\ UNCHANGED issued

Next == Issue \/ Store \/ Remove

Spec == Init /\ [][Next]_vars
=============================================================================
