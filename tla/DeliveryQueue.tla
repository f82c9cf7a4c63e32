---------------------------- MODULE DeliveryQueue ----------------------------
(***************************************************************************)
(* What exporting promises: at-least-once delivery.  An envelope is held    *)
(* from the moment it is accepted, the collector only gets envelopes that   *)
(* were accepted, and one is let go only after it was delivered or an       *)
(* operator dropped it.                                                    *)
(***************************************************************************)

VARIABLES
    held,       \* accepted envelopes the sender still has
    delivered,  \* envelopes the collector has
    dropped     \* envelopes an operator deleted

vars == <<held, delivered, dropped>>

Init == held = {} /\ delivered = {} /\ dropped = {}

\* A new envelope; its identity was never used before.
Accept ==
    /\ \E e \in held' :
         /\ \A f \in held \cup delivered \cup dropped : f.seq # e.seq
         /\ held' = held \cup {e}
    /\ UNCHANGED <<delivered, dropped>>

\* A request reaches the collector, perhaps late and perhaps again.
Deliver ==
    /\ delivered \subseteq delivered'
    /\ delivered' \subseteq delivered \cup held \cup dropped
    /\ UNCHANGED <<held, dropped>>

LetGo ==
    /\ held' \subseteq held
    /\ held \ held' \subseteq delivered
    /\ UNCHANGED <<delivered, dropped>>

Drop ==
    /\ \E e \in held : held' = held \ {e} /\ dropped' = dropped \cup {e}
    /\ UNCHANGED delivered

Next == Accept \/ Deliver \/ LetGo \/ Drop

Spec == Init /\ [][Next]_vars
=============================================================================
