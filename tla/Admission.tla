------------------------------ MODULE Admission ------------------------------
(***************************************************************************)
(* Admission control of the collector (crates/syspilot-cloud/src/lib.rs):    *)
(* each node has a semaphore, kept in a bounded map from which those nobody  *)
(* uses are removed when it is full, and all share a global one.  try_acquire *)
(* takes its steps without a lock around them.                              *)
(***************************************************************************)
EXTENDS Integers, FiniteSets

CONSTANTS
    Call, Identity,
    Capacity,      \* permits of the global semaphore
    PerIdentity,   \* a quarter of it, at least one
    MaxIdentities  \* size of the map, four times the capacity

ASSUME AdmissionAssumption ==
    /\ IsFiniteSet(Call)
    /\ {Capacity, PerIdentity, MaxIdentities} \subseteq Nat \ {0}
    /\ PerIdentity <= Capacity

VARIABLES
    identities,  \* the keys of the map
    phase,       \* idle, cloned, identity (holds that permit), admitted
    who,         \* the identity of a request
    current      \* its semaphore is the one in the map

admissionVars == <<identities, phase, who, current>>

AdmissionInit ==
    /\ identities = {}
    /\ phase = [r \in Call |-> "idle"]
    /\ who \in [Call -> Identity]
    /\ current = [r \in Call |-> TRUE]

\* Requests with a reference to the semaphore the map has for i.
Users(i) == {r \in Call : phase[r] # "idle" /\ current[r] /\ who[r] = i}
Holders(i) == {r \in Users(i) : phase[r] \in {"identity", "admitted"}}
Admitted == {r \in Call : phase[r] = "admitted"}

\* Mutant: a semaphore is removed while a request is between lookup and permit.
KeepHeld(i) == Holders(i) # {}

\* strong_count > 1.
Keep(i) == Users(i) # {}

Full(keys, i) == i \notin keys /\ Cardinality(keys) >= MaxIdentities

Kept(i) == IF Full(identities, i) THEN {j \in identities : Keep(j)} ELSE identities

StillCurrent(q, i) == phase[q] = "idle" \/ (current[q] /\ who[q] \in Kept(i))

\* Under the map's mutex: make room, then find or create the semaphore.
Lookup(r, i) ==
    /\ phase[r] = "idle"
    /\ ~Full(Kept(i), i)
    /\ identities' = Kept(i) \cup {i}
    /\ phase' = [phase EXCEPT ![r] = "cloned"]
    /\ who' = [who EXCEPT ![r] = i]
    /\ current' = [q \in Call |-> q = r \/ StillCurrent(q, i)]

Refuse(r, i) ==
    /\ phase[r] = "idle"
    /\ Full(Kept(i), i)
    /\ identities' = Kept(i)
    /\ current' = [q \in Call |-> StillCurrent(q, i)]
    /\ UNCHANGED <<phase, who>>

Goto(r, next) ==
    /\ phase' = [phase EXCEPT ![r] = next]
    /\ UNCHANGED <<identities, who, current>>

\* The permits of a semaphore that left the map are not tracked: its users count
\* among themselves.
TryIdentity(r) ==
    /\ phase[r] = "cloned"
    /\ IF current[r] /\ Cardinality(Holders(who[r])) >= PerIdentity
       THEN Goto(r, "idle") ELSE Goto(r, "identity")

\* Without a global permit the identity's is given back.
TryGlobal(r) ==
    /\ phase[r] = "identity"
    /\ IF Cardinality(Admitted) >= Capacity THEN Goto(r, "idle") ELSE Goto(r, "admitted")

Release(r) == phase[r] = "admitted" /\ Goto(r, "idle")

AdmissionNext ==
    \E r \in Call :
        \/ \E i \in Identity : Lookup(r, i) \/ Refuse(r, i)
        \/ TryIdentity(r) \/ TryGlobal(r) \/ Release(r)

AdmissionSpec == AdmissionInit /\ [][AdmissionNext]_admissionVars
-----------------------------------------------------------------------------
AdmissionTypeOK ==
    /\ identities \subseteq Identity
    /\ phase \in [Call -> {"idle", "cloned", "identity", "admitted"}]
    /\ who \in [Call -> Identity]
    /\ current \in [Call -> BOOLEAN]

\* No node ever has more requests inside than its share, also when its semaphore is
\* removed from the map and made anew (retain on strong_count).
PerIdentityBound ==
    \A i \in Identity :
        Cardinality({r \in Admitted : who[r] = i}) <= PerIdentity

\* The map and the requests inside are bounded.
Bounded ==
    /\ Cardinality(identities) <= MaxIdentities
    /\ Cardinality(Admitted) <= Capacity

(* The inductive invariant behind PerIdentityBound.                            *)
AdmissionInv ==
    /\ AdmissionTypeOK
    /\ \A r \in Call : phase[r] # "idle" => current[r] /\ who[r] \in identities
    /\ \A i \in Identity : Cardinality(Holders(i)) <= PerIdentity
=============================================================================
