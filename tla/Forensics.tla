------------------------------ MODULE Forensics ------------------------------
(***************************************************************************)
(* Kernel records on their way to a death report: the two bounded queues of  *)
(* crates/syspilot-collector (a producer, the ring-buffer reader, and a      *)
(* consumer), and the correlator thread that owns the timelines and the      *)
(* classifier (src/forensics).                                              *)
(***************************************************************************)
EXTENDS Integers, FiniteSets, Sequences

CONSTANTS
    Process,           \* identities, of a process id and its start time
    Facts,             \* records the kernel may send, without their times
    MaxProcesses, MaxEvents,              \* CorrelatorConfig
    CriticalCapacity, AuxiliaryCapacity,  \* of PriorityIngress
    Distance,          \* MAX_CAUSAL_DISTANCE_NS
    MaxTime, MaxRecords,  \* bounds: the clock, the records that are sent
    NoSignal

Sigkill == 9
Group == {f.cgroup : f \in {g \in Facts : g.kind \in {"exit", "oom"}}}

\* An exit of a thread or of the leader, a signal with its origin, an OOM victim, or
\* a count of records the kernel dropped (normalize_raw_event, from_parts).
Fact ==
    [kind : {"exit"}, who : Process, leader : BOOLEAN, signal : Int \cup {NoSignal}, cgroup : Group]
    \cup [kind : {"signal"}, who : Process, signal : Int, origin : {"kernel", "process", "unknown"}]
    \cup [kind : {"oom"}, who : Process, oom : {"global", "memcg", "unknown"}, cgroup : Group]
    \cup [kind : {"loss"}, dropped : Nat]

Event == [fact : Facts, time : 0..MaxTime]

ASSUME ForensicsAssumption ==
    /\ Facts \subseteq Fact /\ NoSignal \notin Int
    /\ MaxProcesses \in Nat \ {0} /\ MaxEvents \in Nat \ {0}
    /\ CriticalCapacity \in Nat \ {0, 1} /\ AuxiliaryCapacity \in Nat \ {0, 1}
    /\ {Distance, MaxTime, MaxRecords} \subseteq Nat

VARIABLES
    clock, exited,               \* the kernel: its time, processes whose leader exited
    critical, auxiliary, polled, \* the queues; polled: try_pop found critical empty
    received, malformed, criticalDropped, auxiliaryDropped,  \* Counters
    events, born, order, epoch,  \* the correlator; <<>> is no timeline
    outcome,                     \* of the last ingest
    popped, delivered, forgotten, lossSince  \* history, for the properties

kernel == <<clock, exited>>
counters == <<received, malformed, criticalDropped, auxiliaryDropped>>
ingress == <<critical, auxiliary, polled, counters>>
correlator == <<events, born, order, epoch, outcome>>
history == <<popped, delivered, forgotten, lossSince>>
vars == <<kernel, ingress, correlator, history>>

Accepted == [kind |-> "accepted"]

Init ==
    /\ clock = 0 /\ exited = {}
    /\ critical = <<>> /\ auxiliary = <<>> /\ polled = FALSE
    /\ received = 0 /\ malformed = 0 /\ criticalDropped = 0 /\ auxiliaryDropped = 0
    /\ events = [p \in Process |-> <<>>] /\ born = [p \in Process |-> 0]
    /\ order = <<>> /\ epoch = 0 /\ outcome = Accepted
    /\ popped = 0 /\ delivered = {} /\ forgotten = {} /\ lossSince = {}
-----------------------------------------------------------------------------
(* PriorityIngress.                                                            *)

\* The leader of a process exits once.
Sent(f, t) ==
    /\ received + malformed < MaxRecords
    /\ clock' = t
    /\ IF f.kind = "exit" /\ f.leader
       THEN f.who \notin exited /\ exited' = exited \cup {f.who}
       ELSE UNCHANGED exited

\* push with the priorities Critical and High.  A ring holds one less than its capacity.
PushCritical(f, t) ==
    /\ Sent(f, t)
    /\ received' = received + 1
    /\ IF Len(critical) < CriticalCapacity - 1
       THEN /\ critical' = Append(critical, [fact |-> f, time |-> t])
            /\ UNCHANGED criticalDropped
       ELSE /\ criticalDropped' = criticalDropped + 1
            /\ UNCHANGED critical
    /\ UNCHANGED <<auxiliary, polled, malformed, auxiliaryDropped, correlator, history>>

\* Mutant: a record that finds the queue full is not counted.
PushAuxiliarySilent(f, t) ==
    /\ Sent(f, t)
    /\ received' = received + 1
    /\ auxiliary' = IF Len(auxiliary) < AuxiliaryCapacity - 1
                    THEN Append(auxiliary, [fact |-> f, time |-> t]) ELSE auxiliary
    /\ UNCHANGED <<critical, polled, malformed, criticalDropped, auxiliaryDropped,
                   correlator, history>>

\* push with the priorities Normal and Debug.
PushAuxiliary(f, t) ==
    /\ Sent(f, t)
    /\ received' = received + 1
    /\ IF Len(auxiliary) < AuxiliaryCapacity - 1
       THEN /\ auxiliary' = Append(auxiliary, [fact |-> f, time |-> t])
            /\ UNCHANGED auxiliaryDropped
       ELSE /\ auxiliaryDropped' = auxiliaryDropped + 1
            /\ UNCHANGED auxiliary
    /\ UNCHANGED <<critical, polled, malformed, criticalDropped, correlator, history>>

\* ingest_bytes: RawEvent::decode refuses the record.
Malformed ==
    /\ received + malformed < MaxRecords
    /\ malformed' = malformed + 1
    /\ UNCHANGED <<kernel, critical, auxiliary, polled, received, criticalDropped,
                   auxiliaryDropped, correlator, history>>
-----------------------------------------------------------------------------
(* Classifier::classify.                                                       *)

LastOf(S) == CHOOSE i \in S : \A j \in S : j <= i

Near(e, exit) == e.time <= exit.time /\ exit.time - e.time <= Distance

\* The latest records, in the order of their arrival, that may have caused the exit.
Signals(seen, exit) ==
    LET S == {i \in DOMAIN seen : /\ seen[i].fact.kind = "signal"
                                  /\ seen[i].fact.signal = exit.fact.signal
                                  /\ Near(seen[i], exit)}
    IN IF S = {} THEN {} ELSE {seen[LastOf(S)]}

\* Mutant: also those after the exit or long before it.
OomsAnyTime(seen, exit) ==
    LET S == {i \in DOMAIN seen : seen[i].fact.kind = "oom"}
    IN IF S = {} THEN {} ELSE {seen[LastOf(S)]}

Ooms(seen, exit) ==
    LET S == {i \in DOMAIN seen : seen[i].fact.kind = "oom" /\ Near(seen[i], exit)}
    IN IF S = {} THEN {} ELSE {seen[LastOf(S)]}

Medium == 2
High == 3
Confirmed == 4

\* The causal rules: signals and ooms hold one record each at most.
Verdict(exit, signals, ooms) ==
    LET killed == exit.fact.signal = Sigkill
        victim(kind) == \E e \in ooms : e.fact.oom = kind
        known == \E e \in signals : e.fact.origin # "unknown"
    IN CASE exit.fact.signal = NoSignal -> <<"normal", Confirmed>>
         [] killed /\ (\E e \in ooms : /\ e.fact.oom = "memcg"
                                       /\ e.fact.cgroup = exit.fact.cgroup)
              -> <<"cgroup oom", Confirmed>>
         [] killed /\ victim("global") -> <<"global oom", High>>
         [] killed /\ victim("unknown") -> <<"unknown", Medium>>
         [] OTHER -> <<"signal", IF known THEN High ELSE Medium>>

Classify(seen, incomplete) ==
    LET exit == seen[Len(seen)]
        signals == Signals(seen, exit)
        ooms == Ooms(seen, exit)
        verdict == Verdict(exit, signals, ooms)
    IN [kind |-> "death", who |-> exit.fact.who,
        exit |-> exit, evidence |-> signals \cup ooms,
        cause |-> verdict[1],
        confidence |-> IF incomplete /\ verdict[2] > Medium THEN Medium ELSE verdict[2],
        incomplete |-> incomplete]
-----------------------------------------------------------------------------
(* Correlator::ingest.                                                         *)

Tracked == {p \in Process : events[p] # <<>>}

\* Mutant: one timeline too many.
FullLate(p) == events[p] = <<>> /\ Cardinality(Tracked) > MaxProcesses

Full(p) == events[p] = <<>> /\ Cardinality(Tracked) >= MaxProcesses

\* ensure_capacity pops insertion_order until an entry still has a timeline.
Oldest ==
    LET live == {i \in DOMAIN order : order[i] \in Tracked}
    IN CHOOSE i \in live : \A j \in live : i <= j
Evicted(p) == IF Full(p) THEN {order[Oldest]} ELSE {}
Waiting(p) == IF Full(p) THEN SubSeq(order, Oldest + 1, Len(order)) ELSE order

Overflow(p) == Len(events[p]) = MaxEvents

\* Mutant: the oldest record goes one too early.
PushedEarly(e) ==
    LET p == e.fact.who
        early == Len(events[p]) >= MaxEvents - 1 /\ events[p] # <<>>
    IN Append(IF early THEN Tail(events[p]) ELSE events[p], e)

\* The bounded timeline forgets its oldest record.
Pushed(e) ==
    LET p == e.fact.who
    IN Append(IF Overflow(p) THEN Tail(events[p]) ELSE events[p], e)

\* Mutant: a report of no loss counts as one.
IngestLossZero(e) ==
    /\ e.fact.kind = "loss"
    /\ epoch' = epoch + 1
    /\ lossSince' = IF e.fact.dropped = 0 THEN lossSince ELSE lossSince \cup Tracked
    /\ outcome' = Accepted
    /\ UNCHANGED <<events, born, order, delivered, forgotten>>

IngestLoss(e) ==
    /\ e.fact.kind = "loss"
    /\ epoch' = IF e.fact.dropped = 0 THEN epoch ELSE epoch + 1
    /\ lossSince' = IF e.fact.dropped = 0 THEN lossSince ELSE lossSince \cup Tracked
    /\ outcome' = Accepted
    /\ UNCHANGED <<events, born, order, delivered, forgotten>>

Contents(p) == {events[p][i] : i \in DOMAIN events[p]}

\* The record joins the timeline of its process; the exit of the leader closes it
\* with a report, for which classify finds that exit, and leaves insertion_order alone.
IngestEvent(e) ==
    LET p == e.fact.who
        new == events[p] = <<>>
        death == e.fact.kind = "exit" /\ e.fact.leader
        since == IF new THEN epoch ELSE born[p]
        gone == Evicted(p) \cup (IF death THEN {p} ELSE {})
    IN /\ e.fact.kind # "loss"
       /\ order' = IF new THEN Append(Waiting(p), p) ELSE order
       /\ events' = [q \in Process |-> IF q \in gone THEN <<>>
                                       ELSE IF q = p THEN Pushed(e) ELSE events[q]]
       /\ born' = [q \in Process |-> IF q \in gone THEN 0
                                     ELSE IF q = p THEN since ELSE born[q]]
       /\ outcome' = IF death THEN Classify(Pushed(e), since # epoch) ELSE Accepted
       /\ delivered' = delivered \cup {e}
       /\ forgotten' = forgotten \cup (UNION {Contents(q) : q \in Evicted(p)})
                                 \cup (IF Overflow(p) THEN {Head(events[p])} ELSE {})
       /\ lossSince' = IF new THEN lossSince \ {p} ELSE lossSince
       /\ UNCHANGED epoch

Ingest(e) == popped' = popped + 1 /\ (IngestLoss(e) \/ IngestEvent(e))

\* try_pop looks into the critical queue, ...
PopCritical ==
    /\ ~polled /\ critical # <<>>
    /\ critical' = Tail(critical)
    /\ Ingest(Head(critical))
    /\ UNCHANGED <<kernel, auxiliary, polled, counters>>

\* ... and only when that was empty into the other one.
PollAuxiliary ==
    /\ ~polled /\ critical = <<>>
    /\ polled' = TRUE
    /\ UNCHANGED <<kernel, critical, auxiliary, counters, correlator, history>>

PopAuxiliary ==
    /\ polled
    /\ polled' = FALSE
    /\ IF auxiliary = <<>>
       THEN UNCHANGED <<auxiliary, correlator, history>>
       ELSE auxiliary' = Tail(auxiliary) /\ Ingest(Head(auxiliary))
    /\ UNCHANGED <<kernel, critical, counters>>

Next ==
    \/ \E f \in Facts, t \in clock..MaxTime : PushCritical(f, t) \/ PushAuxiliary(f, t)
    \/ Malformed
    \/ PopCritical \/ PollAuxiliary \/ PopAuxiliary

Spec == Init /\ [][Next]_vars
-----------------------------------------------------------------------------
Outcome ==
    {Accepted} \cup
    [kind : {"death"}, who : Process, exit : Event, evidence : SUBSET Event,
     cause : {"normal", "cgroup oom", "global oom", "unknown", "signal"},
     confidence : Medium..Confirmed, incomplete : BOOLEAN]

QueuesOK ==
    /\ clock \in 0..MaxTime
    /\ critical \in Seq(Event) /\ auxiliary \in Seq(Event)

CorrelatorOK ==
    /\ events \in [Process -> Seq(Event)] /\ born \in [Process -> Nat]
    /\ order \in Seq(Process) /\ epoch \in Nat
    /\ delivered \subseteq Event /\ lossSince \subseteq Process

TypeOK ==
    /\ QueuesOK /\ CorrelatorOK
    /\ Len(critical) < CriticalCapacity /\ Len(auxiliary) < AuxiliaryCapacity
    /\ polled \in BOOLEAN /\ exited \subseteq Process
    /\ {received, malformed, criticalDropped, auxiliaryDropped} \subseteq 0..MaxRecords
    /\ outcome \in Outcome
    /\ popped \in Nat /\ forgotten \subseteq delivered

\* Every record is delivered, still queued, or counted as dropped or malformed:
\* none is lost without a trace between the ring buffer and the correlator.
Accounted ==
    received = popped + Len(critical) + Len(auxiliary) + criticalDropped + auxiliaryDropped

\* The store is bounded and every timeline can still be evicted: it has an entry in
\* insertion_order, at most MaxEvents records, all of its own process, and none of a
\* process whose death was reported (ingest, ensure_capacity).
TimelineInv ==
    /\ IsFiniteSet(Tracked)
    /\ Cardinality(Tracked) <= MaxProcesses
    /\ \A p \in Tracked :
         /\ \E i \in DOMAIN order : order[i] = p
         /\ Len(events[p]) <= MaxEvents
         /\ \A i \in DOMAIN events[p] :
              LET f == events[p][i].fact
              IN /\ f.kind \in {"exit", "signal", "oom"} /\ f.who = p
                 /\ f.kind = "exit" => ~f.leader
                 /\ events[p][i] \in delivered

Dead == outcome.kind = "death"

\* A cause is only named with a record of that very process, delivered to the
\* correlator and inside the causal window before its exit (an OOM kill only of the
\* killed process's own cgroup, or of the host); a known loss caps the confidence
\* (the causal rules of classify).
EvidenceSound ==
    Dead =>
      /\ \A e \in outcome.evidence :
           e \in delivered /\ e.fact.who = outcome.who /\ Near(e, outcome.exit)
      /\ outcome.cause \in {"cgroup oom", "global oom"} => outcome.exit.fact.signal = Sigkill
      /\ outcome.cause = "cgroup oom" =>
           \E e \in outcome.evidence : /\ e.fact.kind = "oom" /\ e.fact.oom = "memcg"
                                      /\ e.fact.cgroup = outcome.exit.fact.cgroup
      /\ outcome.cause = "global oom" =>
           \E e \in outcome.evidence : e.fact.kind = "oom" /\ e.fact.oom = "global"
      /\ outcome.cause = "normal" => outcome.exit.fact.signal = NoSignal
      /\ outcome.incomplete => outcome.confidence <= Medium

\* What arrived before the report and was not pushed out by a bound is in it: a
\* killed process with an OOM record in the window is never reported as one without.
NothingOverlooked ==
    Dead =>
      \A e \in delivered \ forgotten :
        (e.fact.kind = "oom" /\ e.fact.who = outcome.who /\ Near(e, outcome.exit)) =>
          \E f \in outcome.evidence : f.fact.kind = "oom"

\* Why: the leader of a process exits once, so among the queues and what was delivered
\* there is one such record of it at most, and until it is delivered the timeline
\* holds every record of the process but the forgotten ones.
Ends(e) == e.fact.kind = "exit" /\ e.fact.leader
Closed == {e.fact.who : e \in {d \in delivered : Ends(d)}}

OnceIn(queue, open) ==
    \A i \in DOMAIN queue :
      Ends(queue[i]) =>
        /\ queue[i].fact.who \in open
        /\ \A j \in DOMAIN queue : Ends(queue[j]) /\ queue[j].fact.who = queue[i].fact.who => j = i

Apart(queue, other) ==
    \A i \in DOMAIN queue, j \in DOMAIN other :
      Ends(queue[i]) /\ Ends(other[j]) => queue[i].fact.who # other[j].fact.who

ExitsOnce ==
    /\ Closed \subseteq exited
    /\ OnceIn(critical, exited \ Closed) /\ OnceIn(auxiliary, exited \ Closed)
    /\ Apart(critical, auxiliary)

TimelinesComplete ==
    \A e \in delivered :
      /\ e.fact.kind # "loss"
      /\ e \notin forgotten /\ e.fact.who \notin Closed => e \in Contents(e.fact.who)

OverlookInv == ExitsOnce /\ TimelinesComplete /\ NothingOverlooked

\* A loss record that arrives while a process has a timeline marks its report
\* incomplete, however many other timelines come and go in between, and no other
\* record does (loss_epoch_at_creation).
LossSeen ==
    /\ \A p \in Tracked : born[p] <= epoch /\ ((born[p] # epoch) <=> (p \in lossSince))
    /\ Dead => (outcome.incomplete <=> (outcome.who \in lossSince))

\* "Single-owner bounded timeline store" (correlator.rs:26): its insertion_order is
\* bounded too.
OrderBounded == Len(order) <= MaxProcesses
=============================================================================
