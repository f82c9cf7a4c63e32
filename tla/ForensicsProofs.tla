--------------------------- MODULE ForensicsProofs ---------------------------
(***************************************************************************)
(* Proofs about Forensics for every capacity and bound and any set of        *)
(* processes.                                                               *)
(***************************************************************************)
EXTENDS Forensics, FiniteSetTheorems, SequenceTheorems, WellFoundedInduction, TLAPS

\* A nonempty set of positions has a first one.
LEMMA First ==
    ASSUME NEW n \in Nat, NEW S, S \subseteq 1..n, S # {}
    PROVE \E i \in S : \A j \in S : i <= j
<1> DEFINE T == {1..i : i \in S}
<1>1. T \subseteq FiniteSubsetsOf(1..n)
  <2>1. FiniteSubsetsOf(1..n) = SUBSET (1..n)
    <3>1. 1 \in Int /\ n \in Int
      OBVIOUS
    <3>2. IsFiniteSet(1..n)
      BY <3>1, FS_Interval, Zenon
    <3>3. QED
      BY <3>2, FS_FiniteSubsetsOfFinite, Zenon
  <2>2. \A i \in S : 1..i \subseteq 1..n
    <3>1. \A x, y \in Int : x <= y => 1..x \subseteq 1..y
      OBVIOUS
    <3>2. \A i \in S : i \in Int /\ i <= n
      OBVIOUS
    <3>3. QED
      BY <3>1, <3>2
  <2>3. \A x \in T : x \in SUBSET (1..n)
    BY <2>2, Zenon
  <2> HIDE DEF T
  <2>4. QED
    BY <2>1, <2>3, Zenon
<1>2. T # {}
  BY Zenon
<1>3. PICK x \in T : \A y \in T : ~ (<<y, x>> \in StrictSubsetOrdering(1..n))
  <2> HIDE DEF T
  <2>1. QED
    BY <1>1, <1>2, WFMin, FS_StrictSubsetOrderingWellFounded
<1>4. PICK i \in S : x = 1..i
  BY <1>3
<1>5. ASSUME NEW j \in S, j < i PROVE FALSE
  <2>1. 1..j \subseteq 1..i /\ i \in 1..i /\ i \notin 1..j /\ 1..i \subseteq 1..n
    BY <1>5
  <2>2. <<1..j, 1..i>> \in StrictSubsetOrdering(1..n)
    BY <2>1 DEF StrictSubsetOrdering
  <2>3. QED
    BY <1>3, <1>4, <2>2
<1>6. QED
  BY <1>5

\* And a last one.
LEMMA LastOfIn ==
    ASSUME NEW n \in Nat, NEW S, S \subseteq 1..n, S # {}
    PROVE LastOf(S) \in S
<1> DEFINE R == {n + 1 - i : i \in S}
<1>1. R \subseteq 1..n /\ R # {}
  <2>1. \A i \in S : n + 1 - i \in 1..n
    OBVIOUS
  <2>2. R \subseteq 1..n
    BY <2>1, Zenon
  <2>3. R # {}
    BY Zenon
  <2>4. QED
    BY <2>2, <2>3
<1>2. PICK r \in R : \A q \in R : r <= q
  <2> HIDE DEF R
  <2>1. QED
    BY <1>1, First
<1>3. PICK i \in S : r = n + 1 - i
  BY <1>2
<1>4. \A j \in S : j <= i
  <2>1. ASSUME NEW j \in S PROVE j <= i
    <3>1. n + 1 - j \in R
      OBVIOUS
    <3>2. n + 1 - i <= n + 1 - j
      BY <3>1, <1>2, <1>3
    <3>3. QED
      BY <3>2
  <2>2. QED
    BY <2>1
<1>5. QED
  BY <1>4 DEF LastOf

\* A report names the exit it is about, and causes only with a record of the
\* timeline near the exit.
ReportOK(o, seen, exit, lost) ==
    /\ o.kind = "death" /\ o.who = exit.fact.who /\ o.exit = exit
    /\ o.incomplete = lost
    /\ \A e \in o.evidence : Near(e, exit) /\ \E i \in DOMAIN seen : e = seen[i]
    /\ o.cause \in {"cgroup oom", "global oom"} => exit.fact.signal = Sigkill
    /\ o.cause = "cgroup oom" =>
         \E e \in o.evidence : /\ e.fact.kind = "oom" /\ e.fact.oom = "memcg"
                              /\ e.fact.cgroup = exit.fact.cgroup
    /\ o.cause = "global oom" =>
         \E e \in o.evidence : e.fact.kind = "oom" /\ e.fact.oom = "global"
    /\ o.cause = "normal" => exit.fact.signal = NoSignal
    /\ lost => o.confidence <= Medium

\* Classifier::classify.
LEMMA Classified ==
    ASSUME NEW seen \in Seq(Event), Len(seen) >= 1, NEW lost \in BOOLEAN,
           NEW exit, exit = seen[Len(seen)]
    PROVE ReportOK(Classify(seen, lost), seen, exit, lost)
<1> DEFINE signals == Signals(seen, exit)
           ooms == Ooms(seen, exit)
           verdict == Verdict(exit, signals, ooms)
           o == Classify(seen, lost)
<1>1. /\ o.kind = "death" /\ o.who = exit.fact.who /\ o.exit = exit /\ o.incomplete = lost
      /\ o.evidence = signals \cup ooms /\ o.cause = verdict[1]
      /\ o.confidence = IF lost /\ verdict[2] > Medium THEN Medium ELSE verdict[2]
  BY DEF Classify
<1>2. ASSUME NEW e \in signals
      PROVE Near(e, exit) /\ \E i \in DOMAIN seen : e = seen[i]
  <2> DEFINE S == {i \in DOMAIN seen : /\ seen[i].fact.kind = "signal"
                                       /\ seen[i].fact.signal = exit.fact.signal
                                       /\ Near(seen[i], exit)}
  <2>1. S # {} /\ e = seen[LastOf(S)]
    BY DEF Signals
  <2>2. S \subseteq 1..Len(seen) /\ Len(seen) \in Nat
    BY DEF Event
  <2>3. LastOf(S) \in S
    <3> HIDE DEF S
    <3>1. QED
      BY <2>1, <2>2, LastOfIn
  <2>4. QED
    BY <2>1, <2>3
<1>3. ASSUME NEW e \in ooms
      PROVE Near(e, exit) /\ e.fact.kind = "oom" /\ \E i \in DOMAIN seen : e = seen[i]
  <2> DEFINE S == {i \in DOMAIN seen : seen[i].fact.kind = "oom" /\ Near(seen[i], exit)}
  <2>1. S # {} /\ e = seen[LastOf(S)]
    BY DEF Ooms
  <2>2. S \subseteq 1..Len(seen) /\ Len(seen) \in Nat
    BY DEF Event
  <2>3. LastOf(S) \in S
    <3> HIDE DEF S
    <3>1. QED
      BY <2>1, <2>2, LastOfIn
  <2>4. QED
    BY <2>1, <2>3
<1>4. /\ verdict[1] = "normal" => exit.fact.signal = NoSignal
      /\ verdict[1] \in {"cgroup oom", "global oom"} => exit.fact.signal = Sigkill
      /\ verdict[1] = "cgroup oom" =>
           \E e \in ooms : e.fact.oom = "memcg" /\ e.fact.cgroup = exit.fact.cgroup
      /\ verdict[1] = "global oom" => \E e \in ooms : e.fact.oom = "global"
      /\ verdict[2] \in Int
  <2> HIDE DEF signals, ooms
  <2>1. QED
    BY DEF Verdict, Medium, High, Confirmed
<1>5. lost => o.confidence <= Medium
  <2> HIDE DEF verdict, o
  <2> SUFFICES ASSUME lost PROVE o.confidence <= Medium
    OBVIOUS
  <2>1. CASE verdict[2] > Medium
    <3>1. o.confidence = Medium
      BY <1>1, <2>1, Zenon
    <3>2. QED
      BY <3>1 DEF Medium
  <2>2. CASE ~ (verdict[2] > Medium)
    <3>1. o.confidence = verdict[2]
      BY <1>1, <2>2, Zenon
    <3>2. PICK c \in Int : c = verdict[2]
      BY <1>4, Zenon
    <3>3. QED
      BY <2>2, <3>1, <3>2 DEF Medium
  <2>3. QED
    BY <2>1, <2>2
<1>6. QED
  <2> HIDE DEF signals, ooms, verdict, o
  <2>1. \A e \in o.evidence : Near(e, exit) /\ \E i \in DOMAIN seen : e = seen[i]
    BY <1>1, <1>2, <1>3
  <2>2. QED
    BY <1>1, <1>3, <1>4, <1>5, <2>1 DEF o, ReportOK

-----------------------------------------------------------------------------
CorrelatorInv == CorrelatorOK /\ TimelineInv /\ EvidenceSound /\ LossSeen

\* A record that is no loss is of a process.
LEMMA OfProcess ==
    ASSUME NEW e \in Event, e.fact.kind # "loss"
    PROVE e.fact.who \in Process /\ e.fact.kind \in {"exit", "signal", "oom"}
BY ForensicsAssumption DEF Event, Fact

\* The timeline with the record: no longer than the bound, old records and this one.
LEMMA PushedOK ==
    ASSUME CorrelatorOK, NEW e \in Event, NEW p \in Process, p = e.fact.who,
           Len(events[p]) <= MaxEvents
    PROVE /\ Pushed(e) \in Seq(Event) /\ Len(Pushed(e)) \in 1..MaxEvents
          /\ Pushed(e)[Len(Pushed(e))] = e
          /\ \A i \in DOMAIN Pushed(e) :
               Pushed(e)[i] = e \/ \E j \in DOMAIN events[p] : Pushed(e)[i] = events[p][j]
<1> USE ForensicsAssumption
<1>1. events[p] \in Seq(Event)
  BY DEF CorrelatorOK
<1>2. CASE Overflow(p)
  <2>1. events[p] # <<>>
    BY <1>2 DEF Overflow
  <2>2. Tail(events[p]) \in Seq(Event) /\ Len(Tail(events[p])) = MaxEvents - 1
    BY <1>1, <1>2, <2>1 DEF Overflow
  <2>3. Pushed(e) = Append(Tail(events[p]), e)
    BY <1>2 DEF Pushed
  <2> DEFINE t == Tail(events[p])
  <2>4. \A i \in 1..Len(t) : \E j \in DOMAIN events[p] : t[i] = events[p][j]
    BY <1>1, <2>1
  <2>5. t \in Seq(Event) /\ Len(t) \in Nat /\ Len(t) = MaxEvents - 1 /\ Pushed(e) = Append(t, e)
    BY <2>2, <2>3
  <2> HIDE DEF t
  <2>6. /\ Pushed(e) \in Seq(Event) /\ Len(Pushed(e)) = Len(t) + 1
        /\ Pushed(e)[Len(t) + 1] = e /\ \A i \in 1..Len(t) : Pushed(e)[i] = t[i]
    BY <2>5
  <2>7. DOMAIN Pushed(e) = 1..(Len(t) + 1) /\ Len(Pushed(e)) \in 1..MaxEvents
    BY <2>5, <2>6
  <2>8. ASSUME NEW i \in DOMAIN Pushed(e)
        PROVE Pushed(e)[i] = e \/ \E j \in DOMAIN events[p] : Pushed(e)[i] = events[p][j]
    <3>1. i = Len(t) + 1 \/ i \in 1..Len(t)
      BY <2>5, <2>7, <2>8
    <3>2. QED
      BY <2>4, <2>6, <3>1, Zenon
  <2>9. QED
    BY <2>6, <2>7, <2>8
<1>3. CASE ~Overflow(p)
  <2>1. Pushed(e) = Append(events[p], e)
    BY <1>3 DEF Pushed
  <2>2. QED
    BY <1>1, <1>3, <2>1 DEF Overflow
<1>4. QED
  BY <1>2, <1>3

\* When the store is full there is a timeline to evict, and its entry is the first
\* of those that still have one.
LEMMA OldestOK ==
    ASSUME CorrelatorOK, TimelineInv, NEW p \in Process, Full(p)
    PROVE /\ Oldest \in DOMAIN order /\ order[Oldest] \in Tracked
          /\ \A j \in DOMAIN order : order[j] \in Tracked => Oldest <= j
<1> DEFINE live == {i \in DOMAIN order : order[i] \in Tracked}
<1>1. Tracked # {}
  BY FS_EmptySet, ForensicsAssumption DEF Full, TimelineInv
<1>2. live # {}
  BY <1>1 DEF TimelineInv
<1>3. live \subseteq 1..Len(order) /\ Len(order) \in Nat
  BY DEF CorrelatorOK
<1>4. \E i \in live : \A j \in live : i <= j
  <2> HIDE DEF live
  <2>1. QED
    BY <1>2, <1>3, First
<1>5. QED
  BY <1>4 DEF Oldest

\* A loss record opens an epoch and leaves the timelines alone.
LEMMA LossPreserves ==
    ASSUME CorrelatorInv, NEW e \in Event, IngestLoss(e)
    PROVE CorrelatorInv'
<1> USE DEF CorrelatorInv, IngestLoss
<1>1. Tracked' = Tracked
  BY DEF Tracked
<1>2. CorrelatorOK'
  BY DEF CorrelatorOK, Tracked
<1>3. TimelineInv'
  BY <1>1 DEF TimelineInv
<1>4. EvidenceSound' /\ ~Dead'
  BY DEF EvidenceSound, Dead, Accepted
<1>5. LossSeen'
  <2>1. ASSUME NEW q \in Tracked'
        PROVE born'[q] <= epoch' /\ ((born'[q] # epoch') <=> (q \in lossSince'))
    <3>1. q \in Tracked /\ born' = born /\ born[q] \in Nat /\ epoch \in Nat
      BY <1>1, <2>1 DEF CorrelatorOK, Tracked
    <3>2. CASE e.fact.dropped = 0
      BY <3>1, <3>2 DEF LossSeen
    <3>3. CASE e.fact.dropped # 0
      <4>1. epoch' = epoch + 1 /\ q \in lossSince' /\ born[q] <= epoch
        BY <3>1, <3>3 DEF LossSeen
      <4>2. QED
        BY <3>1, <4>1
    <3>4. QED
      BY <3>2, <3>3
  <2>2. QED
    BY <1>4, <2>1 DEF LossSeen
<1>6. QED
  BY <1>2, <1>3, <1>4, <1>5

\* Any other record extends the timeline of its process, which may cost another
\* process its own, or ends it with a report.
LEMMA EventPreserves ==
    ASSUME CorrelatorInv, NEW e \in Event, IngestEvent(e)
    PROVE CorrelatorInv'
<1> DEFINE p == e.fact.who
           new == events[p] = <<>>
           death == e.fact.kind = "exit" /\ e.fact.leader
           since == IF new THEN epoch ELSE born[p]
           gone == Evicted(p) \cup (IF death THEN {p} ELSE {})
<1> USE ForensicsAssumption DEF CorrelatorInv
<1>1. p \in Process /\ e.fact.kind \in {"exit", "signal", "oom"}
  BY OfProcess DEF IngestEvent
<1>2. /\ order' = IF new THEN Append(Waiting(p), p) ELSE order
      /\ events' = [q \in Process |-> IF q \in gone THEN <<>>
                                      ELSE IF q = p THEN Pushed(e) ELSE events[q]]
      /\ born' = [q \in Process |-> IF q \in gone THEN 0
                                    ELSE IF q = p THEN since ELSE born[q]]
      /\ outcome' = IF death THEN Classify(Pushed(e), since # epoch) ELSE Accepted
      /\ delivered' = delivered \cup {e}
      /\ lossSince' = IF new THEN lossSince \ {p} ELSE lossSince
      /\ epoch' = epoch
  BY DEF IngestEvent
<1>3. Len(events[p]) <= MaxEvents
  <2>1. CASE p \in Tracked
    BY <2>1 DEF TimelineInv
  <2>2. CASE p \notin Tracked
    BY <1>1, <2>2 DEF Tracked
  <2>3. QED
    BY <2>1, <2>2
<1>4. /\ Pushed(e) \in Seq(Event) /\ Len(Pushed(e)) \in 1..MaxEvents
      /\ Pushed(e)[Len(Pushed(e))] = e
      /\ \A i \in DOMAIN Pushed(e) :
           Pushed(e)[i] = e \/ \E j \in DOMAIN events[p] : Pushed(e)[i] = events[p][j]
  BY <1>1, <1>3, PushedOK
<1>5. ASSUME Full(p)
      PROVE /\ Oldest \in DOMAIN order /\ order[Oldest] \in Tracked
            /\ \A j \in DOMAIN order : order[j] \in Tracked => Oldest <= j
  BY <1>1, <1>5, OldestOK
<1>6. Tracked' \subseteq (Tracked \ Evicted(p)) \cup {p}
  BY <1>2 DEF Tracked
<1>7. Evicted(p) \subseteq Tracked /\ p \notin Evicted(p)
  BY <1>5 DEF Evicted, Full, Tracked
<1> HIDE DEF p, new, death, since, gone
<1>8. Waiting(p) \in Seq(Process)
  <2>1. CASE Full(p)
    BY <2>1, <1>5 DEF Waiting, CorrelatorOK
  <2>2. CASE ~Full(p)
    BY <2>2 DEF Waiting, CorrelatorOK
  <2>3. QED
    BY <2>1, <2>2
<1>9. CorrelatorOK'
  <2>1. events' \in [Process -> Seq(Event)]
    BY <1>2, <1>4 DEF CorrelatorOK
  <2>2. since \in Nat
    BY <1>1 DEF CorrelatorOK, since
  <2>3. born' \in [Process -> Nat]
    BY <1>2, <2>2 DEF CorrelatorOK
  <2>4. order' \in Seq(Process)
    BY <1>1, <1>2, <1>8 DEF CorrelatorOK
  <2>5. epoch' \in Nat /\ delivered' \subseteq Event /\ lossSince' \subseteq Process
    BY <1>2 DEF CorrelatorOK
  <2>6. QED
    BY <2>1, <2>3, <2>4, <2>5 DEF CorrelatorOK
<1>10. TimelineInv'
  <2>1. IsFiniteSet(Tracked') /\ Cardinality(Tracked') <= MaxProcesses
    <3>1. /\ IsFiniteSet(Tracked) /\ Cardinality(Tracked) \in Nat
          /\ Cardinality(Tracked) <= MaxProcesses
      BY FS_CardinalityType DEF TimelineInv
    <3>2. CASE p \in Tracked
      <4>1. Tracked' \subseteq Tracked
        BY <1>6, <3>2
      <4>2. QED
        BY <3>1, <4>1, FS_Subset, FS_CardinalityType
    <3>3. CASE p \notin Tracked /\ ~Full(p)
      <4>1. Cardinality(Tracked) < MaxProcesses
        BY <1>1, <3>1, <3>3 DEF Full, Tracked
      <4>2. Tracked' \subseteq Tracked \cup {p}
        BY <1>6
      <4>3. IsFiniteSet(Tracked \cup {p}) /\ Cardinality(Tracked \cup {p}) = Cardinality(Tracked) + 1
        BY <3>1, <3>3, FS_AddElement
      <4>4. QED
        BY <3>1, <4>1, <4>2, <4>3, FS_Subset, FS_CardinalityType
    <3>4. CASE p \notin Tracked /\ Full(p)
      <4> DEFINE o == order[Oldest]
                 rest == Tracked \ {o}
      <4>1. Evicted(p) = {o} /\ o \in Tracked
        BY <1>5, <3>4 DEF Evicted
      <4>2. /\ IsFiniteSet(rest) /\ Cardinality(rest) = Cardinality(Tracked) - 1
        BY <3>1, <4>1, FS_RemoveElement
      <4>3. /\ IsFiniteSet(rest \cup {p}) /\ Cardinality(rest \cup {p}) = Cardinality(Tracked)
        <5>1. p \notin rest
          BY <3>4
        <5> HIDE DEF rest
        <5>2. IsFiniteSet(rest \cup {p}) /\ Cardinality(rest \cup {p}) = Cardinality(rest) + 1
          BY <4>2, <5>1, FS_AddElement
        <5>3. QED
          BY <3>1, <4>2, <5>2
      <4>4. Tracked' \subseteq rest \cup {p}
        BY <1>6, <4>1
      <4>5. QED
        BY <3>1, <4>3, <4>4, FS_Subset, FS_CardinalityType
    <3>5. QED
      BY <3>2, <3>3, <3>4
  <2>2. ASSUME NEW q \in Tracked' PROVE \E i \in DOMAIN order' : order'[i] = q
    <3>1. q \in Process
      BY <2>2 DEF Tracked
    <3>2. CASE q = p /\ new
      <4>1. order' = Append(Waiting(p), q)
        BY <1>2, <3>2
      <4>2. QED
        BY <1>8, <3>1, <4>1, AppendProperties
    <3>3. CASE ~new
      <4>1. order' = order /\ q \in Tracked
        BY <1>1, <1>2, <1>6, <2>2, <3>3 DEF new, Tracked
      <4>2. QED
        BY <4>1 DEF TimelineInv
    <3>4. CASE q # p /\ new
      <4>1. q \in Tracked /\ q \notin Evicted(p)
        BY <1>6, <2>2, <3>4
      <4>2. PICK j \in DOMAIN order : order[j] = q
        BY <4>1 DEF TimelineInv
      <4>3. \E i \in DOMAIN Waiting(p) : Waiting(p)[i] = q
        <5>1. CASE ~Full(p)
          BY <4>2, <5>1 DEF Waiting
        <5>2. CASE Full(p)
          <6>1. Oldest <= j /\ Oldest # j
            BY <1>5, <4>1, <4>2, <5>2 DEF Evicted
          <6>2. Waiting(p) = SubSeq(order, Oldest + 1, Len(order))
            BY <5>2 DEF Waiting
          <6>3. order \in Seq(Process) /\ Oldest \in 1..Len(order) /\ j \in 1..Len(order)
            BY <1>5, <4>2, <5>2 DEF CorrelatorOK
          <6>4. j - Oldest \in DOMAIN Waiting(p) /\ Waiting(p)[j - Oldest] = order[j]
            BY <6>1, <6>2, <6>3
          <6>5. QED
            BY <4>2, <6>4
        <5>3. QED
          BY <5>1, <5>2
      <4>4. PICK i \in DOMAIN Waiting(p) : Waiting(p)[i] = q
        BY <4>3
      <4>5. i \in DOMAIN Append(Waiting(p), p) /\ Append(Waiting(p), p)[i] = q
        BY <1>1, <1>8, <4>4, AppendProperties
      <4>6. QED
        BY <1>2, <3>4, <4>5
    <3>5. QED
      BY <3>2, <3>3, <3>4
  <2>3. ASSUME NEW q \in Tracked'
        PROVE /\ Len(events'[q]) <= MaxEvents
              /\ \A i \in DOMAIN events'[q] :
                   LET f == events'[q][i].fact
                   IN /\ f.kind \in {"exit", "signal", "oom"} /\ f.who = q
                      /\ f.kind = "exit" => ~f.leader
                      /\ events'[q][i] \in delivered'
    <3>1. q \in Process /\ q \notin gone
      BY <1>2, <2>3 DEF Tracked
    <3>2. CASE q # p
      <4>1. events'[q] = events[q] /\ q \in Tracked
        BY <1>2, <1>6, <2>3, <3>1, <3>2
      <4>2. QED
        BY <1>2, <4>1 DEF TimelineInv
    <3>3. CASE q = p
      <4>1. events'[q] = Pushed(e) /\ ~death
        BY <1>2, <3>1, <3>3 DEF gone
      <4>2. ASSUME NEW i \in DOMAIN Pushed(e)
            PROVE LET f == Pushed(e)[i].fact
                  IN /\ f.kind \in {"exit", "signal", "oom"} /\ f.who = p
                     /\ f.kind = "exit" => ~f.leader
                     /\ Pushed(e)[i] \in delivered'
        <5>1. CASE Pushed(e)[i] = e
          BY <1>1, <1>2, <4>1, <5>1 DEF p, death
        <5>2. CASE Pushed(e)[i] # e
          <6>1. PICK j \in DOMAIN events[p] : Pushed(e)[i] = events[p][j]
            BY <1>4, <5>2
          <6>2. p \in Tracked
            BY <1>1, <6>1 DEF Tracked
          <6>3. QED
            BY <1>2, <6>1, <6>2 DEF TimelineInv
        <5>3. QED
          BY <5>1, <5>2
      <4>3. QED
        BY <1>4, <3>3, <4>1, <4>2
    <3>4. QED
      BY <3>2, <3>3
  <2>4. QED
    BY <2>1, <2>2, <2>3 DEF TimelineInv
<1>11. CASE death
  <2>1. \A q \in Process : q = p => q \notin Tracked'
    BY <1>2, <1>11 DEF gone, Tracked
  <2>2. outcome' = Classify(Pushed(e), since # epoch)
    BY <1>2, <1>11
  <2>3. \A i \in DOMAIN Pushed(e) : Pushed(e)[i] \in delivered' /\ Pushed(e)[i].fact.who = p
    <3>1. ASSUME NEW i \in DOMAIN Pushed(e)
          PROVE Pushed(e)[i] \in delivered' /\ Pushed(e)[i].fact.who = p
      <4>1. CASE Pushed(e)[i] = e
        BY <1>2, <4>1 DEF p
      <4>2. CASE Pushed(e)[i] # e
        <5>1. PICK j \in DOMAIN events[p] : Pushed(e)[i] = events[p][j]
          BY <1>4, <4>2
        <5>2. p \in Tracked
          BY <1>1, <5>1 DEF Tracked
        <5>3. QED
          BY <1>2, <5>1, <5>2 DEF TimelineInv
      <4>3. QED
        BY <4>1, <4>2
    <3>2. QED
      BY <3>1
  <2>4. /\ outcome'.kind = "death" /\ outcome'.who = e.fact.who /\ outcome'.exit = e
        /\ outcome'.incomplete = (since # epoch)
        /\ \A f \in outcome'.evidence : Near(f, e) /\ \E i \in DOMAIN Pushed(e) : f = Pushed(e)[i]
        /\ outcome'.cause \in {"cgroup oom", "global oom"} => e.fact.signal = Sigkill
        /\ outcome'.cause = "cgroup oom" =>
             \E f \in outcome'.evidence : /\ f.fact.kind = "oom" /\ f.fact.oom = "memcg"
                                         /\ f.fact.cgroup = e.fact.cgroup
        /\ outcome'.cause = "global oom" =>
             \E f \in outcome'.evidence : f.fact.kind = "oom" /\ f.fact.oom = "global"
        /\ outcome'.cause = "normal" => e.fact.signal = NoSignal
        /\ (since # epoch) => outcome'.confidence <= Medium
    <3>1. Len(Pushed(e)) >= 1 /\ (since # epoch) \in BOOLEAN
      BY <1>4
    <3>2. ReportOK(Classify(Pushed(e), since # epoch), Pushed(e), e, since # epoch)
      BY <1>4, <3>1, Classified
    <3>3. QED
      BY <2>2, <3>2, Zenon DEF ReportOK
  <2>5. EvidenceSound'
    <3>1. \A f \in outcome'.evidence :
            f \in delivered' /\ f.fact.who = outcome'.who /\ Near(f, outcome'.exit)
      <4>1. ASSUME NEW f \in outcome'.evidence
            PROVE f \in delivered' /\ f.fact.who = outcome'.who /\ Near(f, outcome'.exit)
        <5>1. outcome'.exit = e /\ outcome'.who = p
          BY <2>4, Zenon DEF p
        <5>2. PICK i \in DOMAIN Pushed(e) : f = Pushed(e)[i]
          BY <2>4, Zenon
        <5>3. f \in delivered' /\ f.fact.who = p
          BY <2>3, <5>2, Zenon
        <5>4. Near(f, e)
          BY <2>4, Zenon
        <5>5. QED
          BY <5>1, <5>3, <5>4, Zenon
      <4>2. QED
        BY <4>1, Zenon
    <3>2. /\ outcome'.cause \in {"cgroup oom", "global oom"} => outcome'.exit.fact.signal = Sigkill
          /\ outcome'.cause = "normal" => outcome'.exit.fact.signal = NoSignal
          /\ outcome'.incomplete => outcome'.confidence <= Medium
      BY <2>4, Zenon
    <3>3. outcome'.cause = "cgroup oom" =>
            \E f \in outcome'.evidence : /\ f.fact.kind = "oom" /\ f.fact.oom = "memcg"
                                         /\ f.fact.cgroup = outcome'.exit.fact.cgroup
      BY <2>4, Zenon
    <3>4. outcome'.cause = "global oom" =>
            \E f \in outcome'.evidence : f.fact.kind = "oom" /\ f.fact.oom = "global"
      BY <2>4, Zenon
    <3>5. QED
      BY <3>1, <3>2, <3>3, <3>4, Zenon DEF EvidenceSound, Near
  <2>6. LossSeen'
    <3>1. (since # epoch) <=> (p \in lossSince')
      <4>1. CASE new
        BY <1>2, <4>1 DEF since
      <4>2. CASE ~new
        BY <1>1, <1>2, <4>2 DEF since, new, Tracked, LossSeen
      <4>3. QED
        BY <4>1, <4>2
    <3>2. ASSUME NEW q \in Tracked'
          PROVE born'[q] <= epoch' /\ ((born'[q] # epoch') <=> (q \in lossSince'))
      BY <1>2, <1>6, <2>1, <3>2 DEF Tracked, LossSeen
    <3>3. Dead' => (outcome'.incomplete <=> (outcome'.who \in lossSince'))
      BY <2>4, <3>1, Zenon DEF p
    <3>4. QED
      BY <3>2, <3>3 DEF LossSeen
  <2>7. QED
    BY <1>9, <1>10, <2>5, <2>6
<1>12. CASE ~death
  <2>1. EvidenceSound' /\ ~Dead'
    BY <1>2, <1>12 DEF EvidenceSound, Dead, Accepted
  <2>2. ASSUME NEW q \in Tracked'
        PROVE born'[q] <= epoch' /\ ((born'[q] # epoch') <=> (q \in lossSince'))
    <3>1. q \in Process /\ q \notin gone
      BY <1>2, <2>2 DEF Tracked
    <3>2. CASE q # p
      <4>1. q \in Tracked /\ born'[q] = born[q]
        BY <1>2, <1>6, <2>2, <3>1, <3>2
      <4>2. QED
        BY <1>2, <3>2, <4>1 DEF LossSeen
    <3>3. CASE q = p /\ new
      <4>1. born'[q] = epoch /\ epoch \in Nat
        BY <1>2, <3>1, <3>3 DEF since, CorrelatorOK
      <4>2. QED
        BY <1>2, <3>3, <4>1
    <3>4. CASE q = p /\ ~new
      <4>1. born'[q] = born[q] /\ q \in Tracked
        BY <1>2, <3>1, <3>4 DEF since, new, Tracked
      <4>2. QED
        BY <1>2, <3>4, <4>1 DEF LossSeen
    <3>5. QED
      BY <3>2, <3>3, <3>4
  <2>3. QED
    BY <1>9, <1>10, <2>1, <2>2 DEF LossSeen
<1>13. QED
  BY <1>11, <1>12

-----------------------------------------------------------------------------
ForensicsInv == QueuesOK /\ CorrelatorInv

LEMMA IngestPreserves ==
    ASSUME CorrelatorInv, NEW e \in Event, Ingest(e)
    PROVE CorrelatorInv'
BY LossPreserves, EventPreserves DEF Ingest

\* Producer and consumer steps (PriorityIngress, Correlator::ingest).
THEOREM ForensicsInvariant == Spec => []ForensicsInv
<1> USE ForensicsAssumption
<1>1. Init => ForensicsInv
  <2> SUFFICES ASSUME Init PROVE ForensicsInv
    OBVIOUS
  <2>1. Tracked = {}
    BY DEF Init, Tracked
  <2>2. QueuesOK /\ CorrelatorOK
    BY DEF Init, QueuesOK, CorrelatorOK
  <2>3. TimelineInv
    BY <2>1, FS_EmptySet DEF TimelineInv
  <2>4. ~Dead
    BY DEF Init, Dead, Accepted
  <2>5. EvidenceSound /\ LossSeen
    BY <2>1, <2>4 DEF EvidenceSound, LossSeen
  <2>6. QED
    BY <2>2, <2>3, <2>5 DEF ForensicsInv, CorrelatorInv
<1>2. ForensicsInv /\ [Next]_vars => ForensicsInv'
  <2> SUFFICES ASSUME ForensicsInv, [Next]_vars PROVE ForensicsInv'
    OBVIOUS
  <2> USE DEF ForensicsInv
  <2>1. ASSUME UNCHANGED <<correlator, history>> PROVE CorrelatorInv'
    <3>1. /\ events' = events /\ born' = born /\ order' = order /\ epoch' = epoch
          /\ outcome' = outcome /\ delivered' = delivered /\ lossSince' = lossSince
      BY <2>1 DEF correlator, history
    <3>2. Tracked' = Tracked
      BY <3>1 DEF Tracked
    <3>3. CorrelatorOK'
      BY <3>1 DEF CorrelatorInv, CorrelatorOK
    <3>4. TimelineInv'
      BY <3>1, <3>2 DEF CorrelatorInv, TimelineInv
    <3>5. EvidenceSound'
      <4>1. EvidenceSound
        BY DEF CorrelatorInv
      <4>2. QED
        BY <3>1, <4>1, Zenon DEF EvidenceSound, Dead, Near
    <3>6. LossSeen'
      <4>1. LossSeen
        BY DEF CorrelatorInv
      <4>2. QED
        BY <3>1, <3>2, <4>1, Zenon DEF LossSeen, Dead
    <3>7. QED
      BY <3>3, <3>4, <3>5, <3>6 DEF CorrelatorInv
  <2>2. ASSUME NEW f \in Facts, NEW t \in clock..MaxTime, PushCritical(f, t)
        PROVE ForensicsInv'
    <3>1. [fact |-> f, time |-> t] \in Event /\ clock' \in 0..MaxTime
      BY <2>2 DEF Event, QueuesOK, PushCritical, Sent
    <3>2. QueuesOK'
      <4> DEFINE e == [fact |-> f, time |-> t]
      <4>1. critical' = Append(critical, e) \/ critical' = critical
        BY <2>2, Zenon DEF PushCritical
      <4>2. auxiliary' = auxiliary /\ critical \in Seq(Event) /\ e \in Event
        BY <2>2, <3>1 DEF QueuesOK, PushCritical
      <4> HIDE DEF e
      <4>3. critical' \in Seq(Event)
        BY <4>1, <4>2
      <4>4. QED
        BY <3>1, <4>2, <4>3 DEF QueuesOK
    <3>3. QED
      BY <2>1, <2>2, <3>2 DEF PushCritical
  <2>3. ASSUME NEW f \in Facts, NEW t \in clock..MaxTime, PushAuxiliary(f, t)
        PROVE ForensicsInv'
    <3>1. [fact |-> f, time |-> t] \in Event /\ clock' \in 0..MaxTime
      BY <2>3 DEF Event, QueuesOK, PushAuxiliary, Sent
    <3>2. QueuesOK'
      <4> DEFINE e == [fact |-> f, time |-> t]
      <4>1. auxiliary' = Append(auxiliary, e) \/ auxiliary' = auxiliary
        BY <2>3, Zenon DEF PushAuxiliary
      <4>2. critical' = critical /\ auxiliary \in Seq(Event) /\ e \in Event
        BY <2>3, <3>1 DEF QueuesOK, PushAuxiliary
      <4> HIDE DEF e
      <4>3. auxiliary' \in Seq(Event)
        BY <4>1, <4>2
      <4>4. QED
        BY <3>1, <4>2, <4>3 DEF QueuesOK
    <3>3. QED
      BY <2>1, <2>3, <3>2 DEF PushAuxiliary
  <2>4. CASE Malformed
    BY <2>1, <2>4 DEF Malformed, QueuesOK, kernel
  <2>5. CASE PopCritical
    <3>1. critical # <<>> /\ critical' = Tail(critical) /\ Ingest(Head(critical))
      BY <2>5 DEF PopCritical
    <3>2. Head(critical) \in Event /\ Tail(critical) \in Seq(Event)
      BY <3>1 DEF QueuesOK
    <3>3. QueuesOK'
      BY <2>5, <3>1, <3>2 DEF QueuesOK, PopCritical, kernel
    <3>4. QED
      BY <3>1, <3>2, <3>3, IngestPreserves
  <2>6. CASE PollAuxiliary
    BY <2>1, <2>6 DEF PollAuxiliary, QueuesOK, kernel
  <2>7. CASE PopAuxiliary /\ auxiliary = <<>>
    BY <2>1, <2>7 DEF PopAuxiliary, QueuesOK, kernel
  <2>8. CASE PopAuxiliary /\ auxiliary # <<>>
    <3>1. auxiliary' = Tail(auxiliary) /\ Ingest(Head(auxiliary))
      BY <2>8 DEF PopAuxiliary
    <3>2. Head(auxiliary) \in Event /\ Tail(auxiliary) \in Seq(Event)
      BY <2>8 DEF QueuesOK
    <3>3. QueuesOK'
      BY <2>8, <3>1, <3>2 DEF QueuesOK, PopAuxiliary, kernel
    <3>4. QED
      BY <3>1, <3>2, <3>3, IngestPreserves
  <2>9. CASE UNCHANGED vars
    BY <2>1, <2>9 DEF vars, QueuesOK, kernel, ingress
  <2>10. QED
    BY <2>2, <2>3, <2>4, <2>5, <2>6, <2>7, <2>8, <2>9 DEF Next
<1>3. QED
  BY <1>1, <1>2, PTL DEF Spec

\* The store of timelines is bounded and every timeline in it can be evicted
\* (ensure_capacity).
THEOREM TimelinesBounded == Spec => []TimelineInv
<1>1. ForensicsInv => TimelineInv
  BY DEF ForensicsInv, CorrelatorInv
<1>2. QED
  BY <1>1, ForensicsInvariant, PTL

\* No report names a cause without a delivered record of that process in the causal
\* window (classify).
THEOREM ReportsSound == Spec => []EvidenceSound
<1>1. ForensicsInv => EvidenceSound
  BY DEF ForensicsInv, CorrelatorInv
<1>2. QED
  BY <1>1, ForensicsInvariant, PTL

\* A report is marked incomplete exactly when a loss was recorded while its timeline
\* was kept (loss_epoch_at_creation).
THEOREM LossesSeen == Spec => []LossSeen
<1>1. ForensicsInv => LossSeen
  BY DEF ForensicsInv, CorrelatorInv
<1>2. QED
  BY <1>1, ForensicsInvariant, PTL
-----------------------------------------------------------------------------
\* The counters of the ingress are numbers and add up.
CountersInv ==
    /\ received \in Nat /\ popped \in Nat /\ criticalDropped \in Nat /\ auxiliaryDropped \in Nat
    /\ Accounted

\* No record is lost without a trace between the ring buffer and the correlator: it
\* was popped, waits in a queue or was counted (PriorityIngress::push, try_pop).
THEOREM RecordsAccounted == Spec => []Accounted
<1> USE DEF Accounted
<1>1. Init => CountersInv
  BY DEF Init, CountersInv
<1>2. ForensicsInv /\ CountersInv /\ [Next]_vars => CountersInv'
  <2> SUFFICES ASSUME ForensicsInv, CountersInv, [Next]_vars PROVE CountersInv'
    OBVIOUS
  <2> USE DEF CountersInv
  <2>1. critical \in Seq(Event) /\ auxiliary \in Seq(Event)
    BY DEF ForensicsInv, QueuesOK
  <2>2. ASSUME NEW f \in Facts, NEW t \in clock..MaxTime, PushCritical(f, t)
        PROVE CountersInv'
    <3> DEFINE e == [fact |-> f, time |-> t]
    <3>1. e \in Event
      BY <2>2, ForensicsAssumption DEF Event, ForensicsInv, QueuesOK
    <3>2. Len(Append(critical, e)) = Len(critical) + 1
      <4> HIDE DEF e
      <4>1. QED
        BY <2>1, <3>1, AppendProperties
    <3>3. QED
      BY <2>1, <2>2, <3>2 DEF PushCritical, history
  <2>3. ASSUME NEW f \in Facts, NEW t \in clock..MaxTime, PushAuxiliary(f, t)
        PROVE CountersInv'
    <3> DEFINE e == [fact |-> f, time |-> t]
    <3>1. e \in Event
      BY <2>3, ForensicsAssumption DEF Event, ForensicsInv, QueuesOK
    <3>2. Len(Append(auxiliary, e)) = Len(auxiliary) + 1
      <4> HIDE DEF e
      <4>1. QED
        BY <2>1, <3>1, AppendProperties
    <3>3. QED
      BY <2>1, <2>3, <3>2 DEF PushAuxiliary, history
  <2>4. CASE PopCritical
    <3>1. Len(Tail(critical)) = Len(critical) - 1
      BY <2>1, <2>4 DEF PopCritical
    <3>2. QED
      BY <2>1, <2>4, <3>1 DEF PopCritical, Ingest, counters
  <2>5. CASE PopAuxiliary /\ auxiliary = <<>>
    BY <2>5 DEF PopAuxiliary, counters, history
  <2>6. CASE PopAuxiliary /\ auxiliary # <<>>
    <3>1. Len(Tail(auxiliary)) = Len(auxiliary) - 1
      BY <2>1, <2>6
    <3>2. QED
      BY <2>1, <2>6, <3>1 DEF PopAuxiliary, Ingest, counters
  <2>7. CASE Malformed \/ PollAuxiliary \/ UNCHANGED vars
    BY <2>7 DEF Malformed, PollAuxiliary, vars, ingress, counters, history
  <2>8. QED
    BY <2>2, <2>3, <2>4, <2>5, <2>6, <2>7 DEF Next
<1>3. CountersInv => Accounted
  BY DEF CountersInv
<1>4. QED
  BY <1>1, <1>2, <1>3, ForensicsInvariant, PTL DEF Spec

-----------------------------------------------------------------------------
\* A record of the timeline that is not the one pushed out stays in it, before the
\* new record.
LEMMA PushedKeeps ==
    ASSUME CorrelatorOK, NEW e \in Event, NEW p \in Process, p = e.fact.who,
           NEW d \in Contents(p), Overflow(p) => d # Head(events[p])
    PROVE \E i \in DOMAIN Pushed(e) : Pushed(e)[i] = d
<1> USE ForensicsAssumption
<1>1. events[p] \in Seq(Event)
  BY DEF CorrelatorOK
<1>2. PICK j \in DOMAIN events[p] : d = events[p][j]
  BY DEF Contents
<1>3. CASE Overflow(p)
  <2>1. j \in 2..Len(events[p]) /\ events[p] # <<>>
    BY <1>1, <1>2, <1>3
  <2>2. Pushed(e) = Append(Tail(events[p]), e)
    BY <1>3 DEF Pushed
  <2>3. /\ Tail(events[p]) \in Seq(Event) /\ Len(Tail(events[p])) = Len(events[p]) - 1
        /\ Tail(events[p])[j - 1] = events[p][j]
    BY <1>1, <2>1
  <2>4. j - 1 \in DOMAIN Pushed(e) /\ Pushed(e)[j - 1] = d
    BY <1>1, <1>2, <2>1, <2>2, <2>3
  <2>5. QED
    BY <2>4
<1>4. CASE ~Overflow(p)
  <2>1. Pushed(e) = Append(events[p], e)
    BY <1>4 DEF Pushed
  <2>2. j \in DOMAIN Pushed(e) /\ Pushed(e)[j] = d
    BY <1>1, <1>2, <2>1
  <2>3. QED
    BY <2>2
<1>5. QED
  BY <1>3, <1>4

\* An OOM record of the timeline near the exit puts one into the report.
LEMMA OomFound ==
    ASSUME NEW seen \in Seq(Event), NEW lost \in BOOLEAN,
           NEW exit, exit = seen[Len(seen)],
           NEW i \in DOMAIN seen, seen[i].fact.kind = "oom", Near(seen[i], exit)
    PROVE \E e \in Classify(seen, lost).evidence : e.fact.kind = "oom"
<1> DEFINE S == {j \in DOMAIN seen : seen[j].fact.kind = "oom" /\ Near(seen[j], exit)}
<1>1. S # {} /\ S \subseteq 1..Len(seen) /\ Len(seen) \in Nat
  OBVIOUS
<1>2. LastOf(S) \in S
  <2> HIDE DEF S
  <2>1. QED
    BY <1>1, LastOfIn
<1>3. Ooms(seen, exit) = {seen[LastOf(S)]}
  BY <1>1 DEF Ooms
<1>4. seen[LastOf(S)] \in Classify(seen, lost).evidence
  BY <1>3 DEF Classify
<1>5. QED
  BY <1>2, <1>4

\* A loss record neither delivers nor forgets a record.
LEMMA LossOverlooksNothing ==
    ASSUME TimelinesComplete, NEW e, IngestLoss(e)
    PROVE TimelinesComplete' /\ NothingOverlooked' /\ Closed' = Closed
<1>1. delivered' = delivered /\ forgotten' = forgotten /\ events' = events
  BY DEF IngestLoss
<1>2. ~Dead'
  BY DEF IngestLoss, Dead, Accepted
<1>3. QED
  BY <1>1, <1>2 DEF TimelinesComplete, NothingOverlooked, Closed, Contents

\* Any other record joins its timeline, whose other records stay unless they are
\* forgotten; the exit of a leader that was not seen before finds them all.
LEMMA EventOverlooksNothing ==
    ASSUME CorrelatorInv, TimelinesComplete, NEW e \in Event, IngestEvent(e),
           Ends(e) => e.fact.who \notin Closed
    PROVE /\ TimelinesComplete' /\ NothingOverlooked'
          /\ Closed' = Closed \cup (IF Ends(e) THEN {e.fact.who} ELSE {})
<1> DEFINE p == e.fact.who
           since == IF events[p] = <<>> THEN epoch ELSE born[p]
           gone == Evicted(p) \cup (IF Ends(e) THEN {p} ELSE {})
<1> USE ForensicsAssumption
<1>1. /\ p \in Process /\ e.fact.kind \in {"exit", "signal", "oom"}
  BY OfProcess DEF IngestEvent
<1>2. /\ events' = [q \in Process |-> IF q \in gone THEN <<>>
                                      ELSE IF q = p THEN Pushed(e) ELSE events[q]]
      /\ outcome' = IF Ends(e) THEN Classify(Pushed(e), since # epoch) ELSE Accepted
      /\ delivered' = delivered \cup {e}
      /\ forgotten' = forgotten \cup (UNION {Contents(q) : q \in Evicted(p)})
                                \cup (IF Overflow(p) THEN {Head(events[p])} ELSE {})
  BY DEF IngestEvent, Ends
<1>3. Closed' = Closed \cup (IF Ends(e) THEN {p} ELSE {})
  BY <1>2 DEF Closed, Ends
<1>4. Len(events[p]) <= MaxEvents
  <2>1. CASE p \in Tracked
    BY <2>1 DEF CorrelatorInv, TimelineInv
  <2>2. CASE p \notin Tracked
    BY <1>1, <2>2 DEF Tracked
  <2>3. QED
    BY <2>1, <2>2
<1>5. /\ Pushed(e) \in Seq(Event) /\ Len(Pushed(e)) \in 1..MaxEvents
      /\ Pushed(e)[Len(Pushed(e))] = e
  BY <1>1, <1>4, PushedOK DEF CorrelatorInv
<1>6. p \notin Evicted(p)
  <2>1. CASE Full(p)
    BY <2>1, OldestOK, <1>1 DEF Evicted, Full, Tracked, CorrelatorInv
  <2>2. CASE ~Full(p)
    BY <2>2 DEF Evicted
  <2>3. QED
    BY <2>1, <2>2
<1> HIDE DEF p, since, gone
<1>7. ASSUME NEW d \in delivered, d \notin forgotten', d.fact.who = p, p \notin Closed
      PROVE \E i \in DOMAIN Pushed(e) : Pushed(e)[i] = d
  <2>1. d \notin forgotten /\ (Overflow(p) => d # Head(events[p]))
    <3>1. forgotten \cup (IF Overflow(p) THEN {Head(events[p])} ELSE {}) \subseteq forgotten'
      BY <1>2, Zenon
    <3>2. QED
      BY <1>7, <3>1
  <2>2. d \in Contents(p)
    BY <1>7, <2>1 DEF TimelinesComplete
  <2>3. QED
    BY <1>1, <2>1, <2>2, PushedKeeps DEF CorrelatorInv, p
<1>8. TimelinesComplete'
  <2> SUFFICES ASSUME NEW d \in delivered'
               PROVE /\ d.fact.kind # "loss"
                     /\ d \notin forgotten' /\ d.fact.who \notin Closed' =>
                          d \in Contents(d.fact.who)'
    BY DEF TimelinesComplete
  <2>1. d.fact.kind # "loss"
    BY <1>1, <1>2 DEF TimelinesComplete
  <2>2. ASSUME d \notin forgotten', d.fact.who \notin Closed'
        PROVE d \in Contents(d.fact.who)'
    <3>1. d.fact.who \in Process
      BY <1>2, <2>1, OfProcess DEF CorrelatorInv, CorrelatorOK
    <3>2. CASE d.fact.who = p
      <4>1. ~Ends(e) /\ p \notin Closed
        BY <1>3, <2>2, <3>2
      <4>2. events'[p] = Pushed(e)
        BY <1>1, <1>2, <1>6, <4>1 DEF gone
      <4>3. \E i \in DOMAIN Pushed(e) : Pushed(e)[i] = d
        <5>1. CASE d = e
          BY <1>5, <5>1
        <5>2. CASE d # e
          BY <1>2, <1>7, <2>2, <3>2, <4>1, <5>2
        <5>3. QED
          BY <5>1, <5>2
      <4>4. QED
        BY <3>2, <4>2, <4>3 DEF Contents
    <3>3. CASE d.fact.who # p
      <4>1. d \in delivered /\ d \notin forgotten /\ d.fact.who \notin Closed
        BY <1>2, <1>3, <2>2, <3>3 DEF p
      <4>2. d \in Contents(d.fact.who)
        BY <4>1 DEF TimelinesComplete
      <4>3. d.fact.who \notin Evicted(p)
        BY <1>2, <2>2, <4>2
      <4>4. events'[d.fact.who] = events[d.fact.who]
        BY <1>2, <3>1, <3>3, <4>3 DEF gone
      <4>5. QED
        BY <4>2, <4>4 DEF Contents
    <3>4. QED
      BY <3>2, <3>3
  <2>3. QED
    BY <2>1, <2>2
<1>9. NothingOverlooked'
  <2>1. CASE ~Ends(e)
    BY <1>2, <2>1 DEF NothingOverlooked, Dead, Accepted
  <2>2. CASE Ends(e)
    <3>1. outcome' = Classify(Pushed(e), since # epoch)
      BY <1>2, <2>2
    <3>2. outcome'.who = p /\ outcome'.exit = e
      BY <1>5, <3>1 DEF Classify, p
    <3>3. ASSUME NEW d \in delivered' \ forgotten', d.fact.kind = "oom", d.fact.who = p,
                 Near(d, e)
          PROVE \E f \in outcome'.evidence : f.fact.kind = "oom"
      <4>1. d \in delivered /\ p \notin Closed
        BY <1>2, <2>2, <3>3 DEF Ends, p
      <4>2. PICK i \in DOMAIN Pushed(e) : Pushed(e)[i] = d
        BY <1>7, <3>3, <4>1
      <4>3. (since # epoch) \in BOOLEAN
        OBVIOUS
      <4>4. QED
        BY <1>5, <3>1, <3>3, <4>2, <4>3, OomFound
    <3>4. QED
      BY <3>2, <3>3 DEF NothingOverlooked, Near
  <2>3. QED
    BY <2>1, <2>2
<1>10. QED
  BY <1>3, <1>8, <1>9 DEF p

\* No kernel or queue step changes what was delivered, forgotten or reported.
LEMMA NothingHappens ==
    ASSUME TimelinesComplete, NothingOverlooked, UNCHANGED <<correlator, history>>
    PROVE TimelinesComplete' /\ NothingOverlooked' /\ Closed' = Closed
<1>1. /\ events' = events /\ outcome' = outcome
      /\ delivered' = delivered /\ forgotten' = forgotten
  BY DEF correlator, history
<1>2. Closed' = Closed
  BY <1>1 DEF Closed
<1>3. TimelinesComplete'
  BY <1>1, <1>2 DEF TimelinesComplete, Contents
<1>4. NothingOverlooked'
  <2>1. NothingOverlooked
    OBVIOUS
  <2>2. QED
    BY <1>1, <2>1, Zenon DEF NothingOverlooked, Dead, Near
<1>5. QED
  BY <1>2, <1>3, <1>4

LEMMA ApartEither ==
    ASSUME NEW queue, NEW other, Apart(queue, other)
    PROVE Apart(other, queue)
BY DEF Apart

\* A queue that gains the exit of a leader that is nowhere yet.
LEMMA SentOnce ==
    ASSUME NEW queue \in Seq(Event), NEW other \in Seq(Event), NEW e \in Event,
           NEW longer, longer = queue \/ longer = Append(queue, e),
           NEW open, NEW wider, open \subseteq wider,
           Ends(e) => e.fact.who \in wider /\ e.fact.who \notin open,
           OnceIn(queue, open), OnceIn(other, open), Apart(queue, other)
    PROVE OnceIn(longer, wider) /\ OnceIn(other, wider) /\ Apart(longer, other)
<1>1. \A i \in DOMAIN longer :
        \/ i \in DOMAIN queue /\ longer[i] = queue[i]
        \/ i = Len(queue) + 1 /\ longer[i] = e
  <2>1. CASE longer = queue
    BY <2>1
  <2>2. CASE longer = Append(queue, e)
    BY <2>2, AppendProperties
  <2>3. QED
    BY <2>1, <2>2
<1>2. \A i \in DOMAIN queue : Ends(queue[i]) => queue[i].fact.who \in open
  BY DEF OnceIn
<1>3. \A i \in DOMAIN other : Ends(other[i]) => other[i].fact.who \in open
  BY DEF OnceIn
<1>4. ASSUME NEW i \in DOMAIN longer, NEW j \in DOMAIN longer, Ends(longer[i]), Ends(longer[j]),
             longer[j].fact.who = longer[i].fact.who
      PROVE j = i
  <2>1. CASE i \in DOMAIN queue /\ j \in DOMAIN queue /\ longer[i] = queue[i] /\ longer[j] = queue[j]
    BY <1>4, <2>1 DEF OnceIn
  <2>2. CASE i = Len(queue) + 1 /\ j = Len(queue) + 1
    BY <2>2
  <2>3. CASE i \in DOMAIN queue /\ longer[i] = queue[i] /\ longer[j] = e
    BY <1>2, <1>4, <2>3
  <2>4. CASE j \in DOMAIN queue /\ longer[j] = queue[j] /\ longer[i] = e
    BY <1>2, <1>4, <2>4
  <2>5. QED
    BY <1>1, <2>1, <2>2, <2>3, <2>4
<1>5. \A i \in DOMAIN longer : Ends(longer[i]) => longer[i].fact.who \in wider
  BY <1>1, <1>2
<1>6. OnceIn(longer, wider)
  BY <1>4, <1>5 DEF OnceIn
<1>7. OnceIn(other, wider)
  BY DEF OnceIn
<1>8. Apart(longer, other)
  BY <1>1, <1>3 DEF Apart
<1>9. QED
  BY <1>6, <1>7, <1>8

\* A queue that gives up its first record: no other leader exit is of that process.
LEMMA TakenOnce ==
    ASSUME NEW queue \in Seq(Event), queue # <<>>, NEW other \in Seq(Event),
           NEW e, e = Head(queue), NEW open, NEW fewer,
           \A p \in open : p \in fewer \/ (Ends(e) /\ p = e.fact.who),
           OnceIn(queue, open), OnceIn(other, open), Apart(queue, other)
    PROVE OnceIn(Tail(queue), fewer) /\ OnceIn(other, fewer) /\ Apart(Tail(queue), other)
<1>1. e = queue[1] /\ 1 \in DOMAIN queue
  OBVIOUS
<1>2. \A i \in DOMAIN Tail(queue) :
        i \in Nat /\ i + 1 \in DOMAIN queue /\ i + 1 # 1 /\ Tail(queue)[i] = queue[i + 1]
  OBVIOUS
<1>3. ASSUME NEW i \in DOMAIN Tail(queue), Ends(Tail(queue)[i])
      PROVE /\ Tail(queue)[i].fact.who \in fewer
            /\ \A j \in DOMAIN Tail(queue) :
                 Ends(Tail(queue)[j]) /\ Tail(queue)[j].fact.who = Tail(queue)[i].fact.who => j = i
  <2>1. /\ queue[i + 1].fact.who \in open
        /\ \A k \in DOMAIN queue :
             Ends(queue[k]) /\ queue[k].fact.who = queue[i + 1].fact.who => k = i + 1
    BY <1>2, <1>3 DEF OnceIn
  <2>2. Ends(e) => e.fact.who # queue[i + 1].fact.who
    BY <1>1, <1>2, <2>1
  <2>3. \A j \in DOMAIN Tail(queue) :
          Ends(Tail(queue)[j]) /\ Tail(queue)[j].fact.who = Tail(queue)[i].fact.who => j = i
    BY <1>2, <2>1
  <2>4. QED
    BY <1>2, <2>1, <2>2, <2>3
<1>4. OnceIn(Tail(queue), fewer)
  BY <1>3 DEF OnceIn
<1>5. \A j \in DOMAIN other : Ends(e) /\ Ends(other[j]) => other[j].fact.who # e.fact.who
  BY <1>1 DEF Apart
<1>6. OnceIn(other, fewer)
  BY <1>5 DEF OnceIn
<1>7. Apart(Tail(queue), other)
  BY <1>2 DEF Apart
<1>8. QED
  BY <1>4, <1>6, <1>7

\* What the kernel sends and the correlator takes keeps the argument; the crossing of
\* the two queues is symmetric.
THEOREM OverlookInvariant == Spec => []OverlookInv
<1> USE ForensicsAssumption DEF OverlookInv
<1>1. Init => OverlookInv
  <2> SUFFICES ASSUME Init PROVE OverlookInv
    OBVIOUS
  <2>1. Closed = {} /\ ~Dead
    BY DEF Init, Closed, Dead, Accepted
  <2>2. QED
    BY <2>1 DEF Init, ExitsOnce, OnceIn, Apart, TimelinesComplete, NothingOverlooked
<1>2. ForensicsInv /\ OverlookInv /\ [Next]_vars => OverlookInv'
  <2> SUFFICES ASSUME ForensicsInv, OverlookInv, [Next]_vars PROVE OverlookInv'
    OBVIOUS
  <2>1. /\ CorrelatorInv /\ critical \in Seq(Event) /\ auxiliary \in Seq(Event)
        /\ clock \in 0..MaxTime
    BY DEF ForensicsInv, QueuesOK
  <2>2. ASSUME UNCHANGED <<correlator, history>>
        PROVE TimelinesComplete' /\ NothingOverlooked' /\ Closed' = Closed
    BY <2>2, NothingHappens
  <2>3. ASSUME NEW e \in Event, Ingest(e), Ends(e) => e.fact.who \notin Closed
        PROVE /\ TimelinesComplete' /\ NothingOverlooked'
              /\ Closed' = Closed \cup (IF Ends(e) THEN {e.fact.who} ELSE {})
    <3>1. CASE IngestLoss(e)
      <4>1. ~Ends(e)
        BY <3>1 DEF IngestLoss, Ends
      <4>2. QED
        BY <3>1, <4>1, LossOverlooksNothing
    <3>2. CASE IngestEvent(e)
      BY <2>1, <2>3, <3>2, EventOverlooksNothing
    <3>3. QED
      BY <2>3, <3>1, <3>2 DEF Ingest
  <2>4. ASSUME NEW f \in Facts, NEW t \in clock..MaxTime, PushCritical(f, t)
        PROVE OverlookInv'
    <3> DEFINE e == [fact |-> f, time |-> t]
    <3>1. e \in Event /\ Sent(f, t) /\ auxiliary' = auxiliary
      BY <2>1, <2>4 DEF Event, PushCritical
    <3>2. TimelinesComplete' /\ NothingOverlooked' /\ Closed' = Closed
      BY <2>2, <2>4 DEF PushCritical
    <3>3. critical' = critical \/ critical' = Append(critical, e)
      BY <2>4 DEF PushCritical
    <3> HIDE DEF e
    <3>4. /\ Closed' \subseteq exited' /\ (Ends(e) => e.fact.who \notin exited)
          /\ exited' \ Closed' = (exited \ Closed) \cup (IF Ends(e) THEN {e.fact.who} ELSE {})
      BY <3>1, <3>2 DEF Sent, Ends, ExitsOnce, e
    <3>5. ExitsOnce'
      <4> DEFINE open == exited \ Closed
                 wider == exited' \ Closed'
      <4>1. OnceIn(critical, open) /\ OnceIn(auxiliary, open) /\ Apart(critical, auxiliary)
        BY ApartEither DEF ExitsOnce
      <4>2. /\ Ends(e) => e.fact.who \in wider /\ e.fact.who \notin open
            /\ open \subseteq wider
        BY <3>4
      <4> HIDE DEF open, wider
      <4>3. OnceIn(critical', wider) /\ OnceIn(auxiliary, wider) /\ Apart(critical', auxiliary)
        BY <2>1, <3>1, <3>3, <4>1, <4>2, SentOnce
      <4>4. QED
        BY <3>1, <3>4, <4>3, ApartEither DEF ExitsOnce, wider
    <3>6. QED
      BY <3>2, <3>5
  <2>5. ASSUME NEW f \in Facts, NEW t \in clock..MaxTime, PushAuxiliary(f, t)
        PROVE OverlookInv'
    <3> DEFINE e == [fact |-> f, time |-> t]
    <3>1. e \in Event /\ Sent(f, t) /\ critical' = critical
      BY <2>1, <2>5 DEF Event, PushAuxiliary
    <3>2. TimelinesComplete' /\ NothingOverlooked' /\ Closed' = Closed
      BY <2>2, <2>5 DEF PushAuxiliary
    <3>3. auxiliary' = auxiliary \/ auxiliary' = Append(auxiliary, e)
      BY <2>5 DEF PushAuxiliary
    <3> HIDE DEF e
    <3>4. /\ Closed' \subseteq exited' /\ (Ends(e) => e.fact.who \notin exited)
          /\ exited' \ Closed' = (exited \ Closed) \cup (IF Ends(e) THEN {e.fact.who} ELSE {})
      BY <3>1, <3>2 DEF Sent, Ends, ExitsOnce, e
    <3>5. ExitsOnce'
      <4> DEFINE open == exited \ Closed
                 wider == exited' \ Closed'
      <4>1. OnceIn(auxiliary, open) /\ OnceIn(critical, open) /\ Apart(auxiliary, critical)
        BY ApartEither DEF ExitsOnce
      <4>2. /\ Ends(e) => e.fact.who \in wider /\ e.fact.who \notin open
            /\ open \subseteq wider
        BY <3>4
      <4> HIDE DEF open, wider
      <4>3. OnceIn(auxiliary', wider) /\ OnceIn(critical, wider) /\ Apart(auxiliary', critical)
        BY <2>1, <3>1, <3>3, <4>1, <4>2, SentOnce
      <4>4. QED
        BY <3>1, <3>4, <4>3, ApartEither DEF ExitsOnce, wider
    <3>6. QED
      BY <3>2, <3>5
  <2>6. CASE PopCritical
    <3> DEFINE e == Head(critical)
    <3>1. /\ critical # <<>> /\ critical' = Tail(critical) /\ Ingest(e)
          /\ exited' = exited /\ auxiliary' = auxiliary
      BY <2>6 DEF PopCritical, kernel
    <3>2. e \in Event /\ e = critical[1] /\ 1 \in DOMAIN critical
      BY <2>1, <3>1
    <3>3. Ends(e) => e.fact.who \notin Closed
      BY <3>2 DEF ExitsOnce, OnceIn
    <3> HIDE DEF e
    <3>4. /\ TimelinesComplete' /\ NothingOverlooked'
          /\ Closed' = Closed \cup (IF Ends(e) THEN {e.fact.who} ELSE {})
      BY <2>3, <3>1, <3>2, <3>3
    <3>5. /\ Closed' \subseteq exited'
          /\ exited' \ Closed' = (exited \ Closed) \ (IF Ends(e) THEN {e.fact.who} ELSE {})
      BY <3>1, <3>2, <3>4 DEF ExitsOnce, OnceIn
    <3>6. ExitsOnce'
      <4> DEFINE open == exited \ Closed
                 fewer == exited' \ Closed'
      <4>1. OnceIn(critical, open) /\ OnceIn(auxiliary, open) /\ Apart(critical, auxiliary)
        BY ApartEither DEF ExitsOnce
      <4>2. /\ e = Head(critical)
            /\ \A p \in open : p \in fewer \/ (Ends(e) /\ p = e.fact.who)
        BY <3>5 DEF e
      <4> HIDE DEF open, fewer
      <4>3. OnceIn(critical', fewer) /\ OnceIn(auxiliary, fewer) /\ Apart(critical', auxiliary)
        BY <2>1, <3>1, <4>1, <4>2, TakenOnce
      <4>4. QED
        BY <3>1, <3>5, <4>3, ApartEither DEF ExitsOnce, fewer
    <3>7. QED
      BY <3>4, <3>6
  <2>7. CASE PopAuxiliary /\ auxiliary # <<>>
    <3> DEFINE e == Head(auxiliary)
    <3>1. /\ auxiliary # <<>> /\ auxiliary' = Tail(auxiliary) /\ Ingest(e)
          /\ exited' = exited /\ critical' = critical
      BY <2>7 DEF PopAuxiliary, kernel
    <3>2. e \in Event /\ e = auxiliary[1] /\ 1 \in DOMAIN auxiliary
      BY <2>1, <3>1
    <3>3. Ends(e) => e.fact.who \notin Closed
      BY <3>2 DEF ExitsOnce, OnceIn
    <3> HIDE DEF e
    <3>4. /\ TimelinesComplete' /\ NothingOverlooked'
          /\ Closed' = Closed \cup (IF Ends(e) THEN {e.fact.who} ELSE {})
      BY <2>3, <3>1, <3>2, <3>3
    <3>5. /\ Closed' \subseteq exited'
          /\ exited' \ Closed' = (exited \ Closed) \ (IF Ends(e) THEN {e.fact.who} ELSE {})
      BY <3>1, <3>2, <3>4 DEF ExitsOnce, OnceIn
    <3>6. ExitsOnce'
      <4> DEFINE open == exited \ Closed
                 fewer == exited' \ Closed'
      <4>1. OnceIn(auxiliary, open) /\ OnceIn(critical, open) /\ Apart(auxiliary, critical)
        BY ApartEither DEF ExitsOnce
      <4>2. /\ e = Head(auxiliary)
            /\ \A p \in open : p \in fewer \/ (Ends(e) /\ p = e.fact.who)
        BY <3>5 DEF e
      <4> HIDE DEF open, fewer
      <4>3. OnceIn(auxiliary', fewer) /\ OnceIn(critical, fewer) /\ Apart(auxiliary', critical)
        BY <2>1, <3>1, <4>1, <4>2, TakenOnce
      <4>4. QED
        BY <3>1, <3>5, <4>3, ApartEither DEF ExitsOnce, fewer
    <3>7. QED
      BY <3>4, <3>6
  <2>8. ASSUME UNCHANGED <<correlator, history>>, exited' = exited, critical' = critical,
               auxiliary' = auxiliary
        PROVE OverlookInv'
    <3>1. TimelinesComplete' /\ NothingOverlooked' /\ Closed' = Closed
      BY <2>2, <2>8
    <3>2. ExitsOnce'
      BY <2>8, <3>1, Zenon DEF ExitsOnce
    <3>3. QED
      BY <3>1, <3>2
  <2>9. CASE Malformed \/ PollAuxiliary
    BY <2>8, <2>9 DEF Malformed, PollAuxiliary, kernel
  <2>10. CASE PopAuxiliary /\ auxiliary = <<>>
    BY <2>8, <2>10 DEF PopAuxiliary, kernel
  <2>11. CASE UNCHANGED vars
    BY <2>8, <2>11 DEF vars, kernel, ingress
  <2>12. QED
    BY <2>4, <2>5, <2>6, <2>7, <2>9, <2>10, <2>11 DEF Next
<1>3. QED
  BY <1>1, <1>2, ForensicsInvariant, PTL DEF Spec

\* A process killed with an OOM record of its own in the causal window, delivered
\* before the exit of its leader and pushed out by no bound, is never reported as one
\* without (Correlator::ingest, classify).
THEOREM OomsAreReported == Spec => []NothingOverlooked
<1>1. OverlookInv => NothingOverlooked
  BY DEF OverlookInv
<1>2. QED
  BY <1>1, OverlookInvariant, PTL
=============================================================================
