--------------------------- MODULE DiskSpoolProofs ---------------------------
(***************************************************************************)
(* Proofs about DiskSpool, for every set of threads, every batch size and   *)
(* limit and any number of crashes and I/O errors, and about the            *)
(* acknowledgement of a batch (module Acknowledgement) for every batch and  *)
(* lists of any length.                                                     *)
(***************************************************************************)
EXTENDS DiskSpool, Acknowledgement, FiniteSetTheorems, SequenceTheorems,
        WellFoundedInduction, TLAPS

\* The type invariant of the spool, its files and its threads
\* (src/spool.rs, every method).
THEOREM TypeCorrect == Spec => []TypeOK
<1> USE SpoolAssumption DEF Thread, TypeOK, Envelope, Temp, Acquire, Release, Goto
<1>1. Init => TypeOK
  BY DEF Init, NoEnvelope
<1>2. TypeOK /\ [Next]_vars => TypeOK'
  <2> SUFFICES ASSUME TypeOK, [Next]_vars PROVE TypeOK'
    OBVIOUS
  <2> USE DEF spool, threads, history
  <2>1. ASSUME NEW d \in Daemon, Open(d) PROVE TypeOK'
    BY <2>1 DEF Open
  <2>2. ASSUME NEW d \in Daemon, Crash(d) PROVE TypeOK'
    BY <2>2 DEF Crash, NoEnvelope
  <2>3. ASSUME NEW t \in Publisher, NextSequence(t) PROVE TypeOK'
    BY <2>3 DEF NextSequence, Free, Up, SequenceFile
  <2>4. ASSUME NEW t \in Publisher, CommitSequence(t) PROVE TypeOK'
    BY <2>4 DEF CommitSequence, SequenceFile
  <2>5. ASSUME NEW t \in Publisher, AppendRecord(t) PROVE TypeOK'
    BY <2>5 DEF AppendRecord, Free, Up
  <2>6. ASSUME NEW t \in Publisher, RefuseAppend(t) PROVE TypeOK'
    BY <2>6 DEF RefuseAppend, NoEnvelope
  <2>7. ASSUME NEW t \in Publisher, CommitAppend(t) PROVE TypeOK'
    BY <2>7 DEF CommitAppend, NoEnvelope
  <2>8. ASSUME NEW t \in Publisher, WriteFails(t) PROVE TypeOK'
    BY <2>8 DEF WriteFails, NoEnvelope
  <2>9. ASSUME NEW w \in Worker, Pending(w) PROVE TypeOK'
    BY <2>9 DEF Pending, Oldest
  <2>10. ASSUME NEW w \in Worker, GiveUp(w) PROVE TypeOK'
    BY <2>10 DEF GiveUp
  <2>11. ASSUME NEW w \in Worker, Acknowledge(w) PROVE TypeOK'
    BY <2>11 DEF Acknowledge
  <2>12. ASSUME NEW w \in Worker, RemoveFile(w) PROVE TypeOK'
    BY <2>12 DEF RemoveFile
  <2>13. CASE Damage
    BY <2>13 DEF Damage
  <2>14. CASE UNCHANGED vars
    BY <2>14 DEF vars
  <2>15. QED
    BY <2>1, <2>2, <2>3, <2>4, <2>5, <2>6, <2>7, <2>8, <2>9, <2>10, <2>11,
       <2>12, <2>13, <2>14 DEF Next, Publish, Export
<1>3. QED
  BY <1>1, <1>2, PTL DEF Spec

\* With one daemon the strengthened invariant is inductive: its mutex excludes
\* every other thread between reading the sequence file and renaming its
\* successor, and between the check for a record file and its rename.
THEOREM SpoolInvariant ==
  ASSUME SingleDaemon PROVE Spec => []SpoolInv
<1> USE SpoolAssumption DEF SingleDaemon, Thread
<1>1. Init => SpoolInv
  BY DEF Init, NoEnvelope, Envelope, TypeOK, SpoolInv, SequencesIssued, Numbered, MutexHeld,
         FilesWritten, RemovalAcked, SequenceUnique, NothingLost, BatchOnDisk
<1>2. TypeOK /\ TypeOK' /\ SpoolInv /\ [Next]_vars => SpoolInv'
  <2> SUFFICES ASSUME TypeOK, TypeOK', SpoolInv, [Next]_vars PROVE SpoolInv'
    OBVIOUS
  <2> USE DEF SpoolInv, SequencesIssued, Numbered, MutexHeld, FilesWritten,
              RemovalAcked, SequenceUnique, NothingLost, BatchOnDisk,
              spool, threads, history, Acquire, Release, Goto, TypeOK, Envelope
  <2>1. ASSUME NEW d \in Daemon, Open(d) PROVE SpoolInv'
    BY <2>1 DEF Open
  <2>2. ASSUME NEW d \in Daemon, Crash(d) PROVE SpoolInv'
    BY <2>2 DEF Crash, NoEnvelope
  <2>3. ASSUME NEW t \in Publisher, NextSequence(t) PROVE SpoolInv'
    BY <2>3 DEF NextSequence, Free, Up
  <2>4. ASSUME NEW t \in Publisher, CommitSequence(t) PROVE SpoolInv'
    BY <2>4 DEF CommitSequence
  <2>5. ASSUME NEW t \in Publisher, AppendRecord(t) PROVE SpoolInv'
    BY <2>5 DEF AppendRecord, Free, Up, Appendable, Exists
  <2>6. ASSUME NEW t \in Publisher, RefuseAppend(t) PROVE SpoolInv'
    BY <2>6 DEF RefuseAppend, Free, Up, NoEnvelope
  <2>7. ASSUME NEW t \in Publisher, CommitAppend(t) PROVE SpoolInv'
    BY <2>7 DEF CommitAppend, NoEnvelope
  <2>8. ASSUME NEW t \in Publisher, WriteFails(t) PROVE SpoolInv'
    BY <2>8 DEF WriteFails, NoEnvelope
  <2>9. ASSUME NEW w \in Worker, Pending(w) PROVE SpoolInv'
    BY <2>9 DEF Pending, Oldest, Free, Up
  <2>10. ASSUME NEW w \in Worker, GiveUp(w) PROVE SpoolInv'
    BY <2>10 DEF GiveUp
  <2>11. ASSUME NEW w \in Worker, Acknowledge(w) PROVE SpoolInv'
    BY <2>11 DEF Acknowledge, Free, Up
  <2>12. ASSUME NEW w \in Worker, RemoveFile(w) PROVE SpoolInv'
    BY <2>12 DEF RemoveFile, Exists
  <2>13. CASE Damage
    BY <2>13 DEF Damage
  <2>14. CASE UNCHANGED vars
    BY <2>14 DEF vars
  <2>15. QED
    BY <2>1, <2>2, <2>3, <2>4, <2>5, <2>6, <2>7, <2>8, <2>9, <2>10, <2>11, <2>12, <2>13, <2>14 DEF Next, Publish, Export
<1>3. QED
  BY <1>1, <1>2, TypeCorrect, PTL DEF Spec

\* A persisted envelope stays until acknowledged or quarantined (append,
\* pending, acknowledge).
THEOREM NoEnvelopeLost ==
  ASSUME SingleDaemon PROVE Spec => []NothingLost
<1>1. SpoolInv => NothingLost
  BY DEF SpoolInv
<1>2. QED
  BY <1>1, SpoolInvariant, PTL

\* No sequence is ever persisted twice (next_sequence, append).
THEOREM NoSequenceReused ==
  ASSUME SingleDaemon PROVE Spec => []SequenceUnique
<1>1. SpoolInv => SequenceUnique
  BY DEF SpoolInv
<1>2. QED
  BY <1>1, SpoolInvariant, PTL

\* acknowledge always finds the files of the batch pending returned.
THEOREM AcknowledgeFindsFiles ==
  ASSUME SingleDaemon PROVE Spec => []BatchOnDisk
<1>1. SpoolInv => BatchOnDisk
  BY DEF SpoolInv
<1>2. QED
  BY <1>1, SpoolInvariant, PTL

\* The sequence file never goes back (next_sequence).
THEOREM SequenceNeverGoesBack ==
  ASSUME SingleDaemon PROVE Spec => SequenceMonotonic
<1>1. SpoolInv /\ [Next]_vars => [sequence' >= sequence]_vars
  <2> SUFFICES ASSUME SpoolInv, Next PROVE sequence' >= sequence
    BY DEF vars, spool
  <2>1. ASSUME NEW t \in Publisher, CommitSequence(t) PROVE sequence' = sequence + 1
    BY <2>1 DEF CommitSequence, SpoolInv, SequencesIssued
  <2>2. sequence' = sequence \/ \E t \in Publisher : CommitSequence(t)
    BY DEF Next, Publish, Export, spool, Open, Crash, NextSequence, AppendRecord,
           RefuseAppend, CommitAppend, WriteFails, Pending, GiveUp, Acknowledge,
           RemoveFile, Damage
  <2>3. QED
    BY <2>1, <2>2 DEF SpoolInv, TypeOK
<1>2. QED
  BY <1>1, SpoolInvariant, PTL DEF Spec, SequenceMonotonic

\* The spool of one daemon implements the durable log: numbers are issued once
\* and in order, an entry is stored under a fresh issued number, and leaves
\* for good.
THEOREM SpoolImplementsLog ==
  ASSUME SingleDaemon PROVE Spec => ImplementsLog
<1>1. Init => Log!Init
  BY DEF Init, Log!Init
<1>2. SpoolInv /\ [Next]_vars => [Log!Next]_Log!vars
  <2> SUFFICES ASSUME SpoolInv, [Next]_vars PROVE [Log!Next]_Log!vars
    OBVIOUS
  <2> USE SpoolAssumption DEF Log!Next, Log!vars, spool, history
  <2>1. ASSUME NEW t \in Publisher, CommitSequence(t) PROVE Log!Issue
    BY <2>1 DEF CommitSequence, SpoolInv, SequencesIssued, Log!Issue
  <2>2. ASSUME NEW t \in Publisher, CommitAppend(t) PROVE Log!Store
    <3>1. /\ records' = records \cup {msg[t]} /\ written' = written \cup {msg[t]}
          /\ msg[t].seq \in 1..sequence
          /\ \A e \in written : e.seq # msg[t].seq
          /\ records \subseteq written
      BY <2>2 DEF CommitAppend, SpoolInv, SequencesIssued, Numbered, FilesWritten,
                  TypeOK, Thread
    <3>2. QED
      BY <3>1, <2>2 DEF CommitAppend, Log!Store
  <2>3. ASSUME NEW w \in Worker, Pending(w) PROVE Log!Remove
    BY <2>3 DEF Pending, SpoolInv, FilesWritten, Log!Remove
  <2>4. ASSUME NEW w \in Worker, RemoveFile(w) PROVE Log!Remove
    BY <2>4 DEF RemoveFile, SpoolInv, FilesWritten, Log!Remove
  <2>5. (\E t \in Publisher : CommitSequence(t) \/ CommitAppend(t))
        \/ (\E w \in Worker : Pending(w) \/ RemoveFile(w))
        \/ UNCHANGED <<sequence, records, written>>
    BY DEF Next, Publish, Export, vars, Open, Crash, NextSequence, AppendRecord,
           RefuseAppend, WriteFails, GiveUp, Acknowledge, Damage
  <2> QED
    BY <2>1, <2>2, <2>3, <2>4, <2>5
<1>3. QED
  BY <1>1, <1>2, SpoolInvariant, PTL DEF Spec, ImplementsLog, Log!Spec

-----------------------------------------------------------------------------
(* Temporary files, for any number of daemons on the directory.               *)

\* A write in progress holds the mutex and its file, and two that are in progress are
\* of daemons with different process ids (atomic_write).
THEOREM TempsOwnedInvariant == Spec => []TempsOwned
<1> USE SpoolAssumption DEF Thread
<1>1. Init => TempsOwned
  BY DEF Init, NoEnvelope, Envelope, TypeOK, TempsOwned, MutexHeld, Locked, InWrite
<1>2. TempsOwned /\ TypeOK' /\ [Next]_vars => TempsOwned'
  <2> SUFFICES ASSUME TempsOwned, TypeOK', [Next]_vars PROVE TempsOwned'
    OBVIOUS
  <2> USE DEF TempsOwned, MutexHeld, Locked, InWrite, FileOf, Temp, Up, SequenceFile,
              spool, threads, history, Acquire, Release, Goto, TypeOK
  <2>1. ASSUME NEW d \in Daemon, Open(d) PROVE TempsOwned'
    <3>1. PICK p \in Pid : /\ running[d] = None /\ \A e \in Daemon : running[e] # p
                           /\ running' = [running EXCEPT ![d] = p]
                           /\ UNCHANGED <<spool, threads>>
      BY <2>1 DEF Open
    <3>2. \A e, f \in Daemon : e # f /\ running'[e] # None => running'[e] # running'[f]
      BY <3>1
    <3>3. ASSUME NEW t \in Publisher, InWrite(t)' PROVE Up(t)' /\ Temp(FileOf(t), t)' \in temps'
      <4>1. DaemonOf[t] # d
        BY <3>1, <3>3
      <4>2. running'[DaemonOf[t]] = running[DaemonOf[t]]
        BY <3>1, <4>1
      <4>3. QED
        BY <3>1, <3>3, <4>2
    <3>4. MutexHeld' /\ (\A e \in Locked' : DaemonOf[lock'[e]] = e) /\ \A w \in Worker : ~InWrite(w)'
      BY <3>1
    <3> HIDE DEF MutexHeld, Locked, InWrite, FileOf, Temp, Up, TypeOK
    <3>5. QED
      BY <3>2, <3>3, <3>4
  <2>2. ASSUME NEW d \in Daemon, Crash(d) PROVE TempsOwned'
    <3>1. /\ running[d] # None /\ running' = [running EXCEPT ![d] = None]
          /\ lock' = [lock EXCEPT ![d] = None] /\ UNCHANGED temps
          /\ \A t \in Thread : pc'[t] = IF DaemonOf[t] = d THEN "idle" ELSE pc[t]
          /\ \A t \in Publisher : DaemonOf[t] # d => msg'[t] = msg[t]
      BY <2>2 DEF Crash
    <3>2. MutexHeld'
      BY <3>1
    <3>3. \A e \in Locked' : DaemonOf[lock'[e]] = e
      BY <3>1
    <3>4. \A e, f \in Daemon : e # f /\ running'[e] # None => running'[e] # running'[f]
      BY <3>1
    <3>5. ASSUME NEW t \in Publisher, InWrite(t)' PROVE Up(t)' /\ Temp(FileOf(t), t)' \in temps'
      BY <3>1, <3>5
    <3>6. \A w \in Worker : ~InWrite(w)'
      BY <3>1
    <3> HIDE DEF MutexHeld, Locked, InWrite, FileOf, Temp, Up, TypeOK
    <3>7. QED
      BY <3>2, <3>3, <3>4, <3>5, <3>6
  <2>3. ASSUME NEW t \in Publisher, NextSequence(t) PROVE TempsOwned'
    BY <2>3 DEF NextSequence, Free
  <2>4. ASSUME NEW t \in Publisher, CommitSequence(t) PROVE TempsOwned'
    BY <2>4 DEF CommitSequence
  <2>5. ASSUME NEW t \in Publisher, AppendRecord(t) PROVE TempsOwned'
    BY <2>5 DEF AppendRecord, Free
  <2>6. ASSUME NEW t \in Publisher, RefuseAppend(t) PROVE TempsOwned'
    BY <2>6 DEF RefuseAppend, Free
  <2>7. ASSUME NEW t \in Publisher, CommitAppend(t) PROVE TempsOwned'
    BY <2>7 DEF CommitAppend
  <2>8. ASSUME NEW t \in Publisher, WriteFails(t) PROVE TempsOwned'
    BY <2>8 DEF WriteFails
  <2>9. ASSUME NEW w \in Worker, Pending(w) PROVE TempsOwned'
    BY <2>9 DEF Pending, Free
  <2>10. ASSUME NEW w \in Worker, GiveUp(w) PROVE TempsOwned'
    BY <2>10 DEF GiveUp
  <2>11. ASSUME NEW w \in Worker, Acknowledge(w) PROVE TempsOwned'
    BY <2>11 DEF Acknowledge, Free
  <2>12. ASSUME NEW w \in Worker, RemoveFile(w) PROVE TempsOwned'
    BY <2>12 DEF RemoveFile
  <2>13. CASE Damage
    BY <2>13 DEF Damage
  <2>14. CASE UNCHANGED vars
    BY <2>14 DEF vars
  <2>15. QED
    BY <2>1, <2>2, <2>3, <2>4, <2>5, <2>6, <2>7, <2>8, <2>9, <2>10, <2>11,
       <2>12, <2>13, <2>14 DEF Next, Publish, Export
<1>3. QED
  BY <1>1, <1>2, TypeCorrect, PTL DEF Spec

\* A step that begins a write, and one that ends it.
LEMMA OneMore ==
    ASSUME NEW S, IsFiniteSet(S), NEW x, x \notin S
    PROVE  /\ IsFiniteSet(S \cup {x}) /\ Cardinality(S \cup {x}) = Cardinality(S) + 1
           /\ Cardinality(S) \in Nat
  BY FS_AddElement, FS_CardinalityType

LEMMA OneLess ==
    ASSUME NEW S, IsFiniteSet(S), NEW x \in S
    PROVE  /\ IsFiniteSet(S \ {x}) /\ Cardinality(S \ {x}) = Cardinality(S) - 1
           /\ Cardinality(S) \in Nat \ {0}
<1>1. IsFiniteSet(S \ {x}) /\ Cardinality(S \ {x}) = Cardinality(S) - 1
  BY FS_RemoveElement
<1>2. Cardinality(S \ {x}) \in Nat /\ Cardinality(S) \in Nat
  BY <1>1, FS_CardinalityType
<1>3. QED
  BY <1>1, <1>2

\* A temporary file that no write in progress has was left by a crash or an I/O error
\* (atomic_write).
THEOREM TempsInvariant == Spec => []TempsInv
<1> USE SpoolAssumption DEF Thread
<1>1. Init => Locked = {} /\ Writing = {} /\ temps = {} /\ crashes = 0 /\ faults = 0
  BY DEF Init, Locked, Writing
<1>2. TempsOwned /\ Init => TempsInv
  <2> SUFFICES ASSUME TempsOwned, Init PROVE TempsInv
    OBVIOUS
  <2>1. IsFiniteSet(temps) /\ IsFiniteSet(Locked) /\ Cardinality(temps) = 0 /\ Cardinality(Writing) = 0
    BY <1>1, FS_EmptySet
  <2>2. QED
    BY <1>1, <2>1 DEF TempsInv
<1>3. TempsInv /\ TempsOwned' /\ [Next]_vars => TempsInv'
  <2> SUFFICES ASSUME TempsInv, TempsOwned', [Next]_vars PROVE TempsInv'
    OBVIOUS
  <2>1. /\ TempsOwned /\ crashes \in Nat /\ faults \in Nat
        /\ IsFiniteSet(temps) /\ IsFiniteSet(Locked) /\ Writing \subseteq Locked
        /\ Cardinality(temps) <= crashes + faults + Cardinality(Writing)
    BY DEF TempsInv, TempsOwned, TypeOK, Locked, Writing
  <2>2. /\ IsFiniteSet(Writing) /\ Cardinality(Writing) \in Nat /\ Cardinality(temps) \in Nat
    BY <2>1, FS_Subset, FS_CardinalityType
  <2> USE DEF spool, threads, history, Acquire, Release, Goto
  <2>3. ASSUME UNCHANGED <<temps, crashes, faults>>, Writing' = Writing, IsFiniteSet(Locked') PROVE TempsInv'
    BY <2>1, <2>3 DEF TempsInv
  <2>4. ASSUME UNCHANGED <<temps, lock, crashes>>, faults' \in {faults, faults + 1},
               \A t \in Thread : InWrite(t)' <=> InWrite(t)
        PROVE TempsInv'
    <3>1. Writing' = Writing /\ Locked' = Locked
      BY <2>4 DEF Writing, Locked
    <3>2. QED
      BY <2>1, <2>2, <2>4, <3>1 DEF TempsInv
  <2>5. ASSUME NEW d \in Daemon, Crash(d) PROVE TempsInv'
    <3>1. /\ crashes' = crashes + 1 /\ UNCHANGED <<temps, faults>>
          /\ lock' = [lock EXCEPT ![d] = None]
          /\ \A t \in Thread : pc'[t] = IF DaemonOf[t] = d THEN "idle" ELSE pc[t]
      BY <2>5 DEF Crash
    <3>2. Locked' = Locked \ {d} /\ Writing' = Writing \ {d}
      BY <2>1, <3>1 DEF Locked, Writing, InWrite, TempsOwned, TypeOK
    <3>3. IsFiniteSet(Locked')
      BY <2>1, <3>2, FS_Subset
    <3>4. Cardinality(Writing) <= Cardinality(Writing') + 1 /\ Cardinality(Writing') \in Nat
      <4>1. CASE d \in Writing
        BY <2>2, <3>2, <4>1, OneLess
      <4>2. CASE d \notin Writing
        <5>1. Writing' = Writing
          BY <3>2, <4>2
        <5>2. QED
          BY <2>2, <5>1
      <4>3. QED
        BY <4>1, <4>2
    <3>5. QED
      BY <2>1, <2>2, <3>1, <3>3, <3>4 DEF TempsInv
  <2>6. ASSUME NEW t \in Publisher, NextSequence(t) \/ AppendRecord(t) PROVE TempsInv'
    <3> DEFINE d == DaemonOf[t]
    <3>1. /\ lock[d] = None /\ lock' = [lock EXCEPT ![d] = t] /\ ~InWrite(t) /\ InWrite(t)'
          /\ \A u \in Thread \ {t} : pc'[u] = pc[u]
          /\ UNCHANGED <<crashes, faults>>
      BY <2>1, <2>6 DEF NextSequence, AppendRecord, Free, InWrite, TempsOwned, TypeOK
    <3>2. d \in Daemon /\ t # None
      OBVIOUS
    <3>3. PICK x : x \notin temps /\ temps' = temps \cup {x}
      BY <2>6 DEF NextSequence, AppendRecord, Appendable
    <3>4. d \notin Locked /\ Locked' = Locked \cup {d}
      BY <2>1, <3>1, <3>2 DEF Locked, TempsOwned, TypeOK
    <3>5. d \notin Writing /\ Writing' = Writing \cup {d}
      <4>1. d \notin Writing /\ d \in Writing'
        BY <2>1, <3>1, <3>2 DEF Writing, TempsOwned, TypeOK
      <4>2. ASSUME NEW e \in Daemon, e # d PROVE e \in Writing' <=> e \in Writing
        <5>1. lock'[e] = lock[e]
          BY <2>1, <3>1, <4>2 DEF TempsOwned, TypeOK
        <5>2. lock[e] # t
          BY <2>1, <3>2, <4>2 DEF TempsOwned, Locked
        <5>3. QED
          BY <3>1, <5>1, <5>2 DEF Writing, InWrite
      <4>3. QED
        BY <4>1, <4>2 DEF Writing
    <3> HIDE DEF d
    <3>6. /\ Cardinality(Writing') = Cardinality(Writing) + 1
          /\ IsFiniteSet(Locked')
      BY <2>1, <2>2, <3>4, <3>5, OneMore
    <3>7. IsFiniteSet(temps') /\ Cardinality(temps') = Cardinality(temps) + 1
      BY <2>1, <3>3, OneMore
    <3>8. Cardinality(temps') <= crashes' + faults' + Cardinality(Writing')
      BY <2>1, <2>2, <3>1, <3>6, <3>7
    <3>9. QED
      BY <3>6, <3>7, <3>8 DEF TempsInv
  <2>7. ASSUME NEW t \in Publisher, CommitSequence(t) \/ CommitAppend(t) \/ WriteFails(t) PROVE TempsInv'
    <3> DEFINE d == DaemonOf[t]
               x == Temp(FileOf(t), t)
    <3>1. /\ lock' = [lock EXCEPT ![d] = None] /\ InWrite(t) /\ ~InWrite(t)'
          /\ \A u \in Thread \ {t} : pc'[u] = pc[u]
          /\ UNCHANGED crashes
      BY <2>1, <2>7 DEF CommitSequence, CommitAppend, WriteFails, InWrite, TempsOwned, TypeOK
    <3>2. d \in Daemon /\ t # None /\ lock[d] = t /\ x \in temps
      BY <2>1, <3>1 DEF TempsOwned, MutexHeld, InWrite
    <3>3. \/ temps' = temps \ {x} /\ faults' = faults
          \/ temps' \in {temps, temps \ {x}} /\ faults' = faults + 1
      BY <2>7 DEF CommitSequence, CommitAppend, WriteFails, FileOf
    <3>4. Locked' = Locked \ {d} /\ IsFiniteSet(Locked')
      <4>1. Locked' = Locked \ {d}
        BY <2>1, <3>1, <3>2 DEF Locked, TempsOwned, TypeOK
      <4>2. QED
        BY <2>1, <4>1, FS_Subset
    <3>5. d \in Writing /\ Writing' = Writing \ {d}
      <4>1. d \in Writing /\ d \notin Writing'
        BY <2>1, <3>1, <3>2 DEF Writing, TempsOwned, TypeOK
      <4>2. ASSUME NEW e \in Daemon, e # d PROVE e \in Writing' <=> e \in Writing
        <5>1. lock'[e] = lock[e]
          BY <2>1, <3>1, <4>2 DEF TempsOwned, TypeOK
        <5>2. lock[e] # t
          BY <2>1, <3>2, <4>2 DEF TempsOwned, Locked
        <5>3. QED
          BY <3>1, <5>1, <5>2 DEF Writing, InWrite
      <4>3. QED
        BY <4>1, <4>2 DEF Writing
    <3> HIDE DEF x, d
    <3>6. Cardinality(Writing') = Cardinality(Writing) - 1 /\ Cardinality(Writing) \in Nat
      BY <2>2, <3>5, OneLess
    <3>7. IsFiniteSet(temps \ {x}) /\ Cardinality(temps \ {x}) = Cardinality(temps) - 1
      BY <2>1, <3>2, OneLess
    <3>8. /\ IsFiniteSet(temps')
          /\ Cardinality(temps') <= crashes' + faults' + Cardinality(Writing')
      <4>1. CASE temps' = temps \ {x} /\ faults' \in {faults, faults + 1}
        BY <2>1, <2>2, <3>1, <3>6, <3>7, <4>1
      <4>2. CASE temps' = temps /\ faults' = faults + 1
        BY <2>1, <2>2, <3>1, <3>6, <4>2
      <4>3. QED
        BY <3>3, <4>1, <4>2
    <3>9. QED
      BY <3>4, <3>8 DEF TempsInv
  <2>8. ASSUME NEW t \in Publisher, RefuseAppend(t) PROVE TempsInv'
    BY <2>1, <2>4, <2>8 DEF RefuseAppend, InWrite, TempsOwned, TypeOK
  <2>9. ASSUME NEW w \in Worker, Pending(w) \/ GiveUp(w) PROVE TempsInv'
    BY <2>1, <2>4, <2>9 DEF Pending, GiveUp, InWrite, TempsOwned, TypeOK
  <2>10. ASSUME NEW w \in Worker, Acknowledge(w) \/ RemoveFile(w) PROVE TempsInv'
    <3> DEFINE d == DaemonOf[w]
    <3>1. /\ \A t \in Publisher : pc'[t] = pc[t]
          /\ \A e \in Daemon \ {d} : lock'[e] = lock[e]
          /\ d \in Daemon /\ lock'[d] \in {lock[d], w, None} /\ lock[d] \in {w, None}
          /\ UNCHANGED <<temps, crashes, faults>>
      <4>1. lock[d] \in {w, None}
        BY <2>1, <2>10 DEF Acknowledge, RemoveFile, Free, TempsOwned, MutexHeld
      <4>2. QED
        BY <2>1, <2>10, <4>1 DEF Acknowledge, RemoveFile, TempsOwned, TypeOK
    <3>2. Writing' = Writing
      BY <3>1 DEF Writing, InWrite
    <3>3. IsFiniteSet(Locked \cup {d}) /\ Locked' \subseteq Locked \cup {d}
      BY <2>1, <3>1, FS_AddElement DEF Locked
    <3>4. IsFiniteSet(Locked')
      BY <3>3, FS_Subset
    <3>5. QED
      BY <2>3, <3>1, <3>2, <3>4
  <2>11. ASSUME NEW d \in Daemon, Open(d) PROVE TempsInv'
    BY <2>4, <2>11 DEF Open, InWrite
  <2>12. CASE Damage \/ UNCHANGED vars
    BY <2>4, <2>12 DEF Damage, vars, InWrite
  <2>13. QED
    BY <2>5, <2>6, <2>7, <2>8, <2>9, <2>10, <2>11, <2>12 DEF Next, Publish, Export
<1>4. QED
  BY <1>2, <1>3, TempsOwnedInvariant, PTL DEF Spec

\* What is under the spool's directories besides records: the files of the writes in
\* progress and what crashes and errors left.
THEOREM TempsAreAccounted == Spec => []TempsAccounted
<1>1. TempsInv => TempsAccounted
  <2> SUFFICES ASSUME TempsInv PROVE TempsAccounted
    OBVIOUS
  <2>1. Writing \subseteq Locked
    BY SpoolAssumption DEF Writing, Locked, Thread
  <2>2. Cardinality(Writing) <= Cardinality(Locked) /\ IsFiniteSet(Writing)
    BY <2>1, FS_Subset DEF TempsInv
  <2>3. {Cardinality(Writing), Cardinality(Locked), Cardinality(temps), crashes, faults} \subseteq Nat
    BY <2>2, FS_CardinalityType DEF TempsInv, TempsOwned, TypeOK
  <2>4. QED
    BY <2>2, <2>3 DEF TempsInv, TempsAccounted
<1>2. QED
  BY <1>1, TempsInvariant, PTL

-----------------------------------------------------------------------------
(* Validation of an answer.                                                 *)

\* A nonempty finite set of numbers has a greatest one, which is Max of it.
LEMMA MaxOfSome ==
    ASSUME NEW S, S \subseteq Nat, IsFiniteSet(S), S # {}
    PROVE Max(S) \in S /\ \A y \in S : y <= Max(S)
<1> DEFINE Above(x) == {y \in S : y > x}
           T == {Above(x) : x \in S}
<1>1. T \subseteq FiniteSubsetsOf(S) /\ T # {}
  <2>1. FiniteSubsetsOf(S) = SUBSET S
    BY FS_FiniteSubsetsOfFinite
  <2>2. \A x \in S : Above(x) \in SUBSET S
    OBVIOUS
  <2>3. T \subseteq SUBSET S
    BY <2>2, Zenon
  <2>4. T # {}
    BY Zenon
  <2>5. QED
    BY <2>1, <2>3, <2>4
<1>2. PICK t \in T : \A u \in T : <<u, t>> \notin StrictSubsetOrdering(S)
  <2> HIDE DEF T
  <2>1. QED
    BY <1>1, WFMin, FS_StrictSubsetOrderingWellFounded
<1>3. PICK x \in S : t = Above(x)
  BY <1>2
<1>4. ASSUME NEW y \in S, y > x PROVE FALSE
  <2>1. x \in Nat /\ y \in Nat /\ y > x /\ ~(y > y) /\ \A z \in S : z > y => z > x
    BY <1>4
  <2>2. Above(y) \subseteq Above(x) /\ y \in Above(x) /\ y \notin Above(y)
    BY <2>1, Zenon
  <2>3. <<Above(y), Above(x)>> \in StrictSubsetOrdering(S)
    BY <2>2 DEF StrictSubsetOrdering
  <2>4. QED
    BY <1>2, <1>3, <2>3
<1>5. \A y \in S : x >= y
  BY <1>4
<1>6. QED
  BY <1>5 DEF Max

IsAnswer(a) ==
    /\ a.accepted \in Seq(Ids) /\ a.rejected \in Seq([id : Ids, reason : BOOLEAN])
    /\ a.highest \in Ids \cup {NotGiven}
    /\ a.retry \in {NotGiven, MaxDelay, MaxDelay + 1}

\* The stand-in for an empty body is an answer like any other.
LEMMA AnswerShape ==
    ASSUME NEW a \in Answers \cup {WholeBatch}
    PROVE IsAnswer(a)
<1> USE AnswerAssumption
<1>1. CASE a \in Answers
  <2>1. PICK n \in Nat : a.accepted \in [1..n -> Ids]
    BY <1>1 DEF Answers, Lists
  <2>2. PICK m \in Nat : a.rejected \in [1..m -> [id : Ids, reason : BOOLEAN]]
    BY <1>1 DEF Answers, Lists
  <2>3. a.accepted \in Seq(Ids)
    BY <2>1, SeqDef
  <2>4. a.rejected \in Seq([id : Ids, reason : BOOLEAN])
    <3>1. \A R : [1..m -> R] \subseteq Seq(R)
      BY SeqDef
    <3>2. QED
      BY <2>2, <3>1
  <2>5. a.highest \in Ids \cup {NotGiven} /\ a.retry \in {NotGiven, MaxDelay, MaxDelay + 1}
    BY <1>1 DEF Answers
  <2>6. QED
    BY <2>3, <2>4, <2>5 DEF IsAnswer
<1>2. CASE a = WholeBatch
  <2> DEFINE n == Cardinality(Batch)
  <2>1. n \in Nat /\ ExistsBijection(1..n, Batch)
    BY FS_CardinalityType
  <2>2. PICK h \in [1..n -> Batch] : IsInjective(h)
    BY <2>1 DEF ExistsBijection, Bijection, Injection, IsInjective
  <2>3. SetToSeq(Batch) \in [1..n -> Batch]
    BY <2>2 DEF SetToSeq
  <2>4. SetToSeq(Batch) \in Seq(Ids)
    <3>1. \A s \in [1..n -> Batch] : s \in Seq(Ids)
      <4>1. [1..n -> Batch] \subseteq [1..n -> Ids]
        BY DEF Ids
      <4>2. QED
        BY <2>1, <4>1, SeqDef
    <3>2. QED
      BY <2>3, <3>1
  <2>5. Max(Batch) \in Ids
    BY MaxOfSome DEF Ids
  <2>6. QED
    BY <1>2, <2>4, <2>5 DEF WholeBatch, IsAnswer
<1>3. QED
  BY <1>1, <1>2

\* The ids of the accepted records, then those of the rejected ones.
LEMMA NamedShape ==
    ASSUME NEW a, IsAnswer(a)
    PROVE /\ Len(a.accepted) \in Nat /\ Len(a.rejected) \in Nat
          /\ Len(Named(a)) = Len(a.accepted) + Len(a.rejected)
          /\ Named(a) \in Seq(Ids) /\ DOMAIN Named(a) = 1..Len(Named(a))
          /\ DOMAIN a.accepted = 1..Len(a.accepted) /\ DOMAIN a.rejected = 1..Len(a.rejected)
          /\ \A i \in 1..Len(a.accepted) : Named(a)[i] = a.accepted[i]
<1> DEFINE n == Len(a.rejected)
           refused == [i \in DOMAIN a.rejected |-> a.rejected[i].id]
<1>1. n \in Nat /\ DOMAIN a.rejected = 1..n /\ \A i \in 1..n : a.rejected[i].id \in Ids
  <2>1. \A R : \A s \in Seq(R) : Len(s) \in Nat /\ DOMAIN s = 1..Len(s) /\ \A i \in 1..Len(s) : s[i] \in R
    OBVIOUS
  <2>2. a.rejected \in Seq([id : Ids, reason : BOOLEAN])
    BY DEF IsAnswer
  <2>3. n \in Nat /\ DOMAIN a.rejected = 1..n
        /\ \A i \in 1..n : a.rejected[i] \in [id : Ids, reason : BOOLEAN]
    BY <2>1, <2>2, Zenon
  <2>4. QED
    BY <2>3
<1>2. refused \in [1..n -> Ids]
  BY <1>1
<1>3. refused \in Seq(Ids) /\ Len(refused) = n
  <2> HIDE DEF refused
  <2>1. \A s \in [1..n -> Ids] : s \in Seq(Ids) /\ Len(s) = n
    BY <1>1, SeqDef
  <2>2. QED
    BY <1>2, <2>1
<1>4. Named(a) = a.accepted \o refused
  BY DEF Named
<1>5. a.accepted \in Seq(Ids)
  BY DEF IsAnswer
<1>6. QED
  <2> HIDE DEF refused, n
  <2> DEFINE s == a.accepted
             named == s \o refused
  <2>1. s \in Seq(Ids) /\ refused \in Seq(Ids)
    BY <1>3, <1>5
  <2> HIDE DEF s
  <2>2. named \in Seq(Ids)
    BY <2>1
  <2>3. Len(named) = Len(s) + Len(refused)
    BY <2>1
  <2>4. \A i \in 1..Len(s) : named[i] = s[i]
    BY <2>1
  <2>5. Len(s) \in Nat /\ DOMAIN s = 1..Len(s)
    BY <2>1
  <2> HIDE DEF named
  <2>6. DOMAIN named = 1..Len(named)
    BY <2>2
  <2>7. Named(a) = named
    BY <1>4 DEF named, s
  <2>8. Len(named) = Len(s) + n
    BY <1>3, <2>3
  <2>9. QED
    BY <1>1, <2>2, <2>4, <2>5, <2>6, <2>7, <2>8 DEF n, s

\* What a consistent answer names, said without sequences.
LEMMA ConsistentMeans ==
    ASSUME NEW a, IsAnswer(a)
    PROVE Consistent(a) <=>
            /\ Len(Named(a)) # 0
            /\ \A i, j \in 1..Len(Named(a)) : Named(a)[i] = Named(a)[j] => i = j
            /\ \A i \in 1..Len(Named(a)) : Named(a)[i] \in Batch /\ ~Unreasoned(a, i)
            /\ a.highest # NotGiven => AcceptedOf(a) # {} /\ a.highest = Max(AcceptedOf(a))
            /\ a.retry # NotGiven => a.retry <= MaxDelay
<1> USE AnswerAssumption
<1>1. /\ Len(Named(a)) = Len(a.accepted) + Len(a.rejected) /\ DOMAIN Named(a) = 1..Len(Named(a))
      /\ Len(a.accepted) \in Nat /\ Len(a.rejected) \in Nat /\ DOMAIN a.rejected = 1..Len(a.rejected)
      /\ Named(a) \in Seq(Ids)
  BY NamedShape
<1>2. Named(a) # <<>> <=> Len(Named(a)) # 0
  <2>1. \A s \in Seq(Ids) : s # <<>> <=> Len(s) # 0
    OBVIOUS
  <2>2. QED
    BY <1>1, <2>1
<1>3. IsInjective(Named(a)) <=> \A i, j \in 1..Len(Named(a)) : Named(a)[i] = Named(a)[j] => i = j
  BY <1>1, Zenon DEF IsInjective
<1>4. ToSet(Named(a)) \subseteq Batch <=> \A i \in 1..Len(Named(a)) : Named(a)[i] \in Batch
  BY <1>1, Zenon DEF ToSet
<1>5. (\A i \in DOMAIN a.rejected : a.rejected[i].reason)
        <=> \A i \in 1..Len(Named(a)) : ~Unreasoned(a, i)
  <2>1. ASSUME \A i \in DOMAIN a.rejected : a.rejected[i].reason, NEW i \in 1..Len(Named(a))
        PROVE ~Unreasoned(a, i)
    <3>1. CASE i > Len(a.accepted)
      <4>1. \A p, q \in Nat : \A x \in 1..(p + q) : x > p => x - p \in 1..q
        OBVIOUS
      <4>2. i - Len(a.accepted) \in DOMAIN a.rejected
        BY <1>1, <3>1, <4>1
      <4>3. QED
        BY <2>1, <4>2 DEF Unreasoned
    <3>2. QED
      BY <3>1 DEF Unreasoned
  <2>2. ASSUME \A i \in 1..Len(Named(a)) : ~Unreasoned(a, i), NEW k \in DOMAIN a.rejected
        PROVE a.rejected[k].reason
    <3> \A p, q \in Nat : \A x \in 1..q : p + x \in 1..(p + q) /\ p + x > p /\ (p + x) - p = x
      OBVIOUS
    <3>1. /\ Len(a.accepted) + k \in 1..Len(Named(a)) /\ Len(a.accepted) + k > Len(a.accepted)
          /\ (Len(a.accepted) + k) - Len(a.accepted) = k
      BY <1>1
    <3>2. ~Unreasoned(a, Len(a.accepted) + k)
      BY <2>2, <3>1, Zenon
    <3>3. QED
      BY <3>1, <3>2 DEF Unreasoned
  <2>3. QED
    BY <2>1, <2>2
<1>6. a.highest \in {NotGiven} \cup {r \in AcceptedOf(a) : \A q \in AcceptedOf(a) : q <= r}
        <=> (a.highest # NotGiven => AcceptedOf(a) # {} /\ a.highest = Max(AcceptedOf(a)))
  <2>1. AcceptedOf(a) \subseteq Batch /\ IsFiniteSet(AcceptedOf(a)) /\ AcceptedOf(a) \subseteq Nat
    <3>1. AcceptedOf(a) \subseteq Batch
      BY DEF AcceptedOf
    <3>2. QED
      BY <3>1, FS_Subset
  <2>2. AcceptedOf(a) # {} => /\ Max(AcceptedOf(a)) \in AcceptedOf(a)
                              /\ \A q \in AcceptedOf(a) : q <= Max(AcceptedOf(a))
    BY <2>1, MaxOfSome
  <2>3. ASSUME NEW r \in AcceptedOf(a), \A q \in AcceptedOf(a) : q <= r
        PROVE r = Max(AcceptedOf(a))
    <3>1. r <= Max(AcceptedOf(a)) /\ Max(AcceptedOf(a)) <= r /\ r \in Nat /\ Max(AcceptedOf(a)) \in Nat
      BY <2>1, <2>2, <2>3
    <3>2. QED
      BY <3>1
  <2>4. QED
    BY <2>2, <2>3, Zenon
<1>7. a.retry \in {NotGiven} \cup 0..MaxDelay <=> (a.retry # NotGiven => a.retry <= MaxDelay)
  BY DEF IsAnswer
<1>8. QED
  BY <1>2, <1>3, <1>4, <1>5, <1>6, <1>7 DEF Consistent

\* A record is decided once, so the accepted and the rejected ones fit in the batch.
LEMMA DecidedFit ==
    ASSUME NEW a, IsAnswer(a), Consistent(a)
    PROVE /\ Cardinality(AcceptedOf(a)) \in Nat /\ Cardinality(Batch) \in Nat
          /\ Cardinality(AcceptedOf(a)) + Len(a.rejected) <= Cardinality(Batch)
<1> USE AnswerAssumption
<1> DEFINE n == Len(Named(a))
           k == Len(a.accepted)
<1>1. /\ n = k + Len(a.rejected) /\ k \in Nat /\ Len(a.rejected) \in Nat
      /\ Named(a) \in Seq(Ids) /\ DOMAIN Named(a) = 1..n
      /\ DOMAIN a.accepted = 1..k /\ \A i \in 1..k : Named(a)[i] = a.accepted[i]
      /\ a.accepted \in Seq(Ids)
  BY NamedShape DEF IsAnswer
<1>2. /\ \A i, j \in 1..n : Named(a)[i] = Named(a)[j] => i = j
      /\ \A i \in 1..n : Named(a)[i] \in Batch
  BY ConsistentMeans
<1> HIDE DEF n, k
<1>3. n \in Nat /\ Cardinality(1..n) = n /\ Cardinality(1..k) = k /\ IsFiniteSet(1..k)
  <2>1. n \in Nat /\ n \in Int /\ k \in Int /\ 1 \in Int
    BY <1>1
  <2>2. /\ Cardinality(1..n) = IF 1 > n THEN 0 ELSE n - 1 + 1
        /\ Cardinality(1..k) = IF 1 > k THEN 0 ELSE k - 1 + 1
        /\ IsFiniteSet(1..k)
    BY <2>1, FS_Interval, Zenon
  <2>3. QED
    BY <1>1, <2>1, <2>2
<1>4. n <= Cardinality(Batch)
  <2>1. \A s \in Seq(Ids) : DOMAIN s = 1..n => s = [i \in 1..n |-> s[i]]
    OBVIOUS
  <2>2. Named(a) = [i \in 1..n |-> Named(a)[i]]
    BY <1>1, <2>1
  <2>3. Named(a) \in [1..n -> Batch]
    BY <1>2, <2>2
  <2>4. Named(a) \in Injection(1..n, Batch)
    BY <1>1, <1>2, <2>3, Zenon DEF Injection, IsInjective
  <2>5. QED
    BY <1>3, <2>4, FS_Injection
<1>5. Cardinality(AcceptedOf(a)) <= k /\ IsFiniteSet(AcceptedOf(a))
  <2>1. \A i \in 1..k : a.accepted[i] \in Batch
    <3>1. \A i \in 1..k : i \in 1..n
      BY <1>1
    <3>2. QED
      BY <1>1, <1>2, <3>1
  <2>2. \A s \in Seq(Ids) : DOMAIN s = 1..k => s = [i \in 1..k |-> s[i]] /\ Len(s) = k
    BY <1>1
  <2>3. a.accepted = [i \in 1..k |-> a.accepted[i]] /\ Len(a.accepted) = k
    BY <1>1, <2>2
  <2>4. \A i \in 1..k : a.accepted[i] \in AcceptedOf(a)
    BY <2>1, <2>3, Zenon DEF AcceptedOf, Contains
  <2>5. a.accepted \in [1..k -> AcceptedOf(a)]
    BY <2>3, <2>4
  <2>6. \A r \in AcceptedOf(a) : \E i \in 1..k : a.accepted[i] = r
    BY <2>3, Zenon DEF AcceptedOf, Contains
  <2>7. a.accepted \in Surjection(1..k, AcceptedOf(a))
    BY <2>5, <2>6, Zenon DEF Surjection
  <2>8. QED
    BY <1>3, <2>7, FS_Surjection
<1>6. Cardinality(Batch) \in Nat /\ Cardinality(AcceptedOf(a)) \in Nat
  BY <1>5, FS_CardinalityType
<1>7. QED
  BY <1>1, <1>3, <1>4, <1>5, <1>6

\* What validate has decided when it accepts an answer or refuses one, and what has
\* left the spool.
THEOREM AnswerInvariant == AnswerSpec => [](AnswerTypeOK /\ AnswerInv)
<1> USE AnswerAssumption
<1>1. AnswerInit => AnswerTypeOK /\ AnswerInv
  BY DEF AnswerInit, NothingDone, AnswerTypeOK, AnswerInv
<1>2. AnswerTypeOK /\ AnswerInv /\ [AnswerNext]_answerVars => AnswerTypeOK' /\ AnswerInv'
  <2> SUFFICES ASSUME AnswerTypeOK, AnswerInv, [AnswerNext]_answerVars
               PROVE AnswerTypeOK' /\ AnswerInv'
    OBVIOUS
  <2> DEFINE n == Len(Named(answer))
  <2>1. CASE ReceiveAnswer
    <3>1. answer' \in Answers \cup {WholeBatch}
      BY <2>1 DEF ReceiveAnswer, AnswerTypeOK
    <3>2. Len(Named(answer')) \in Nat
      <4>1. IsAnswer(answer')
        BY <3>1, AnswerShape
      <4>2. QED
        BY <4>1, NamedShape
    <3>3. AnswerTypeOK'
      BY <2>1, <3>1 DEF ReceiveAnswer, AnswerTypeOK
    <3>4. /\ answerStage' = "checking" /\ checked' = 0 /\ decided' = {}
          /\ onDisk' = Batch /\ sent' = 0 /\ rejected' = 0
      BY <2>1 DEF ReceiveAnswer, AnswerInv
    <3>5. decided' = {Named(answer')[i] : i \in 1..checked'}
      BY <3>4
    <3>6. QED
      BY <3>1, <3>2, <3>3, <3>4, <3>5 DEF AnswerInv
  <2>2. CASE CheckEntry
    <3>1. /\ answer \in Answers \cup {WholeBatch} /\ checked \in 0..n /\ checked < n
          /\ decided = {Named(answer)[i] : i \in 1..checked} /\ decided \subseteq Batch
          /\ \A i, j \in 1..checked : Named(answer)[i] = Named(answer)[j] => i = j
          /\ \A i \in 1..checked : ~Unreasoned(answer, i)
          /\ onDisk = Batch /\ sent = 0 /\ rejected = 0
      BY <2>2 DEF CheckEntry, AnswerInv, AnswerTypeOK
    <3>2. IsAnswer(answer) /\ n \in Nat /\ checked + 1 \in 1..n
      <4>1. IsAnswer(answer)
        BY <3>1, AnswerShape
      <4>2. n \in Nat
        BY <4>1, NamedShape
      <4>3. QED
        BY <3>1, <4>1, <4>2
    <3>3. /\ answer' = answer /\ onDisk' = onDisk /\ sent' = sent /\ rejected' = rejected
      BY <2>2 DEF CheckEntry
    <3>4. CASE Refused(checked + 1)
      <4>1. ~Consistent(answer)
        <5>1. CASE Named(answer)[checked + 1] \in decided
          <6>1. PICK i \in 1..checked : Named(answer)[i] = Named(answer)[checked + 1]
            BY <3>1, <5>1
          <6>2. i \in 1..n /\ i # checked + 1
            BY <3>1, <3>2
          <6>3. QED
            BY <3>2, <6>1, <6>2, ConsistentMeans
        <5>2. CASE Named(answer)[checked + 1] \notin Batch \/ Unreasoned(answer, checked + 1)
          BY <3>2, <5>2, ConsistentMeans
        <5>3. QED
          BY <3>4, <5>1, <5>2 DEF Refused
      <4>2. answerStage' = "retained" /\ checked' = checked /\ decided' = decided
        BY <2>2, <3>4 DEF CheckEntry
      <4>3. QED
        BY <3>1, <3>3, <4>1, <4>2 DEF AnswerInv, AnswerTypeOK
    <3>5. CASE ~Refused(checked + 1)
      <4> DEFINE k == checked + 1
      <4>1. /\ answerStage' = "checking" /\ checked' = k /\ decided' = decided \cup {Named(answer)[k]}
        BY <2>2, <3>5 DEF CheckEntry
      <4>2. Named(answer)[k] \in Batch \ decided /\ ~Unreasoned(answer, k)
        BY <3>5 DEF Refused
      <4>3. 1..k = (1..checked) \cup {k} /\ k \in 0..n /\ k \in Nat
        BY <3>1, <3>2
      <4> HIDE DEF k, n
      <4>4. decided' = {Named(answer)[i] : i \in 1..k}
        BY <3>1, <4>1, <4>3
      <4>5. \A i, j \in 1..k : Named(answer)[i] = Named(answer)[j] => i = j
        <5>1. \A i \in 1..checked : Named(answer)[i] \in decided
          BY <3>1
        <5>2. QED
          BY <3>1, <4>2, <4>3, <5>1
      <4>6. \A i \in 1..k : ~Unreasoned(answer, i)
        BY <3>1, <4>2, <4>3
      <4>7. AnswerTypeOK'
        BY <3>3, <4>1, <4>2, <4>3 DEF AnswerTypeOK
      <4>8. /\ checked' \in 0..Len(Named(answer)')
            /\ decided' = {Named(answer)'[i] : i \in 1..checked'}
            /\ \A i, j \in 1..checked' : Named(answer)'[i] = Named(answer)'[j] => i = j
            /\ \A i \in 1..checked' : ~Unreasoned(answer, i)'
        <5>1. Named(answer)' = Named(answer) /\ \A i : Unreasoned(answer, i)' <=> Unreasoned(answer, i)
          BY <3>3 DEF Named, Unreasoned
        <5>2. QED
          BY <4>1, <4>3, <4>4, <4>5, <4>6, <5>1 DEF n
      <4>9. QED
        BY <3>1, <3>3, <4>1, <4>7, <4>8 DEF AnswerInv
    <3>6. QED
      BY <3>4, <3>5
  <2>3. CASE CheckRest
    <3> DEFINE passes == /\ answer.highest # NotGiven =>
                              AcceptedOf(answer) # {} /\ answer.highest = Max(AcceptedOf(answer))
                         /\ answer.retry # NotGiven => answer.retry <= MaxDelay
                         /\ decided # {}
    <3>1. /\ answer \in Answers \cup {WholeBatch} /\ checked = n
          /\ decided = {Named(answer)[i] : i \in 1..n} /\ decided \subseteq Batch
          /\ \A i, j \in 1..n : Named(answer)[i] = Named(answer)[j] => i = j
          /\ \A i \in 1..n : ~Unreasoned(answer, i)
          /\ onDisk = Batch /\ sent = 0 /\ rejected = 0
      BY <2>3 DEF CheckRest, AnswerInv, AnswerTypeOK
    <3>2. IsAnswer(answer) /\ n \in Nat
      <4>1. IsAnswer(answer)
        BY <3>1, AnswerShape
      <4>2. QED
        BY <4>1, NamedShape
    <3>3. passes <=> Consistent(answer)
      <4>1. decided # {} <=> n # 0
        BY <3>1, <3>2
      <4>2. \A i \in 1..n : Named(answer)[i] \in Batch
        BY <3>1
      <4>3. QED
        BY <3>1, <3>2, <4>1, <4>2, ConsistentMeans, Zenon
    <3>4. /\ answerStage' = IF passes THEN "removing" ELSE "retained"
          /\ UNCHANGED <<answer, checked, decided, onDisk, sent, rejected>>
      BY <2>3 DEF CheckRest
    <3> HIDE DEF passes
    <3>5. QED
      BY <3>1, <3>3, <3>4 DEF AnswerInv, AnswerTypeOK
  <2>4. CASE RemoveAccepted
    <3>1. /\ answer \in Answers \cup {WholeBatch} /\ Consistent(answer)
          /\ onDisk = Batch /\ sent = 0 /\ rejected = 0
      BY <2>4 DEF RemoveAccepted, AnswerInv
    <3>2. IsAnswer(answer) /\ Len(answer.rejected) \in Nat /\ Cardinality(AcceptedOf(answer)) \in Nat
      <4>1. IsAnswer(answer)
        BY <3>1, AnswerShape
      <4>2. QED
        BY <3>1, <4>1, NamedShape, DecidedFit
    <3>3. /\ onDisk' = Batch \ AcceptedOf(answer) /\ sent' = Cardinality(AcceptedOf(answer))
          /\ rejected' = Len(answer.rejected) /\ answerStage' \in {"sleeping", "delivered"}
          /\ UNCHANGED <<answer, checked, decided>>
      BY <2>4, <3>1, <3>2 DEF RemoveAccepted
    <3>4. QED
      BY <3>1, <3>2, <3>3 DEF AnswerInv, AnswerTypeOK
  <2>5. CASE Sleep \/ UNCHANGED answerVars
    BY <2>5 DEF Sleep, answerVars, AnswerInv, AnswerTypeOK
  <2> QED
    BY <2>1, <2>2, <2>3, <2>4, <2>5 DEF AnswerNext
<1>3. QED
  BY <1>1, <1>2, PTL DEF AnswerSpec

\* An answer that validate refuses removes nothing; of one it accepts, exactly the
\* accepted records leave the spool and are counted, whatever the batch is.
THEOREM AcceptedLeave == AnswerSpec => []ExactlyAccepted
<1> USE AnswerAssumption
<1>1. AnswerTypeOK /\ AnswerInv => ExactlyAccepted
  <2> SUFFICES ASSUME AnswerTypeOK, AnswerInv, answerStage \in {"delivered", "retained"}
               PROVE IF Consistent(answer)
                     THEN /\ Batch \ onDisk = AcceptedOf(answer)
                          /\ sent = Cardinality(Batch \ onDisk)
                          /\ sent + rejected <= Cardinality(Batch)
                     ELSE onDisk = Batch /\ sent = 0
    BY Zenon DEF ExactlyAccepted
  <2>1. CASE answerStage = "retained"
    BY <2>1 DEF AnswerInv
  <2>2. CASE answerStage = "delivered"
    <3>1. /\ answer \in Answers \cup {WholeBatch} /\ Consistent(answer)
          /\ onDisk = Batch \ AcceptedOf(answer) /\ sent = Cardinality(AcceptedOf(answer))
          /\ rejected = Len(answer.rejected)
      BY <2>2 DEF AnswerInv
    <3>2. Batch \ onDisk = AcceptedOf(answer)
      BY <3>1 DEF AcceptedOf
    <3>3. IsAnswer(answer)
      BY <3>1, AnswerShape
    <3>4. sent + rejected <= Cardinality(Batch)
      BY <3>1, <3>3, DecidedFit
    <3>5. QED
      BY <3>1, <3>2, <3>4
  <2>3. QED
    BY <2>1, <2>2
<1>2. QED
  BY <1>1, AnswerInvariant, PTL
=============================================================================
