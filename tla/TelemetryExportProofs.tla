------------------------ MODULE TelemetryExportProofs ------------------------
(***************************************************************************)
(* Proofs about TelemetryExport for every number of publishers, batch size, *)
(* retry budget and spool limit, and any number of crashes.                 *)
(***************************************************************************)
EXTENDS TelemetryExport, FiniteSetTheorems, TLAPS

SpoolFinite == IsFiniteSet(records) /\ IsFiniteSet(batch) /\ IsFiniteSet(accepted)

\* The spool and what the worker takes from it are finite, so the gauges that
\* count them are numbers.
LEMMA FiniteSpool == Spec => []SpoolFinite
<1>1. Init => SpoolFinite
  BY FS_EmptySet DEF Init, SpoolFinite
<1>2. SpoolFinite /\ [Next]_vars => SpoolFinite'
  <2> SUFFICES ASSUME SpoolFinite, [Next]_vars PROVE SpoolFinite'
    OBVIOUS
  <2>1. \/ records' \subseteq records
        \/ \E t \in Publisher : records' = records \cup {draft[t]}
    BY DEF Next, Publish, Export, vars, disk, Start, Crash, NextSequence, AppendRecord,
           RefuseAppend, ReadStats, Announce, WakeUp, Exchange, FailedExchange,
           Acknowledge, CountSent, WorkerStats, WorkerGauge, StrayArrives, Expire, Purge
  <2>2. batch' \subseteq batch \/ batch' \subseteq records
    BY DEF Next, Publish, Export, vars, daemon, worker, Start, Crash, NextSequence,
           AppendRecord, RefuseAppend, ReadStats, Announce, WakeUp, Exchange,
           FailedExchange, NextAttempt, Acknowledge, CountSent, WorkerStats,
           WorkerGauge, StrayArrives, Expire, Purge, Oldest
  <2>3. accepted' \subseteq accepted \/ accepted' \subseteq batch
    BY DEF Next, Publish, Export, vars, daemon, worker, Start, Crash, NextSequence,
           AppendRecord, RefuseAppend, ReadStats, Announce, WakeUp, Exchange, Committed,
           FailedExchange, NextAttempt, Acknowledge, CountSent, WorkerStats,
           WorkerGauge, StrayArrives, Expire, Purge
  <2>4. IsFiniteSet(records')
    BY <2>1, FS_Subset, FS_AddElement DEF SpoolFinite
  <2>5. IsFiniteSet(batch') /\ IsFiniteSet(accepted')
    BY <2>2, <2>3, FS_Subset DEF SpoolFinite
  <2>6. QED
    BY <2>4, <2>5 DEF SpoolFinite
<1>3. QED
  BY <1>1, <1>2, PTL DEF Spec

\* The type invariant of the publisher, the worker and the collector's table.
THEOREM TypeCorrect == Spec => []TypeOK
<1>0. NoDraft \in Envelope
  BY DEF NoDraft, Envelope, Verdict
<1>a. 0 \in 0..WakeCapacity /\ 0 \in 0..MaxRetries
  BY ExportAssumption
<1>1. ASSUME Init PROVE TypeOK
  <2>1. draft \in [Publisher -> Envelope]
    BY <1>0, <1>1 DEF Init
  <2>2. QED
    BY <1>1, <1>a, <2>1 DEF Init, TypeOK
<1>2. SpoolFinite /\ TypeOK /\ [Next]_vars => TypeOK'
  <2> SUFFICES ASSUME SpoolFinite, TypeOK, [Next]_vars PROVE TypeOK'
    OBVIOUS
  <2>0. Cardinality(records) \in Nat /\ Cardinality(accepted) \in Nat
    BY FS_CardinalityType DEF SpoolFinite
  <2> HIDE DEF SpoolFinite
  <2>2. CASE Crash
    <3>1. records' \subseteq Envelope /\ expired' \subseteq records' /\ sequence' \in Nat
      BY <2>2 DEF Crash, TypeOK
    <3>2. /\ up' \in BOOLEAN
          /\ pc' \in [Publisher -> {"idle", "numbered", "appended", "counted"}]
          /\ count' \in [Publisher -> Nat]
      BY <2>2 DEF Crash
    <3>3. draft' \in [Publisher -> Envelope]
      BY <2>2, <1>0 DEF Crash
    <3>4. wake' \in 0..WakeCapacity /\ attempt' \in 0..MaxRetries
      BY <2>2, <1>a DEF Crash
    <3>5. stage' = "waiting" /\ queued' = 0 /\ workerCount' = 0
          /\ batch' = {} /\ accepted' = {}
      BY <2>2 DEF Crash
    <3>6. /\ stray' \subseteq SUBSET Envelope /\ stored' \subseteq Envelope
          /\ crashes' \in Nat
      BY <2>2 DEF Crash, TypeOK
    <3>7. appended' \subseteq Envelope /\ purged' \subseteq Envelope
      BY <2>2 DEF Crash, TypeOK, history
    <3>8. QED
      BY <3>1, <3>2, <3>3, <3>4, <3>5, <3>6, <3>7 DEF TypeOK
  <2> USE ExportAssumption DEF TypeOK
  <2> USE DEF disk, daemon, publishers, worker, outside, history
  <2>1. CASE Start
    BY <2>1, <2>0 DEF Start
  <2>3. ASSUME NEW t \in Publisher, NextSequence(t) PROVE TypeOK'
    BY <2>3 DEF NextSequence, Envelope
  <2>4. ASSUME NEW t \in Publisher, AppendRecord(t) PROVE TypeOK'
    BY <2>4 DEF AppendRecord
  <2>5. ASSUME NEW t \in Publisher, RefuseAppend(t) PROVE TypeOK'
    BY <2>5, <1>0 DEF RefuseAppend
  <2>6. ASSUME NEW t \in Publisher, ReadStats(t) PROVE TypeOK'
    BY <2>6, <2>0, <1>0 DEF ReadStats
  <2>7. ASSUME NEW t \in Publisher, Announce(t) PROVE TypeOK'
    BY <2>7 DEF Announce
  <2>8. CASE WakeUp
    BY <2>8 DEF WakeUp, Oldest
  <2>9. CASE Exchange
    BY <2>9 DEF Exchange, Committed, Refused
  <2>10. CASE FailedExchange
    BY <2>10 DEF FailedExchange, Committed, NextAttempt
  <2>11. CASE Acknowledge
    BY <2>11 DEF Acknowledge
  <2>12. CASE CountSent
    BY <2>12, <2>0 DEF CountSent
  <2>13. CASE WorkerStats
    BY <2>13, <2>0 DEF WorkerStats
  <2>14. CASE WorkerGauge
    BY <2>14 DEF WorkerGauge
  <2>15. CASE StrayArrives
    BY <2>15 DEF StrayArrives, Committed
  <2>16. CASE Expire
    BY <2>16 DEF Expire
  <2>17. CASE Purge
    BY <2>17 DEF Purge
  <2>18. CASE UNCHANGED vars
    BY <2>18 DEF vars
  <2>19. QED
    BY <2>1, <2>2, <2>3, <2>4, <2>5, <2>6, <2>7, <2>8, <2>9, <2>10, <2>11, <2>12, <2>13, <2>14, <2>15, <2>16, <2>17, <2>18 DEF Next, Publish, Export
<1>3. QED
  BY <1>1, <1>2, FiniteSpool, PTL DEF Spec

\* The strengthened invariant is inductive: a sequence is drawn once, what the
\* worker removes was committed first, and requests hold persisted envelopes.
THEOREM ExportInvariant == Spec => []ExportInv
<1> USE ExportAssumption
<1>1. TypeOK /\ Init => ExportInv
  BY DEF Init, NoDraft, ExportInv, DraftsFresh, Drawn, RequestsPersisted,
         AcceptedStored, NothingLost, PersistedFirst
<1>2. ExportInv /\ TypeOK' /\ [Next]_vars => ExportInv'
  <2> SUFFICES ASSUME ExportInv, TypeOK', [Next]_vars PROVE ExportInv'
    OBVIOUS
  <2> USE DEF ExportInv, TypeOK, Envelope, DraftsFresh, Drawn, RequestsPersisted,
              AcceptedStored, NothingLost, PersistedFirst,
              disk, daemon, publishers, worker, outside, history
  <2>1. CASE Start
    BY <2>1 DEF Start
  <2>2. CASE Crash
    BY <2>2 DEF Crash, NoDraft
  <2>3. ASSUME NEW t \in Publisher, NextSequence(t) PROVE ExportInv'
    BY <2>3 DEF NextSequence
  <2>4. ASSUME NEW t \in Publisher, AppendRecord(t) PROVE ExportInv'
    BY <2>4 DEF AppendRecord
  <2>5. ASSUME NEW t \in Publisher, RefuseAppend(t) PROVE ExportInv'
    BY <2>5 DEF RefuseAppend, NoDraft
  <2>6. ASSUME NEW t \in Publisher, ReadStats(t) PROVE ExportInv'
    BY <2>6 DEF ReadStats, NoDraft
  <2>7. ASSUME NEW t \in Publisher, Announce(t) PROVE ExportInv'
    BY <2>7 DEF Announce
  <2>8. CASE WakeUp
    BY <2>8 DEF WakeUp, Oldest
  <2>9. CASE Exchange
    BY <2>9 DEF Exchange, Committed, Refused
  <2>10. CASE FailedExchange
    BY <2>10 DEF FailedExchange, Committed, NextAttempt
  <2>11. CASE Acknowledge
    BY <2>11 DEF Acknowledge
  <2>12. CASE CountSent
    BY <2>12 DEF CountSent
  <2>13. CASE WorkerStats
    BY <2>13 DEF WorkerStats
  <2>14. CASE WorkerGauge
    BY <2>14 DEF WorkerGauge
  <2>15. CASE StrayArrives
    BY <2>15 DEF StrayArrives, Committed
  <2>16. CASE Expire
    BY <2>16 DEF Expire
  <2>17. CASE Purge
    BY <2>17 DEF Purge
  <2>18. CASE UNCHANGED vars
    BY <2>18 DEF vars
  <2>19. QED
    BY <2>1, <2>2, <2>3, <2>4, <2>5, <2>6, <2>7, <2>8, <2>9, <2>10, <2>11, <2>12, <2>13, <2>14, <2>15, <2>16, <2>17, <2>18 DEF Next, Publish, Export
<1>3. QED
  BY <1>1, <1>2, TypeCorrect, PTL DEF Spec

\* No persisted envelope is lost (publish, spawn_export_worker).
THEOREM NoEnvelopeLost == Spec => []NothingLost
<1>1. ExportInv => NothingLost
  BY DEF ExportInv
<1>2. QED
  BY <1>1, ExportInvariant, PTL

\* Publishing and exporting implement at-least-once delivery: appending accepts
\* an envelope, whatever reaches the collector delivers it, and only an
\* acknowledgement of committed records lets go of it.
THEOREM ExportImplementsQueue == Spec => ImplementsQueue
<1>1. Init => Queue!Init
  BY DEF Init, Queue!Init
<1>2. ExportInv /\ [Next]_vars => [Queue!Next]_(Queue!vars)
  <2> SUFFICES ASSUME ExportInv, [Next]_vars
               PROVE Queue!Next \/ UNCHANGED <<records, stored, purged>>
    BY DEF Queue!vars
  <2> USE DEF ExportInv, DraftsFresh, Drawn, RequestsPersisted, AcceptedStored,
              NothingLost, PersistedFirst,
              disk, daemon, publishers, worker, outside, history
  <2>1. CASE Crash
    <3>1. Queue!LetGo
      BY <2>1 DEF Crash, Queue!LetGo
    <3>2. QED
      BY <3>1 DEF Queue!Next
  <2>2. ASSUME NEW t \in Publisher, AppendRecord(t) PROVE Queue!Accept
    BY <2>2 DEF AppendRecord, Queue!Accept
  <2>3. CASE Exchange
    <3>1. Queue!Deliver
      BY <2>3 DEF Exchange, Committed, Refused, Queue!Deliver
    <3>2. QED
      BY <3>1 DEF Queue!Next
  <2>4. CASE FailedExchange
    <3>1. Queue!Deliver
      BY <2>4 DEF FailedExchange, Committed, Queue!Deliver
    <3>2. QED
      BY <3>1 DEF Queue!Next
  <2>5. CASE StrayArrives
    <3>1. Queue!Deliver
      BY <2>5 DEF StrayArrives, Committed, Queue!Deliver
    <3>2. QED
      BY <3>1 DEF Queue!Next
  <2>6. CASE Acknowledge
    <3>1. Queue!LetGo
      BY <2>6 DEF Acknowledge, Queue!LetGo
    <3>2. QED
      BY <3>1 DEF Queue!Next
  <2>7. CASE Purge
    <3>1. Queue!Drop
      BY <2>7 DEF Purge, Queue!Drop, TypeOK
    <3>2. QED
      BY <3>1 DEF Queue!Next
  <2>8. ASSUME \/ Start \/ Expire
               \/ \E t \in Publisher : \/ NextSequence(t) \/ RefuseAppend(t)
                                       \/ ReadStats(t) \/ Announce(t)
               \/ WakeUp \/ CountSent \/ WorkerStats \/ WorkerGauge
               \/ UNCHANGED vars
        PROVE UNCHANGED <<records, stored, purged>>
    BY <2>8 DEF Start, Expire, NextSequence, RefuseAppend, ReadStats, Announce,
                WakeUp, CountSent, WorkerStats, WorkerGauge, vars
  <2>9. QED
    BY <2>1, <2>2, <2>3, <2>4, <2>5, <2>6, <2>7, <2>8
       DEF Next, Publish, Export, Queue!Next
<1>3. QED
  BY <1>1, <1>2, ExportInvariant, PTL DEF Spec, ImplementsQueue, Queue!Spec, Queue!vars
=============================================================================
