--------------------------- MODULE JobQueueProofs ---------------------------
(***************************************************************************)
(* Proofs about JobQueue for every set of jobs and workers, every limit and *)
(* any number of crashes, database errors and overrun leases.               *)
(***************************************************************************)
EXTENDS JobQueue, TLAPS

\* The types of the job table and the workers.
THEOREM RowsTyped == Spec => []RowsOK
<1> USE QueueAssumption DEF RowsOK
<1>1. Init => RowsOK
  BY DEF Init
<1>2. RowsOK /\ [Next]_vars => RowsOK'
  <2> SUFFICES ASSUME RowsOK, [Next]_vars PROVE RowsOK'
    OBVIOUS
  <2> USE DEF table, workers, Record, CircuitOpen
  <2>1. ASSUME NEW j \in Job, Enqueue(j) PROVE RowsOK'
    BY <2>1 DEF Enqueue
  <2>2. ASSUME NEW j \in Job, Elapse(j) PROVE RowsOK'
    BY <2>2 DEF Elapse
  <2>3. ASSUME NEW j \in Job, ExpireLease(j) PROVE RowsOK'
    BY <2>3 DEF ExpireLease
  <2>4. ASSUME NEW w \in Worker, Lease(w) PROVE RowsOK'
    BY <2>4 DEF Lease, LeaseJob
  <2>5. ASSUME NEW w \in Worker, LeaseLost(w) PROVE RowsOK'
    BY <2>5 DEF LeaseLost, LeaseJob
  <2>6. ASSUME NEW w \in Worker, Answer(w) PROVE RowsOK'
    BY <2>6 DEF Answer
  <2>7. ASSUME NEW w \in Worker, Complete(w) PROVE RowsOK'
    BY <2>7 DEF Complete, Finish, StoreResult, MarkDelivered
  <2>8. ASSUME NEW w \in Worker, Fail(w) PROVE RowsOK'
    BY <2>8 DEF Fail, ReturnJob
  <2>9. ASSUME NEW w \in Worker, UpdateFails(w) PROVE RowsOK'
    BY <2>9 DEF UpdateFails, Finish, StoreResult, MarkDelivered, ReturnJob
  <2>10. ASSUME NEW w \in Worker, Crash(w) PROVE RowsOK'
    BY <2>10 DEF Crash
  <2>11. ASSUME NEW w \in Worker, CoolDown(w) PROVE RowsOK'
    BY <2>11 DEF CoolDown
  <2>12. ASSUME NEW w \in Worker, Overrun(w) PROVE RowsOK'
    BY <2>12 DEF Overrun
  <2>13. CASE UNCHANGED vars
    BY <2>13 DEF vars
  <2>14. QED
    BY <2>1, <2>2, <2>3, <2>4, <2>5, <2>6, <2>7, <2>8, <2>9, <2>10, <2>11, <2>12, <2>13
       DEF Next, Work
<1>3. QED
  BY <1>1, <1>2, PTL DEF Spec

\* Every attempt is charged: to a failure below MaxAttempts (fail_*), to a crash
\* or database error, or to a lease that was overrun (lease_*).
THEOREM ChargeInvariant == Spec => []ChargeInv
<1> USE QueueAssumption
<1>1. RowsOK /\ Init => ChargeInv
  BY DEF Init, ChargeInv, RowsOK
<1>2. ChargeInv /\ RowsOK' /\ [Next]_vars => ChargeInv'
  <2> SUFFICES ASSUME ChargeInv, RowsOK', [Next]_vars PROVE ChargeInv'
    OBVIOUS
  <2> USE DEF ChargeInv, RowsOK, table, workers, Record, CircuitOpen
  <2>1. ASSUME NEW j \in Job, Enqueue(j) PROVE ChargeInv'
    BY <2>1 DEF Enqueue
  <2>2. ASSUME NEW j \in Job, Elapse(j) PROVE ChargeInv'
    BY <2>2 DEF Elapse
  <2>3. ASSUME NEW j \in Job, ExpireLease(j) PROVE ChargeInv'
    BY <2>3 DEF ExpireLease
  <2>4. ASSUME NEW w \in Worker, Lease(w) PROVE ChargeInv'
    BY <2>4 DEF Lease, LeaseJob, Candidate, Leasable
  <2>5. ASSUME NEW w \in Worker, LeaseLost(w) PROVE ChargeInv'
    BY <2>5 DEF LeaseLost, LeaseJob, Candidate, Leasable
  <2>6. ASSUME NEW w \in Worker, Answer(w) PROVE ChargeInv'
    BY <2>6 DEF Answer
  <2>7. ASSUME NEW w \in Worker, Complete(w) PROVE ChargeInv'
    BY <2>7 DEF Complete, Finish, StoreResult, MarkDelivered
  <2>8. ASSUME NEW w \in Worker, Fail(w) PROVE ChargeInv'
    BY <2>8 DEF Fail, ReturnJob
  <2>9. ASSUME NEW w \in Worker, UpdateFails(w) PROVE ChargeInv'
    BY <2>9 DEF UpdateFails, Finish, StoreResult, MarkDelivered, ReturnJob
  <2>10. ASSUME NEW w \in Worker, Crash(w) PROVE ChargeInv'
    BY <2>10 DEF Crash
  <2>11. ASSUME NEW w \in Worker, CoolDown(w) PROVE ChargeInv'
    BY <2>11 DEF CoolDown
  <2>12. ASSUME NEW w \in Worker, Overrun(w) PROVE ChargeInv'
    BY <2>12 DEF Overrun
  <2>13. CASE UNCHANGED vars
    BY <2>13 DEF vars
  <2>14. QED
    BY <2>1, <2>2, <2>3, <2>4, <2>5, <2>6, <2>7, <2>8, <2>9, <2>10, <2>11, <2>12, <2>13
       DEF Next, Work
<1>3. QED
  BY <1>1, <1>2, RowsTyped, PTL DEF Spec

\* Retries are bounded by the limit and the faults (lease_*, fail_*).
THEOREM RetriesBounded == Spec => []AttemptsCharged
<1>1. ChargeInv => AttemptsCharged
  BY DEF ChargeInv, AttemptsCharged
<1>2. QED
  BY <1>1, ChargeInvariant, PTL

\* As long as no lease was overrun, a busy worker holds the lease of its job.
THEOREM HolderInvariant == Spec => []HolderInv
<1> USE QueueAssumption
<1>1. RowsOK /\ Init => HolderInv
  BY DEF Init, HolderInv, RowsOK
<1>2. HolderInv /\ RowsOK' /\ [Next]_vars => HolderInv'
  <2> SUFFICES ASSUME HolderInv, RowsOK', [Next]_vars PROVE HolderInv'
    OBVIOUS
  <2> USE DEF HolderInv, RowsOK, table, workers, Record, CircuitOpen
  <2>1. ASSUME NEW j \in Job, Enqueue(j) PROVE HolderInv'
    BY <2>1 DEF Enqueue
  <2>2. ASSUME NEW j \in Job, Elapse(j) PROVE HolderInv'
    BY <2>2 DEF Elapse
  <2>3. ASSUME NEW j \in Job, ExpireLease(j) PROVE HolderInv'
    BY <2>3 DEF ExpireLease
  <2>4. ASSUME NEW w \in Worker, Lease(w) PROVE HolderInv'
    BY <2>4 DEF Lease, LeaseJob, Candidate, Leasable
  <2>5. ASSUME NEW w \in Worker, LeaseLost(w) PROVE HolderInv'
    BY <2>5 DEF LeaseLost, LeaseJob, Candidate, Leasable
  <2>6. ASSUME NEW w \in Worker, Answer(w) PROVE HolderInv'
    BY <2>6 DEF Answer
  <2>7. ASSUME NEW w \in Worker, Complete(w) PROVE HolderInv'
    BY <2>7 DEF Complete, Finish, StoreResult, MarkDelivered
  <2>8. ASSUME NEW w \in Worker, Fail(w) PROVE HolderInv'
    BY <2>8 DEF Fail, ReturnJob
  <2>9. ASSUME NEW w \in Worker, UpdateFails(w) PROVE HolderInv'
    BY <2>9 DEF UpdateFails, Finish, StoreResult, MarkDelivered, ReturnJob
  <2>10. ASSUME NEW w \in Worker, Crash(w) PROVE HolderInv'
    BY <2>10 DEF Crash
  <2>11. ASSUME NEW w \in Worker, CoolDown(w) PROVE HolderInv'
    BY <2>11 DEF CoolDown
  <2>12. ASSUME NEW w \in Worker, Overrun(w) PROVE HolderInv'
    BY <2>12 DEF Overrun
  <2>13. CASE UNCHANGED vars
    BY <2>13 DEF vars
  <2>14. QED
    BY <2>1, <2>2, <2>3, <2>4, <2>5, <2>6, <2>7, <2>8, <2>9, <2>10, <2>11, <2>12, <2>13
       DEF Next, Work
<1>3. QED
  BY <1>1, <1>2, RowsTyped, PTL DEF Spec

\* A stale worker never reopens a finished job (WHERE status='running').
THEOREM FinishedStays == Spec => FinishedForGood
<1>1. RowsOK /\ [Next]_vars =>
        [\A j \in Job : status[j] \in {"completed", "failed"} => status'[j] = status[j]]_vars
  <2> SUFFICES ASSUME RowsOK, [Next]_vars, NEW j \in Job,
                      status[j] \in {"completed", "failed"}
               PROVE status'[j] = status[j]
    OBVIOUS
  <2> USE DEF RowsOK, table, workers
  <2>1. ASSUME NEW w \in Worker, Work(w) PROVE status'[j] = status[j]
    BY <2>1 DEF Work, Lease, LeaseLost, LeaseJob, Candidate, Leasable, Answer, Complete, Fail, UpdateFails,
                Finish, StoreResult, MarkDelivered, ReturnJob, Crash, CoolDown, Overrun
  <2>2. ASSUME NEW k \in Job, Enqueue(k) \/ Elapse(k) \/ ExpireLease(k)
        PROVE status'[j] = status[j]
    BY <2>2 DEF Enqueue, Elapse, ExpireLease
  <2>3. QED
    BY <2>1, <2>2 DEF Next, vars
<1>2. QED
  BY <1>1, RowsTyped, PTL DEF Spec, FinishedForGood

\* While no worker overran its lease, no two workers process one job
\* (lease_* with FOR UPDATE SKIP LOCKED), whatever crashes.
THEOREM NoSharedJob == Spec => []OneProcessor
<1>1. HolderInv => OneProcessor
  BY QueueAssumption DEF HolderInv, OneProcessor, Busy
<1>2. QED
  BY <1>1, HolderInvariant, PTL

\* While no worker overran its lease, only a running job gets an answer stored, so the
\* one that completed it stays (the upsert of complete_reasoning_job).
THEOREM AnswerStays == Spec => ResultFinal
<1>1. HolderInv /\ [Next]_vars =>
        [stalls = 0 => \A j \in Job : status[j] = "completed" => result'[j] = result[j]]_vars
  <2> SUFFICES ASSUME HolderInv, [Next]_vars, stalls = 0, NEW j \in Job, status[j] = "completed"
               PROVE result'[j] = result[j]
    OBVIOUS
  <2> USE DEF HolderInv, RowsOK, table, workers
  <2>1. ASSUME NEW w \in Worker, Complete(w) \/ UpdateFails(w) PROVE result'[j] = result[j]
    <3>1. stage[w] = "succeeded" => task[w] # j
      BY <2>1
    <3>2. QED
      BY <2>1, <3>1 DEF Complete, UpdateFails, Finish, StoreResult, MarkDelivered, ReturnJob
  <2>2. ASSUME NEW w \in Worker,
               Lease(w) \/ LeaseLost(w) \/ Answer(w) \/ Fail(w) \/ Crash(w) \/ CoolDown(w) \/ Overrun(w)
        PROVE result'[j] = result[j]
    BY <2>2 DEF Lease, LeaseLost, LeaseJob, Answer, Fail, ReturnJob, Crash, CoolDown, Overrun
  <2>3. ASSUME NEW k \in Job, Enqueue(k) \/ Elapse(k) \/ ExpireLease(k)
        PROVE result'[j] = result[j]
    BY <2>3 DEF Enqueue, Elapse, ExpireLease
  <2>4. QED
    BY <2>1, <2>2, <2>3 DEF Next, Work, vars
<1>2. QED
  BY <1>1, HolderInvariant, PTL DEF Spec, ResultFinal

\* Who holds a job is a worker that is busy with it.
Holders == [j \in Job |-> HolderOf(j)]

LEMMA OneHolderChanges ==
    ASSUME NEW j \in Job, NEW x, HolderOf(j)' = x,
           \A k \in Job : k # j => HolderOf(k)' = HolderOf(k)
    PROVE Holders' = [Holders EXCEPT ![j] = x]
<1> HIDE DEF HolderOf
<1>1. \A k \in Job : HolderOf(k)' = IF k = j THEN x ELSE HolderOf(k)
  OBVIOUS
<1>2. Holders' = [k \in Job |-> HolderOf(k)']
  BY DEF Holders
<1>3. [Holders EXCEPT ![j] = x] = [k \in Job |-> IF k = j THEN x ELSE HolderOf(k)]
  BY DEF Holders
<1>4. QED
  BY <1>1, <1>2, <1>3

LEMMA NoHolderChanges ==
    ASSUME \A k \in Job : HolderOf(k)' = HolderOf(k)
    PROVE Holders' = Holders
BY DEF Holders

\* A worker that gets rid of its job, which the step has answered, given back, given up
\* or abandoned.
LEMMA LetsGo ==
    ASSUME ChargeInv, HolderInv, RowsOK', stalls = 0, NEW w \in Worker, stage[w] # "idle",
           stage' = [stage EXCEPT ![w] = "idle"], task' = [task EXCEPT ![w] = None],
           \/ UNCHANGED table
           \/ Finish(w)
           \/ ReturnJob(task[w])
    PROVE Board!Next
<1>1. PICK j \in Job : j = task[w]
  BY DEF RowsOK, HolderInv
<1>2. lease[j] = w /\ status[j] = "running" /\ HolderOf(j) = w /\ w # None /\ Holders[j] = w
  BY <1>1, QueueAssumption DEF HolderInv, RowsOK, HolderOf, Busy, Holders
<1>3. lease' = lease \/ lease' = [lease EXCEPT ![j] = None]
  BY <1>1 DEF table, Finish, StoreResult, MarkDelivered, ReturnJob
<1>4. HolderOf(j)' = None
  BY <1>1, <1>2, <1>3, QueueAssumption DEF HolderOf, Busy, HolderInv, RowsOK
<1>5. ASSUME NEW k \in Job, k # j PROVE HolderOf(k)' = HolderOf(k)
  BY <1>1, <1>2, <1>3, <1>5, QueueAssumption DEF HolderOf, Busy, HolderInv, RowsOK
<1>6. Holders' = [Holders EXCEPT ![j] = None]
  BY <1>4, <1>5, OneHolderChanges
<1>7. \/ status' = status /\ result' = result
      \/ /\ status' = [status EXCEPT ![j] = "completed"]
         /\ result' \in {result, [result EXCEPT ![j] = w]}
      \/ status' \in {[status EXCEPT ![j] = "failed"], [status EXCEPT ![j] = "pending"]}
           /\ result' = result
  BY <1>1, <1>2 DEF table, Finish, StoreResult, MarkDelivered, ReturnJob
<1>8. Board!Abandon(j) \/ Board!End(j) \/ Board!GiveUp(j) \/ Board!GiveBack(j)
  BY <1>2, <1>6, <1>7 DEF Holders, Board!Abandon, Board!End, Board!GiveUp, Board!GiveBack
<1>9. QED
  BY <1>8 DEF Board!Next

\* While no worker overran its lease, every step of the queue is a step of the board
\* (lease_*, complete_*, fail_*).
THEOREM QueueImplementsBoard == Spec => ImplementsBoard
<1> USE QueueAssumption
<1>1. Init => Board!Init
  BY DEF Init, Board!Init, HolderOf
<1>2. ChargeInv /\ HolderInv /\ RowsOK' /\ [Next]_vars
        => [stalls' = 0 => [Board!Next]_Board!vars]_vars
  <2> SUFFICES ASSUME ChargeInv, HolderInv, RowsOK', [Next]_vars, stalls' = 0
               PROVE Board!Next \/ (Holders' = Holders /\ UNCHANGED <<status, result>>)
    BY DEF Board!vars, Holders
  <2> USE DEF table, workers, vars
  <2>1. stalls = 0
    <3>1. ASSUME NEW w \in Worker, Work(w) PROVE stalls' \in {stalls, stalls + 1}
      BY <3>1 DEF Work, Lease, LeaseLost, LeaseJob, Answer, Complete, Fail, UpdateFails, Crash,
                  CoolDown, Overrun
    <3>2. ASSUME NEW j \in Job, Enqueue(j) \/ Elapse(j) \/ ExpireLease(j) PROVE stalls' = stalls
      BY <3>2 DEF Enqueue, Elapse, ExpireLease
    <3>3. stalls' \in {stalls, stalls + 1} /\ stalls \in Nat
      BY <3>1, <3>2 DEF Next, HolderInv, RowsOK
    <3>4. QED
      BY <3>3
  <2>2. ASSUME NEW j \in Job, Enqueue(j) PROVE Board!Next
    <3>1. Board!Post(j)
      BY <2>2 DEF Enqueue, Board!Post, HolderOf, Busy
    <3>2. QED
      BY <3>1 DEF Board!Next
  <2>3. ASSUME NEW j \in Job, Elapse(j) \/ ExpireLease(j)
        PROVE Holders' = Holders /\ UNCHANGED <<status, result>>
    <3>1. \A k \in Job : HolderOf(k)' = HolderOf(k)
      BY <2>3 DEF Elapse, ExpireLease, HolderOf, Busy, HolderInv, RowsOK
    <3>2. QED
      BY <2>3, <3>1, NoHolderChanges DEF Elapse, ExpireLease
  <2>4. ASSUME NEW w \in Worker, NEW j \in Job, LeaseJob(j, w) PROVE HolderOf(j) = None
    BY <2>4 DEF LeaseJob, Candidate, Leasable, ChargeInv, HolderOf
  <2>5. ASSUME NEW w \in Worker, Lease(w) PROVE Board!Next
    <3>1. PICK j \in Job : LeaseJob(j, w) /\ task' = [task EXCEPT ![w] = j]
      BY <2>5 DEF Lease
    <3>2. stage[w] = "idle" /\ task[w] = None /\ stage' = [stage EXCEPT ![w] = "sending"]
      BY <2>5, <3>1 DEF Lease, LeaseJob, HolderInv, RowsOK
    <3>3. HolderOf(j)' = w
      BY <3>1, <3>2 DEF LeaseJob, HolderOf, Busy, HolderInv, RowsOK
    <3>4. ASSUME NEW k \in Job, k # j PROVE HolderOf(k)' = HolderOf(k)
      BY <3>1, <3>2, <3>4 DEF LeaseJob, HolderOf, Busy, HolderInv, RowsOK
    <3>5. Holders' = [Holders EXCEPT ![j] = w]
      BY <3>3, <3>4, OneHolderChanges
    <3>6. Holders[j] = None /\ status[j] \in {"pending", "running"}
      BY <2>4, <3>1 DEF Holders, LeaseJob, Candidate, Leasable
    <3>7. Board!HandOut(j, w)
      BY <3>1, <3>5, <3>6 DEF Holders, LeaseJob, Board!HandOut
    <3>8. QED
      BY <3>7 DEF Board!Next
  <2>6. ASSUME NEW w \in Worker, LeaseLost(w) PROVE Board!Next
    <3>1. PICK j \in Job : LeaseJob(j, w)
      BY <2>6 DEF LeaseLost
    <3>2. stage[w] = "idle" /\ UNCHANGED <<stage, task>>
      BY <2>6, <3>1 DEF LeaseLost, LeaseJob
    <3>3. HolderOf(j)' = None
      BY <3>1, <3>2 DEF LeaseJob, HolderOf, Busy, HolderInv, RowsOK
    <3>4. ASSUME NEW k \in Job, k # j PROVE HolderOf(k)' = HolderOf(k)
      BY <3>1, <3>2, <3>4 DEF LeaseJob, HolderOf, Busy, HolderInv, RowsOK
    <3>5. Holders' = [Holders EXCEPT ![j] = None]
      BY <3>3, <3>4, OneHolderChanges
    <3>6. Holders[j] = None /\ status[j] \in {"pending", "running"}
      BY <2>4, <3>1 DEF Holders, LeaseJob, Candidate, Leasable
    <3>7. Board!HandOut(j, None)
      BY <3>1, <3>5, <3>6 DEF Holders, LeaseJob, Board!HandOut
    <3>8. QED
      BY <3>7 DEF Board!Next
  <2>7. ASSUME NEW w \in Worker, Answer(w) \/ CoolDown(w)
        PROVE Holders' = Holders /\ UNCHANGED <<status, result>>
    <3>1. \A k \in Job : HolderOf(k)' = HolderOf(k)
      BY <2>7 DEF Answer, CoolDown, HolderOf, Busy, HolderInv, RowsOK
    <3>2. QED
      BY <2>7, <3>1, NoHolderChanges DEF Answer, CoolDown
  <2>8. ASSUME NEW w \in Worker, Complete(w) \/ Fail(w) \/ UpdateFails(w) PROVE Board!Next
    BY <2>1, <2>8, LetsGo DEF Complete, Fail, UpdateFails, Record
  <2>9. ASSUME NEW w \in Worker, Crash(w)
        PROVE Board!Next \/ (Holders' = Holders /\ UNCHANGED <<status, result>>)
    <3>1. CASE stage[w] # "idle"
      BY <2>1, <2>9, <3>1, LetsGo DEF Crash, Record
    <3>2. CASE stage[w] = "idle"
      <4>1. \A k \in Job : HolderOf(k)' = HolderOf(k)
        BY <2>9, <3>2 DEF Crash, Record, HolderOf, Busy, HolderInv, RowsOK
      <4>2. QED
        BY <2>9, <4>1, NoHolderChanges DEF Crash
    <3>3. QED
      BY <3>1, <3>2
  <2>10. ASSUME NEW w \in Worker, Overrun(w) PROVE FALSE
    BY <2>1, <2>10 DEF Overrun
  <2>11. CASE UNCHANGED vars
    <3>1. \A k \in Job : HolderOf(k)' = HolderOf(k)
      BY <2>11 DEF HolderOf, Busy
    <3>2. QED
      BY <2>11, <3>1, NoHolderChanges
  <2> QED
    BY <2>2, <2>3, <2>5, <2>6, <2>7, <2>8, <2>9, <2>10, <2>11 DEF Next, Work
<1>3. QED
  BY <1>1, <1>2, ChargeInvariant, HolderInvariant, RowsTyped, PTL DEF Spec, ImplementsBoard
=============================================================================
