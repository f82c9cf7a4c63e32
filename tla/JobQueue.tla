------------------------------ MODULE JobQueue ------------------------------
(***************************************************************************)
(* A durable job queue of the cloud and its workers: the reasoning jobs     *)
(* (002_cloud_workloads.sql, reasoning_worker.rs) and the notification      *)
(* deliveries (005_worker_delivery_hardening.sql, notification_worker.rs).  *)
(*                                                                         *)
(* A worker leases the job that has been available longest, sends it to the *)
(* provider, and completes or fails it; a statement of the database is one  *)
(* step, workers interleave between statements.  A lease is a deadline and  *)
(* names no owner: whoever calls complete or fail changes the job.  A       *)
(* worker crashes, loses the database, or takes longer than its lease.      *)
(***************************************************************************)
EXTENDS Integers, Sequences, FiniteSets

CONSTANTS
    Job, Worker,
    Reasoning,     \* TRUE: the reasoning queue, which stores results
    None,          \* no job, no lease, no result
    Expired,       \* a lease whose deadline is over
    MaxAttempts,   \* 10: fail_* gives a job up from this attempt on
    AttemptLimit,  \* 100: CHECK on attempt_count
    FailureLimit,  \* DeliveryCircuit::FAILURE_LIMIT
    MaxFaults,     \* bound on crashes and database errors in a behaviour
    MaxStalls      \* bound on the workers that outlive their lease

ASSUME QueueAssumption ==
    /\ Reasoning \in BOOLEAN
    /\ {None, Expired} \cap (Job \cup Worker) = {} /\ None # Expired
    /\ {MaxAttempts, AttemptLimit, FailureLimit} \subseteq Nat \ {0}
    /\ {MaxFaults, MaxStalls} \subseteq Nat

VARIABLES
    \* the job table
    status,    \* "absent" while there is no row
    attempts,  \* attempt_count
    lease,     \* worker whose deadline leased_until is, Expired or None
    due,       \* unfinished jobs with available_at in the past, in its order
    result,    \* worker whose answer reasoning_results holds
    \* the workers
    stage, task,
    late,      \* the lease of this worker's task is over
    failures,  \* of its DeliveryCircuit
    faults, stalls

table == <<status, attempts, lease, due, result>>
workers == <<stage, task, late, failures>>
vars == <<table, workers, faults, stalls>>
-----------------------------------------------------------------------------
Init ==
    /\ status = [j \in Job |-> "absent"]
    /\ attempts = [j \in Job |-> 0]
    /\ lease = [j \in Job |-> None]
    /\ due = <<>>
    /\ result = [j \in Job |-> None]
    /\ stage = [w \in Worker |-> "idle"]
    /\ task = [w \in Worker |-> None]
    /\ late = [w \in Worker |-> FALSE]
    /\ failures = [w \in Worker |-> 0]
    /\ faults = 0 /\ stalls = 0

IsDue(j) == \E i \in DOMAIN due : due[i] = j

Without(j) == SelectSeq(due, LAMBDA k : k # j)

\* A committed envelope creates its job once, available at once.
Enqueue(j) ==
    /\ status[j] = "absent"
    /\ status' = [status EXCEPT ![j] = "pending"]
    /\ due' = Append(due, j)
    /\ UNCHANGED <<attempts, lease, result, workers, faults, stalls>>

\* The backoff of a failed job is over: jobs come due in the order of available_at.
Elapse(j) ==
    /\ status[j] = "pending" /\ ~IsDue(j)
    /\ due' = Append(due, j)
    /\ UNCHANGED <<status, attempts, lease, result, workers, faults, stalls>>
-----------------------------------------------------------------------------
(* lease_*: the first due job that is pending or whose lease has expired, one   *)
(* transaction each (FOR UPDATE SKIP LOCKED).                                  *)

\* Mutants: a running job is leased before its lease is over, or never again.
LeasableRunning(j) == status[j] \in {"pending", "running"}
LeasablePending(j) == status[j] = "pending"

Leasable(j) == status[j] = "pending" \/ (status[j] = "running" /\ lease[j] = Expired)

Candidate(j) ==
    \E i \in DOMAIN due :
        /\ due[i] = j /\ Leasable(j)
        /\ \A k \in 1..(i - 1) : ~Leasable(due[k])

CircuitOpen(w) == failures[w] >= FailureLimit

\* The update of the candidate fails on the CHECK when its attempts are used up;
\* no other job is tried.
LeaseJob(j, w) ==
    /\ stage[w] = "idle" /\ ~CircuitOpen(w)
    /\ Candidate(j) /\ attempts[j] < AttemptLimit
    /\ status' = [status EXCEPT ![j] = "running"]
    /\ attempts' = [attempts EXCEPT ![j] = @ + 1]
    /\ lease' = [lease EXCEPT ![j] = w]
    /\ UNCHANGED <<due, result, failures, stalls>>

Lease(w) ==
    /\ \E j \in Job : LeaseJob(j, w) /\ task' = [task EXCEPT ![w] = j]
    /\ stage' = [stage EXCEPT ![w] = "sending"]
    /\ late' = [late EXCEPT ![w] = FALSE]
    /\ UNCHANGED faults

\* The lease is committed, its answer is lost: the worker knows nothing of the job.
LeaseLost(w) ==
    /\ faults < MaxFaults
    /\ faults' = faults + 1
    /\ \E j \in Job : LeaseJob(j, w)
    /\ UNCHANGED <<stage, task, late>>

\* The provider answers, refuses, is unreachable or times out.
Answer(w) ==
    /\ stage[w] = "sending"
    /\ \E outcome \in {"succeeded", "failed"} : stage' = [stage EXCEPT ![w] = outcome]
    /\ UNCHANGED <<table, task, late, failures, faults, stalls>>

\* complete_reasoning_job: the result is stored whatever the status is.
StoreResult(j, w) ==
    /\ result' = [result EXCEPT ![j] = w]
    /\ IF status[j] = "running"
       THEN /\ status' = [status EXCEPT ![j] = "completed"]
            /\ lease' = [lease EXCEPT ![j] = None]
            /\ due' = Without(j)
       ELSE UNCHANGED <<status, lease, due>>
    /\ UNCHANGED attempts

\* complete_notification_delivery.
MarkDelivered(j) ==
    /\ IF status[j] = "running"
       THEN /\ status' = [status EXCEPT ![j] = "completed"]
            /\ lease' = [lease EXCEPT ![j] = None]
            /\ due' = Without(j)
       ELSE UNCHANGED <<status, lease, due>>
    /\ UNCHANGED <<attempts, result>>

\* Mutants: one attempt too many; no check that the job is still running.
ReturnJobLate(j) ==
    /\ status' = [status EXCEPT ![j] = IF @ # "running" THEN @
                                       ELSE IF attempts[j] > MaxAttempts THEN "failed"
                                       ELSE "pending"]
    /\ lease' = [lease EXCEPT ![j] = IF status[j] = "running" THEN None ELSE @]
    /\ due' = IF status[j] = "running" THEN Without(j) ELSE due
    /\ UNCHANGED <<attempts, result>>

ReturnJobUnchecked(j) ==
    /\ status' = [status EXCEPT ![j] =
                    IF attempts[j] >= MaxAttempts THEN "failed" ELSE "pending"]
    /\ lease' = [lease EXCEPT ![j] = None]
    /\ due' = Without(j)
    /\ UNCHANGED <<attempts, result>>

\* fail_*: back to the queue after a backoff, or given up.
ReturnJob(j) ==
    /\ IF status[j] = "running"
       THEN /\ status' = [status EXCEPT ![j] =
                            IF attempts[j] >= MaxAttempts THEN "failed" ELSE "pending"]
            /\ lease' = [lease EXCEPT ![j] = None]
            /\ due' = Without(j)
       ELSE UNCHANGED <<status, lease, due>>
    /\ UNCHANGED <<attempts, result>>

Finish(w) == IF Reasoning THEN StoreResult(task[w], w) ELSE MarkDelivered(task[w])

\* The loop goes on with the outcome recorded in the circuit.
Record(w, success) ==
    /\ stage' = [stage EXCEPT ![w] = "idle"]
    /\ task' = [task EXCEPT ![w] = None]
    /\ late' = [late EXCEPT ![w] = FALSE]
    /\ failures' = [failures EXCEPT ![w] = IF success THEN 0 ELSE @ + 1]

\* A delivery that is no longer leased is an error to the notification worker,
\* whose provider outcome then does not count.
Complete(w) ==
    /\ stage[w] = "succeeded"
    /\ Finish(w)
    /\ Record(w, Reasoning \/ status[task[w]] = "running")
    /\ UNCHANGED <<faults, stalls>>

Fail(w) ==
    /\ stage[w] = "failed"
    /\ ReturnJob(task[w])
    /\ Record(w, FALSE)
    /\ UNCHANGED <<faults, stalls>>

\* The database errs, or its answer is lost after the commit.
UpdateFails(w) ==
    /\ stage[w] \in {"succeeded", "failed"}
    /\ faults < MaxFaults
    /\ faults' = faults + 1
    /\ \/ UNCHANGED table
       \/ stage[w] = "succeeded" /\ Finish(w)
       \/ stage[w] = "failed" /\ ReturnJob(task[w])
    /\ Record(w, FALSE)
    /\ UNCHANGED stalls

\* The worker dies and starts again with a closed circuit; its job stays leased.
Crash(w) ==
    /\ faults < MaxFaults
    /\ faults' = faults + 1
    /\ Record(w, TRUE)
    /\ UNCHANGED <<table, stalls>>

\* DeliveryCircuit::is_open after the cooldown.
CoolDown(w) ==
    /\ stage[w] = "idle" /\ CircuitOpen(w)
    /\ failures' = [failures EXCEPT ![w] = 0]
    /\ UNCHANGED <<table, stage, task, late, faults, stalls>>
-----------------------------------------------------------------------------
\* The 30 seconds are over for a lease nobody works on any more.
ExpireLease(j) ==
    /\ lease[j] \in Worker /\ task[lease[j]] # j
    /\ lease' = [lease EXCEPT ![j] = Expired]
    /\ UNCHANGED <<status, attempts, due, result, workers, faults, stalls>>

\* They are over for a worker that is still busy: the provider has 20 seconds,
\* but the database and the scheduler have no limit.
Overrun(w) ==
    /\ stage[w] # "idle" /\ ~late[w]
    /\ stalls < MaxStalls
    /\ stalls' = stalls + 1
    /\ late' = [late EXCEPT ![w] = TRUE]
    /\ lease' = [lease EXCEPT ![task[w]] = IF @ = w THEN Expired ELSE @]
    /\ UNCHANGED <<status, attempts, due, result, stage, task, failures, faults>>

Work(w) ==
    \/ Lease(w) \/ LeaseLost(w) \/ Answer(w) \/ Complete(w) \/ Fail(w)
    \/ UpdateFails(w) \/ Crash(w) \/ CoolDown(w) \/ Overrun(w)

Next ==
    \/ \E j \in Job : Enqueue(j) \/ Elapse(j) \/ ExpireLease(j)
    \/ \E w \in Worker : Work(w)

Spec == Init /\ [][Next]_vars

(* Time passes and the worker loops keep running: the HTTP client has a        *)
(* timeout, so every attempt ends.  The provider may fail every time.          *)
Fairness ==
    /\ \A j \in Job : WF_vars(Elapse(j)) /\ WF_vars(ExpireLease(j))
    /\ \A w \in Worker :
         /\ WF_vars(Lease(w)) /\ WF_vars(Answer(w))
         /\ WF_vars(Complete(w)) /\ WF_vars(Fail(w)) /\ WF_vars(CoolDown(w))

FairSpec == Spec /\ Fairness
-----------------------------------------------------------------------------
RowsOK ==
    /\ status \in [Job -> {"absent", "pending", "running", "completed", "failed"}]
    /\ attempts \in [Job -> Nat]
    /\ lease \in [Job -> Worker \cup {None, Expired}]
    /\ result \in [Job -> Worker \cup {None}]
    /\ stage \in [Worker -> {"idle", "sending", "succeeded", "failed"}]
    /\ task \in [Worker -> Job \cup {None}]
    /\ \A w \in Worker : IF stage[w] = "idle" THEN task[w] = None
                         ELSE task[w] \in Job /\ failures[w] < FailureLimit
    /\ late \in [Worker -> BOOLEAN]
    /\ failures \in [Worker -> 0..FailureLimit]
    /\ faults \in Nat /\ stalls \in Nat

\* The order of available_at lists unfinished jobs, each once.
TypeOK ==
    /\ RowsOK
    /\ due \in Seq(Job)
    /\ \A i, k \in DOMAIN due : due[i] = due[k] => i = k
    /\ \A j \in Job : IsDue(j) => status[j] \in {"pending", "running"}

Busy(w, j) == stage[w] # "idle" /\ task[w] = j

\* While every worker ends within its lease, no job is processed by two workers,
\* whatever crashes and database errors do to the leases.
OneProcessor ==
    stalls = 0 => \A v, w \in Worker, j \in Job : Busy(v, j) /\ Busy(w, j) => v = w

\* A worker within its lease is the only one within a lease on that job.
LeaseExclusive ==
    \A v, w \in Worker, j \in Job :
        Busy(v, j) /\ Busy(w, j) /\ ~late[v] /\ ~late[w] => v = w

\* While every worker ends within its lease, the stored answer of a completed job
\* is the one that completed it (the upsert of complete_reasoning_job never hits).
ResultFinal ==
    [][stalls = 0 => \A j \in Job : status[j] = "completed" => result'[j] = result[j]]_vars

\* A finished job is never taken up again, also not by a stale worker.
FinishedForGood ==
    [][\A j \in Job : status[j] \in {"completed", "failed"} => status'[j] = status[j]]_vars

\* A job is attempted at most MaxAttempts times beyond the attempts that ended in
\* a crash, a database error or an overrun lease.
AttemptsCharged == \A j \in Job : attempts[j] <= MaxAttempts + faults + stalls

\* Every job is completed or given up.
EveryJobEnds ==
    \A j \in Job : status[j] \in {"pending", "running"} ~> status[j] \in {"completed", "failed"}

\* While every worker ends within its lease, the queue is a board that hands each job
\* to one worker, which alone ends it or gives it back (lease_*, complete_*, fail_*).
HolderOf(j) == IF lease[j] \in Worker /\ Busy(lease[j], j) THEN lease[j] ELSE None

Board == INSTANCE JobBoard WITH Nobody <- None, phase <- status,
                                holder <- [j \in Job |-> HolderOf(j)], answer <- result
ImplementsBoard == Board!Init /\ [][stalls' = 0 => [Board!Next]_Board!vars]_vars

(* The inductive invariants behind AttemptsCharged and OneProcessor.           *)
ChargeInv ==
    /\ RowsOK
    /\ \A j \in Job :
         /\ status[j] \in {"absent", "pending"} => attempts[j] < MaxAttempts
         /\ status[j] = "running" <=> lease[j] # None
         /\ lease[j] = Expired \/ (lease[j] \in Worker /\ task[lease[j]] # j)
              => attempts[j] < MaxAttempts + faults + stalls
         /\ attempts[j] <= MaxAttempts + faults + stalls

HolderInv ==
    /\ RowsOK
    /\ stalls = 0 => \A w \in Worker : stage[w] # "idle" =>
                        lease[task[w]] = w /\ status[task[w]] = "running"
=============================================================================
