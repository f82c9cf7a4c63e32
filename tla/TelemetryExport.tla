--------------------------- MODULE TelemetryExport ---------------------------
(***************************************************************************)
(* Publishing and exporting telemetry in one daemon (src/distributed.rs):   *)
(* the publishing threads persist envelopes in the spool, the export worker *)
(* sends the oldest batch until the collector acknowledges it, the network  *)
(* loses, delays and replays requests, and the daemon crashes and restarts. *)
(*                                                                         *)
(* A method of the spool is one step here; that its mutex makes it one is   *)
(* what DiskSpool shows.  An envelope is its sequence and what the          *)
(* collector decides about it.                                             *)
(***************************************************************************)
EXTENDS Integers, FiniteSets

CONSTANTS
    Publisher,      \* threads that publish
    BatchSize,      \* ExportPolicy::batch_size
    MaxRetries,     \* ExportPolicy::max_retries
    WakeCapacity,   \* ExportPolicy::max_queue_messages
    MaxRecords,     \* ExportPolicy::spool_max_bytes, counted in records
    QueuedModulus,  \* 2^64: the queued gauge is an AtomicU64
    MaxSequence,    \* bound on the sequences drawn in a behaviour
    MaxCrashes,     \* bound on the crashes in a behaviour
    MaxStray,       \* bound on the requests that outlive their timeout at once
    MaxExpired      \* bound on the records past spool_max_age_seconds or deleted

ASSUME ExportAssumption ==
    /\ BatchSize \in Nat \ {0} /\ WakeCapacity \in Nat \ {0}
    /\ {MaxRetries, MaxRecords, MaxSequence, MaxCrashes, MaxStray,
        MaxExpired} \subseteq Nat
    /\ QueuedModulus \in Nat /\ QueuedModulus > MaxRecords

VARIABLES
    \* on disk
    sequence,  \* last sequence drawn
    records,   \* envelopes in the spool
    expired,   \* those older than the age limit
    \* in the daemon
    up,        \* whether it runs
    pc,        \* where each publisher is
    draft,     \* envelope each publisher is working on
    count,     \* number of records in the SpoolStats a publisher read
    wake,      \* envelopes in the wake-up channel
    queued,    \* the queued gauge of ExportMetrics
    stage,     \* where the export worker is
    batch, attempt, accepted, workerCount,
    \* outside
    stray,     \* requests the daemon gave up that may still arrive
    stored,    \* envelopes the collector committed
    crashes

\* History: envelopes whose append succeeded, and those an operator deleted.
VARIABLES appended, purged

disk == <<sequence, records, expired>>
publishers == <<pc, draft, count>>
worker == <<stage, batch, attempt, accepted, workerCount>>
daemon == <<up, publishers, wake, queued, worker>>
outside == <<stray, stored, crashes>>
history == <<appended, purged>>
vars == <<disk, daemon, outside, history>>

\* What the collector decides: commit it, reject it (a conflict), or refuse
\* every request that contains it (it does not validate).
Verdict == {"commit", "reject", "refuse"}
Envelope == [seq : Nat, verdict : Verdict]
NoDraft == [seq |-> 0, verdict |-> "commit"]
-----------------------------------------------------------------------------
Init ==
    /\ sequence = 0 /\ records = {} /\ expired = {}
    /\ up = FALSE
    /\ pc = [t \in Publisher |-> "idle"]
    /\ draft = [t \in Publisher |-> NoDraft]
    /\ count = [t \in Publisher |-> 0]
    /\ wake = 0 /\ queued = 0
    /\ stage = "waiting" /\ batch = {} /\ attempt = 0 /\ accepted = {}
    /\ workerCount = 0
    /\ stray = {} /\ stored = {} /\ crashes = 0
    /\ appended = {} /\ purged = {}

\* from_config: spool.stats() refuses a spool with an expired record, and the
\* daemon exits.
Start ==
    /\ ~up /\ expired = {}
    /\ up' = TRUE
    /\ queued' = Cardinality(records)
    /\ UNCHANGED <<disk, publishers, wake, worker, outside, history>>

\* The request in flight may still reach the collector, and an acknowledge cut
\* short has removed the first files only.
Crash ==
    /\ up /\ crashes < MaxCrashes
    /\ crashes' = crashes + 1
    /\ up' = FALSE
    /\ pc' = [t \in Publisher |-> "idle"]
    /\ draft' = [t \in Publisher |-> NoDraft]
    /\ count' = [t \in Publisher |-> 0]
    /\ wake' = 0 /\ queued' = 0
    /\ stage' = "waiting" /\ batch' = {} /\ attempt' = 0 /\ accepted' = {}
    /\ workerCount' = 0
    /\ stray' \in IF stage = "exporting" THEN {stray, stray \cup {batch}} ELSE {stray}
    /\ \E last \in 0..sequence :
         records' = IF stage = "answered"
                    THEN records \ {e \in accepted : e.seq <= last} ELSE records
    /\ expired' = expired \cap records'
    /\ UNCHANGED <<sequence, stored, history>>
-----------------------------------------------------------------------------
(* TelemetryPublisher::publish: next_sequence, append, stats, then the gauge   *)
(* and the wake-up.                                                            *)
NextSequence(t) ==
    /\ up /\ pc[t] = "idle" /\ sequence < MaxSequence
    /\ sequence' = sequence + 1
    /\ \E v \in Verdict : draft' = [draft EXCEPT ![t] = [seq |-> sequence + 1, verdict |-> v]]
    /\ pc' = [pc EXCEPT ![t] = "numbered"]
    /\ UNCHANGED <<records, expired, up, count, wake, queued, worker, outside, history>>

AppendRecord(t) ==
    /\ pc[t] = "numbered"
    /\ expired = {}
    /\ Cardinality(records) < MaxRecords
    /\ records' = records \cup {draft[t]}
    /\ appended' = appended \cup {draft[t]}
    /\ pc' = [pc EXCEPT ![t] = "appended"]
    /\ UNCHANGED <<sequence, expired, up, draft, count, wake, queued, worker,
                   outside, purged>>

\* Full, blocked by an expired record, or an I/O error: the event is lost and
\* its sequence stays a gap.
RefuseAppend(t) ==
    /\ pc[t] = "numbered"
    /\ pc' = [pc EXCEPT ![t] = "idle"]
    /\ draft' = [draft EXCEPT ![t] = NoDraft]
    /\ UNCHANGED <<disk, up, count, wake, queued, worker, outside, history>>

ReadStats(t) ==
    /\ pc[t] = "appended"
    /\ IF expired = {}
       THEN /\ pc' = [pc EXCEPT ![t] = "counted"]
            /\ count' = [count EXCEPT ![t] = Cardinality(records)]
       ELSE pc' = [pc EXCEPT ![t] = "idle"] /\ UNCHANGED count
    /\ draft' = [draft EXCEPT ![t] = NoDraft]
    /\ UNCHANGED <<disk, up, wake, queued, worker, outside, history>>

\* The wake-up is dropped when the channel is full.
Announce(t) ==
    /\ pc[t] = "counted"
    /\ pc' = [pc EXCEPT ![t] = "idle"]
    /\ count' = [count EXCEPT ![t] = 0]
    /\ queued' = count[t]
    /\ wake' = IF wake < WakeCapacity THEN wake + 1 ELSE wake
    /\ UNCHANGED <<disk, up, draft, worker, outside, history>>
-----------------------------------------------------------------------------
(* The export worker wakes on a message or on the flush timeout, drains the    *)
(* channel and takes the oldest records.                                       *)
Oldest == {e \in records : Cardinality({f \in records : f.seq < e.seq}) < BatchSize}

\* Mutant: the worker waits for a message only, without the flush timeout.
WakeUpOnMessage ==
    /\ up /\ stage = "waiting" /\ wake > 0
    /\ wake' = 0
    /\ batch' = Oldest
    /\ attempt' = 0
    /\ stage' = IF Oldest = {} THEN "waiting" ELSE "exporting"
    /\ UNCHANGED <<disk, up, publishers, queued, accepted, workerCount, outside, history>>

WakeUp ==
    /\ up /\ stage = "waiting"
    /\ wake' = 0
    /\ batch' = Oldest
    /\ attempt' = 0
    /\ stage' = IF Oldest = {} THEN "waiting" ELSE "exporting"
    /\ UNCHANGED <<disk, up, publishers, queued, accepted, workerCount, outside, history>>

\* After a failed attempt: the same batch again, until the retries are spent.
NextAttempt ==
    /\ IF attempt < MaxRetries THEN attempt' = attempt + 1 /\ UNCHANGED stage
                               ELSE stage' = "finished" /\ UNCHANGED attempt
    /\ UNCHANGED <<batch, accepted, workerCount>>

\* What the collector commits of a request.
Committed(request) ==
    IF \E e \in request : e.verdict = "refuse"
    THEN {} ELSE {e \in request : e.verdict = "commit"}

Refused(request) == \E e \in request : e.verdict = "refuse"

\* The collector decides the batch and its acknowledgement arrives.
Exchange ==
    /\ stage = "exporting" /\ ~Refused(batch)
    /\ stored' = stored \cup Committed(batch)
    /\ accepted' = Committed(batch)
    /\ stage' = "answered"
    /\ UNCHANGED <<disk, up, publishers, wake, queued, batch, attempt, workerCount,
                   stray, crashes, history>>

\* An error status, a lost or malformed acknowledgement, a lost request, or a
\* timeout after which the collector may still receive the request.
FailedExchange ==
    /\ stage = "exporting"
    /\ \/ UNCHANGED <<stray, stored>>
       \/ stored' = stored \cup Committed(batch) /\ UNCHANGED stray
       \/ /\ Cardinality(stray \cup {batch}) <= MaxStray
          /\ stray' = stray \cup {batch} /\ UNCHANGED stored
    /\ NextAttempt
    /\ UNCHANGED <<disk, up, publishers, wake, queued, crashes, history>>

StrayArrives ==
    /\ \E request \in stray :
         /\ stray' = stray \ {request}
         /\ stored' = stored \cup Committed(request)
    /\ UNCHANGED <<disk, daemon, crashes, history>>

(* spool.acknowledge stops at the first missing file; the worker then keeps    *)
(* the rest of the batch for the next round.                                   *)
\* Mutant: the rejected records of the batch are removed too.
AcknowledgeWholeBatch ==
    /\ stage = "answered"
    /\ records' = records \ batch
    /\ stage' = IF accepted = {} THEN "finished" ELSE "removed"
    /\ expired' = expired \cap records'
    /\ UNCHANGED <<sequence, up, publishers, wake, queued, batch, attempt, accepted,
                   workerCount, outside, history>>

Acknowledge ==
    /\ stage = "answered"
    /\ LET missing == accepted \ records
           removed == {e \in accepted : \A m \in missing : e.seq < m.seq}
       IN /\ records' = records \ removed
          /\ stage' = IF accepted = {} \/ missing # {} THEN "finished" ELSE "removed"
    /\ expired' = expired \cap records'
    /\ UNCHANGED <<sequence, up, publishers, wake, queued, batch, attempt, accepted,
                   workerCount, outside, history>>

\* metrics.queued.fetch_sub; the worker may then sleep for retry_after_ms.
CountSent ==
    /\ stage = "removed"
    /\ queued' = (queued - Cardinality(accepted)) % QueuedModulus
    /\ stage' = "finished"
    /\ UNCHANGED <<disk, up, publishers, wake, batch, attempt, accepted, workerCount,
                   outside, history>>

\* The round ends: spool.stats() refreshes the gauge unless it fails.
WorkerStats ==
    /\ stage = "finished"
    /\ batch' = {} /\ attempt' = 0 /\ accepted' = {}
    /\ IF expired = {}
       THEN stage' = "counted" /\ workerCount' = Cardinality(records)
       ELSE stage' = "waiting" /\ UNCHANGED workerCount
    /\ UNCHANGED <<disk, up, publishers, wake, queued, outside, history>>

WorkerGauge ==
    /\ stage = "counted"
    /\ queued' = workerCount /\ workerCount' = 0
    /\ stage' = "waiting"
    /\ UNCHANGED <<disk, up, publishers, wake, batch, attempt, accepted, outside,
                   history>>
-----------------------------------------------------------------------------
\* Mutant: a record past the age limit is evicted.
Evict ==
    /\ \E e \in records : records' = records \ {e} /\ expired' = expired \ {e}
    /\ UNCHANGED <<sequence, daemon, outside, history>>

\* Time passes: a record gets older than spool_max_age_seconds.
Expire ==
    /\ Cardinality(expired \cup purged) < MaxExpired
    /\ \E e \in records \ expired : expired' = expired \cup {e}
    /\ UNCHANGED <<sequence, records, daemon, outside, history>>

\* "operator action required": the operator deletes an expired record.
Purge ==
    /\ \E e \in expired :
         /\ records' = records \ {e}
         /\ expired' = expired \ {e}
         /\ purged' = purged \cup {e}
    /\ UNCHANGED <<sequence, daemon, outside, appended>>

Publish(t) ==
    \/ NextSequence(t) \/ AppendRecord(t) \/ RefuseAppend(t)
    \/ ReadStats(t) \/ Announce(t)

Export ==
    \/ WakeUp \/ Exchange \/ FailedExchange \/ Acknowledge
    \/ CountSent \/ WorkerStats \/ WorkerGauge

Next ==
    \/ Start \/ Crash
    \/ \E t \in Publisher : Publish(t)
    \/ Export
    \/ StrayArrives \/ Expire \/ Purge

Spec == Init /\ [][Next]_vars

(* The worker thread keeps running, the service manager restarts the daemon    *)
(* (Restart=on-failure), and a collector that is tried forever answers         *)
(* sometimes.  Publishing, crashing and the operator owe nothing.              *)
Fairness ==
    /\ WF_vars(Start)
    /\ WF_vars(WakeUp) /\ WF_vars(Acknowledge) /\ WF_vars(CountSent)
    /\ WF_vars(WorkerStats) /\ WF_vars(WorkerGauge)
    /\ WF_vars(Exchange \/ FailedExchange) /\ SF_vars(Exchange)

FairSpec == Spec /\ Fairness
-----------------------------------------------------------------------------
TypeOK ==
    /\ sequence \in Nat
    /\ records \subseteq Envelope /\ expired \subseteq records
    /\ up \in BOOLEAN
    /\ pc \in [Publisher -> {"idle", "numbered", "appended", "counted"}]
    /\ draft \in [Publisher -> Envelope]
    /\ count \in [Publisher -> Nat]
    /\ wake \in 0..WakeCapacity
    /\ queued \in Nat /\ workerCount \in Nat
    /\ stage \in {"waiting", "exporting", "answered", "removed", "finished", "counted"}
    /\ batch \subseteq Envelope /\ attempt \in 0..MaxRetries
    /\ accepted \subseteq Envelope
    /\ stray \subseteq SUBSET Envelope /\ stored \subseteq Envelope
    /\ crashes \in Nat
    /\ appended \subseteq Envelope /\ purged \subseteq Envelope

\* A persisted envelope is in the spool until the collector has committed it,
\* whatever is lost, repeated or crashes; only an operator deletes one.
NothingLost == appended \subseteq records \cup stored \cup purged

\* The collector only ever sees persisted envelopes, in particular from a
\* request that outlives the daemon that sent it.
PersistedFirst == stored \subseteq appended

\* What blocks the head of the spool for good: pending always returns the oldest
\* records, and a batch the collector refuses as a whole, or a batch of rejected
\* records only, is retained.
HeadBlocked == Refused(Oldest) \/ \A e \in Oldest : e.verdict = "reject"

\* Every record leaves the spool, across crashes, retries and dropped wake-ups,
\* unless the collector will not take it, the head of the spool is blocked, or a
\* record past the age limit keeps the daemon from starting.
EventualDelivery ==
    \A n \in 1..MaxSequence :
        LET e == [seq |-> n, verdict |-> "commit"]
        IN e \in records ~> (e \notin records \/ HeadBlocked \/ expired # {})

\* Every batch the collector is able to commit in full is replayed, also after
\* a restart.
ReplayAcrossRestarts ==
    \A n \in 1..MaxSequence :
        LET e == [seq |-> n, verdict |-> "commit"]
        IN e \in records ~> (e \in stored \/ e \in purged \/ HeadBlocked)

\* The agent delivers at least once.
Queue == INSTANCE DeliveryQueue WITH held <- records, delivered <- stored,
                                     dropped <- purged
ImplementsQueue == Queue!Spec

(* The inductive invariant behind these: sequences in flight are drawn, unused  *)
(* and held by one publisher; what the worker removes, the collector has; a     *)
(* request contains persisted envelopes only.                                   *)
Drawn(t) == pc[t] = "numbered"

DraftsFresh ==
    /\ \A e \in appended : e.seq <= sequence
    /\ \A t \in Publisher : Drawn(t) =>
         /\ draft[t].seq <= sequence
         /\ \A e \in appended : e.seq # draft[t].seq
         /\ \A u \in Publisher \ {t} : Drawn(u) => draft[u].seq # draft[t].seq

RequestsPersisted ==
    /\ records \cup batch \cup purged \subseteq appended
    /\ \A request \in stray : request \subseteq appended

AcceptedStored ==
    /\ accepted \subseteq batch \cap stored
    /\ stage \in {"waiting", "exporting", "counted"} => accepted = {}

ExportInv ==
    /\ TypeOK /\ DraftsFresh /\ RequestsPersisted /\ AcceptedStored
    /\ NothingLost /\ PersistedFirst
=============================================================================
