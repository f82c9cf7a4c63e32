--------------------------- MODULE CollectorIngest ---------------------------
(***************************************************************************)
(* One node and the cloud collector (crates/syspilot-cloud/src/lib.rs): the  *)
(* node keeps its envelopes until they are acknowledged and sends the oldest *)
(* ones again and again; the collector ingests each request in a database    *)
(* transaction, one INSERT per envelope.  Requests that the node gave up on  *)
(* run on beside their retries.  The database is PostgreSQL at READ          *)
(* COMMITTED: an INSERT waits for an uncommitted row with the same key, an   *)
(* UPDATE for an uncommitted change of the same row.                        *)
(***************************************************************************)
EXTENDS Integers, FiniteSets

CONSTANTS
    Request,       \* requests under way at once
    None,
    MaxSequence,   \* bound on the envelopes of the spool's first life,
    MaxRenewed,    \* and of each later one
    MaxBatch,      \* envelopes in a request
    MaxResets,     \* times the node loses its spool and starts again at 1
    Firing, Resolved, Health  \* kinds of the envelopes, by sequence

ASSUME IngestAssumption ==
    /\ None \notin Request
    /\ {MaxSequence, MaxBatch} \subseteq Nat \ {0} /\ MaxResets \in Nat
    /\ MaxRenewed \in 0..MaxSequence
    /\ (Firing \cup Resolved) \cap Health = {} /\ Firing \cap Resolved = {}

\* Message ids differ between lives of the spool, sequences repeat.
Envelope == [seq : 1..MaxSequence, life : 0..MaxResets]
MaxOf(l) == IF l = 0 THEN MaxSequence ELSE MaxRenewed
Alerts(S) == {e \in S : e.seq \in Firing \cup Resolved}

\* The threads that publish: the netlink thread the lifecycle and alert envelopes,
\* the socket thread the health envelopes.
Thread == {"netlink", "socket"}
Publishes(t) == IF t = "socket" THEN Health ELSE 1..MaxSequence \ Health

VARIABLES
    \* the node
    life, sequence,
    draft,      \* the numbered envelope each thread has yet to append, or None
    spool,      \* envelopes on its disk
    awaiting,   \* the request it waits for, or None
    removed,    \* envelopes it deleted after their acknowledgement
    \* the committed tables
    rows,       \* telemetry_messages
    jobs,       \* reasoning_jobs
    notified,   \* notification_deliveries, per enabled destination
    alert,      \* the envelope whose payload the alerts row has
    highest,    \* node_sequence_state.highest_accepted_sequence
    \* the collector's requests
    stage,      \* idle, sent, open, alert (before materialize_alert), answered
    batch, todo,
    inserted,   \* rows of its transaction
    wrote,      \* envelopes it wrote the alerts row for
    accepted    \* so far, then of its acknowledgement

node == <<life, sequence, draft, spool, awaiting, removed>>
tables == <<rows, jobs, notified, alert, highest>>
requests == <<stage, batch, todo, inserted, wrote, accepted>>
vars == <<node, tables, requests>>

Empty == [r \in Request |-> {}]

Init ==
    /\ life = 0 /\ sequence = 0 /\ draft = [t \in Thread |-> None]
    /\ spool = {} /\ awaiting = None /\ removed = {}
    /\ rows = {} /\ jobs = {} /\ notified = [e \in Envelope |-> 0]
    /\ alert = None /\ highest = 0
    /\ stage = [r \in Request |-> "idle"]
    /\ batch = Empty /\ todo = Empty /\ inserted = Empty /\ wrote = Empty /\ accepted = Empty
-----------------------------------------------------------------------------
(* The node (src/distributed.rs, src/spool.rs).                                *)

\* Mutant: either thread publishes any envelope.
DrawAny(t) ==
    /\ draft[t] = None /\ sequence < MaxOf(life)
    /\ sequence' = sequence + 1
    /\ draft' = [draft EXCEPT ![t] = [seq |-> sequence + 1, life |-> life]]
    /\ UNCHANGED <<life, spool, awaiting, removed, tables, requests>>

\* publish draws the number and appends later, under the spool's mutex each: the
\* other thread may append a higher number in between, and it may be sent.
Draw(t) ==
    /\ draft[t] = None /\ sequence < MaxOf(life)
    /\ sequence + 1 \in Publishes(t)
    /\ sequence' = sequence + 1
    /\ draft' = [draft EXCEPT ![t] = [seq |-> sequence + 1, life |-> life]]
    /\ UNCHANGED <<life, spool, awaiting, removed, tables, requests>>

\* The append may be refused, and a crash forgets the draft.
AppendDraft(t) ==
    /\ draft[t] # None
    /\ draft' = [draft EXCEPT ![t] = None]
    /\ \/ spool' = spool \cup {draft[t]}
       \/ UNCHANGED spool
    /\ UNCHANGED <<life, sequence, awaiting, removed, tables, requests>>

\* The spool's directory is gone: the host is set up again under its node id.
Reset ==
    /\ life < MaxResets
    /\ life' = life + 1
    /\ sequence' = 0 /\ draft' = [t \in Thread |-> None]
    /\ spool' = {} /\ awaiting' = None
    /\ UNCHANGED <<removed, tables, requests>>

Oldest == {e \in spool : Cardinality({f \in spool : f.seq < e.seq}) < MaxBatch}

Send(r) ==
    /\ awaiting = None /\ stage[r] = "idle"
    /\ spool # {}
    /\ awaiting' = r
    /\ stage' = [stage EXCEPT ![r] = "sent"]
    /\ batch' = [batch EXCEPT ![r] = Oldest]
    /\ todo' = [todo EXCEPT ![r] = Oldest]
    /\ UNCHANGED <<life, sequence, draft, spool, removed, tables, inserted, wrote, accepted>>

\* The node's timeout, its restart, or a broken connection: the request may go on.
GiveUp ==
    /\ awaiting # None
    /\ awaiting' = None
    /\ UNCHANGED <<life, sequence, draft, spool, removed, tables, requests>>
-----------------------------------------------------------------------------
(* ingest.                                                                     *)

Discard(r) ==
    /\ stage' = [stage EXCEPT ![r] = "idle"]
    /\ batch' = [batch EXCEPT ![r] = {}] /\ todo' = [todo EXCEPT ![r] = {}]
    /\ inserted' = [inserted EXCEPT ![r] = {}] /\ wrote' = [wrote EXCEPT ![r] = {}]
    /\ accepted' = [accepted EXCEPT ![r] = {}]

\* validate_batch, authenticate, try_acquire and set_tenant pass.
Begin(r) ==
    /\ stage[r] = "sent"
    /\ stage' = [stage EXCEPT ![r] = "open"]
    /\ UNCHANGED <<node, tables, batch, todo, inserted, wrote, accepted>>

\* An error of any check or statement, a crash, or the client's disconnect: the
\* transaction is rolled back, nothing is acknowledged.
Abort(r) ==
    /\ stage[r] \in {"sent", "open", "alert"}
    /\ Discard(r)
    /\ awaiting' = IF awaiting = r THEN None ELSE awaiting
    /\ UNCHANGED <<life, sequence, draft, spool, removed, tables>>

SameSequence(S, e) == \E f \in S : f.seq = e.seq

\* Mutant: an envelope counts as a replay when only its sequence is known.
IsReplayBySequence(e) == SameSequence(rows, e)

\* The row another open transaction inserted holds the INSERT up.
RowLocked(r, e) == \E q \in Request \ {r} : SameSequence(inserted[q], e)

\* Message id and digest of the stored row are those of the envelope.
IsReplay(e) == e \in rows

\* Mutant: the envelopes are inserted in any order.
InsertAnyOrder(r, e) ==
    /\ stage[r] = "open"
    /\ e \in todo[r] /\ ~RowLocked(r, e)
    /\ todo' = [todo EXCEPT ![r] = @ \ {e}]
    /\ IF SameSequence(rows, e)
       THEN /\ accepted' = [accepted EXCEPT ![r] = IF IsReplay(e) THEN @ \cup {e} ELSE @]
            /\ UNCHANGED <<stage, inserted>>
       ELSE /\ accepted' = [accepted EXCEPT ![r] = @ \cup {e}]
            /\ inserted' = [inserted EXCEPT ![r] = @ \cup {e}]
            /\ stage' = [stage EXCEPT ![r] = IF Alerts({e}) # {} THEN "alert" ELSE @]
    /\ UNCHANGED <<node, tables, batch, wrote>>

\* insert_envelope up to materialize_alert, in the order of the batch: a new row, a
\* replay, or a conflict that is rejected.
Insert(r, e) ==
    /\ stage[r] = "open"
    /\ e \in todo[r] /\ \A f \in todo[r] : e.seq <= f.seq
    /\ ~RowLocked(r, e)
    /\ todo' = [todo EXCEPT ![r] = @ \ {e}]
    /\ IF SameSequence(rows, e)
       THEN /\ accepted' = [accepted EXCEPT ![r] = IF IsReplay(e) THEN @ \cup {e} ELSE @]
            /\ UNCHANGED <<stage, inserted>>
       ELSE /\ accepted' = [accepted EXCEPT ![r] = @ \cup {e}]
            /\ inserted' = [inserted EXCEPT ![r] = @ \cup {e}]
            /\ stage' = [stage EXCEPT ![r] = IF Alerts({e}) # {} THEN "alert" ELSE @]
    /\ UNCHANGED <<node, tables, batch, wrote>>

AlertLocked(r) == \E q \in Request \ {r} : wrote[q] # {}

\* materialize_alert: the row is written whatever it holds.
Materialize(r) ==
    /\ stage[r] = "alert"
    /\ ~AlertLocked(r)
    /\ wrote' = [wrote EXCEPT ![r] = Alerts(inserted[r])]
    /\ stage' = [stage EXCEPT ![r] = "open"]
    /\ UNCHANGED <<node, tables, batch, todo, inserted, accepted>>

\* What the last upsert of the transaction leaves in the alerts row.
Last(S) == CHOOSE e \in S : \A f \in S : f.seq <= e.seq

Greatest(m, S) == IF S = {} \/ Last(S).seq <= m THEN m ELSE Last(S).seq

\* Mutant: a replay is notified again.
CommitRepeatsEffects(r) ==
    /\ stage[r] = "open" /\ todo[r] = {}
    /\ rows' = rows \cup inserted[r]
    /\ jobs' = jobs \cup {e \in inserted[r] : e.seq \notin Health}
    /\ notified' = [e \in Envelope |->
                      IF e \in accepted[r] /\ e.seq \in Firing
                      THEN notified[e] + 1 ELSE notified[e]]
    /\ alert' = IF wrote[r] = {} THEN alert ELSE Last(wrote[r])
    /\ highest' = Greatest(highest, accepted[r])
    /\ stage' = [stage EXCEPT ![r] = "answered"]
    /\ inserted' = [inserted EXCEPT ![r] = {}]
    /\ wrote' = [wrote EXCEPT ![r] = {}]
    /\ UNCHANGED <<node, batch, todo, accepted>>

\* record_batch_state and the commit.  The rows it updates are locked last and in
\* one order.
Commit(r) ==
    /\ stage[r] = "open" /\ todo[r] = {}
    /\ rows' = rows \cup inserted[r]
    /\ jobs' = jobs \cup {e \in inserted[r] : e.seq \notin Health}
    /\ notified' = [e \in Envelope |->
                      IF e \in inserted[r] /\ e.seq \in Firing
                      THEN notified[e] + 1 ELSE notified[e]]
    /\ alert' = IF wrote[r] = {} THEN alert ELSE Last(wrote[r])
    /\ highest' = Greatest(highest, accepted[r])
    /\ stage' = [stage EXCEPT ![r] = "answered"]
    /\ inserted' = [inserted EXCEPT ![r] = {}]
    /\ wrote' = [wrote EXCEPT ![r] = {}]
    /\ UNCHANGED <<node, batch, todo, accepted>>

\* The acknowledgement arrives, or nobody waits for it any more.
Receive(r) ==
    /\ stage[r] = "answered"
    /\ IF awaiting = r
       THEN /\ spool' = spool \ accepted[r]
            /\ removed' = removed \cup accepted[r]
            /\ awaiting' = None
       ELSE UNCHANGED <<spool, removed, awaiting>>
    /\ Discard(r)
    /\ UNCHANGED <<life, sequence, draft, tables>>

Serve(r) ==
    \/ Begin(r) \/ \E e \in todo[r] : Insert(r, e)
    \/ Materialize(r) \/ Commit(r) \/ Receive(r)

Next ==
    \/ Reset \/ GiveUp
    \/ \E t \in Thread : Draw(t) \/ AppendDraft(t)
    \/ \E r \in Request : Send(r) \/ Abort(r) \/ Serve(r)

Spec == Init /\ [][Next]_vars
-----------------------------------------------------------------------------
Busy == {"sent", "open", "alert", "answered"}

SetsOK ==
    /\ life \in 0..MaxResets /\ sequence \in 0..MaxSequence
    /\ draft \in [Thread -> Envelope \cup {None}]
    /\ spool \subseteq Envelope /\ removed \subseteq Envelope
    /\ awaiting \in Request \cup {None}
    /\ rows \subseteq Envelope /\ jobs \subseteq Envelope
    /\ notified \in [Envelope -> Nat]
    /\ stage \in [Request -> Busy \cup {"idle"}]
    /\ batch \in [Request -> SUBSET Envelope] /\ todo \in [Request -> SUBSET Envelope]
    /\ inserted \in [Request -> SUBSET Envelope] /\ wrote \in [Request -> SUBSET Envelope]
    /\ accepted \in [Request -> SUBSET Envelope]

TypeOK ==
    /\ SetsOK
    /\ awaiting # None => stage[awaiting] \in Busy
    /\ alert \in Envelope \cup {None}
    /\ highest \in 0..MaxSequence

\* The node deletes only what the collector has committed, under every interleaving
\* of a request with its retries and after a lost spool (accept on exact replay).
SafeRemoval == removed \subseteq rows

\* As long as the node keeps its spool, the alerts row is of its latest committed
\* transition: a late request never writes an older one over it (the upsert of
\* materialize_alert checks no order), although a health envelope may be appended
\* and sent after younger ones: alerts come from one thread (daemon.rs:415).
AlertNewest ==
    LET alerts == Alerts(rows)
    IN life = 0 => alert = IF alerts = {} THEN None ELSE Last(alerts)

\* The high-water mark is the greatest committed sequence (GREATEST).
HighestIsStored ==
    highest = IF rows = {} THEN 0 ELSE Last(rows).seq

\* Whose uncommitted rows keep the next statement of a transaction waiting.
WaitsFor(r, q) ==
    /\ q # r
    /\ \/ stage[r] = "alert" /\ wrote[q] # {}
       \/ stage[r] = "open" /\ \E e \in todo[r] :
            (\A f \in todo[r] : e.seq <= f.seq) /\ SameSequence(inserted[q], e)

\* As long as the node keeps its spool, its transactions never wait in a circle: of
\* any of them, one waits for none of the others (the envelopes of a batch are
\* inserted in sequence order, and alerts come from one thread).  Chains do occur,
\* when an envelope is appended after a younger one was sent.
NoLockCycle ==
    life = 0 => \A S \in (SUBSET Request) \ {{}} :
                   \E r \in S : \A q \in S : ~WaitsFor(r, q)

(* The inductive invariant behind SafeRemoval and ImplementsLedger.             *)
Distinct(S) == \A e, f \in S : e.seq = f.seq => e = f

IngestInv ==
    /\ SetsOK
    /\ SafeRemoval
    /\ Distinct(rows)
    /\ \A e \in spool : e.life = life
    /\ \A t \in Thread : draft[t] # None => draft[t].life = life
    /\ \A r \in Request :
         /\ Distinct(batch[r])
         /\ todo[r] \subseteq batch[r] /\ inserted[r] \subseteq batch[r] \ todo[r]
         /\ \A e \in inserted[r] : ~SameSequence(rows, e) /\ ~RowLocked(r, e)
         /\ accepted[r] \subseteq rows \cup inserted[r]
         /\ stage[r] \in {"idle", "sent", "answered"} => inserted[r] = {}

(* The inductive invariant behind AlertNewest and NoLockCycle.  As long as the   *)
(* node keeps its spool, a batch leaves out nothing older of the netlink thread   *)
(* that is not committed: what is committed of that thread is its oldest, and     *)
(* inserting in order only one transaction at a time holds a row of it.          *)
Lifecycle(S) == {e \in S : e.seq \notin Health}
OldestFirst(S, T) ==
    \A e \in Lifecycle(S), f \in Lifecycle(T) : f.seq < e.seq => f \in S \cup rows

InOrder(r) ==
    /\ batch[r] \subseteq spool \cup rows
    /\ OldestFirst(batch[r], spool)
    /\ \A e \in todo[r], f \in batch[r] \ todo[r] : f.seq < e.seq
    /\ batch[r] \ todo[r] \subseteq rows \cup inserted[r]
    /\ stage[r] \in {"idle", "sent"} => todo[r] = batch[r]
    /\ wrote[r] \subseteq Alerts(inserted[r])
    /\ stage[r] = "open" => wrote[r] = Alerts(inserted[r])
    /\ stage[r] = "alert" => Alerts(inserted[r]) # {}

OneLifeInv ==
    /\ \A e \in spool \cup rows : e.life = 0 /\ e.seq <= sequence
    /\ \A t \in Thread : draft[t] # None =>
         /\ draft[t].seq \in Publishes(t) /\ draft[t].seq <= sequence
         /\ t = "netlink" => \A e \in Lifecycle(spool \cup rows) : e.seq < draft[t].seq
    /\ OldestFirst(rows, spool)
    /\ \A r \in Request : InOrder(r)
    /\ AlertNewest

SpoolKeptInv == IsFiniteSet(spool) /\ (life = 0 => OneLifeInv)

Ledger == INSTANCE IngestLedger WITH
    NeedsJob <- 1..MaxSequence \ Health, Notifies <- Firing,
    stored <- rows, acknowledged <- removed

\* Ingestion stores each envelope with its effects exactly once.
ImplementsLedger == Ledger!Spec
=============================================================================
