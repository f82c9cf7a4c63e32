--------------------------- MODULE CollectorProofs ---------------------------
(***************************************************************************)
(* Proofs about the collector: its ingestion, for any number of requests,  *)
(* any batch size and any number of lives of the node's spool, and its     *)
(* admission control, for every capacity and map size and any number of    *)
(* concurrent requests and identities.                                     *)
(***************************************************************************)
EXTENDS CollectorIngest, Admission, FiniteSetTheorems, WellFoundedInduction, TLAPS

-----------------------------------------------------------------------------
(* Ingestion.                                                                  *)

\* Uncommitted rows never clash with committed or other uncommitted ones, and what
\* is accepted is one of them (insert_envelope's ON CONFLICT DO NOTHING).
THEOREM IngestInvariant == Spec => []IngestInv
<1> USE IngestAssumption
    DEF SetsOK, SafeRemoval, Distinct, SameSequence, RowLocked, Envelope, Busy
<1>1. Init => IngestInv
  BY DEF Init, IngestInv, Empty
<1>2. IngestInv /\ [Next]_vars => IngestInv'
  <2> SUFFICES ASSUME IngestInv, [Next]_vars PROVE IngestInv'
    OBVIOUS
  <2> USE DEF IngestInv, node, tables, requests
  <2>1. ASSUME NEW t \in Thread, Draw(t) \/ AppendDraft(t) PROVE IngestInv'
    <3>1. CASE Draw(t)
      <4>1. sequence + 1 \in 1..MaxSequence
        BY <3>1 DEF Draw, MaxOf
      <4>2. QED
        BY <3>1, <4>1 DEF Draw
    <3>2. CASE AppendDraft(t)
      <4>1. draft[t] \in Envelope /\ draft[t].life = life
        BY <3>2 DEF AppendDraft
      <4>2. QED
        BY <3>2, <4>1 DEF AppendDraft
    <3>3. QED
      BY <2>1, <3>1, <3>2
  <2>2. CASE Reset
    BY <2>2 DEF Reset
  <2>3. CASE GiveUp
    BY <2>3 DEF GiveUp
  <2>4. ASSUME NEW r \in Request, Send(r) PROVE IngestInv'
    BY <2>4 DEF Send, Oldest
  <2>5. ASSUME NEW r \in Request, Abort(r) PROVE IngestInv'
    BY <2>5 DEF Abort, Discard
  <2>6. ASSUME NEW r \in Request, Begin(r) PROVE IngestInv'
    BY <2>6 DEF Begin
  <2>7. ASSUME NEW r \in Request, NEW e \in todo[r], Insert(r, e) PROVE IngestInv'
    <3>1. /\ SetsOK' /\ SafeRemoval' /\ Distinct(rows)' /\ \A f \in spool' : f.life = life'
          /\ \A t \in Thread : draft'[t] # None => draft'[t].life = life'
      <4>1. UNCHANGED <<life, sequence, draft, spool, removed, awaiting, rows, jobs, notified, batch, wrote>>
        BY <2>7 DEF Insert
      <4>2. SetsOK'
        BY <2>7, <4>1 DEF Insert
      <4>3. SafeRemoval' /\ Distinct(rows)'
        BY <4>1
      <4>4. QED
        BY <4>1, <4>2, <4>3
    <3>2. ASSUME NEW q \in Request PROVE accepted'[q] \subseteq rows' \cup inserted'[q]
      BY <2>7, <3>2 DEF Insert, IsReplay
    <3>3. ASSUME NEW q \in Request
          PROVE /\ Distinct(batch[q])'
                /\ todo'[q] \subseteq batch'[q] /\ inserted'[q] \subseteq batch'[q] \ todo'[q]
      BY <2>7, <3>3 DEF Insert
    <3>4. ASSUME NEW q \in Request, NEW f \in inserted'[q]
          PROVE ~SameSequence(rows, f)'
      BY <2>7, <3>4 DEF Insert
    <3>5. ASSUME NEW q \in Request, NEW f \in inserted'[q] PROVE ~RowLocked(q, f)'
      BY <2>7, <3>5 DEF Insert
    <3>6. ASSUME NEW q \in Request PROVE stage'[q] \in {"idle", "sent", "answered"} => inserted'[q] = {}
      BY <2>7, <3>6 DEF Insert
    <3> HIDE DEF SetsOK, SafeRemoval, Distinct, SameSequence, RowLocked
    <3>7. QED
      BY <3>1, <3>2, <3>3, <3>4, <3>5, <3>6
  <2>8. ASSUME NEW r \in Request, Materialize(r) PROVE IngestInv'
    BY <2>8 DEF Materialize, Alerts
  <2>9. ASSUME NEW r \in Request, Commit(r) PROVE IngestInv'
    <3>1. notified' \in [Envelope -> Nat]
      <4> HIDE DEF Envelope, Distinct, SafeRemoval, SameSequence, RowLocked
      <4>1. notified \in [Envelope -> Nat]
        OBVIOUS
      <4>2. QED
        BY <2>9, <4>1 DEF Commit
    <3>2. /\ SetsOK' /\ SafeRemoval' /\ \A f \in spool' : f.life = life'
          /\ \A t \in Thread : draft'[t] # None => draft'[t].life = life'
      <4>1. rows' \subseteq Envelope /\ jobs' \subseteq Envelope
        BY <2>9 DEF Commit
      <4>2. QED
        BY <2>9, <3>1, <4>1 DEF Commit
    <3>3. Distinct(rows)'
      BY <2>9 DEF Commit
    <3>4. ASSUME NEW q \in Request PROVE accepted'[q] \subseteq rows' \cup inserted'[q]
      BY <2>9, <3>4 DEF Commit
    <3>5. ASSUME NEW q \in Request
          PROVE /\ Distinct(batch[q])'
                /\ todo'[q] \subseteq batch'[q] /\ inserted'[q] \subseteq batch'[q] \ todo'[q]
      BY <2>9, <3>5 DEF Commit
    <3>6. ASSUME NEW q \in Request, NEW f \in inserted'[q]
          PROVE ~SameSequence(rows, f)' /\ ~RowLocked(q, f)'
      BY <2>9, <3>6 DEF Commit
    <3>7. ASSUME NEW q \in Request PROVE stage'[q] \in {"idle", "sent", "answered"} => inserted'[q] = {}
      BY <2>9, <3>7 DEF Commit
    <3> HIDE DEF SetsOK, SafeRemoval, Distinct, SameSequence, RowLocked
    <3>8. QED
      BY <3>2, <3>3, <3>4, <3>5, <3>6, <3>7
  <2>10. ASSUME NEW r \in Request, Receive(r) PROVE IngestInv'
    BY <2>10 DEF Receive, Discard
  <2>11. CASE UNCHANGED vars
    BY <2>11 DEF vars
  <2> HIDE DEF IngestInv
  <2>12. QED
    BY <2>1, <2>2, <2>3, <2>4, <2>5, <2>6, <2>7, <2>8, <2>9, <2>10, <2>11 DEF Next, Serve
<1>3. QED
  BY <1>1, <1>2, PTL DEF Spec

\* The node deletes only what is committed (Receive after Commit).
THEOREM RemovedIsStored == Spec => []SafeRemoval
<1>1. IngestInv => SafeRemoval
  BY DEF IngestInv
<1>2. QED
  BY <1>1, IngestInvariant, PTL

\* Every step of ingestion stores envelopes together with their effects, acknowledges
\* stored ones, or changes nothing the ledger shows.
THEOREM IngestImplementsLedger == Spec => ImplementsLedger
<1> USE IngestAssumption
<1>1. Init => Ledger!Init
  BY DEF Init, Ledger!Init
<1>2. IngestInv /\ IngestInv' /\ [Next]_vars
        => [Ledger!Store \/ Ledger!Acknowledge]_(Ledger!vars)
  <2> SUFFICES ASSUME IngestInv, IngestInv', [Next]_vars
               PROVE [Ledger!Store \/ Ledger!Acknowledge]_(Ledger!vars)
    OBVIOUS
  <2> USE DEF Ledger!vars
  <2>1. ASSUME NEW r \in Request, Commit(r) PROVE Ledger!Store
    <3>1. rows' \ rows = inserted[r]
      BY <2>1 DEF Commit, IngestInv, SetsOK, SameSequence
    <3>2. DOMAIN notified = Envelope
      BY DEF IngestInv, SetsOK
    <3>3. jobs' = jobs \cup {e \in inserted[r] : e.seq \in (1..MaxSequence) \ Health}
      BY <2>1 DEF Commit, IngestInv, SetsOK, Envelope
    <3>4. QED
      BY <2>1, <3>1, <3>2, <3>3 DEF Commit, node, Ledger!Store, IngestInv, Distinct
  <2>2. ASSUME NEW r \in Request, Receive(r) PROVE Ledger!Acknowledge \/ UNCHANGED Ledger!vars
    BY <2>2 DEF Receive, tables, Ledger!Acknowledge, IngestInv, SafeRemoval
  <2>3. ASSUME NEW r \in Request,
               Send(r) \/ Abort(r) \/ Begin(r) \/ Materialize(r) \/ \E e \in todo[r] : Insert(r, e)
        PROVE UNCHANGED Ledger!vars
    BY <2>3 DEF Send, Abort, Begin, Materialize, Insert, node, tables
  <2>4. CASE Reset \/ GiveUp \/ (\E t \in Thread : Draw(t) \/ AppendDraft(t)) \/ UNCHANGED vars
    BY <2>4 DEF Draw, AppendDraft, Reset, GiveUp, vars, node, tables
  <2>5. QED
    BY <2>1, <2>2, <2>3, <2>4 DEF Next, Serve
<1>3. QED
  BY <1>1, <1>2, IngestInvariant, PTL DEF Spec, ImplementsLedger, Ledger!Spec

\* A batch takes the oldest envelopes of the spool (SpoolManager::pending sorts and
\* truncates): whoever is older than one of it belongs to it.
LEMMA OldestIsPrefix ==
    ASSUME IsFiniteSet(spool), NEW e \in Oldest, NEW f \in spool, f.seq < e.seq,
           spool \subseteq Envelope
    PROVE  f \in Oldest
<1> DEFINE Before(x) == {g \in spool : g.seq < x.seq}
<1>1. e \in spool /\ Cardinality(Before(e)) < MaxBatch
  BY DEF Oldest
<1>2. \A g \in spool : g.seq \in Int
  BY IngestAssumption DEF Envelope
<1>3. Before(f) \subseteq Before(e)
  BY <1>1, <1>2
<1>4. IsFiniteSet(Before(e)) /\ IsFiniteSet(Before(f))
  BY FS_Subset
<1>5. /\ Cardinality(Before(f)) <= Cardinality(Before(e))
      /\ Cardinality(Before(f)) \in Nat /\ Cardinality(Before(e)) \in Nat
  BY <1>3, <1>4, FS_Subset, FS_CardinalityType
<1>6. Cardinality(Before(f)) < MaxBatch
  BY <1>1, <1>5, IngestAssumption
<1>7. QED
  BY <1>6 DEF Oldest

\* The last of two sets is that of the later one.
LEMMA LastOfLater ==
    ASSUME NEW S \in SUBSET Envelope, NEW T \in SUBSET Envelope, T # {},
           \A e \in T, f \in S : f.seq < e.seq
    PROVE  Last(S \cup T) = Last(T)
<1>1. ASSUME NEW e PROVE (e \in S \cup T /\ \A f \in S \cup T : f.seq <= e.seq)
                           <=> (e \in T /\ \A f \in T : f.seq <= e.seq)
  BY IngestAssumption DEF Envelope
<1>2. QED
  BY <1>1 DEF Last

\* A step that leaves the spool, the committed rows and the alerts row alone, and
\* every request but one.
LEMMA OtherRequests ==
    ASSUME OneLifeInv, NEW r \in Request, InOrder(r)',
           UNCHANGED <<life, sequence, draft, spool, rows, alert>>,
           \A q \in Request \ {r} : /\ stage'[q] = stage[q] /\ batch'[q] = batch[q]
                                    /\ todo'[q] = todo[q] /\ inserted'[q] = inserted[q]
                                    /\ wrote'[q] = wrote[q]
    PROVE  OneLifeInv'
<1>1. ASSUME NEW q \in Request, q # r PROVE InOrder(q)'
  BY <1>1 DEF OneLifeInv, InOrder, OldestFirst, Lifecycle
<1>2. QED
  BY <1>1 DEF OneLifeInv, OldestFirst, Lifecycle, AlertNewest

\* The rows of the netlink thread that a transaction commits are newer than the
\* committed ones (insert_envelope in the order of the batch, materialize_alert).
LEMMA CommitInOrder ==
    ASSUME IngestInv, IngestInv', OneLifeInv, life = 0, NEW r \in Request, Commit(r)
    PROVE  OneLifeInv'
<1> USE IngestAssumption
<1>1. /\ stage[r] = "open" /\ todo[r] = {} /\ rows' = rows \cup inserted[r]
      /\ alert' = IF wrote[r] = {} THEN alert ELSE Last(wrote[r])
      /\ stage' = [stage EXCEPT ![r] = "answered"]
      /\ inserted' = [inserted EXCEPT ![r] = {}] /\ wrote' = [wrote EXCEPT ![r] = {}]
      /\ UNCHANGED <<life, sequence, draft, spool, batch, todo>>
  BY DEF Commit, node
<1>2. /\ inserted[r] \subseteq batch[r] /\ batch[r] \subseteq spool \cup rows
      /\ batch[r] \subseteq rows \cup inserted[r]
      /\ wrote[r] = Alerts(inserted[r])
      /\ OldestFirst(batch[r], spool)
  BY <1>1 DEF IngestInv, OneLifeInv, InOrder
<1>3. /\ stage \in [Request -> Busy \cup {"idle"}] /\ inserted \in [Request -> SUBSET Envelope]
      /\ wrote \in [Request -> SUBSET Envelope] /\ rows \subseteq Envelope
  BY DEF IngestInv, SetsOK
<1>4. ASSUME NEW e \in Lifecycle(inserted[r]), NEW f \in Lifecycle(rows) PROVE f.seq < e.seq
  <2> USE DEF Lifecycle
  <2>1. e \notin rows /\ f.seq # e.seq
    BY DEF IngestInv, SameSequence
  <2>2. e \in spool
    BY <1>2, <2>1
  <2>3. ~(e.seq < f.seq)
    BY <2>1, <2>2 DEF OneLifeInv, OldestFirst
  <2>4. e.seq \in Int /\ f.seq \in Int
    BY <1>3 DEF Envelope
  <2>5. QED
    BY <2>1, <2>3, <2>4
<1>5. \A e \in spool \cup rows' : e.life = 0 /\ e.seq <= sequence
  BY <1>1, <1>2 DEF OneLifeInv
<1>6. OldestFirst(rows, spool)'
  <2> USE DEF Lifecycle
  <2>1. ASSUME NEW e \in Lifecycle(rows'), NEW f \in Lifecycle(spool), f.seq < e.seq
        PROVE f \in rows'
    <3>1. CASE e \in rows
      BY <1>1, <2>1, <3>1 DEF OneLifeInv, OldestFirst
    <3>2. CASE e \in inserted[r]
      BY <1>1, <1>2, <2>1, <3>2 DEF OldestFirst
    <3>3. QED
      BY <1>1, <3>1, <3>2
  <2>2. QED
    BY <1>1, <2>1 DEF OldestFirst
<1>7. ASSUME NEW q \in Request PROVE InOrder(q)'
  <2>1. CASE q = r
    <3>1. stage'[q] = "answered" /\ inserted'[q] = {} /\ wrote'[q] = {}
      BY <1>1, <1>3, <2>1
    <3>2. QED
      BY <1>1, <1>2, <2>1, <3>1 DEF InOrder, OneLifeInv, OldestFirst, Lifecycle, Alerts
  <2>2. CASE q # r
    <3>1. stage'[q] = stage[q] /\ inserted'[q] = inserted[q] /\ wrote'[q] = wrote[q]
      BY <1>1, <1>3, <2>2
    <3>2. InOrder(q)
      BY DEF OneLifeInv
    <3>3. QED
      BY <1>1, <3>1, <3>2 DEF InOrder, OldestFirst, Lifecycle
  <2>3. QED
    BY <2>1, <2>2
<1>8. AlertNewest'
  <2>1. Alerts(rows') = Alerts(rows) \cup Alerts(inserted[r])
    BY <1>1 DEF Alerts
  <2>2. CASE Alerts(inserted[r]) = {}
    BY <1>1, <1>2, <2>1, <2>2 DEF OneLifeInv, AlertNewest
  <2>3. CASE Alerts(inserted[r]) # {}
    <3>1. /\ Alerts(rows) \in SUBSET Envelope /\ Alerts(inserted[r]) \in SUBSET Envelope
          /\ Alerts(inserted[r]) # {}
          /\ \A e \in Alerts(inserted[r]), f \in Alerts(rows) : f.seq < e.seq
      <4>1. /\ Alerts(rows) \subseteq Lifecycle(rows)
            /\ Alerts(inserted[r]) \subseteq Lifecycle(inserted[r])
        BY DEF Alerts, Lifecycle
      <4>2. QED
        BY <1>3, <1>4, <2>3, <4>1 DEF Alerts
    <3>2. Last(Alerts(rows')) = Last(Alerts(inserted[r]))
      <4>1. Last(Alerts(rows) \cup Alerts(inserted[r])) = Last(Alerts(inserted[r]))
        BY ONLY <3>1, LastOfLater
      <4>2. QED
        BY <2>1, <4>1
    <3>3. QED
      BY <1>1, <1>2, <2>1, <2>3, <3>2 DEF AlertNewest
  <2>4. QED
    BY <2>2, <2>3
<1>9. ASSUME NEW t \in Thread, draft'[t] # None
      PROVE  /\ draft'[t].seq \in Publishes(t) /\ draft'[t].seq <= sequence'
             /\ t = "netlink" => \A e \in Lifecycle((spool \cup rows)') : e.seq < draft'[t].seq
  <2>1. (spool \cup rows)' = spool \cup rows
    BY <1>1, <1>2
  <2>2. QED
    BY <1>1, <1>9, <2>1 DEF OneLifeInv
<1>10. QED
  BY <1>1, <1>5, <1>6, <1>7, <1>8, <1>9 DEF OneLifeInv, Lifecycle

\* An envelope is inserted after every older one of its batch.
LEMMA InsertInOrder ==
    ASSUME IngestInv, OneLifeInv, life = 0, NEW r \in Request, NEW e \in todo[r], Insert(r, e)
    PROVE  OneLifeInv'
<1> USE IngestAssumption
<1>1. /\ stage[r] = "open" /\ \A f \in todo[r] : e.seq <= f.seq
      /\ todo' = [todo EXCEPT ![r] = todo[r] \ {e}]
      /\ UNCHANGED <<life, sequence, draft, spool, rows, alert, batch, wrote>>
  BY DEF Insert, node, tables
<1>2. /\ stage \in [Request -> Busy \cup {"idle"}] /\ inserted \in [Request -> SUBSET Envelope]
      /\ todo \in [Request -> SUBSET Envelope] /\ batch \in [Request -> SUBSET Envelope]
  BY DEF IngestInv, SetsOK
<1>3. /\ todo'[r] = todo[r] \ {e}
      /\ \A q \in Request \ {r} : todo'[q] = todo[q]
  BY <1>1, <1>2
<1>4. InOrder(r) /\ todo[r] \subseteq batch[r] /\ Distinct(batch[r])
  BY DEF IngestInv, OneLifeInv
<1>5. \A f \in todo'[r], g \in batch[r] \ todo'[r] : g.seq < f.seq
  <2>1. ASSUME NEW f \in todo'[r] PROVE e.seq < f.seq
    <3>1. f \in todo[r] /\ f # e /\ f.seq # e.seq
      BY <1>3, <1>4 DEF Distinct
    <3>2. e.seq \in Int /\ f.seq \in Int
      BY <1>2, <3>1 DEF Envelope
    <3>3. QED
      BY <1>1, <3>1, <3>2
  <2>2. QED
    BY <1>3, <1>4, <2>1 DEF InOrder
<1>6. CASE SameSequence(rows, e)
  <2>1. UNCHANGED <<stage, inserted>>
    BY <1>6 DEF Insert
  <2>2. e \in rows
    <3>1. PICK f \in rows : f.seq = e.seq
      BY <1>6 DEF SameSequence
    <3>2. e \in batch[r] /\ e.life = 0 /\ f.life = 0
      BY <1>4 DEF InOrder, OneLifeInv
    <3>3. e \in Envelope /\ f \in Envelope
      BY <1>2 DEF IngestInv, SetsOK
    <3>4. QED
      BY <3>1, <3>2, <3>3 DEF Envelope
  <2>3. InOrder(r)'
    BY <1>1, <1>3, <1>4, <1>5, <2>1, <2>2 DEF InOrder, OldestFirst, Lifecycle
  <2>4. QED
    BY <1>1, <1>3, <2>1, <2>3, OtherRequests
<1>7. CASE ~SameSequence(rows, e)
  <2>1. /\ inserted' = [inserted EXCEPT ![r] = inserted[r] \cup {e}]
        /\ stage' = [stage EXCEPT ![r] = IF Alerts({e}) # {} THEN "alert" ELSE stage[r]]
    BY <1>7 DEF Insert
  <2>2. /\ inserted'[r] = inserted[r] \cup {e}
        /\ stage'[r] = IF Alerts({e}) # {} THEN "alert" ELSE "open"
        /\ \A q \in Request \ {r} : inserted'[q] = inserted[q] /\ stage'[q] = stage[q]
    BY <1>1, <1>2, <2>1
  <2>3. stage'[r] = "open" => Alerts(inserted'[r]) = Alerts(inserted[r])
    BY <2>2 DEF Alerts
  <2>4. /\ Alerts(inserted[r]) \subseteq Alerts(inserted'[r])
        /\ stage'[r] = "alert" => Alerts(inserted'[r]) # {}
    BY <2>2 DEF Alerts
  <2>5. InOrder(r)'
    BY <1>1, <1>3, <1>4, <1>5, <2>2, <2>3, <2>4 DEF InOrder, OldestFirst, Lifecycle
  <2>6. QED
    BY <1>1, <1>3, <2>2, <2>5, OtherRequests
<1>8. QED
  BY <1>6, <1>7

\* A number is drawn after every envelope (next_sequence).
LEMMA DrawInOrder ==
    ASSUME SetsOK, OneLifeInv, life = 0, NEW t \in Thread, Draw(t)
    PROVE  OneLifeInv'
<1> USE IngestAssumption
<1>1. /\ sequence' = sequence + 1 /\ sequence \in Nat /\ sequence + 1 \in Publishes(t)
      /\ draft' = [draft EXCEPT ![t] = [seq |-> sequence + 1, life |-> life]]
      /\ UNCHANGED <<life, spool, tables, requests>>
  BY DEF Draw, SetsOK
<1>2. \A e \in spool \cup rows : e.life = 0 /\ e.seq < sequence' /\ e.seq <= sequence'
  BY <1>1 DEF OneLifeInv, SetsOK, Envelope
<1>3. ASSUME NEW u \in Thread, draft'[u] # None
      PROVE  /\ draft'[u].seq \in Publishes(u) /\ draft'[u].seq <= sequence'
             /\ u = "netlink" => \A e \in Lifecycle(spool \cup rows) : e.seq < draft'[u].seq
  <2>1. CASE u = t
    <3>1. draft'[u].seq = sequence'
      BY <1>1, <2>1 DEF SetsOK
    <3>2. QED
      BY <1>1, <1>2, <2>1, <3>1 DEF Lifecycle
  <2>2. CASE u # t
    <3>1. draft'[u] = draft[u] /\ draft[u].seq \in Nat
      BY <1>1, <1>3, <2>2 DEF SetsOK, Envelope
    <3>2. /\ draft[u].seq \in Publishes(u) /\ draft[u].seq <= sequence
          /\ u = "netlink" => \A e \in Lifecycle(spool \cup rows) : e.seq < draft[u].seq
      BY <1>3, <3>1 DEF OneLifeInv
    <3>3. draft[u].seq <= sequence'
      BY <1>1, <3>1, <3>2
    <3>4. QED
      BY <3>1, <3>2, <3>3
  <2>3. QED
    BY <2>1, <2>2
<1>4. OldestFirst(rows, spool)' /\ AlertNewest' /\ \A q \in Request : InOrder(q)'
  BY <1>1 DEF OneLifeInv, InOrder, OldestFirst, Lifecycle, AlertNewest, tables, requests
<1>5. QED
  BY <1>1, <1>2, <1>3, <1>4 DEF OneLifeInv, Lifecycle, tables

\* The netlink thread appends its youngest envelope; the socket thread may append one
\* that is older than committed ones, of no other kind than health.
LEMMA AppendInOrder ==
    ASSUME SetsOK, OneLifeInv, life = 0, \A t \in Thread : draft[t] # None => draft[t].life = life,
           NEW t \in Thread, AppendDraft(t)
    PROVE  OneLifeInv'
<1> USE IngestAssumption
<1>1. /\ draft[t] # None /\ draft' = [draft EXCEPT ![t] = None]
      /\ spool' = spool \/ spool' = spool \cup {draft[t]}
      /\ UNCHANGED <<life, sequence, tables, requests>>
  BY DEF AppendDraft
<1>2. /\ draft[t].life = 0 /\ draft[t].seq <= sequence
      /\ t = "netlink" => \A e \in Lifecycle(spool \cup rows) : e.seq < draft[t].seq
      /\ t = "socket" => draft[t].seq \in Health
  BY <1>1 DEF OneLifeInv, Publishes
<1>3. \A e \in spool' \cup rows : e.life = 0 /\ e.seq <= sequence
  BY <1>1, <1>2 DEF OneLifeInv
<1>4. \A e \in spool \cup rows : e.seq \in Int
  BY DEF SetsOK, Envelope
<1>5. draft[t].seq \in Int
  BY <1>1 DEF SetsOK, Envelope
<1>6. ASSUME NEW S, S \subseteq spool \cup rows, OldestFirst(S, spool) PROVE OldestFirst(S, spool')
  <2>1. ASSUME NEW e \in Lifecycle(S), NEW f \in Lifecycle(spool'), f.seq < e.seq
        PROVE  f \in S \cup rows
    <3>1. CASE f \in spool
      BY <1>6, <2>1, <3>1 DEF OldestFirst, Lifecycle
    <3>2. CASE f = draft[t]
      <4>1. t = "netlink"
        BY <1>2, <2>1, <3>2 DEF Lifecycle, Thread
      <4>2. e.seq < draft[t].seq
        BY <1>2, <1>6, <4>1 DEF Lifecycle
      <4>3. QED
        BY <1>4, <1>5, <1>6, <2>1, <3>2, <4>2 DEF Lifecycle
    <3>3. QED
      BY <1>1, <2>1, <3>1, <3>2 DEF Lifecycle
  <2>2. QED
    BY <2>1 DEF OldestFirst
<1>7. OldestFirst(rows, spool)'
  BY <1>1, <1>6 DEF OneLifeInv, OldestFirst, tables
<1>8. ASSUME NEW q \in Request PROVE InOrder(q)'
  <2>1. InOrder(q) /\ OldestFirst(batch[q], spool')
    BY <1>6 DEF OneLifeInv, InOrder
  <2>2. QED
    BY <1>1, <2>1 DEF InOrder, OldestFirst, tables, requests
<1>9. AlertNewest'
  BY <1>1 DEF OneLifeInv, AlertNewest, tables
<1>10. ASSUME NEW u \in Thread, draft'[u] # None
      PROVE  /\ draft'[u].seq \in Publishes(u) /\ draft'[u].seq <= sequence
             /\ u = "netlink" => \A e \in Lifecycle(spool' \cup rows) : e.seq < draft'[u].seq
  <2>1. u # t /\ draft'[u] = draft[u]
    BY <1>1, <1>10 DEF SetsOK
  <2>2. /\ draft[u].seq \in Publishes(u) /\ draft[u].seq <= sequence
        /\ u = "netlink" => \A e \in Lifecycle(spool \cup rows) : e.seq < draft[u].seq
    BY <1>10, <2>1 DEF OneLifeInv
  <2>3. u = "netlink" => Lifecycle(spool' \cup rows) \subseteq Lifecycle(spool \cup rows)
    BY <1>1, <1>2, <2>1 DEF Lifecycle, Thread
  <2>4. QED
    BY <2>1, <2>2, <2>3
<1>11. QED
  BY <1>1, <1>3, <1>7, <1>8, <1>9, <1>10 DEF OneLifeInv, Lifecycle, tables

\* As long as the node keeps its spool: what is committed of the netlink thread is
\* the oldest of it, although the socket thread's envelopes may be appended late, and
\* the alerts row is of the newest transition of that (publish from daemon.rs:415).
THEOREM SpoolKeptInvariant == Spec => []SpoolKeptInv
<1> USE IngestAssumption
<1>1. Init => SpoolKeptInv
  BY FS_EmptySet DEF Init, Empty, SpoolKeptInv, OneLifeInv, InOrder,
     OldestFirst, AlertNewest, Alerts, Lifecycle
<1>2. IsFiniteSet(spool) /\ [Next]_vars => IsFiniteSet(spool')
  BY FS_AddElement, FS_EmptySet, FS_Subset DEF Next, Draw, AppendDraft, Reset, GiveUp,
     Send, Abort, Serve, Begin, Insert, Materialize, Commit, Receive, vars, node
<1>3. ASSUME IngestInv, IngestInv', IsFiniteSet(spool), OneLifeInv, life = 0, life' = 0, [Next]_vars
      PROVE  OneLifeInv'
  <2> USE DEF node, tables, requests
  <2>1. SetsOK
    BY <1>3 DEF IngestInv
  <2>2. CASE UNCHANGED <<life, sequence, draft, spool, removed, tables, requests>>
    BY <1>3, <2>2 DEF OneLifeInv, InOrder, OldestFirst, Lifecycle, AlertNewest
  <2>3. ASSUME NEW t \in Thread, Draw(t) \/ AppendDraft(t) PROVE OneLifeInv'
    BY <1>3, <2>3, DrawInOrder, AppendInOrder DEF IngestInv
  <2>4. CASE Reset
    BY <1>3, <2>4 DEF Reset
  <2>5. CASE GiveUp
    BY <2>2, <2>5 DEF GiveUp
  <2>6. ASSUME NEW r \in Request, Send(r) PROVE OneLifeInv'
    <3>1. /\ batch'[r] = Oldest /\ todo'[r] = Oldest /\ stage'[r] = "sent" /\ stage[r] = "idle"
          /\ UNCHANGED <<life, sequence, draft, spool, rows, alert, inserted, wrote>>
          /\ \A q \in Request \ {r} : stage'[q] = stage[q] /\ batch'[q] = batch[q] /\ todo'[q] = todo[q]
      BY <2>1, <2>6 DEF Send, SetsOK
    <3>2. \A e \in Oldest, f \in spool : f.seq < e.seq => f \in Oldest
      BY <1>3, <2>1, OldestIsPrefix DEF SetsOK
    <3>3. InOrder(r)
      BY <1>3 DEF OneLifeInv
    <3>4. InOrder(r)'
      BY <3>1, <3>2, <3>3 DEF InOrder, OldestFirst, Lifecycle, Oldest
    <3>5. QED
      BY <1>3, <3>1, <3>4, OtherRequests
  <2>7. ASSUME NEW r \in Request, Abort(r) PROVE OneLifeInv'
    <3>1. /\ batch'[r] = {} /\ todo'[r] = {} /\ inserted'[r] = {} /\ wrote'[r] = {}
          /\ stage'[r] = "idle"
          /\ UNCHANGED <<life, sequence, draft, spool, rows, alert>>
          /\ \A q \in Request \ {r} : /\ stage'[q] = stage[q] /\ batch'[q] = batch[q]
                                       /\ todo'[q] = todo[q] /\ inserted'[q] = inserted[q]
                                       /\ wrote'[q] = wrote[q]
      BY <2>1, <2>7 DEF Abort, Discard, SetsOK
    <3>2. InOrder(r)'
      BY <3>1 DEF InOrder, OldestFirst, Lifecycle, Alerts
    <3>3. QED
      BY <1>3, <3>1, <3>2, OtherRequests
  <2>8. ASSUME NEW r \in Request, Begin(r) PROVE OneLifeInv'
    <3>1. /\ stage[r] = "sent" /\ stage'[r] = "open"
          /\ UNCHANGED <<life, sequence, draft, spool, rows, alert, batch, todo, inserted, wrote>>
          /\ \A q \in Request \ {r} : stage'[q] = stage[q]
      BY <2>1, <2>8 DEF Begin, SetsOK
    <3>2. InOrder(r) /\ inserted[r] = {}
      BY <1>3, <3>1 DEF OneLifeInv, IngestInv
    <3>3. InOrder(r)'
      BY <3>1, <3>2 DEF InOrder, OldestFirst, Lifecycle, Alerts
    <3>4. QED
      BY <1>3, <3>1, <3>3, OtherRequests
  <2>9. ASSUME NEW r \in Request, NEW e \in todo[r], Insert(r, e) PROVE OneLifeInv'
    BY <1>3, <2>9, InsertInOrder
  <2>10. ASSUME NEW r \in Request, Materialize(r) PROVE OneLifeInv'
    <3>1. /\ stage[r] = "alert" /\ stage'[r] = "open" /\ wrote'[r] = Alerts(inserted[r])
          /\ UNCHANGED <<life, sequence, draft, spool, rows, alert, batch, todo, inserted>>
          /\ \A q \in Request \ {r} : stage'[q] = stage[q] /\ wrote'[q] = wrote[q]
      BY <2>1, <2>10 DEF Materialize, SetsOK
    <3>2. InOrder(r)
      BY <1>3 DEF OneLifeInv
    <3>3. InOrder(r)'
      BY <3>1, <3>2 DEF InOrder, OldestFirst, Lifecycle, Alerts
    <3>4. QED
      BY <1>3, <3>1, <3>3, OtherRequests
  <2>11. ASSUME NEW r \in Request, Commit(r) PROVE OneLifeInv'
    BY <1>3, <2>11, CommitInOrder
  <2>12. ASSUME NEW r \in Request, Receive(r) PROVE OneLifeInv'
    <3>1. /\ batch'[r] = {} /\ todo'[r] = {} /\ inserted'[r] = {} /\ wrote'[r] = {}
          /\ stage'[r] = "idle"
          /\ UNCHANGED <<life, sequence, draft, rows, alert>>
          /\ \A q \in Request \ {r} : /\ stage'[q] = stage[q] /\ batch'[q] = batch[q]
                                       /\ todo'[q] = todo[q] /\ inserted'[q] = inserted[q]
                                       /\ wrote'[q] = wrote[q]
      BY <2>1, <2>12 DEF Receive, Discard, SetsOK
    <3>2. spool' \subseteq spool /\ spool \subseteq spool' \cup rows
      BY <1>3, <2>12 DEF Receive, IngestInv
    <3>3. ASSUME NEW q \in Request PROVE InOrder(q)'
      <4>1. InOrder(q)
        BY <1>3 DEF OneLifeInv
      <4>2. CASE q = r
        BY <3>1, <4>2 DEF InOrder, OldestFirst, Lifecycle, Alerts
      <4>3. CASE q # r
        BY <3>1, <3>2, <4>1, <4>3 DEF InOrder, OldestFirst, Lifecycle
      <4>4. QED
        BY <4>2, <4>3
    <3>4. QED
      BY <1>3, <3>1, <3>2, <3>3 DEF OneLifeInv, OldestFirst, Lifecycle, AlertNewest
  <2>13. CASE UNCHANGED vars
    BY <2>2, <2>13 DEF vars
  <2>14. QED
    BY <1>3, <2>3, <2>4, <2>5, <2>6, <2>7, <2>8, <2>9, <2>10, <2>11, <2>12, <2>13 DEF Next, Serve
<1>4. IngestInv /\ life' = 0 /\ [Next]_vars => life = 0
  <2>1. [Next]_vars => life' = life \/ life' = life + 1
    BY DEF Next, Draw, AppendDraft, Reset, GiveUp, Send, Abort, Serve, Begin, Insert,
       Materialize, Commit, Receive, vars, node
  <2>2. IngestInv => life \in Nat
    BY DEF IngestInv, SetsOK
  <2>3. QED
    BY <2>1, <2>2
<1>5. IngestInv /\ IngestInv' /\ SpoolKeptInv /\ [Next]_vars => SpoolKeptInv'
  BY <1>2, <1>3, <1>4 DEF SpoolKeptInv
<1>6. QED
  BY <1>1, <1>5, IngestInvariant, PTL DEF Spec

\* The alerts row is of the latest committed transition, whichever of the requests
\* commits when (materialize_alert checks no order).
THEOREM AlertIsNewest == Spec => []AlertNewest
<1>1. SpoolKeptInv => AlertNewest
  BY DEF SpoolKeptInv, OneLifeInv, AlertNewest
<1>2. QED
  BY <1>1, SpoolKeptInvariant, PTL

\* Of some envelopes there is a last one (the bound of the sequences stands for the
\* width of the column).
LEMMA LastOfSome ==
    ASSUME NEW S \in SUBSET Envelope, S # {}
    PROVE  Last(S) \in S /\ \A f \in S : f.seq <= Last(S).seq
<1> USE IngestAssumption
<1> DEFINE Above(e) == 1..(MaxSequence - e.seq)
           T == {Above(e) : e \in S}
<1>1. MaxSequence \in Nat /\ \A e \in S : e.seq \in 1..MaxSequence
  BY DEF Envelope
<1>2. T \subseteq FiniteSubsetsOf(1..MaxSequence)
  <2>1. IsFiniteSet(1..MaxSequence) /\ FiniteSubsetsOf(1..MaxSequence) = SUBSET (1..MaxSequence)
    <3>1. IsFiniteSet(1..MaxSequence)
      BY <1>1, FS_Interval
    <3>2. QED
      BY <3>1, FS_FiniteSubsetsOfFinite
  <2>2. \A e \in S : Above(e) \in SUBSET (1..MaxSequence)
    BY <1>1
  <2> HIDE DEF Above
  <2>3. \A y \in T : y \in SUBSET (1..MaxSequence)
    BY <2>2
  <2> HIDE DEF T
  <2>4. QED
    BY <2>1, <2>3
<1>3. T # {}
  BY Zenon
<1>4. PICK x \in T : \A y \in T : ~ (<<y, x>> \in StrictSubsetOrdering(1..MaxSequence))
  <2> HIDE DEF T
  <2>1. QED
    BY <1>2, <1>3, WFMin, FS_StrictSubsetOrderingWellFounded
<1>5. PICK e \in S : x = Above(e)
  BY <1>4
<1>6. ASSUME NEW f \in S, e.seq < f.seq PROVE FALSE
  <2>1. /\ Above(f) \subseteq Above(e) /\ Above(e) \subseteq 1..MaxSequence
        /\ MaxSequence - e.seq \in Above(e) /\ MaxSequence - e.seq \notin Above(f)
    BY <1>1, <1>6
  <2>2. Above(f) \in T
    OBVIOUS
  <2> HIDE DEF Above, T
  <2>3. <<Above(f), Above(e)>> \in StrictSubsetOrdering(1..MaxSequence)
    BY <2>1 DEF StrictSubsetOrdering
  <2>4. QED
    BY <1>4, <1>5, <2>2, <2>3
<1>7. \A f \in S : f.seq <= e.seq
  BY <1>1, <1>6
<1>8. QED
  BY <1>7 DEF Last

\* Of the concurrent requests of a node one at most holds uncommitted rows of the
\* netlink thread (insert_envelope in sequence order).
LEMMA HeldAlone ==
    ASSUME IngestInv, OneLifeInv, NEW r \in Request, NEW q \in Request, q # r,
           NEW g \in Lifecycle(inserted[r]), NEW e \in Lifecycle(inserted[q])
    PROVE  FALSE
<1> USE IngestAssumption
<1>1. ASSUME NEW x \in Request, NEW y \in Request, y # x,
             NEW i \in Lifecycle(inserted[x]), NEW j \in Lifecycle(inserted[y]), i.seq < j.seq
      PROVE FALSE
  <2> USE DEF Lifecycle
  <2>1. i \in batch[x] /\ j \in batch[y] /\ j \notin todo[y] /\ i \notin rows
    BY <1>1 DEF IngestInv, SameSequence
  <2>2. i \in spool
    BY <1>1, <2>1 DEF OneLifeInv, InOrder
  <2>3. i \in batch[y]
    BY <1>1, <2>1, <2>2 DEF OneLifeInv, InOrder, OldestFirst
  <2>4. i.seq \in Int /\ j.seq \in Int
    BY <1>1 DEF IngestInv, SetsOK, Envelope
  <2>5. i \notin todo[y]
    BY <1>1, <2>1, <2>4 DEF OneLifeInv, InOrder
  <2>6. i \in inserted[y]
    BY <1>1, <2>1, <2>3, <2>5 DEF OneLifeInv, InOrder
  <2>7. QED
    BY <1>1, <2>6 DEF IngestInv, RowLocked, SameSequence
<1>2. g.seq \in Int /\ e.seq \in Int
  BY DEF IngestInv, SetsOK, Envelope, Lifecycle
<1>3. g.seq # e.seq
  BY DEF IngestInv, RowLocked, SameSequence, Lifecycle
<1>4. g.seq < e.seq \/ e.seq < g.seq
  BY <1>2, <1>3
<1>5. QED
  BY <1>1, <1>4

\* The transactions of a node never wait in a circle: nobody waits for the alerts row,
\* and whoever waits for a row waits for one that is younger than all its holder has
\* done (insert_envelope in sequence order).
THEOREM LocksAreFree == Spec => []NoLockCycle
<1> USE IngestAssumption
<1> DEFINE First(r, e) == e \in todo[r] /\ \A f \in todo[r] : e.seq <= f.seq
<1>1. ASSUME IngestInv, OneLifeInv, NEW r \in Request, NEW q \in Request, WaitsFor(r, q)
      PROVE  \E e \in todo[r] : First(r, e) /\ SameSequence(inserted[q], e)
  <2>1. CASE stage[r] = "alert" /\ wrote[q] # {}
    <3>1. Alerts(inserted[r]) # {} /\ Alerts(inserted[q]) # {} /\ q # r
      BY <1>1, <2>1 DEF OneLifeInv, InOrder, WaitsFor
    <3>2. \A p \in Request : Alerts(inserted[p]) \subseteq Lifecycle(inserted[p])
      BY DEF Alerts, Lifecycle
    <3>3. QED
      BY <1>1, <3>1, <3>2, HeldAlone
  <2>2. QED
    BY <1>1, <2>1 DEF WaitsFor
<1>2. IngestInv /\ SpoolKeptInv => NoLockCycle
  <2> SUFFICES ASSUME IngestInv, OneLifeInv, NEW S \in (SUBSET Request) \ {{}},
                      \A r \in S : \E q \in S : WaitsFor(r, q)
               PROVE  FALSE
    BY DEF SpoolKeptInv, NoLockCycle
  <2> DEFINE E == {e \in Envelope : \E r \in S : First(r, e)}
  <2>1. ASSUME NEW r \in S PROVE \E e \in E : First(r, e)
    <3>1. todo[r] \subseteq Envelope
      BY DEF IngestInv, SetsOK
    <3>2. QED
      BY <1>1, <3>1
  <2>2. Last(E) \in E /\ \A e \in E : e.seq <= Last(E).seq
    <3>1. E \in SUBSET Envelope /\ E # {}
      BY <2>1
    <3> HIDE DEF E
    <3>2. QED
      BY <3>1, LastOfSome
  <2>3. PICK r \in S : First(r, Last(E))
    BY <2>2
  <2>4. PICK q \in S, e \in todo[r] : First(r, e) /\ SameSequence(inserted[q], e)
    BY <1>1
  <2>5. PICK g \in inserted[q] : g.seq = e.seq
    BY <2>4 DEF SameSequence
  <2>6. PICK f \in E : First(q, f)
    BY <2>1
  <2>7. g.seq < f.seq
    <3>1. g \in batch[q] \ todo[q]
      BY <2>5 DEF IngestInv
    <3>2. QED
      BY <2>6, <3>1 DEF OneLifeInv, InOrder
  <2>8. /\ e.seq \in Int /\ f.seq \in Int /\ Last(E).seq \in Int
        /\ e.seq <= Last(E).seq /\ Last(E).seq <= e.seq /\ f.seq <= Last(E).seq
    <3>1. \A x \in Envelope : x.seq \in Int
      BY DEF Envelope
    <3>2. e \in Envelope
      BY DEF IngestInv, SetsOK
    <3>3. QED
      BY <2>2, <2>3, <2>4, <3>1, <3>2
  <2>9. QED
    BY <2>5, <2>7, <2>8
<1>3. QED
  BY <1>2, IngestInvariant, SpoolKeptInvariant, PTL

\* The high-water mark of a node is the greatest sequence it has committed, whichever
\* request commits last (record_batch_state's GREATEST).
THEOREM HighestStored == Spec => []HighestIsStored
<1> USE IngestAssumption
<1> DEFINE Counted == \A r \in Request : inserted[r] \subseteq accepted[r]
           HighestInv == Counted /\ HighestIsStored
<1>1. Init => HighestInv
  BY DEF Init, HighestIsStored, Empty
<1>2. IngestInv /\ Counted /\ [Next]_vars => Counted'
  <2> SUFFICES ASSUME IngestInv, Counted, [Next]_vars PROVE Counted'
    OBVIOUS
  <2> USE DEF IngestInv, SetsOK, node, tables, requests
  <2>1. CASE Reset \/ GiveUp \/ (\E t \in Thread : Draw(t) \/ AppendDraft(t)) \/ UNCHANGED vars
    BY <2>1 DEF Draw, AppendDraft, Reset, GiveUp, vars
  <2>2. CASE \E r \in Request : Send(r) \/ Abort(r) \/ Begin(r) \/ Receive(r)
    BY <2>2 DEF Send, Abort, Begin, Receive, Discard
  <2>3. CASE \E r \in Request : \E e \in todo[r] : Insert(r, e)
    BY <2>3 DEF Insert, IsReplay
  <2>4. CASE \E r \in Request : Materialize(r) \/ Commit(r)
    BY <2>4 DEF Materialize, Commit
  <2> QED
    BY <2>1, <2>2, <2>3, <2>4 DEF Next, Serve
<1>3. ASSUME IngestInv, HighestInv, NEW r \in Request, Commit(r) PROVE HighestIsStored'
  <2>1. /\ rows' = rows \cup inserted[r] /\ highest' = Greatest(highest, accepted[r])
        /\ inserted[r] \subseteq accepted[r] /\ accepted[r] \subseteq rows \cup inserted[r]
        /\ rows \subseteq Envelope /\ accepted[r] \subseteq Envelope
    BY <1>3 DEF Commit, IngestInv, SetsOK
  <2>2. \A e \in Envelope : e.seq \in 1..MaxSequence
    BY DEF Envelope
  <2>3. CASE accepted[r] = {}
    <3>1. rows' = rows /\ highest' = highest
      BY <2>1, <2>3 DEF Greatest
    <3>2. QED
      BY <1>3, <3>1 DEF HighestIsStored
  <2>4. CASE accepted[r] # {}
    <3>1. /\ Last(accepted[r]) \in accepted[r]
          /\ \A f \in accepted[r] : f.seq <= Last(accepted[r]).seq
      BY <2>1, <2>4, LastOfSome
    <3>2. rows' # {} /\ Last(rows') \in rows' /\ \A f \in rows' : f.seq <= Last(rows').seq
      BY <2>1, <2>4, LastOfSome
    <3>3. CASE rows = {}
      <4>1. highest = 0 /\ rows' = accepted[r]
        BY <1>3, <2>1, <3>3 DEF HighestIsStored
      <4>2. highest' = Last(accepted[r]).seq
        BY <2>1, <2>2, <2>4, <3>1, <4>1 DEF Greatest
      <4>3. QED
        BY <2>4, <4>1, <4>2 DEF HighestIsStored
    <3>4. CASE rows # {}
      <4>1. highest = Last(rows).seq /\ Last(rows) \in rows /\ \A f \in rows : f.seq <= highest
        BY <1>3, <2>1, <3>4, LastOfSome DEF HighestIsStored
      <4>2. highest' = IF Last(accepted[r]).seq <= highest THEN highest ELSE Last(accepted[r]).seq
        BY <2>1, <2>4 DEF Greatest
      <4>3. /\ \A f \in rows' : f.seq <= highest'
            /\ \E e \in rows' : e.seq = highest'
        BY <2>1, <2>2, <3>1, <4>1, <4>2
      <4>4. highest' = Last(rows').seq
        <5>1. PICK e \in rows' : e.seq = highest'
          BY <4>3
        <5>2. e.seq \in Int /\ Last(rows').seq \in Int
          BY <2>1, <2>2, <3>2
        <5>3. e.seq <= Last(rows').seq /\ Last(rows').seq <= e.seq
          BY <3>2, <4>3, <5>1
        <5>4. QED
          BY <5>1, <5>2, <5>3
      <4>5. Last(rows') = Last(rows)'
        BY DEF Last
      <4>6. QED
        BY <3>2, <4>4, <4>5 DEF HighestIsStored
    <3>5. QED
      BY <3>3, <3>4
  <2>5. QED
    BY <2>3, <2>4
<1>4. [Next]_vars => UNCHANGED <<rows, highest>> \/ \E r \in Request : Commit(r)
  BY DEF Next, Draw, AppendDraft, Reset, GiveUp, Send, Abort, Serve, Begin, Insert,
     Materialize, Receive, vars, node, tables, requests
<1>5. HighestIsStored /\ UNCHANGED <<rows, highest>> => HighestIsStored'
  BY DEF HighestIsStored
<1>6. IngestInv /\ HighestInv /\ [Next]_vars => HighestInv'
  BY <1>2, <1>3, <1>4, <1>5
<1>7. HighestInv => HighestIsStored
  OBVIOUS
<1>8. QED
  BY <1>1, <1>6, <1>7, IngestInvariant, PTL DEF Spec

-----------------------------------------------------------------------------
(* Admission.                                                                  *)

\* Holders of a permit are finitely many.
LEMMA HoldersFinite == ASSUME NEW i PROVE IsFiniteSet(Holders(i))
  BY FS_Subset, AdmissionAssumption DEF Holders, Users

\* A permit's holder count grows by at most the request that takes one, and no step
\* but TryIdentity lets it grow (try_acquire_owned).
LEMMA FewerHolders ==
    ASSUME NEW i, Holders(i)' \subseteq Holders(i), Cardinality(Holders(i)) <= PerIdentity
    PROVE Cardinality(Holders(i)') <= PerIdentity
<1>1. Cardinality(Holders(i)') <= Cardinality(Holders(i))
  BY HoldersFinite, FS_Subset
<1>2. Cardinality(Holders(i)) \in Nat /\ Cardinality(Holders(i)') \in Nat
  <2>1. IsFiniteSet(Holders(i)')
    BY HoldersFinite, FS_Subset
  <2>2. QED
    BY HoldersFinite, <2>1, FS_CardinalityType
<1>3. QED
  BY <1>1, <1>2, AdmissionAssumption

\* Requests with a semaphore have the one the map has, and its permits are kept to
\* (try_acquire, with retain on strong_count).
THEOREM AdmissionInvariant == AdmissionSpec => []AdmissionInv
<1> USE AdmissionAssumption
<1>1. AdmissionInit => AdmissionInv
  <2> SUFFICES ASSUME AdmissionInit PROVE AdmissionInv
    OBVIOUS
  <2>1. ASSUME NEW i \in Identity PROVE Holders(i) = {}
    BY DEF AdmissionInit, Holders, Users
  <2>2. QED
    BY <2>1, FS_EmptySet DEF AdmissionInit, AdmissionInv, AdmissionTypeOK
<1>2. AdmissionInv /\ [AdmissionNext]_admissionVars => AdmissionInv'
  <2> SUFFICES ASSUME AdmissionInv, [AdmissionNext]_admissionVars PROVE AdmissionInv'
    OBVIOUS
  <2> USE DEF AdmissionInv, AdmissionTypeOK
  <2>1. ASSUME NEW r \in Call, NEW i \in Identity, Lookup(r, i) PROVE AdmissionInv'
    <3>1. AdmissionTypeOK' /\ \A q \in Call : phase'[q] # "idle" => current'[q] /\ who'[q] \in identities'
      BY <2>1 DEF Lookup, Kept, Keep, StillCurrent, Users
    <3>2. ASSUME NEW j \in Identity PROVE Holders(j)' \subseteq Holders(j)
      BY <2>1, <3>2 DEF Lookup, Holders, Users, StillCurrent
    <3>3. QED
      BY <3>1, <3>2, FewerHolders
  <2>2. ASSUME NEW r \in Call, NEW i \in Identity, Refuse(r, i) PROVE AdmissionInv'
    <3>1. AdmissionTypeOK' /\ \A q \in Call : phase'[q] # "idle" => current'[q] /\ who'[q] \in identities'
      BY <2>2 DEF Refuse, Kept, Keep, StillCurrent, Users
    <3>2. ASSUME NEW j \in Identity PROVE Holders(j)' \subseteq Holders(j)
      BY <2>2, <3>2 DEF Refuse, Holders, Users, StillCurrent
    <3>3. QED
      BY <3>1, <3>2, FewerHolders
  <2>3. ASSUME NEW r \in Call, TryIdentity(r) PROVE AdmissionInv'
    <3>1. AdmissionTypeOK' /\ \A q \in Call : phase'[q] # "idle" => current'[q] /\ who'[q] \in identities'
      BY <2>3 DEF TryIdentity, Goto
    <3>2. CASE phase'[r] = "idle"
      <4>1. ASSUME NEW j \in Identity PROVE Holders(j)' \subseteq Holders(j)
        BY <2>3, <3>2, <4>1 DEF TryIdentity, Goto, Holders, Users
      <4>2. QED
        BY <3>1, <4>1, FewerHolders
    <3>3. CASE phase'[r] # "idle"
      <4>1. ~(Cardinality(Holders(who[r])) >= PerIdentity)
        BY <2>3, <3>3 DEF TryIdentity, Goto
      <4>2. Holders(who[r])' = Holders(who[r]) \cup {r} /\ r \notin Holders(who[r])
        BY <2>3, <3>3 DEF TryIdentity, Goto, Holders, Users
      <4>3. Cardinality(Holders(who[r])') = Cardinality(Holders(who[r])) + 1
        BY <4>2, HoldersFinite, FS_AddElement
      <4>4. Cardinality(Holders(who[r])) \in Nat
        BY HoldersFinite, FS_CardinalityType
      <4>5. Cardinality(Holders(who[r])') <= PerIdentity
        BY <4>1, <4>3, <4>4
      <4>6. ASSUME NEW j \in Identity, j # who[r] PROVE Holders(j)' \subseteq Holders(j)
        BY <2>3, <3>3, <4>6 DEF TryIdentity, Goto, Holders, Users
      <4>7. ASSUME NEW j \in Identity PROVE Cardinality(Holders(j)') <= PerIdentity
        <5>1. CASE j = who[r]
          <6>1. who'[r] = j
            BY <2>3, <5>1 DEF TryIdentity, Goto
          <6>2. QED
            BY <4>5, <6>1 DEF Holders, Users
        <5>2. CASE j # who[r]
          BY <4>6, <5>2, FewerHolders
        <5>3. QED
          BY <5>1, <5>2
      <4>8. QED
        BY <3>1, <4>7
    <3>4. QED
      BY <3>2, <3>3
  <2>4. ASSUME NEW r \in Call, TryGlobal(r) \/ Release(r) PROVE AdmissionInv'
    <3>1. AdmissionTypeOK' /\ \A q \in Call : phase'[q] # "idle" => current'[q] /\ who'[q] \in identities'
      BY <2>4 DEF TryGlobal, Release, Goto
    <3>2. ASSUME NEW j \in Identity PROVE Holders(j)' \subseteq Holders(j)
      BY <2>4, <3>2 DEF TryGlobal, Release, Goto, Holders, Users
    <3>3. QED
      BY <3>1, <3>2, FewerHolders
  <2>5. CASE UNCHANGED admissionVars
    BY <2>5 DEF admissionVars, Holders, Users
  <2> HIDE DEF AdmissionInv
  <2> QED
    BY <2>1, <2>2, <2>3, <2>4, <2>5 DEF AdmissionNext
<1>3. QED
  BY <1>1, <1>2, PTL DEF AdmissionSpec

\* A node never has more requests inside than its share.
THEOREM IdentityShare == AdmissionSpec => []PerIdentityBound
<1>1. AdmissionInv => PerIdentityBound
  <2> SUFFICES ASSUME AdmissionInv, NEW i \in Identity
               PROVE Cardinality({r \in Admitted : who[r] = i}) <= PerIdentity
    BY DEF PerIdentityBound
  <2>1. {r \in Admitted : who[r] = i} \subseteq Holders(i)
    BY DEF AdmissionInv, Admitted, Holders, Users
  <2>2. /\ Cardinality({r \in Admitted : who[r] = i}) <= Cardinality(Holders(i))
        /\ IsFiniteSet({r \in Admitted : who[r] = i})
    BY <2>1, HoldersFinite, FS_Subset
  <2>3. Cardinality({r \in Admitted : who[r] = i}) \in Nat /\ Cardinality(Holders(i)) \in Nat
    BY <2>2, HoldersFinite, FS_CardinalityType
  <2>4. QED
    BY <2>2, <2>3, AdmissionAssumption DEF AdmissionInv
<1>2. QED
  BY <1>1, AdmissionInvariant, PTL
=============================================================================
