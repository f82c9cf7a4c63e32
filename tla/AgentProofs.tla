----------------------------- MODULE AgentProofs -----------------------------
(***************************************************************************)
(* Proofs about the agent's alert and case stores, its code index, its      *)
(* causal graph and its renderer: about AlertLifecycle for every set of     *)
(* alerts, of process ids and of operators' commands, which run beside the  *)
(* daemon and each other; about the others for any sets of commands, files, *)
(* processes, resources and characters and any bounds.                      *)
(***************************************************************************)
EXTENDS AlertLifecycle, CaseStore, CodeIndex, CausalGraph, MdStreamer,
        FiniteSetTheorems, SequenceTheorems, WellFoundedInduction, TLAPS

-----------------------------------------------------------------------------
(* AlertLifecycle.                                                          *)

\* The daemon's and the operators' copies, the file and what was published agree, but
\* for what was saved since a copy was read (AlertStore::open, apply, set_status).
THEOREM AlertInvariant == AlertSpec => []AlertInv
<1> USE AlertAssumption DEF AlertTypeOK, Process, Record, NoAlert, process, alertHistory
<1>1. AlertInit => AlertInv
  BY DEF AlertInit, AlertInv, PublishedDurable, DaemonCopy, OperatorCopy, PublishedKnown,
         Unpublished, SavedFirst
<1>2. AlertInv /\ [AlertNext]_alertVars => AlertInv'
  <2> SUFFICES ASSUME AlertInv, [AlertNext]_alertVars PROVE AlertInv'
    OBVIOUS
  <2> USE DEF AlertInv
  <2>1. ASSUME NEW p \in ProcessId, Start(p) PROVE AlertInv'
    <3> USE <2>1 DEF Start, OpenStore
    <3>1. AlertTypeOK'
      OBVIOUS
    <3>2. PublishedDurable' /\ PublishedKnown'
      BY DEF PublishedDurable, PublishedKnown
    <3>3. DaemonCopy' /\ OperatorCopy'
      BY DEF DaemonCopy, OperatorCopy
    <3>4. Unpublished' /\ SavedFirst'
      BY DEF Unpublished, SavedFirst
    <3> HIDE DEF AlertTypeOK
    <3>5. QED
      BY <3>1, <3>2, <3>3, <3>4
  <2>2. ASSUME NEW a \in Alert, NEW event \in {"FORK", "EXEC", "EXIT"}, Apply(a, event)
        PROVE AlertInv'
    <3> USE <2>2 DEF Apply, Set
    <3>1. AlertTypeOK'
      BY DEF Desired
    <3>2. PublishedDurable'
      BY DEF PublishedDurable
    <3>3. DaemonCopy'
      BY DEF DaemonCopy, Desired, Ignored
    <3>4. OperatorCopy'
      BY DEF OperatorCopy
    <3>5. PublishedKnown' /\ Unpublished' /\ SavedFirst'
      BY DEF PublishedKnown, Unpublished, SavedFirst
    <3> HIDE DEF AlertTypeOK
    <3>6. QED
      BY <3>1, <3>2, <3>3, <3>4, <3>5
  <2>3. ASSUME NEW x \in Operator, NEW a \in Alert, NEW p \in ProcessId,
               NEW status \in {"acknowledged", "resolved", "suppressed"}, Decide(x, a, status, p)
        PROVE AlertInv'
    <3> USE <2>3 DEF Decide, OpenStore, Set
    <3>1. AlertTypeOK'
      <4> DEFINE decided == [status |-> status, count |-> file[a].count + 1]
      <4>1. decided \in Record
        OBVIOUS
      <4>2. [file EXCEPT ![a] = decided] \in [Alert -> Record]
        BY <4>1
      <4>3. mem' \in [Process -> [Alert -> Record]]
        BY <4>2
      <4>4. QED
        BY <4>3
    <3>2. PublishedDurable'
      BY DEF PublishedDurable
    <3>3. DaemonCopy'
      BY DEF DaemonCopy
    <3>4. OperatorCopy'
      <4>1. ASSUME NEW b \in Alert
            PROVE IF b = a THEN file[b].count <= mem'[x][b].count ELSE mem'[x][b] = file[b]
        OBVIOUS
      <4>2. key'[x] = a /\ file' = file
        OBVIOUS
      <4>3. \A y \in Operator \ {x} :
              /\ stage'[y] = stage[y] /\ mem'[y] = mem[y] /\ key'[y] = key[y]
              /\ unread'[y] = unread[y]
        OBVIOUS
      <4> HIDE <2>3 DEF Decide, OpenStore, Set
      <4>4. QED
        <5> SUFFICES ASSUME NEW y \in Operator, stage'[y] # "down", NEW b \in Alert \ unread'[y]
                     PROVE IF b = key'[y] THEN file'[b].count <= mem'[y][b].count
                                          ELSE mem'[y][b] = file'[b]
          BY DEF OperatorCopy
        <5>1. CASE y = x
          BY <4>1, <4>2, <5>1
        <5>2. CASE y # x
          BY <4>2, <4>3, <5>2 DEF OperatorCopy
        <5>3. QED
          BY <5>1, <5>2
    <3>5. PublishedKnown' /\ Unpublished' /\ SavedFirst'
      BY DEF PublishedKnown, Unpublished, SavedFirst
    <3> HIDE DEF AlertTypeOK
    <3>6. QED
      BY <3>1, <3>2, <3>3, <3>4, <3>5
  <2>4. ASSUME NEW x \in Process, Stop(x) \/ CreateTemp(x) \/ PersistFails(x) PROVE AlertInv'
    <3> DEFINE Goes(y) == \/ stage'[y] = stage[y]
                          \/ stage'[y] = "down"
                          \/ stage'[y] = "written" /\ stage[y] = "persist"
                          \/ stage'[y] = "idle" /\ y = "daemon" /\ stage[y] # "down"
    <3>1. /\ UNCHANGED <<file, pid, mem, key, published, ended, unread, undone, forgotten>>
          /\ stage' \in [Process -> {"down", "idle", "persist", "written", "publish"}]
          /\ \A y \in Process : Goes(y)
      <4>1. CASE Stop(x)
        BY <4>1 DEF Stop
      <4>2. CASE CreateTemp(x)
        BY <4>2 DEF CreateTemp
      <4>3. CASE PersistFails(x)
        BY <4>3 DEF PersistFails, After
      <4>4. QED
        BY <2>4, <4>1, <4>2, <4>3
    <3>2. alertTemps' \subseteq ProcessId
      BY <2>4 DEF Stop, CreateTemp, PersistFails
    <3>3. AlertTypeOK'
      <4>1. ASSUME NEW y \in Operator PROVE stage'[y] \notin {"idle", "publish"}
        <5>1. Goes(y) /\ y # "daemon"
          BY <3>1
        <5>2. stage[y] \notin {"idle", "publish"}
          OBVIOUS
        <5> HIDE DEF AlertTypeOK
        <5>3. QED
          BY <5>1, <5>2
      <4> HIDE DEF Goes
      <4>2. QED
        BY <3>1, <3>2, <4>1
    <3>4. PublishedDurable'
      BY <3>1 DEF PublishedDurable
    <3>5. DaemonCopy' /\ PublishedKnown' /\ Unpublished' /\ SavedFirst'
      BY <3>1 DEF DaemonCopy, PublishedKnown, Unpublished, SavedFirst
    <3>6. OperatorCopy'
      <4>1. ASSUME NEW y \in Operator, stage'[y] # "down" PROVE stage[y] # "down"
        BY <3>1, <4>1
      <4> HIDE DEF AlertTypeOK
      <4>2. QED
        BY <3>1, <4>1 DEF OperatorCopy
    <3> HIDE DEF AlertTypeOK
    <3>7. QED
      BY <3>3, <3>4, <3>5, <3>6
  <2>5. ASSUME NEW x \in Process, Commit(x) PROVE AlertInv'
    <3>1. AlertTypeOK'
      BY <2>5 DEF Commit, After, Saved
    <3>2. /\ stage[x] = "written" /\ file' = mem[x] /\ UNCHANGED <<mem, key, published, forgotten>>
          /\ \A y \in Process : y # x => unread'[y] = unread[y] \cup Saved(x) /\ stage'[y] = stage[y]
          /\ x = "daemon" => undone' = {} /\ ended' = ended
          /\ x # "daemon" => undone' = undone \cup unread[x] /\ ended' = ended \ {key[x]}
          /\ stage'[x] = IF x = "daemon" THEN "publish" ELSE "down"
      BY <2>5 DEF Commit, After
    <3>3. /\ key[x] \in Saved(x)
          /\ \A a \in Alert \ Saved(x) : mem[x][a] = file[a]
      BY DEF Saved
    <3>4. ASSUME x # "daemon", NEW a \in Alert \ unread[x]
          PROVE file[a].count <= mem[x][a].count
      <4>1. IF a = key[x] THEN file[a].count <= mem[x][a].count ELSE mem[x][a] = file[a]
        BY <3>2, <3>4 DEF OperatorCopy
      <4>2. file[a].count \in Nat
        OBVIOUS
      <4>3. QED
        BY <4>1, <4>2
    <3>5. PublishedDurable'
      <4>1. CASE x = "daemon"
        BY <3>2, <4>1 DEF PublishedDurable, PublishedKnown
      <4>2. ASSUME x # "daemon", NEW a \in Alert \ (undone' \cup forgotten')
            PROVE published'[a].count <= file'[a].count
        <5>1. published[a].count <= file[a].count /\ file[a].count <= mem[x][a].count
          BY <3>2, <3>4, <4>2 DEF PublishedDurable
        <5>2. published[a].count \in Nat /\ file[a].count \in Nat /\ mem[x][a].count \in Nat
          OBVIOUS
        <5>3. QED
          BY <3>2, <5>1, <5>2
      <4>3. QED
        BY <4>1, <4>2 DEF PublishedDurable
    <3>6. DaemonCopy'
      <4>1. CASE x = "daemon"
        BY <3>2, <4>1 DEF DaemonCopy
      <4>2. CASE x # "daemon"
        BY <3>2, <3>3, <4>2 DEF DaemonCopy
      <4>3. QED
        BY <4>1, <4>2
    <3>7. OperatorCopy'
      <4> SUFFICES ASSUME NEW y \in Operator, stage'[y] # "down", NEW a \in Alert \ unread'[y]
                   PROVE IF a = key'[y] THEN file'[a].count <= mem'[y][a].count
                                        ELSE mem'[y][a] = file'[a]
        BY DEF OperatorCopy
      <4>1. y # x
        BY <3>2
      <4>2. stage[y] # "down" /\ a \notin unread[y] /\ file'[a] = file[a]
        BY <3>2, <3>3, <4>1
      <4>3. QED
        BY <3>2, <4>2 DEF OperatorCopy
    <3>8. PublishedKnown'
      BY <3>2 DEF PublishedKnown
    <3>9. Unpublished'
      BY <3>2 DEF Unpublished
    <3>10. SavedFirst'
      <4>1. CASE x = "daemon"
        BY <3>2, <4>1 DEF SavedFirst
      <4>2. CASE x # "daemon"
        <5> DEFINE k == key["daemon"]
        <5>1. /\ mem["daemon"][k].count \in Nat /\ file[k].count \in Nat /\ mem[x][k].count \in Nat
              /\ k \in Alert
          OBVIOUS
        <5>2. k \notin unread[x] => file[k].count <= mem[x][k].count
          BY <3>4, <4>2, <5>1
        <5>3. QED
          BY <3>2, <4>2, <5>1, <5>2 DEF SavedFirst
      <4>3. QED
        BY <4>1, <4>2
    <3> HIDE DEF AlertTypeOK
    <3>11. QED
      BY <3>1, <3>5, <3>6, <3>7, <3>8, <3>9, <3>10
  <2>6. CASE PublishTransition
    <3> USE <2>6 DEF PublishTransition
    <3>1. AlertTypeOK'
      <4>1. key["daemon"] \in Alert /\ mem["daemon"] \in [Alert -> Record]
        OBVIOUS
      <4>2. published' \in [Alert -> Record]
        <5> HIDE DEF Record, AlertTypeOK
        <5>1. published \in [Alert -> Record]
          BY DEF AlertTypeOK
        <5>2. QED
          BY <4>1, <5>1
      <4>3. QED
        BY <4>2
    <3>2. PublishedDurable'
      BY DEF PublishedDurable, SavedFirst
    <3>3. DaemonCopy' /\ OperatorCopy'
      BY DEF DaemonCopy, OperatorCopy
    <3>4. PublishedKnown'
      <4>1. /\ \A a \in Alert : published'[a] = published[a] \/ published'[a] = mem["daemon"][a]
            /\ \A a \in Alert \ forgotten' : a \in forgotten => published'[a] = mem["daemon"][a]
        OBVIOUS
      <4>2. \A a \in Alert : mem["daemon"][a].count \in Nat
        OBVIOUS
      <4>3. mem' = mem /\ stage["daemon"] # "down"
        OBVIOUS
      <4> HIDE <2>6 DEF PublishTransition, AlertTypeOK
      <4>4. QED
        BY <4>1, <4>2, <4>3 DEF PublishedKnown
    <3>5. Unpublished' /\ SavedFirst'
      BY DEF Unpublished, SavedFirst
    <3> HIDE DEF AlertTypeOK
    <3>6. QED
      BY <3>1, <3>2, <3>3, <3>4, <3>5
  <2>7. CASE UNCHANGED alertVars
    BY <2>7 DEF alertVars, PublishedDurable, DaemonCopy, OperatorCopy, PublishedKnown,
                Unpublished, SavedFirst
  <2> HIDE DEF AlertInv, Process
  <2>8. QED
    BY <2>1, <2>2, <2>3, <2>4, <2>5, <2>6, <2>7 DEF AlertNext
<1>3. QED
  BY <1>1, <1>2, PTL DEF AlertSpec

\* A published transition survives every crash (persist before publish), unless an
\* operator's older copy of the file is saved over it.
THEOREM PublishedSurvives == AlertSpec => []PublishedDurable
<1>1. AlertInv => PublishedDurable
  BY DEF AlertInv
<1>2. QED
  BY <1>1, AlertInvariant, PTL

\* No transition is published twice (apply, record_event), but for one that was lost
\* under an operator's older copy before the daemon was started again.
THEOREM NeverRepublished == AlertSpec => PublishedOnce
<1>1. AlertInv /\ [AlertNext]_alertVars =>
        [\A a \in Alert \ forgotten :
           published'[a] # published[a] => published'[a].count > published[a].count]_alertVars
  <2> SUFFICES ASSUME AlertInv, [AlertNext]_alertVars, NEW a \in Alert \ forgotten,
                      published'[a] # published[a]
               PROVE published'[a].count > published[a].count
    OBVIOUS
  <2>1. PublishTransition
    BY DEF AlertNext, alertVars, process, Start, Apply, Decide, Stop, CreateTemp, PersistFails, Commit
  <2>2. /\ a = key["daemon"] /\ stage["daemon"] = "publish"
        /\ published'[a] = mem["daemon"][a]
    BY <2>1 DEF PublishTransition, AlertInv, AlertTypeOK
  <2>3. published[a].count < mem["daemon"][a].count
    BY <2>2 DEF AlertInv, Unpublished
  <2>4. published[a].count \in Nat /\ mem["daemon"][a].count \in Nat
    BY DEF AlertInv, AlertTypeOK, Record, Process
  <2>5. QED
    BY <2>2, <2>3, <2>4
<1>2. QED
  BY <1>1, AlertInvariant, PTL DEF AlertSpec, PublishedOnce

\* What an operator decided, beside the daemon or not, holds until an exit, the next
\* decision, or the save of a copy from before the decision (the guards of apply).
THEOREM DecisionHolds == AlertSpec => OperatorHolds
<1>1. AlertInv /\ [AlertNext]_alertVars =>
        [\A a \in Alert : DecisionOn(a) =>
           \E x \in Process : Saves(x) /\ (a \in unread[x] \/ (x \in Operator /\ key[x] = a))]_alertVars
  <2> SUFFICES ASSUME AlertInv, [AlertNext]_alertVars, NEW a \in Alert, DecisionOn(a)
               PROVE \E x \in Process :
                        Saves(x) /\ (a \in unread[x] \/ (x \in Operator /\ key[x] = a))
    OBVIOUS
  <2>1. file' # file
    BY DEF DecisionOn
  <2>2. PICK x \in Process : Commit(x)
    BY <2>1 DEF AlertNext, alertVars, Start, Apply, Decide, Stop, CreateTemp, PersistFails,
                PublishTransition
  <2>3. Saves(x)
    BY <2>2 DEF Saves, Commit, After, AlertInv, AlertTypeOK
  <2>4. mem[x][a] # file[a]
    BY <2>2 DEF DecisionOn, Commit
  <2>5. CASE x = "daemon"
    BY <2>2, <2>3, <2>4, <2>5 DEF DecisionOn, Commit, AlertInv, DaemonCopy
  <2>6. CASE x \in Operator
    BY <2>2, <2>3, <2>4, <2>6 DEF Commit, AlertInv, OperatorCopy
  <2>7. QED
    BY <2>5, <2>6 DEF Process
<1>2. QED
  BY <1>1, AlertInvariant, PTL DEF AlertSpec, OperatorHolds

-----------------------------------------------------------------------------
(* CaseStore.                                                               *)

\* The shape of a command's state; its numbers do not matter.
Shaped(r) ==
    r \in [step : {r.step}, case : {r.case}, todo : {r.todo}, total : {r.total},
           cutoff : {r.cutoff}]

RunsShaped ==
    /\ caseRun = [p \in CaseCommands |-> caseRun[p]]
    /\ \A p \in CaseCommands : Shaped(caseRun[p])

\* A case for which a save has answered Ok is in the store until the retention or an
\* operator removes it (EvidenceStore::save, enforce_retention).
THEOREM SavedIsKept == CasesSpec => []SavedKept
<1> DEFINE Inv == RunsShaped /\ SavedInv
<1> USE DEF RunsShaped, Shaped, SavedInv, Mine
<1>1. CasesInit => Inv
  BY DEF CasesInit, CaseIdle
<1>2. Inv /\ [CasesNext]_caseVars => Inv'
  <2> SUFFICES ASSUME Inv, [CasesNext]_caseVars PROVE Inv'
    OBVIOUS
  <2>1. CASE Age
    BY <2>1 DEF Age, caseFiles, ghostVars
  <2>2. ASSUME NEW c \in Cases, Delete(c) PROVE Inv'
    BY <2>2 DEF Delete
  <2>3. ASSUME NEW p \in CaseCommands, NEW bytes \in Sizes, Capture(p, bytes) PROVE Inv'
    BY <2>3 DEF Capture, CaseIdle, caseFiles, ghostVars
  <2>4. ASSUME NEW p \in CaseCommands, NEW c \in Cases, Clean(p, c) PROVE Inv'
    BY <2>4 DEF Clean, Visits, Fail, CaseIdle, ghostVars
  <2>5. ASSUME NEW p \in CaseCommands, List(p) PROVE Inv'
    BY <2>5 DEF List, CaseIdle, caseFiles, ghostVars
  <2>6. ASSUME NEW p \in CaseCommands, Prepare(p) PROVE Inv'
    BY <2>6 DEF Prepare, Visits, caseFiles, ghostVars
  <2>7. ASSUME NEW p \in CaseCommands, Cleaned(p) PROVE Inv'
    BY <2>7 DEF Cleaned, CaseGoTo, caseFiles, ghostVars
  <2>8. ASSUME NEW p \in CaseCommands, Create(p) PROVE Inv'
    BY <2>8 DEF Create, CaseGoTo, Fail, CaseIdle, ghostVars
  <2>9. ASSUME NEW p \in CaseCommands, CommitCase(p) PROVE Inv'
    BY <2>9 DEF CommitCase, Fail, CaseIdle, caseFiles
  <2>10. ASSUME NEW p \in CaseCommands, ReadDir(p) PROVE Inv'
    BY <2>10 DEF ReadDir, Visits, caseFiles, ghostVars
  <2>11. ASSUME NEW p \in CaseCommands, Read(p) PROVE Inv'
    BY <2>11 DEF Read, Fail, CaseIdle, caseFiles, ghostVars
  <2>12. ASSUME NEW p \in CaseCommands, Evict(p) PROVE Inv'
    <3> DEFINE c == Min(caseRun[p].todo)
               rest == caseRun[p].todo \ {c}
    <3>1. CASE Visits(p, "evict", rest) /\ UNCHANGED <<stored, ghostVars>>
      BY <2>12, <3>1 DEF Evict, Visits, ghostVars
    <3>2. CASE /\ stored' = stored \ {c}
               /\ caseRun' = [caseRun EXCEPT ![p].todo = rest, ![p].total = @ - size[c]]
               /\ evicted' = evicted \cup {[case |-> c, old |-> c <= caseRun[p].cutoff]}
               /\ UNCHANGED <<committed, saved, failed, deleted>>
      <4> HIDE DEF c, rest
      <4> DEFINE total == caseRun[p].total - size[c]
      <4>1. caseRun' = [caseRun EXCEPT ![p] = [caseRun[p] EXCEPT !.todo = rest, !.total = total]]
        BY <3>2
      <4> HIDE DEF total
      <4>2. RunsShaped'
        BY <4>1
      <4>3. \A q \in CaseCommands :
              caseRun'[q].step = caseRun[q].step /\ caseRun'[q].case = caseRun[q].case
        BY <4>1
      <4>4. {e.case : e \in evicted} \cup {c} \subseteq {e.case : e \in evicted'}
        <5> DEFINE new == [case |-> c, old |-> c <= caseRun[p].cutoff]
        <5>1. new.case = c /\ new \in evicted' /\ evicted \subseteq evicted'
          BY <3>2
        <5> HIDE DEF new
        <5>2. QED
          BY <5>1
      <4>5. SavedInv'
        BY <3>2, <4>3, <4>4
      <4>6. QED
        BY <4>2, <4>5
    <3>3. CASE Fail(p) /\ UNCHANGED stored
      BY <2>12, <3>3 DEF Evict, Fail, CaseIdle
    <3>4. QED
      BY <2>12, <3>1, <3>2, <3>3 DEF Evict
  <2>13. ASSUME NEW p \in CaseCommands, Finish(p) PROVE Inv'
    BY <2>13 DEF Finish, CaseIdle, caseFiles
  <2>14. ASSUME NEW p \in CaseCommands, KillCase(p) PROVE Inv'
    BY <2>14 DEF KillCase, Fail, CaseIdle, caseFiles
  <2>15. CASE UNCHANGED caseVars
    BY <2>15 DEF caseVars, caseFiles, ghostVars
  <2> HIDE DEF Inv
  <2>16. QED
    BY <2>1, <2>2, <2>3, <2>4, <2>5, <2>6, <2>7, <2>8, <2>9, <2>10, <2>11, <2>12, <2>13,
       <2>14, <2>15 DEF CasesNext
<1>3. Inv => SavedKept
  BY DEF SavedKept
<1>4. QED
  BY <1>1, <1>2, <1>3, PTL DEF CasesSpec

-----------------------------------------------------------------------------
(* The bytes of a set of cases.                                             *)

\* Induction over an interval, for a set instead of a predicate.
LEMMA UpTo ==
    ASSUME NEW N \in Nat, NEW G, 0 \in G, \A n \in 1..N : n - 1 \in G => n \in G
    PROVE \A n \in 0..N : n \in G
<1> DEFINE Bad == {n \in 0..N : n \notin G}
           T == {0..n : n \in Bad}
<1> SUFFICES ASSUME Bad # {} PROVE FALSE
  OBVIOUS
<1>1. T \subseteq FiniteSubsetsOf(0..N) /\ T # {}
  <2>1. IsFiniteSet(0..N) /\ FiniteSubsetsOf(0..N) = SUBSET (0..N)
    <3>1. 0 \in Int /\ N \in Int
      OBVIOUS
    <3>2. IsFiniteSet(0..N)
      BY <3>1, FS_Interval
    <3>3. QED
      BY <3>2, FS_FiniteSubsetsOfFinite
  <2>2. \A n \in Bad : 0..n \in SUBSET (0..N)
    OBVIOUS
  <2> HIDE DEF Bad
  <2>3. T \subseteq SUBSET (0..N) /\ T # {}
    BY <2>2, Zenon
  <2>4. QED
    BY <2>1, <2>3
<1>2. PICK t \in T : \A u \in T : <<u, t>> \notin StrictSubsetOrdering(0..N)
  <2> HIDE DEF T
  <2>1. QED
    BY <1>1, WFMin, FS_StrictSubsetOrderingWellFounded
<1>3. PICK n \in Bad : t = 0..n
  BY <1>2
<1>4. n \in 1..N /\ n - 1 \in 0..N /\ n \notin G
  BY <1>3
<1>5. n - 1 \in Bad
  BY <1>4
<1>6. <<0..(n - 1), 0..n>> \in StrictSubsetOrdering(0..N)
  <2>1. 0..(n - 1) \subseteq 0..n /\ n \in 0..n /\ n \notin 0..(n - 1) /\ 0..n \subseteq 0..N
    BY <1>4
  <2>2. QED
    BY <2>1 DEF StrictSubsetOrdering
<1>7. QED
  BY <1>2, <1>3, <1>5, <1>6

\* A running total over the first cases of S.
Totals(g, w, S, N) ==
    /\ g \in [0..N -> Nat] /\ g[0] = 0
    /\ \A n \in 1..N : g[n] = g[n - 1] + (IF n \in S THEN w[n] ELSE 0)

LEMMA TotalsExist ==
    ASSUME NEW w \in [Cases -> Nat], NEW S
    PROVE \E g : Totals(g, w, S, MaxCases)
<1> USE CaseStoreAssumption DEF Cases
<1> DEFINE G == {N \in 0..MaxCases : \E g : Totals(g, w, S, N)}
<1>1. 0 \in G
  <2>1. Totals([n \in 0..0 |-> 0], w, S, 0)
    BY DEF Totals
  <2>2. QED
    BY <2>1
<1>2. ASSUME NEW N \in 1..MaxCases, N - 1 \in G PROVE N \in G
  <2>1. PICK g : Totals(g, w, S, N - 1)
    BY <1>2
  <2> DEFINE last == g[N - 1] + (IF N \in S THEN w[N] ELSE 0)
             h == [n \in 0..N |-> IF n = N THEN last ELSE g[n]]
  <2>2. N - 1 \in Nat /\ N \in Nat /\ g \in [0..(N - 1) -> Nat] /\ g[N - 1] \in Nat /\ w[N] \in Nat
    BY <2>1 DEF Totals
  <2>3. last \in Nat
    BY <2>2
  <2>4. h \in [0..N -> Nat] /\ h[0] = 0
    <3> HIDE DEF last
    <3>1. \A n \in 0..N : n # N => n \in 0..(N - 1)
      OBVIOUS
    <3>2. QED
      BY <2>1, <2>2, <2>3, <3>1 DEF Totals
  <2>5. ASSUME NEW n \in 1..N PROVE h[n] = h[n - 1] + (IF n \in S THEN w[n] ELSE 0)
    <3>1. n - 1 \in 0..N /\ n - 1 # N /\ h[n - 1] = g[n - 1]
      OBVIOUS
    <3>2. CASE n = N
      BY <3>1, <3>2
    <3>3. CASE n # N
      <4>1. n \in 1..(N - 1) /\ h[n] = g[n]
        BY <3>3
      <4>2. QED
        BY <2>1, <3>1, <4>1 DEF Totals
    <3>4. QED
      BY <3>2, <3>3
  <2> HIDE DEF h
  <2>6. Totals(h, w, S, N)
    BY <2>4, <2>5 DEF Totals
  <2>7. QED
    BY <2>6
<1> HIDE DEF G
<1>3. \A N \in 0..MaxCases : N \in G
  BY <1>1, <1>2, UpTo
<1>4. MaxCases \in G
  BY <1>3
<1>5. QED
  BY <1>4 DEF G

\* SizeOf, for any sizes.
SumOf(w, S) ==
    LET sum[n \in 0..MaxCases] ==
          IF n = 0 THEN 0 ELSE sum[n - 1] + (IF n \in S THEN w[n] ELSE 0)
    IN sum[MaxCases]

LEMMA SumIsTotal ==
    ASSUME NEW w \in [Cases -> Nat], NEW S
    PROVE \E g : Totals(g, w, S, MaxCases) /\ SumOf(w, S) = g[MaxCases]
<1> USE CaseStoreAssumption DEF Cases
<1> DEFINE Sums(g) == g = [n \in 0..MaxCases |->
                             IF n = 0 THEN 0 ELSE g[n - 1] + (IF n \in S THEN w[n] ELSE 0)]
           sum == CHOOSE g : Sums(g)
<1>1. \A g : Totals(g, w, S, MaxCases) => Sums(g)
  BY DEF Totals
<1>2. Sums(sum)
  <2> HIDE DEF Sums
  <2>1. QED
    BY <1>1, TotalsExist
<1>3. SumOf(w, S) = sum[MaxCases]
  BY DEF SumOf
<1>4. Totals(sum, w, S, MaxCases)
  <2> HIDE DEF sum
  <2> DEFINE G == {n \in 0..MaxCases : sum[n] \in Nat}
  <2>1. sum[0] = 0 /\ \A n \in 1..MaxCases : sum[n] = sum[n - 1] + (IF n \in S THEN w[n] ELSE 0)
    BY <1>2
  <2>2. 0 \in G
    BY <2>1
  <2>3. ASSUME NEW n \in 1..MaxCases, n - 1 \in G PROVE n \in G
    <3>1. n \in 0..MaxCases /\ sum[n - 1] \in Nat /\ w[n] \in Nat
      BY <2>3
    <3>2. (IF n \in S THEN w[n] ELSE 0) \in Nat
      BY <3>1
    <3>3. sum[n] = sum[n - 1] + (IF n \in S THEN w[n] ELSE 0)
      BY <2>1, Zenon
    <3>4. \A x, y \in Nat : x + y \in Nat
      OBVIOUS
    <3>5. sum[n] \in Nat
      BY <3>1, <3>2, <3>3, <3>4, Zenon
    <3>6. QED
      BY <3>1, <3>5
  <2>4. \A n \in 0..MaxCases : n \in G
    <3> HIDE DEF G
    <3>1. QED
      BY <2>2, <2>3, UpTo
  <2>5. sum \in [0..MaxCases -> Nat]
    BY <1>2, <2>4
  <2>6. QED
    BY <2>1, <2>5 DEF Totals
<1>5. QED
  BY <1>3, <1>4

LEMMA SumType ==
    ASSUME NEW w \in [Cases -> Nat], NEW S
    PROVE SumOf(w, S) \in Nat
BY SumIsTotal, CaseStoreAssumption DEF Totals

\* More cases, or larger ones, are not less.
LEMMA SumMonotone ==
    ASSUME NEW v \in [Cases -> Nat], NEW w \in [Cases -> Nat], NEW S, NEW T, S \subseteq T,
           \A n \in S \cap Cases : v[n] <= w[n]
    PROVE SumOf(v, S) <= SumOf(w, T)
<1> USE CaseStoreAssumption DEF Cases
<1>1. PICK g : Totals(g, v, S, MaxCases) /\ SumOf(v, S) = g[MaxCases]
  BY SumIsTotal
<1>2. PICK h : Totals(h, w, T, MaxCases) /\ SumOf(w, T) = h[MaxCases]
  BY SumIsTotal
<1> DEFINE G == {n \in 0..MaxCases : g[n] <= h[n]}
<1>3. 0 \in G
  BY <1>1, <1>2 DEF Totals
<1>4. ASSUME NEW n \in 1..MaxCases, n - 1 \in G PROVE n \in G
  <2>1. n \in 0..MaxCases /\ n - 1 \in 0..MaxCases /\ g[n - 1] <= h[n - 1] /\ v[n] \in Nat /\ w[n] \in Nat
    BY <1>4
  <2>2. g[n - 1] \in Nat /\ h[n - 1] \in Nat
    BY <1>1, <1>2, <2>1 DEF Totals
  <2>3. /\ g[n] = g[n - 1] + (IF n \in S THEN v[n] ELSE 0)
        /\ h[n] = h[n - 1] + (IF n \in T THEN w[n] ELSE 0)
    BY <1>1, <1>2 DEF Totals
  <2>4. n \in S => n \in T /\ v[n] <= w[n]
    OBVIOUS
  <2>5. g[n] <= h[n]
    BY <2>1, <2>2, <2>3, <2>4
  <2>6. QED
    BY <2>1, <2>5
<1>5. \A n \in 0..MaxCases : n \in G
  <2> HIDE DEF G
  <2>1. QED
    BY <1>3, <1>4, UpTo
<1>6. QED
  BY <1>1, <1>2, <1>5

\* The size depends on the sizes of these cases alone.
LEMMA SumAgree ==
    ASSUME NEW v \in [Cases -> Nat], NEW w \in [Cases -> Nat], NEW S,
           \A n \in S \cap Cases : v[n] = w[n]
    PROVE SumOf(v, S) = SumOf(w, S)
<1>1. \A n \in S \cap Cases : v[n] <= w[n] /\ w[n] <= v[n]
  OBVIOUS
<1>2. SumOf(v, S) <= SumOf(w, S) /\ SumOf(w, S) <= SumOf(v, S)
  BY <1>1, SumMonotone
<1>3. SumOf(v, S) \in Nat /\ SumOf(w, S) \in Nat
  BY SumType
<1>4. QED
  BY <1>2, <1>3

LEMMA SumEmpty ==
    ASSUME NEW w \in [Cases -> Nat]
    PROVE SumOf(w, {}) = 0
<1> USE CaseStoreAssumption DEF Cases
<1>1. PICK g : Totals(g, w, {}, MaxCases) /\ SumOf(w, {}) = g[MaxCases]
  BY SumIsTotal
<1> DEFINE G == {n \in 0..MaxCases : g[n] = 0}
<1>2. 0 \in G
  BY <1>1 DEF Totals
<1>3. ASSUME NEW n \in 1..MaxCases, n - 1 \in G PROVE n \in G
  BY <1>1, <1>3 DEF Totals
<1>4. \A n \in 0..MaxCases : n \in G
  <2> HIDE DEF G
  <2>1. QED
    BY <1>2, <1>3, UpTo
<1>5. QED
  BY <1>1, <1>4

\* Without one of its cases, a set is smaller by that case.
LEMMA SumRemove ==
    ASSUME NEW w \in [Cases -> Nat], NEW S, NEW x \in S \cap Cases
    PROVE SumOf(w, S \ {x}) = SumOf(w, S) - w[x]
<1> USE CaseStoreAssumption DEF Cases
<1> DEFINE R == S \ {x}
<1>1. PICK g : Totals(g, w, R, MaxCases) /\ SumOf(w, R) = g[MaxCases]
  BY SumIsTotal
<1>2. PICK h : Totals(h, w, S, MaxCases) /\ SumOf(w, S) = h[MaxCases]
  BY SumIsTotal
<1> DEFINE G == {n \in 0..MaxCases : h[n] = g[n] + (IF n < x THEN 0 ELSE w[x])}
<1>3. 0 \in G
  BY <1>1, <1>2 DEF Totals
<1>4. ASSUME NEW n \in 1..MaxCases, n - 1 \in G PROVE n \in G
  <2>1. /\ n \in 0..MaxCases /\ n - 1 \in 0..MaxCases /\ w[n] \in Nat /\ w[x] \in Nat /\ x \in 1..MaxCases
        /\ h[n - 1] = g[n - 1] + (IF n - 1 < x THEN 0 ELSE w[x])
    BY <1>4
  <2>2. g[n - 1] \in Nat /\ h[n - 1] \in Nat /\ g[n] \in Nat
    BY <1>1, <1>2, <2>1 DEF Totals
  <2>3. /\ g[n] = g[n - 1] + (IF n \in R THEN w[n] ELSE 0)
        /\ h[n] = h[n - 1] + (IF n \in S THEN w[n] ELSE 0)
    BY <1>1, <1>2 DEF Totals
  <2>4. (n \in R <=> n \in S /\ n # x) /\ x \in S
    OBVIOUS
  <2>5. h[n] = g[n] + (IF n < x THEN 0 ELSE w[x])
    <3>1. CASE n = x
      BY <2>1, <2>2, <2>3, <2>4, <3>1
    <3>2. CASE n # x
      <4>1. (n - 1 < x <=> n < x) /\ (n \in R <=> n \in S)
        BY <2>1, <2>4, <3>2
      <4>2. QED
        BY <2>1, <2>2, <2>3, <4>1
    <3>3. QED
      BY <3>1, <3>2
  <2>6. QED
    BY <2>1, <2>5
<1>5. \A n \in 0..MaxCases : n \in G
  <2> HIDE DEF G
  <2>1. QED
    BY <1>3, <1>4, UpTo
<1>6. SumOf(w, S) = SumOf(w, R) + w[x]
  BY <1>1, <1>2, <1>5
<1>7. SumOf(w, S) \in Nat /\ SumOf(w, R) \in Nat /\ w[x] \in Nat
  BY SumType
<1>8. QED
  BY <1>6, <1>7

\* The oldest of some cases.
LEMMA OldestOfSome ==
    ASSUME NEW S, S \subseteq Cases, S # {}
    PROVE Min(S) \in S /\ \A c \in S : Min(S) <= c
<1> USE CaseStoreAssumption DEF Cases
<1>1. \E x \in S : \A y \in S : x <= y
  <2> SUFFICES ASSUME \A x \in S : \E y \in S : ~(x <= y) PROVE FALSE
    OBVIOUS
  <2> DEFINE G == {n \in 0..MaxCases : \A y \in S : n < y}
  <2>1. 0 \in G
    OBVIOUS
  <2>2. ASSUME NEW n \in 1..MaxCases, n - 1 \in G PROVE n \in G
    <3>1. \A y \in S : n <= y
      BY <2>2
    <3>2. n \notin S
      BY <3>1
    <3>3. QED
      BY <3>1, <3>2
  <2>3. \A n \in 0..MaxCases : n \in G
    <3> HIDE DEF G
    <3>1. QED
      BY <2>1, <2>2, UpTo
  <2>4. \A y \in S : MaxCases < y
    BY <2>3
  <2>5. PICK y \in S : TRUE
    OBVIOUS
  <2>6. y \in 1..MaxCases /\ MaxCases < y
    BY <2>4, <2>5
  <2>7. QED
    BY <2>6
<1>2. QED
  BY <1>1 DEF Min

LEMMA SizeIsSum == \A S : SizeOf(S) = SumOf(size, S)
BY DEF SizeOf, SumOf

LEMMA NextSizeIsSum == \A S : SizeOf(S)' = SumOf(size', S)
BY DEF SizeOf, SumOf

LEMMA SizesAreNat == [Cases -> Sizes \cup {0}] \subseteq [Cases -> Nat]
<1>1. Sizes \cup {0} \subseteq Nat
  BY CaseStoreAssumption
<1>2. QED
  BY <1>1

\* A step that stores nothing keeps the invariant, if it keeps it for the commands it
\* moves and evicts only what must go.
LEMMA RetentionStep ==
    ASSUME CasesTypeOK, CasesTypeOK', RetentionInv,
           stored' \subseteq stored, committed' = committed, failed \subseteq failed',
           captured <= captured', \A c \in committed : size'[c] = size[c],
           \A q \in CaseCommands :
             \/ caseRun'[q] = caseRun[q]
             \/ Counted(q)' /\ (Covers(q) => Covers(q)' \/ failed' # {} \/ SizeOf(stored)' <= Limit),
           \A e \in evicted' : e \in evicted \/ (~e.old => SizeOf({c \in committed : c >= e.case}) > Limit)
    PROVE RetentionInv'
<1> USE CaseStoreAssumption
<1>1. size \in [Cases -> Nat] /\ size' \in [Cases -> Nat] /\ captured \in Nat /\ captured' \in 0..MaxCases
  <2>1. size \in [Cases -> Nat] /\ size' \in [Cases -> Nat]
    BY SizesAreNat DEF CasesTypeOK
  <2>2. captured \in Nat /\ captured' \in 0..MaxCases
    BY DEF CasesTypeOK
  <2>3. QED
    BY <2>1, <2>2
<1>2. \A S : S \subseteq committed => SumOf(size', S) = SumOf(size, S)
  BY <1>1, SumAgree
<1>3. /\ stored \subseteq committed /\ committed \subseteq 1..captured
      /\ \A q \in CaseCommands : Counted(q)
      /\ \A e \in evicted : ~e.old => SizeOf({c \in committed : c >= e.case}) > Limit
      /\ failed = {} => SizeOf(stored) <= Limit \/ \E q \in CaseCommands : Covers(q)
  BY DEF RetentionInv
<1>4. stored' \subseteq committed' /\ committed' \subseteq 1..captured'
  BY <1>1, <1>3
<1>5. ASSUME NEW q \in CaseCommands, caseRun'[q] = caseRun[q], NEW kept \in SUBSET committed, Counts(q, kept)
      PROVE Counts(q, kept)'
  <2>1. SizeOf(kept)' = SizeOf(kept)
    BY <1>2, SizeIsSum, NextSizeIsSum
  <2>2. QED
    BY <1>5, <2>1 DEF Counts
<1>6. ASSUME NEW q \in CaseCommands PROVE Counted(q)'
  <2>1. CASE caseRun'[q] = caseRun[q]
    <3>1. Counted(q)
      BY <1>3
    <3>2. Mine(q)' = Mine(q) /\ Mine(q) \in 0..captured'
      BY <1>1, <2>1, <3>1 DEF Mine, Counted
    <3>3. QED
      BY <1>5, <2>1, <3>1, <3>2 DEF Counted
  <2>2. QED
    BY <2>1
<1>7. ASSUME NEW q \in CaseCommands, Covers(q), caseRun'[q] = caseRun[q] PROVE Covers(q)'
  BY <1>5, <1>7 DEF Covers, Mine
<1>8. ASSUME NEW e \in evicted', ~e.old PROVE SizeOf({c \in committed : c >= e.case})' > Limit
  <2> DEFINE S == {c \in committed : c >= e.case}
  <2>1. SizeOf(S) > Limit
    BY <1>3, <1>8
  <2>2. SumOf(size', S) = SizeOf(S)
    BY <1>2, SizeIsSum
  <2>3. SizeOf({c \in committed : c >= e.case})' = SumOf(size', {c \in committed' : c >= e.case})
    BY DEF SizeOf, SumOf
  <2>4. QED
    BY <2>1, <2>2, <2>3
<1>9. ASSUME SizeOf(stored) <= Limit PROVE SizeOf(stored)' <= Limit
  <2>1. SizeOf(stored)' = SumOf(size', stored')
    BY DEF SizeOf, SumOf
  <2>2. SumOf(size', stored') <= SumOf(size', stored)
    BY <1>1, SumMonotone
  <2>3. SumOf(size', stored) = SizeOf(stored)
    BY <1>2, <1>3, SizeIsSum
  <2>4. SumOf(size', stored') \in Nat /\ SizeOf(stored) \in Nat
    BY <1>1, <2>3, SumType
  <2>5. QED
    BY <1>9, <2>1, <2>2, <2>3, <2>4
<1>10. failed' = {} => SizeOf(stored)' <= Limit \/ \E q \in CaseCommands : Covers(q)'
  <2> SUFFICES ASSUME failed' = {} PROVE SizeOf(stored)' <= Limit \/ \E q \in CaseCommands : Covers(q)'
    OBVIOUS
  <2>1. CASE SizeOf(stored) <= Limit
    BY <1>9, <2>1
  <2>2. ASSUME NEW q \in CaseCommands, Covers(q) PROVE SizeOf(stored)' <= Limit \/ Covers(q)'
    BY <1>7, <2>2
  <2>3. QED
    BY <1>3, <2>1, <2>2
<1>11. QED
  BY <1>4, <1>6, <1>8, <1>10 DEF RetentionInv

Steps == {"idle", "prepare", "clean", "create", "commit", "list", "read", "evict"}
RunType == [step : Steps, case : 0..MaxCases, todo : SUBSET Cases, total : Nat, cutoff : 0..MaxCases]

\* The run of a command that ends, and what an error leaves behind.
LEMMA FailTypes ==
    ASSUME CasesTypeOK, NEW p \in CaseCommands, Fail(p)
    PROVE caseRun' \in [CaseCommands -> RunType] /\ failed' \subseteq Cases
<1> USE CaseStoreAssumption
<1>1. caseRun \in [CaseCommands -> RunType] /\ failed \subseteq Cases
  BY DEF CasesTypeOK, RunType, Steps
<1>2. CaseIdle \in RunType
  BY DEF RunType, Steps, CaseIdle
<1>3. caseRun[p].case \in 0..MaxCases
  BY <1>1 DEF RunType
<1>4. {caseRun[p].case} \ {0} \subseteq Cases
  BY <1>3 DEF Cases
<1>5. QED
  BY <1>1, <1>2, <1>4 DEF Fail

\* A command that saves a case has one.
LEMMA SavesCase ==
    ASSUME CasesTypeOK, RetentionInv, NEW p \in CaseCommands,
           caseRun[p].step \in {"create", "commit", "evict"}
    PROVE Mine(p) \in Cases /\ Mine(p) \in 1..captured
<1>1. Counted(p)
  BY DEF RetentionInv
<1>2. Mine(p) \in 0..captured /\ Mine(p) # 0 /\ captured \in 0..MaxCases
  BY <1>1 DEF Counted, CasesTypeOK
<1>3. QED
  BY <1>2, CaseStoreAssumption DEF Cases

\* The files, the commands and what they have counted keep their types.
LEMMA CasesTypeStep == CasesTypeOK /\ RetentionInv /\ [CasesNext]_caseVars => CasesTypeOK'
<1> SUFFICES ASSUME CasesTypeOK, RetentionInv, [CasesNext]_caseVars PROVE CasesTypeOK'
  OBVIOUS
<1> USE CaseStoreAssumption
<1>1. /\ stored \subseteq Cases /\ caseTemps \subseteq Cases
      /\ size \in [Cases -> Sizes \cup {0}]
      /\ captured \in 0..MaxCases /\ expired \in 0..captured
      /\ caseRun \in [CaseCommands -> RunType]
      /\ caseCrashes \in 0..MaxCaseCrashes
      /\ committed \subseteq Cases /\ saved \subseteq Cases /\ failed \subseteq Cases
      /\ deleted \subseteq Cases /\ evicted \subseteq [case : Cases, old : BOOLEAN]
  BY DEF CasesTypeOK, RunType, Steps
<1>2. ASSUME /\ stored' \subseteq Cases /\ caseTemps' \subseteq Cases
             /\ size' \in [Cases -> Sizes \cup {0}]
             /\ captured' \in 0..MaxCases /\ expired' \in 0..captured'
             /\ caseRun' \in [CaseCommands -> RunType]
             /\ caseCrashes' \in 0..MaxCaseCrashes
             /\ committed' \subseteq Cases /\ saved' \subseteq Cases /\ failed' \subseteq Cases
             /\ deleted' \subseteq Cases /\ evicted' \subseteq [case : Cases, old : BOOLEAN]
      PROVE CasesTypeOK'
  BY <1>2 DEF CasesTypeOK, RunType, Steps
<1>3. CaseIdle \in RunType
  BY DEF RunType, Steps, CaseIdle
<1> USE DEF caseFiles, ghostVars
<1>4. CASE Age
  <2>1. expired + 1 \in 0..captured
    BY <1>1, <1>4 DEF Age
  <2>2. QED
    BY <1>1, <1>2, <1>4, <2>1 DEF Age
<1>5. ASSUME NEW c \in Cases, Delete(c) PROVE CasesTypeOK'
  BY <1>1, <1>2, <1>5 DEF Delete
<1>6. ASSUME NEW p \in CaseCommands, NEW bytes \in Sizes, Capture(p, bytes) PROVE CasesTypeOK'
  <2> DEFINE next == [CaseIdle EXCEPT !.step = "prepare", !.case = captured + 1]
  <2>1. captured + 1 \in 0..MaxCases /\ expired \in 0..(captured + 1)
    BY <1>1, <1>6 DEF Capture
  <2>2. next \in RunType
    <3>1. \A r \in RunType : \A k \in 0..MaxCases :
            [r EXCEPT !.step = "prepare", !.case = k] \in RunType
      BY DEF RunType, Steps
    <3>2. QED
      BY <1>3, <2>1, <3>1
  <2>3. /\ caseRun' = [caseRun EXCEPT ![p] = next] /\ size' = [size EXCEPT ![captured + 1] = bytes]
        /\ captured' = captured + 1
        /\ UNCHANGED <<stored, caseTemps, expired, caseCrashes, committed, saved, failed, deleted, evicted>>
    BY <1>6 DEF Capture
  <2> HIDE DEF next
  <2>4. caseRun' \in [CaseCommands -> RunType] /\ size' \in [Cases -> Sizes \cup {0}]
    BY <1>1, <2>2, <2>3
  <2>5. QED
    BY <1>1, <1>2, <2>1, <2>3, <2>4
<1>7. ASSUME NEW p \in CaseCommands, NEW c \in Cases, Clean(p, c) PROVE CasesTypeOK'
  <2>1. CASE c \in caseTemps
    <3>1. caseRun' \in [CaseCommands -> RunType]
      BY <1>1, <1>7, <2>1 DEF Clean, Visits, RunType, Steps
    <3>2. QED
      BY <1>1, <1>2, <1>7, <2>1, <3>1 DEF Clean
  <2>2. CASE c \notin caseTemps
    <3>1. Fail(p)
      BY <1>7, <2>2 DEF Clean
    <3>2. QED
      BY <1>1, <1>2, <1>7, <3>1, FailTypes DEF Clean, Fail
  <2>3. QED
    BY <2>1, <2>2
<1>8. ASSUME NEW p \in CaseCommands, List(p) \/ Prepare(p) \/ Cleaned(p) \/ ReadDir(p) PROVE CasesTypeOK'
  <2>1. caseRun' \in [CaseCommands -> RunType]
    BY <1>1, <1>8 DEF List, Prepare, Cleaned, ReadDir, Visits, CaseGoTo, RunType, Steps, CaseIdle
  <2>2. QED
    BY <1>1, <1>2, <1>8, <2>1 DEF List, Prepare, Cleaned, ReadDir
<1>9. ASSUME NEW p \in CaseCommands, Create(p) PROVE CasesTypeOK'
  <2>1. Mine(p) \in Cases
    BY <1>9, SavesCase DEF Create
  <2>2. CASE CaseGoTo(p, "commit") /\ UNCHANGED ghostVars
    <3>1. caseRun' \in [CaseCommands -> RunType]
      BY <1>1, <2>2 DEF CaseGoTo, RunType, Steps
    <3>2. QED
      BY <1>1, <1>2, <1>9, <2>1, <2>2, <3>1 DEF Create
  <2>3. CASE Fail(p)
    BY <1>1, <1>2, <1>9, <2>1, <2>3, FailTypes DEF Create, Fail
  <2>4. QED
    BY <1>9, <2>2, <2>3 DEF Create
<1>10. ASSUME NEW p \in CaseCommands, CommitCase(p) PROVE CasesTypeOK'
  <2>1. Mine(p) \in Cases
    BY <1>10, SavesCase DEF CommitCase
  <2>2. CASE Mine(p) \in caseTemps
    <3>1. expired \in 0..MaxCases
      BY <1>1
    <3>2. caseRun' \in [CaseCommands -> RunType]
      BY <1>1, <1>10, <2>2, <3>1 DEF CommitCase, RunType, Steps
    <3>3. QED
      BY <1>1, <1>2, <1>10, <2>1, <2>2, <3>2 DEF CommitCase
  <2>3. CASE Mine(p) \notin caseTemps
    <3>1. Fail(p)
      BY <1>10, <2>3 DEF CommitCase
    <3>2. QED
      BY <1>1, <1>2, <1>10, <2>3, <3>1, FailTypes DEF CommitCase, Fail
  <2>4. QED
    BY <2>2, <2>3
<1>11. ASSUME NEW p \in CaseCommands, Read(p) PROVE CasesTypeOK'
  <2>1. SizeOf(caseRun[p].todo) \in Nat
    BY <1>1, SizeIsSum, SumType, SizesAreNat
  <2>2. CASE Fail(p)
    BY <1>1, <1>2, <1>11, <2>2, FailTypes DEF Read, Fail
  <2>3. CASE ~Fail(p)
    <3>1. caseRun' = [caseRun EXCEPT ![p] = CaseIdle]
          \/ caseRun' = [caseRun EXCEPT ![p].step = "evict", ![p].total = SizeOf(caseRun[p].todo)]
      BY <1>11, <2>3 DEF Read
    <3>2. caseRun' \in [CaseCommands -> RunType]
      BY <1>1, <1>3, <2>1, <3>1 DEF RunType, Steps
    <3>3. QED
      BY <1>1, <1>2, <1>11, <2>3, <3>2 DEF Read
  <2>4. QED
    BY <2>2, <2>3
<1>12. ASSUME NEW p \in CaseCommands, Evict(p) PROVE CasesTypeOK'
  <2> DEFINE c == Min(caseRun[p].todo)
             rest == caseRun[p].todo \ {c}
             left == caseRun[p].total - size[c]
  <2>1. caseRun[p].todo \subseteq Cases /\ c \in Cases /\ c \in caseRun[p].todo
    <3>1. caseRun[p].todo \subseteq Cases /\ caseRun[p].todo # {}
      BY <1>1, <1>12 DEF Evict, RunType
    <3>2. QED
      BY <3>1, OldestOfSome
  <2>2. left \in Nat
    <3>1. PICK kept \in SUBSET committed : Counts(p, kept)
      BY <1>12 DEF Evict, RetentionInv, Counted
    <3>2. c \in kept \cap Cases /\ caseRun[p].total = SizeOf(kept)
      BY <2>1, <3>1 DEF Counts
    <3>3. size \in [Cases -> Nat]
      BY <1>1, SizesAreNat
    <3>4. SumOf(size, kept \ {c}) = SumOf(size, kept) - size[c] /\ SumOf(size, kept \ {c}) \in Nat
      <4> HIDE DEF c
      <4>1. QED
        BY <3>2, <3>3, SumRemove, SumType
    <3>5. QED
      BY <3>2, <3>4, SizeIsSum
  <2>3. CASE Visits(p, "evict", rest) /\ UNCHANGED <<stored, ghostVars>>
    <3>1. caseRun' \in [CaseCommands -> RunType]
      <4> HIDE DEF c
      <4>1. QED
        BY <1>1, <2>1, <2>3 DEF Visits, RunType, Steps
    <3>2. QED
      BY <1>1, <1>2, <1>12, <2>3, <3>1 DEF Evict
  <2>4. CASE /\ stored' = stored \ {c}
             /\ caseRun' = [caseRun EXCEPT ![p].todo = rest, ![p].total = @ - size[c]]
             /\ evicted' = evicted \cup {[case |-> c, old |-> c <= caseRun[p].cutoff]}
             /\ UNCHANGED <<committed, saved, failed, deleted>>
    <3>1. caseRun' = [caseRun EXCEPT ![p] = [caseRun[p] EXCEPT !.todo = rest, !.total = left]]
      BY <2>4
    <3>2. [caseRun[p] EXCEPT !.todo = rest, !.total = left] \in RunType
      <4> HIDE DEF left, c
      <4>1. QED
        BY <1>1, <2>1, <2>2 DEF RunType
    <3>3. caseRun' \in [CaseCommands -> RunType]
      <4> HIDE DEF rest, left
      <4>1. QED
        BY <1>1, <3>1, <3>2
    <3>4. evicted' \subseteq [case : Cases, old : BOOLEAN]
      <4>1. [case |-> c, old |-> c <= caseRun[p].cutoff] \in [case : Cases, old : BOOLEAN]
        <5> HIDE DEF c
        <5>1. QED
          BY <2>1
      <4>2. QED
        BY <1>1, <2>4, <4>1
    <3>5. QED
      BY <1>1, <1>2, <1>12, <2>4, <3>3, <3>4 DEF Evict
  <2>5. CASE Fail(p) /\ UNCHANGED stored
    BY <1>1, <1>2, <1>12, <2>5, FailTypes DEF Evict, Fail
  <2>6. QED
    BY <1>12, <2>3, <2>4, <2>5 DEF Evict
<1>13. ASSUME NEW p \in CaseCommands, Finish(p) PROVE CasesTypeOK'
  <2>1. Mine(p) \in Cases
    BY <1>13, SavesCase DEF Finish
  <2>2. caseRun' \in [CaseCommands -> RunType]
    BY <1>1, <1>3, <1>13 DEF Finish
  <2>3. QED
    BY <1>1, <1>2, <1>13, <2>1, <2>2 DEF Finish
<1>14. ASSUME NEW p \in CaseCommands, KillCase(p) PROVE CasesTypeOK'
  <2>1. caseCrashes' \in 0..MaxCaseCrashes
    BY <1>1, <1>14 DEF KillCase
  <2>2. QED
    BY <1>1, <1>2, <1>14, <2>1, FailTypes DEF KillCase, Fail
<1>15. CASE UNCHANGED caseVars
  BY <1>1, <1>2, <1>15 DEF caseVars
<1> QED
  BY <1>4, <1>5, <1>6, <1>7, <1>8, <1>9, <1>10, <1>11, <1>12, <1>13, <1>14, <1>15 DEF CasesNext

\* A command that fails has failed for the case it was to make room after.
LEMMA FailStep ==
    ASSUME CasesTypeOK, CasesTypeOK', RetentionInv, NEW p \in CaseCommands, Fail(p),
           UNCHANGED <<stored, size, captured>>
    PROVE RetentionInv'
<1> USE CaseStoreAssumption
<1>1. /\ \A q \in CaseCommands : q # p => caseRun'[q] = caseRun[q]
      /\ caseRun'[p] = CaseIdle /\ failed' = failed \cup ({Mine(p)} \ {0})
      /\ UNCHANGED <<committed, evicted>>
  BY DEF Fail, CasesTypeOK, Mine
<1>2. captured \in Nat
  BY DEF CasesTypeOK
<1>3. Counted(p)'
  BY <1>1, <1>2 DEF Counted, Mine, CaseIdle
<1>4. Covers(p) => failed' # {}
  <2>1. committed \subseteq 1..captured
    BY DEF RetentionInv
  <2>2. Covers(p) => Mine(p) # 0
    BY <2>1 DEF Covers
  <2>3. QED
    BY <1>1, <2>2
<1>5. QED
  <2>1. \A q \in CaseCommands :
          \/ caseRun'[q] = caseRun[q]
          \/ Counted(q)' /\ (Covers(q) => Covers(q)' \/ failed' # {} \/ SizeOf(stored)' <= Limit)
    BY <1>1, <1>3, <1>4
  <2>2. \A e \in evicted' : e \in evicted \/ (~e.old => SizeOf({c \in committed : c >= e.case}) > Limit)
    BY <1>1
  <2>3. captured <= captured'
    BY <1>2
  <2>4. stored' \subseteq stored /\ committed' = committed /\ failed \subseteq failed'
    BY <1>1
  <2>5. \A c \in committed : size'[c] = size[c]
    OBVIOUS
  <2> QED
    BY <2>1, <2>2, <2>3, <2>4, <2>5, RetentionStep

\* A step of one command that changes no file, no count of the past and no failure.
LEMMA QuietStep ==
    ASSUME CasesTypeOK, CasesTypeOK', RetentionInv, NEW p \in CaseCommands,
           UNCHANGED <<stored, committed, evicted>>, failed \subseteq failed',
           captured <= captured', \A c \in committed : size'[c] = size[c],
           \A q \in CaseCommands : q # p => caseRun'[q] = caseRun[q],
           Counted(p)', Covers(p) => Covers(p)' \/ SizeOf(stored)' <= Limit
    PROVE RetentionInv'
<1>1. \A q \in CaseCommands :
        \/ caseRun'[q] = caseRun[q]
        \/ Counted(q)' /\ (Covers(q) => Covers(q)' \/ failed' # {} \/ SizeOf(stored)' <= Limit)
  OBVIOUS
<1>2. \A e \in evicted' : e \in evicted \/ (~e.old => SizeOf({c \in committed : c >= e.case}) > Limit)
  OBVIOUS
<1>3. stored' \subseteq stored /\ committed' = committed
  OBVIOUS
<1>4. QED
  BY <1>1, <1>2, <1>3, RetentionStep

\* Storing a case: the command that stored it will cover it.
LEMMA CommitStep ==
    ASSUME CasesTypeOK, CasesTypeOK', RetentionInv, NEW p \in CaseCommands, CommitCase(p),
           Mine(p) \in caseTemps
    PROVE RetentionInv'
<1> USE CaseStoreAssumption
<1>1. /\ stored' = stored \cup {Mine(p)} /\ committed' = committed \cup {Mine(p)}
      /\ caseRun'[p] = [caseRun[p] EXCEPT !.step = "prepare", !.cutoff = expired]
      /\ \A q \in CaseCommands : q # p => caseRun'[q] = caseRun[q]
      /\ size' = size /\ captured' = captured /\ failed' = failed /\ evicted' = evicted
  BY DEF CommitCase, CasesTypeOK
<1>2. caseRun'[p].step = "prepare" /\ Mine(p)' = Mine(p)
  <2>1. caseRun[p] \in RunType
    BY DEF CasesTypeOK, RunType, Steps
  <2>2. QED
    BY <1>1, <2>1 DEF Mine, RunType
<1>3. Mine(p) \in 1..captured
  BY SavesCase DEF CommitCase
<1>4. /\ stored \subseteq committed /\ committed \subseteq 1..captured
      /\ \A q \in CaseCommands : Counted(q)
      /\ \A e \in evicted : ~e.old => SizeOf({c \in committed : c >= e.case}) > Limit
  BY DEF RetentionInv
<1>5. ASSUME NEW q \in CaseCommands PROVE Counted(q)'
  <2>1. CASE q = p
    <3>1. Mine(p)' \in 0..captured'
      BY <1>1, <1>2, <1>3
    <3>2. Counted(p)'
      BY <1>2, <3>1 DEF Counted
    <3>3. QED
      BY <2>1, <3>2
  <2>2. CASE q # p
    <3>1. caseRun'[q] = caseRun[q] /\ Counted(q)
      BY <1>1, <1>4, <2>2
    <3>2. \A kept \in SUBSET committed : Counts(q, kept) => Counts(q, kept)'
      <4>1. \A S : SizeOf(S)' = SizeOf(S)
        BY <1>1, SizeIsSum, NextSizeIsSum
      <4>2. QED
        BY <3>1, <4>1 DEF Counts
    <3>3. Mine(q)' = Mine(q)
      BY <3>1 DEF Mine
    <3>4. QED
      BY <1>1, <3>1, <3>2, <3>3 DEF Counted
  <2>3. QED
    BY <2>1, <2>2
<1>6. ASSUME NEW e \in evicted', ~e.old PROVE SizeOf({c \in committed : c >= e.case})' > Limit
  <2> DEFINE S == {c \in committed : c >= e.case}
             T == {c \in committed' : c >= e.case}
  <2>1. SizeOf(S) > Limit
    BY <1>1, <1>4, <1>6
  <2>2. S \subseteq T
    BY <1>1
  <2>3. size \in [Cases -> Nat]
    BY SizesAreNat DEF CasesTypeOK
  <2>4. SizeOf({c \in committed : c >= e.case})' = SumOf(size', T) /\ SizeOf(S) = SumOf(size, S)
    BY DEF SizeOf, SumOf
  <2> HIDE DEF S, T
  <2>5. SumOf(size, S) <= SumOf(size, T) /\ SumOf(size, S) \in Nat /\ SumOf(size, T) \in Nat
    <3>1. \A c \in S \cap Cases : size[c] <= size[c]
      BY <2>3
    <3>2. QED
      BY <2>2, <2>3, <3>1, SumMonotone, SumType
  <2>6. QED
    BY <1>1, <2>1, <2>4, <2>5
<1>7. Covers(p)'
  BY <1>1, <1>2 DEF Covers
<1>8. stored' \subseteq committed' /\ committed' \subseteq 1..captured'
  BY <1>1, <1>3, <1>4
<1>9. QED
  BY <1>5, <1>6, <1>7, <1>8 DEF RetentionInv

\* Evicting a case takes it out of what was counted.
LEMMA EvictStep ==
    ASSUME CasesTypeOK, CasesTypeOK', RetentionInv, NEW p \in CaseCommands, Evict(p)
    PROVE RetentionInv'
<1> USE CaseStoreAssumption
<1> PICK c : c = Min(caseRun[p].todo)
  OBVIOUS
<1> DEFINE rest == caseRun[p].todo \ {c}
           total == caseRun[p].total
           must == TooMuch(p) \/ c <= caseRun[p].cutoff
<1>1. /\ caseRun[p].step = "evict" /\ caseRun[p].todo # {}
      /\ UNCHANGED <<size, captured>>
  BY DEF Evict
<1>2. /\ caseRun \in [CaseCommands -> RunType] /\ captured \in Nat /\ size \in [Cases -> Nat]
      /\ total \in Nat
  <2>1. caseRun \in [CaseCommands -> RunType] /\ captured \in Nat
    BY DEF CasesTypeOK, RunType, Steps
  <2>2. size \in [Cases -> Nat]
    BY SizesAreNat DEF CasesTypeOK
  <2>3. QED
    BY <2>1, <2>2 DEF RunType
<1>3. c \in caseRun[p].todo /\ c \in Cases /\ \A x \in caseRun[p].todo : c <= x
  <2>1. caseRun[p].todo \subseteq Cases
    BY <1>2 DEF RunType
  <2>2. QED
    BY <1>1, <2>1, OldestOfSome
<1>4. Counted(p) /\ Mine(p) \in 1..captured
  BY <1>1, SavesCase DEF RetentionInv
<1>5. ASSUME NEW kept \in SUBSET committed, Counts(p, kept)
      PROVE /\ caseRun[p].todo \subseteq kept /\ total = SumOf(size, kept)
            /\ kept = caseRun[p].todo \/ total <= Limit
            /\ SumOf(size, kept \ {c}) = total - size[c]
            /\ total - size[c] \in Nat /\ total - size[c] <= total
  <2>1. caseRun[p].todo \subseteq kept /\ total = SumOf(size, kept)
        /\ (kept = caseRun[p].todo \/ total <= Limit)
    BY <1>5, SizeIsSum DEF Counts
  <2>2. c \in kept \cap Cases /\ size[c] \in Nat
    BY <1>2, <1>3, <2>1
  <2> HIDE DEF total
  <2>3. SumOf(size, kept \ {c}) = SumOf(size, kept) - size[c] /\ SumOf(size, kept \ {c}) \in Nat
    BY <1>2, <2>2, SumRemove, SumType
  <2>4. QED
    BY <1>2, <2>1, <2>2, <2>3 DEF total
<1>6. CASE Visits(p, "evict", rest) /\ UNCHANGED <<stored, ghostVars>> /\ ~must
  <2>1. /\ caseRun'[p].step = "evict" /\ caseRun'[p].todo = rest
        /\ caseRun'[p].total = total /\ Mine(p)' = Mine(p)
        /\ \A q \in CaseCommands : q # p => caseRun'[q] = caseRun[q]
        /\ UNCHANGED <<stored, committed, failed, evicted>>
    BY <1>2, <1>6 DEF Visits, Mine, RunType, ghostVars
  <2>2. total <= Limit
    BY <1>2, <1>6 DEF TooMuch
  <2>3. ASSUME NEW kept \in SUBSET committed, Counts(p, kept) PROVE Counts(p, kept)'
    <3>1. SizeOf(kept)' = SumOf(size, kept)
      BY <1>1, NextSizeIsSum
    <3>2. QED
      BY <1>5, <2>1, <2>2, <2>3, <3>1 DEF Counts
  <2>4. Counted(p)' /\ (Covers(p) => Covers(p)')
    BY <1>1, <1>4, <2>1, <2>3 DEF Counted, Covers
  <2>5. captured <= captured' /\ \A x \in committed : size'[x] = size[x]
    BY <1>1, <1>2
  <2>6. QED
    BY <1>1, <2>1, <2>4, <2>5, QuietStep
<1>7. CASE /\ stored' = stored \ {c}
           /\ caseRun' = [caseRun EXCEPT ![p].todo = rest, ![p].total = @ - size[c]]
           /\ evicted' = evicted \cup {[case |-> c, old |-> c <= caseRun[p].cutoff]}
           /\ UNCHANGED <<committed, saved, failed, deleted>> /\ must
  <2> DEFINE left == total - size[c]
  <2>1. caseRun' = [caseRun EXCEPT ![p] = [caseRun[p] EXCEPT !.todo = rest, !.total = left]]
    BY <1>7
  <2>2. /\ caseRun'[p].step = "evict" /\ caseRun'[p].todo = rest
        /\ caseRun'[p].total = left /\ Mine(p)' = Mine(p)
        /\ \A q \in CaseCommands : q # p => caseRun'[q] = caseRun[q]
    <3> HIDE DEF left, rest
    <3>1. QED
      BY <1>1, <1>2, <2>1 DEF Mine, RunType
  <2>3. ASSUME NEW kept \in SUBSET committed, Counts(p, kept)
        PROVE Counts(p, kept \ {c})' /\ kept \ {c} \in SUBSET committed
    <3>1. SizeOf(kept \ {c})' = SumOf(size', kept \ {c})
      BY NextSizeIsSum
    <3>2. \A S : SumOf(size', S) = SumOf(size, S)
      BY <1>1
    <3>3. QED
      BY <1>2, <1>5, <2>2, <2>3, <3>1, <3>2 DEF Counts
  <2>4. Counted(p)' /\ (Covers(p) => Covers(p)')
    <3> HIDE DEF left, rest
    <3>1. /\ committed' = committed /\ stored' = stored \ {c}
          /\ captured' = captured /\ caseRun'[p].step = "evict"
      BY <1>1, <1>7, <2>2
    <3>2. Counted(p)'
      <4>1. PICK kept \in SUBSET committed : Counts(p, kept)
        BY <1>1, <1>4, Zenon DEF Counted
      <4>2. kept \ {c} \in SUBSET committed' /\ Counts(p, kept \ {c})'
        BY <2>3, <3>1, <4>1, Zenon
      <4>3. Mine(p)' \in 0..captured' /\ Mine(p)' # 0
        BY <1>1, <1>4, <2>2, <3>1 DEF Counted
      <4>4. QED
        BY <3>1, <4>2, <4>3 DEF Counted
    <3>3. ASSUME Covers(p) PROVE Covers(p)'
      <4>1. PICK kept \in SUBSET committed : Counts(p, kept) /\ stored \subseteq kept
        BY <1>1, <3>3 DEF Covers
      <4>2. kept \ {c} \in SUBSET committed' /\ Counts(p, kept \ {c})'
        BY <2>3, <3>1, <4>1, Zenon
      <4>3. stored' \subseteq kept \ {c}
        BY <3>1, <4>1
      <4>4. Mine(p)' \in committed'
        BY <2>2, <3>1, <3>3 DEF Covers
      <4>5. QED
        BY <3>1, <4>2, <4>3, <4>4 DEF Covers
    <3>4. QED
      BY <3>2, <3>3
  <2>5. ASSUME NEW e \in evicted', e \notin evicted, ~e.old
        PROVE SizeOf({x \in committed : x >= e.case})' > Limit
    <3> DEFINE S == {x \in committed : x >= c}
    <3>1. e.case = c /\ total > Limit
      <4>1. e = [case |-> c, old |-> c <= caseRun[p].cutoff]
        BY <1>7, <2>5
      <4>2. e.case = c /\ ~(c <= caseRun[p].cutoff)
        BY <2>5, <4>1
      <4>3. QED
        BY <1>7, <4>2 DEF TooMuch
    <3>2. PICK kept \in SUBSET committed : Counts(p, kept)
      BY <1>1, <1>4 DEF Counted
    <3>3. kept = caseRun[p].todo /\ total = SumOf(size, kept)
      <4>1. ~(total <= Limit)
        BY <1>2, <3>1
      <4>2. (kept = caseRun[p].todo \/ total <= Limit) /\ total = SumOf(size, kept)
        BY <1>5, <3>2
      <4>3. QED
        BY <4>1, <4>2
    <3>4. kept \subseteq S
      BY <1>3, <3>2, <3>3, CaseStoreAssumption DEF Cases, RetentionInv
    <3>5. SizeOf({x \in committed : x >= e.case})' = SumOf(size, S)
      BY <1>1, <1>7, <3>1 DEF SizeOf, SumOf
    <3> HIDE DEF S
    <3>6. SumOf(size, kept) <= SumOf(size, S) /\ SumOf(size, S) \in Nat
      <4>1. \A x \in kept \cap Cases : size[x] <= size[x]
        BY <1>2
      <4>2. QED
        BY <1>2, <3>4, <4>1, SumMonotone, SumType
    <3>7. QED
      BY <1>2, <3>1, <3>3, <3>5, <3>6
  <2>6. \A q \in CaseCommands :
          \/ caseRun'[q] = caseRun[q]
          \/ Counted(q)' /\ (Covers(q) => Covers(q)' \/ failed' # {} \/ SizeOf(stored)' <= Limit)
    BY <2>2, <2>4
  <2>7. \A e \in evicted' : e \in evicted \/ (~e.old => SizeOf({x \in committed : x >= e.case}) > Limit)
    <3> SUFFICES ASSUME NEW e \in evicted', e \notin evicted, ~e.old
                 PROVE SizeOf({x \in committed : x >= e.case}) > Limit
      OBVIOUS
    <3>1. SizeOf({x \in committed : x >= e.case})' > Limit
      BY <2>5
    <3>2. SizeOf({x \in committed : x >= e.case})' = SizeOf({x \in committed : x >= e.case})
      BY <1>1, <1>7 DEF SizeOf
    <3>3. QED
      BY <3>1, <3>2
  <2>8. /\ stored' \subseteq stored /\ committed' = committed /\ failed \subseteq failed'
        /\ captured <= captured' /\ \A x \in committed : size'[x] = size[x]
    BY <1>1, <1>2, <1>7
  <2>9. QED
    BY <2>6, <2>7, <2>8, RetentionStep
<1>8. CASE Fail(p) /\ UNCHANGED stored
  BY <1>1, <1>8, FailStep
<1>9. QED
  BY <1>6, <1>7, <1>8 DEF Evict

\* What an enforcement has counted by the time it evicts, and that some enforcement is
\* still to come for whatever is too much (evidence.rs, enforce_retention).
THEOREM RetentionInvariant == CasesSpec => [](CasesTypeOK /\ RetentionInv)
<1> USE CaseStoreAssumption
<1>1. CasesInit => CasesTypeOK /\ RetentionInv
  <2> SUFFICES ASSUME CasesInit PROVE CasesTypeOK /\ RetentionInv
    OBVIOUS
  <2>1. CasesTypeOK
    BY DEF CasesInit, CasesTypeOK, CaseIdle, Cases
  <2>2. SizeOf(stored) <= Limit
    <3>1. SizeOf({}) = 0
      BY <2>1, SizeIsSum, SumEmpty, SizesAreNat DEF CasesTypeOK
    <3>2. QED
      BY <3>1 DEF CasesInit
  <2>3. \A p \in CaseCommands : Counted(p)
    BY DEF CasesInit, Counted, Mine, CaseIdle
  <2>4. QED
    BY <2>1, <2>2, <2>3 DEF CasesInit, RetentionInv
<1>2. CasesTypeOK /\ RetentionInv /\ [CasesNext]_caseVars => CasesTypeOK' /\ RetentionInv'
  <2> SUFFICES ASSUME CasesTypeOK, RetentionInv, [CasesNext]_caseVars PROVE CasesTypeOK' /\ RetentionInv'
    OBVIOUS
  <2>1. CasesTypeOK'
    BY CasesTypeStep
  <2>2. /\ caseRun \in [CaseCommands -> RunType] /\ captured \in 0..MaxCases /\ captured \in Nat
        /\ captured <= captured /\ size \in [Cases -> Sizes \cup {0}]
    BY DEF CasesTypeOK, RunType, Steps
  <2>3. /\ \A p \in CaseCommands : Counted(p)
        /\ stored \subseteq committed /\ committed \subseteq 1..captured
    BY DEF RetentionInv
  <2> USE DEF caseFiles, ghostVars
  <2>4. CASE Age \/ \E c \in Cases : Delete(c)
    <3>1. /\ stored' \subseteq stored
          /\ UNCHANGED <<committed, failed, captured, size, caseRun, evicted>>
      BY <2>4 DEF Age, Delete
    <3>2. QED
      BY <2>1, <2>2, <3>1, RetentionStep
  <2>5. ASSUME NEW p \in CaseCommands, NEW bytes \in Sizes, Capture(p, bytes) PROVE RetentionInv'
    <3> DEFINE next == [CaseIdle EXCEPT !.step = "prepare", !.case = captured + 1]
    <3>1. /\ caseRun[p] = CaseIdle /\ caseRun' = [caseRun EXCEPT ![p] = next] /\ captured' = captured + 1
          /\ size' = [size EXCEPT ![captured + 1] = bytes]
          /\ UNCHANGED <<stored, committed, failed, evicted>>
      BY <2>5 DEF Capture
    <3>2. next.step = "prepare" /\ next.case = captured + 1
      BY DEF CaseIdle
    <3> HIDE DEF next
    <3>3. caseRun'[p].step = "prepare" /\ Mine(p)' = captured + 1
          /\ \A q \in CaseCommands : q # p => caseRun'[q] = caseRun[q]
      BY <2>2, <3>1, <3>2 DEF Mine
    <3>4. Counted(p)'
      BY <2>2, <3>1, <3>3 DEF Counted
    <3>5. ~Covers(p)
      BY <2>3, <3>1 DEF Covers, Mine, CaseIdle
    <3>6. captured <= captured' /\ \A c \in committed : size'[c] = size[c]
      BY <2>2, <2>3, <3>1
    <3>7. QED
      BY <2>1, <3>1, <3>3, <3>4, <3>5, <3>6, QuietStep
  <2>6. ASSUME NEW p \in CaseCommands, NEW c \in Cases, Clean(p, c) PROVE RetentionInv'
    <3>1. UNCHANGED <<stored, size, captured>>
      BY <2>6 DEF Clean
    <3>2. CASE Fail(p)
      BY <2>1, <3>1, <3>2, FailStep
    <3>3. CASE ~Fail(p)
      <4>1. /\ caseRun' = [caseRun EXCEPT ![p].step = "clean", ![p].todo = caseRun[p].todo \ {c}]
            /\ caseRun[p].step = "clean" /\ UNCHANGED <<committed, failed, evicted>>
        BY <2>6, <3>3 DEF Clean, Visits
      <4>2. caseRun'[p].step = "clean" /\ Mine(p)' = Mine(p)
            /\ \A q \in CaseCommands : q # p => caseRun'[q] = caseRun[q]
        BY <2>2, <4>1 DEF Mine, RunType
      <4>3. Mine(p) \in 0..captured
        BY <2>3 DEF Counted
      <4>4. Counted(p)' /\ (Covers(p) => Covers(p)')
        BY <3>1, <4>1, <4>2, <4>3 DEF Counted, Covers
      <4>5. QED
        BY <2>1, <2>2, <3>1, <4>1, <4>2, <4>4, QuietStep
    <3>4. QED
      BY <3>2, <3>3
  <2>7. ASSUME NEW p \in CaseCommands, List(p) PROVE RetentionInv'
    <3>1. /\ caseRun[p] = CaseIdle /\ caseRun' = [caseRun EXCEPT ![p] = [CaseIdle EXCEPT !.step = "prepare"]]
          /\ UNCHANGED <<stored, committed, failed, evicted, size, captured>>
      BY <2>7 DEF List
    <3>2. caseRun'[p].step = "prepare" /\ Mine(p)' = 0
          /\ \A q \in CaseCommands : q # p => caseRun'[q] = caseRun[q]
      BY <2>2, <3>1 DEF Mine, CaseIdle
    <3>3. Counted(p)'
      BY <2>2, <3>1, <3>2 DEF Counted
    <3>4. ~Covers(p)
      BY <2>3, <3>1 DEF Covers, Mine, CaseIdle
    <3>5. QED
      BY <2>1, <2>2, <3>1, <3>2, <3>3, <3>4, QuietStep
  <2>8. ASSUME NEW p \in CaseCommands, Prepare(p) \/ Cleaned(p) PROVE RetentionInv'
    <3>1. /\ UNCHANGED <<stored, committed, failed, evicted, size, captured>>
          /\ \A q \in CaseCommands : q # p => caseRun'[q] = caseRun[q]
          /\ Mine(p)' = Mine(p) /\ caseRun[p].step \in {"prepare", "clean"}
          /\ caseRun'[p].step \in {"clean", "list", "create"}
          /\ caseRun'[p].step = "create" => Mine(p) # 0 /\ Mine(p) \notin committed
      BY <2>2, <2>8 DEF Prepare, Cleaned, Visits, CaseGoTo, Mine, RunType
    <3>2. Mine(p) \in 0..captured
      BY <2>3 DEF Counted
    <3>3. Counted(p)' /\ (Covers(p) => Covers(p)')
      BY <3>1, <3>2 DEF Counted, Covers
    <3>4. QED
      BY <2>1, <2>2, <3>1, <3>3, QuietStep
  <2>9. ASSUME NEW p \in CaseCommands, Create(p) PROVE RetentionInv'
    <3>1. UNCHANGED <<stored, size, captured>>
      BY <2>9 DEF Create
    <3>2. CASE Fail(p)
      BY <2>1, <3>1, <3>2, FailStep
    <3>3. CASE ~Fail(p)
      <4>1. /\ caseRun[p].step = "create" /\ caseRun' = [caseRun EXCEPT ![p].step = "commit"]
            /\ UNCHANGED <<committed, failed, evicted>>
        BY <2>9, <3>3 DEF Create, CaseGoTo
      <4>2. caseRun'[p].step = "commit" /\ Mine(p)' = Mine(p)
            /\ \A q \in CaseCommands : q # p => caseRun'[q] = caseRun[q]
        BY <2>2, <4>1 DEF Mine, RunType
      <4>3. Mine(p) \in 1..captured
        BY <4>1, SavesCase
      <4>4. Counted(p)' /\ ~Covers(p)
        BY <3>1, <4>1, <4>2, <4>3 DEF Counted, Covers
      <4>5. QED
        BY <2>1, <2>2, <3>1, <4>1, <4>2, <4>4, QuietStep
    <3>4. QED
      BY <3>2, <3>3
  <2>10. ASSUME NEW p \in CaseCommands, CommitCase(p) PROVE RetentionInv'
    <3>1. CASE Mine(p) \in caseTemps
      BY <2>1, <2>10, <3>1, CommitStep
    <3>2. CASE Mine(p) \notin caseTemps
      BY <2>1, <2>10, <3>2, FailStep DEF CommitCase
    <3>3. QED
      BY <3>1, <3>2
  <2>11. ASSUME NEW p \in CaseCommands, ReadDir(p) PROVE RetentionInv'
    <3>1. /\ UNCHANGED <<stored, committed, failed, evicted, size, captured>>
          /\ caseRun[p].step = "list" /\ caseRun' = [caseRun EXCEPT ![p].step = "read", ![p].todo = stored]
      BY <2>11 DEF ReadDir, Visits
    <3>2. /\ caseRun'[p].step = "read" /\ caseRun'[p].todo = stored /\ Mine(p)' = Mine(p)
          /\ \A q \in CaseCommands : q # p => caseRun'[q] = caseRun[q]
      BY <2>2, <3>1 DEF Mine, RunType
    <3>3. Mine(p) \in 0..captured
      BY <2>3 DEF Counted
    <3>4. Counted(p)' /\ (Covers(p) => Covers(p)')
      BY <2>3, <3>1, <3>2, <3>3 DEF Counted, Covers
    <3>5. QED
      BY <2>1, <2>2, <3>1, <3>2, <3>4, QuietStep
  <2>12. ASSUME NEW p \in CaseCommands, Read(p) PROVE RetentionInv'
    <3>1. UNCHANGED <<stored, size, captured>> /\ caseRun[p].step = "read"
      BY <2>12 DEF Read
    <3>2. CASE Fail(p)
      BY <2>1, <3>1, <3>2, FailStep
    <3>3. CASE ~Fail(p) /\ Mine(p) = 0
      <4>1. /\ caseRun' = [caseRun EXCEPT ![p] = CaseIdle] /\ UNCHANGED <<committed, failed, evicted>>
        BY <2>12, <3>3 DEF Read
      <4>2. /\ caseRun'[p] = CaseIdle /\ \A q \in CaseCommands : q # p => caseRun'[q] = caseRun[q]
        BY <2>2, <4>1
      <4>3. Counted(p)' /\ ~Covers(p)
        BY <2>2, <2>3, <3>1, <3>3, <4>2 DEF Counted, Covers, Mine, CaseIdle
      <4>4. QED
        BY <2>1, <2>2, <3>1, <4>1, <4>2, <4>3, QuietStep
    <3>4. CASE ~Fail(p) /\ Mine(p) # 0
      <4> DEFINE total == SizeOf(caseRun[p].todo)
      <4>1. /\ caseRun' = [caseRun EXCEPT ![p].step = "evict", ![p].total = total]
            /\ UNCHANGED <<committed, failed, evicted>>
        BY <2>12, <3>4 DEF Read
      <4> HIDE DEF total
      <4>2. /\ caseRun'[p].step = "evict" /\ caseRun'[p].todo = caseRun[p].todo
            /\ caseRun'[p].total = total /\ Mine(p)' = Mine(p)
            /\ \A q \in CaseCommands : q # p => caseRun'[q] = caseRun[q]
        BY <2>2, <4>1 DEF Mine, RunType
      <4>3. Mine(p) \in 0..captured /\ caseRun[p].todo \subseteq committed
        BY <2>3, <3>1 DEF Counted
      <4>4. total = SizeOf(caseRun[p].todo)'
        BY <3>1, <4>2, SizeIsSum DEF total, SizeOf, SumOf
      <4>5. Counts(p, caseRun[p].todo)'
        BY <4>2, <4>4 DEF Counts
      <4>6. Counted(p)'
        BY <3>1, <3>4, <4>1, <4>2, <4>3, <4>5 DEF Counted
      <4>7. Covers(p) => Covers(p)'
        BY <3>1, <4>1, <4>2, <4>3, <4>5 DEF Covers
      <4>8. QED
        BY <2>1, <2>2, <3>1, <4>1, <4>2, <4>6, <4>7, QuietStep
    <3>5. QED
      BY <3>2, <3>3, <3>4
  <2>13. ASSUME NEW p \in CaseCommands, Evict(p) PROVE RetentionInv'
    BY <2>1, <2>13, EvictStep
  <2>14. ASSUME NEW p \in CaseCommands, Finish(p) PROVE RetentionInv'
    <3>1. /\ caseRun[p].step = "evict" /\ caseRun[p].todo = {} /\ caseRun' = [caseRun EXCEPT ![p] = CaseIdle]
          /\ UNCHANGED <<stored, committed, failed, evicted, size, captured>>
      BY <2>14 DEF Finish
    <3>2. /\ caseRun'[p] = CaseIdle /\ \A q \in CaseCommands : q # p => caseRun'[q] = caseRun[q]
      BY <2>2, <3>1
    <3>3. Counted(p)'
      BY <2>2, <3>1, <3>2 DEF Counted, Mine, CaseIdle
    <3>4. ASSUME Covers(p) PROVE SizeOf(stored)' <= Limit
      <4>1. PICK kept \in SUBSET committed : Counts(p, kept) /\ stored \subseteq kept
        BY <3>1, <3>4 DEF Covers
      <4>2. size \in [Cases -> Nat]
        BY SizesAreNat DEF CasesTypeOK
      <4>3. SizeOf(kept) <= Limit
        <5>1. SizeOf({}) = 0
          BY <4>2, SizeIsSum, SumEmpty
        <5>2. QED
          BY <3>1, <4>1, <5>1 DEF Counts
      <4>4. SumOf(size, stored) <= SumOf(size, kept) /\ SumOf(size, stored) \in Nat /\ SumOf(size, kept) \in Nat
        BY <4>1, <4>2, SumMonotone, SumType
      <4>5. SizeOf(stored)' = SumOf(size, stored)
        BY <3>1 DEF SizeOf, SumOf
      <4>6. QED
        BY <4>3, <4>4, <4>5, SizeIsSum
    <3>5. QED
      BY <2>1, <2>2, <3>1, <3>2, <3>3, <3>4, QuietStep
  <2>15. ASSUME NEW p \in CaseCommands, KillCase(p) PROVE RetentionInv'
    BY <2>1, <2>15, FailStep DEF KillCase
  <2>16. CASE UNCHANGED caseVars
    <3>1. UNCHANGED <<stored, committed, failed, captured, size, caseRun, evicted>>
      BY <2>16 DEF caseVars
    <3>2. QED
      BY <2>1, <2>2, <3>1, RetentionStep
  <2> QED
    BY <2>1, <2>4, <2>5, <2>6, <2>7, <2>8, <2>9, <2>10, <2>11, <2>12, <2>13, <2>14, <2>15, <2>16
       DEF CasesNext
<1>3. QED
  BY <1>1, <1>2, PTL DEF CasesSpec

\* Retention deletes what it must and no more, for any number of commands and any sizes.
THEOREM RetentionIsExact == CasesSpec => []RetentionExact
<1>1. RetentionInv => RetentionExact
  BY DEF RetentionInv, RetentionExact, Covers, CaseIdle
<1>2. QED
  BY <1>1, RetentionInvariant, PTL

-----------------------------------------------------------------------------
(* CodeIndex.                                                               *)

WorldOK ==
    /\ workspace \in [Files -> {Missing} \cup
         [content : 0..MaxEdits, size : FileSizes \cup {1}, mtime : 1..MaxSeconds]]
    /\ fileClock \in 1..MaxSeconds /\ configured \in Models
    /\ edits \in 0..MaxEdits /\ indexStarted \in 0..MaxIndexCommands /\ changes \in 0..MaxChanges
    /\ stats \in [Files -> SUBSET Time] /\ excused \subseteq Files
    /\ \A f \in Files : workspace[f] # Missing => Stat(f) \in stats[f] /\ Stat(f) # NoStat

IndexOK(i) ==
    i \notin {Missing, Corrupt} => i \in Database /\ OfModel(i, i.source) /\ Fresh(i)

\* The parts of the invariant.
LEMMA IndexParts ==
    CodeIndexInv <=>
      /\ WorldOK /\ IndexOK(index) /\ compared \subseteq Models \X Models
      /\ indexRun \in [IndexCommands -> {IndexIdle} \cup Running]
      /\ \A p \in IndexCommands : CommandOK(indexRun[p])
BY Zenon DEF CodeIndexInv, IndexTypeOK, WorldOK, IndexOK, Decodes

\* A step of a command that leaves the files and the configuration alone.
LEMMA CommandStep ==
    ASSUME CodeIndexInv, NEW p \in IndexCommands,
           NEW r \in {IndexIdle} \cup Running, CommandOK(r),
           indexRun' = [indexRun EXCEPT ![p] = r],
           NEW i, IndexOK(i), index' = i,
           UNCHANGED <<worldVars, configured, edits, changes>>,
           indexStarted' \in 0..MaxIndexCommands, compared' \subseteq Models \X Models
    PROVE CodeIndexInv'
<1>1. /\ WorldOK /\ indexRun \in [IndexCommands -> {IndexIdle} \cup Running]
      /\ \A q \in IndexCommands : CommandOK(indexRun[q])
  BY IndexParts
<1>2. /\ workspace' = workspace /\ fileClock' = fileClock /\ stats' = stats
      /\ excused' = excused /\ configured' = configured /\ edits' = edits /\ changes' = changes
  BY DEF worldVars
<1>3. WorldOK'
  BY <1>1, <1>2 DEF WorldOK, Stat
<1>4. ASSUME NEW db PROVE Fresh(db) => Fresh(db)'
  BY <1>2 DEF Fresh, Stat, UpToDate
<1>5. IndexOK(index)'
  <2>1. IndexOK(i)'
    BY <1>4 DEF IndexOK
  <2>2. QED
    BY <2>1 DEF IndexOK
<1>6. ASSUME NEW c, CommandOK(c) PROVE CommandOK(c)'
  <2>1. \A db, f : UpToDate(db, f)' <=> UpToDate(db, f)
    BY <1>2 DEF UpToDate
  <2>2. QED
    BY <1>4, <1>6, <2>1 DEF CommandOK
<1>7. indexRun' \in [IndexCommands -> {IndexIdle} \cup Running]
  BY <1>1
<1>8. \A q \in IndexCommands : CommandOK(indexRun[q])' 
  <2>1. ASSUME NEW q \in IndexCommands PROVE CommandOK(indexRun[q])'
    <3>1. PICK c : c = indexRun'[q]
      OBVIOUS
    <3>2. CommandOK(c)
      BY <1>1, <3>1
    <3>3. CommandOK(c)'
      BY <1>6, <3>2
    <3>4. QED
      BY <3>1, <3>3 DEF CommandOK
  <2>2. QED
    BY <2>1
<1>9. QED
  BY <1>3, <1>5, <1>7, <1>8, Zenon DEF CodeIndexInv, IndexTypeOK, WorldOK, IndexOK, Decodes

\* A command goes on with what it has in memory.
LEMMA Goes ==
    ASSUME NEW r \in Running, CommandOK(r),
           NEW s \in {"walk", "embed", "save", "search"}
    PROVE [r EXCEPT !.step = s] \in Running /\ CommandOK([r EXCEPT !.step = s])
<1> DEFINE n == [r EXCEPT !.step = s]
<1>1. n \in Running
  BY DEF Running
<1>2. n.db = r.db /\ n.model = r.model /\ n.todo = r.todo /\ n.step = s
  BY DEF Running
<1>3. r # IndexIdle
  <2>1. r.step # "idle" /\ IndexIdle.step = "idle"
    BY DEF Running, IndexIdle
  <2>2. QED
    BY <2>1
<1> HIDE DEF n
<1>4. CommandOK(n)
  BY <1>2, <1>3 DEF CommandOK
<1>5. QED
  BY <1>1, <1>4 DEF n

\* An edit of a file either has a time and size the file never had or excuses it.
LEMMA WriteKeeps ==
    ASSUME WorldOK, NEW f \in Files, NEW bytes \in FileSizes, WriteFile(f, bytes),
           NEW db \in Database
    PROVE /\ WorldOK'
          /\ Fresh(db) => Fresh(db)'
          /\ \A g \in Files \ {f} : UpToDate(db, g) => UpToDate(db, g)'
<1> DEFINE new == [mtime |-> fileClock, size |-> bytes]
<1> USE CodeIndexAssumption
<1>1. /\ workspace' = [workspace EXCEPT ![f] =
                          [content |-> edits + 1, size |-> bytes, mtime |-> fileClock]]
      /\ stats' = [stats EXCEPT ![f] = @ \cup {new}]
      /\ excused \subseteq excused' /\ excused' \subseteq excused \cup {f}
      /\ new \in stats[f] => f \in excused'
      /\ edits < MaxEdits /\ edits' = edits + 1
      /\ fileClock' = fileClock /\ configured' = configured
      /\ changes' = changes /\ indexStarted' = indexStarted
  BY DEF WriteFile
<1>2. new \in Time /\ new # NoStat /\ workspace'[f] \in
         [content : 0..MaxEdits, size : FileSizes \cup {1}, mtime : 1..MaxSeconds]
  <2>1. new.mtime # NoStat.mtime
    BY DEF NoStat, WorldOK
  <2>2. QED
    BY <1>1, <2>1 DEF Time, WorldOK
<1>3. Stat(f)' \in {new, NoStat} /\ (workspace'[f] # Missing => Stat(f)' = new)
  BY <1>1 DEF Stat, WorldOK
<1>4. \A g \in Files \ {f} :
        workspace'[g] = workspace[g] /\ stats'[g] = stats[g] /\ Stat(g)' = Stat(g)
  BY <1>1 DEF Stat, WorldOK
<1> HIDE DEF new
<1>5. WorldOK'
  <2>1. workspace' \in [Files -> {Missing} \cup
          [content : 0..MaxEdits, size : FileSizes \cup {1}, mtime : 1..MaxSeconds]]
    BY <1>1, <1>2 DEF WorldOK
  <2>2. stats' \in [Files -> SUBSET Time]
    BY <1>1, <1>2 DEF WorldOK
  <2>3. ASSUME NEW g \in Files, workspace'[g] # Missing
        PROVE Stat(g)' \in stats'[g] /\ Stat(g)' # NoStat
    <3>1. CASE g = f
      BY <1>1, <1>2, <1>3, <2>3, <3>1 DEF WorldOK
    <3>2. CASE g # f
      BY <1>4, <2>3, <3>2 DEF WorldOK, NoStat
    <3>3. QED
      BY <3>1, <3>2
  <2>4. QED
    BY <1>1, <2>1, <2>2, <2>3 DEF WorldOK
<1>6. ASSUME NEW g \in Files \ {f}, UpToDate(db, g)
      PROVE UpToDate(db, g)'
  BY <1>1, <1>4, <1>6 DEF UpToDate
<1>7. ASSUME Fresh(db) PROVE Fresh(db)'
  <2> SUFFICES ASSUME NEW g \in Files, db.files[g] # Missing
               PROVE /\ db.files[g] \in stats'[g] \cup {NoStat}
                     /\ db.files[g] = Stat(g)' => UpToDate(db, g)'
    BY DEF Fresh, NoStat
  <2>1. db.files[g] \in stats[g] \cup {NoStat} /\ (db.files[g] = Stat(g) => UpToDate(db, g))
    BY <1>7 DEF Fresh
  <2>2. CASE g # f
    BY <1>4, <1>6, <2>1, <2>2
  <2>3. CASE g = f
    <3>1. db.files[g] \in stats'[g] \cup {NoStat}
      BY <1>1, <2>1, <2>3 DEF WorldOK
    <3>2. ASSUME db.files[g] = Stat(g)' PROVE UpToDate(db, g)'
      <4>1. CASE workspace'[f] = Missing
        BY <2>3, <4>1 DEF UpToDate
      <4>2. CASE workspace'[f] # Missing
        <5>1. f \in excused'
          BY <1>1, <1>2, <1>3, <2>1, <2>3, <3>2, <4>2
        <5>2. QED
          BY <2>3, <5>1 DEF UpToDate
      <4>3. QED
        BY <4>1, <4>2
    <3>3. QED
      BY <3>1, <3>2
  <2>4. QED
    BY <2>2, <2>3
<1>8. QED
  BY <1>5, <1>6, <1>7

\* So does a removal: the file has no time and size to be taken for another one's.
LEMMA UnlinkKeeps ==
    ASSUME WorldOK, NEW f \in Files, Unlink(f), NEW db
    PROVE /\ WorldOK'
          /\ Fresh(db) => Fresh(db)'
          /\ \A g \in Files : UpToDate(db, g) => UpToDate(db, g)'
<1> USE CodeIndexAssumption
<1>1. /\ workspace' = [workspace EXCEPT ![f] = Missing]
      /\ stats' = stats /\ excused' = excused /\ fileClock' = fileClock
      /\ configured' = configured /\ edits' = edits /\ indexStarted' = indexStarted
      /\ changes < MaxChanges /\ changes' = changes + 1
  BY DEF Unlink, Change
<1>2. \A g \in Files \ {f} : workspace'[g] = workspace[g] /\ Stat(g)' = Stat(g)
  BY <1>1 DEF Stat, WorldOK
<1>3. workspace'[f] = Missing
  BY <1>1 DEF WorldOK
<1>4. WorldOK'
  BY <1>1, <1>2, <1>3 DEF WorldOK, NoStat
<1>5. \A g \in Files : UpToDate(db, g) => UpToDate(db, g)'
  BY <1>1, <1>2, <1>3 DEF UpToDate
<1>6. UpToDate(db, f)'
  BY <1>3 DEF UpToDate
<1>7. ASSUME Fresh(db) PROVE Fresh(db)'
  BY <1>1, <1>2, <1>5, <1>6, <1>7 DEF Fresh, NoStat
<1>8. QED
  BY <1>4, <1>5, <1>7

\* An edit or a removal keeps what the commands have in memory.
LEMMA WorldStep ==
    ASSUME CodeIndexInv, WorldOK', NEW f \in Files,
           UNCHANGED <<index, indexRun, compared>>,
           \A db \in Database : Fresh(db) => Fresh(db)',
           \A db \in Database, g \in Files \ {f} : UpToDate(db, g) => UpToDate(db, g)',
           \/ \A db \in Database : UpToDate(db, f) => UpToDate(db, f)'
           \/ /\ \A p \in IndexCommands :
                   indexRun[p].step = "stat" /\ indexRun[p].at = f => f \in excused'
    PROVE CodeIndexInv'
<1>1. /\ IndexOK(index) /\ compared \subseteq Models \X Models
      /\ indexRun \in [IndexCommands -> {IndexIdle} \cup Running]
      /\ \A p \in IndexCommands : CommandOK(indexRun[p])
  BY IndexParts
<1>2. Decodes' => index' \in Database /\ OfModel(index', index'.source) /\ Fresh(index)'
  BY <1>1 DEF IndexOK, Decodes
<1>3. ASSUME NEW p \in IndexCommands PROVE CommandOK(indexRun[p])'
  <2>1. CommandOK(indexRun[p]) /\ indexRun'[p] = indexRun[p]
    BY <1>1
  <2>2. CASE indexRun[p] = IndexIdle
    BY <2>1, <2>2 DEF CommandOK, IndexIdle
  <2>3. CASE indexRun[p] # IndexIdle
    <3> DEFINE r == indexRun[p]
    <3>1. r \in Running /\ r.db \in Database
      BY <1>1, <2>3 DEF Running
    <3>2. Fresh(r.db)' /\ OfModel(r.db, r.model) /\ \A g \in r.todo : Unread(r.db, g)
      BY <2>1, <2>3, <3>1 DEF CommandOK, Fresh
    <3>3. r.step = "stat" => UpToDate(r.db, r.at)'
      BY <2>1, <3>1 DEF CommandOK, UpToDate
    <3>4. QED
      BY <2>1, <3>2, <3>3 DEF CommandOK
  <2>4. QED
    BY <2>2, <2>3
<1>4. QED
  BY <1>1, <1>2, <1>3, Zenon DEF CodeIndexInv, IndexTypeOK, WorldOK

\* update_index and query_context.
LEMMA CommandPreserves ==
    ASSUME CodeIndexInv, NEW p \in IndexCommands,
           \/ \E kind \in CommandKinds : BeginCommand(p, kind)
           \/ LoadIndex(p) \/ Walk(p) \/ Register(p) \/ Embed(p) \/ Save(p) \/ Search(p)
           \/ \E f \in Files : Chunk(p, f)
    PROVE CodeIndexInv'
<1> USE CodeIndexAssumption
<1> DEFINE o == indexRun[p]
<1>1. /\ WorldOK /\ IndexOK(index) /\ compared \subseteq Models \X Models
      /\ indexRun \in [IndexCommands -> {IndexIdle} \cup Running]
      /\ CommandOK(o)
  BY IndexParts
<1>2. o \in {IndexIdle} \cup Running
  BY <1>1
<1>3. CommandOK(IndexIdle)
  BY DEF CommandOK, IndexIdle
<1>4. ASSUME o.step # "idle" PROVE o \in Running /\ o # IndexIdle
  BY <1>2, <1>4 DEF IndexIdle
<1>5. ASSUME NEW step, At(p, step)
      PROVE o.step = step /\ UNCHANGED <<worldVars, configured, edits, changes, indexStarted>>
  BY <1>5 DEF At, indexCounts
<1>6. indexStarted \in 0..MaxIndexCommands
  BY <1>1 DEF WorldOK
<1>7. IndexOK(Missing)
  BY DEF IndexOK
<1> HIDE DEF o
<1>8. ASSUME NEW step \in {"load", "walk", "embed", "save"}, At(p, step), Leave(p),
             NEW i, IndexOK(i), index' = i, compared' = compared
      PROVE CodeIndexInv'
  <2>1. o \in Running /\ indexStarted' = indexStarted
    BY <1>4, <1>5, <1>8
  <2>2. \/ indexRun' = [indexRun EXCEPT ![p] = [o EXCEPT !.step = "search"]]
        \/ indexRun' = [indexRun EXCEPT ![p] = IndexIdle]
    BY <1>8 DEF Leave, IndexGoTo, o
  <2>3. [o EXCEPT !.step = "search"] \in Running /\ CommandOK([o EXCEPT !.step = "search"])
    BY <1>1, <2>1, Goes
  <2>4. PICK r \in {IndexIdle} \cup Running :
          CommandOK(r) /\ indexRun' = [indexRun EXCEPT ![p] = r]
    BY <1>3, <2>2, <2>3, Zenon
  <2>5. QED
    BY <1>1, <1>5, <1>6, <1>8, <2>1, <2>4, CommandStep
<1>9. ASSUME NEW kind \in CommandKinds, BeginCommand(p, kind) PROVE CodeIndexInv'
  <2>1. /\ Empty(configured) \in Database /\ OfModel(Empty(configured), configured)
        /\ Fresh(Empty(configured))
    BY <1>1 DEF Empty, Database, OfModel, Fresh, WorldOK
  <2>2. /\ Command(kind) \in Running /\ Command(kind).db = Empty(configured)
        /\ Command(kind).model = configured /\ Command(kind).todo = {}
        /\ Command(kind).step = "load"
    BY <1>1, <2>1 DEF Command, Running, WorldOK
  <2>3. CommandOK(Command(kind))
    BY <2>1, <2>2 DEF CommandOK
  <2>4. indexStarted' \in 0..MaxIndexCommands
    BY <1>6, <1>9 DEF BeginCommand
  <2>5. PICK r \in {IndexIdle} \cup Running :
          CommandOK(r) /\ indexRun' = [indexRun EXCEPT ![p] = r]
    BY <1>9, <2>2, <2>3, Zenon DEF BeginCommand
  <2>6. QED
    BY <1>1, <1>9, <2>4, <2>5, CommandStep DEF BeginCommand
<1>10. CASE LoadIndex(p)
  <2>1. At(p, "load") /\ compared' = compared /\ o.step = "load" /\ o \in Running
    BY <1>4, <1>5, <1>10 DEF LoadIndex
  <2>2. CASE o.kind # "force" /\ index = Corrupt
    BY <1>7, <1>8, <1>10, <2>1, <2>2 DEF LoadIndex, o
  <2>3. CASE ~(o.kind # "force" /\ index = Corrupt)
    <3> DEFINE db == IF Usable(p) THEN [index EXCEPT !.source = o.model] ELSE o.db
               n == [o EXCEPT !.step = "walk", !.db = db]
    <3>1. index' = index /\ indexRun' = [indexRun EXCEPT ![p] = n]
      BY <1>10, <2>3 DEF LoadIndex, o
    <3>2. db \in Database /\ OfModel(db, o.model) /\ Fresh(db)
      <4>1. CASE Usable(p)
        <5>1. index \notin {Missing, Corrupt} /\ index.source = o.model
          BY <2>3, <4>1 DEF Usable, o
        <5>2. index \in Database /\ OfModel(index, index.source) /\ Fresh(index)
          BY <1>1, <5>1 DEF IndexOK
        <5>3. [index EXCEPT !.source = o.model] = index
          BY <5>1, <5>2 DEF Database
        <5>4. QED
          BY <4>1, <5>1, <5>2, <5>3
      <4>2. CASE ~Usable(p)
        <5>1. o.db \in Database
          BY <2>1 DEF Running
        <5>2. QED
          BY <1>1, <1>4, <2>1, <4>2, <5>1 DEF CommandOK
      <4>3. QED
        BY <4>1, <4>2
    <3> HIDE DEF db
    <3>3. n \in Running /\ n.db = db /\ n.model = o.model /\ n.todo = o.todo /\ n.step = "walk"
      BY <2>1, <3>2 DEF Running
    <3> HIDE DEF n
    <3>4. CommandOK(n)
      BY <1>1, <2>1, <3>2, <3>3 DEF CommandOK
    <3>5. PICK r \in {IndexIdle} \cup Running :
            CommandOK(r) /\ indexRun' = [indexRun EXCEPT ![p] = r]
      BY <3>1, <3>3, <3>4
    <3>6. QED
      BY <1>1, <1>5, <1>6, <2>1, <3>1, <3>5, CommandStep
  <2>4. QED
    BY <2>2, <2>3
<1>11. CASE Walk(p)
  <2> DEFINE todo == {f \in Files : workspace[f] # Missing /\ Changed(o.db, f)}
             gone == {f \in Files : workspace[f] = Missing}
             db == Without(o.db, gone \cup todo)
             n == [o EXCEPT !.step = "chunk", !.todo = todo, !.db = db]
  <2>1. /\ At(p, "walk") /\ index' = index /\ compared' = compared
        /\ o.step = "walk" /\ o \in Running /\ o # IndexIdle
    <3>1. At(p, "walk") /\ index' = index /\ compared' = compared
      BY <1>11, Zenon DEF Walk
    <3>2. QED
      BY <1>4, <1>5, <3>1
  <2>2. CASE todo = {}
    BY <1>1, <1>8, <1>11, <2>1, <2>2 DEF Walk, o
  <2>3. CASE todo # {}
    <3>1. indexRun' = [indexRun EXCEPT ![p] = n]
      BY <1>11, <2>3 DEF Walk, o
    <3>2. o.db \in Database /\ OfModel(o.db, o.model) /\ Fresh(o.db)
      BY <1>1, <2>1 DEF CommandOK, Running
    <3>3. /\ db \in Database /\ db.source = o.db.source
          /\ \A f \in gone \cup todo : Unread(db, f)
          /\ \A f \in Files : f \notin gone \cup todo =>
               db.files[f] = o.db.files[f] /\ db.chunks[f] = o.db.chunks[f]
      <4> HIDE DEF todo, gone
      <4>1. todo \subseteq Files /\ gone \subseteq Files
        BY DEF todo, gone
      <4>2. QED
        BY <3>2, <4>1 DEF Without, Database, Unread
    <3> HIDE DEF db, todo, gone
    <3>4. OfModel(db, o.model) /\ Fresh(db)
      BY <3>2, <3>3 DEF OfModel, Fresh, Unread, UpToDate
    <3>5. todo \subseteq Files
      BY DEF todo
    <3>6. n \in Running /\ n.db = db /\ n.model = o.model /\ n.todo = todo /\ n.step = "chunk"
      BY <2>1, <3>3, <3>5 DEF Running
    <3> HIDE DEF n
    <3>7. CommandOK(n)
      BY <3>3, <3>4, <3>6 DEF CommandOK
    <3>8. PICK r \in {IndexIdle} \cup Running :
            CommandOK(r) /\ indexRun' = [indexRun EXCEPT ![p] = r]
      BY <3>1, <3>6, <3>7
    <3>9. QED
      BY <1>1, <1>5, <1>6, <2>1, <3>8, CommandStep
  <2>4. QED
    BY <2>2, <2>3
<1>12. ASSUME NEW f \in Files, Chunk(p, f) PROVE CodeIndexInv'
  <2> DEFINE found == IF Stat(f).size = 0 THEN {}
                      ELSE {[content |-> workspace[f].content, model |-> o.model]}
             db == WithChunks(o.db, f, found)
             n == [o EXCEPT !.step = "stat", !.at = f, !.todo = @ \ {f}, !.db = db,
                            !.new = @ \/ found # {}]
  <2>1. /\ At(p, "chunk") /\ f \in o.todo /\ index' = index /\ compared' = compared
        /\ o.step = "chunk" /\ o \in Running /\ o # IndexIdle
    <3>1. At(p, "chunk") /\ f \in o.todo /\ index' = index /\ compared' = compared
      BY <1>12, Zenon DEF Chunk, o
    <3>2. QED
      BY <1>4, <1>5, <3>1
  <2>2. indexRun' = [indexRun EXCEPT ![p] = n]
    BY <1>12 DEF Chunk, o
  <2>3. /\ o.db \in Database /\ OfModel(o.db, o.model) /\ Fresh(o.db)
        /\ \A g \in o.todo : Unread(o.db, g)
    BY <1>1, <2>1 DEF CommandOK, Running
  <2>4. found \subseteq Vector /\ \A c \in found : c.model = o.model
    BY <1>1, <2>1 DEF Stat, NoStat, Vector, WorldOK, Running
  <2>5. workspace[f] = Missing \/
        {c.content : c \in found} = (IF workspace[f].size = 0 THEN {} ELSE {workspace[f].content})
    <3>1. CASE workspace[f] # Missing /\ workspace[f].size = 0
      BY <3>1 DEF Stat
    <3>2. CASE workspace[f] # Missing /\ workspace[f].size # 0
      <4>1. found = {[content |-> workspace[f].content, model |-> o.model]}
        BY <3>2 DEF Stat
      <4>2. \A c \in found : c.content = workspace[f].content
        BY <4>1
      <4>3. found # {}
        BY <4>1
      <4>4. QED
        BY <3>2, <4>2, <4>3
    <3>3. QED
      BY <3>1, <3>2
  <2> HIDE DEF found
  <2>6. /\ db \in Database /\ db.source = o.db.source /\ db.files = o.db.files
        /\ db.chunks[f] = found
        /\ \A g \in Files \ {f} : db.chunks[g] = o.db.chunks[g]
    BY <2>1, <2>3, <2>4 DEF Database, Unread, WithChunks
  <2> HIDE DEF db
  <2>7. OfModel(db, o.model) /\ Fresh(db) /\ UpToDate(db, f) /\ db.files[f] = Missing
    BY <2>1, <2>3, <2>4, <2>5, <2>6 DEF OfModel, Fresh, UpToDate, Unread
  <2>8. /\ n \in Running /\ n.db = db /\ n.model = o.model /\ n.todo = o.todo \ {f}
        /\ n.step = "stat" /\ n.at = f
    BY <2>1, <2>6 DEF Running
  <2> HIDE DEF n
  <2>9. \A g \in n.todo : Unread(db, g)
    <3>1. o.todo \subseteq Files
      BY <2>1 DEF Running
    <3>2. QED
      BY <2>3, <2>6, <2>8, <3>1 DEF Unread
  <2>10. CommandOK(n)
    BY <2>7, <2>8, <2>9 DEF CommandOK
  <2>11. PICK r \in {IndexIdle} \cup Running :
           CommandOK(r) /\ indexRun' = [indexRun EXCEPT ![p] = r]
    BY <2>2, <2>8, <2>10
  <2>12. QED
    BY <1>1, <1>5, <1>6, <2>1, <2>11, CommandStep
<1>13. CASE Register(p)
  <2> DEFINE f == o.at
             db == WithTime(o.db, f)
             next == IF o.todo = {} THEN "embed" ELSE "chunk"
             n == [o EXCEPT !.step = next, !.db = db, !.at = Missing]
  <2>1. /\ At(p, "stat") /\ index' = index /\ compared' = compared
        /\ o.step = "stat" /\ o \in Running /\ o # IndexIdle
    <3>1. At(p, "stat") /\ index' = index /\ compared' = compared
      BY <1>13, Zenon DEF Register
    <3>2. QED
      BY <1>4, <1>5, <3>1
  <2>2. indexRun' = [indexRun EXCEPT ![p] = n]
    BY <1>13 DEF Register, o
  <2>3. /\ o.db \in Database /\ OfModel(o.db, o.model) /\ Fresh(o.db)
        /\ \A g \in o.todo : Unread(o.db, g)
        /\ f \in Files \ o.todo /\ UpToDate(o.db, f)
    BY <1>1, <2>1 DEF CommandOK, Running
  <2>4. /\ Stat(f) \in Time /\ Stat(f) \in stats[f] \cup {NoStat}
        /\ Stat(f) = NoStat => workspace[f] = Missing
    BY <1>1, <2>3 DEF Stat, NoStat, Time, WorldOK
  <2> HIDE DEF f
  <2>5. /\ db \in Database /\ db.source = o.db.source /\ db.chunks = o.db.chunks
        /\ db.files[f] = Stat(f) /\ \A g \in Files \ {f} : db.files[g] = o.db.files[g]
    BY <2>3, <2>4 DEF Database, WithTime
  <2> HIDE DEF db
  <2>6. OfModel(db, o.model) /\ Fresh(db)
    BY <2>3, <2>4, <2>5 DEF OfModel, Fresh, UpToDate
  <2>7. /\ n \in Running /\ n.db = db /\ n.model = o.model /\ n.todo = o.todo
        /\ n.step \in {"embed", "chunk"}
    BY <2>1, <2>5 DEF Running
  <2> HIDE DEF n
  <2>8. \A g \in n.todo : Unread(db, g)
    <3>1. o.todo \subseteq Files
      BY <2>1 DEF Running
    <3>2. QED
      BY <2>3, <2>5, <2>7, <3>1 DEF Unread
  <2>9. CommandOK(n)
    BY <2>6, <2>7, <2>8 DEF CommandOK
  <2>10. PICK r \in {IndexIdle} \cup Running :
           CommandOK(r) /\ indexRun' = [indexRun EXCEPT ![p] = r]
    BY <2>2, <2>7, <2>9
  <2>11. QED
    BY <1>1, <1>5, <1>6, <2>1, <2>10, CommandStep
<1>14. CASE Embed(p)
  <2>1. /\ At(p, "embed") /\ index' = index /\ compared' = compared
        /\ o.step = "embed" /\ o \in Running
    BY <1>4, <1>5, <1>14 DEF Embed
  <2>2. CASE Leave(p)
    BY <1>1, <1>8, <2>1, <2>2
  <2>3. CASE IndexGoTo(p, "save")
    <3>1. [o EXCEPT !.step = "save"] \in Running /\ CommandOK([o EXCEPT !.step = "save"])
      BY <1>1, <2>1, Goes
    <3>2. PICK r \in {IndexIdle} \cup Running :
            CommandOK(r) /\ indexRun' = [indexRun EXCEPT ![p] = r]
      BY <2>3, <3>1, Zenon DEF IndexGoTo, o
    <3>3. QED
      BY <1>1, <1>5, <1>6, <2>1, <3>2, CommandStep
  <2>4. QED
    BY <1>14, <2>2, <2>3 DEF Embed
<1>15. CASE Save(p)
  <2>1. /\ At(p, "save") /\ Leave(p) /\ compared' = compared /\ index' \in {o.db, index}
        /\ o.step = "save" /\ o \in Running /\ o # IndexIdle
    BY <1>4, <1>5, <1>15 DEF Save, o
  <2>2. o.db \in Database /\ OfModel(o.db, o.db.source) /\ Fresh(o.db)
    BY <1>1, <2>1 DEF CommandOK, OfModel, Running
  <2>3. PICK i : IndexOK(i) /\ index' = i
    BY <1>1, <2>1, <2>2 DEF IndexOK
  <2>4. QED
    BY <1>8, <2>1, <2>3
<1>16. CASE Search(p)
  <2>1. /\ At(p, "search") /\ indexRun' = [indexRun EXCEPT ![p] = IndexIdle]
        /\ index' \in {Missing, index} /\ o.step = "search" /\ o \in Running
    BY <1>4, <1>5, <1>16 DEF Search
  <2>2. compared' \subseteq Models \X Models
    <3>1. \A c \in Stored : c.model \in Models
      BY <1>1 DEF Stored, IndexOK, Database, Vector
    <3>2. o.model \in Models
      BY <2>1 DEF Running
    <3>3. QED
      BY <1>1, <1>16, <3>1, <3>2 DEF Search, o
  <2>3. PICK i : IndexOK(i) /\ index' = i
    BY <1>1, <1>7, <2>1
  <2>4. PICK r \in {IndexIdle} \cup Running :
          CommandOK(r) /\ indexRun' = [indexRun EXCEPT ![p] = r]
    BY <1>3, <2>1
  <2>5. QED
    BY <1>5, <1>6, <2>1, <2>2, <2>3, <2>4, CommandStep
<1>17. QED
  BY <1>9, <1>10, <1>11, <1>12, <1>13, <1>14, <1>15, <1>16

\* The code index: update_index of every command, whatever files and models change
\* meanwhile.
THEOREM CodeIndexInvariant == IndexSpec => []CodeIndexInv
<1> USE CodeIndexAssumption
<1>1. IndexInit => CodeIndexInv
  <2> SUFFICES ASSUME IndexInit PROVE CodeIndexInv
    OBVIOUS
  <2>1. workspace \in [Files -> {Missing, [content |-> 0, size |-> 1, mtime |-> 1]}]
    BY DEF IndexInit
  <2>2. \A f \in Files : Stat(f) \in Time /\ (workspace[f] # Missing => Stat(f) # NoStat)
    <3>1. ASSUME NEW f \in Files
          PROVE Stat(f) \in Time /\ (workspace[f] # Missing => Stat(f) # NoStat)
      <4>1. CASE workspace[f] = Missing
        BY <4>1 DEF Stat, NoStat, Time
      <4>2. CASE workspace[f] # Missing
        <5>1. Stat(f) = [mtime |-> 1, size |-> 1]
          BY <2>1, <4>2 DEF Stat
        <5>2. Stat(f).mtime # NoStat.mtime
          BY <5>1 DEF NoStat
        <5>3. QED
          BY <5>1, <5>2 DEF Time
      <4>3. QED
        BY <4>1, <4>2
    <3>2. QED
      BY <3>1
  <2>3. WorldOK
    BY <2>1, <2>2 DEF WorldOK, IndexInit
  <2>4. IndexOK(index)
    BY DEF IndexInit, IndexOK
  <2>5. \A p \in IndexCommands : CommandOK(indexRun[p])
    BY DEF IndexInit, CommandOK, IndexIdle
  <2>6. QED
    BY <2>3, <2>4, <2>5, IndexParts DEF IndexInit
<1>2. CodeIndexInv /\ [IndexNext]_indexVars => CodeIndexInv'
  <2> SUFFICES ASSUME CodeIndexInv, [IndexNext]_indexVars PROVE CodeIndexInv'
    OBVIOUS
  <2>1. /\ WorldOK /\ IndexOK(index) /\ compared \subseteq Models \X Models
        /\ indexRun \in [IndexCommands -> {IndexIdle} \cup Running]
        /\ \A p \in IndexCommands : CommandOK(indexRun[p])
    BY IndexParts
  <2>2. ASSUME WorldOK', UNCHANGED <<workspace, stats, excused, indexRun, compared>>,
               NEW i, IndexOK(i), index' = i
        PROVE CodeIndexInv'
    <3>1. \A db, f : UpToDate(db, f)' <=> UpToDate(db, f)
      BY <2>2 DEF UpToDate
    <3>2. ASSUME NEW db PROVE Fresh(db)' <=> Fresh(db)
      BY <2>2, <3>1 DEF Fresh, Stat
    <3>3. Decodes' => index' \in Database /\ OfModel(index', index'.source) /\ Fresh(index)'
      <4>1. Fresh(i)' <=> Fresh(i)
        BY <3>2
      <4>2. QED
        BY <2>2, <4>1 DEF IndexOK, Decodes, Fresh
    <3>4. ASSUME NEW p \in IndexCommands PROVE CommandOK(indexRun[p])'
      <4>1. PICK r : r = indexRun[p]
        OBVIOUS
      <4>2. CommandOK(r)
        BY <2>1, <4>1
      <4>3. CommandOK(r)'
        BY <3>1, <3>2, <4>2 DEF CommandOK
      <4>4. QED
        BY <2>2, <4>1, <4>3 DEF CommandOK
    <3>5. /\ indexRun' \in [IndexCommands -> {IndexIdle} \cup Running]
          /\ compared' \subseteq Models \X Models /\ IndexOK(index)'
      BY <2>1, <2>2, <3>3 DEF IndexOK, Decodes
    <3>6. QED
      BY <2>2, <3>4, <3>5, Zenon DEF CodeIndexInv, IndexTypeOK, WorldOK, IndexOK, Decodes
  <2>3. CASE Tick
    <3>1. WorldOK'
      BY <2>1, <2>3 DEF Tick, WorldOK, Stat, NoStat, indexCounts
    <3>2. QED
      BY <2>1, <2>2, <2>3, <3>1 DEF Tick
  <2>4. CASE DamageIndex
    <3>1. WorldOK'
      BY <2>1, <2>4 DEF DamageIndex, Change, WorldOK, Stat, NoStat
    <3>2. IndexOK(Corrupt)
      BY DEF IndexOK
    <3>3. QED
      BY <2>2, <2>4, <3>1, <3>2 DEF DamageIndex, Change
  <2>5. ASSUME NEW m \in Models, ChangeModel(m) PROVE CodeIndexInv'
    <3>1. WorldOK'
      BY <2>1, <2>5 DEF ChangeModel, Change, WorldOK, Stat, NoStat
    <3>2. QED
      BY <2>1, <2>2, <2>5, <3>1 DEF ChangeModel, Change
  <2>6. ASSUME NEW f \in Files, Unlink(f) PROVE CodeIndexInv'
    <3>1. UNCHANGED <<index, indexRun, compared>>
      BY <2>6 DEF Unlink, Change
    <3>2. QED
      BY <2>1, <2>6, <3>1, UnlinkKeeps, WorldStep
  <2>7. ASSUME NEW f \in Files, NEW bytes \in FileSizes, WriteFile(f, bytes)
        PROVE CodeIndexInv'
    <3>1. UNCHANGED <<index, indexRun, compared>>
      BY <2>7 DEF WriteFile
    <3>2. \A p \in IndexCommands :
            indexRun[p].step = "stat" /\ indexRun[p].at = f => f \in excused'
      BY <2>7 DEF WriteFile
    <3>3. WorldOK' /\ \A db \in Database :
            /\ Fresh(db) => Fresh(db)'
            /\ \A g \in Files \ {f} : UpToDate(db, g) => UpToDate(db, g)'
      <4>1. Empty(configured) \in Database
        BY <2>1 DEF Empty, Database, WorldOK
      <4>2. QED
        BY <2>1, <2>7, <4>1, WriteKeeps
    <3>4. QED
      BY <3>1, <3>2, <3>3, WorldStep
  <2>8. ASSUME NEW p \in IndexCommands,
               \/ \E kind \in CommandKinds : BeginCommand(p, kind)
               \/ LoadIndex(p) \/ Walk(p) \/ Register(p) \/ Embed(p) \/ Save(p) \/ Search(p)
               \/ \E f \in Files : Chunk(p, f)
        PROVE CodeIndexInv'
    BY <2>8, CommandPreserves
  <2>9. CASE UNCHANGED indexVars
    <3>1. WorldOK' /\ UNCHANGED <<workspace, stats, excused, indexRun, compared, index>>
      BY <2>1, <2>9 DEF indexVars, worldVars, indexCounts, WorldOK, Stat, NoStat
    <3>2. QED
      BY <2>1, <2>2, <3>1
  <2>10. QED
    BY <2>3, <2>4, <2>5, <2>6, <2>7, <2>8, <2>9 DEF IndexNext
<1>3. QED
  BY <1>1, <1>2, PTL DEF IndexSpec

\* No stored index holds vectors of another model than the one it names, whatever was
\* configured meanwhile and whoever stored an index last (update_index).
THEOREM IndexIsOfOneModel == IndexSpec => []OneModel
<1>1. CodeIndexInv => OneModel
  BY DEF CodeIndexInv, OfModel, OneModel
<1>2. QED
  BY <1>1, CodeIndexInvariant, PTL

\* What the next update would not read again is of the content the file has, unless
\* its change could not be seen in time and size (update_index).
THEOREM IndexIsNotStale == IndexSpec => []NoStaleEntry
<1>1. CodeIndexInv => NoStaleEntry
  BY DEF CodeIndexInv, Fresh, UpToDate, Changed, NoStaleEntry
<1>2. QED
  BY <1>1, CodeIndexInvariant, PTL
-----------------------------------------------------------------------------
(* CausalGraph.                                                             *)

\* Every edge leaves a process, for another or for something a snapshot names, or for
\* the disk a process without resources is taken to wait for (build_graph).
LEMMA EdgeEnds ==
    ASSUME rate \in Snapshots
    PROVE  \A e \in Edges :
             /\ e.from \in Proc
             /\ e.to \in Proc \cup Resource \cup {CHOOSE d \in MostActive : TRUE}
<1> DEFINE disk0 == CHOOSE d \in MostActive : TRUE
           HasEnds(e) == e.from \in Proc /\ e.to \in Proc \cup Resource \cup {disk0}
<1>1. ASSUME NEW p \in Proc PROVE Mapped(p) \subseteq Resource
  <2>1. rate[p].opens \subseteq Resource
    BY GraphAssumption
  <2>2. QED
    BY <2>1 DEF Mapped
<1>2. ASSUME NEW p \in Proc, NEW e \in AccessEdges(p) PROVE HasEnds(e)
  <2>1. PICK r \in Mapped(p) :
          e = Edge(p, r, IF rate[p].writes THEN "writes to" ELSE "reads from", 1)
    BY <1>2 DEF AccessEdges
  <2>2. e.from = p /\ e.to = r
    BY <2>1 DEF Edge
  <2>3. QED
    BY <1>1, <2>2
<1>3. ASSUME NEW p \in Proc, NEW e \in BlockEdges(p) PROVE HasEnds(e)
  <2>1. PICK r \in IF Mapped(p) # {} THEN Mapped(p) ELSE {disk0} :
          e = Edge(p, r, "blocked on", 1)
    BY <1>3 DEF BlockEdges
  <2> HIDE DEF disk0
  <2>2. r \in Resource \cup {disk0}
    BY <1>1, <2>1
  <2>3. QED
    BY <2>1, <2>2 DEF Edge
<1>4. ASSUME NEW e \in Accesses PROVE HasEnds(e)
  <2>1. PICK p \in Proc : e \in AccessEdges(p) \cup BlockEdges(p)
    BY <1>4 DEF Accesses
  <2>2. QED
    BY <1>2, <1>3, <2>1
<1>5. ASSUME NEW e \in ContendEdges PROVE HasEnds(e)
  <2>1. PICK pair \in Accesses \X Accesses : e = Edge(pair[1].from, pair[2].from, "contends with", 1)
    BY <1>5 DEF ContendEdges
  <2>2. pair[1].from \in Proc /\ pair[2].from \in Proc
    BY <1>4, <2>1
  <2>3. QED
    BY <2>1, <2>2 DEF Edge
<1>6. ASSUME NEW p \in Proc, NEW e \in ParentEdges(p) PROVE HasEnds(e)
  <2>1. rate[p].parent # NoProcess /\ e = Edge(p, rate[p].parent, "spawned by", 1)
    BY <1>6 DEF ParentEdges
  <2>2. rate[p].parent \in Proc
    BY <2>1, GraphAssumption
  <2>3. QED
    BY <2>1, <2>2 DEF Edge
<1>7. ASSUME NEW p \in Proc, NEW e \in TracedEdges(p) PROVE HasEnds(e)
  <2>1. PICK i \in DOMAIN rate[p].traced : e = Edge(p, rate[p].traced[i], "reads from", i + 1)
    BY <1>7 DEF TracedEdges
  <2>2. rate[p].traced \in Seq(Resource)
    BY GraphAssumption
  <2>3. \A log \in Seq(Resource) : \A j \in DOMAIN log : log[j] \in Resource
    OBVIOUS
  <2>4. QED
    BY <2>1, <2>2, <2>3 DEF Edge
<1>8. ASSUME NEW e \in Edges PROVE HasEnds(e)
  <2>1. \/ e \in Accesses \/ e \in ContendEdges
        \/ \E p \in Proc : e \in ParentEdges(p) \/ e \in TracedEdges(p)
    BY <1>8 DEF Edges
  <2>2. QED
    BY <1>4, <1>5, <1>6, <1>7, <2>1
<1>9. QED
  BY <1>8

\* The graph is a function of the snapshots alone: the search does not change it.
LEMMA SameGraph == ASSUME UNCHANGED <<rate, disk>> PROVE Edges' = Edges
<1>1. MostActive' = MostActive
  BY DEF MostActive
<1>2. (CHOOSE d \in MostActive : TRUE)' = CHOOSE d \in MostActive : TRUE
  BY <1>1
<1>3. ASSUME NEW p
      PROVE  /\ Mapped(p)' = Mapped(p) /\ ParentEdges(p)' = ParentEdges(p)
             /\ TracedEdges(p)' = TracedEdges(p)
  BY DEF Mapped, ActiveFiles, ParentEdges, TracedEdges
<1>4. ASSUME NEW p PROVE AccessEdges(p)' = AccessEdges(p) /\ BlockEdges(p)' = BlockEdges(p)
  BY <1>2, <1>3 DEF AccessEdges, BlockEdges
<1>5. Accesses' = Accesses
  BY <1>4 DEF Accesses
<1>6. ContendEdges' = ContendEdges
  BY <1>5 DEF ContendEdges
<1>7. QED
  BY <1>3, <1>5, <1>6 DEF Edges

\* The causes of a process are finitely many (trace_root_cause).
LEMMA FewCauses ==
    ASSUME edges = Edges, rate \in Snapshots, NEW p \in Proc
    PROVE  IsFiniteSet(CausesOf(p))
<1> DEFINE disk0 == CHOOSE d \in MostActive : TRUE
           Known == Proc \cup Resource \cup {disk0}
<1>1. IsFiniteSet(Known)
  BY GraphAssumption, FS_AddElement
<1>2. \A e \in edges : e.to \in Known
  BY EdgeEnds
<1> HIDE DEF Known
<1>3. CausesOf(p) \subseteq Known
  BY <1>2 DEF CausesOf
<1>4. QED
  BY <1>1, <1>3, FS_Subset

\* Expanding the head of the queue puts what was found behind the rest, and every
\* node once found is expanded or waits (trace_root_cause).
LEMMA VisitStep ==
    ASSUME queue \in Seq(visited), path \in Seq(visited), queue # <<>>,
           visited = {path[i] : i \in DOMAIN path} \cup {queue[i] : i \in DOMAIN queue},
           path' = Append(path, Head(queue)),
           NEW found, IsFiniteSet(found), Visit(found)
    PROVE  /\ visited \subseteq visited' /\ found \subseteq visited'
           /\ queue' \in Seq(visited') /\ path' \in Seq(visited')
           /\ visited' = {path'[i] : i \in DOMAIN path'} \cup {queue'[i] : i \in DOMAIN queue'}
<1> DEFINE new == found \ visited
<1>1. visited' = visited \cup found
  BY DEF Visit
<1>2. Cardinality(new) \in Nat
  BY FS_Subset, FS_CardinalityType
<1>3. PICK order \in Orders(new) : queue' = Tail(queue) \o order
  BY DEF Visit
<1>4. order \in Seq(new) /\ Len(order) = Cardinality(new) /\ DOMAIN order = 1..Len(order)
  <2>1. order \in [1..Cardinality(new) -> new]
    BY <1>3 DEF Orders
  <2>2. order \in Seq(new)
    <3> HIDE DEF new
    <3>1. QED
      BY <1>2, <2>1, SeqDef
  <2>3. QED
    BY <1>2, <2>1, <2>2
<1>5. \A n \in new : \E i \in 1..Len(order) : order[i] = n
  BY <1>3, <1>4 DEF Orders
<1>6. /\ Head(queue) = queue[1] /\ Tail(queue) \in Seq(visited)
      /\ Len(queue) \in Nat /\ Len(queue) >= 1
      /\ Len(Tail(queue)) = Len(queue) - 1
      /\ \A i \in 1..Len(Tail(queue)) : Tail(queue)[i] = queue[i + 1]
  BY HeadTailProperties
<1>7. Tail(queue) \in Seq(visited') /\ order \in Seq(visited')
  BY <1>1, <1>4, <1>6
<1>8. queue' \in Seq(visited') /\ Len(queue') = Len(Tail(queue)) + Len(order)
  BY <1>3, <1>7
<1>9. /\ \A i \in 1..Len(Tail(queue)) : queue'[i] = queue[i + 1]
      /\ \A i \in 1..Len(order) : queue'[Len(Tail(queue)) + i] = order[i]
  BY <1>3, <1>6, <1>7
<1>10. /\ path' \in Seq(visited') /\ Len(path') = Len(path) + 1
       /\ \A i \in 1..Len(path) : path'[i] = path[i]
       /\ path'[Len(path) + 1] = queue[1]
  BY <1>1, <1>6
<1>11. ASSUME NEW n \in visited'
       PROVE  (\E i \in 1..Len(path') : path'[i] = n) \/ \E i \in 1..Len(queue') : queue'[i] = n
  <2>1. CASE \E i \in 1..Len(path) : path[i] = n
    BY <2>1, <1>10
  <2>2. CASE n = queue[1]
    BY <2>2, <1>10
  <2>3. CASE \E i \in 2..Len(queue) : queue[i] = n
    <3>1. PICK i \in 2..Len(queue) : queue[i] = n
      BY <2>3
    <3>2. i - 1 \in 1..Len(Tail(queue)) /\ queue'[i - 1] = n
      BY <3>1, <1>6, <1>9
    <3>3. i - 1 \in 1..Len(queue')
      BY <3>2, <1>4, <1>6, <1>8
    <3>4. QED
      BY <3>2, <3>3
  <2>4. CASE n \in new
    <3> DEFINE rest == Len(Tail(queue))
    <3>1. PICK i \in 1..Len(order) : order[i] = n
      BY <2>4, <1>5
    <3>2. rest \in Nat /\ Len(order) \in Nat /\ Len(queue') = rest + Len(order)
      BY <1>4, <1>6, <1>8
    <3>3. queue'[rest + i] = n
      BY <3>1, <1>9
    <3> HIDE DEF rest
    <3>4. rest + i \in 1..Len(queue')
      BY <3>2
    <3>5. QED
      BY <3>3, <3>4
  <2>5. n \in visited => \/ \E i \in 1..Len(path) : path[i] = n
                         \/ \E i \in 1..Len(queue) : queue[i] = n
    <3>1. DOMAIN path = 1..Len(path) /\ DOMAIN queue = 1..Len(queue)
      OBVIOUS
    <3>2. QED
      BY <3>1
  <2>6. QED
    BY <1>1, <1>6, <2>1, <2>2, <2>3, <2>4, <2>5
<1>12. /\ DOMAIN path' = 1..Len(path') /\ DOMAIN queue' = 1..Len(queue')
       /\ \A i \in DOMAIN path' : path'[i] \in visited'
       /\ \A i \in DOMAIN queue' : queue'[i] \in visited'
  BY <1>8, <1>10
<1>13. visited' = {path'[i] : i \in DOMAIN path'} \cup {queue'[i] : i \in DOMAIN queue'}
  BY <1>11, <1>12
<1>14. QED
  BY <1>1, <1>8, <1>10, <1>13

\* The search keeps its frontier (GraphInv).
THEOREM GraphInvariant == GraphSpec => []GraphInv
<1>1. GraphInit => GraphInv
  BY DEF GraphInit, GraphInv, FrontierInv
<1>2. GraphInv /\ [GraphNext]_graphVars => GraphInv'
  <2> SUFFICES ASSUME GraphInv, [GraphNext]_graphVars PROVE GraphInv'
    OBVIOUS
  <2> USE DEF GraphInv
  <2>1. UNCHANGED <<rate, disk, edges>>
    BY DEF GraphNext, ExpandProcess, ExpandResource, Expand, graphVars
  <2>2. edges' = Edges' /\ rate' \in Snapshots /\ disk' \in Disks
    BY <2>1, SameGraph
  <2>3. \A n : CausesOf(n)' = CausesOf(n) /\ Top3(n)' = Top3(n)
    BY <2>1 DEF CausesOf, Suspicious, Anomalous, AnomalousProcess, AnomalousDevice, Top3, Users
  <2>4. ASSUME Expand, NEW found, IsFiniteSet(found), Visit(found),
               LET n == Head(queue)
               IN  /\ n \in Proc \cup Resource
                   /\ n \in Proc => CausesOf(n) \subseteq found
                   /\ n \in Resource => \E T \in Top3(n) : {e.from : e \in T} \subseteq found
        PROVE  GraphInv'
    <3>1. queue # <<>> /\ path' = Append(path, Head(queue))
      BY <2>4 DEF Expand
    <3>2. /\ visited \subseteq visited' /\ found \subseteq visited'
          /\ queue' \in Seq(visited') /\ path' \in Seq(visited')
          /\ visited' = {path'[i] : i \in DOMAIN path'} \cup {queue'[i] : i \in DOMAIN queue'}
      BY <2>4, <3>1, VisitStep DEF FrontierInv
    <3>3. ASSUME NEW i \in DOMAIN path'
          PROVE  /\ path'[i] \in Proc \cup Resource
                 /\ path'[i] \in Proc => CausesOf(path'[i]) \subseteq visited'
                 /\ path'[i] \in Resource =>
                      \E T \in Top3(path'[i]) : {e.from : e \in T} \subseteq visited'
      <4>1. CASE i \in DOMAIN path
        <5>1. path'[i] = path[i]
          BY <3>1, <4>1
        <5>2. QED
          BY <3>2, <4>1, <5>1 DEF FrontierInv
      <4>2. CASE i \notin DOMAIN path
        <5>1. path'[i] = Head(queue)
          BY <3>1, <4>2
        <5>2. QED
          BY <2>4, <3>2, <5>1
      <4>3. QED
        BY <4>1, <4>2
    <3>4. QED
      BY <2>2, <2>3, <3>2, <3>3 DEF FrontierInv
  <2>5. CASE ExpandProcess
    <3>1. Head(queue) \in Proc /\ IsFiniteSet(CausesOf(Head(queue)))
      BY <2>5, FewCauses DEF ExpandProcess
    <3>2. QED
      BY <2>4, <2>5, <3>1, GraphAssumption DEF ExpandProcess
  <2>6. CASE ExpandResource
    <3>1. PICK T \in Top3(Head(queue)) : Visit({e.from : e \in T})
      BY <2>6 DEF ExpandResource
    <3>2. {e.from : e \in T} \subseteq Proc
      BY EdgeEnds DEF Top3, Users
    <3>3. IsFiniteSet({e.from : e \in T})
      BY <3>2, GraphAssumption, FS_Subset
    <3>4. QED
      BY <2>4, <2>6, <3>1, <3>3, GraphAssumption DEF ExpandResource
  <2>7. CASE UNCHANGED graphVars
    BY <2>2, <2>3, <2>7 DEF graphVars, FrontierInv
  <2>8. QED
    BY <2>5, <2>6, <2>7 DEF GraphNext
<1>3. QED
  BY <1>1, <1>2, PTL DEF GraphSpec

\* When the search ends, no cause of a process on the path is missing, whatever order
\* the hash maps have (trace_root_cause).
THEOREM CausesAreFound == GraphSpec => []NoCauseMissed
<1>1. GraphInv => NoCauseMissed
  <2> SUFFICES ASSUME GraphInv, queue = <<>>, NEW e \in edges, OnPath(e.from), ~IsAccess(e)
               PROVE  OnPath(e.to)
    BY DEF NoCauseMissed
  <2>1. PICK i \in DOMAIN path : path[i] = e.from
    BY DEF OnPath
  <2>2. e.from \in Proc
    BY EdgeEnds DEF GraphInv
  <2>3. e.to \in CausesOf(e.from)
    BY DEF CausesOf
  <2>4. e.to \in visited
    BY <2>1, <2>2, <2>3 DEF GraphInv, FrontierInv
  <2>5. visited = {path[j] : j \in DOMAIN path}
    BY DEF GraphInv, FrontierInv
  <2>6. QED
    BY <2>4, <2>5 DEF OnPath
<1>2. QED
  BY <1>1, GraphInvariant, PTL

\* Without a log a process uses a resource once, however many descriptors it has
\* (build_graph).
LEMMA UsesOnce ==
    ASSUME edges = Edges, Untraced, NEW r, NEW e \in Users(r), NEW f \in Users(r),
           e.from = f.from
    PROVE  e = f
<1>1. ASSUME NEW u \in Users(r)
      PROVE  LET kind == IF rate[u.from].writes THEN "writes to" ELSE "reads from"
             IN  u = Edge(u.from, r, kind, 1)
  <2>1. u \in Edges /\ u.to = r /\ u.kind \in {"reads from", "writes to"}
    BY <1>1 DEF Users, IsAccess
  <2>2. ASSUME NEW p \in Proc PROVE TracedEdges(p) = {}
    <3>1. DOMAIN rate[p].traced = {}
      BY DEF Untraced
    <3>2. QED
      BY <3>1 DEF TracedEdges
  <2>3. ASSUME NEW g, NEW p, NEW q, NEW kind, g = Edge(p, q, kind, 1) PROVE g.kind = kind
    BY <2>3 DEF Edge
  <2>4. u \notin ContendEdges
    <3>1. ASSUME u \in ContendEdges PROVE u.kind = "contends with"
      <4>1. PICK p, q : u = Edge(p, q, "contends with", 1)
        BY <3>1 DEF ContendEdges
      <4>2. QED
        BY <2>3, <4>1
    <3>2. QED
      BY <2>1, <3>1
  <2>5. ASSUME NEW p \in Proc PROVE u \notin BlockEdges(p) \cup ParentEdges(p)
    <3>1. ASSUME u \in BlockEdges(p) PROVE u.kind = "blocked on"
      <4>1. PICK q : u = Edge(p, q, "blocked on", 1)
        BY <3>1 DEF BlockEdges
      <4>2. QED
        BY <2>3, <4>1
    <3>2. ASSUME u \in ParentEdges(p) PROVE u.kind = "spawned by"
      <4>1. u = Edge(p, rate[p].parent, "spawned by", 1)
        BY <3>2 DEF ParentEdges
      <4>2. QED
        BY <2>3, <4>1
    <3>3. QED
      BY <2>1, <3>1, <3>2
  <2>6. PICK p \in Proc : u \in AccessEdges(p) \cup BlockEdges(p) \cup ParentEdges(p)
    BY <2>1, <2>2, <2>4 DEF Edges, Accesses
  <2>7. u \in AccessEdges(p)
    BY <2>5, <2>6
  <2>8. PICK q \in Mapped(p) :
          u = Edge(p, q, IF rate[p].writes THEN "writes to" ELSE "reads from", 1)
    BY <2>7 DEF AccessEdges
  <2>9. u.from = p /\ u.to = q
    BY <2>8 DEF Edge
  <2>10. QED
    BY <2>1, <2>8, <2>9
<1>2. QED
  BY <1>1

\* Without a log the three busiest users of a resource on the path are found, or all
\* there are, whatever the order among equals (trace_root_cause).
THEOREM BusiestAreFound == GraphSpec => []ThreeBusiestUntraced
<1>1. GraphInv => ThreeBusiestUntraced
  <2> SUFFICES ASSUME GraphInv, Untraced, NEW i \in DOMAIN path, path[i] \in Resource,
                      NEW p \in UsedBy(path[i]) \ visited
               PROVE  Cardinality({q \in UsedBy(path[i]) \cap visited :
                                     rate[q].io >= rate[p].io}) >= 3
    BY DEF ThreeBusiestUntraced, ThreeBusiest
  <2> DEFINE r == path[i]
             busier == {q \in UsedBy(r) \cap visited : rate[q].io >= rate[p].io}
  <2>1. /\ edges = Edges /\ rate \in Snapshots
        /\ \A e, f \in Users(r) : e.from = f.from => e = f
        /\ \A e \in Users(r) : e.from \in Proc
    BY UsesOnce, EdgeEnds DEF GraphInv, Users
  <2>2. PICK T \in Top3(r) : {e.from : e \in T} \subseteq visited
    BY DEF GraphInv, FrontierInv
  <2>3. PICK f \in Users(r) : f.from = p
    BY DEF UsedBy
  <2>4. f \notin T
    BY <2>2, <2>3
  <2>5. IsFiniteSet(Proc)
    BY GraphAssumption, FS_Subset
  <2>6. IsFiniteSet(Users(r))
    <3> DEFINE from == [e \in Users(r) |-> e.from]
    <3>1. from \in Injection(Users(r), Proc)
      BY <2>1 DEF Injection, IsInjective
    <3>2. QED
      BY <2>5, <3>1, FS_Injection
  <2>7. T \subseteq Users(r) /\ IsFiniteSet(T) /\ Cardinality(T) = 3
    <3>1. /\ T \subseteq Users(r)
          /\ Cardinality(T) = IF Cardinality(Users(r)) < 3 THEN Cardinality(Users(r)) ELSE 3
      BY <2>2 DEF Top3
    <3>2. Cardinality(Users(r)) # Cardinality(T)
      BY <2>3, <2>4, <2>6, <3>1, FS_Subset
    <3>3. QED
      BY <2>6, <3>1, <3>2, FS_Subset
  <2>8. \A e \in T : rate[e.from].io >= rate[p].io
    <3>1. \A e \in T : rate[p].io <= rate[e.from].io
      BY <2>2, <2>3, <2>4 DEF Top3
    <3>2. \A q \in Proc : rate[q].io \in Int
      BY <2>1, GraphAssumption DEF Quiet, Excessive
    <3>3. QED
      BY <2>1, <2>3, <2>7, <3>1, <3>2
  <2>9. {e.from : e \in T} \subseteq busier
    BY <2>2, <2>7, <2>8 DEF UsedBy
  <2>10. Cardinality({e.from : e \in T}) = 3
    <3> DEFINE from == [e \in T |-> e.from]
    <3>1. from \in Injection(T, {e.from : e \in T}) /\ from \in Surjection(T, {e.from : e \in T})
      BY <2>1, <2>7 DEF Injection, IsInjective, Surjection
    <3>2. QED
      BY <2>7, <3>1, FS_Surjection
  <2>11. IsFiniteSet(busier)
    <3>1. busier \subseteq Proc
      BY <2>1 DEF UsedBy
    <3>2. QED
      BY <2>5, <3>1, FS_Subset
  <2>12. Cardinality({e.from : e \in T}) <= Cardinality(busier) /\ Cardinality(busier) \in Nat
    <3> HIDE DEF busier
    <3>1. QED
      BY <2>9, <2>11, FS_Subset, FS_CardinalityType
  <2>13. QED
    BY <2>10, <2>12
<1>2. QED
  BY <1>1, GraphInvariant, PTL

-----------------------------------------------------------------------------
(* MdStreamer.                                                              *)

\* Every marker but the heading of level three fits the lookahead.
ShortMark(m) == m \in Seq(MarkSymbol) /\ Len(m) \in 1..3

LEMMA Marks ==
    /\ \A i \in 1..7 : ShortMark(Toggle[i].mark) /\ Toggle[i].switch \in Switches
    /\ \A i \in 1..5 : i # 1 => ShortMark(LineMark[i])
    /\ \A i \in 1..5 : LineMark[i] \in Seq(MarkSymbol) /\ Len(LineMark[i]) \in 1..4
    /\ LineMark[1] \in Seq(MarkSymbol) /\ Len(LineMark[1]) = 4
    /\ \A i \in 1..2 : ShortMark(ToggleLast[i].mark) /\ ToggleLast[i].switch \in Switches
    /\ DOMAIN Toggle = 1..7 /\ DOMAIN LineMark = 1..5 /\ DOMAIN ToggleLast = 1..2
<1>1. \A a \in MarkSymbol : ShortMark(<<a>>)
  BY DEF ShortMark
<1>2. \A a, b \in MarkSymbol : ShortMark(<<a, b>>)
  BY DEF ShortMark
<1>3. \A a, b, c \in MarkSymbol : ShortMark(<<a, b, c>>)
  BY DEF ShortMark
<1>4. {"tick", "dollar", "backslash", "[", "]", "(", ")", "star", "hash", "dash", "space"}
        \subseteq MarkSymbol
  BY DEF MarkSymbol
<1> DEFINE Fits(r) == ShortMark(r.mark) /\ r.switch \in Switches
<1>5. \A i \in 1..7 : Fits(Toggle[i])
  <2>1. Fits(Toggle[1])
    <3>1. Toggle[1].mark = <<"tick", "tick", "tick">> /\ Toggle[1].switch = "code block"
      BY DEF Toggle
    <3>2. QED
      BY <1>3, <1>4, <3>1 DEF Switches
  <2>2. \A i \in 2..7 : Fits(Toggle[i])
    <3>1. /\ Toggle[2].mark = <<"dollar", "dollar">> /\ Toggle[2].switch = "math block"
          /\ Toggle[3].mark = <<"backslash", "[">> /\ Toggle[3].switch = "math block"
          /\ Toggle[4].mark = <<"backslash", "]">> /\ Toggle[4].switch = "math block"
          /\ Toggle[5].mark = <<"backslash", "(">> /\ Toggle[5].switch = "math inline"
          /\ Toggle[6].mark = <<"backslash", ")">> /\ Toggle[6].switch = "math inline"
          /\ Toggle[7].mark = <<"star", "star">> /\ Toggle[7].switch = "bold"
      BY DEF Toggle
    <3>2. ShortMark(<<"dollar", "dollar">>) /\ ShortMark(<<"star", "star">>)
      BY <1>2, <1>4
    <3>3. /\ ShortMark(<<"backslash", "[">>) /\ ShortMark(<<"backslash", "]">>)
          /\ ShortMark(<<"backslash", "(">>) /\ ShortMark(<<"backslash", ")">>)
      BY <1>2, <1>4
    <3>4. {"math block", "math inline", "bold"} \subseteq Switches
      BY DEF Switches
    <3>5. Fits(Toggle[2]) /\ Fits(Toggle[3]) /\ Fits(Toggle[4])
      BY <3>1, <3>2, <3>3, <3>4, Zenon
    <3>6. Fits(Toggle[5]) /\ Fits(Toggle[6]) /\ Fits(Toggle[7])
      BY <3>1, <3>2, <3>3, <3>4, Zenon
    <3> HIDE DEF Fits
    <3>7. QED
      BY <3>5, <3>6
  <2> HIDE DEF Fits
  <2>3. QED
    BY <2>1, <2>2
<1>6. /\ ShortMark(LineMark[2]) /\ ShortMark(LineMark[3])
      /\ ShortMark(LineMark[4]) /\ ShortMark(LineMark[5])
  <2>1. /\ LineMark[2] = <<"hash", "hash", "space">> /\ LineMark[3] = <<"hash", "space">>
        /\ LineMark[4] = <<"dash", "space">> /\ LineMark[5] = <<"star", "space">>
    BY DEF LineMark
  <2>2. ShortMark(LineMark[2]) /\ ShortMark(LineMark[3])
    BY <1>2, <1>3, <1>4, <2>1
  <2>3. ShortMark(LineMark[4]) /\ ShortMark(LineMark[5])
    BY <1>2, <1>4, <2>1
  <2>4. QED
    BY <2>2, <2>3
<1>7. LineMark[1] \in Seq(MarkSymbol) /\ Len(LineMark[1]) = 4
  BY DEF LineMark, MarkSymbol
<1>8. Fits(ToggleLast[1]) /\ Fits(ToggleLast[2])
  <2>1. /\ ToggleLast[1].mark = <<"tick">> /\ ToggleLast[1].switch = "inline code"
        /\ ToggleLast[2].mark = <<"dollar">> /\ ToggleLast[2].switch = "math inline"
    BY DEF ToggleLast
  <2>2. QED
    BY <1>1, <1>4, <2>1 DEF Switches
<1>9. DOMAIN Toggle = 1..7 /\ DOMAIN LineMark = 1..5 /\ DOMAIN ToggleLast = 1..2
  BY DEF Toggle, LineMark, ToggleLast
<1>10. \A i \in 1..5 : i # 1 => ShortMark(LineMark[i])
  <2>1. \A i \in 1..5 : i = 1 \/ i = 2 \/ i = 3 \/ i = 4 \/ i = 5
    OBVIOUS
  <2>2. QED
    BY <1>6, <2>1, Zenon
<1>11. \A i \in 1..5 : LineMark[i] \in Seq(MarkSymbol) /\ Len(LineMark[i]) \in 1..4
  BY <1>7, <1>10 DEF ShortMark
<1>12. \A i \in 1..2 : Fits(ToggleLast[i])
  <2> HIDE DEF Fits
  <2>1. QED
    BY <1>8
<1> QED
  BY <1>5, <1>7, <1>9, <1>10, <1>11, <1>12

LEMMA PrefixMeans ==
    ASSUME NEW R, NEW S, NEW s \in Seq(R), NEW t \in Seq(S)
    PROVE IsPrefix(s, t) <=> Len(s) <= Len(t) /\ \A i \in 1..Len(s) : s[i] = t[i]
<1>1. CASE Len(s) <= Len(t)
  <2> DEFINE u == SubSeq(t, 1, Len(s))
  <2>1. u \in Seq(S) /\ Len(u) = Len(s) /\ \A i \in 1..Len(s) : u[i] = t[i]
    BY <1>1
  <2>2. SubSeq(s, 1, Len(s)) = s
    OBVIOUS
  <2> HIDE DEF u
  <2>3. s = u <=> \A i \in 1..Len(s) : s[i] = t[i]
    <3>1. ASSUME \A i \in 1..Len(s) : s[i] = t[i] PROVE s = u
      BY <2>1, <3>1
    <3>2. QED
      BY <2>1, <3>1
  <2>4. QED
    BY <1>1, <2>2, <2>3 DEF IsPrefix, u
<1>2. QED
  BY <1>1 DEF IsPrefix

LEMMA PrefixTransitive ==
    ASSUME NEW R, NEW S, NEW r \in Seq(R), NEW s \in Seq(S), NEW t \in Seq(S),
           IsPrefix(r, s), IsPrefix(s, t)
    PROVE IsPrefix(r, t)
<1>1. \A Q : \A q \in Seq(Q) : Len(q) \in Nat
  OBVIOUS
<1>2. Len(r) \in Nat /\ Len(s) \in Nat /\ Len(t) \in Nat
  BY <1>1
<1>3. Len(r) <= Len(s) /\ \A i \in 1..Len(r) : r[i] = s[i]
  BY PrefixMeans
<1>4. Len(s) <= Len(t) /\ \A i \in 1..Len(s) : s[i] = t[i]
  BY PrefixMeans
<1>5. Len(r) <= Len(t) /\ \A i \in 1..Len(r) : r[i] = t[i]
  BY <1>2, <1>3, <1>4
<1>6. QED
  BY <1>5, PrefixMeans

LEMMA PrefixHead ==
    ASSUME NEW S, NEW s \in Seq(S), NEW t \in Seq(S), IsPrefix(s, t), s # <<>>
    PROVE Head(s) = Head(t)
<1>1. Len(s) <= Len(t) /\ \A i \in 1..Len(s) : s[i] = t[i]
  BY PrefixMeans
<1>2. Len(s) \in Nat /\ Len(t) \in Nat /\ Len(s) # 0
  BY EmptySeq
<1>3. Len(t) # 0 /\ 1 \in 1..Len(s)
  BY <1>1, <1>2
<1>4. Head(s) = s[1] /\ Head(t) = t[1]
  BY <1>3
<1>5. QED
  BY <1>1, <1>3, <1>4

\* What decides whether a short marker comes next is there.
LEMMA MarkIsSeen ==
    ASSUME NEW s \in Seq(Symbol), NEW t \in Seq(Symbol), IsPrefix(s, t),
           Bytes(s) >= Lookahead \/ s = t, NEW m, ShortMark(m)
    PROVE IsPrefix(m, s) <=> IsPrefix(m, t)
<1> USE DEF ShortMark
<1>1. Len(s) \in Nat /\ Len(t) \in Nat /\ Len(s) <= Len(t) /\ \A i \in 1..Len(s) : s[i] = t[i]
  BY PrefixMeans
<1>2. IsPrefix(m, s) <=> Len(m) <= Len(s) /\ \A i \in 1..Len(m) : m[i] = s[i]
  BY PrefixMeans
<1>3. IsPrefix(m, t) <=> Len(m) <= Len(t) /\ \A i \in 1..Len(m) : m[i] = t[i]
  BY PrefixMeans
<1>4. IsPrefix(m, s) => IsPrefix(m, t)
  BY <1>1, <1>2, <1>3
<1>5. ASSUME IsPrefix(m, t), Len(s) < Len(m) PROVE s = t
  <2>1. \A i \in DOMAIN s : s[i] \in MarkSymbol
    BY <1>1, <1>3, <1>5
  <2>2. {i \in DOMAIN s : s[i] \in Wide} = {}
    BY <2>1, StreamerAssumption
  <2> DEFINE wide == {i \in DOMAIN s : s[i] \in Wide}
  <2>3. Cardinality(wide) = 0
    BY <2>2, FS_EmptySet
  <2> HIDE DEF wide
  <2>4. Bytes(s) = Len(s)
    BY <1>1, <2>3 DEF Bytes, wide
  <2>5. QED
    BY <1>1, <1>5, <2>4, StreamerAssumption
<1>6. QED
  BY <1>1, <1>2, <1>3, <1>4, <1>5

LEMMA EarliestOfSome ==
    ASSUME NEW N \in Nat, NEW S, S \subseteq 1..N, S # {}
    PROVE Earliest(S) \in S
<1>1. \E i \in S : \A j \in S : i <= j
  <2> SUFFICES ASSUME \A i \in S : \E j \in S : ~(i <= j) PROVE FALSE
    OBVIOUS
  <2> DEFINE G == {n \in 0..N : \A j \in S : n < j}
  <2>1. 0 \in G
    OBVIOUS
  <2>2. ASSUME NEW n \in 1..N, n - 1 \in G PROVE n \in G
    BY <2>2
  <2>3. \A n \in 0..N : n \in G
    <3> HIDE DEF G
    <3>1. QED
      BY <2>1, <2>2, UpTo
  <2>4. \A j \in S : N < j
    BY <2>3
  <2>5. PICK j \in S : TRUE
    OBVIOUS
  <2>6. j \in 1..N /\ N < j
    BY <2>4, <2>5
  <2>7. QED
    BY <2>6
<1>2. QED
  BY <1>1 DEF Earliest

\* The renderer sees the same marks in what has come as in the whole text, unless the
\* longest one follows.
LEMMA RenderAgrees ==
    ASSUME NEW s \in Seq(Symbol), NEW t \in Seq(Symbol), IsPrefix(s, t), s # <<>>,
           Bytes(s) >= Lookahead \/ s = t, NEW m,
           ~(m["line start"] /\ IsPrefix(LineMark[1], t))
    PROVE Render(s, m) = Render(t, m)
<1> DEFINE toggles(u) == {i \in DOMAIN Toggle : IsPrefix(Toggle[i].mark, u)}
           lines(u) == {i \in DOMAIN LineMark : m["line start"] /\ IsPrefix(LineMark[i], u)}
           last(u) == {i \in DOMAIN ToggleLast : IsPrefix(ToggleLast[i].mark, u)}
<1>1. toggles(s) = toggles(t)
  <2>1. \A i \in DOMAIN Toggle : IsPrefix(Toggle[i].mark, s) <=> IsPrefix(Toggle[i].mark, t)
    BY Marks, MarkIsSeen
  <2>2. QED
    BY <2>1, Zenon
<1>2. last(s) = last(t)
  <2>1. \A i \in DOMAIN ToggleLast :
          IsPrefix(ToggleLast[i].mark, s) <=> IsPrefix(ToggleLast[i].mark, t)
    BY Marks, MarkIsSeen
  <2>2. QED
    BY <2>1, Zenon
<1>3. lines(s) = lines(t)
  <2>1. ASSUME m["line start"], NEW i \in DOMAIN LineMark
        PROVE IsPrefix(LineMark[i], s) <=> IsPrefix(LineMark[i], t)
    <3>1. CASE i = 1
      <4>1. ~IsPrefix(LineMark[1], t)
        BY <2>1
      <4>2. LineMark[1] \in Seq(MarkSymbol)
        BY <3>1, Marks
      <4>3. IsPrefix(LineMark[1], s) => IsPrefix(LineMark[1], t)
        BY <4>2, PrefixTransitive
      <4>4. QED
        BY <3>1, <4>1, <4>3
    <3>2. CASE i # 1
      <4>1. ShortMark(LineMark[i])
        BY <3>2, Marks
      <4>2. QED
        BY <4>1, MarkIsSeen
    <3>3. QED
      BY <3>1, <3>2
  <2>2. QED
    BY <2>1, Zenon
<1>4. Head(s) = Head(t)
  BY PrefixHead
<1>5. \A u : Render(u, m) =
        CASE toggles(u) # {} -> Toggled(Toggle[Earliest(toggles(u))], m)
          [] toggles(u) = {} /\ lines(u) # {} ->
               Taking(Len(LineMark[Earliest(lines(u))]), [m EXCEPT !["line start"] = FALSE],
                      LineMark[Earliest(lines(u))])
          [] toggles(u) = {} /\ lines(u) = {} /\ last(u) # {} ->
               Toggled(ToggleLast[Earliest(last(u))], m)
          [] OTHER -> Plain(Head(u), m)
  BY Zenon DEF Render
<1> HIDE DEF toggles, lines, last
<1> QED
  BY <1>1, <1>2, <1>3, <1>4, <1>5, Zenon

\* A step takes at least one character of those there are; a line begins after a new
\* line only.
LEMMA RenderShape ==
    ASSUME NEW s \in Seq(Symbol), s # <<>>, NEW m \in [Switches -> BOOLEAN]
    PROVE LET r == Render(s, m)
          IN /\ r.take \in 1..Len(s) /\ r.mode \in [Switches -> BOOLEAN]
             /\ r.mode["line start"] => r.take = 1 /\ s[1] = "newline"
<1> DEFINE Goal(r) == /\ r.take \in 1..Len(s) /\ r.mode \in [Switches -> BOOLEAN]
                      /\ r.mode["line start"] => r.take = 1 /\ s[1] = "newline"
           toggles == {i \in DOMAIN Toggle : IsPrefix(Toggle[i].mark, s)}
           lines == {i \in DOMAIN LineMark : m["line start"] /\ IsPrefix(LineMark[i], s)}
           last == {i \in DOMAIN ToggleLast : IsPrefix(ToggleLast[i].mark, s)}
<1>1. ASSUME NEW k \in Seq(MarkSymbol), IsPrefix(k, s), Len(k) \in 1..4
      PROVE Len(k) \in 1..Len(s)
  <2>1. Len(k) <= Len(s)
    BY <1>1, PrefixMeans
  <2>2. QED
    BY <1>1, <2>1
<1>2. "line start" \in Switches
  BY DEF Switches
<1>3. ASSUME NEW k, k.mark \in Seq(MarkSymbol), IsPrefix(k.mark, s), Len(k.mark) \in 1..4,
             k.switch \in Switches
      PROVE Goal(Toggled(k, m))
  <2>1. Toggled(k, m).take \in 1..Len(s)
    BY <1>1, <1>3 DEF Toggled, Taking
  <2>2. Toggled(k, m).mode = [m EXCEPT ![k.switch] = ~@, !["line start"] = FALSE]
    BY DEF Toggled, Taking
  <2>3. QED
    BY <1>2, <1>3, <2>1, <2>2
<1>4. ASSUME NEW k \in Seq(MarkSymbol), IsPrefix(k, s), Len(k) \in 1..4
      PROVE Goal(Taking(Len(k), [m EXCEPT !["line start"] = FALSE], k))
  BY <1>1, <1>2, <1>4 DEF Taking
<1>5. Goal(Plain(Head(s), m))
  <2>1. Head(s) = s[1] /\ 1 \in 1..Len(s)
    OBVIOUS
  <2>2. /\ Plain(Head(s), m).take = 1
        /\ Plain(Head(s), m).mode = [m EXCEPT !["line start"] = (Head(s) = "newline")]
    BY DEF Plain, Taking
  <2>3. QED
    BY <1>2, <2>1, <2>2
<1> HIDE DEF Goal
<1>6. toggles # {} => Goal(Toggled(Toggle[Earliest(toggles)], m))
  <2> SUFFICES ASSUME toggles # {} PROVE Goal(Toggled(Toggle[Earliest(toggles)], m))
    OBVIOUS
  <2>1. Earliest(toggles) \in toggles
    BY Marks, EarliestOfSome
  <2>2. QED
    BY <1>3, <2>1, Marks DEF ShortMark
<1>7. lines # {} =>
        Goal(Taking(Len(LineMark[Earliest(lines)]), [m EXCEPT !["line start"] = FALSE],
                    LineMark[Earliest(lines)]))
  <2> SUFFICES ASSUME lines # {}
               PROVE Goal(Taking(Len(LineMark[Earliest(lines)]),
                                 [m EXCEPT !["line start"] = FALSE], LineMark[Earliest(lines)]))
    OBVIOUS
  <2>1. Earliest(lines) \in lines
    BY Marks, EarliestOfSome
  <2>2. \A i \in 1..5 : LineMark[i] \in Seq(MarkSymbol) /\ Len(LineMark[i]) \in 1..4
    BY Marks
  <2>3. QED
    BY <1>4, <2>1, <2>2, Marks
<1>8. last # {} => Goal(Toggled(ToggleLast[Earliest(last)], m))
  <2> SUFFICES ASSUME last # {} PROVE Goal(Toggled(ToggleLast[Earliest(last)], m))
    OBVIOUS
  <2>1. Earliest(last) \in last
    BY Marks, EarliestOfSome
  <2>2. QED
    BY <1>3, <2>1, Marks DEF ShortMark
<1>9. Render(s, m) =
        CASE toggles # {} -> Toggled(Toggle[Earliest(toggles)], m)
          [] toggles = {} /\ lines # {} ->
               Taking(Len(LineMark[Earliest(lines)]), [m EXCEPT !["line start"] = FALSE],
                      LineMark[Earliest(lines)])
          [] toggles = {} /\ lines = {} /\ last # {} ->
               Toggled(ToggleLast[Earliest(last)], m)
          [] OTHER -> Plain(Head(s), m)
  BY Zenon DEF Render
<1> HIDE DEF toggles, lines, last
<1>10. Goal(Render(s, m))
  BY <1>5, <1>6, <1>7, <1>8, <1>9
<1> QED
  BY <1>10 DEF Goal

\* The reference's first steps.
Run(g, t, N) ==
    /\ g = [n \in 0..N |-> g[n]]
    /\ g[0] = [rest |-> t, mode |-> AtStart, out |-> <<>>]
    /\ \A n \in 1..N : g[n] = Advance(g[n - 1])

LEMMA RunsExist ==
    ASSUME NEW t, NEW M \in Nat
    PROVE \E g : Run(g, t, M)
<1> DEFINE G == {N \in 0..M : \E g : Run(g, t, N)}
           first == [rest |-> t, mode |-> AtStart, out |-> <<>>]
<1>1. 0 \in G
  <2> HIDE DEF first
  <2>1. /\ [n \in 0..0 |-> first][0] = first
        /\ [n \in 0..0 |-> first] = [n \in 0..0 |-> [k \in 0..0 |-> first][n]]
    OBVIOUS
  <2>2. Run([n \in 0..0 |-> first], t, 0)
    BY <2>1 DEF Run, first
  <2>3. QED
    BY <2>2
<1>2. ASSUME NEW N \in 1..M, N - 1 \in G PROVE N \in G
  <2>1. PICK g : Run(g, t, N - 1)
    BY <1>2
  <2> DEFINE last == Advance(g[N - 1])
             h == [n \in 0..N |-> IF n = N THEN last ELSE g[n]]
  <2> HIDE DEF last
  <2>2. h = [n \in 0..N |-> h[n]] /\ h[0] = g[0]
    OBVIOUS
  <2>3. ASSUME NEW n \in 1..N PROVE h[n] = Advance(h[n - 1])
    <3>1. n - 1 \in 0..N /\ n - 1 # N /\ h[n - 1] = g[n - 1]
      OBVIOUS
    <3>2. CASE n = N
      BY <3>1, <3>2 DEF last
    <3>3. CASE n # N
      <4>1. n \in 1..(N - 1) /\ h[n] = g[n]
        BY <3>3
      <4>2. g[n] = Advance(g[n - 1])
        BY <2>1, <4>1 DEF Run
      <4>3. QED
        BY <3>1, <4>1, <4>2
    <3>4. QED
      BY <3>2, <3>3
  <2> HIDE DEF h
  <2>4. Run(h, t, N)
    BY <2>1, <2>2, <2>3 DEF Run
  <2>5. QED
    BY <2>4
<1> HIDE DEF G
<1>3. \A N \in 0..M : N \in G
  BY <1>1, <1>2, UpTo
<1>4. M \in G
  BY <1>3
<1>5. QED
  BY <1>4 DEF G

LEMMA StagesRun ==
    ASSUME NEW t, Len(t) \in Nat
    PROVE Run(Stages(t), t, Len(t))
<1> DEFINE first == [rest |-> t, mode |-> AtStart, out |-> <<>>]
           Defines(g) == g = [n \in 0..Len(t) |-> IF n = 0 THEN first ELSE Advance(g[n - 1])]
           stages == CHOOSE g : Defines(g)
<1>1. \A g : Run(g, t, Len(t)) => Defines(g)
  <2> SUFFICES ASSUME NEW g, Run(g, t, Len(t)) PROVE Defines(g)
    OBVIOUS
  <2> HIDE DEF first
  <2>1. g = [n \in 0..Len(t) |-> g[n]] /\ g[0] = first
    BY DEF Run, first
  <2>2. \A n \in 0..Len(t) : g[n] = IF n = 0 THEN first ELSE Advance(g[n - 1])
    <3>1. \A n \in 0..Len(t) : n = 0 \/ n \in 1..Len(t)
      OBVIOUS
    <3>2. \A n \in 1..Len(t) : n # 0 /\ g[n] = Advance(g[n - 1])
      BY DEF Run
    <3>3. QED
      BY <2>1, <3>1, <3>2, Zenon
  <2>3. QED
    BY <2>1, <2>2, Zenon
<1>2. Defines(stages)
  <2> HIDE DEF Defines
  <2>1. QED
    BY <1>1, RunsExist
<1>3. Stages(t) = stages
  BY DEF Stages
<1> HIDE DEF stages
<1>4. Defines(Stages(t))
  BY <1>2, <1>3
<1>5. Run(Stages(t), t, Len(t))
  <2> DEFINE g == Stages(t)
  <2>1. g = [n \in 0..Len(t) |-> IF n = 0 THEN first ELSE Advance(g[n - 1])]
    BY <1>4
  <2> HIDE DEF g, first
  <2>2. \A n \in 0..Len(t) : g[n] = IF n = 0 THEN first ELSE Advance(g[n - 1])
    BY <2>1, Zenon
  <2>3. g = [n \in 0..Len(t) |-> g[n]]
    BY <2>1, <2>2, Zenon
  <2>4. g[0] = first /\ \A n \in 1..Len(t) : g[n] = Advance(g[n - 1])
    <3>1. 0 \in 0..Len(t) /\ \A n \in 1..Len(t) : n \in 0..Len(t) /\ n # 0
      OBVIOUS
    <3>2. QED
      BY <2>2, <3>1, Zenon
  <2>5. QED
    BY <2>3, <2>4 DEF Run, g, first
<1> QED
  BY <1>5

\* The characters of t from n + 1 to r.
LEMMA Slice ==
    ASSUME NEW S, NEW t \in Seq(S), NEW r \in 0..Len(t), NEW n \in 0..r
    PROVE /\ SubSeq(t, n + 1, r) \in Seq(S) /\ Len(SubSeq(t, n + 1, r)) = r - n
          /\ \A i \in 1..(r - n) : SubSeq(t, n + 1, r)[i] = t[n + i]
<1>1. n + 1 \in Int /\ r \in Int /\ \A i \in (n + 1)..r : t[i] \in S
  OBVIOUS
<1>2. /\ SubSeq(t, n + 1, r) \in Seq(S)
      /\ Len(SubSeq(t, n + 1, r)) = IF n + 1 <= r THEN r - (n + 1) + 1 ELSE 0
      /\ \A i \in 1..(r - (n + 1) + 1) : SubSeq(t, n + 1, r)[i] = t[n + 1 + i - 1]
  BY <1>1, SubSeqProperties
<1>3. r - (n + 1) + 1 = r - n /\ \A i \in 1..(r - n) : n + 1 + i - 1 = n + i
  OBVIOUS
<1>4. (IF n + 1 <= r THEN r - (n + 1) + 1 ELSE 0) = r - n
  OBVIOUS
<1>5. QED
  BY <1>2, <1>3, <1>4

LEMMA SliceIsPrefix ==
    ASSUME NEW S, NEW t \in Seq(S), NEW r \in 0..Len(t), NEW n \in 0..r
    PROVE IsPrefix(SubSeq(t, n + 1, r), SubSeq(t, n + 1, Len(t)))
<1>1. Len(t) \in 0..Len(t) /\ n \in 0..Len(t)
  OBVIOUS
<1> DEFINE u == SubSeq(t, n + 1, r)
           v == SubSeq(t, n + 1, Len(t))
<1>2. u \in Seq(S) /\ Len(u) = r - n /\ \A i \in 1..(r - n) : u[i] = t[n + i]
  BY Slice
<1>3. v \in Seq(S) /\ Len(v) = Len(t) - n /\ \A i \in 1..(Len(t) - n) : v[i] = t[n + i]
  BY <1>1, Slice
<1> HIDE DEF u, v
<1>4. Len(u) <= Len(v) /\ \A i \in 1..Len(u) : u[i] = v[i]
  BY <1>2, <1>3
<1>5. IsPrefix(u, v)
  BY <1>2, <1>3, <1>4, PrefixMeans
<1>6. QED
  BY <1>5 DEF u, v

LEMMA SliceOfSlice ==
    ASSUME NEW S, NEW t \in Seq(S), NEW r \in 0..Len(t), NEW n \in 0..r, NEW d \in 0..(r - n)
    PROVE SubSeq(SubSeq(t, n + 1, r), d + 1, r - n) = SubSeq(t, n + d + 1, r)
<1> DEFINE u == SubSeq(t, n + 1, r)
           v == SubSeq(u, d + 1, r - n)
           w == SubSeq(t, n + d + 1, r)
<1>1. u \in Seq(S) /\ Len(u) = r - n /\ \A i \in 1..(r - n) : u[i] = t[n + i]
  BY Slice
<1>2. n + d \in 0..r
  <2>1. \A x, y, z \in Nat : x <= z /\ y <= z - x => x + y \in 0..z
    OBVIOUS
  <2>2. r \in Nat /\ n \in Nat /\ n <= r
    OBVIOUS
  <2>3. d \in Nat /\ d <= r - n
    BY <2>2
  <2>4. QED
    BY <2>1, <2>2, <2>3
<1>3. w \in Seq(S) /\ Len(w) = r - (n + d) /\ \A i \in 1..(r - (n + d)) : w[i] = t[n + d + i]
  BY <1>2, Slice
<1> HIDE DEF u
<1>4. r - n \in 0..Len(u) /\ d \in 0..(r - n)
  BY <1>1
<1>5. v \in Seq(S) /\ Len(v) = r - n - d /\ \A i \in 1..(r - n - d) : v[i] = u[d + i]
  <2> DEFINE k == r - n
  <2>1. u \in Seq(S) /\ k \in 0..Len(u) /\ d \in 0..k
    BY <1>1, <1>4
  <2> HIDE DEF k, v
  <2>2. /\ SubSeq(u, d + 1, k) \in Seq(S) /\ Len(SubSeq(u, d + 1, k)) = k - d
        /\ \A i \in 1..(k - d) : SubSeq(u, d + 1, k)[i] = u[d + i]
    BY <2>1, Slice
  <2>3. QED
    BY <2>2 DEF k, v
<1> HIDE DEF v, w
<1>6. Len(v) = Len(w) /\ Len(v) \in Nat
  BY <1>3, <1>5
<1>7. ASSUME NEW i \in 1..Len(v) PROVE v[i] = w[i]
  <2>1. v[i] = u[d + i] /\ w[i] = t[n + d + i]
    BY <1>3, <1>5
  <2>2. d + i \in 1..(r - n) /\ n + (d + i) = n + d + i
    BY <1>5
  <2>3. u[d + i] = t[n + (d + i)]
    BY <1>1, <2>2
  <2>4. QED
    BY <2>1, <2>2, <2>3
<1>8. v = w
  BY <1>3, <1>5, <1>6, <1>7
<1>9. QED
  BY <1>8 DEF u, v, w

LEMMA SlicesJoin ==
    ASSUME NEW S, NEW t \in Seq(S), NEW r \in 0..Len(t), NEW n \in 0..r, NEW q \in r..Len(t)
    PROVE SubSeq(t, n + 1, r) \o SubSeq(t, r + 1, q) = SubSeq(t, n + 1, q)
<1>1. n + 1 \in 1..(Len(t) + 1) /\ r \in ((n + 1) - 1)..Len(t)
  OBVIOUS
<1>2. QED
  BY <1>1, ConcatAdjacentSubSeq

LEMMA NoLongMark ==
    ASSUME StreamTypeOK, ~HasLongMark, NEW n \in 0..Len(text), n = 0 \/ text[n] = "newline"
    PROVE ~IsPrefix(LineMark[1], SubSeq(text, n + 1, Len(text)))
<1> SUFFICES ASSUME IsPrefix(LineMark[1], SubSeq(text, n + 1, Len(text))) PROVE FALSE
  OBVIOUS
<1> DEFINE k == LineMark[1]
           u == SubSeq(text, n + 1, Len(text))
<1>1. Len(text) \in Nat /\ Len(text) \in 0..Len(text) /\ text \in Seq(Symbol)
  BY DEF StreamTypeOK
<1>2. u \in Seq(Symbol) /\ Len(u) = Len(text) - n /\ \A i \in 1..(Len(text) - n) : u[i] = text[n + i]
  BY <1>1, Slice
<1>3. k \in Seq(MarkSymbol)
  BY Marks
<1>4. Len(k) = 4
  BY Marks
<1>5. Len(k) <= Len(u) /\ \A i \in 1..Len(k) : k[i] = u[i]
  <2> HIDE DEF k, u
  <2>1. IsPrefix(k, u)
    BY DEF k, u
  <2>2. QED
    BY <1>2, <1>3, <2>1, PrefixMeans
<1> HIDE DEF k, u
<1>6. n + 1 \in 1..(Len(text) - 3) /\ n + 4 \in 0..Len(text) /\ n \in 0..(n + 4)
  BY <1>1, <1>2, <1>4, <1>5
<1> DEFINE v == SubSeq(text, n + 1, n + 4)
<1>7. v \in Seq(Symbol) /\ Len(v) = 4 /\ \A i \in 1..4 : v[i] = text[n + i]
  BY <1>1, <1>6, Slice
<1> HIDE DEF v
<1>8. ASSUME NEW i \in 1..4 PROVE v[i] = k[i]
  <2>1. i \in 1..Len(k) /\ i \in 1..(Len(text) - n)
    BY <1>1, <1>4, <1>6
  <2>2. k[i] = u[i] /\ u[i] = text[n + i] /\ v[i] = text[n + i]
    BY <1>2, <1>5, <1>7, <2>1
  <2>3. QED
    BY <2>2
<1>9. v = k
  BY <1>3, <1>4, <1>7, <1>8
<1>10. SubSeq(text, n + 1, (n + 1) + 3) = LineMark[1]
  BY <1>9 DEF v, k
<1>11. n + 1 = 1 \/ text[(n + 1) - 1] = "newline"
  OBVIOUS
<1>12. QED
  BY <1>6, <1>10, <1>11 DEF HasLongMark

LEMMA BytesOf ==
    ASSUME NEW s \in Seq(Symbol)
    PROVE Bytes(s) \in Nat /\ (s = <<>> => Bytes(s) = 0)
<1> DEFINE wide == {i \in DOMAIN s : s[i] \in Wide}
<1>1. Len(s) \in Nat /\ DOMAIN s = 1..Len(s) /\ 1 \in Int /\ Len(s) \in Int
  OBVIOUS
<1>2. IsFiniteSet(wide)
  <2>1. IsFiniteSet(1..Len(s))
    BY <1>1, FS_Interval
  <2>2. wide \subseteq 1..Len(s)
    BY <1>1
  <2>3. QED
    BY <2>1, <2>2, FS_Subset
<1>3. Cardinality(wide) \in Nat
  BY <1>2, FS_CardinalityType
<1>4. ASSUME s = <<>> PROVE Len(s) = 0 /\ Cardinality(wide) = 0
  <2>1. Len(s) = 0 /\ wide = {}
    BY <1>4
  <2> HIDE DEF wide
  <2>2. QED
    BY <2>1, FS_EmptySet
<1> HIDE DEF wide
<1>5. Bytes(s) = Len(s) + 2 * Cardinality(wide)
  BY DEF Bytes, wide
<1>6. QED
  BY <1>1, <1>3, <1>4, <1>5

\* A step takes the same from what has come as the reference from the whole text.
LEMMA ConsumeAgrees ==
    ASSUME StreamTypeOK, ~HasLongMark, NEW n \in 0..received, NEW k \in 0..Len(text),
           AgreesAt(n, k), buffer # <<>>,
           Bytes(buffer) >= Lookahead \/ received = Len(text), Consume
    PROVE \E i \in 0..received, j \in 0..Len(text) : AgreesAt(i, j)'
<1> DEFINE whole == SubSeq(text, n + 1, Len(text))
           r == Render(buffer, mode)
<1>1. /\ Len(text) \in Nat /\ received \in 0..Len(text) /\ text \in Seq(Symbol)
      /\ buffer \in Seq(Symbol) /\ mode \in [Switches -> BOOLEAN]
  BY DEF StreamTypeOK
<1>2. /\ k <= n /\ buffer = SubSeq(text, n + 1, received)
      /\ mode["line start"] => n = 0 \/ text[n] = "newline"
      /\ Stages(text)[k] = [rest |-> whole, mode |-> mode, out |-> out]
  BY DEF AgreesAt
<1>3. /\ Len(buffer) = received - n /\ \A i \in 1..(received - n) : buffer[i] = text[n + i]
      /\ whole \in Seq(Symbol) /\ Len(whole) = Len(text) - n
  <2>1. Len(text) \in 0..Len(text) /\ n \in 0..Len(text)
    BY <1>1
  <2>2. Len(buffer) = received - n /\ \A i \in 1..(received - n) : buffer[i] = text[n + i]
    BY <1>1, <1>2, Slice
  <2>3. whole \in Seq(Symbol) /\ Len(whole) = Len(text) - n
    BY <1>1, <2>1, Slice
  <2>4. QED
    BY <2>2, <2>3
<1>4. IsPrefix(buffer, whole) /\ (received = Len(text) => buffer = whole)
  BY <1>1, <1>2, SliceIsPrefix
<1>5. ~(mode["line start"] /\ IsPrefix(LineMark[1], whole))
  <2>1. n \in 0..Len(text)
    BY <1>1
  <2>2. QED
    BY <1>2, <2>1, NoLongMark
<1> HIDE DEF whole
<1>6. r = Render(whole, mode)
  BY <1>1, <1>3, <1>4, <1>5, RenderAgrees
<1>7. /\ r.take \in 1..Len(buffer) /\ r.mode \in [Switches -> BOOLEAN]
      /\ r.mode["line start"] => r.take = 1 /\ buffer[1] = "newline"
  BY <1>1, RenderShape
<1>8. /\ buffer' = SubSeq(buffer, r.take + 1, Len(buffer))
      /\ mode' = r.mode /\ out' = out \o r.print
      /\ UNCHANGED <<flushed, text, received>>
  BY DEF Consume
<1>9. PICK d \in 1..Len(buffer) : d = r.take
  BY <1>7
<1> HIDE DEF r
<1> DEFINE i == n + d
           j == k + 1
<1>10. /\ i \in 0..received /\ j \in 1..Len(text) /\ j \in 0..Len(text)
       /\ j <= i /\ j - 1 = k /\ d \in 0..(received - n)
  <2>1. d \in 1..(received - n) /\ n \in 0..received /\ received \in 0..Len(text)
    BY <1>1, <1>3
  <2> HIDE DEF i, j
  <2>2. Len(text) \in Nat /\ received \in Nat /\ received <= Len(text)
    BY <1>1
  <2>3. n \in Nat /\ k \in Nat
    BY <2>2
  <2>4. d \in Nat /\ 1 <= d /\ n + d <= received
    BY <2>1, <2>2, <2>3
  <2>5. \A l, e, x, y, z \in Nat :
          1 <= y /\ x + y <= e /\ e <= l /\ z <= x
            => /\ x + y \in 0..e /\ z + 1 \in 1..l /\ z + 1 \in 0..l
               /\ z + 1 <= x + y /\ (z + 1) - 1 = z /\ y \in 0..(e - x)
    OBVIOUS
  <2>6. QED
    BY <1>2, <2>2, <2>3, <2>4, <2>5, Zenon DEF i, j
<1>11. buffer' = SubSeq(text, i + 1, received)
  <2>1. SubSeq(SubSeq(text, n + 1, received), d + 1, received - n)
          = SubSeq(text, n + d + 1, received)
    BY <1>1, <1>10, SliceOfSlice
  <2>2. QED
    BY <1>2, <1>3, <1>8, <1>9, <2>1
<1>12. mode'["line start"] => text[i] = "newline"
  <2> SUFFICES ASSUME mode'["line start"] PROVE text[i] = "newline"
    OBVIOUS
  <2>1. d = 1 /\ buffer[1] = "newline" /\ 1 \in 1..(received - n)
    BY <1>3, <1>7, <1>8, <1>9
  <2>2. QED
    BY <1>3, <2>1
<1>13. Stages(text)[j] = [rest |-> SubSeq(text, i + 1, Len(text)), mode |-> mode', out |-> out']
  <2>1. Stages(text)[j] = Advance(Stages(text)[k])
    BY <1>1, <1>10, StagesRun DEF Run
  <2>2. whole # <<>>
    <3>1. Len(text) - n # 0
      BY <1>1, <1>3
    <3>2. QED
      BY <1>3, <3>1, EmptySeq
  <2>3. Advance([rest |-> whole, mode |-> mode, out |-> out])
          = [rest |-> SubSeq(whole, d + 1, Len(whole)), mode |-> r.mode,
             out |-> out \o r.print]
    BY <1>6, <1>9, <2>2 DEF Advance
  <2>4. SubSeq(whole, d + 1, Len(whole)) = SubSeq(text, i + 1, Len(text))
    <3>1. Len(text) \in 0..Len(text) /\ n \in 0..Len(text) /\ d \in 0..(Len(text) - n)
      BY <1>1, <1>10
    <3>2. SubSeq(SubSeq(text, n + 1, Len(text)), d + 1, Len(text) - n)
            = SubSeq(text, n + d + 1, Len(text))
      BY <1>1, <3>1, SliceOfSlice
    <3>3. QED
      BY <1>3, <3>2 DEF whole
  <2>5. QED
    BY <1>2, <1>8, <2>1, <2>3, <2>4, Zenon
<1>14. AgreesAt(i, j)'
  <2>1. text' = text /\ received' = received
    BY <1>8
  <2> HIDE DEF i, j
  <2>2. QED
    BY <1>10, <1>11, <1>12, <1>13, <2>1 DEF AgreesAt
<1> HIDE DEF i, j
<1>15. QED
  BY <1>10, <1>14

\* What has come is where the reference is, however it was cut (render_chunk, finish).
THEOREM StreamInvariant == StreamSpec => [](StreamTypeOK /\ StreamInv)
<1>1. StreamInit => StreamTypeOK /\ StreamInv
  <2> SUFFICES ASSUME StreamInit PROVE StreamTypeOK /\ StreamInv
    OBVIOUS
  <2> USE DEF StreamInit, NothingShown
  <2>1. text \in Seq(Symbol)
    <3>1. PICK n \in 0..MaxText : text \in [1..n -> Symbol]
      BY StreamerAssumption
    <3>2. n \in Nat /\ \A S : \A m \in Nat : [1..m -> S] \subseteq Seq(S)
      BY StreamerAssumption, SeqDef
    <3>3. QED
      BY <3>1, <3>2
  <2>2. mode \in [Switches -> BOOLEAN]
    BY DEF AtStart
  <2>3. StreamTypeOK
    <3>1. buffer \in Seq(Symbol) /\ received \in 0..Len(text)
      BY <2>1, EmptySeq
    <3>2. QED
      BY <2>1, <2>2, <3>1 DEF StreamTypeOK
  <2>4. AgreesAt(0, 0)
    <3>1. Len(text) \in Nat /\ SubSeq(text, 0 + 1, Len(text)) = text /\ SubSeq(text, 0 + 1, 0) = <<>>
      BY <2>1
    <3>2. Stages(text)[0] = [rest |-> text, mode |-> AtStart, out |-> <<>>]
      BY <3>1, StagesRun DEF Run
    <3>3. QED
      BY <3>1, <3>2 DEF AgreesAt
  <2>5. 0 \in 0..received /\ 0 \in 0..Len(text)
    BY <2>1
  <2>6. QED
    BY <2>3, <2>4, <2>5 DEF StreamInv
<1>2. StreamTypeOK /\ StreamInv /\ [StreamNext]_streamVars => (StreamTypeOK /\ StreamInv)'
  <2> SUFFICES ASSUME StreamTypeOK, StreamInv, [StreamNext]_streamVars
               PROVE StreamTypeOK' /\ StreamInv'
    OBVIOUS
  <2>1. /\ Len(text) \in Nat /\ received \in 0..Len(text) /\ text \in Seq(Symbol)
        /\ buffer \in Seq(Symbol) /\ mode \in [Switches -> BOOLEAN] /\ flushed \in BOOLEAN
    BY DEF StreamTypeOK
  <2>2. ASSUME text' = text, flushed' => received' = Len(text),
               ~HasLongMark => \E n \in 0..received', k \in 0..Len(text) : AgreesAt(n, k)'
        PROVE StreamInv'
    <3>1. HasLongMark' <=> HasLongMark
      BY <2>2 DEF HasLongMark
    <3>2. QED
      BY <2>2, <3>1 DEF StreamInv
  <2>3. ASSUME Consume, buffer # <<>>, Bytes(buffer) >= Lookahead \/ received = Len(text)
        PROVE StreamTypeOK' /\ StreamInv'
    <3> DEFINE r == Render(buffer, mode)
    <3>1. r.take \in 1..Len(buffer) /\ r.mode \in [Switches -> BOOLEAN]
      BY <2>1, <2>3, RenderShape
    <3>2. /\ buffer' = SubSeq(buffer, r.take + 1, Len(buffer)) /\ mode' = r.mode
          /\ UNCHANGED <<flushed, text, received>>
      BY <2>3 DEF Consume
    <3> HIDE DEF r
    <3>3. SubSeq(buffer, r.take + 1, Len(buffer)) \in Seq(Symbol)
      <4>1. Len(buffer) \in 0..Len(buffer) /\ r.take \in 0..Len(buffer)
        BY <2>1, <3>1
      <4>2. QED
        BY <2>1, <4>1, Slice
    <3>4. StreamTypeOK'
      BY <2>1, <3>1, <3>2, <3>3 DEF StreamTypeOK
    <3>5. ~HasLongMark => \E n \in 0..received', k \in 0..Len(text) : AgreesAt(n, k)'
      <4> SUFFICES ASSUME ~HasLongMark
                   PROVE \E n \in 0..received', k \in 0..Len(text) : AgreesAt(n, k)'
        OBVIOUS
      <4>1. PICK n \in 0..received, k \in 0..Len(text) : AgreesAt(n, k)
        BY DEF StreamInv
      <4>2. \E i \in 0..received, j \in 0..Len(text) : AgreesAt(i, j)'
        BY <2>3, <4>1, ConsumeAgrees
      <4>3. QED
        BY <3>2, <4>2
    <3>6. QED
      BY <2>2, <3>2, <3>4, <3>5 DEF StreamInv
  <2>4. ASSUME NEW d \in 1..MaxText, ReceiveChunk(d) PROVE StreamTypeOK' /\ StreamInv'
    <3> DEFINE q == received + d
    <3>1. q \in received..Len(text) /\ q \in 0..Len(text)
      BY <2>1, <2>4, StreamerAssumption DEF ReceiveChunk
    <3>2. /\ received' = q /\ buffer' = buffer \o SubSeq(text, received + 1, q)
          /\ UNCHANGED <<mode, out, flushed, text>> /\ ~flushed
      BY <2>4 DEF ReceiveChunk
    <3>3. SubSeq(text, received + 1, q) \in Seq(Symbol)
      <4>1. received \in 0..q
        BY <2>1, <3>1
      <4>2. QED
        BY <2>1, <3>1, <4>1, Slice
    <3>4. buffer' \in Seq(Symbol)
      BY <2>1, <3>2, <3>3
    <3> HIDE DEF q
    <3>5. StreamTypeOK'
      BY <2>1, <3>1, <3>2, <3>4 DEF StreamTypeOK
    <3>6. ASSUME ~HasLongMark PROVE \E n \in 0..received', k \in 0..Len(text) : AgreesAt(n, k)'
      <4>1. PICK n \in 0..received, k \in 0..Len(text) : AgreesAt(n, k)
        BY <3>6 DEF StreamInv
      <4>2. SubSeq(text, n + 1, received) \o SubSeq(text, received + 1, q) = SubSeq(text, n + 1, q)
        BY <2>1, <3>1, SlicesJoin
      <4>3. buffer' = SubSeq(text, n + 1, received')
        BY <3>2, <4>1, <4>2 DEF AgreesAt
      <4>4. AgreesAt(n, k)'
        BY <3>2, <4>1, <4>3 DEF AgreesAt
      <4>5. n \in 0..received'
        BY <2>1, <3>1, <3>2
      <4>6. QED
        BY <4>4, <4>5
    <3>7. QED
      BY <2>2, <3>2, <3>5, <3>6
  <2>5. CASE RenderChunk
    <3>1. Consume /\ ~(Bytes(buffer) < Lookahead)
      BY <2>5 DEF RenderChunk, Undecided
    <3>2. Bytes(buffer) \in Nat /\ (buffer = <<>> => Bytes(buffer) = 0)
      BY <2>1, BytesOf
    <3>3. Bytes(buffer) >= Lookahead /\ buffer # <<>>
      BY <3>1, <3>2, StreamerAssumption
    <3>4. QED
      BY <2>3, <3>1, <3>3
  <2>6. CASE RenderRest
    BY <2>3, <2>6 DEF RenderRest, StreamInv
  <2>7. ASSUME text' = text, received' = received, UNCHANGED <<buffer, mode, out>>,
               flushed' \in BOOLEAN, flushed' => received = Len(text)
        PROVE StreamTypeOK' /\ StreamInv'
    <3>1. StreamTypeOK'
      BY <2>1, <2>7 DEF StreamTypeOK
    <3>2. ~HasLongMark => \E n \in 0..received', k \in 0..Len(text) : AgreesAt(n, k)'
      BY <2>7 DEF StreamInv, AgreesAt
    <3>3. QED
      BY <2>2, <2>7, <3>1, <3>2
  <2>8. CASE FinishText
    BY <2>7, <2>8 DEF FinishText
  <2>9. CASE UNCHANGED streamVars
    BY <2>1, <2>7, <2>9 DEF streamVars, StreamInv
  <2> QED
    BY <2>4, <2>5, <2>6, <2>8, <2>9 DEF StreamNext
<1>3. QED
  BY <1>1, <1>2, PTL DEF StreamSpec

\* What is printed does not depend on where the text was cut (render_chunk, finish).
THEOREM ChunksAreNotSeen == StreamSpec => []ChunksDoNotShow
<1>1. StreamTypeOK /\ StreamInv => ChunksDoNotShow
  <2> SUFFICES ASSUME StreamTypeOK, StreamInv, flushed, buffer = <<>>, ~HasLongMark
               PROVE out = AtOnce(text)
    BY DEF ChunksDoNotShow, Ended
  <2> DEFINE L == Len(text)
  <2>1. text \in Seq(Symbol) /\ L \in Nat /\ received = L
    BY DEF StreamTypeOK, StreamInv
  <2>2. PICK n \in 0..received, k \in 0..L : AgreesAt(n, k)
    BY DEF StreamInv
  <2>3. SubSeq(text, n + 1, L) = <<>> /\ k \in 0..L
    BY <2>1, <2>2 DEF AgreesAt
  <2>4. Stages(text)[k] = [rest |-> <<>>, mode |-> mode, out |-> out]
    BY <2>2, <2>3 DEF AgreesAt
  <2>5. \A i \in 1..L : Stages(text)[i] = Advance(Stages(text)[i - 1])
    BY <2>1, StagesRun DEF Run
  <2> DEFINE shown == Stages(text)
             last == [rest |-> <<>>, mode |-> mode, out |-> out]
             G == {i \in 0..L : k <= i => shown[i] = last}
  <2>6. Advance(last) = last
    BY DEF Advance
  <2> HIDE DEF L, shown
  <2>7. 0 \in G
    BY <2>1, <2>3, <2>4 DEF shown
  <2>8. ASSUME NEW i \in 1..L, i - 1 \in G PROVE i \in G
    <3>1. shown[i] = Advance(shown[i - 1]) /\ i \in 0..L
      BY <2>1, <2>5 DEF shown
    <3>2. CASE k <= i - 1
      BY <2>6, <2>8, <3>1, <3>2
    <3>3. CASE i = k
      BY <2>4, <3>1, <3>3 DEF shown
    <3>4. CASE i < k
      BY <2>3, <3>1, <3>4
    <3>5. k <= i - 1 \/ i = k \/ i < k
      BY <2>1, <2>3
    <3>6. QED
      BY <3>2, <3>3, <3>4, <3>5
  <2>9. \A i \in 0..L : i \in G
    <3> HIDE DEF G
    <3>1. QED
      BY <2>1, <2>7, <2>8, UpTo
  <2>10. shown[L] = last
    BY <2>1, <2>3, <2>9
  <2>11. QED
    BY <2>10 DEF AtOnce, shown, L
<1>2. QED
  BY <1>1, StreamInvariant, PTL
=============================================================================
