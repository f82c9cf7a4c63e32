---------------------------- MODULE DaemonProofs -----------------------------
(***************************************************************************)
(* Proofs about Daemon for every set of process ids, names and clients, and *)
(* every size of the channel, of the kernel's buffer and of the client pool. *)
(***************************************************************************)
EXTENDS Daemon, FiniteSetTheorems, SequenceTheorems, TLAPS

-----------------------------------------------------------------------------
(* What the channel's operations do to the set and the order of the events.  *)

\* try_send at the end of the channel.
LEMMA AppendKeeps ==
    ASSUME NEW s \in Seq(Nat), NEW x \in Nat
    PROVE  /\ Append(s, x) \in Seq(Nat)
           /\ ToSet(Append(s, x)) = ToSet(s) \cup {x}
           /\ Increasing(s) /\ Before(ToSet(s), {x}) => Increasing(Append(s, x))
<1> DEFINE t == Append(s, x)
<1>1. /\ t \in Seq(Nat) /\ Len(t) = Len(s) + 1 /\ Len(s) \in Nat
      /\ \A i \in 1..Len(s) : t[i] = s[i]
      /\ t[Len(s) + 1] = x
  BY AppendProperties, LenProperties
<1>2. DOMAIN s = 1..Len(s) /\ DOMAIN t = 1..(Len(s) + 1)
  BY <1>1, LenProperties
<1> HIDE DEF t
<1>3. ToSet(t) = ToSet(s) \cup {x}
  BY <1>1, <1>2 DEF ToSet
<1>4. ASSUME Increasing(s), Before(ToSet(s), {x}) PROVE Increasing(t)
  <2>1. \A i \in 1..Len(s) : s[i] < x
    BY <1>2, <1>4 DEF Before, ToSet
  <2>2. ASSUME NEW i \in 1..Len(t), NEW j \in 1..Len(t), i < j PROVE t[i] < t[j]
    <3>1. i \in 1..Len(s) /\ t[i] = s[i]
      BY <1>1, <2>2
    <3>2. CASE j \in 1..Len(s)
      BY <1>1, <1>4, <2>2, <3>1, <3>2 DEF Increasing
    <3>3. CASE j = Len(s) + 1
      BY <1>1, <2>1, <3>1, <3>3
    <3>4. QED
      BY <1>1, <2>2, <3>2, <3>3
  <2>3. QED
    BY <2>2 DEF Increasing
<1>5. QED
  BY <1>1, <1>3, <1>4 DEF t

\* recv at its head.
LEMMA TailKeeps ==
    ASSUME NEW s \in Seq(Nat), s # <<>>
    PROVE  /\ Head(s) \in Nat /\ Tail(s) \in Seq(Nat)
           /\ ToSet(s) = {Head(s)} \cup ToSet(Tail(s))
           /\ Increasing(s) => Increasing(Tail(s)) /\ Before({Head(s)}, ToSet(Tail(s)))
<1> DEFINE t == Tail(s)
<1>1. /\ Head(s) \in Nat /\ t \in Seq(Nat) /\ Len(t) = Len(s) - 1
      /\ \A i \in 1..Len(t) : t[i] = s[i + 1]
  BY HeadTailProperties
<1>2. Len(s) \in Nat \ {0} /\ DOMAIN s = 1..Len(s) /\ DOMAIN t = 1..Len(t) /\ Head(s) = s[1]
  BY <1>1, LenProperties, EmptySeq
<1> HIDE DEF t
<1>3. ToSet(s) = {Head(s)} \cup ToSet(t)
  <2>1. ASSUME NEW i \in 1..Len(s) PROVE s[i] \in {Head(s)} \cup ToSet(t)
    <3>1. CASE i = 1
      BY <1>2, <3>1
    <3>2. CASE i # 1
      <4>1. i - 1 \in 1..Len(t) /\ t[i - 1] = s[i]
        BY <1>1, <1>2, <3>2
      <4>2. QED
        BY <1>2, <4>1 DEF ToSet
    <3>3. QED
      BY <3>1, <3>2
  <2>2. ASSUME NEW i \in 1..Len(t) PROVE t[i] \in ToSet(s)
    <3>1. i + 1 \in 1..Len(s) /\ t[i] = s[i + 1]
      BY <1>1, <1>2
    <3>2. QED
      BY <1>2, <3>1 DEF ToSet
  <2>3. QED
    BY <1>2, <2>1, <2>2 DEF ToSet
<1>4. ASSUME Increasing(s) PROVE Increasing(t) /\ Before({Head(s)}, ToSet(t))
  <2> DEFINE n == Len(s)
  <2>0. n \in Nat /\ Len(t) = n - 1 /\ \A i, j \in 1..n : i < j => s[i] < s[j]
    BY <1>1, <1>2, <1>4 DEF Increasing
  <2> HIDE DEF n
  <2>1. Increasing(t)
    <3>1. ASSUME NEW i \in 1..Len(t), NEW j \in 1..Len(t), i < j PROVE t[i] < t[j]
      <4>1. i + 1 \in 1..n /\ j + 1 \in 1..n /\ i + 1 < j + 1
        BY <2>0, <3>1
      <4>2. s[i + 1] < s[j + 1]
        BY <2>0, <4>1
      <4>3. QED
        BY <1>1, <4>2
    <3>2. QED
      BY <3>1 DEF Increasing
  <2>2. ASSUME NEW i \in 1..Len(t) PROVE s[1] < t[i]
    <3>1. 1 \in 1..n /\ i + 1 \in 1..n /\ 1 < i + 1
      BY <2>0
    <3>2. s[1] < s[i + 1]
      BY <2>0, <3>1
    <3>3. QED
      BY <1>1, <3>2
  <2>3. QED
    BY <1>2, <2>1, <2>2 DEF Before, ToSet
<1>5. QED
  BY <1>1, <1>3, <1>4 DEF t

\* An answer printed after the earlier ones.
LEMMA ConcatKeeps ==
    ASSUME NEW s \in Seq(Nat), NEW t \in Seq(Nat)
    PROVE  /\ s \o t \in Seq(Nat)
           /\ ToSet(s \o t) = ToSet(s) \cup ToSet(t)
           /\ Increasing(s) /\ Increasing(t) /\ Before(ToSet(s), ToSet(t)) => Increasing(s \o t)
<1> DEFINE u == s \o t
<1>1. /\ u \in Seq(Nat) /\ Len(u) = Len(s) + Len(t)
      /\ \A i \in 1..(Len(s) + Len(t)) : u[i] = IF i <= Len(s) THEN s[i] ELSE t[i - Len(s)]
  BY ConcatProperties
<1>2. /\ Len(s) \in Nat /\ Len(t) \in Nat
      /\ DOMAIN s = 1..Len(s) /\ DOMAIN t = 1..Len(t) /\ DOMAIN u = 1..(Len(s) + Len(t))
  BY <1>1, LenProperties
<1> HIDE DEF u
<1>3. ToSet(u) = ToSet(s) \cup ToSet(t)
  <2>1. ASSUME NEW i \in 1..(Len(s) + Len(t)) PROVE u[i] \in ToSet(s) \cup ToSet(t)
    <3>1. CASE i <= Len(s)
      <4>1. i \in 1..Len(s) /\ u[i] = s[i]
        BY <1>1, <1>2, <3>1
      <4>2. QED
        BY <1>2, <4>1 DEF ToSet
    <3>2. CASE ~(i <= Len(s))
      <4>1. i - Len(s) \in 1..Len(t)
        BY <1>2, <3>2
      <4>2. u[i] = t[i - Len(s)]
        BY <1>1, <3>2
      <4>3. QED
        BY <1>2, <4>1, <4>2 DEF ToSet
    <3>3. QED
      BY <3>1, <3>2
  <2>2. ASSUME NEW i \in 1..Len(s) PROVE s[i] \in ToSet(u)
    <3>1. i \in 1..(Len(s) + Len(t)) /\ u[i] = s[i]
      BY <1>1, <1>2
    <3>2. QED
      BY <1>2, <3>1 DEF ToSet
  <2>3. ASSUME NEW i \in 1..Len(t) PROVE t[i] \in ToSet(u)
    <3> DEFINE j == i + Len(s)
    <3>1. j \in 1..(Len(s) + Len(t)) /\ ~(j <= Len(s)) /\ j - Len(s) = i
      BY <1>2
    <3> HIDE DEF j
    <3>2. u[j] = t[i]
      BY <1>1, <3>1
    <3>3. QED
      BY <1>2, <3>1, <3>2 DEF ToSet
  <2>4. QED
    BY <1>2, <2>1, <2>2, <2>3 DEF ToSet
<1>4. ASSUME Increasing(s), Increasing(t), Before(ToSet(s), ToSet(t)) PROVE Increasing(u)
  <2>1. \A i \in 1..Len(s), j \in 1..Len(t) : s[i] < t[j]
    BY <1>2, <1>4 DEF Before, ToSet
  <2>2. ASSUME NEW i \in 1..Len(u), NEW j \in 1..Len(u), i < j PROVE u[i] < u[j]
    <3>1. CASE j <= Len(s)
      BY <1>1, <1>2, <1>4, <2>2, <3>1 DEF Increasing
    <3>2. CASE i <= Len(s) /\ ~(j <= Len(s))
      <4>1. i \in 1..Len(s) /\ u[i] = s[i] /\ j - Len(s) \in 1..Len(t)
        BY <1>1, <1>2, <2>2, <3>2
      <4>2. u[j] = t[j - Len(s)]
        BY <1>1, <1>2, <2>2, <3>2
      <4>3. QED
        BY <2>1, <4>1, <4>2
    <3>3. CASE ~(i <= Len(s))
      <4>1. i - Len(s) \in 1..Len(t) /\ j - Len(s) \in 1..Len(t) /\ i - Len(s) < j - Len(s)
        BY <1>1, <1>2, <2>2, <3>3
      <4>2. t[i - Len(s)] < t[j - Len(s)]
        BY <1>4, <4>1 DEF Increasing
      <4>3. QED
        BY <1>1, <1>2, <2>2, <3>3, <4>2
    <3>4. QED
      BY <1>2, <2>2, <3>1, <3>2, <3>3, <1>1
  <2>3. QED
    BY <2>2 DEF Increasing
<1>5. QED
  BY <1>1, <1>3, <1>4 DEF u

\* An empty channel, or a handler with nothing, holds no event.
LEMMA EmptyKeeps ==
    <<>> \in Seq(Nat) /\ ToSet(<<>>) = {} /\ Increasing(<<>>)
<1>1. <<>> \in Seq(Nat) /\ Len(<<>>) = 0 /\ DOMAIN <<>> = 1..0
  BY EmptySeq, LenProperties
<1>2. QED
  BY <1>1 DEF ToSet, Increasing

-----------------------------------------------------------------------------
(* The slots of the client pool.                                              *)

\* Every path into the handler takes a slot and every path out of it gives one back
\* (run_socket_server, handle_client).
THEOREM SlotsInvariant == Spec => []SlotsInv
<1> USE DaemonAssumption
<1>1. Init => SlotsInv
  <2> SUFFICES ASSUME Init PROVE SlotsInv
    OBVIOUS
  <2>1. Handled = {}
    BY DEF Init, Handled
  <2>2. QED
    BY <2>1, FS_EmptySet DEF Init, SlotsInv, SlotsAccounted
<1>2. SlotsInv /\ [Next]_vars => SlotsInv'
  <2> SUFFICES ASSUME SlotsInv, [Next]_vars PROVE SlotsInv'
    OBVIOUS
  <2> USE DEF daemonVars, kernelVars, listenerVars, clientVars
  <2>1. Cardinality(Handled) \in Nat
    BY FS_CardinalityType DEF SlotsInv
  <2>2. ASSUME Handled' = Handled, idlers' = idlers, active' = active,
               hand' \in [Clients -> {"backlog", "reading", "draining", "writing", "closed"}]
        PROVE SlotsInv'
    BY <2>2 DEF SlotsInv, SlotsAccounted
  <2>3. ASSUME hand' = hand, idlers' = idlers, active' = active PROVE SlotsInv'
    BY <2>3 DEF SlotsInv, SlotsAccounted, Handled
  <2>4. ASSUME NEW c \in Clients, Accept(c) PROVE SlotsInv'
    <3>1. CASE HasRoom
      <4>1. Handled' = Handled \cup {c} /\ c \notin Handled
        BY <2>4, <3>1 DEF Accept, SlotsInv, Handled
      <4>2. IsFiniteSet(Handled') /\ Cardinality(Handled') = Cardinality(Handled) + 1
        BY <4>1, FS_AddElement DEF SlotsInv
      <4>3. QED
        BY <2>1, <2>4, <3>1, <4>2 DEF Accept, HasRoom, SlotsInv, SlotsAccounted
    <3>2. CASE ~HasRoom
      <4>1. Handled' = Handled
        BY <2>4, <3>2 DEF Accept, SlotsInv, Handled
      <4>2. QED
        BY <2>2, <2>4, <3>2, <4>1 DEF Accept, SlotsInv
    <3>3. QED
      BY <3>1, <3>2
  <2>5. CASE AcceptIdler
    BY <2>1, <2>5 DEF AcceptIdler, HasRoom, SlotsInv, SlotsAccounted, Handled
  <2>6. CASE ReadNothing
    BY <2>1, <2>6 DEF ReadNothing, SlotsInv, SlotsAccounted, Handled
  <2>7. ASSUME NEW c \in Clients, Respond(c) PROVE SlotsInv'
    <3>1. Handled' = Handled \ {c} /\ c \in Handled
      BY <2>7 DEF Respond, SlotsInv, Handled
    <3>2. IsFiniteSet(Handled') /\ Cardinality(Handled') = Cardinality(Handled) - 1
      BY <3>1, FS_RemoveElement DEF SlotsInv
    <3>3. Cardinality(Handled') \in Nat
      BY <3>2, FS_CardinalityType
    <3>4. QED
      BY <2>1, <2>7, <3>2, <3>3 DEF Respond, SlotsInv, SlotsAccounted
  <2>8. ASSUME NEW c \in Clients, NEW request \in Requests,
               ReadRequest(c) \/ Drain(c) \/ Call(c, request)
        PROVE SlotsInv'
    <3>1. /\ Handled' = Handled
          /\ hand' \in [Clients -> {"backlog", "reading", "draining", "writing", "closed"}]
      BY <2>8 DEF ReadRequest, Drain, Call, SlotsInv, Handled
    <3>2. QED
      BY <2>2, <2>8, <3>1 DEF ReadRequest, Drain, Call
  <2>9. ASSUME NEW c \in Clients, ReadAnswer(c) \/ GiveUp(c) PROVE SlotsInv'
    BY <2>3, <2>9 DEF ReadAnswer, GiveUp
  <2>10. ASSUME NEW p \in Pids, NEW name \in Names,
                Fork(p, name) \/ Exec(p, name) \/ Rename(p, name)
         PROVE SlotsInv'
    BY <2>3, <2>10 DEF Fork, Exec, Rename, Happens
  <2>11. CASE List \/ Spawn \/ Subscribe \/ Degrade \/ Receive \/ IgnoreRename \/ Record \/ Bind
              \/ Heartbeat \/ UNCHANGED vars
    BY <2>3, <2>11 DEF List, Spawn, Subscribe, Degrade, Received, Receive, IgnoreRename, Record, Bind,
       Heartbeat, vars
  <2>12. ASSUME NEW p \in Pids, Exit(p) \/ Scan(p) PROVE SlotsInv'
    BY <2>3, <2>12 DEF Exit, Happens, Scan
  <2>13. ASSUME NEW c \in Clients, ReadRequest(c) \/ Drain(c) PROVE SlotsInv'
    BY <2>8, <2>13 DEF Requests
  <2>14. QED
    BY <2>4, <2>5, <2>6, <2>7, <2>8, <2>9, <2>10, <2>11, <2>12, <2>13 DEF Next
<1>3. QED
  BY <1>1, <1>2, PTL DEF Spec

\* The pool's count is right and never above its limit.
THEOREM SlotsAreAccounted == Spec => []SlotsAccounted
<1>1. SlotsInv => SlotsAccounted
  BY DEF SlotsInv
<1>2. QED
  BY <1>1, SlotsInvariant, PTL

-----------------------------------------------------------------------------
(* The process tree.                                                          *)

Notes == [what : {"FORK", "EXEC", "EXIT", "COMM"}, pid : Pids]

\* What a fork, an exec or an exit does: either nobody is told and the process is
\* remembered as unseen, or the last notification of it tells whether it runs.  A
\* rename changes neither, and adds to the names the process had.
LEMMA HappensKeepsTree ==
    ASSUME NEW what \in {"FORK", "EXEC", "EXIT", "COMM"}, NEW p \in Pids,
           NEW name \in Names \cup {Gone},
           what = "EXIT" <=> name = Gone,
           what = "COMM" => proc[p] # Gone,
           TreeInv, Happens(what, p, name)
    PROVE  TreeInv'
<1> USE DaemonAssumption
<1>1. /\ proc' = [proc EXCEPT ![p] = name]
      /\ called' = [called EXCEPT ![p] = IF what = "COMM" THEN called[p] \cup {name} ELSE {name}]
      /\ UNCHANGED <<scanning, listener, tree>>
      /\ Notify(what, p)
  BY DEF Happens
<1>2. /\ proc' \in [Pids -> Names \cup {Gone}] /\ proc'[p] = name
      /\ \A q \in Pids \ {p} : proc'[q] = proc[q]
  BY <1>1 DEF TreeInv
<1>3. /\ called' \in [Pids -> SUBSET (Names \cup {Gone})]
      /\ called'[p] = IF what = "COMM" THEN called[p] \cup {name} ELSE {name}
      /\ \A q \in Pids \ {p} : called'[q] = called[q]
  BY <1>1 DEF TreeInv
<1>4. ASSUME NEW q \in Pids
      PROVE \/ proc'[q] = Gone /\ called'[q] = {Gone}
            \/ proc'[q] \in called'[q] /\ called'[q] \subseteq Names
  <2>1. CASE q # p
    BY <1>2, <1>3, <2>1 DEF TreeInv
  <2>2. CASE q = p /\ what = "COMM"
    BY <1>2, <1>3, <2>2 DEF TreeInv
  <2>3. CASE q = p /\ what # "COMM"
    BY <1>2, <1>3, <2>3
  <2>4. QED
    BY <2>1, <2>2, <2>3
<1>5. ASSUME NEW q \in Pids, q = p => what = "COMM",
             tree[q] = Gone <=> proc[q] = Gone, tree[q] \in called[q]
      PROVE  (tree'[q] = Gone <=> proc'[q] = Gone) /\ tree'[q] \in called'[q]
  <2>1. CASE q # p
    BY <1>1, <1>2, <1>3, <1>5, <2>1
  <2>2. CASE q = p
    BY <1>1, <1>2, <1>3, <1>5, <2>2
  <2>3. QED
    BY <2>1, <2>2
<1>6. CASE ~Subscribed
  <2>1. /\ unseen' = IF what = "COMM" THEN unseen ELSE unseen \cup {p}
        /\ pending' = pending /\ overrun' = overrun
    BY <1>1, <1>6 DEF Notify
  <2>2. listener \in {"unborn", "scanning", "opening", "ended"}
    BY <1>6 DEF TreeInv, Subscribed
  <2>3. listener # "ended" => pending = <<>> /\ Len(pending) = 0
    BY <2>2, EmptyKeeps DEF TreeInv
  <2>4. TreeTruthful'
    <3>1. ASSUME NEW q \in Pids, listener \notin {"unborn", "ended"}, ~overrun,
                 q \notin scanning \cup unseen'
          PROVE  (tree'[q] = Gone <=> proc'[q] = Gone) /\ tree'[q] \in called'[q]
      <4>1. q = p => what = "COMM"
        BY <2>1, <3>1
      <4>2. (tree[q] = Gone <=> proc[q] = Gone) /\ tree[q] \in called[q]
        BY <2>1, <2>3, <3>1 DEF TreeInv, TreeTruthful
      <4>3. QED
        BY <1>5, <4>1, <4>2
    <3>2. QED
      BY <1>1, <2>1, <3>1 DEF TreeTruthful
  <2>5. listener = "scanning" => \A q \in scanning \ unseen' : proc'[q] # Gone
    BY <1>2, <2>1 DEF TreeInv
  <2>6. QED
    BY <1>1, <1>2, <1>3, <1>4, <2>1, <2>2, <2>3, <2>4, <2>5 DEF TreeInv, IsLast
<1>7. CASE Subscribed /\ Len(pending) < KernelBuffer
  <2> DEFINE note == [what |-> what, pid |-> p]
  <2>1. unseen' = unseen /\ pending' = Append(pending, note) /\ overrun' = overrun
    BY <1>1, <1>7 DEF Notify
  <2>2. note \in Notes /\ pending \in Seq(Notes) /\ note.what = what /\ note.pid = p
    BY DEF TreeInv, Notes
  <2> HIDE DEF note
  <2>3. /\ pending' \in Seq(Notes) /\ Len(pending) \in Nat /\ Len(pending') = Len(pending) + 1
        /\ \A i \in 1..Len(pending) : pending'[i] = pending[i]
        /\ pending'[Len(pending) + 1] = note
    BY <2>1, <2>2, AppendProperties, LenProperties
  <2>4. Len(pending) + 1 \in 1..Len(pending') /\ \A i \in 1..Len(pending) : i \in 1..Len(pending')
    BY <2>3
  <2>5. TreeTruthful'
    <3>1. ASSUME NEW q \in Pids, ~(listener \in {"unborn", "ended"} \/ overrun),
                 q \notin scanning \cup unseen,
                 \A i \in 1..Len(pending') : ~(pending'[i].pid = q /\ pending'[i].what # "COMM")
          PROVE  (tree'[q] = Gone <=> proc'[q] = Gone) /\ tree'[q] \in called'[q]
      <4>1. q = p => what = "COMM"
        BY <2>2, <2>3, <2>4, <3>1
      <4>2. \A i \in 1..Len(pending) : ~(pending[i].pid = q /\ pending[i].what # "COMM")
        BY <2>3, <2>4, <3>1
      <4>3. (tree[q] = Gone <=> proc[q] = Gone) /\ tree[q] \in called[q]
        BY <3>1, <4>2 DEF TreeInv, TreeTruthful
      <4>4. QED
        BY <1>5, <4>1, <4>3
    <3>2. QED
      BY <1>1, <2>1, <3>1 DEF TreeTruthful
  <2>6. ASSUME ~overrun, listener # "ended", NEW i \in 1..Len(pending'), IsLast(i)'
        PROVE pending'[i].what = "EXIT" <=> proc'[pending'[i].pid] = Gone
    <3>1. CASE i = Len(pending) + 1
      BY <1>2, <2>2, <2>3, <3>1
    <3>2. CASE i # Len(pending) + 1
      <4>1. i \in 1..Len(pending) /\ i < Len(pending) + 1
        BY <2>3, <3>2
      <4>2. pending'[i] = pending[i] /\ pending[i].what # "COMM"
        BY <2>3, <2>6, <4>1 DEF IsLast
      <4>3. what # "COMM" => pending[i].pid # p
        BY <2>2, <2>3, <2>4, <2>6, <4>1, <4>2 DEF IsLast
      <4>4. IsLast(i)
        BY <2>3, <2>4, <2>6, <4>2 DEF IsLast
      <4>5. pending[i] \in Notes
        BY <2>2, <4>1, ElementOfSeq
      <4>6. pending[i].pid \in Pids
        BY <4>5 DEF Notes
      <4>7. pending[i].what = "EXIT" <=> proc[pending[i].pid] = Gone
        BY <2>6, <4>1, <4>4 DEF TreeInv
      <4>8. pending[i].pid = p => proc[p] # Gone /\ name # Gone
        BY <4>3
      <4>9. QED
        BY <1>2, <4>2, <4>6, <4>7, <4>8
    <3>3. QED
      BY <3>1, <3>2
  <2>7. QED
    BY <1>1, <1>2, <1>3, <1>4, <1>7, <2>1, <2>3, <2>5, <2>6 DEF TreeInv, Notes, Subscribed
<1>8. CASE Subscribed /\ ~(Len(pending) < KernelBuffer)
  <2>1. unseen' = unseen /\ pending' = pending /\ overrun' = TRUE
    BY <1>1, <1>8 DEF Notify
  <2>2. QED
    BY <1>1, <1>2, <1>3, <1>4, <1>8, <2>1 DEF TreeInv, TreeTruthful, Subscribed
<1>9. QED
  BY <1>6, <1>7, <1>8

\* The first notification taken from the socket: of the others, the last one of a
\* process is the last one it was.
LEMMA ReceivedKeepsTree ==
    ASSUME TreeInv, Received
    PROVE  /\ Head(pending) \in Notes /\ Head(pending) = pending[1] /\ Len(pending) \in Nat \ {0}
           /\ pending' \in Seq(Notes)
           /\ \A i \in 1..Len(pending') : i + 1 \in 1..Len(pending) /\ pending'[i] = pending[i + 1]
           /\ \A i \in 1..Len(pending) :
                 i # 1 => i - 1 \in 1..Len(pending') /\ pending'[i - 1] = pending[i]
           /\ \A i \in 1..Len(pending') :
                 IsLast(i)' => (pending'[i].what = "EXIT" <=> proc'[pending'[i].pid] = Gone)
<1>1. /\ pending' = Tail(pending) /\ pending # <<>> /\ ~overrun /\ UNCHANGED proc
      /\ pending \in Seq(Notes) /\ listener # "ended"
  BY DEF Received, Subscribed, TreeInv, Notes
<1>2. /\ Head(pending) \in Notes /\ pending' \in Seq(Notes) /\ Len(pending') = Len(pending) - 1
      /\ \A i \in 1..Len(pending') : pending'[i] = pending[i + 1]
  BY <1>1, HeadTailProperties
<1>3. Len(pending) \in Nat \ {0} /\ Head(pending) = pending[1]
  BY <1>1, EmptySeq
<1>4. \A i \in 1..Len(pending') : i + 1 \in 1..Len(pending) /\ pending'[i] = pending[i + 1]
  BY <1>2, <1>3
<1>5. ASSUME NEW i \in 1..Len(pending), i # 1
      PROVE i - 1 \in 1..Len(pending') /\ pending'[i - 1] = pending[i]
  <2>1. i - 1 \in 1..Len(pending') /\ (i - 1) + 1 = i
    BY <1>2, <1>3, <1>5
  <2>2. QED
    BY <1>2, <2>1
<1>6. ASSUME NEW i \in 1..Len(pending'), IsLast(i)'
      PROVE pending'[i].what = "EXIT" <=> proc'[pending'[i].pid] = Gone
  <2>1. IsLast(i + 1)
    <3>1. ASSUME NEW j \in 1..Len(pending), i + 1 < j, pending[j].what # "COMM"
          PROVE pending[j].pid # pending[i + 1].pid
      <4>1. j # 1 /\ i < j - 1
        BY <3>1
      <4>2. j - 1 \in 1..Len(pending') /\ pending'[j - 1] = pending[j]
        BY <1>5, <4>1
      <4>3. pending'[j - 1].pid # pending'[i].pid
        BY <1>6, <3>1, <4>1, <4>2 DEF IsLast
      <4>4. QED
        BY <1>4, <4>2, <4>3
    <3>2. pending[i + 1].what # "COMM"
      BY <1>4, <1>6 DEF IsLast
    <3>3. QED
      BY <3>1, <3>2 DEF IsLast
  <2>2. QED
    BY <1>1, <1>4, <2>1 DEF TreeInv
<1>7. QED
  BY <1>2, <1>3, <1>4, <1>5, <1>6

\* A notification handled: the name is read later than it was sent, and the last
\* notification of a process decides whether there is one.
LEMMA ReceiveKeepsTree == ASSUME TreeInv, Receive PROVE TreeInv'
<1> USE DaemonAssumption
<1> DEFINE note == Head(pending)
           p == note.pid
<1>1. /\ Received /\ ~overrun /\ note.what # "COMM"
      /\ listener' = "active" /\ tree' = Applied(note)
      /\ unseen' = unseen \ {p}
      /\ UNCHANGED <<proc, called, overrun, scanning>>
      /\ listener \in {"subscribed", "active"}
  BY DEF Receive, Received, Subscribed
<1>2. note \in Notes /\ note = pending[1] /\ Len(pending) \in Nat \ {0} /\ pending' \in Seq(Notes)
  BY <1>1, ReceivedKeepsTree
<1>3. p \in Pids
  BY <1>2 DEF Notes
<1> HIDE DEF note, p
<1>4. /\ tree' \in [Pids -> Names \cup {Unnamed, Gone}]
      /\ tree'[p] = IF note.what = "EXIT" THEN Gone ELSE ReadComm(p)
      /\ \A q \in Pids \ {p} : tree'[q] = tree[q]
  BY <1>1, <1>3 DEF TreeInv, Applied, ReadComm, p
<1>5. \A i \in 1..Len(pending) : i # 1 => i - 1 \in 1..Len(pending') /\ pending'[i - 1] = pending[i]
  BY <1>1, ReceivedKeepsTree
<1>6. \A i \in 1..Len(pending') :
         IsLast(i)' => (pending'[i].what = "EXIT" <=> proc'[pending'[i].pid] = Gone)
  BY <1>1, ReceivedKeepsTree
<1>7. TreeTruthful'
  <2>1. ASSUME NEW q \in Pids,
               ~(q \in scanning \cup unseen'),
               ~\E i \in 1..Len(pending') : pending'[i].pid = q /\ pending'[i].what # "COMM"
        PROVE  (tree'[q] = Gone <=> proc[q] = Gone) /\ tree'[q] \in called[q]
    <3>1. \A i \in 1..Len(pending) : i # 1 /\ pending[i].what # "COMM" => pending[i].pid # q
      BY <1>5, <2>1
    <3>2. CASE q = p
      <4>1. 1 \in 1..Len(pending) /\ IsLast(1)
        BY <1>1, <1>2, <3>1, <3>2 DEF IsLast, p
      <4>2. note.what = "EXIT" <=> proc[p] = Gone
        BY <1>1, <1>2, <4>1 DEF TreeInv, p
      <4>3. tree'[p] = proc[p] /\ proc[p] \in called[p]
        BY <1>3, <1>4, <4>2 DEF ReadComm, TreeInv
      <4>4. QED
        BY <3>2, <4>3
    <3>3. CASE q # p
      <4>1. ~\E i \in 1..Len(pending) : pending[i].pid = q /\ pending[i].what # "COMM"
        BY <1>2, <3>1, <3>3 DEF p
      <4>2. QED
        BY <1>1, <1>4, <2>1, <3>3, <4>1 DEF TreeInv, TreeTruthful
    <3>4. QED
      BY <3>2, <3>3
  <2>2. QED
    BY <1>1, <2>1 DEF TreeTruthful
<1>8. QED
  BY <1>1, <1>2, <1>4, <1>6, <1>7 DEF TreeInv, Notes

\* A rename that is received leaves the tree as it is, with a name the process had.
LEMMA IgnoredKeepsTree == ASSUME TreeInv, IgnoreRename PROVE TreeInv'
<1>1. /\ Received /\ ~overrun /\ Head(pending).what = "COMM"
      /\ listener' = "active" /\ listener \in {"subscribed", "active"}
      /\ UNCHANGED <<proc, called, overrun, scanning, tree, unseen>>
  BY DEF IgnoreRename, Received, Subscribed
<1>2. /\ Head(pending) = pending[1] /\ pending' \in Seq(Notes)
      /\ \A i \in 1..Len(pending) : i # 1 => i - 1 \in 1..Len(pending') /\ pending'[i - 1] = pending[i]
      /\ \A i \in 1..Len(pending') :
            IsLast(i)' => (pending'[i].what = "EXIT" <=> proc'[pending'[i].pid] = Gone)
  BY <1>1, ReceivedKeepsTree
<1>3. TreeTruthful'
  <2>1. ASSUME NEW q \in Pids,
               ~\E i \in 1..Len(pending') : pending'[i].pid = q /\ pending'[i].what # "COMM"
        PROVE  ~\E i \in 1..Len(pending) : pending[i].pid = q /\ pending[i].what # "COMM"
    BY <1>1, <1>2, <2>1
  <2>2. QED
    BY <1>1, <2>1 DEF TreeInv, TreeTruthful
<1>4. QED
  BY <1>1, <1>2, <1>3 DEF TreeInv, Notes

\* A scan starts with what runs, a notification says what runs now, and a name once
\* read stays one the process had until it forks anew, execs or exits.
THEOREM TreeInvariant == Spec => []TreeInv
<1> USE DaemonAssumption
<1>1. Init => TreeInv
  BY EmptySeq, EmptyKeeps DEF Init, TreeInv, TreeTruthful, IsLast
<1>2. TreeInv /\ [Next]_vars => TreeInv'
  <2> SUFFICES ASSUME TreeInv, [Next]_vars PROVE TreeInv'
    OBVIOUS
  <2>1. ASSUME UNCHANGED <<proc, called, pending, overrun, scanning, listener, tree, unseen>>
        PROVE TreeInv'
    BY <2>1 DEF TreeInv, TreeTruthful, IsLast
  <2>2. ASSUME NEW p \in Pids, Exit(p) PROVE TreeInv'
    BY <2>2, HappensKeepsTree DEF Exit
  <2>3. ASSUME NEW p \in Pids, NEW name \in Names, Fork(p, name) \/ Exec(p, name) \/ Rename(p, name)
        PROVE TreeInv'
    BY <2>3, HappensKeepsTree DEF Fork, Exec, Rename
  <2>4. CASE List
    BY <2>4, EmptyKeeps DEF List, kernelVars, TreeInv, TreeTruthful, IsLast
  <2>5. ASSUME NEW p \in Pids, Scan(p) PROVE TreeInv'
    <3>1. /\ listener' = "scanning" /\ listener = "scanning" /\ scanning' = scanning \ {p} /\ p \in scanning
          /\ tree' = [tree EXCEPT ![p] = ReadComm(p)]
          /\ UNCHANGED <<proc, called, pending, overrun, unseen>>
      BY <2>5 DEF Scan, kernelVars
    <3>2. /\ tree' \in [Pids -> Names \cup {Unnamed, Gone}] /\ tree'[p] = ReadComm(p)
          /\ \A q \in Pids \ {p} : tree'[q] = tree[q]
      BY <3>1 DEF TreeInv, ReadComm
    <3>3. p \notin unseen => tree'[p] = proc[p] /\ proc[p] \in called[p]
      BY <3>1, <3>2 DEF TreeInv, ReadComm
    <3>4. TreeTruthful'
      BY <3>1, <3>2, <3>3 DEF TreeInv, TreeTruthful
    <3>5. QED
      BY <3>1, <3>2, <3>4 DEF TreeInv, IsLast
  <2>6. CASE Spawn \/ Subscribe \/ Degrade
    BY <2>6 DEF Spawn, Subscribe, Degrade, kernelVars, Subscribed, TreeInv, TreeTruthful, IsLast
  <2>7. CASE Receive \/ IgnoreRename
    BY <2>7, ReceiveKeepsTree, IgnoredKeepsTree
  <2>8. CASE Record \/ Bind \/ Heartbeat \/ AcceptIdler \/ ReadNothing \/ UNCHANGED vars
    BY <2>1, <2>8 DEF Record, Bind, Heartbeat, AcceptIdler, ReadNothing, vars, daemonVars,
       kernelVars, listenerVars
  <2>9. ASSUME NEW c \in Clients, Accept(c) \/ ReadRequest(c) \/ Drain(c) \/ Respond(c)
                                  \/ ReadAnswer(c) \/ GiveUp(c)
        PROVE TreeInv'
    BY <2>1, <2>9 DEF Accept, ReadRequest, Drain, Respond, ReadAnswer, GiveUp, daemonVars,
       kernelVars, listenerVars
  <2>10. ASSUME NEW c \in Clients, NEW request \in Requests, Call(c, request) PROVE TreeInv'
    BY <2>1, <2>10 DEF Call, daemonVars, kernelVars, listenerVars
  <2>11. QED
    BY <2>2, <2>3, <2>4, <2>5, <2>6, <2>7, <2>8, <2>9, <2>10 DEF Next
<1>3. QED
  BY <1>1, <1>2, PTL DEF Spec

\* The tree has a node for what runs, under a name it had since its last fork or exec,
\* of every process whose forks, execs and exits were all seen.
THEOREM TreeIsTruthful == Spec => []TreeTruthful
<1>1. TreeInv => TreeTruthful
  BY DEF TreeInv
<1>2. QED
  BY <1>1, TreeInvariant, PTL

-----------------------------------------------------------------------------
(* The events.                                                                *)

\* A step of one client's handler, or of the client, that moves events between the
\* channel, that client and the lost ones, and neither makes nor forgets one.
LEMMA MovedEvents ==
    ASSUME EventsInv, NEW c \in Clients,
           UNCHANGED <<recorded, recording, dropped>>,
           EventsTypeOK',
           \A d \in Clients \ {c} : /\ held'[d] = held[d] /\ answer'[d] = answer[d]
                                    /\ received'[d] = received[d] /\ hand'[d] = hand[d]
                                    /\ d \in waiting' <=> d \in waiting,
           Increasing(queue)', Share(c)', Increasing(received[c])',
           ToSet(queue') \subseteq ToSet(queue),
           OwnedBy(c)' \subseteq OwnedBy(c) \cup ToSet(queue),
           lost' \subseteq lost \cup OwnedBy(c),
           ToSet(queue') \cup OwnedBy(c)' \cup lost' = ToSet(queue) \cup OwnedBy(c) \cup lost,
           Disjoint(lost', ToSet(queue')),
           Disjoint(OwnedBy(c)', ToSet(queue') \cup lost'),
           Disjoint(ToSet(held'[c]), ToSet(answer'[c])),
           Disjoint(ToSet(received'[c]), ToSet(held'[c]) \cup ToSet(answer'[c]))
    PROVE  EventsInv'
<1>1. ASSUME NEW d \in Clients, d # c PROVE OwnedBy(d)' = OwnedBy(d)
  BY <1>1 DEF OwnedBy
<1>2. Placed' = Placed
  BY <1>1 DEF Placed
<1>3. ASSUME NEW d \in Clients, d # c PROVE Share(d)'
  <2>1. Share(d)
    BY DEF EventsInv
  <2>2. Before(OwnedBy(d)', ToSet(queue'))
    BY <1>1, <1>3, <2>1 DEF Share, Before
  <2>3. QED
    BY <1>3, <2>1, <2>2 DEF Share
<1>4. ASSUME NEW d \in Clients
      PROVE /\ Disjoint(OwnedBy(d)', ToSet(queue') \cup lost')
            /\ Disjoint(ToSet(held'[d]), ToSet(answer'[d]))
            /\ Disjoint(ToSet(received'[d]), ToSet(held'[d]) \cup ToSet(answer'[d]))
            /\ Increasing(received[d])'
  <2>1. CASE d = c
    BY <2>1
  <2>2. CASE d # c
    <3>1. /\ Disjoint(OwnedBy(d), ToSet(queue) \cup lost) /\ Disjoint(OwnedBy(d), OwnedBy(c))
          /\ Disjoint(ToSet(held[d]), ToSet(answer[d]))
          /\ Disjoint(ToSet(received[d]), ToSet(held[d]) \cup ToSet(answer[d]))
          /\ Increasing(received[d])
      BY <2>2 DEF EventsInv, EventsAccounted
    <3>2. Disjoint(OwnedBy(d)', ToSet(queue') \cup lost')
      BY <1>1, <2>2, <3>1 DEF Disjoint
    <3>3. Increasing(received[d])'
      BY <2>2, <3>1 DEF Increasing
    <3>4. QED
      BY <2>2, <3>1, <3>2, <3>3
  <2>3. QED
    BY <2>1, <2>2
<1>5. ASSUME NEW d \in Clients, NEW e \in Clients, d # e PROVE Disjoint(OwnedBy(d)', OwnedBy(e)')
  <2>1. Disjoint(OwnedBy(d), OwnedBy(e))
    BY <1>5 DEF EventsInv, EventsAccounted
  <2>2. CASE d # c /\ e # c
    BY <1>1, <2>1, <2>2
  <2>3. CASE d = c
    <3>1. Disjoint(OwnedBy(e), ToSet(queue))
      BY DEF EventsInv, EventsAccounted, Disjoint
    <3>2. QED
      BY <1>1, <1>5, <2>1, <2>3, <3>1 DEF Disjoint
  <2>4. CASE e = c
    <3>1. Disjoint(OwnedBy(d), ToSet(queue))
      BY DEF EventsInv, EventsAccounted, Disjoint
    <3>2. QED
      BY <1>1, <1>5, <2>1, <2>4, <3>1 DEF Disjoint
  <2>5. QED
    BY <2>2, <2>3, <2>4
<1>6. EventsAccounted'
  <2>1. Cardinality((1..recorded') \ (Placed' \cup {recording'})) = dropped'
    BY <1>2 DEF EventsInv, EventsAccounted
  <2>2. QED
    BY <1>4, <1>5, <2>1 DEF EventsAccounted
<1>7. \A d \in Clients : Share(d)'
  BY <1>3
<1>8. QED
  BY <1>2, <1>6, <1>7 DEF EventsInv

\* What stays where it is while a client calls, is accepted or is turned away.
LEMMA UnmovedEvents ==
    ASSUME EventsInv,
           UNCHANGED <<recorded, recording, dropped, queue, held, answer, received, lost>>,
           hand' \in [Clients -> {"backlog", "reading", "draining", "writing", "closed"}],
           \A c \in Clients : answer[c] # <<>> => hand'[c] = "closed" /\ c \in waiting',
           \A c \in Clients : held[c] # <<>> => hand'[c] \in {"draining", "writing"}
    PROVE  EventsInv'
<1>1. EventsTypeOK' /\ Increasing(queue)' /\ \A c \in Clients : OwnedBy(c)' = OwnedBy(c)
  BY DEF EventsInv, EventsTypeOK, OwnedBy, Increasing
<1>2. Placed' = Placed
  BY <1>1 DEF Placed
<1>3. EventsAccounted'
  BY <1>1, <1>2 DEF EventsInv, EventsAccounted, Increasing
<1>4. ASSUME NEW c \in Clients PROVE Share(c)'
  BY <1>1 DEF EventsInv, Share, Increasing
<1>5. QED
  BY <1>1, <1>2, <1>3, <1>4 DEF EventsInv

\* The netlink thread's own steps: an event gets the next number, then it is queued
\* or dropped and counted (record_event).
LEMMA RecordedEvents ==
    ASSUME EventsInv, Receive \/ Record PROVE EventsInv'
<1> DEFINE D == (1..recorded) \ (Placed \cup {recording})
<1>1. /\ EventsTypeOK /\ Placed \subseteq (1..recorded) \ {recording} /\ Increasing(queue)
      /\ EventsAccounted /\ Cardinality(D) = dropped /\ \A c \in Clients : Share(c)
  BY DEF EventsInv, EventsAccounted
<1>2. /\ UNCHANGED <<hand, held, answer, received, lost, waiting>>
      /\ \A c \in Clients : OwnedBy(c)' = OwnedBy(c)
  BY DEF Received, Receive, Record, clientVars, OwnedBy
<1>3. CASE Receive
  <2>1. /\ recorded' = recorded + 1 /\ recording' = recorded + 1 /\ recording = 0
        /\ UNCHANGED <<queue, dropped>>
    BY <1>3 DEF Received, Receive
  <2>2. Placed' = Placed
    BY <1>2, <2>1 DEF Placed
  <2>3. (1..recorded') \ (Placed' \cup {recording'}) = D
    BY <1>1, <2>1, <2>2 DEF EventsTypeOK
  <2>4. EventsTypeOK' /\ Placed' \subseteq (1..recorded') \ {recording'}
    BY <1>1, <1>2, <2>1, <2>2 DEF EventsTypeOK
  <2>5. EventsAccounted'
    BY <1>1, <1>2, <2>1, <2>3 DEF EventsAccounted, Increasing
  <2>6. Increasing(queue)' /\ \A c \in Clients : Share(c)'
    BY <1>1, <1>2, <2>1 DEF Share, Increasing
  <2>7. QED
    BY <2>4, <2>5, <2>6 DEF EventsInv
<1>4. CASE Record
  <2>1. recording # 0 /\ recording = recorded /\ recording' = 0 /\ recorded' = recorded /\ recorded \in Nat
    BY <1>1, <1>4 DEF Record, EventsTypeOK
  <2>2. Before(Placed, {recording}) /\ recording \notin Placed
    BY <1>1, <2>1 DEF Before
  <2>3. CASE queue' = Append(queue, recording) /\ UNCHANGED dropped
    <3>1. /\ queue' \in Seq(Nat) /\ ToSet(queue') = ToSet(queue) \cup {recording}
          /\ Increasing(queue')
      <4>1. queue \in Seq(Nat) /\ recording \in Nat /\ Before(ToSet(queue), {recording})
        BY <1>1, <2>1, <2>2 DEF EventsTypeOK, Placed, Before
      <4>2. QED
        BY <1>1, <2>3, <4>1, AppendKeeps
    <3>2. Placed' = Placed \cup {recording}
      BY <1>2, <3>1 DEF Placed
    <3>3. (1..recorded') \ (Placed' \cup {recording'}) = D
      BY <2>1, <3>2
    <3>4. EventsTypeOK' /\ Placed' \subseteq (1..recorded') \ {recording'}
      BY <1>1, <1>2, <2>1, <2>3, <3>1, <3>2 DEF EventsTypeOK
    <3>5. ASSUME NEW c \in Clients PROVE OwnedBy(c) \subseteq Placed
      BY DEF Placed
    <3>6. EventsAccounted'
      <4>1. Cardinality((1..recorded') \ (Placed' \cup {recording'})) = dropped'
        BY <1>1, <2>3, <3>3
      <4>2. Disjoint(lost', ToSet(queue'))
        BY <1>1, <1>2, <2>2, <3>1 DEF EventsAccounted, Disjoint, Placed
      <4>3. ASSUME NEW c \in Clients PROVE Disjoint(OwnedBy(c)', ToSet(queue') \cup lost')
        BY <1>1, <1>2, <2>2, <3>1, <3>5 DEF EventsAccounted, Disjoint
      <4>4. ASSUME NEW c \in Clients
            PROVE /\ Disjoint(ToSet(held'[c]), ToSet(answer'[c]))
                  /\ Disjoint(ToSet(received'[c]), ToSet(held'[c]) \cup ToSet(answer'[c]))
                  /\ Increasing(received[c])'
        BY <1>1, <1>2 DEF EventsAccounted, Increasing
      <4>5. ASSUME NEW c \in Clients, NEW d \in Clients, c # d
            PROVE Disjoint(OwnedBy(c)', OwnedBy(d)')
        BY <1>1, <1>2, <4>5 DEF EventsAccounted
      <4>6. QED
        BY <4>1, <4>2, <4>3, <4>4, <4>5 DEF EventsAccounted
    <3>7. ASSUME NEW c \in Clients PROVE Share(c)'
      <4>1. Before(OwnedBy(c), ToSet(queue'))
        BY <1>1, <2>2, <3>1, <3>5 DEF Share, Before
      <4>2. QED
        BY <1>1, <1>2, <4>1 DEF Share, Increasing
    <3>8. Increasing(queue)'
      BY <3>1 DEF Increasing
    <3>9. QED
      BY <3>4, <3>6, <3>7, <3>8 DEF EventsInv
  <2>4. CASE dropped' = dropped + 1 /\ UNCHANGED queue
    <3>1. Placed' = Placed
      BY <1>2, <2>4 DEF Placed
    <3>2. (1..recorded') \ (Placed' \cup {recording'}) = D \cup {recording} /\ recording \notin D
      BY <2>1, <2>2, <3>1
    <3>3. IsFiniteSet(D)
      <4>1. IsFiniteSet(1..recorded) /\ D \subseteq 1..recorded
        BY <2>1, FS_Interval
      <4>2. QED
        BY <4>1, FS_Subset
    <3>4. Cardinality(D \cup {recording}) = dropped'
      BY <1>1, <2>4, <3>2, <3>3, FS_AddElement
    <3>5. EventsTypeOK' /\ Placed' \subseteq (1..recorded') \ {recording'}
      BY <1>1, <1>2, <2>1, <2>4, <3>1 DEF EventsTypeOK
    <3>6. EventsAccounted'
      <4>1. Cardinality((1..recorded') \ (Placed' \cup {recording'})) = dropped'
        BY <3>2, <3>4
      <4>2. ASSUME NEW c \in Clients
            PROVE /\ Disjoint(OwnedBy(c)', ToSet(queue') \cup lost')
                  /\ Disjoint(ToSet(held'[c]), ToSet(answer'[c]))
                  /\ Disjoint(ToSet(received'[c]), ToSet(held'[c]) \cup ToSet(answer'[c]))
        BY <1>1, <1>2, <2>4 DEF EventsAccounted
      <4>3. ASSUME NEW c \in Clients PROVE Increasing(received[c])'
        BY <1>1, <1>2 DEF EventsAccounted, Increasing
      <4>4. ASSUME NEW c \in Clients, NEW d \in Clients, c # d
            PROVE Disjoint(OwnedBy(c)', OwnedBy(d)')
        BY <1>1, <1>2, <4>4 DEF EventsAccounted
      <4>5. Disjoint(lost', ToSet(queue'))
        BY <1>1, <1>2, <2>4 DEF EventsAccounted
      <4>6. QED
        BY <4>1, <4>2, <4>3, <4>4, <4>5 DEF EventsAccounted
    <3>7. Increasing(queue)'
      BY <1>1, <2>4 DEF Increasing
    <3>8. ASSUME NEW c \in Clients PROVE Share(c)'
      <4>1. Share(c) /\ OwnedBy(c)' = OwnedBy(c)
        BY <1>1, <1>2
      <4>2. QED
        BY <1>1, <1>2, <2>4, <4>1 DEF Share, Increasing
    <3>9. QED
      BY <3>5, <3>6, <3>7, <3>8 DEF EventsInv
  <2>5. QED
    BY <1>4, <2>3, <2>4 DEF Record
<1>5. QED
  BY <1>3, <1>4

\* A handler takes the oldest event of the channel; two that drain at once take
\* different ones (build_events_json).
LEMMA DrainedEvents ==
    ASSUME EventsInv, NEW c \in Clients, Drain(c) PROVE EventsInv'
<1>1. /\ EventsTypeOK /\ EventsAccounted /\ Share(c) /\ Increasing(queue)
      /\ UNCHANGED <<recorded, recording, dropped, waiting, answer, received, lost>>
  BY DEF EventsInv, Drain, daemonVars, listenerVars
<1>2. CASE queue = <<>>
  <2>1. /\ hand' = [hand EXCEPT ![c] = "writing"] /\ UNCHANGED <<queue, held>> /\ hand[c] = "draining"
    BY <1>2 DEF Drain
  <2>2. QED
    BY <1>1, <2>1, UnmovedEvents DEF EventsInv, EventsTypeOK, Share
<1>3. CASE queue # <<>>
  <2> DEFINE h == Head(queue)
  <2>1. /\ held' = [held EXCEPT ![c] = Append(held[c], h)] /\ queue' = Tail(queue)
        /\ hand' = hand /\ hand[c] = "draining"
    BY <1>3 DEF Drain
  <2>2. queue \in Seq(Nat) /\ held[c] \in Seq(Nat)
    BY <1>1 DEF EventsTypeOK
  <2>3. /\ h \in Nat /\ queue' \in Seq(Nat) /\ ToSet(queue) = {h} \cup ToSet(queue')
        /\ Increasing(queue') /\ Before({h}, ToSet(queue'))
    BY <1>1, <1>3, <2>1, <2>2, TailKeeps
  <2> HIDE DEF h
  <2>4. held'[c] = Append(held[c], h) /\ \A d \in Clients \ {c} : held'[d] = held[d]
    BY <1>1, <2>1 DEF EventsTypeOK
  <2>5. Before(ToSet(held[c]), {h})
    BY <1>1, <2>3 DEF Share, Before, OwnedBy
  <2>6. /\ held'[c] \in Seq(Nat) /\ ToSet(held'[c]) = ToSet(held[c]) \cup {h}
        /\ Increasing(held'[c])
    BY <1>1, <2>2, <2>3, <2>4, <2>5, AppendKeeps DEF Share
  <2>7. EventsTypeOK'
    BY <1>1, <2>1, <2>3, <2>6 DEF EventsTypeOK
  <2>8. OwnedBy(c)' = OwnedBy(c) \cup {h}
    BY <1>1, <2>6 DEF OwnedBy
  <2>9. h \notin ToSet(queue')
    BY <2>3 DEF Before
  <2>10. /\ Disjoint(lost, ToSet(queue)) /\ Disjoint(OwnedBy(c), ToSet(queue) \cup lost)
         /\ Disjoint(ToSet(held[c]), ToSet(answer[c]))
         /\ Disjoint(ToSet(received[c]), ToSet(held[c]) \cup ToSet(answer[c]))
         /\ Increasing(received[c])
    BY <1>1 DEF EventsAccounted
  <2>11. Share(c)'
    <3>1. Before(OwnedBy(c)', ToSet(queue'))
      BY <1>1, <2>3, <2>8 DEF Share, Before
    <3>2. Before(ToSet(received[c]), ToSet(held'[c]) \cup ToSet(answer[c]))
      BY <1>1, <2>3, <2>6 DEF Share, Before, OwnedBy
    <3>3. Increasing(held[c])' /\ Increasing(answer[c])'
      BY <1>1, <2>6 DEF Share, Increasing
    <3>4. QED
      BY <1>1, <2>1, <3>1, <3>2, <3>3 DEF Share
  <2>12. Increasing(queue)' /\ Increasing(received[c])'
    BY <1>1, <2>3, <2>10 DEF Increasing
  <2>13. h \in ToSet(queue) /\ h \notin OwnedBy(c)
    BY <2>3, <2>10 DEF Disjoint
  <2>14. /\ Disjoint(lost', ToSet(queue')) /\ Disjoint(OwnedBy(c)', ToSet(queue') \cup lost')
         /\ Disjoint(ToSet(held'[c]), ToSet(answer'[c]))
         /\ Disjoint(ToSet(received'[c]), ToSet(held'[c]) \cup ToSet(answer'[c]))
    BY <1>1, <2>3, <2>6, <2>8, <2>9, <2>10, <2>13 DEF Disjoint, OwnedBy
  <2>15. ToSet(queue') \cup OwnedBy(c)' \cup lost' = ToSet(queue) \cup OwnedBy(c) \cup lost
    BY <1>1, <2>3, <2>8
  <2>16. QED
    BY <1>1, <2>1, <2>3, <2>4, <2>7, <2>8, <2>11, <2>12, <2>14, <2>15, MovedEvents
<1>4. QED
  BY <1>2, <1>3

\* The handler's answer reaches the socket, or nobody waits for it (handle_client).
LEMMA AnsweredEvents ==
    ASSUME EventsInv, NEW c \in Clients, Respond(c) PROVE EventsInv'
<1>1. /\ EventsTypeOK /\ EventsAccounted /\ Share(c) /\ Increasing(queue)
      /\ UNCHANGED <<recorded, recording, dropped, waiting, received, queue>>
      /\ hand[c] = "writing" /\ hand' = [hand EXCEPT ![c] = "closed"]
      /\ held' = [held EXCEPT ![c] = <<>>]
  BY DEF EventsInv, Respond, daemonVars, listenerVars
<1>2. /\ hand'[c] = "closed" /\ held'[c] = <<>>
      /\ \A d \in Clients \ {c} : held'[d] = held[d] /\ hand'[d] = hand[d]
  BY <1>1 DEF EventsTypeOK
<1>3. answer[c] = <<>> /\ ToSet(answer[c]) = {}
  BY <1>1, EmptyKeeps DEF Share
<1>4. ToSet(held'[c]) = {} /\ Increasing(held'[c]) /\ held'[c] \in Seq(Nat)
  BY <1>2, EmptyKeeps
<1>5. /\ Disjoint(lost, ToSet(queue)) /\ Disjoint(OwnedBy(c), ToSet(queue) \cup lost)
      /\ Disjoint(ToSet(held[c]), ToSet(answer[c]))
      /\ Disjoint(ToSet(received[c]), ToSet(held[c]) \cup ToSet(answer[c]))
      /\ Increasing(received[c])
  BY <1>1 DEF EventsAccounted
<1>6. Increasing(queue)' /\ Increasing(received[c])'
  BY <1>1, <1>5 DEF Increasing
<1>7. CASE c \in waiting
  <2>1. answer' = [answer EXCEPT ![c] = held[c]] /\ lost' = lost
    BY <1>7 DEF Respond
  <2>2. answer'[c] = held[c] /\ \A d \in Clients \ {c} : answer'[d] = answer[d]
    BY <1>1, <2>1 DEF EventsTypeOK
  <2>3. EventsTypeOK'
    BY <1>1, <1>4, <2>1 DEF EventsTypeOK
  <2>4. OwnedBy(c)' = OwnedBy(c)
    BY <1>1, <1>3, <1>4, <2>2 DEF OwnedBy
  <2>5. Share(c)'
    <3>1. Before(OwnedBy(c)', ToSet(queue')) /\ Before(ToSet(received'[c]), ToSet(held'[c]) \cup ToSet(answer'[c]))
      BY <1>1, <1>4, <2>2, <2>4 DEF Share, Before
    <3>2. Increasing(held[c])' /\ Increasing(answer[c])'
      BY <1>1, <1>4, <2>2 DEF Share, Increasing
    <3>3. QED
      BY <1>1, <1>2, <1>7, <3>1, <3>2 DEF Share
  <2>6. /\ Disjoint(OwnedBy(c)', ToSet(queue') \cup lost')
        /\ Disjoint(ToSet(held'[c]), ToSet(answer'[c]))
        /\ Disjoint(ToSet(received'[c]), ToSet(held'[c]) \cup ToSet(answer'[c]))
        /\ Disjoint(lost', ToSet(queue'))
    BY <1>1, <1>4, <1>5, <2>1, <2>2, <2>4 DEF Disjoint
  <2>7. QED
    BY <1>1, <1>2, <1>6, <2>1, <2>2, <2>3, <2>4, <2>5, <2>6, MovedEvents
<1>8. CASE c \notin waiting
  <2>1. answer' = answer /\ lost' = lost \cup ToSet(held[c])
    BY <1>8 DEF Respond
  <2>2. EventsTypeOK'
    BY <1>1, <1>4, <2>1 DEF EventsTypeOK
  <2>3. OwnedBy(c)' = ToSet(received[c]) /\ OwnedBy(c) = ToSet(received[c]) \cup ToSet(held[c])
    BY <1>1, <1>3, <1>4, <2>1 DEF OwnedBy
  <2>4. Share(c)'
    <3>1. Before(OwnedBy(c)', ToSet(queue')) /\ Before(ToSet(received'[c]), ToSet(held'[c]) \cup ToSet(answer'[c]))
      BY <1>1, <1>3, <1>4, <2>1, <2>3 DEF Share, Before
    <3>2. Increasing(held[c])' /\ Increasing(answer[c])'
      BY <1>1, <1>4, <2>1 DEF Share, Increasing
    <3>3. QED
      BY <1>2, <1>3, <2>1, <3>1, <3>2 DEF Share
  <2>5. /\ Disjoint(OwnedBy(c)', ToSet(queue') \cup lost')
        /\ Disjoint(ToSet(held'[c]), ToSet(answer'[c]))
        /\ Disjoint(ToSet(received'[c]), ToSet(held'[c]) \cup ToSet(answer'[c]))
        /\ Disjoint(lost', ToSet(queue'))
    BY <1>1, <1>3, <1>4, <1>5, <2>1, <2>3 DEF Disjoint
  <2>6. ToSet(queue') \cup OwnedBy(c)' \cup lost' = ToSet(queue) \cup OwnedBy(c) \cup lost
    BY <1>1, <2>1, <2>3
  <2>7. QED
    BY <1>1, <1>2, <1>6, <2>1, <2>2, <2>3, <2>4, <2>5, <2>6, MovedEvents
<1>9. QED
  BY <1>7, <1>8

\* The client prints its answer after the earlier ones, or goes away with it
\* (the reads of src/daemon_client.rs).
LEMMA ReadEvents ==
    ASSUME EventsInv, NEW c \in Clients, ReadAnswer(c) \/ GiveUp(c) PROVE EventsInv'
<1>1. /\ EventsTypeOK /\ EventsAccounted /\ Share(c) /\ Increasing(queue)
      /\ UNCHANGED <<recorded, recording, dropped, held, hand, queue>>
      /\ waiting' = waiting \ {c}
      /\ answer' = [answer EXCEPT ![c] = <<>>]
  BY DEF EventsInv, ReadAnswer, GiveUp, daemonVars, listenerVars
<1>2. answer'[c] = <<>> /\ \A d \in Clients \ {c} : answer'[d] = answer[d]
  BY <1>1 DEF EventsTypeOK
<1>3. ToSet(answer'[c]) = {} /\ Increasing(answer'[c]) /\ answer'[c] \in Seq(Nat)
  BY <1>2, EmptyKeeps
<1>4. /\ Disjoint(lost, ToSet(queue)) /\ Disjoint(OwnedBy(c), ToSet(queue) \cup lost)
      /\ Disjoint(ToSet(held[c]), ToSet(answer[c]))
      /\ Disjoint(ToSet(received[c]), ToSet(held[c]) \cup ToSet(answer[c]))
      /\ Increasing(received[c])
  BY <1>1 DEF EventsAccounted
<1>5. Increasing(queue)' /\ Increasing(held[c])'
  BY <1>1 DEF Share, Increasing
<1>6. Increasing(answer[c])'
  BY <1>3 DEF Increasing
<1>7. CASE ReadAnswer(c)
  <2>1. /\ received' = [received EXCEPT ![c] = received[c] \o answer[c]] /\ lost' = lost
        /\ hand[c] = "closed"
    BY <1>7 DEF ReadAnswer
  <2>2. /\ received'[c] = received[c] \o answer[c]
        /\ \A d \in Clients \ {c} : received'[d] = received[d]
        /\ received[c] \in Seq(Nat) /\ answer[c] \in Seq(Nat)
    BY <1>1, <2>1 DEF EventsTypeOK
  <2>3. Before(ToSet(received[c]), ToSet(answer[c])) /\ Increasing(answer[c])
    BY <1>1 DEF Share, Before
  <2>4. /\ received'[c] \in Seq(Nat) /\ ToSet(received'[c]) = ToSet(received[c]) \cup ToSet(answer[c])
        /\ Increasing(received'[c])
    BY <1>4, <2>2, <2>3, ConcatKeeps
  <2>5. held[c] = <<>> /\ ToSet(held[c]) = {}
    BY <1>1, <2>1, EmptyKeeps DEF Share
  <2>6. EventsTypeOK'
    BY <1>1, <1>3, <2>1, <2>4 DEF EventsTypeOK
  <2>7. OwnedBy(c)' = OwnedBy(c)
    BY <1>1, <1>3, <2>4 DEF OwnedBy
  <2>8. Share(c)'
    <3>1. Before(OwnedBy(c)', ToSet(queue')) /\ Before(ToSet(received'[c]), ToSet(held'[c]) \cup ToSet(answer'[c]))
      BY <1>1, <1>3, <2>5, <2>7 DEF Share, Before
    <3>2. QED
      BY <1>1, <1>2, <1>5, <1>6, <2>5, <3>1 DEF Share
  <2>9. Increasing(received[c])'
    BY <2>4 DEF Increasing
  <2>10. /\ Disjoint(OwnedBy(c)', ToSet(queue') \cup lost')
         /\ Disjoint(ToSet(held'[c]), ToSet(answer'[c]))
         /\ Disjoint(ToSet(received'[c]), ToSet(held'[c]) \cup ToSet(answer'[c]))
         /\ Disjoint(lost', ToSet(queue'))
    BY <1>1, <1>3, <1>4, <2>1, <2>5, <2>7 DEF Disjoint
  <2>11. QED
    BY <1>1, <1>2, <1>5, <2>1, <2>2, <2>6, <2>7, <2>8, <2>9, <2>10, MovedEvents
<1>8. CASE GiveUp(c)
  <2>1. lost' = lost \cup ToSet(answer[c]) /\ received' = received
    BY <1>8 DEF GiveUp
  <2>2. EventsTypeOK'
    BY <1>1, <1>3, <2>1 DEF EventsTypeOK
  <2>3. /\ OwnedBy(c)' = ToSet(received[c]) \cup ToSet(held[c])
        /\ OwnedBy(c) = ToSet(received[c]) \cup ToSet(held[c]) \cup ToSet(answer[c])
    BY <1>1, <1>3, <2>1 DEF OwnedBy
  <2>4. Share(c)'
    <3>1. Before(OwnedBy(c)', ToSet(queue')) /\ Before(ToSet(received'[c]), ToSet(held'[c]) \cup ToSet(answer'[c]))
      BY <1>1, <1>3, <2>1, <2>3 DEF Share, Before
    <3>2. QED
      BY <1>1, <1>2, <1>5, <1>6, <3>1 DEF Share
  <2>5. Increasing(received[c])'
    BY <1>4, <2>1 DEF Increasing
  <2>6. /\ Disjoint(OwnedBy(c)', ToSet(queue') \cup lost')
        /\ Disjoint(ToSet(held'[c]), ToSet(answer'[c]))
        /\ Disjoint(ToSet(received'[c]), ToSet(held'[c]) \cup ToSet(answer'[c]))
        /\ Disjoint(lost', ToSet(queue'))
    BY <1>1, <1>3, <1>4, <2>1, <2>3 DEF Disjoint
  <2>7. ToSet(queue') \cup OwnedBy(c)' \cup lost' = ToSet(queue) \cup OwnedBy(c) \cup lost
    BY <1>1, <2>1, <2>3
  <2>8. QED
    BY <1>1, <1>2, <1>5, <2>1, <2>2, <2>3, <2>4, <2>5, <2>6, <2>7, MovedEvents
<1>9. QED
  BY <1>7, <1>8

\* An event has one place, and what a client prints, prepares and may still get is in
\* the order of the events.
THEOREM EventsInvariant == Spec => []EventsInv
<1> USE DaemonAssumption
<1>1. Init => EventsInv
  <2> SUFFICES ASSUME Init PROVE EventsInv
    OBVIOUS
  <2>1. \A c \in Clients : held[c] = <<>> /\ answer[c] = <<>> /\ received[c] = <<>>
    BY DEF Init
  <2>2. ToSet(queue) = {} /\ \A c \in Clients : OwnedBy(c) = {}
    BY <2>1, EmptyKeeps DEF Init, OwnedBy
  <2>3. Placed = {}
    BY <2>2 DEF Init, Placed
  <2>4. Cardinality((1..recorded) \ (Placed \cup {recording})) = dropped
    BY FS_EmptySet DEF Init
  <2>5. EventsAccounted
    BY <2>1, <2>2, <2>4, EmptyKeeps DEF Init, EventsAccounted, Disjoint
  <2>6. \A c \in Clients : Share(c)
    BY <2>1, <2>2, EmptyKeeps DEF Share, Before
  <2>7. EventsTypeOK
    BY EmptyKeeps DEF Init, EventsTypeOK
  <2>8. Increasing(queue)
    BY EmptyKeeps DEF Init
  <2>9. QED
    BY <2>3, <2>5, <2>6, <2>7, <2>8 DEF EventsInv
<1>2. EventsInv /\ [Next]_vars => EventsInv'
  <2> SUFFICES ASSUME EventsInv, [Next]_vars PROVE EventsInv'
    OBVIOUS
  <2>1. ASSUME UNCHANGED <<recorded, recording, dropped, queue, held, answer, received, lost, hand, waiting>>
        PROVE EventsInv'
    BY <2>1, UnmovedEvents DEF EventsInv, EventsTypeOK, Share
  <2>2. ASSUME NEW p \in Pids, NEW name \in Names,
               Fork(p, name) \/ Exec(p, name) \/ Rename(p, name)
        PROVE EventsInv'
    BY <2>1, <2>2 DEF Fork, Exec, Rename, Happens, clientVars
  <2>3. ASSUME NEW p \in Pids, Exit(p) \/ Scan(p) PROVE EventsInv'
    BY <2>1, <2>3 DEF Exit, Happens, Scan, clientVars
  <2>4. CASE List \/ Spawn \/ Subscribe \/ Degrade \/ Bind \/ Heartbeat \/ AcceptIdler
             \/ ReadNothing \/ IgnoreRename \/ UNCHANGED vars
    BY <2>1, <2>4 DEF List, Spawn, Subscribe, Degrade, Bind, Heartbeat, AcceptIdler, ReadNothing,
       Received, IgnoreRename, vars, daemonVars, listenerVars, clientVars
  <2>5. CASE Receive \/ Record
    BY <2>5, RecordedEvents
  <2>6. ASSUME NEW c \in Clients, Drain(c) PROVE EventsInv'
    BY <2>6, DrainedEvents
  <2>7. ASSUME NEW c \in Clients, Respond(c) PROVE EventsInv'
    BY <2>7, AnsweredEvents
  <2>8. ASSUME NEW c \in Clients, ReadAnswer(c) \/ GiveUp(c) PROVE EventsInv'
    BY <2>8, ReadEvents
  <2>9. ASSUME NEW c \in Clients, Accept(c) PROVE EventsInv'
    BY <2>9, UnmovedEvents DEF Accept, daemonVars, listenerVars, EventsInv, EventsTypeOK, Share
  <2>10. ASSUME NEW c \in Clients, ReadRequest(c) PROVE EventsInv'
    BY <2>10, UnmovedEvents DEF ReadRequest, daemonVars, listenerVars, EventsInv, EventsTypeOK, Share
  <2>11. ASSUME NEW c \in Clients, NEW request \in Requests, Call(c, request) PROVE EventsInv'
    BY <2>11, UnmovedEvents DEF Call, daemonVars, listenerVars, EventsInv, EventsTypeOK, Share
  <2>12. QED
    BY <2>2, <2>3, <2>4, <2>5, <2>6, <2>7, <2>8, <2>9, <2>10, <2>11 DEF Next
<1>3. QED
  BY <1>1, <1>2, PTL DEF Spec

\* Every recorded event is in one place or counted as dropped, and every client prints
\* its share in order.
THEOREM EventsAreAccounted == Spec => []EventsAccounted
<1>1. EventsInv => EventsAccounted
  BY DEF EventsInv
<1>2. QED
  BY <1>1, EventsInvariant, PTL
=============================================================================
