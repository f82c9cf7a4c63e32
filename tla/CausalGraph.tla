----------------------------- MODULE CausalGraph -----------------------------
(***************************************************************************)
(* CausalGraph: the graph of processes and resources built from two        *)
(* snapshots and an eBPF log, and the breadth-first search for what may    *)
(* have caused a symptom.                                                  *)
(***************************************************************************)
EXTENDS Naturals, Sequences, FiniteSets

CONSTANTS
    Proc, Device, Socket, File,
    NoProcess,      \* the parent of a process without one
    DefaultDisk,    \* the device blamed when the disk statistics name none
    Snapshots,      \* what the two snapshots and the log may say of the processes
    Disks           \* what the disk statistics may say of the devices

Resource == Device \cup Socket \cup File

\* Rates as the thresholds of build_graph tell them apart.
Quiet == 0
Active == 1     \* above 0.1 KB/s
Heavy == 2      \* above 500 KB/s
Excessive == 3  \* above 5000 KB/s

ASSUME GraphAssumption ==
    /\ IsFiniteSet(Proc \cup Resource) /\ NoProcess \notin Proc /\ DefaultDisk \in Device
    /\ Proc \cap Resource = {}
    /\ \A s \in Snapshots, p \in Proc :
         /\ s[p].parent \in Proc \cup {NoProcess} /\ s[p].io \in Quiet..Excessive
         /\ {s[p].blocked, s[p].writes, s[p].hot} \subseteq BOOLEAN
         /\ s[p].opens \subseteq Resource /\ s[p].traced \in Seq(Resource)
    /\ \A d \in Disks : DOMAIN d \subseteq Device

VARIABLES
    rate,       \* per process, from the two snapshots and the eBPF log
    disk,       \* per device of the disk statistics: I/O rate and utilization
    edges,      \* the graph
    queue,      \* found and not yet expanded
    visited,    \* every node that was ever put into the queue
    path        \* expanded nodes, in order: the explanation
graphVars == <<rate, disk, edges, queue, visited, path>>
-----------------------------------------------------------------------------
(* build_graph.                                                                *)

AnomalousProcess(p) == rate[p].blocked \/ rate[p].hot \/ rate[p].io = Excessive
AnomalousDevice(d) == d \in DOMAIN disk /\ disk[d].busy
Anomalous(n) == IF n \in Proc THEN AnomalousProcess(n) ELSE AnomalousDevice(n)

\* A file counts when a process that does I/O has it open.
ActiveFiles == File \cap UNION {rate[p].opens : p \in {q \in Proc : rate[q].io >= Active}}

Edge(p, n, kind, nr) == [from |-> p, to |-> n, kind |-> kind, nr |-> nr]

\* The resources of a process, each once however many descriptors it has.
Mapped(p) ==
    {r \in rate[p].opens : r \in Device \/ (r \in Socket /\ rate[p].writes) \/ r \in ActiveFiles}

ParentEdges(p) ==
    IF rate[p].parent = NoProcess THEN {} ELSE {Edge(p, rate[p].parent, "spawned by", 1)}

AccessEdges(p) ==
    {Edge(p, r, IF rate[p].writes THEN "writes to" ELSE "reads from", 1) : r \in Mapped(p)}

\* The device with the most I/O of those the disk statistics name.
MostActive ==
    IF DOMAIN disk = {} THEN {DefaultDisk}
    ELSE {d \in DOMAIN disk : \A e \in DOMAIN disk : disk[e].io <= disk[d].io}

\* A process in uninterruptible sleep waits for all its resources, or else for a disk.
BlockEdges(p) ==
    IF ~rate[p].blocked THEN {}
    ELSE {Edge(p, r, "blocked on", 1) :
            r \in IF Mapped(p) # {} THEN Mapped(p) ELSE {CHOOSE d \in MostActive : TRUE}}

\* The opens, connects and executions of the log, one edge each.
TracedEdges(p) ==
    {Edge(p, rate[p].traced[i], "reads from", i + 1) : i \in DOMAIN rate[p].traced}

\* Processes with heavy I/O on one resource contend with each other.  An access and
\* a wait of one process count as two accessors.
Accesses == UNION {AccessEdges(p) \cup BlockEdges(p) : p \in Proc}

ContendEdges ==
    LET heavy == {e \in Accesses : rate[e.from].io >= Heavy}
    IN {Edge(pair[1].from, pair[2].from, "contends with", 1) :
          pair \in {q \in heavy \X heavy : q[1] # q[2] /\ q[1].to = q[2].to}}

Edges ==
    Accesses \cup ContendEdges
        \cup UNION {ParentEdges(p) \cup TracedEdges(p) : p \in Proc}

IsAccess(e) == e.kind \in {"reads from", "writes to"}
-----------------------------------------------------------------------------
(* trace_root_cause.                                                           *)

GraphInit ==
    /\ rate \in Snapshots
    /\ disk \in Disks
    /\ edges = Edges
    /\ path = <<>>
    /\ \E symptom \in Proc : queue = <<symptom>> /\ visited = {symptom}

\* Only a resource in trouble, or one an anomalous process also uses, is followed.
Suspicious(r, p) ==
    Anomalous(r) \/ \E e \in edges : e.to = r /\ e.from # p /\ AnomalousProcess(e.from)

\* Mutant: no contention is followed.
CausesOfFew(p) ==
    {e.to : e \in {f \in edges : /\ f.from = p /\ f.kind # "contends with"
                                 /\ IsAccess(f) => Suspicious(f.to, p)}}

CausesOf(p) ==
    {e.to : e \in {f \in edges : f.from = p /\ (IsAccess(f) => Suspicious(f.to, p))}}

Users(r) == {e \in edges : e.to = r /\ IsAccess(e)}

\* Mutant: sorted the wrong way round.
Top3Lazy(r) ==
    {T \in SUBSET Users(r) :
       /\ Cardinality(T) = IF Cardinality(Users(r)) < 3 THEN Cardinality(Users(r)) ELSE 3
       /\ \A e \in T, f \in Users(r) \ T : rate[f.from].io >= rate[e.from].io}

\* The first three of the accesses to a resource when sorted by I/O; the order among
\* equals is that of the hash map.
Top3(r) ==
    {T \in SUBSET Users(r) :
       /\ Cardinality(T) = IF Cardinality(Users(r)) < 3 THEN Cardinality(Users(r)) ELSE 3
       /\ \A e \in T, f \in Users(r) \ T : rate[f.from].io <= rate[e.from].io}

\* The order of the new nodes is that of the edges, hence of the hash map.
Orders(S) == {o \in [1..Cardinality(S) -> S] : \A n \in S : \E i \in DOMAIN o : o[i] = n}

Visit(found) ==
    /\ visited' = visited \cup found
    /\ \E order \in Orders(found \ visited) : queue' = Tail(queue) \o order

Expand ==
    /\ queue # <<>>
    /\ path' = Append(path, Head(queue))
    /\ UNCHANGED <<rate, disk, edges>>

ExpandProcess == Expand /\ Head(queue) \in Proc /\ Visit(CausesOf(Head(queue)))

ExpandResource ==
    /\ Expand /\ Head(queue) \in Resource
    /\ \E T \in Top3(Head(queue)) : Visit({e.from : e \in T})

GraphNext == ExpandProcess \/ ExpandResource

GraphSpec == GraphInit /\ [][GraphNext]_graphVars
-----------------------------------------------------------------------------
Node == Proc \cup Resource

OnPath(n) == \E i \in DOMAIN path : path[i] = n

GraphTypeOK ==
    /\ queue \in Seq(Node) /\ path \in Seq(Node)
    /\ visited = {path[i] : i \in DOMAIN path} \cup {queue[i] : i \in DOMAIN queue}
    /\ Len(path) + Len(queue) = Cardinality(visited)

\* When the search ends, whatever a process on the path waits for, descends from or
\* contends with is on the path too (src/causal_engine.rs:619).
NoCauseMissed ==
    queue = <<>> =>
      \A e \in edges : (OnPath(e.from) /\ ~IsAccess(e)) => OnPath(e.to)

\* The processes that use a resource.
UsedBy(r) == {e.from : e \in Users(r)}

\* Of a resource on the path the three busiest processes are found, or all there are.
ThreeBusiest ==
    \A i \in DOMAIN path :
      LET found == UsedBy(path[i]) \cap visited
      IN path[i] \in Resource =>
           \A p \in UsedBy(path[i]) \ visited :
             Cardinality({q \in found : rate[q].io >= rate[p].io}) >= 3

Untraced == \A p \in Proc : rate[p].traced = <<>>

\* Without an eBPF log, where each process uses a resource once, the three busiest
\* users of a resource are found, whatever order the hash maps have
\* (src/causal_engine.rs:655).
ThreeBusiestUntraced == Untraced => ThreeBusiest

\* Why: what was put into the queue is expanded or still waits, and what was expanded
\* has put its causes, or the busiest accesses, into the queue.
FrontierInv ==
    /\ visited = {path[i] : i \in DOMAIN path} \cup {queue[i] : i \in DOMAIN queue}
    /\ \A i \in DOMAIN path :
         /\ path[i] \in Proc \cup Resource
         /\ path[i] \in Proc => CausesOf(path[i]) \subseteq visited
         /\ path[i] \in Resource => \E T \in Top3(path[i]) : {e.from : e \in T} \subseteq visited

GraphInv ==
    /\ edges = Edges /\ rate \in Snapshots /\ disk \in Disks
    /\ queue \in Seq(visited) /\ path \in Seq(visited)
    /\ FrontierInv
=============================================================================
