------------------------------- MODULE Daemon -------------------------------
(***************************************************************************)
(* One life of the agent's daemon (src/daemon.rs): the scan of /proc, the  *)
(* netlink thread that follows the kernel's process notifications in the   *)
(* process tree and queues one event per notification, the socket thread   *)
(* that accepts clients and writes the health file, and one thread per     *)
(* client that answers a request.  The clients are those of                *)
(* src/daemon_client.rs, and any program that connects and stays silent.   *)
(*                                                                         *)
(* A restart is Init again: nothing of this state outlives the process.    *)
(* What record_event publishes and evaluates is the subject of             *)
(* TelemetryExport and AlertLifecycle; here a notification is one event.   *)
(***************************************************************************)
EXTENDS Integers, FiniteSets, Sequences, SequencesExt

CONSTANTS
    Pids,          \* process ids, used again after an exit
    Names,         \* what a process may be called
    Unnamed,       \* the name read for a process that is gone
    Gone,          \* no process, no node
    Clients,       \* programs that call the daemon
    QueueLimit,    \* 4096 in the code
    MaxClients,    \* 32 in the code
    KernelBuffer,  \* notifications the netlink socket holds
    MaxEvents,     \* bound: what processes do
    MaxCalls       \* bound: calls of clients

ASSUME DaemonAssumption ==
    /\ {Unnamed, Gone} \cap Names = {}
    /\ Unnamed # Gone
    /\ QueueLimit \in Nat /\ MaxClients \in Nat /\ KernelBuffer \in Nat
    /\ MaxEvents \in Nat /\ MaxCalls \in Nat

VARIABLES
    proc,       \* the kernel: what runs under a process id
    happened,   \* how many forks, execs, renames and exits there were
    called,     \* ghost: the names a process had since its last fork or exec
    pending,    \* notifications sent to the socket and not received
    overrun,    \* a notification did not fit: the next receive fails
    scanning,   \* listed by read_dir and not yet read; Pids before the listing
    listener,   \* the netlink thread
    netlink,    \* NETLINK_STATE
    tree,       \* the process tree: pid to name
    unseen,     \* ghost: pids that changed while nobody was subscribed
    recorded,   \* events recorded, which numbers them
    recording,  \* the event the netlink thread is recording, 0 if none
    queue,      \* the bounded channel
    dropped,    \* DROPPED_EVENTS
    server,     \* the socket thread
    active,     \* clients being handled, as the code counts them
    idlers,     \* connections of programs that send nothing
    hand,       \* the daemon's end of each call
    asked,      \* the request in its socket, until that is closed
    held,       \* the events its handler has drained
    waiting,    \* the clients that wait for their answer
    answer,     \* what is written to the socket and not read
    received,   \* the events a client has printed
    failures,   \* RESPONSE_WRITE_FAILURES
    lost,       \* ghost: events of an answer nobody read
    calls,
    health      \* the health file

kernelVars == <<proc, happened, called, pending, overrun>>
listenerVars == <<listener, netlink, tree, unseen, recorded, recording, dropped>>
clientVars == <<active, idlers, hand, asked, held, waiting, answer, received, failures, lost, calls>>
vars == <<kernelVars, scanning, listenerVars, queue, server, clientVars, health>>

Requests == {"events", "process_tree"}   \* an unknown request is answered like the tree, at once

Init ==
    /\ proc \in [Pids -> Names \cup {Gone}]
    /\ happened = 0 /\ pending = <<>> /\ overrun = FALSE
    /\ called = [p \in Pids |-> {proc[p]}]
    /\ scanning = Pids
    /\ listener = "unborn" /\ netlink = "starting"
    /\ tree = [p \in Pids |-> Gone] /\ unseen = {}
    /\ recorded = 0 /\ recording = 0 /\ queue = <<>> /\ dropped = 0
    /\ server = "unborn" /\ active = 0 /\ idlers = 0
    /\ hand = [c \in Clients |-> "closed"]
    /\ asked = [c \in Clients |-> "none"]
    /\ held = [c \in Clients |-> <<>>]
    /\ waiting = {}
    /\ answer = [c \in Clients |-> <<>>]
    /\ received = [c \in Clients |-> <<>>]
    /\ failures = 0 /\ lost = {} /\ calls = 0
    /\ health = [state |-> "starting", netlink |-> "starting", dropped |-> 0]

-----------------------------------------------------------------------------
(* The kernel. *)

Subscribed == listener \in {"subscribed", "active"}

\* A notification that does not fit is lost and the socket says so once.
Notify(what, p) ==
    IF ~Subscribed THEN /\ unseen' = IF what = "COMM" THEN unseen ELSE unseen \cup {p}
                        /\ UNCHANGED <<pending, overrun>>
    ELSE /\ UNCHANGED unseen
         /\ IF Len(pending) < KernelBuffer
            THEN pending' = Append(pending, [what |-> what, pid |-> p]) /\ UNCHANGED overrun
            ELSE overrun' = TRUE /\ UNCHANGED pending

Happens(what, p, name) ==
    /\ happened < MaxEvents
    /\ happened' = happened + 1
    /\ proc' = [proc EXCEPT ![p] = name]
    /\ called' = [called EXCEPT ![p] = IF what = "COMM" THEN @ \cup {name} ELSE {name}]
    /\ Notify(what, p)
    /\ UNCHANGED <<scanning, listener, netlink, tree, recorded, recording, queue, dropped,
                   server, clientVars, health>>

Fork(p, name) == proc[p] = Gone /\ Happens("FORK", p, name)
Exec(p, name) == proc[p] # Gone /\ Happens("EXEC", p, name)
Exit(p) == proc[p] # Gone /\ Happens("EXIT", p, Gone)

\* A process names itself (prctl), or is named through /proc: no exec.
Rename(p, name) == proc[p] # Gone /\ Happens("COMM", p, name)

-----------------------------------------------------------------------------
(* The main thread: list /proc, read one process after the other, then     *)
(* start the other two threads.                                            *)

ReadComm(p) == IF proc[p] = Gone THEN Unnamed ELSE proc[p]

List ==
    /\ listener = "unborn"
    /\ listener' = "scanning"
    /\ scanning' = {p \in Pids : proc[p] # Gone}
    /\ UNCHANGED <<kernelVars, netlink, tree, unseen, recorded, recording, queue, dropped,
                   server, clientVars, health>>

\* A process that exits after it was listed stays in the tree, without a name.
Scan(p) ==
    /\ listener = "scanning" /\ p \in scanning
    /\ scanning' = scanning \ {p}
    /\ tree' = [tree EXCEPT ![p] = ReadComm(p)]
    /\ UNCHANGED <<kernelVars, listener, netlink, unseen, recorded, recording, queue, dropped,
                   server, clientVars, health>>

Spawn ==
    /\ listener = "scanning" /\ scanning = {}
    /\ listener' = "opening" /\ server' = "opening"
    /\ UNCHANGED <<kernelVars, scanning, netlink, tree, unseen, recorded, recording, queue,
                   dropped, clientVars, health>>

-----------------------------------------------------------------------------
(* The netlink thread. *)

\* Opening the connector fails, the kernel rejects the subscription, or a
\* receive fails: the thread ends and the daemon serves what it has.
Degrade ==
    /\ \/ listener \in {"opening", "subscribed"}
       \/ Subscribed /\ overrun /\ recording = 0
    /\ listener' = "ended"
    /\ netlink' = "degraded"
    /\ UNCHANGED <<kernelVars, scanning, tree, unseen, recorded, recording, queue, dropped,
                   server, clientVars, health>>

Subscribe ==
    /\ listener = "opening"
    /\ listener' = "subscribed"
    /\ UNCHANGED <<kernelVars, scanning, netlink, tree, unseen, recorded, recording, queue,
                   dropped, server, clientVars, health>>

\* Mutant: a fork does not replace the node of an earlier process of that id.
AppliedOnce(note) ==
    [tree EXCEPT ![note.pid] = IF note.what = "EXIT" THEN Gone
                               ELSE IF note.what = "FORK" /\ @ # Gone THEN @ ELSE ReadComm(note.pid)]

\* What a notification does to the tree: an exec of an unknown process adds it.
Applied(note) ==
    [tree EXCEPT ![note.pid] = IF note.what = "EXIT" THEN Gone ELSE ReadComm(note.pid)]

\* The first notification of any kind confirms the subscription.
Received ==
    /\ Subscribed /\ ~overrun /\ pending # <<>> /\ recording = 0
    /\ pending' = Tail(pending)
    /\ listener' = "active" /\ netlink' = "active"
    /\ UNCHANGED <<proc, happened, called, overrun, scanning, queue, dropped, server, clientVars,
                   health>>

Receive ==
    /\ Received /\ Head(pending).what # "COMM"
    /\ tree' = Applied(Head(pending))
    /\ unseen' = unseen \ {Head(pending).pid}
    /\ recorded' = recorded + 1
    /\ recording' = recorded + 1

\* A rename is neither applied to the tree nor recorded.
IgnoreRename ==
    /\ Received /\ Head(pending).what = "COMM"
    /\ UNCHANGED <<tree, unseen, recorded, recording>>

\* try_send: a full channel, or one whose receiver is gone, drops the event.
Record ==
    /\ recording # 0
    /\ recording' = 0
    /\ IF server # "gone" /\ Len(queue) < QueueLimit
       THEN queue' = Append(queue, recording) /\ UNCHANGED dropped
       ELSE dropped' = dropped + 1 /\ UNCHANGED queue
    /\ UNCHANGED <<kernelVars, scanning, listener, netlink, tree, unseen, recorded,
                   server, clientVars, health>>

-----------------------------------------------------------------------------
(* The socket thread. *)

Bind ==
    /\ server = "opening"
    /\ server' \in {"serving", "gone"}
    /\ UNCHANGED <<kernelVars, scanning, listenerVars, queue, clientVars, health>>

\* Mutant: the health file is written when the daemon becomes ready, and no more.
HeartbeatOnce ==
    /\ server = "serving" /\ health.state = "starting"
    /\ health' = [state |-> "ready", netlink |-> netlink, dropped |-> dropped]
    /\ UNCHANGED <<kernelVars, scanning, listenerVars, queue, server, clientVars>>

\* The heartbeat writes a temporary file and renames it.
Heartbeat ==
    /\ server = "serving"
    /\ health' = [state |-> "ready", netlink |-> netlink, dropped |-> dropped]
    /\ UNCHANGED <<kernelVars, scanning, listenerVars, queue, server, clientVars>>

daemonVars == <<kernelVars, scanning, listenerVars, server, health>>

HasRoom == active < MaxClients

\* One connection too many is closed without an answer.
Accept(c) ==
    /\ hand[c] = "backlog"
    /\ IF HasRoom
       THEN hand' = [hand EXCEPT ![c] = "reading"] /\ active' = active + 1
       ELSE hand' = [hand EXCEPT ![c] = "closed"] /\ UNCHANGED active
    /\ asked' = [asked EXCEPT ![c] = IF HasRoom THEN @ ELSE "none"]
    /\ UNCHANGED <<daemonVars, queue, idlers, held, waiting, answer, received,
                   failures, lost, calls>>

AcceptIdler ==
    /\ server = "serving" /\ HasRoom
    /\ idlers' = idlers + 1 /\ active' = active + 1
    /\ UNCHANGED <<daemonVars, queue, hand, asked, held, waiting, answer, received, failures,
                   lost, calls>>

-----------------------------------------------------------------------------
(* handle_client, one thread per connection.  It reads without a timeout.  *)

\* Mutant: the early return does not give the slot back.
ReadNothingKept ==
    /\ idlers > 0
    /\ idlers' = idlers - 1
    /\ UNCHANGED <<daemonVars, queue, active, hand, asked, held, waiting, answer, received, failures,
                   lost, calls>>

\* The program went away without a request.
ReadNothing ==
    /\ idlers > 0
    /\ idlers' = idlers - 1 /\ active' = active - 1
    /\ UNCHANGED <<daemonVars, queue, hand, asked, held, waiting, answer, received, failures,
                   lost, calls>>

ReadRequest(c) ==
    /\ hand[c] = "reading"
    /\ hand' = [hand EXCEPT ![c] = IF asked[c] = "events" THEN "draining" ELSE "writing"]
    /\ UNCHANGED <<daemonVars, queue, active, idlers, asked, held, waiting, answer, received,
                   failures, lost, calls>>

\* Mutant: the events are read and stay in the channel.
DrainByCopy(c) ==
    /\ hand[c] = "draining"
    /\ hand' = [hand EXCEPT ![c] = "writing"]
    /\ held' = [held EXCEPT ![c] = queue]
    /\ UNCHANGED <<daemonVars, queue, active, idlers, asked, waiting, answer, received, failures,
                   lost, calls>>

\* build_events_json: try_recv until the channel is empty.
Drain(c) ==
    /\ hand[c] = "draining"
    /\ IF queue = <<>>
       THEN /\ hand' = [hand EXCEPT ![c] = "writing"]
            /\ UNCHANGED <<queue, held>>
       ELSE /\ held' = [held EXCEPT ![c] = Append(@, Head(queue))]
            /\ queue' = Tail(queue)
            /\ UNCHANGED hand
    /\ UNCHANGED <<daemonVars, active, idlers, asked, waiting, answer, received, failures,
                   lost, calls>>

\* A client that gave up meanwhile makes the write fail: the events are lost.
Respond(c) ==
    /\ hand[c] = "writing"
    /\ IF c \in waiting
       THEN /\ answer' = [answer EXCEPT ![c] = held[c]]
            /\ UNCHANGED <<failures, lost>>
       ELSE /\ failures' = failures + 1
            /\ lost' = lost \cup ToSet(held[c])
            /\ UNCHANGED answer
    /\ held' = [held EXCEPT ![c] = <<>>]
    /\ hand' = [hand EXCEPT ![c] = "closed"]
    /\ asked' = [asked EXCEPT ![c] = "none"]
    /\ active' = active - 1
    /\ UNCHANGED <<daemonVars, queue, idlers, waiting, received, calls>>

-----------------------------------------------------------------------------
(* The client. *)

\* connect and write: the request is in the socket before the daemon accepts.
Call(c, request) ==
    /\ server = "serving" /\ hand[c] = "closed" /\ c \notin waiting /\ calls < MaxCalls
    /\ calls' = calls + 1
    /\ waiting' = waiting \cup {c}
    /\ hand' = [hand EXCEPT ![c] = "backlog"]
    /\ asked' = [asked EXCEPT ![c] = request]
    /\ UNCHANGED <<daemonVars, queue, active, idlers, held, answer, received, failures, lost>>

\* The answer ends when the daemon closes.  One without a document, from a
\* daemon with too many clients, is an error.
ReadAnswer(c) ==
    /\ c \in waiting /\ hand[c] = "closed"
    /\ waiting' = waiting \ {c}
    /\ received' = [received EXCEPT ![c] = @ \o answer[c]]
    /\ answer' = [answer EXCEPT ![c] = <<>>]
    /\ UNCHANGED <<daemonVars, queue, active, idlers, hand, asked, held, failures, lost, calls>>

\* The client's timeout passes, or the program ends: an answer that is already
\* in the socket goes with it, and the daemon does not notice.
GiveUp(c) ==
    /\ c \in waiting
    /\ waiting' = waiting \ {c}
    /\ lost' = lost \cup ToSet(answer[c])
    /\ answer' = [answer EXCEPT ![c] = <<>>]
    /\ UNCHANGED <<daemonVars, queue, active, idlers, hand, asked, held, received, failures, calls>>

-----------------------------------------------------------------------------
Next ==
    \/ \E p \in Pids :
          \/ Exit(p) \/ Scan(p)
          \/ \E name \in Names : Fork(p, name) \/ Exec(p, name) \/ Rename(p, name)
    \/ List \/ Spawn \/ Subscribe \/ Degrade \/ Receive \/ IgnoreRename \/ Record
    \/ Bind \/ Heartbeat
    \/ AcceptIdler \/ ReadNothing
    \/ \E c \in Clients : \/ Accept(c) \/ ReadRequest(c) \/ Drain(c) \/ Respond(c)
                          \/ ReadAnswer(c) \/ GiveUp(c)
                          \/ \E request \in Requests : Call(c, request)

\* The accept loop never blocks: it polls, sleeps 100 ms and writes the health
\* file every second.  Nothing else is promised here: a handler may drain for as
\* long as events arrive, and a silent program holds its thread for good.
Spec == Init /\ [][Next]_vars /\ WF_vars(Heartbeat)

-----------------------------------------------------------------------------
TypeOK ==
    /\ proc \in [Pids -> Names \cup {Gone}]
    /\ tree \in [Pids -> Names \cup {Unnamed, Gone}]
    /\ called \in [Pids -> SUBSET (Names \cup {Gone})]
    /\ pending \in Seq([what : {"FORK", "EXEC", "EXIT", "COMM"}, pid : Pids])
    /\ scanning \subseteq Pids /\ unseen \subseteq Pids /\ overrun \in BOOLEAN
    /\ listener \in {"unborn", "scanning", "opening", "subscribed", "active", "ended"}
    /\ netlink \in {"starting", "active", "degraded"}
    /\ server \in {"unborn", "opening", "serving", "gone"}
    /\ queue \in Seq(Nat) /\ Len(queue) <= QueueLimit
    /\ {happened, recorded, recording, dropped, active, idlers, failures, calls} \subseteq Nat
    /\ hand \in [Clients -> {"backlog", "reading", "draining", "writing", "closed"}]
    /\ asked \in [Clients -> Requests \cup {"none"}] /\ waiting \subseteq Clients
    /\ \A c \in Clients : {held[c], answer[c], received[c]} \subseteq Seq(Nat)
    /\ lost \subseteq Nat

\* Every event the netlink thread recorded is in one place: queued, with one
\* handler, in one answer, with one client, in an answer nobody read, or dropped
\* and counted.  Two clients that drain at once share the events, neither sees
\* one twice and none disappears between them; and each prints its share in the
\* order in which it happened, over all its calls (src/daemon.rs:425, :454,
\* README.md:262).
OwnedBy(c) == ToSet(held[c]) \cup ToSet(answer[c]) \cup ToSet(received[c])
Placed == ToSet(queue) \cup lost \cup UNION {OwnedBy(c) : c \in Clients}
Increasing(s) == \A i, j \in 1..Len(s) : i < j => s[i] < s[j]
Disjoint(S, T) == S \cap T = {}
EventsAccounted ==
    /\ Cardinality((1..recorded) \ (Placed \cup {recording})) = dropped
    /\ Disjoint(lost, ToSet(queue))
    /\ \A c \in Clients :
          /\ Disjoint(OwnedBy(c), ToSet(queue) \cup lost)
          /\ Disjoint(ToSet(held[c]), ToSet(answer[c]))
          /\ Disjoint(ToSet(received[c]), ToSet(held[c]) \cup ToSet(answer[c]))
          /\ Increasing(received[c])
    /\ \A c, d \in Clients : c # d => Disjoint(OwnedBy(c), OwnedBy(d))

\* The count of clients is the number of connections being handled, on every
\* path out of the handler, and never above the limit (src/daemon.rs:508, :589).
Handled == {c \in Clients : hand[c] \in {"reading", "draining", "writing"}}
SlotsAccounted ==
    /\ active = idlers + Cardinality(Handled)
    /\ active <= MaxClients

\* The tree has a node exactly for what runs, and calls it by a name it has had
\* since its last fork or exec, of every process that did neither, nor exited,
\* while nobody was subscribed, and whose forks, execs and exits were all handled:
\* although names are read from /proc later than the notification was sent, and
\* process ids are used again (src/daemon.rs:268, :296, :327).  More does not
\* hold: the kernel tells of a rename without an exec, and the daemon drops it
\* (src/daemon.rs:373), so the tree may keep a name the process no longer has.
TreeTruthful ==
    \A p \in Pids :
        \/ listener \in {"unborn", "ended"} \/ overrun
        \/ p \in scanning \cup unseen
        \/ \E i \in 1..Len(pending) : pending[i].pid = p /\ pending[i].what # "COMM"
        \/ /\ tree[p] = Gone <=> proc[p] = Gone
           /\ tree[p] \in called[p]

(* The inductive invariants behind the three.  An event is younger than those *)
(* handed out before it; an answer is under way only while its client waits;  *)
(* the last notification of a process, renames apart, tells whether it runs.  *)
Before(S, T) == \A x \in S, y \in T : x < y

Share(c) ==
    /\ Increasing(held[c]) /\ Increasing(answer[c])
    /\ Before(OwnedBy(c), ToSet(queue))
    /\ Before(ToSet(received[c]), ToSet(held[c]) \cup ToSet(answer[c]))
    /\ answer[c] # <<>> => hand[c] = "closed" /\ c \in waiting
    /\ held[c] # <<>> => hand[c] \in {"draining", "writing"}

EventsTypeOK ==
    /\ recorded \in Nat /\ dropped \in Nat /\ recording \in {0, recorded}
    /\ queue \in Seq(Nat) /\ hand \in [Clients -> {"backlog", "reading", "draining", "writing", "closed"}]
    /\ held \in [Clients -> Seq(Nat)] /\ answer \in [Clients -> Seq(Nat)]
    /\ received \in [Clients -> Seq(Nat)]

EventsInv ==
    /\ EventsTypeOK
    /\ Placed \subseteq (1..recorded) \ {recording}
    /\ Increasing(queue)
    /\ \A c \in Clients : Share(c)
    /\ EventsAccounted

SlotsInv ==
    /\ active \in Nat /\ idlers \in Nat
    /\ hand \in [Clients -> {"backlog", "reading", "draining", "writing", "closed"}]
    /\ IsFiniteSet(Handled)
    /\ SlotsAccounted

IsLast(i) ==
    /\ pending[i].what # "COMM"
    /\ \A j \in 1..Len(pending) :
          i < j /\ pending[j].what # "COMM" => pending[j].pid # pending[i].pid

TreeInv ==
    /\ proc \in [Pids -> Names \cup {Gone}] /\ tree \in [Pids -> Names \cup {Unnamed, Gone}]
    /\ pending \in Seq([what : {"FORK", "EXEC", "EXIT", "COMM"}, pid : Pids])
    /\ \A p \in Pids : \/ proc[p] = Gone /\ called[p] = {Gone}
                       \/ proc[p] \in called[p] /\ called[p] \subseteq Names
    /\ called \in [Pids -> SUBSET (Names \cup {Gone})]
    /\ listener \in {"unborn", "scanning", "opening", "subscribed", "active", "ended"}
    /\ scanning \subseteq Pids
    /\ listener = "unborn" => tree = [p \in Pids |-> Gone]
    /\ listener = "scanning" => \A p \in scanning \ unseen : proc[p] # Gone
    /\ listener \in {"unborn", "scanning", "opening"} => pending = <<>>
    /\ \/ overrun \/ listener = "ended"
       \/ \A i \in 1..Len(pending) :
             IsLast(i) => (pending[i].what = "EXIT" <=> proc[pending[i].pid] = Gone)
    /\ TreeTruthful

\* A daemon that lost its subscription says so in its health file in the end, and
\* one that drops events shows how many (src/daemon.rs:189, :426,
\* docs/ROADMAP.md:54).
TroubleShown ==
    /\ (server = "serving" /\ listener = "ended") ~> (health.netlink = "degraded")
    /\ (server = "serving") ~> (health.dropped = dropped)
=============================================================================
