------------------------------ MODULE DiskSpool ------------------------------
(***************************************************************************)
(* The durable telemetry spool of the agent (src/spool.rs), at the grain of *)
(* its file operations.                                                    *)
(*                                                                         *)
(* A daemon process opens the spool directory; its publishing threads call *)
(* next_sequence and then append, its export worker calls pending and then *)
(* acknowledge.  Every method holds the mutex of the DiskSpool value, which *)
(* excludes the threads of the same process only: a second daemon on the   *)
(* same directory has a mutex of its own.  A file is replaced by writing   *)
(* <file>.tmp-<pid> with create_new and renaming it, and a crash may fall  *)
(* between the two.                                                        *)
(***************************************************************************)
EXTENDS Integers, FiniteSets

CONSTANTS
    Daemon,       \* daemon processes that use the spool directory
    Publisher,    \* threads that publish (netlink listener, socket server)
    Worker,       \* export workers
    DaemonOf,     \* the daemon a thread belongs to
    Pid,          \* process ids the operating system may give
    None,         \* no process, no lock holder
    BatchSize,    \* ExportPolicy::batch_size
    MaxRecords,   \* the byte limit of the spool, counted in records
    MaxSequence,  \* u64::MAX: checked_add fails beyond it
    MaxMessages,  \* bound on the publishes in a behaviour
    MaxCrashes,   \* bound on the crashes in a behaviour
    MaxFaults     \* bound on the I/O errors and damaged files in a behaviour

Thread == Publisher \cup Worker

ASSUME SpoolAssumption ==
    /\ Publisher \cap Worker = {}
    /\ DaemonOf \in [Thread -> Daemon]
    /\ \A v, w \in Worker : DaemonOf[v] = DaemonOf[w] => v = w
    /\ None \notin Pid \cup Thread
    /\ BatchSize \in Nat \ {0}
    /\ {MaxRecords, MaxSequence, MaxMessages, MaxCrashes, MaxFaults} \subseteq Nat

VARIABLES
    sequence,    \* content of the sequence file; 0 while it does not exist
    records,     \* the envelopes under records/, one file per sequence
    damaged,     \* those whose file no longer parses
    quarantine,  \* the envelopes moved under quarantine/
    temps,       \* temporary files <<file, pid>>; file 0 is the sequence file
    running,     \* process id of each daemon, None when it is down
    lock,        \* thread that holds the mutex of each daemon's DiskSpool
    pc,          \* where each thread is
    msg,         \* envelope a publisher is working on
    batch,       \* envelopes a worker is working on
    clock,       \* now_ns(), advanced by every publish: the message identity
    crashes, faults

\* History: every envelope whose append succeeded, and every envelope the
\* worker was told to acknowledge.  No action reads them.
VARIABLES written, acked

spool == <<sequence, records, damaged, quarantine, temps>>
threads == <<lock, pc, msg, batch>>
history == <<written, acked>>
vars == <<spool, running, threads, clock, crashes, faults, history>>

SequenceFile == 0
Envelope == [seq : Nat, id : Nat]
NoEnvelope == [seq |-> 0, id |-> 0]
-----------------------------------------------------------------------------
Init ==
    /\ sequence = 0
    /\ records = {} /\ damaged = {} /\ quarantine = {} /\ temps = {}
    /\ running = [d \in Daemon |-> None]
    /\ lock = [d \in Daemon |-> None]
    /\ pc = [t \in Thread |-> "idle"]
    /\ msg = [t \in Publisher |-> NoEnvelope]
    /\ batch = [w \in Worker |-> {}]
    /\ clock = 0 /\ crashes = 0 /\ faults = 0
    /\ written = {} /\ acked = {}

\* Mutant: threads use the spool before it is open.
UpAlways(t) == TRUE

Up(t) == running[DaemonOf[t]] # None
Free(t) == Up(t) /\ lock[DaemonOf[t]] = None
Temp(file, t) == <<file, running[DaemonOf[t]]>>

Acquire(t) == lock' = [lock EXCEPT ![DaemonOf[t]] = t]
Release(t) == lock' = [lock EXCEPT ![DaemonOf[t]] = None]
Goto(t, place) == pc' = [pc EXCEPT ![t] = place]

\* DiskSpool::open: the directories are made, leftover temporary files stay.
\* The process id may be one an earlier daemon had.
Open(d) ==
    /\ running[d] = None
    /\ \E p \in Pid :
         /\ \A e \in Daemon : running[e] # p
         /\ running' = [running EXCEPT ![d] = p]
    /\ UNCHANGED <<spool, threads, clock, crashes, faults, history>>

\* The process dies: its memory, mutex included, is gone; files stay.
Crash(d) ==
    /\ running[d] # None
    /\ crashes < MaxCrashes
    /\ crashes' = crashes + 1
    /\ running' = [running EXCEPT ![d] = None]
    /\ lock' = [lock EXCEPT ![d] = None]
    /\ pc' = [t \in Thread |-> IF DaemonOf[t] = d THEN "idle" ELSE pc[t]]
    /\ msg' = [t \in Publisher |-> IF DaemonOf[t] = d THEN NoEnvelope ELSE msg[t]]
    /\ batch' = [w \in Worker |-> IF DaemonOf[w] = d THEN {} ELSE batch[w]]
    /\ UNCHANGED <<spool, clock, faults, history>>
-----------------------------------------------------------------------------
(* next_sequence: read the file, write its successor to the temporary file  *)
(* (create_new fails when a leftover is in the way), rename it.  The id of   *)
(* the envelope carries the time of the publish.                            *)
NextSequence(t) ==
    /\ pc[t] = "idle" /\ Free(t)
    /\ sequence < MaxSequence /\ clock < MaxMessages
    /\ Temp(SequenceFile, t) \notin temps
    /\ temps' = temps \cup {Temp(SequenceFile, t)}
    /\ msg' = [msg EXCEPT ![t] = [seq |-> sequence + 1, id |-> 0]]
    /\ Acquire(t) /\ Goto(t, "numbering")
    /\ UNCHANGED <<sequence, records, damaged, quarantine, running, batch,
                   clock, crashes, faults, history>>

\* Mutant: the number is returned although the file was not replaced.
CommitSequenceUnsaved(t) ==
    /\ pc[t] = "numbering"
    /\ temps' = temps \ {Temp(SequenceFile, t)}
    /\ clock' = clock + 1
    /\ msg' = [msg EXCEPT ![t].id = clock + 1]
    /\ Release(t) /\ Goto(t, "numbered")
    /\ UNCHANGED <<sequence, records, damaged, quarantine, running, batch,
                   crashes, faults, history>>

CommitSequence(t) ==
    /\ pc[t] = "numbering"
    /\ sequence' = msg[t].seq
    /\ temps' = temps \ {Temp(SequenceFile, t)}
    /\ clock' = clock + 1
    /\ msg' = [msg EXCEPT ![t].id = clock + 1]
    /\ Release(t) /\ Goto(t, "numbered")
    /\ UNCHANGED <<records, damaged, quarantine, running, batch,
                   crashes, faults, history>>

(* append: refused when the spool is full, when the sequence has a file or   *)
(* when a leftover temporary file is in the way; the sequence is then lost.  *)
Exists(seq) == \E r \in records : r.seq = seq

Appendable(t) ==
    /\ Cardinality(records) < MaxRecords
    /\ ~Exists(msg[t].seq)
    /\ Temp(msg[t].seq, t) \notin temps

AppendRecord(t) ==
    /\ pc[t] = "numbered" /\ Free(t)
    /\ Appendable(t)
    /\ temps' = temps \cup {Temp(msg[t].seq, t)}
    /\ Acquire(t) /\ Goto(t, "writing")
    /\ UNCHANGED <<sequence, records, damaged, quarantine, running, msg, batch,
                   clock, crashes, faults, history>>

RefuseAppend(t) ==
    /\ pc[t] = "numbered" /\ Free(t)
    /\ ~Appendable(t)
    /\ Goto(t, "idle")
    /\ msg' = [msg EXCEPT ![t] = NoEnvelope]
    /\ UNCHANGED <<spool, running, lock, batch, clock, crashes, faults, history>>

\* Mutant: the temporary file is copied and stays.
CommitAppendCopies(t) ==
    /\ pc[t] = "writing"
    /\ records' = {r \in records : r.seq # msg[t].seq} \cup {msg[t]}
    /\ damaged' = damaged \cap records'
    /\ written' = written \cup {msg[t]}
    /\ msg' = [msg EXCEPT ![t] = NoEnvelope]
    /\ Release(t) /\ Goto(t, "idle")
    /\ UNCHANGED <<sequence, quarantine, temps, running, batch, clock, crashes,
                   faults, acked>>

\* Mutant: the publisher appends the same envelope again.
CommitAppendRepeats(t) ==
    /\ pc[t] = "writing"
    /\ temps' = temps \ {Temp(msg[t].seq, t)}
    /\ records' = {r \in records : r.seq # msg[t].seq} \cup {msg[t]}
    /\ damaged' = damaged \cap records'
    /\ written' = written \cup {msg[t]}
    /\ Release(t) /\ Goto(t, "numbered")
    /\ UNCHANGED <<sequence, quarantine, running, msg, batch, clock, crashes,
                   faults, acked>>

CommitAppend(t) ==
    /\ pc[t] = "writing"
    /\ temps' = temps \ {Temp(msg[t].seq, t)}
    /\ records' = {r \in records : r.seq # msg[t].seq} \cup {msg[t]}
    /\ damaged' = damaged \cap records'
    /\ written' = written \cup {msg[t]}
    /\ msg' = [msg EXCEPT ![t] = NoEnvelope]
    /\ Release(t) /\ Goto(t, "idle")
    /\ UNCHANGED <<sequence, quarantine, running, batch, clock, crashes, faults,
                   acked>>

(* An I/O error under atomic_write: a failed write or sync removes the        *)
(* temporary file, a failed rename leaves it behind.                          *)
WriteFails(t) ==
    /\ pc[t] \in {"numbering", "writing"}
    /\ faults < MaxFaults
    /\ faults' = faults + 1
    /\ LET file == IF pc[t] = "numbering" THEN SequenceFile ELSE msg[t].seq
       IN temps' \in {temps, temps \ {Temp(file, t)}}
    /\ msg' = [msg EXCEPT ![t] = NoEnvelope]
    /\ Release(t) /\ Goto(t, "idle")
    /\ UNCHANGED <<sequence, records, damaged, quarantine, running, batch,
                   clock, crashes, history>>
-----------------------------------------------------------------------------
(* pending: of the oldest BatchSize files, the ones that no longer parse go   *)
(* to quarantine and the others are returned.                                 *)
Oldest(S) == {r \in S : Cardinality({q \in S : q.seq < r.seq}) < BatchSize}

Pending(w) ==
    /\ pc[w] = "idle" /\ Free(w)
    /\ LET corrupt == Oldest(records) \cap damaged IN
         /\ records' = records \ corrupt
         /\ damaged' = damaged \ corrupt
         /\ quarantine' = quarantine \cup corrupt
         /\ batch' = [batch EXCEPT ![w] = Oldest(records) \ corrupt]
    /\ Goto(w, IF batch'[w] = {} THEN "idle" ELSE "sending")
    /\ UNCHANGED <<sequence, temps, running, lock, msg, clock, crashes, faults,
                   history>>

\* The retry budget ends without an acknowledgement: the batch stays.
GiveUp(w) ==
    /\ pc[w] = "sending"
    /\ Goto(w, "idle")
    /\ batch' = [batch EXCEPT ![w] = {}]
    /\ UNCHANGED <<spool, running, lock, msg, clock, crashes, faults, history>>

(* acknowledge: the files of the accepted envelopes are removed one by one in  *)
(* sequence order; a missing file ends the call with an error.                 *)
Acknowledge(w) ==
    /\ pc[w] = "sending" /\ Free(w)
    /\ \E accepted \in (SUBSET batch[w]) \ {{}} :
         /\ batch' = [batch EXCEPT ![w] = accepted]
         /\ acked' = acked \cup accepted
    /\ Acquire(w) /\ Goto(w, "removing")
    /\ UNCHANGED <<spool, running, msg, clock, crashes, faults, written>>

\* Mutant: an acknowledged sequence is taken for a watermark.
RemoveUpTo(w) ==
    /\ pc[w] = "removing"
    /\ \E e \in batch[w] :
         /\ \A f \in batch[w] : e.seq <= f.seq
         /\ records' = {r \in records : r.seq > e.seq}
         /\ batch' = [batch EXCEPT ![w] = IF Exists(e.seq) THEN @ \ {e} ELSE {}]
    /\ IF batch'[w] = {} THEN Release(w) /\ Goto(w, "idle")
                         ELSE UNCHANGED <<lock, pc>>
    /\ damaged' = damaged \cap records'
    /\ UNCHANGED <<sequence, quarantine, temps, running, msg, clock, crashes,
                   faults, history>>

RemoveFile(w) ==
    /\ pc[w] = "removing"
    /\ \E e \in batch[w] :
         /\ \A f \in batch[w] : e.seq <= f.seq
         /\ records' = {r \in records : r.seq # e.seq}
         /\ batch' = [batch EXCEPT ![w] = IF Exists(e.seq) THEN @ \ {e} ELSE {}]
    /\ IF batch'[w] = {} THEN Release(w) /\ Goto(w, "idle")
                         ELSE UNCHANGED <<lock, pc>>
    /\ damaged' = damaged \cap records'
    /\ UNCHANGED <<sequence, quarantine, temps, running, msg, clock, crashes,
                   faults, history>>

\* A record file is damaged on disk.
Damage ==
    /\ faults < MaxFaults
    /\ faults' = faults + 1
    /\ \E r \in records \ damaged : damaged' = damaged \cup {r}
    /\ UNCHANGED <<sequence, records, quarantine, temps, running, threads, clock,
                   crashes, history>>
-----------------------------------------------------------------------------
Publish(t) ==
    \/ NextSequence(t) \/ CommitSequence(t)
    \/ AppendRecord(t) \/ RefuseAppend(t) \/ CommitAppend(t)
    \/ WriteFails(t)

Export(w) == Pending(w) \/ GiveUp(w) \/ Acknowledge(w) \/ RemoveFile(w)

Next ==
    \/ \E d \in Daemon : Open(d) \/ Crash(d)
    \/ \E t \in Publisher : Publish(t)
    \/ \E w \in Worker : Export(w)
    \/ Damage

Spec == Init /\ [][Next]_vars
-----------------------------------------------------------------------------
TypeOK ==
    /\ sequence \in Nat
    /\ records \subseteq Envelope /\ damaged \subseteq records
    /\ quarantine \subseteq Envelope
    /\ temps \subseteq Nat \X Pid
    /\ running \in [Daemon -> Pid \cup {None}]
    /\ lock \in [Daemon -> Thread \cup {None}]
    /\ pc \in [Thread -> {"idle", "numbering", "numbered", "writing",
                          "sending", "removing"}]
    /\ msg \in [Publisher -> Envelope]
    /\ batch \in [Worker -> SUBSET Envelope]
    /\ clock \in Nat /\ crashes \in Nat /\ faults \in Nat
    /\ written \subseteq Envelope /\ acked \subseteq Envelope

\* One daemon owns the spool directory.
SingleDaemon == \A d, e \in Daemon : d = e

\* No two envelopes are ever persisted under one sequence, whatever crashes,
\* failed writes and restarts fall between drawing a sequence and appending
\* (next_sequence persists the number before it returns it).
SequenceUnique == \A a, b \in written : a.seq = b.seq => a = b

\* An envelope whose append succeeded stays in the spool until the collector
\* acknowledged it or its damaged file went to quarantine.
NothingLost == written \ acked \subseteq records \cup quarantine

\* The files a worker is exporting or removing are in the spool: acknowledge
\* never reports "acknowledged spool record is missing".
BatchOnDisk == \A w \in Worker : batch[w] \subseteq records

\* The sequence file never goes back, across threads, crashes and restarts.
SequenceMonotonic == [][sequence' >= sequence]_vars

\* A temporary file in the spool belongs to a write in progress, or to a write
\* that a crash or an I/O error cut short: a completed write leaves none.
Locked == {d \in Daemon : lock[d] # None}
TempsAccounted == Cardinality(temps) <= crashes + faults + Cardinality(Locked)

(* The inductive invariant behind these, for a single daemon: a number drawn    *)
(* but not yet appended is issued, unused and held by one thread, and a write   *)
(* in progress holds the mutex.                                                 *)
Numbered(t) == pc[t] \in {"numbered", "writing"}

SequencesIssued ==
    /\ \A e \in written : e.seq \in 1..sequence
    /\ \A t \in Publisher : pc[t] = "numbering" => msg[t].seq = sequence + 1
    /\ \A t \in Publisher : Numbered(t) =>
         /\ msg[t].seq \in 1..sequence
         /\ \A e \in written : e.seq # msg[t].seq
         /\ \A u \in Publisher \ {t} : Numbered(u) => msg[u].seq # msg[t].seq

MutexHeld ==
    \A t \in Thread : pc[t] \in {"numbering", "writing", "removing"}
                          => lock[DaemonOf[t]] = t

FilesWritten == records \cup quarantine \cup acked \subseteq written

RemovalAcked == \A w \in Worker : pc[w] = "removing" => batch[w] \subseteq acked

SpoolInv ==
    /\ TypeOK /\ SequencesIssued /\ MutexHeld /\ FilesWritten /\ RemovalAcked
    /\ SequenceUnique /\ NothingLost /\ BatchOnDisk

(* The inductive invariant behind TempsAccounted, for any number of daemons: a  *)
(* write in progress has its temporary file, which bears the process id of a   *)
(* daemon that is up and so is nobody else's.                                   *)
InWrite(t) == pc[t] \in {"numbering", "writing"}
FileOf(t) == IF pc[t] = "numbering" THEN SequenceFile ELSE msg[t].seq
Writing == {d \in Daemon : lock[d] \in Publisher /\ InWrite(lock[d])}

TempsOwned ==
    /\ TypeOK /\ MutexHeld
    /\ \A d \in Locked : DaemonOf[lock[d]] = d
    /\ \A d, e \in Daemon : d # e /\ running[d] # None => running[d] # running[e]
    /\ \A t \in Publisher : InWrite(t) => Up(t) /\ Temp(FileOf(t), t) \in temps
    /\ \A w \in Worker : ~InWrite(w)

TempsInv ==
    /\ TempsOwned
    /\ IsFiniteSet(temps) /\ IsFiniteSet(Locked)
    /\ Cardinality(temps) <= crashes + faults + Cardinality(Writing)

\* The spool of a single daemon is a durable log: threads, crashes, failed
\* writes and partial acknowledgements never break its promise.
Log == INSTANCE DurableLog WITH issued <- sequence, log <- records,
                                gone <- written \ records
ImplementsLog == Log!Spec
=============================================================================
