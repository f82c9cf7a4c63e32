# SystemPilot in TLA+

A verification development for SystemPilot: an agent daemon that watches
processes, keeps alerts and ships telemetry, and the cloud side that ingests it
and runs reasoning and notification jobs. The modules are written from the
source; every definition that models code is mapped to its lines in
`PROJECT.json`. TLC checks small instances, TLAPS proves the results marked as
theorems for every value of the constants.

    tlc -workers 2 -config Agent.cfg MCAgent
    tlapm DiskSpoolProofs.tla

## 1. The system

    commands: setup, config, fleet, index, ask, evidence, cases, why
        |          files: configuration, backups, secrets, index, cases
        v
    netlink events --> daemon --> AlertStore (alerts-v1.json) <-- `alerts` command
                          |  \-> event queue, process tree --> socket --> clients
                          |   \-> health file
                          v publish                       agent host
                     TelemetryPublisher --> DiskSpool (records/, sequence)
                          | wake-up              ^ pending / acknowledge
                          v                      |
                     export worker --------------+
                          | POST batch   ^ acknowledgement
    ----------------------v--------------|---------------------------
                     Admission --> ingest (one transaction)      cloud
                                      | jobs, deliveries
                                      v
              reasoning_jobs, notification_deliveries <--> workers

### Components

| Component (source) | State | Operations | Hard behaviour |
|---|---|---|---|
| Telemetry spool (`src/spool.rs`) | sequence file, one file per record, quarantine, temporary files; a mutex per process | `open`, `next_sequence`, `append`, `pending`, `acknowledge`, `stats` | threads between two calls, a crash between write and rename, a restart under an old pid, refused writes, damaged files |
| Publisher and export worker (`src/distributed.rs`) | wake-up channel, gauges, retry state | `publish`, worker loop, `HttpTelemetrySink::export`, acknowledgement validation | lost and late answers, partial acknowledgement, lost wake-ups, crash and expired records |
| Collector ingestion (`crates/syspilot-cloud/src/lib.rs`, `001_initial.sql`) | `telemetry_messages`, `alerts`, `node_sequence_state`, jobs and deliveries | `ingest`: insert, materialize, record state, commit | a retry beside the request it repeats, replays, row locks, a node that starts again at sequence 1 |
| Admission (same file) | a map of semaphores and a global one | `try_acquire`, release | the map is purged between lookup and permit |
| Reasoning and notification queues (`002`, `005` SQL, both worker binaries) | the job rows, each worker's circuit | enqueue, lease, complete, fail, cool down | leases that expire under a worker, crashes, lost database answers |
| Alert lifecycle (`src/alert.rs`, `record_event`, `alerts` command) | the file and a copy of it in each process | `apply`, `set_status`, `persist`, publication | memory ahead of the file, operators beside the daemon, copies saved late, leftover temporary files |
| Daemon: intake and socket (`src/daemon.rs`, `src/netlink.rs`, `src/daemon_client.rs`) | process tree, bounded event queue, count of clients, health file | scan, `netlink_listener`, `record_event`, accept loop, `handle_client`, heartbeat | names read late, renames that are dropped, destructive reads, full queue, silent clients, a lost subscription |
| Kernel event ingress and correlation (`crates/syspilot-collector`, `src/forensics/`) | two bounded queues with counters, a bounded store of timelines, a loss epoch | `push`, `ingest_bytes`, `try_pop`, `ingest`, eviction, `classify` | full queues, records that overtake each other, eviction among stale entries, evidence lost in part |
| Evidence cases (`src/evidence.rs`) | case files and temporary files | `save`, `list`, `delete`, retention | retention of the case just saved, two processes |
| Configuration and migration (`src/config.rs`, `src/config_migration.rs`) | configuration, three backups, temporary files | `load_checked`, migrate, `save`, `rollback` | kills between two files, two commands that migrate at once |
| Enrolment and credentials (`src/fleet.rs`, `src/credentials.rs`, `src/setup.rs`) | secret files | enrol, disable, set-key, setup | one step of several failing |
| Causal engine (`src/causal_engine.rs`) | a graph per analysis | `build_graph`, `trace_root_cause` | orders of hash maps, cycles, several edges between two nodes |
| Code index (`src/codebase.rs`) | the stored vectors and what is known of each file | `update_index`, `query_context` | files that change while they are read, a changed model, two commands |
| Markdown streamer (`src/ui/streamer.rs`) | a buffer and the open marks | `render_chunk`, `finish` | marks and wide characters cut by a chunk's end |

What makes each correct: the spool never loses, repeats or renumbers a record;
exporting is at-least-once; ingestion makes that exactly-once and only
acknowledges what it has; admission bounds each node's share; a job has one
processor at a time and always ends; what an operator decides about an alert
holds, and what was published is durable, as far as processes that replace one
file without a lock can promise that (section 3); every event the daemon recorded is
with one reader or counted as dropped, the tree has what runs, under a name it
has had, and the health file tells of trouble; neither a migration nor a rollback loses the original configuration, and
no configuration refers to a secret that is not there; a saved case stays until
it is deleted or retention must take it; an index holds the vectors of one model
and no stale file; the causal search misses no cause; how an answer is cut
does not show. The components `PROJECT.json` lists beside these are not worth
modelling; section 7 says why.

## 2. Modules and code

**DiskSpool** works at the grain of file operations: a write is "create the
temporary file" and "rename it" in two steps, with the mutex held between them.
`NextSequence`/`CommitSequence` are `next_sequence`, `AppendRecord`/
`RefuseAppend`/`CommitAppend` are `append`, `Pending` is `pending` with
quarantine, `Acknowledge`/`RemoveFile` remove one file per step. `WriteFails`
is an I/O error, `Crash` drops the process's memory, `Open` gives it a pid that
an earlier daemon may have had. The byte limit is a record limit.
**DurableLog** is its abstract specification: issue, store once, remove for good.

**TelemetryExport** composes publishers, worker, network and collector of one
daemon; a spool method is one step. An envelope carries the collector's verdict
(commit, reject, or refuse the whole batch), which the agent cannot know.
`Exchange`, `FailedExchange` and `StrayArrives` are the network: a request is
lost, its answer is lost, or it arrives after the agent gave it up. `Expire` and
`Purge` are the age limit and the operator action it asks for. **DeliveryQueue**
is the abstract specification.

**CollectorIngest** has one node and its requests under way; one step is one SQL
statement. Its two publishing threads (netlink: lifecycle and alerts; socket:
health) draw a number (`Draw`) and append later (`AppendDraft`), in either order, so
that a number can reach the disk after a higher one was sent or committed; which
kinds a thread publishes is `Publishes`. `inserted` is the uncommitted part of a transaction, `RowLocked` and
`AlertLocked` are PostgreSQL's waits at READ COMMITTED (external, modelled from
the statements). `Reset` is a host whose spool is gone and that numbers from 1
again. **IngestLedger** is the abstract specification: store with job and
notifications in one step, acknowledge only what is stored.

**Admission** splits `try_acquire` into lookup, identity permit and global
permit. A semaphore that was removed from the map and made anew is a different
one; `current` says whether a request's is the map's.

**JobQueue** is one queue of the database with its workers, one statement per
step, `Reasoning` telling the two queues apart. A lease is a deadline without an
owner: `lease[j]` is the worker whose deadline it is, only to say when it ends.
`due` keeps the order of `available_at`. **JobBoard** is the abstract specification
that it implements while no lease is overrun: a job is in one worker's hands, which
alone ends it or gives it back, unless the worker is gone.

**AlertLifecycle** has the daemon and operators' commands as processes, each with
the copy of the file it read when it opened the store. Nothing keeps a command from
running beside the daemon, and nothing locks the file. `Apply` and `Decide` change
the copy, `CreateTemp` and `Commit` replace the file with the copy, whatever others
saved meanwhile, `PersistFails` leaves the copy changed as the code does. Three
history variables say who overwrote what: `unread` (saved by others since a process
had the file), `undone` (saved transitions that an operator's old copy replaced) and
`forgotten` (those with which a daemon started).

**Forensics** follows kernel records through the two queues of
`PriorityIngress` into the correlator. A record is a fact (exit, signal, OOM
victim, loss) with a time; `Facts` says which facts there are. Producer and
consumer interleave: `PushCritical`/`PushAuxiliary` are `push`, and `try_pop`
is `PopCritical`, or `PollAuxiliary` (it found the critical queue empty) and
then `PopAuxiliary`. The popped record is ingested in the same step, since the
correlator has a single owner. `Classify` is the classifier; the loss epoch is
not wrapped at 2^64. The repository has no caller yet that joins the two crates;
the model joins them as the collector's documentation intends, one reader and
one correlator thread, and gives each record any priority.

**Daemon** is one life of the daemon. The kernel part says what processes do
(`Fork`, `Exec`, `Exit`, and `Rename`, by `prctl` or through `/proc` without an exec)
and keeps notifications for a subscribed socket until it overruns; `List` and
`Scan` are `scan_proc`, `Receive` reads `/proc` after the fact and changes the tree,
`IgnoreRename` is the arm of `netlink_listener` that drops the kernel's
notification of a rename (`src/daemon.rs:373`), `Record` is the `try_send` of `record_event`.
`Accept`, `ReadRequest`, `Drain` (one `try_recv` per step) and `Respond` are the
socket side, `Call`, `ReadAnswer` and `GiveUp` the client with its timeout;
idlers are programs that connect and send nothing.

**Settings** has commands in processes of their own over the configuration, its
three backups, a secret and the temporary files, one file operation per step:
load and migrate (`CreateBackup`, `FillBackup`, `MigrateSecret`, `CreateSecret`,
`RenameSecret`, `Write`, `Rename`), then what the command makes of the document
(`Resolve`), the installation in setup with its restoration, and rollback
(`Pick`, `Keep`). Any step may fail where the code returns an error, and any
command may be killed. A document is its schema version, what kind of reference
it holds, and who wrote it. The four credentials of the code are one.

**CaseStore** is `save` in its steps (prepare the directory, remove leftover
temporary files, write, rename, then `list` file by file and evict) by two
commands at once, beside `delete` and the passing of time. Case ids grow with
the time of capture, as in the code.

**CodeIndex** has commands that load the index, walk the files, read and then
stat each changed one, embed and save, while editors, the clock and the operator
change files and model. A chunk is the content it was made of and the model that
embedded it. **CausalGraph** builds the edges from a snapshot whose rates are
classes between the code's thresholds, then runs the search step by step, the
order among equals left open as hash maps leave it. **MdStreamer** is the
renderer on symbols, one of them of several bytes; its reference (`Stages`) is
the same renderer fed with the whole text at once. **Acknowledgement** is
`IngestionAcknowledgement::validate` entry by entry (`CheckEntry`, then the limits
in `CheckRest`) on every answer with lists of at most `MaxEntries` entries, the
removal of what was accepted, and the delay the collector asked for.

**MC\*** modules give constants and symmetry to TLC; **\*Proofs** hold theorems.
**MCAgent** and **MCCollector** check several modules in one run: a behaviour
belongs to one `part` and the others stay as they begin, so that the states of
the parts add up. MCAgent EXTENDS the modules that AgentProofs, DiskSpoolProofs
and SettingsProofs prove about, so that names such as `CasesNext`, `StreamNext`
and `AnswerNext` keep them apart, and TLC evaluates their assumptions. The parts
share no state in the code either: each has files or memory of its own.

## 3. Runs

| Run | Shows |
|---|---|
| `agent` | spool: no lost or renumbered envelope, no unaccounted file, refinement of DurableLog; alerts: with an operator beside the daemon, published is durable and published once, and decisions hold, each but for what an older copy replaced (below); settings: original and secret never lost; cases: saved is kept, retention exact; index: one model, no stale entry; graph: no cause missed; streamer: cuts do not show; acknowledgement: exactly the accepted records go |
| `telemetry_export` | at-least-once delivery (refinement) and eventual delivery |
| `telemetry_export_replay` | violation: an expired record stops replay after a restart |
| `job_queue` | one processor per job and one result, as on a board that hands jobs out (refinement of JobBoard), bounded attempts, finished for good, every job ends |
| `job_queue_lease` | violation: a late worker's `fail` breaks the next worker's lease |
| `job_queue_crash_loop` | violation: a job whose leases all expire is never given up |
| `alert_lifecycle_operator` | violation: a decision does not stand when the daemon runs: its copy overwrites it |
| `collector` | ingestion: safe removal, exactly-once effects, newest alert, no circle of waiting transactions, with two threads that append out of order; admission: share per node |
| `daemon` | every event accounted for, every slot given back, a tree of what runs under names it has had, trouble shown |
| `forensics` | every record accounted for, bounded timelines, no invented, overlooked or overconfident cause |
| `forensics_order` | violation: `insertion_order` outgrows the store |
| `code_index_models` | violation: a search compares vectors of two models |

What the alert properties of `agent` promise, and no more, because the code does
not hold more: `PublishedDurable` (the file holds what was published, or a later
transition) excuses a transition that an operator's command replaced, having read
the file before it was saved; `PublishedOnce` excuses one that a daemon was then
started without, which it may publish once more under its old number;
`OperatorHolds` excuses a decision undone by a process whose copy is from before
it, the running daemon above all. What README.md:316 says without these excuses
is `DecisionStands`, which `alert_lifecycle_operator` shows violated. No other
interleaving of the daemon, the operator, failed writes, crashes and restarts
breaks any of the three.

`TreeTruthful` says of a process whose forks, execs and exits were handled that the
tree has a node exactly if it runs, and a name it has had since the last of them.
After a rename without an exec that need not be its present name: the daemon drops
the notification, and the tree, EXIT events and the alerts evaluated by name go on
with the older one.

`AlertNewest` and `NoLockCycle` speak of a node that has kept its spool. Of its
transactions one may wait for a second that waits for a third (an envelope appended
late is alone in one batch and part of the next), but never in a circle. Both rest
on alerts coming from one thread, as the mutant of `Draw` shows for the first.

Deadlock is checked in `forensics` and `forensics_order`. The other runs set
CHECK_DEADLOCK FALSE because a bounded behaviour (sequences, transitions,
commands, calls) ends, every job is finished, a text is rendered, a search has
found its causes, or an expired record keeps the daemon down.

### Bounds

- `agent`, spool: one daemon, two publishers, one worker, batches of 2 out of at
  most 3 records, 5 publishes, 2 crashes, 2 faults. Two threads in each window,
  a partial acknowledgement, and a second crash during the recovery from the
  first all occur; the third record makes the limit refuse one.
- `agent`, alerts: one operator at a time beside the daemon, two pids (a restart with
  the same and with another), two alerts with at most three and one transitions
  (`TransitionsOf`; three and two in `alert_lifecycle_operator`): a decision between
  two saves of the daemon, a transition replaced by an operator's older copy, and its
  number published again after a restart all occur. The proofs are for any number of
  operators and transitions.
- `agent`, settings: two commands, at most one killed, from every version up to
  one newer than the program and every kind of reference. Two migrations at
  once, a rollback beside a migration, and a command after a kill all occur.
- `agent`, cases: two commands, two cases of size 1 or 2 under a limit of 2, one
  kill: two cases fit, or the second evicts the first, or evicts itself when
  the other command has captured meanwhile.
- `agent`, index: two commands, two files, two models, one edit, one removal,
  change of model or damage, two seconds: an edit in the window between reading
  and looking, and one within a second of the last, both occur.
- `agent`, graph: four processes, a disk, a socket and a file; one more process
  than a resource's search follows, and cycles among them. Streamer: texts of at
  most four of seven symbols, cut anywhere, so that every mark occurs whole, cut
  and beside a wide character. Acknowledgement: two records and an unknown id, lists of two.
- `telemetry_export`: two publishers, 2 sequences, batch 2, one retry, a channel
  of one message, one crash, one expired record, one stray request at a time. A
  late append of the lower number, a dropped wake-up, and a request overtaken by
  its retry all occur. `QueuedModulus` stands for 2^64.
- `job_queue`: two jobs and two workers, two attempts, two faults, one overrun
  lease, circuit of 2. `AttemptLimit` 6 is out of reach here (attempts are at
  most MaxAttempts + faults + overruns); the crash-loop run lowers it to 3. This
  run takes the reasoning queue, which also stores results; the crash-loop run
  takes the notification queue.
- `collector`: three requests so that a request, its retry and the next
  batch overlap; three envelopes (a health envelope, firing, resolved) in batches of
  2; one lost spool, after which two are numbered (`MaxRenewed`). The health envelope
  is appended before, between or after the alerts, also when those are committed. Four calls of three nodes on a map of two, a capacity of 3: one
  node must be evicted for another while a third is inside.
- `daemon`: one process id used again under two names, two forks, execs, renames or
  exits, a queue of one event, a socket that holds one notification, two clients, two
  slots, two calls: an overrun, a full queue, a rename that is dropped, two clients
  that drain together and one connection too many all occur. The invariants of this
  run are proved for every size.
- `forensics`: four records or malformed inputs, queues of two slots, a
  store of one timeline of two records, a window of 1 and times up to 2. One
  process has every kind of fact, the other competes for the timeline. A drop in
  either queue, an overtaken record, an eviction past a stale entry, a record
  pushed out of its timeline, a loss before and during a timeline and an OOM
  record outside the window all occur.

### Fairness

TelemetryExport: the worker thread runs (weak fairness of its steps), the
service manager restarts the daemon (`Restart=on-failure` in the unit), and a
collector that is tried again and again answers sometimes (strong fairness of
`Exchange`). Nothing is assumed of publishers, crashes or operators.
`EventualDelivery` excuses what the code does not promise: records the collector
will never take at the head of the spool, and an expired record.

JobQueue: backoffs and deadlines elapse, worker loops run and every provider
call ends (the client has a timeout). The provider may fail every time, and
workers may crash until the fault bound is used up.

Daemon: only the heartbeat. The accept loop polls and never blocks, so it writes
the health file again and again; a handler may drain for as long as events
arrive, and a silent program may hold its thread for good.

## 4. Proofs

| Module | Theorems | Assumptions beyond the named ASSUME |
|---|---|---|
| DiskSpoolProofs | TypeCorrect, SpoolInvariant, NoEnvelopeLost, NoSequenceReused, AcknowledgeFindsFiles, SequenceNeverGoesBack, SpoolImplementsLog, TempsInvariant, TempsAreAccounted; Acknowledgement: AcceptedLeave | one daemon per directory (all but TypeCorrect, TempsInvariant and TempsAreAccounted, which hold for any number); AcceptedLeave: none |
| TelemetryExportProofs | TypeCorrect, ExportInvariant, NoEnvelopeLost, ExportImplementsQueue | none |
| CollectorProofs | CollectorIngest: IngestInvariant, RemovedIsStored, IngestImplementsLedger, SpoolKeptInvariant, AlertIsNewest, LocksAreFree, HighestStored; Admission: AdmissionInvariant, IdentityShare | none; AlertIsNewest and LocksAreFree speak of a node that has kept its spool |
| JobQueueProofs | ChargeInvariant, RetriesBounded, HolderInvariant, NoSharedJob, AnswerStays, FinishedStays, QueueImplementsBoard | none; NoSharedJob, AnswerStays and QueueImplementsBoard speak of workers that never overran a lease |
| DaemonProofs | SlotsInvariant, SlotsAreAccounted, TreeInvariant, TreeIsTruthful, EventsInvariant, EventsAreAccounted | none |
| ForensicsProofs | ForensicsInvariant, TimelinesBounded, ReportsSound, LossesSeen, RecordsAccounted, OverlookInvariant, OomsAreReported | none |
| SettingsProofs | SettingsInvariant, OriginalNeverLost, SecretStoredFirst | none |
| AgentProofs | AlertLifecycle: AlertInvariant, PublishedSurvives, NeverRepublished, DecisionHolds; CaseStore: SavedIsKept, RetentionInvariant, RetentionIsExact; CodeIndex: CodeIndexInvariant, IndexIsOfOneModel, IndexIsNotStale; CausalGraph: GraphInvariant, CausesAreFound, BusiestAreFound; MdStreamer: StreamInvariant, ChunksAreNotSeen | none |

The named assumptions say which constants are numbers and which sets are finite
or disjoint. The two that say more: `SpoolAssumption` has one export worker per
daemon, as `TelemetryPublisher` starts it, `GraphAssumption` has snapshots
that name finitely many processes and resources, and `StreamerAssumption` has marks
of one-byte characters and a look-ahead of at least three bytes, as the renderer's
literals are.

Each safety property alone is not inductive; the invariants add what the code
relies on without saying it.

- **SpoolInv**: a number drawn but not appended is issued, unused and held by
  one thread, and a write in progress holds the mutex. Without the first, two
  appends could meet in one file; without the second, a `remove` could fall
  between a check for the file and the rename.
- **ExportInv**: drafts have fresh numbers, requests contain persisted envelopes
  only, and what the worker is about to remove the collector has committed.
- **ChargeInv**: a pending job has attempts left, a job is running exactly while
  it has a lease, and an abandoned lease is paid for by a fault or an overrun.
- **HolderInv**: as long as no lease was overrun, a busy worker holds the lease
  of its job and the job is running; OneProcessor follows at once.
  ResultFinal follows too: what is about to be stored is of a running job. With
  ChargeInv it carries the refinement of JobBoard: a job that may be leased is in
  nobody's hands, and a worker that is done has its job in hand.
- **SlotsInv**: the connections being handled are finitely many and each holds one
  slot. **TreeInv**: of a process with notifications under way the last one, renames
  apart, is an exit exactly if the process is gone, unless some were lost; a scan reads
  processes that still run or are marked as missed; and a process has its present
  name among those since its last fork or exec, so that a name read at any time
  until the next is one of them. **EventsInv**: what a client
  printed is older than its answer, that is older than what its handler drained,
  and all of it is older than the queue; so the places of an event are disjoint,
  and a drain that moves the oldest event keeps them so, while other clients drain.
- **AlertInv**: but for alerts that others saved since it was read, the daemon's copy
  is the file plus what it could not save, never for a decided alert (DaemonCopy), and
  an operator's copy is the file but for the alert it changes (OperatorCopy). The
  daemon knows what it published unless it was started without (PublishedKnown), a
  transition in progress is newer than that (Unpublished), and one about to be
  published is in the file unless an operator has replaced it since (SavedFirst).
- **IngestInv**: uncommitted rows of two transactions never share a sequence,
  with each other or with a committed row; what a request accepted is in its
  rows or committed.
- **TempsInv**: two writes in progress have different temporary files, because
  each holds its daemon's mutex and daemons that run at once have different pids
  (TempsOwned); so one write ends with the removal of one file, and every other
  file was counted when a crash or an error left it.
- **SpoolKeptInv**: while the node keeps its spool, of the netlink thread's envelopes
  the committed ones are older than those in the spool, which are older than its
  draft; a batch leaves out none of them that is older and not committed, and is
  inserted in order. Nothing of the kind holds of the socket thread's. Two
  transactions with an uncommitted envelope of the netlink thread would have one in
  common, which a row lock forbids, so one at most has any and the alerts row with
  it (HeldAlone). So no two wait for or hold the alerts row, and whoever waits for an
  uncommitted envelope waits for one below all that its holder has still to insert:
  around a circle the sequences would rise without end (LocksAreFree).
- **AdmissionInv**: a semaphore somebody refers to is the map's own, because
  `retain` keeps those with a `strong_count` above one; so its holders are all
  the node has.
- **ForensicsInv**: every timeline has an entry in `insertion_order`, so that
  `ensure_capacity` finds one to evict however many stale entries lie before it;
  a timeline's records were delivered, are of its process and hold no exit of
  the leader; its creation epoch differs from the current one exactly if a loss
  came since. The first and last position of a finite set exist by the
  well-foundedness of strict inclusion, which replaces induction here.
- **OverlookInv**: the leader of a process exits once, so that of the two queues
  and the delivered records one at most has its exit (ExitsOnce), and until the
  correlator has taken it, the timeline has every delivered record of the process
  but those a bound pushed out (TimelinesComplete). Without the first, a second
  exit would report a process from a timeline begun anew. The crossing of the two
  queues is symmetric, so that one lemma about taking a record serves both.
- **RetentionInv**: as long as nothing failed, what is stored is within the limit
  or some command's enforcement covers it: the command has yet to list, or has
  listed all that is stored, or has counted a set that holds all of it (Covers).
  Every enforcement knows the sum of a set that holds all it has still to visit
  (Counts), and nothing else unless it may stop. A case another command saves
  meanwhile is covered by that command.
- **AnswerInv**: the loop of `validate` has decided the entries up to `checked`,
  each once and each of the batch, and an answer it refuses is not a consistent one;
  so what is removed is the accepted part of a consistent answer.
- **StreamInv**: the renderer is where the reference was after k of its steps: the
  same printed, the same mode, the same place in the text, of which the buffer is the
  part that has come (AgreesAt). A step of both is the same because no mark but the
  longest has more characters than the look-ahead has bytes (MarkIsSeen), and the
  longest counts at the start of a line only, which the text then begins there.
- **SavedInv**: a save that lists or evicts has committed its case, and a committed
  case is stored, deleted or evicted.
- **CodeIndexInv**: what a command holds, and what is stored, is of the model it
  names. Every time and size registered is one the file has had (`stats`), so that
  a later write cannot make an old entry look new again; and if it is what the
  file has now, the chunks are of its content, unless the file was written without
  a visible change, or between being read and being looked at (`excused`). In a
  command's memory a file still to be read has neither, and the one just read has
  its content and not yet its time (CommandOK).
- **GraphInv**: what was ever found is expanded or waits (FrontierInv), and what was
  expanded has its causes, or three of its busiest accesses, among what was found.
  When the queue is empty the first gives NoCauseMissed. ThreeBusiestUntraced needs
  that without a log a process uses a resource by one edge (UsesOnce), so that
  three edges are three processes.
- **SettingsInv**: until some backup holds the original, the configuration is
  still the original and no command is past its first backup (KeptSoFar); that
  needs to know that only one command fills a backup it created, because
  creation is exclusive (FilledByOne), and what each command has in hand at each
  step (InHand: a migration never writes a document of an old version, a rollback
  never migrates). For the secret: either it is stored, or nothing refers to it,
  neither a file nor a document in some command's hand, but for a draft that
  waits for the secret to be stored (NoReference).

The invariants have no run of their own: the runs check the properties that they
imply, and the proofs establish both for every value of the constants.
HighestIsStored (the high-water mark is the greatest committed sequence) is
proved alone, too simple for a run.

Two of the results need induction over numbers: the sum of a set of cases
(RetentionIsExact) and the stages of a rendering (ChunksAreNotSeen). The library's
induction rules take a predicate as a parameter, which the provers cannot
instantiate; the lemma UpTo takes a set instead, and follows from the
well-foundedness of strict inclusion. For the same reason sums and stages are
written as recursive functions over an interval, whose existence is proved first
(TotalsExist, RunsExist).

The refinements are proved step by step: initial states map to initial states,
and each action is named as an abstract step or a stutter.

Only model-checked:

- `EventualDelivery`, `EveryJobEnds` and `TroubleShown`: liveness under fairness,
  which is out of the prover's reach.
- The order of `due` in JobQueue (its TypeOK), which is filtered by `SelectSeq`.

## 5. Where code and documents disagree

The six violation runs, each quoted in `PROJECT.json`:

1. `TelemetryPublisher::from_config` fails on an expired record, so a restart
   does not replay the others, which the README promises.
2. `fail_reasoning_job` does not check who holds the lease: a late worker
   releases a job that another is working on.
3. Leases that expire are counted but never lead to "failed"; at 100 the CHECK
   refuses every lease of that job.
4. The daemon overwrites an operator's decision with the copy it read at start. (An
   operator's command that is late likewise overwrites transitions of the daemon.)
5. `insertion_order` of the correlator keeps an entry of every process that
   died, although the store is documented as bounded.
6. After a change of the embedding model, a question whose update of the index
   fails searches the old index: vectors of two models are compared, which the
   comment at the format's version says never happens.

Seen in the models, without a run of their own:

- The `queued` gauge can wrap below zero, because the publisher stores a count
  the worker has already reduced.
- `apply` changes memory before it persists, so after a failed write an alert is
  open in memory only.
- Renames of processes are not followed: an EXIT event may have a name the process
  gave up before it ended.
- A loss record that arrives before a process has a timeline does not mark its
  report.
- A migration killed while it writes `config.pre-v2.json` leaves a part of it;
  `config rollback` prefers that file and restores the part, where
  `docs/CONFIG_MIGRATIONS.md:27` promises the exact bytes. The original is not
  lost (`OriginalKept`), but the operator has to find it.
- A command that saves the configuration while `GEMINI_API_KEY` is set stores the
  reference to the variable, although `src/config.rs:288` says that such sources
  are never persisted; without the variable the next command fails.
- `fleet enroll` replaces the token file before the configuration is saved: if
  the save fails, the old enrolment goes on with the new token. `fleet disable`
  removes the reference, not the file.
- The index of a workspace from which files were only deleted is purged in memory
  and not saved. Two workspaces whose paths differ in punctuation share an index.
- A heading mark `### ` is longer than the streamer's look-ahead, and is rendered
  as text when a chunk ends in it.
- Several eBPF records of one process and one resource are several edges, and
  push another process out of the three that the causal search follows.
- An answer with a status of success and no body counts as the acceptance of the
  whole batch.

## 6. Abstractions

Payloads, signatures, redaction, credentials and timestamps are left out; an
envelope is its sequence, its life of the spool and what the receiver decides.
A crash is a crash of the process: a completed rename survives it. The loss of
unsynced directory entries at a power failure is not modelled. `stats` of the
spool is one step although it reads the directory file by file, under the mutex.
The spool has one daemon per directory. A vector, a chunk's lines and a
similarity are left out of the index; CPU and I/O rates are classes between
thresholds; an ANSI sequence is the mode it switches. PostgreSQL is modelled by
its row locks and atomic commits, not by its planner.

## 7. Not modelled

- Sampling and snapshots (`telemetry.rs`, `profiler.rs`, `proc_snapshot.rs`):
  parsing of procfs, whose result CausalGraph takes as given.
- The AI client (`ai.rs`): a sequence of HTTP requests without state.
- Terminal interface, argument handling, output and completions: presentation.
- Installation, diagnosis and support bundles: sequential file handling of one
  command. Settings has the installation of the binary as one step that may fail.
- The kernel record ABI: fixed layouts, whose refusals are Forensics' `Malformed`.
- Deployment manifests and the load test: no logic of the product.

Of modelled components: redaction and the matching of alert rules; credentials,
metrics and timestamps of the collector; parent ids in the process tree and the
age limit of the health file; the adoption of systemd credentials and the second
save of `pull`; the four credentials one by one. None of them changes the state
the properties are about, except that each credential has its own file and
reference, which repeat the one that is modelled.

What would come next: a power loss in DiskSpool, once the code says what it
promises of unsynced directories; two daemons on one spool directory as a
violation run; what the board of jobs still promises when a lease is overrun, once
the database names the owner of a lease.
