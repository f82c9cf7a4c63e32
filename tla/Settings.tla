------------------------------ MODULE Settings ------------------------------
(***************************************************************************)
(* The agent's configuration file, its migration from older schemas, its   *)
(* rollback, the credential file beside it and the commands that load and  *)
(* save both (src/config.rs, config_migration.rs, credentials.rs, fleet.rs,*)
(* setup.rs and the command dispatch of main.rs).  Every command is a      *)
(* process of its own and nothing locks the files.  A command may be       *)
(* killed at any step; its temporary files stay, and its process id may be *)
(* used again.                                                             *)
(*                                                                         *)
(* A document is its schema version, where its credential is, and which    *)
(* command wrote it; one credential stands for the four the code moves     *)
(* alike.                                                                  *)
(***************************************************************************)
EXTENDS Naturals, FiniteSets

CONSTANTS
    Processes,     \* process ids of commands
    Absent,        \* no such file
    Partial,       \* a file whose writing did not end
    MaxCommands,   \* bound: commands started
    MaxKills       \* bound: commands killed

ASSUME SettingsAssumption ==
    /\ Absent # Partial
    /\ MaxCommands \in Nat /\ MaxKills \in Nat

Current == 2     \* CURRENT_CONFIG_SCHEMA_VERSION
Document == [version : 0..3, credential : {"none", "inline", "file", "environment"},
             writer : 0..MaxCommands]
ASSUME FilesAssumption == {Absent, Partial} \cap Document = {}

Backups == {"pre-v1", "pre-v2", "pre-rollback-v2"}
Kinds == {"show", "change", "set-key", "disable", "setup", "rollback"}

VARIABLES
    config,      \* config.json
    backup,      \* the three immutable backups
    secret,      \* the credential file is stored
    configTemps, \* processes whose .config-migration-PID.tmp exists
    secretTemps, \* processes whose .NAME-PID.tmp exists
    run,         \* the command each process runs
    started, kills,
    original     \* ghost: the configuration at the beginning

fileVars == <<config, backup, secret, configTemps, secretTemps>>
countVars == <<started, kills, original>>
settingsVars == <<fileVars, run, countVars>>

Legacy(doc) == doc \in Document /\ doc.version < Current
Default == [version |-> Current, credential |-> "none", writer |-> 0]

\* A command's next step, which it is, whether its environment holds the
\* credential, the bytes it read (later the document it loaded), those it is to
\* write, and, for setup, those before it started.
Idle == [step |-> "idle", kind |-> "show", override |-> FALSE,
         read |-> Absent, draft |-> Absent, preserved |-> Absent]

SettingsInit ==
    /\ config \in {Absent, Default}
          \cup [version : {0, 1}, credential : {"inline", "none"}, writer : {0}]
          \cup [version : {2}, credential : {"file"}, writer : {0}]
          \cup [version : {3}, credential : {"none"}, writer : {0}]
    /\ original = config
    /\ backup = [b \in Backups |-> Absent]
    /\ secret = (config \in Document /\ config.credential = "file")
    /\ configTemps = {} /\ secretTemps = {}
    /\ run = [p \in Processes |-> Idle]
    /\ started = 0 /\ kills = 0

Proceed(p, next, bytes, written) ==
    run' = [run EXCEPT ![p] = IF next = "idle" THEN Idle
                              ELSE [@ EXCEPT !.step = next, !.read = bytes, !.draft = written]]
GoTo(p, next) == Proceed(p, next, run[p].read, run[p].draft)
Reads(p, next, bytes) == Proceed(p, next, bytes, run[p].draft)
Drafts(p, next, written) == Proceed(p, next, run[p].read, written)

Begin(p, command, env) ==
    /\ run[p] = Idle /\ started < MaxCommands
    /\ started' = started + 1
    /\ run' = [run EXCEPT ![p] =
          [Idle EXCEPT !.step = IF command = "rollback" THEN "pick" ELSE "load",
                       !.kind = command,
                       !.override = env,
                       !.preserved = IF command = "setup" THEN config ELSE Absent]]
    /\ UNCHANGED <<fileVars, kills, original>>

-----------------------------------------------------------------------------
(* load_and_migrate. *)

FirstStep == [version \in 0..3 |->
    IF version = 0 THEN "pre-v1" ELSE IF version = 1 THEN "pre-v2"
    ELSE IF version = Current THEN "resolve" ELSE "idle"]

\* A newer schema, or bytes that do not parse, end the command.
Load(p) ==
    /\ run[p].step = "load"
    /\ LET bytes == IF config = Absent THEN Default ELSE config IN
       Reads(p, IF bytes = Partial THEN "idle" ELSE FirstStep[bytes.version], bytes)
    /\ UNCHANGED <<fileVars, countVars>>

Filling == [b \in Backups |->
    IF b = "pre-v1" THEN "fill-v1" ELSE IF b = "pre-v2" THEN "fill-v2" ELSE "fill-rollback"]
AfterBackup == [b \in Backups |->
    IF b = "pre-v1" THEN "pre-v2" ELSE IF b = "pre-v2" THEN "secret" ELSE "write"]

\* Mutant: a backup that exists is written again.
CreateBackupAgain(p, b) ==
    /\ run[p].step = b
    /\ backup' = [backup EXCEPT ![b] = Partial]
    /\ GoTo(p, Filling[b])
    /\ UNCHANGED <<config, secret, configTemps, secretTemps, countVars>>

\* immutable_backup: created exclusively; one that exists must hold the same
\* bytes.
CreateBackup(p, b) ==
    /\ run[p].step = b
    /\ IF backup[b] = Absent
       THEN backup' = [backup EXCEPT ![b] = Partial] /\ GoTo(p, Filling[b])
       ELSE /\ UNCHANGED backup
            /\ GoTo(p, IF backup[b] = run[p].read THEN AfterBackup[b] ELSE "idle")
    /\ UNCHANGED <<config, secret, configTemps, secretTemps, countVars>>

\* write_all and sync_all, which may fail and leave what was written.
FillBackup(p, b) ==
    /\ run[p].step = Filling[b]
    /\ \/ backup' = [backup EXCEPT ![b] = run[p].read] /\ GoTo(p, AfterBackup[b])
       \/ UNCHANGED backup /\ GoTo(p, "idle")
    /\ UNCHANGED <<config, secret, configTemps, secretTemps, countVars>>

Migrated(doc) ==
    [version |-> Current, writer |-> doc.writer,
     credential |-> IF doc.credential = "inline" THEN "file" ELSE doc.credential]

\* Mutant: the reference is written and the secret is not stored.
MigrateSecretUnstored(p) ==
    /\ run[p].step = "secret"
    /\ Drafts(p, "write", Migrated(run[p].read))
    /\ UNCHANGED <<fileVars, countVars>>

\* migrate_secret: an inline secret goes to its file before the document is
\* written; both ways lead to the write.
MigrateSecret(p) ==
    /\ run[p].step = "secret"
    /\ Drafts(p, IF run[p].read.credential = "inline" THEN "store" ELSE "write",
              Migrated(run[p].read))
    /\ UNCHANGED <<fileVars, countVars>>

-----------------------------------------------------------------------------
(* store_owner_secret and atomic_write: a temporary file named after the   *)
(* process, created exclusively, synced and renamed.                       *)

CreateSecret(p) ==
    /\ run[p].step = "store"
    /\ IF p \in secretTemps
       THEN UNCHANGED secretTemps /\ GoTo(p, "idle")
       ELSE secretTemps' = secretTemps \cup {p} /\ GoTo(p, "store rename")
    /\ UNCHANGED <<config, backup, secret, configTemps, countVars>>

\* A rename that fails leaves the temporary file.
RenameSecret(p) ==
    /\ run[p].step = "store rename"
    /\ \/ secret' = TRUE /\ secretTemps' = secretTemps \ {p} /\ GoTo(p, "write")
       \/ UNCHANGED <<secret, secretTemps>> /\ GoTo(p, "idle")
    /\ UNCHANGED <<config, backup, configTemps, countVars>>

\* A write that fails removes the temporary file; a failed one of the past,
\* whose process was killed, is in the way of a new one with its id.
Write(p) ==
    /\ run[p].step = "write"
    /\ \/ p \notin configTemps /\ configTemps' = configTemps \cup {p} /\ GoTo(p, "rename")
       \/ UNCHANGED configTemps /\ GoTo(p, "idle")
    /\ UNCHANGED <<config, backup, secret, secretTemps, countVars>>

\* After a migration the command goes on with the document it wrote; setup
\* still has to install the binary.
Migrating(p) == run[p].kind # "rollback" /\ Legacy(run[p].read)
Rename(p) ==
    /\ run[p].step = "rename"
    /\ config' = run[p].draft
    /\ configTemps' = configTemps \ {p}
    /\ Reads(p, IF Migrating(p) THEN "resolve"
                ELSE IF run[p].kind = "setup" /\ run[p].draft # run[p].preserved THEN "binary"
                ELSE "idle",
             IF Migrating(p) THEN run[p].draft ELSE run[p].read)
    /\ UNCHANGED <<backup, secret, secretTemps, countVars>>

-----------------------------------------------------------------------------
(* The rest of load_checked and the command itself. *)

Available(p, credential) ==
    /\ credential = "file" => secret
    /\ credential = "environment" => run[p].override

\* A variable of the environment replaces the reference in memory.
Loaded(p) == [run[p].read EXCEPT !.credential = IF run[p].override THEN "environment" ELSE @]

\* What a command may make of the reference; setup may ask for either.
Credentials(p) ==
    IF run[p].kind = "disable" THEN {"none"}
    ELSE IF run[p].kind = "set-key" THEN {"file"}
    ELSE {Loaded(p).credential} \cup (IF run[p].kind = "setup" THEN {"none"} ELSE {})
                               \cup (IF run[p].kind = "setup" /\ run[p].override THEN {"environment"} ELSE {})

AfterResolve(p) ==
    IF run[p].kind = "set-key" THEN "store" ELSE IF run[p].kind = "setup" THEN "install" ELSE "write"

\* The credential is resolved, then the command changes the document; one that
\* enters a key stores that first.  Setup may be cancelled; before it saves it
\* writes a default configuration where there is none.
Resolve(p) ==
    /\ run[p].step = "resolve"
    /\ IF ~Available(p, run[p].read.credential) \/ run[p].kind = "show"
       THEN GoTo(p, "idle")
       ELSE \/ \E c \in Credentials(p) :
                  Drafts(p, AfterResolve(p), [Loaded(p) EXCEPT !.credential = c, !.writer = started])
            \/ run[p].kind = "setup" /\ GoTo(p, "idle")
    /\ UNCHANGED <<fileVars, countVars>>

Install(p) ==
    /\ run[p].step = "install"
    /\ \/ config = Absent /\ config' = Default /\ GoTo(p, "write")
       \/ config # Absent /\ UNCHANGED config /\ GoTo(p, "write")
       \/ UNCHANGED config /\ GoTo(p, "idle")
    /\ UNCHANGED <<backup, secret, configTemps, secretTemps, countVars>>

\* install_user_binary; if it fails the configuration of before is put back.
Binary(p) ==
    /\ run[p].step = "binary"
    /\ \/ GoTo(p, "idle") /\ UNCHANGED config
       \/ run[p].preserved # Absent /\ Drafts(p, "write", run[p].preserved) /\ UNCHANGED config
       \/ run[p].preserved = Absent /\ GoTo(p, "idle") /\ config' = Absent
    /\ UNCHANGED <<backup, secret, configTemps, secretTemps, countVars>>

-----------------------------------------------------------------------------
(* config rollback. *)

\* Whatever the backup holds is what will be written.
Pick(p) ==
    /\ run[p].step = "pick"
    /\ LET chosen == IF backup["pre-v2"] # Absent THEN backup["pre-v2"] ELSE backup["pre-v1"] IN
       Drafts(p, IF chosen = Absent THEN "idle" ELSE "keep", chosen)
    /\ UNCHANGED <<fileVars, countVars>>

\* The current file is kept as a third backup first.
Keep(p) ==
    /\ run[p].step = "keep"
    /\ Reads(p, IF config = Absent THEN "write" ELSE "pre-rollback-v2", config)
    /\ UNCHANGED <<fileVars, countVars>>

-----------------------------------------------------------------------------
\* A command is killed.
Kill(p) ==
    /\ run[p] # Idle /\ kills < MaxKills
    /\ kills' = kills + 1
    /\ GoTo(p, "idle")
    /\ UNCHANGED <<fileVars, started, original>>

SettingsNext == \E p \in Processes :
    \/ \E command \in Kinds, env \in BOOLEAN : Begin(p, command, env)
    \/ Load(p) \/ MigrateSecret(p) \/ CreateSecret(p) \/ RenameSecret(p)
    \/ \E b \in Backups : CreateBackup(p, b) \/ FillBackup(p, b)
    \/ Write(p) \/ Rename(p) \/ Resolve(p) \/ Install(p) \/ Binary(p)
    \/ Pick(p) \/ Keep(p) \/ Kill(p)

SettingsSpec == SettingsInit /\ [][SettingsNext]_settingsVars

-----------------------------------------------------------------------------
Contents == Document \cup {Absent, Partial}
Steps == {"idle", "load", "secret", "store", "store rename", "write", "rename", "resolve",
          "install", "binary", "pick", "keep"} \cup Backups \cup {Filling[b] : b \in Backups}
SettingsTypeOK ==
    /\ config \in Contents /\ backup \in [Backups -> Contents] /\ original \in Contents
    /\ secret \in BOOLEAN
    /\ configTemps \subseteq Processes /\ secretTemps \subseteq Processes
    /\ run \in [Processes -> [step : Steps, kind : Kinds, override : BOOLEAN,
                               read : Contents, draft : Contents, preserved : Contents]]
    /\ started \in 0..MaxCommands /\ kills \in 0..MaxKills

\* The bytes of a configuration in an older schema, secret included, are never
\* lost: they are complete in the configuration or in one of the backups,
\* whatever is killed and whoever else migrates, saves or rolls back
\* (src/config_migration.rs:110, :191).
OriginalKept == Legacy(original) => original \in {config} \cup {backup[b] : b \in Backups}

\* A configuration that refers to the credential file finds it: the secret is
\* stored before the reference is saved, and no rollback or restored file comes
\* before it (src/config_migration.rs:170, src/config.rs:347, src/fleet.rs:79).
SecretReachable == (config \in Document /\ config.credential = "file") => secret

(* The inductive invariants behind the two.                                *)

\* What a command has in hand: a document of an older schema while it migrates, a
\* whole one when it resolves; a rollback never migrates.
Moving == {"store", "store rename", "write", "rename"}
Suits(step, kind, read, draft) ==
    LET migrating == kind # "rollback" /\ Legacy(read) IN
    /\ step \in {"pre-v1", "pre-v2", "fill-v1", "fill-v2", "secret", "resolve"} => read \in Document
    /\ step \in {"install", "binary"} => ~migrating
    /\ step = "install" => draft \in Document
    /\ step \in Moving /\ migrating => draft \in Document /\ ~Legacy(draft)
    /\ step = "resolve" => ~Legacy(read)
    /\ step \in {"pick", "keep", "pre-rollback-v2", "fill-rollback"} => kind = "rollback"
InHand == \A p \in Processes : Suits(run[p].step, run[p].kind, run[p].read, run[p].draft)

\* A backup is incomplete while it is filled, by one process.
FilledByOne == \A b \in Backups : \A p \in Processes : run[p].step = Filling[b] =>
    /\ backup[b] = Partial
    /\ \A q \in Processes : run[q].step = Filling[b] => q = p

\* Until a backup has the original, no command is past its first backup.
NotPast(p) ==
    \/ run[p].step \in {"idle", "load", "pick", "keep"}
    \/ /\ run[p].step \in Backups \cup {Filling[b] : b \in Backups}
       /\ run[p].read = original
KeptSoFar == Legacy(original) =>
    \/ \E b \in Backups : backup[b] = original
    \/ config = original /\ \A p \in Processes : NotPast(p)

\* Until the secret is stored nothing refers to it but what waits for it.
ToFile(doc) == doc \in Document /\ doc.credential = "file"
NoReference ==
    /\ ~ToFile(config) /\ \A b \in Backups : ~ToFile(backup[b])
    /\ \A p \in Processes :
         /\ ~ToFile(run[p].read) /\ ~ToFile(run[p].preserved)
         /\ run[p].step \in {"store", "store rename"} \/ ~ToFile(run[p].draft)
SettingsInv == SettingsTypeOK /\ InHand /\ FilledByOne /\ KeptSoFar /\ (secret \/ NoReference)
=============================================================================
