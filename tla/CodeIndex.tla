------------------------------ MODULE CodeIndex ------------------------------
(***************************************************************************)
(* The vector index of a workspace (src/codebase.rs): `index`, with or     *)
(* without --force, and every question to the AI bring the stored index up *)
(* to date with the files, embed what changed and replace the whole file;  *)
(* a question then searches the stored index.  Nothing locks the index or  *)
(* the files, and the embedding model may be changed between commands.     *)
(*                                                                         *)
(* The content of a file is the number of the edit that made it, a chunk   *)
(* is the content and the model that embedded it.                          *)
(***************************************************************************)
EXTENDS Naturals, FiniteSets

CONSTANTS
    IndexCommands,    \* commands
    Files,        \* paths in the workspace
    Models,       \* embedding sources
    FileSizes,    \* sizes of files; one of size 0 has no chunks
    Missing,      \* no file, no index
    Corrupt,      \* an index that does not decode
    MaxEdits,     \* bound: writes to files
    MaxChanges,   \* bound: removals, changes of the model and damages
    MaxSeconds,   \* bound: the clock of the file system, in seconds
    MaxIndexCommands   \* bound: commands started

ASSUME CodeIndexAssumption ==
    /\ {MaxEdits, MaxChanges, MaxIndexCommands} \subseteq Nat /\ MaxSeconds \in Nat \ {0}
    /\ FileSizes \subseteq Nat

VARIABLES
    workspace,        \* the files of the workspace
    fileClock,
    configured,  \* the embedding source of the configuration
    index,       \* the stored index
    indexRun,         \* what each command does
    edits, changes, indexStarted,
    stats,       \* ghost: per file, every time and size it had
    excused,     \* ghost: files whose change no stat could show
    compared     \* ghost: the models whose vectors a search compared

indexCounts == <<edits, changes, indexStarted>>
worldVars == <<workspace, fileClock, stats, excused>>
indexVars == <<worldVars, configured, index, indexRun, indexCounts, compared>>

NoStat == [mtime |-> 0, size |-> 0]
Stat(f) ==
    IF workspace[f] = Missing THEN NoStat
    ELSE [mtime |-> workspace[f].mtime, size |-> workspace[f].size]

CommandKinds == {"index", "force", "query"}
Empty(model) == [source |-> model, files |-> [f \in Files |-> Missing], chunks |-> [f \in Files |-> {}]]

\* A command's next step, the model of the configuration it loaded, the index in
\* its memory, the files it has still to read, the one it has just read, and
\* whether there is anything to embed.
IndexIdle == [step |-> "idle"]
Command(kind) ==
    [step |-> "load", kind |-> kind, model |-> configured, db |-> Empty(configured),
     todo |-> {}, at |-> Missing, new |-> FALSE]

IndexInit ==
    /\ \E present \in SUBSET Files :
          workspace = [f \in Files |-> IF f \in present
                                       THEN [content |-> 0, size |-> 1, mtime |-> 1] ELSE Missing]
    /\ fileClock = 1 /\ configured \in Models /\ index = Missing
    /\ indexRun = [p \in IndexCommands |-> IndexIdle]
    /\ edits = 0 /\ changes = 0 /\ indexStarted = 0
    /\ stats = [f \in Files |-> {Stat(f)}] /\ excused = {} /\ compared = {}

-----------------------------------------------------------------------------
(* Everything around: editors, the clock, the operator, a damaged index.   *)

\* An edit in the second of the last one that keeps the size, or while a command
\* is between the content and the time of the file, cannot be seen later.
WriteFile(f, bytes) ==
    /\ edits < MaxEdits
    /\ edits' = edits + 1
    /\ LET new == [mtime |-> fileClock, size |-> bytes] IN
       /\ workspace' = [workspace EXCEPT ![f] = [content |-> edits + 1, size |-> bytes, mtime |-> fileClock]]
       /\ stats' = [stats EXCEPT ![f] = @ \cup {new}]
       /\ excused' = IF \/ new \in stats[f]
                        \/ \E p \in IndexCommands : indexRun[p].step = "stat" /\ indexRun[p].at = f
                     THEN excused \cup {f} ELSE excused
    /\ UNCHANGED <<fileClock, configured, index, indexRun, changes, indexStarted, compared>>

Change ==
    /\ changes < MaxChanges
    /\ changes' = changes + 1
    /\ UNCHANGED <<fileClock, stats, excused, indexRun, edits, indexStarted, compared>>

Unlink(f) ==
    /\ Change /\ workspace[f] # Missing
    /\ workspace' = [workspace EXCEPT ![f] = Missing]
    /\ UNCHANGED <<configured, index>>

Tick ==
    /\ fileClock < MaxSeconds
    /\ fileClock' = fileClock + 1
    /\ UNCHANGED <<workspace, stats, excused, configured, index, indexRun, indexCounts, compared>>

ChangeModel(m) ==
    /\ Change /\ m # configured
    /\ configured' = m
    /\ UNCHANGED <<workspace, index>>

DamageIndex ==
    /\ Change /\ index # Missing
    /\ index' = Corrupt
    /\ UNCHANGED <<workspace, configured>>

-----------------------------------------------------------------------------
(* update_index.                                                           *)

BeginCommand(p, kind) ==
    /\ indexRun[p] = IndexIdle /\ indexStarted < MaxIndexCommands
    /\ indexStarted' = indexStarted + 1
    /\ indexRun' = [indexRun EXCEPT ![p] = Command(kind)]
    /\ UNCHANGED <<worldVars, configured, index, edits, changes, compared>>

\* Whatever became of the update, a question goes on to the search.
IndexGoTo(p, next) == indexRun' = [indexRun EXCEPT ![p].step = next]
Leave(p) ==
    IF indexRun[p].kind = "query" THEN IndexGoTo(p, "search")
    ELSE indexRun' = [indexRun EXCEPT ![p] = IndexIdle]

At(p, step) == indexRun[p].step = step /\ UNCHANGED <<worldVars, configured, indexCounts>>

\* Mutant: the recorded source is ignored.
UsableAnyModel(p) == indexRun[p].kind # "force" /\ index # Missing

\* An index of another model is dropped, --force does not even read it.
Usable(p) == indexRun[p].kind # "force" /\ index # Missing /\ index.source = indexRun[p].model

\* One that does not decode is renamed away, and the update fails.
LoadIndex(p) ==
    /\ At(p, "load")
    /\ IF indexRun[p].kind # "force" /\ index = Corrupt
       THEN index' = Missing /\ Leave(p)
       ELSE /\ UNCHANGED index
            /\ indexRun' = [indexRun EXCEPT ![p].step = "walk",
                                        ![p].db = IF Usable(p)
                                                  THEN [index EXCEPT !.source = indexRun[p].model]
                                                  ELSE @]
    /\ UNCHANGED compared

\* Mutant: only the size tells.
ChangedBySize(db, f) == db.files[f] = Missing \/ db.files[f].size # workspace[f].size

Changed(db, f) == db.files[f] = Missing \/ db.files[f] # Stat(f)

Without(db, gone) ==
    [db EXCEPT !.files = [f \in Files |-> IF f \in gone THEN Missing ELSE @[f]],
               !.chunks = [f \in Files |-> IF f \in gone THEN {} ELSE @[f]]]

\* list_directory and the comparison; files that are gone are purged, in memory.
\* Without a changed file nothing is saved.
Walk(p) ==
    /\ At(p, "walk")
    /\ LET todo == {f \in Files : workspace[f] # Missing /\ Changed(indexRun[p].db, f)}
           gone == {f \in Files : workspace[f] = Missing} IN
       IF todo = {} THEN Leave(p)
       ELSE indexRun' = [indexRun EXCEPT ![p].step = "chunk", ![p].todo = todo,
                                         ![p].db = Without(@, gone \cup todo)]
    /\ UNCHANGED <<index, compared>>

WithChunks(db, f, found) == [db EXCEPT !.chunks[f] = @ \cup found]
WithTime(db, f) == [db EXCEPT !.files[f] = Stat(f)]

\* chunk_file: a file that is gone or empty has no chunks.
Chunk(p, f) ==
    /\ At(p, "chunk") /\ f \in indexRun[p].todo
    /\ LET o == indexRun[p]
           found == IF Stat(f).size = 0 THEN {}
                    ELSE {[content |-> workspace[f].content, model |-> o.model]} IN
       indexRun' = [indexRun EXCEPT ![p] =
                       [o EXCEPT !.step = "stat", !.at = f, !.todo = @ \ {f},
                                 !.db = WithChunks(@, f, found), !.new = @ \/ found # {}]]
    /\ UNCHANGED <<index, compared>>

\* The registry gets the time and size the file has by now.
Register(p) ==
    /\ At(p, "stat")
    /\ indexRun' = [indexRun EXCEPT
                      ![p].step = IF indexRun[p].todo = {} THEN "embed" ELSE "chunk",
                      ![p].db = WithTime(@, indexRun[p].at), ![p].at = Missing]
    /\ UNCHANGED <<index, compared>>

\* fetch_embeddings, batch after batch: fewer vectors than chunks end the update.
Embed(p) ==
    /\ At(p, "embed")
    /\ IndexGoTo(p, "save") \/ (indexRun[p].new /\ Leave(p))
    /\ UNCHANGED <<index, compared>>

\* save_to_binary: a temporary file of its own name, synced and renamed.
Save(p) ==
    /\ At(p, "save")
    /\ index' = indexRun[p].db \/ UNCHANGED index
    /\ Leave(p)
    /\ UNCHANGED compared

-----------------------------------------------------------------------------
\* query_context: the stored index is read again, whoever stored it; the question
\* is embedded with the model of the configuration, or the service fails.
Stored == IF index \in {Missing, Corrupt} THEN {} ELSE UNION {index.chunks[f] : f \in Files}
Search(p) ==
    /\ At(p, "search")
    /\ index' = IF index = Corrupt THEN Missing ELSE index
    /\ \/ compared' = compared \cup {<<indexRun[p].model, c.model>> : c \in Stored}
       \/ UNCHANGED compared
    /\ indexRun' = [indexRun EXCEPT ![p] = IndexIdle]

IndexNext ==
    \/ Tick \/ DamageIndex
    \/ \E f \in Files : Unlink(f) \/ \E bytes \in FileSizes : WriteFile(f, bytes)
    \/ \E m \in Models : ChangeModel(m)
    \/ \E p \in IndexCommands :
          \/ \E kind \in CommandKinds : BeginCommand(p, kind)
          \/ LoadIndex(p) \/ Walk(p) \/ Register(p) \/ Embed(p) \/ Save(p) \/ Search(p)
          \/ \E f \in Files : Chunk(p, f)

IndexSpec == IndexInit /\ [][IndexNext]_indexVars
-----------------------------------------------------------------------------
Decodes == index \notin {Missing, Corrupt}

Time == [mtime : 0..MaxSeconds, size : FileSizes \cup {0, 1}]
Vector == [content : 0..MaxEdits, model : Models]
Database == [source : Models, files : [Files -> Time \cup {Missing}], chunks : [Files -> SUBSET Vector]]

Running ==
    [step : {"load", "walk", "chunk", "stat", "embed", "save", "search"}, kind : CommandKinds,
     model : Models, db : Database, todo : SUBSET Files, at : Files \cup {Missing}, new : BOOLEAN]

IndexTypeOK ==
    /\ workspace \in [Files -> {Missing} \cup
         [content : 0..MaxEdits, size : FileSizes \cup {1}, mtime : 1..MaxSeconds]]
    /\ fileClock \in 1..MaxSeconds /\ configured \in Models
    /\ index \in {Missing, Corrupt} \cup Database
    /\ indexRun \in [IndexCommands -> {IndexIdle} \cup Running]
    /\ edits \in 0..MaxEdits /\ indexStarted \in 0..MaxIndexCommands /\ changes \in 0..MaxChanges
    /\ stats \in [Files -> SUBSET Time] /\ excused \subseteq Files
    /\ compared \subseteq Models \X Models

\* All vectors of a stored index are of the model it names: an update never mixes
\* the vectors it finds with new ones of another model, whatever was configured
\* meanwhile and whoever stored an index last (src/codebase.rs:639, :84 "vectors
\* from different models are never compared or reused together").
OneModel == Decodes => \A f \in Files : \A c \in index.chunks[f] : c.model = index.source

\* What the next update would take as up to date is up to date: the chunks of a
\* file it would not read again are of its content, unless the change itself
\* could not be seen in time and size (src/codebase.rs:664, :687).
NoStaleEntry ==
    Decodes => \A f \in Files \ excused :
        (workspace[f] # Missing /\ ~Changed(index, f))
            => {c.content : c \in index.chunks[f]} =
                 (IF workspace[f].size = 0 THEN {} ELSE {workspace[f].content})

\* Why: all vectors of an index, stored or in a command's memory, are of its model, and
\* it holds for a file a time and size the file had once and, where the file still has
\* them, its content.
OfModel(db, m) == db.source = m /\ \A f \in Files : \A c \in db.chunks[f] : c.model = m

UpToDate(db, f) ==
    f \in excused \/ workspace[f] = Missing \/
    {c.content : c \in db.chunks[f]} = (IF workspace[f].size = 0 THEN {} ELSE {workspace[f].content})

Fresh(db) ==
    \A f \in Files :
      db.files[f] # Missing =>
        db.files[f] \in stats[f] \cup {NoStat} /\ (db.files[f] = Stat(f) => UpToDate(db, f))

\* In a command's memory a file that is still to be read has neither, and the one just
\* read has its content and not yet its time.
Unread(db, f) == db.files[f] = Missing /\ db.chunks[f] = {}

CommandOK(r) ==
    /\ r # IndexIdle => OfModel(r.db, r.model) /\ Fresh(r.db) /\ \A f \in r.todo : Unread(r.db, f)
    /\ r.step = "load" => r.todo = {}
    /\ r.step = "stat" => /\ r.at \in Files \ r.todo
                          /\ r.db.files[r.at] = Missing /\ UpToDate(r.db, r.at)

CodeIndexInv ==
    /\ IndexTypeOK
    /\ \A f \in Files : workspace[f] # Missing => Stat(f) \in stats[f] /\ Stat(f) # NoStat
    /\ Decodes => OfModel(index, index.source) /\ Fresh(index)
    /\ \A p \in IndexCommands : CommandOK(indexRun[p])

\* A search compares a question only with vectors of the model that embedded it:
\* "vectors from different models are never compared" (src/codebase.rs:84).
NeverCompared == \A pair \in compared : pair[1] = pair[2]
=============================================================================
