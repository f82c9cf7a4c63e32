----------------------------- MODULE CaseStore ------------------------------
(***************************************************************************)
(* The store of evidence cases (src/evidence.rs): one file per case in a   *)
(* directory that every `evidence` and `cases` command opens for itself.   *)
(* A save clears temporary files, writes its own, renames it and then      *)
(* enforces the retention, which lists the store again.  Nothing locks the *)
(* directory; a command may be killed at any step.                         *)
(*                                                                         *)
(* Cases are numbered in the order of their capture, which is the order    *)
(* retention deletes them in.                                              *)
(***************************************************************************)
EXTENDS Naturals, FiniteSets, FiniteSetsExt

CONSTANTS
    CaseCommands,    \* commands that use the store
    MaxCases,     \* bound: cases captured
    MaxCaseCrashes,   \* bound: commands killed
    Sizes,        \* how large a case may be
    Limit         \* retention_bytes

ASSUME CaseStoreAssumption ==
    /\ MaxCases \in Nat /\ MaxCaseCrashes \in Nat /\ Limit \in Nat
    /\ Sizes \subseteq Nat \ {0}

Cases == 1..MaxCases

VARIABLES
    stored,     \* ID.json
    caseTemps,      \* ID.tmp
    size,       \* bytes of each captured case
    captured,   \* how many cases were captured
    expired,    \* cases up to this one are past the retention time
    caseRun,        \* what each process does
    caseCrashes,
    committed,  \* ghost: cases that were ever stored
    saved,      \* ghost: cases whose save answered Ok
    failed,     \* ghost: cases whose save answered an error or was killed
    deleted,    \* ghost: cases an operator deleted
    evicted     \* ghost: cases the retention deleted, by [case, age]

caseFiles == <<stored, caseTemps>>
ghostVars == <<committed, saved, failed, deleted, evicted>>
caseVars == <<caseFiles, size, captured, expired, caseRun, caseCrashes, ghostVars>>

\* What a command does next, the case it saves (0 for a list), the files it has
\* still to visit, the bytes it counted, and which cases were too old for it.
CaseIdle == [step |-> "idle", case |-> 0, todo |-> {}, total |-> 0, cutoff |-> 0]

\* The bytes of some cases, added up over all of them.
SizeOf(cases) ==
    LET sum[n \in 0..MaxCases] ==
          IF n = 0 THEN 0 ELSE sum[n - 1] + (IF n \in cases THEN size[n] ELSE 0)
    IN sum[MaxCases]

CasesInit ==
    /\ stored = {} /\ caseTemps = {}
    /\ size = [c \in Cases |-> 0] /\ captured = 0 /\ expired = 0
    /\ caseRun = [p \in CaseCommands |-> CaseIdle] /\ caseCrashes = 0
    /\ committed = {} /\ saved = {} /\ failed = {} /\ deleted = {} /\ evicted = {}

CaseGoTo(p, next) == caseRun' = [caseRun EXCEPT ![p].step = next]
Visits(p, next, files) == caseRun' = [caseRun EXCEPT ![p].step = next, ![p].todo = files]

\* The command ends with an error, which concerns the case it was saving.
Fail(p) ==
    /\ caseRun' = [caseRun EXCEPT ![p] = CaseIdle]
    /\ failed' = failed \cup ({caseRun[p].case} \ {0})
    /\ UNCHANGED <<committed, saved, deleted, evicted>>

-----------------------------------------------------------------------------
\* evidence: capture names the case by the time and then saves it.
Capture(p, bytes) ==
    /\ caseRun[p] = CaseIdle /\ captured < MaxCases
    /\ captured' = captured + 1
    /\ size' = [size EXCEPT ![captured + 1] = bytes]
    /\ caseRun' = [caseRun EXCEPT ![p] = [CaseIdle EXCEPT !.step = "prepare", !.case = captured + 1]]
    /\ UNCHANGED <<caseFiles, expired, caseCrashes, ghostVars>>

\* cases list.
List(p) ==
    /\ caseRun[p] = CaseIdle /\ stored # {}
    /\ caseRun' = [caseRun EXCEPT ![p] = [CaseIdle EXCEPT !.step = "prepare"]]
    /\ UNCHANGED <<caseFiles, size, captured, expired, caseCrashes, ghostVars>>

\* cases delete.
Delete(c) ==
    /\ c \in stored
    /\ stored' = stored \ {c}
    /\ deleted' = deleted \cup {c}
    /\ UNCHANGED <<caseTemps, size, captured, expired, caseRun, caseCrashes, committed, saved,
                   failed, evicted>>

Age ==
    /\ expired < captured
    /\ expired' = expired + 1
    /\ UNCHANGED <<caseFiles, size, captured, caseRun, caseCrashes, ghostVars>>

-----------------------------------------------------------------------------
\* prepare: the temporary files that are there, whoever writes them.
Prepare(p) ==
    /\ caseRun[p].step = "prepare"
    /\ Visits(p, "clean", caseTemps)
    /\ UNCHANGED <<caseFiles, size, captured, expired, caseCrashes, ghostVars>>

\* The file that disappeared meanwhile is an error.
Clean(p, c) ==
    /\ caseRun[p].step = "clean" /\ c \in caseRun[p].todo
    /\ caseTemps' = caseTemps \ {c}
    /\ IF c \in caseTemps THEN Visits(p, "clean", caseRun[p].todo \ {c}) /\ UNCHANGED ghostVars
                      ELSE Fail(p)
    /\ UNCHANGED <<stored, size, captured, expired, caseCrashes>>

\* A save prepares twice: before it writes and before it lists.
Mine(p) == caseRun[p].case
Cleaned(p) ==
    /\ caseRun[p].step = "clean" /\ caseRun[p].todo = {}
    /\ CaseGoTo(p, IF Mine(p) = 0 \/ Mine(p) \in committed THEN "list" ELSE "create")
    /\ UNCHANGED <<caseFiles, size, captured, expired, caseCrashes, ghostVars>>

\* A write that fails leaves the temporary file.
Create(p) ==
    /\ caseRun[p].step = "create"
    /\ caseTemps' = caseTemps \cup {Mine(p)}
    /\ \/ CaseGoTo(p, "commit") /\ UNCHANGED ghostVars
       \/ Fail(p)
    /\ UNCHANGED <<stored, size, captured, expired, caseCrashes>>

\* Mutant: the result of the rename is ignored.
CommitIgnored(p) ==
    /\ caseRun[p].step = "commit"
    /\ stored' = IF Mine(p) \in caseTemps THEN stored \cup {Mine(p)} ELSE stored
    /\ caseTemps' = caseTemps \ {Mine(p)}
    /\ committed' = committed \cup {Mine(p)}
    /\ caseRun' = [caseRun EXCEPT ![p].step = "prepare", ![p].cutoff = expired]
    /\ UNCHANGED <<size, captured, expired, caseCrashes, saved, failed, deleted, evicted>>

\* The rename fails if another command has cleared the temporary file.  The
\* retention then takes its cutoff, before it lists.
CommitCase(p) ==
    /\ caseRun[p].step = "commit"
    /\ IF Mine(p) \in caseTemps
       THEN /\ stored' = stored \cup {Mine(p)}
            /\ caseTemps' = caseTemps \ {Mine(p)}
            /\ committed' = committed \cup {Mine(p)}
            /\ caseRun' = [caseRun EXCEPT ![p].step = "prepare", ![p].cutoff = expired]
            /\ UNCHANGED <<saved, failed, deleted, evicted>>
       ELSE Fail(p) /\ UNCHANGED caseFiles
    /\ UNCHANGED <<size, captured, expired, caseCrashes>>

-----------------------------------------------------------------------------
\* list: the names, then the content of each file.
ReadDir(p) ==
    /\ caseRun[p].step = "list"
    /\ Visits(p, "read", stored)
    /\ UNCHANGED <<caseFiles, size, captured, expired, caseCrashes, ghostVars>>

\* One that was deleted before it was read is an error; for a list that is all.
Read(p) ==
    /\ caseRun[p].step = "read"
    /\ \/ /\ IF Mine(p) = 0 THEN caseRun' = [caseRun EXCEPT ![p] = CaseIdle]
             ELSE caseRun' = [caseRun EXCEPT ![p].step = "evict", ![p].total = SizeOf(caseRun[p].todo)]
          /\ UNCHANGED ghostVars
       \/ ~(caseRun[p].todo \subseteq stored) /\ Fail(p)
    /\ UNCHANGED <<caseFiles, size, captured, expired, caseCrashes>>

\* Mutant: a store that is just full counts as too full.
TooMuchWhenFull(p) == caseRun[p].total >= Limit

\* enforce_retention: oldest first, while too old or too much.
TooMuch(p) == caseRun[p].total > Limit
Evict(p) ==
    /\ caseRun[p].step = "evict" /\ caseRun[p].todo # {}
    /\ LET c == Min(caseRun[p].todo)
           rest == caseRun[p].todo \ {c} IN
       CASE ~(TooMuch(p) \/ c <= caseRun[p].cutoff) ->
               Visits(p, "evict", rest) /\ UNCHANGED <<stored, ghostVars>>
         [] (TooMuch(p) \/ c <= caseRun[p].cutoff) /\ c \in stored ->
               /\ stored' = stored \ {c}
               /\ caseRun' = [caseRun EXCEPT ![p].todo = rest, ![p].total = @ - size[c]]
               /\ evicted' = evicted \cup {[case |-> c, old |-> c <= caseRun[p].cutoff]}
               /\ UNCHANGED <<committed, saved, failed, deleted>>
         [] OTHER -> Fail(p) /\ UNCHANGED stored
    /\ UNCHANGED <<caseTemps, size, captured, expired, caseCrashes>>

Finish(p) ==
    /\ caseRun[p].step = "evict" /\ caseRun[p].todo = {}
    /\ caseRun' = [caseRun EXCEPT ![p] = CaseIdle]
    /\ saved' = saved \cup {Mine(p)}
    /\ UNCHANGED <<caseFiles, size, captured, expired, caseCrashes, committed, failed, deleted, evicted>>

KillCase(p) ==
    /\ caseRun[p] # CaseIdle /\ caseCrashes < MaxCaseCrashes
    /\ caseCrashes' = caseCrashes + 1
    /\ Fail(p)
    /\ UNCHANGED <<caseFiles, size, captured, expired>>

CasesNext ==
    \/ Age
    \/ \E c \in Cases : Delete(c)
    \/ \E p \in CaseCommands :
          \/ \E bytes \in Sizes : Capture(p, bytes)
          \/ \E c \in Cases : Clean(p, c)
          \/ List(p) \/ Prepare(p) \/ Cleaned(p) \/ Create(p) \/ CommitCase(p)
          \/ ReadDir(p) \/ Read(p) \/ Evict(p) \/ Finish(p) \/ KillCase(p)

CasesSpec == CasesInit /\ [][CasesNext]_caseVars

-----------------------------------------------------------------------------
CasesTypeOK ==
    /\ stored \subseteq Cases /\ caseTemps \subseteq Cases
    /\ size \in [Cases -> Sizes \cup {0}]
    /\ captured \in 0..MaxCases /\ expired \in 0..captured
    /\ caseRun \in [CaseCommands ->
         [step : {"idle", "prepare", "clean", "create", "commit", "list", "read", "evict"},
          case : 0..MaxCases, todo : SUBSET Cases, total : Nat, cutoff : 0..MaxCases]]
    /\ caseCrashes \in 0..MaxCaseCrashes
    /\ committed \subseteq Cases /\ saved \subseteq Cases /\ failed \subseteq Cases
    /\ deleted \subseteq Cases /\ evicted \subseteq [case : Cases, old : BOOLEAN]

\* A case reported as stored is in the store until retention or an operator
\* removes it, although other commands clear temporary files and retain at the
\* same time (src/evidence.rs:285 and :340, "Stored evidence case").
SavedKept == saved \subseteq stored \cup deleted \cup {e.case : e \in evicted}

\* Why: a save answers Ok after it has stored its case, and a stored case goes only by
\* the retention or an operator.
SavedInv ==
    /\ saved \subseteq committed
    /\ committed \subseteq stored \cup deleted \cup {e.case : e \in evicted}
    /\ \A p \in CaseCommands :
         /\ caseRun[p].step \in {"list", "read", "evict"} => Mine(p) \in committed \cup {0}
         /\ caseRun[p].step = "evict" => Mine(p) # 0

\* Retention removes what it must and no more, also when two commands enforce it
\* at once: a case that is not too old goes only if it and those captured after
\* it were more than the limit allows, and once every command has ended, and no
\* save failed or was killed, the cases fit (src/evidence.rs:335, :340).
RetentionExact ==
    /\ \A e \in evicted : ~e.old => SizeOf({c \in committed : c >= e.case}) > Limit
    /\ ((\A p \in CaseCommands : caseRun[p] = CaseIdle) /\ failed = {}) => SizeOf(stored) <= Limit

\* Why: an enforcement has counted a set of cases that holds all it has still to
\* visit, and none but those unless its total is within the limit.
Counts(p, kept) ==
    /\ caseRun[p].todo \subseteq kept
    /\ caseRun[p].total = SizeOf(kept)
    /\ kept = caseRun[p].todo \/ caseRun[p].total <= Limit

\* This command's retention will cover everything that is stored now.
Covers(p) ==
    /\ Mine(p) \in committed
    /\ \/ caseRun[p].step \in {"prepare", "clean", "list"}
       \/ caseRun[p].step = "read" /\ stored \subseteq caseRun[p].todo
       \/ /\ caseRun[p].step = "evict"
          /\ \E kept \in SUBSET committed : Counts(p, kept) /\ stored \subseteq kept

Counted(p) ==
    /\ Mine(p) \in 0..captured
    /\ caseRun[p].step \in {"create", "commit", "evict"} => Mine(p) # 0
    /\ caseRun[p].step = "read" => caseRun[p].todo \subseteq committed
    /\ caseRun[p].step = "evict" => \E kept \in SUBSET committed : Counts(p, kept)

RetentionInv ==
    /\ stored \subseteq committed /\ committed \subseteq 1..captured
    /\ \A p \in CaseCommands : Counted(p)
    /\ \A e \in evicted : ~e.old => SizeOf({c \in committed : c >= e.case}) > Limit
    /\ failed = {} => SizeOf(stored) <= Limit \/ \E p \in CaseCommands : Covers(p)
=============================================================================
