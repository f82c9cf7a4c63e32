--------------------------- MODULE AlertLifecycle ---------------------------
(***************************************************************************)
(* The persistent alert state (src/alert.rs): the daemon applies process    *)
(* events to its AlertStore and publishes the transitions (record_event in  *)
(* daemon.rs), operators change alerts beside it with processes of their     *)
(* own (the alerts command of main.rs).  Each opens the file once, works on  *)
(* its copy and replaces the whole file; nothing locks it.  An alert is a    *)
(* rule and a process name.                                                 *)
(***************************************************************************)
EXTENDS Naturals, FiniteSets

CONSTANTS
    Alert,
    Operator,       \* the alerts commands under way at once
    ProcessId,      \* process ids; a restarted daemon may get its old one
    MaxTransitions  \* bound on the transition_count of each alert

ASSUME AlertAssumption == "daemon" \notin Operator /\ MaxTransitions \in [Alert -> Nat]

VARIABLES
    file,       \* alerts-v1.json
    alertTemps, \* pids whose temporary file exists
    stage, pid, mem,  \* of the processes; mem is AlertStore.state
    key,        \* the alert a process is changing
    published,  \* the last transition of each alert handed to telemetry
    \* history, which no step depends on
    ended,      \* alerts with an EXIT handled since an operator's last word
    unread,     \* of a process: alerts saved by others since its copy was the file
    undone,     \* transitions an operator's old copy was saved over
    forgotten   \* those that a daemon started without

process == <<stage, pid, mem, key>>
alertHistory == <<ended, unread, undone, forgotten>>
alertVars == <<file, alertTemps, process, published, alertHistory>>

Process == {"daemon"} \cup Operator
NoAlert == [status |-> "absent", count |-> 0]
Record == [status : {"absent", "firing", "acknowledged", "resolved", "suppressed"},
           count : Nat]

AlertInit ==
    /\ file = [a \in Alert |-> NoAlert]
    /\ alertTemps = {}
    /\ stage = [x \in Process |-> "down"]
    /\ pid \in [Process -> ProcessId]
    /\ mem = [x \in Process |-> file]
    /\ key \in [Process -> Alert]
    /\ published = file
    /\ ended = {} /\ undone = {} /\ forgotten = {}
    /\ unread = [x \in Process |-> {}]
-----------------------------------------------------------------------------
FreePid(p) == \A x \in Process : stage[x] # "down" => pid[x] # p

\* AlertStore::open.
OpenStore(x, p) ==
    /\ stage[x] = "down" /\ FreePid(p)
    /\ pid' = [pid EXCEPT ![x] = p]
    /\ unread' = [unread EXCEPT ![x] = {}]

\* Mutant: the file is not read.
StartFresh(p) ==
    /\ OpenStore("daemon", p)
    /\ mem' = [mem EXCEPT !["daemon"] = [a \in Alert |-> NoAlert]]
    /\ stage' = [stage EXCEPT !["daemon"] = "idle"]
    /\ forgotten' = forgotten \cup undone /\ undone' = {}
    /\ UNCHANGED <<file, alertTemps, key, published, ended>>

Start(p) ==
    /\ OpenStore("daemon", p)
    /\ mem' = [mem EXCEPT !["daemon"] = file]
    /\ stage' = [stage EXCEPT !["daemon"] = "idle"]
    /\ forgotten' = forgotten \cup undone /\ undone' = {}
    /\ UNCHANGED <<file, alertTemps, key, published, ended>>

\* The process is stopped or dies; the temporary file stays.
Stop(x) ==
    /\ stage[x] # "down"
    /\ stage' = [stage EXCEPT ![x] = "down"]
    /\ UNCHANGED <<file, alertTemps, pid, mem, key, published, alertHistory>>

\* The status an event asks for.
Desired(event) == IF event = "EXIT" THEN "resolved" ELSE "firing"

\* Mutant: acknowledged and suppressed alerts are not respected.
IgnoredIfSame(status, event) ==
    status = Desired(event) \/ (status = "absent" /\ event = "EXIT")

\* The events that change nothing.
Ignored(status, event) ==
    \/ status = "suppressed"
    \/ status = "acknowledged" /\ event # "EXIT"
    \/ status = Desired(event)
    \/ status = "absent" /\ event = "EXIT"

Set(x, copy, a, status) ==
    /\ copy[a].count < MaxTransitions[a]
    /\ mem' = [mem EXCEPT ![x] =
                 [copy EXCEPT ![a] = [status |-> status, count |-> @.count + 1]]]
    /\ key' = [key EXCEPT ![x] = a]
    /\ stage' = [stage EXCEPT ![x] = "persist"]

\* AlertStore::apply up to persist: the daemon's copy is changed first.
Apply(a, event) ==
    /\ stage["daemon"] = "idle"
    /\ ~Ignored(mem["daemon"][a].status, event)
    /\ Set("daemon", mem["daemon"], a, Desired(event))
    /\ ended' = IF event = "EXIT" THEN ended \cup {a} ELSE ended
    /\ UNCHANGED <<file, alertTemps, pid, published, unread, undone, forgotten>>

\* The alerts command and AlertStore::set_status up to persist.
Decide(x, a, status, p) ==
    /\ OpenStore(x, p)
    /\ file[a].status # "absent"
    /\ ~(file[a].status = "resolved" /\ status = "acknowledged")
    /\ Set(x, file, a, status)
    /\ UNCHANGED <<file, alertTemps, published, ended, undone, forgotten>>
-----------------------------------------------------------------------------
(* AlertStore::persist.  A process that fails reports the error and goes on:    *)
(* the daemon with the next event, the operator's command ends.                *)

After(x, next) == stage' = [stage EXCEPT ![x] = IF x = "daemon" THEN next ELSE "down"]

\* create_new, write, sync.
CreateTemp(x) ==
    /\ stage[x] = "persist"
    /\ pid[x] \notin alertTemps
    /\ alertTemps' = alertTemps \cup {pid[x]}
    /\ stage' = [stage EXCEPT ![x] = "written"]
    /\ UNCHANGED <<file, pid, mem, key, published, alertHistory>>

\* The file is there from an earlier failure, or the disk refuses a step; a
\* rename that fails leaves the temporary file, a write that fails may.
PersistFails(x) ==
    /\ stage[x] \in {"persist", "written"}
    /\ After(x, "idle")
    /\ \/ stage[x] = "persist" /\ UNCHANGED alertTemps
       \/ alertTemps' = alertTemps \cup {pid[x]}
    /\ UNCHANGED <<file, pid, mem, key, published, alertHistory>>

\* The alerts whose record x saves anew.
Saved(x) == {key[x]} \cup {a \in Alert : mem[x][a] # file[a]}

\* The rename: the file becomes the copy of x, whatever was saved since x read it.
Commit(x) ==
    /\ stage[x] = "written"
    /\ file' = mem[x]
    /\ alertTemps' = alertTemps \ {pid[x]}
    /\ After(x, "publish")
    /\ ended' = IF x \in Operator THEN ended \ {key[x]} ELSE ended
    /\ unread' = [y \in Process |-> IF y = x THEN {} ELSE unread[y] \cup Saved(x)]
    /\ undone' = IF x \in Operator THEN undone \cup unread[x] ELSE {}
    /\ UNCHANGED <<pid, mem, key, published, forgotten>>

\* Mutant: the transition is published before it is persisted.
PublishEarly ==
    /\ stage["daemon"] \in {"persist", "publish"}
    /\ published' = [published EXCEPT ![key["daemon"]] = mem["daemon"][key["daemon"]]]
    /\ stage' = [stage EXCEPT !["daemon"] = IF @ = "persist" THEN @ ELSE "idle"]
    /\ UNCHANGED <<file, alertTemps, pid, mem, key, alertHistory>>

\* publish; it fails when the spool refuses, which is only logged.
PublishTransition ==
    /\ stage["daemon"] = "publish"
    /\ \/ /\ published' = [published EXCEPT ![key["daemon"]] = mem["daemon"][key["daemon"]]]
          /\ forgotten' = forgotten \ {key["daemon"]}
       \/ UNCHANGED <<published, forgotten>>
    /\ stage' = [stage EXCEPT !["daemon"] = "idle"]
    /\ UNCHANGED <<file, alertTemps, pid, mem, key, ended, unread, undone>>

AlertNext ==
    \/ \E p \in ProcessId : Start(p)
    \/ \E a \in Alert, event \in {"FORK", "EXEC", "EXIT"} : Apply(a, event)
    \/ \E x \in Operator, a \in Alert, p \in ProcessId,
          status \in {"acknowledged", "resolved", "suppressed"} : Decide(x, a, status, p)
    \/ \E x \in Process : Stop(x) \/ CreateTemp(x) \/ PersistFails(x) \/ Commit(x)
    \/ PublishTransition

AlertSpec == AlertInit /\ [][AlertNext]_alertVars
-----------------------------------------------------------------------------
AlertTypeOK ==
    /\ file \in [Alert -> Record]
    /\ alertTemps \subseteq ProcessId
    /\ stage \in [Process -> {"down", "idle", "persist", "written", "publish"}]
    /\ \A x \in Operator : stage[x] \notin {"idle", "publish"}
    /\ pid \in [Process -> ProcessId]
    /\ mem \in [Process -> [Alert -> Record]]
    /\ key \in [Process -> Alert]
    /\ published \in [Alert -> Record]
    /\ {ended, undone, forgotten} \subseteq SUBSET Alert
    /\ unread \in [Process -> SUBSET Alert]

\* What telemetry was told of an alert survives a crash: the file holds that
\* transition or a later one (persist before publish in apply and record_event),
\* unless an operator's command that had read the file before it was saved later.
PublishedDurable ==
    \A a \in Alert \ (undone \cup forgotten) : published[a].count <= file[a].count

\* No transition is published twice, across crashes and failed writes.  Once and no
\* more may one be that a daemon was started without, an operator's old copy having
\* replaced the file in between.
PublishedOnce ==
    [][\A a \in Alert \ forgotten :
         published'[a] # published[a] => published'[a].count > published[a].count]_alertVars

DecisionOn(a) ==
    /\ file[a].status \in {"acknowledged", "suppressed"} /\ file'[a].status # file[a].status
    /\ ~(file[a].status = "acknowledged" /\ a \in ended)
Saves(x) == stage[x] = "written" /\ file' = mem[x] /\ stage'[x] # "written"

\* README.md:316: acknowledged alerts stay acknowledged until exit or explicit
\* change, suppressed alerts require explicit release.
DecisionStands ==
    [][\A a \in Alert : DecisionOn(a) => \E x \in Operator : Saves(x) /\ key[x] = a]_alertVars

\* What holds of it with nothing locking the file: a decision is undone besides only
\* by a process whose copy is from before that decision.
OperatorHolds ==
    [][\A a \in Alert : DecisionOn(a) =>
         \E x \in Process : Saves(x) /\ (a \in unread[x] \/ (x \in Operator /\ key[x] = a))]_alertVars

(* The inductive invariant behind PublishedDurable, PublishedOnce and OperatorHolds. *)

\* The daemon's copy is the file plus what it could not yet, or not at all, save.
DaemonCopy ==
    stage["daemon"] # "down" =>
        \A a \in Alert \ unread["daemon"] :
            /\ file[a].count <= mem["daemon"][a].count
            /\ \/ file[a].status = "suppressed"
               \/ file[a].status = "acknowledged" /\ a \notin ended
               => mem["daemon"][a] = file[a]

\* An operator's copy is the file but for the alert it changes.
OperatorCopy ==
    \A x \in Operator : stage[x] # "down" =>
        \A a \in Alert \ unread[x] :
            IF a = key[x] THEN file[a].count <= mem[x][a].count ELSE mem[x][a] = file[a]

\* The daemon knows what it published, unless it was started without.
PublishedKnown ==
    stage["daemon"] # "down" =>
        \A a \in Alert \ forgotten : published[a].count <= mem["daemon"][a].count

Unpublished ==
    stage["daemon"] \in {"persist", "written", "publish"} =>
        \/ key["daemon"] \in forgotten
        \/ published[key["daemon"]].count < mem["daemon"][key["daemon"]].count

\* Before it publishes a transition the daemon has saved it.
SavedFirst ==
    stage["daemon"] = "publish" =>
        \/ key["daemon"] \in undone
        \/ mem["daemon"][key["daemon"]].count <= file[key["daemon"]].count

AlertInv ==
    /\ AlertTypeOK
    /\ PublishedDurable
    /\ DaemonCopy
    /\ OperatorCopy
    /\ PublishedKnown
    /\ Unpublished
    /\ SavedFirst
=============================================================================
