------------------------------- MODULE MCAgent -------------------------------
(***************************************************************************)
(* The agent's files, commands and algorithms for TLC.  They share no      *)
(* state: a behaviour is of one part, and the others stay as they begin,   *)
(* so that their states add up instead of multiplying.                     *)
(***************************************************************************)
EXTENDS DiskSpool, Acknowledgement, AlertLifecycle, Settings, CaseStore, CodeIndex, CausalGraph,
        MdStreamer, TLC

CONSTANTS a, b, d1, netlink, socket, worker, f, g, p1, p2, p3, p4, sda, s1, f1, m1, m2, w1, w2,
    NotHere

VARIABLE part

\* The spool of one daemon with its two publishing threads and its export worker.
OneDaemonOf == (netlink :> d1) @@ (socket :> d1) @@ (worker :> d1)

\* Alert w1 fires, is decided on and resolved; beside it w2 fires.
TransitionsOf == (w1 :> 3) @@ (w2 :> 1)

\* Snapshots: p1 is stuck or traced, the others use its resources or are its ancestors.
Rate(parent, blocked, writes, hot, io, opens, traced) ==
    [parent : {parent}, blocked : {blocked}, writes : {writes}, hot : hot, io : io,
     opens : opens, traced : traced]
Calm == Rate(NoProcess, FALSE, FALSE, BOOLEAN, {0}, {{f1}}, {<<>>})
Stuck(q) == Rate(q, TRUE, FALSE, {FALSE}, {2}, {{}, {f1, sda}}, {<<>>})
Busy(q) == Rate(q, FALSE, TRUE, {FALSE}, {2}, {{sda}, {f1, s1}}, {<<>>})
Traced(q) == Rate(q, FALSE, FALSE, {FALSE}, {1, 3}, {{sda}}, {<<>>, <<sda, sda>>})
GraphSnapshots ==
    {(p1 :> w) @@ (p2 :> x) @@ (p3 :> y) @@ (p4 :> z) :
       w \in Stuck(p2) \cup Traced(p3), x \in Calm \cup Busy(p3),
       y \in Busy(NoProcess) \cup Traced(p4), z \in Traced(NoProcess) \cup Stuck(p1)}
GraphDisks == {<<>>} \cup {(sda :> [io |-> 1, busy |-> c]) : c \in BOOLEAN}

\* a and b are the commands' processes, f and g the files and the process ids: two
\* pairs are fewer permutations than four.
Symmetry == Permutations({a, b}) \cup Permutations({f, g})
-----------------------------------------------------------------------------
Parts == {"spool", "alerts", "settings", "cases", "index", "graph", "stream", "answer"}

BeginAlerts ==
    IF part = "alerts" THEN AlertInit ELSE
      /\ file = [alert \in Alert |-> NoAlert] /\ published = file
      /\ stage = [x \in Process |-> "down"] /\ alertTemps = {}
      /\ ended = {} /\ undone = {} /\ forgotten = {} /\ unread = NotHere
      /\ pid = NotHere /\ mem = NotHere /\ key = NotHere

BeginSettings ==
    IF part = "settings" THEN SettingsInit ELSE
      /\ config = Absent /\ original = Absent /\ backup = [k \in Backups |-> Absent]
      /\ secret = FALSE /\ configTemps = {} /\ secretTemps = {}
      /\ run = [p \in Processes |-> Idle] /\ started = 0 /\ kills = 0

BeginIndex ==
    IF part = "index" THEN IndexInit ELSE
      /\ index = Missing
      /\ workspace = NotHere /\ fileClock = NotHere /\ configured = NotHere
      /\ indexRun = NotHere /\ edits = NotHere /\ changes = NotHere /\ indexStarted = NotHere
      /\ stats = NotHere /\ excused = NotHere /\ compared = NotHere

BeginAnswer ==
    IF part = "answer" THEN AnswerInit ELSE answer = NotGiven /\ NothingDone

BeginStream ==
    IF part = "stream" THEN StreamInit ELSE text = <<>> /\ NothingShown

BeginGraph ==
    IF part = "graph" THEN GraphInit ELSE
      /\ rate = [p \in Proc |-> [traced |-> <<>>]] /\ disk = NotHere
      /\ edges = {} /\ queue = <<>> /\ visited = {} /\ path = <<>>

AgentInit ==
    /\ part \in Parts
    /\ Init
    /\ BeginAlerts
    /\ BeginSettings
    /\ CasesInit
    /\ BeginIndex
    /\ BeginGraph
    /\ BeginAnswer
    /\ BeginStream

stores == <<vars, alertVars, settingsVars>>
algorithms == <<caseVars, indexVars, graphVars, streamVars, answerVars>>

AgentNext ==
    /\ UNCHANGED part
    /\ \/ part = "spool" /\ Next /\ UNCHANGED <<alertVars, settingsVars, algorithms>>
       \/ part = "alerts" /\ AlertNext /\ UNCHANGED <<vars, settingsVars, algorithms>>
       \/ part = "settings" /\ SettingsNext /\ UNCHANGED <<vars, alertVars, algorithms>>
       \/ part = "cases" /\ CasesNext
          /\ UNCHANGED <<stores, indexVars, graphVars, streamVars, answerVars>>
       \/ part = "index" /\ IndexNext
          /\ UNCHANGED <<stores, caseVars, graphVars, streamVars, answerVars>>
       \/ part = "graph" /\ GraphNext
          /\ UNCHANGED <<stores, caseVars, indexVars, streamVars, answerVars>>
       \/ part = "stream" /\ StreamNext
          /\ UNCHANGED <<stores, caseVars, indexVars, graphVars, answerVars>>
       \/ part = "answer" /\ AnswerNext
          /\ UNCHANGED <<stores, caseVars, indexVars, graphVars, streamVars>>

agentVars == <<stores, algorithms, part>>
AgentSpec == AgentInit /\ [][AgentNext]_agentVars
=============================================================================
