------------------------------ MODULE JobBoard ------------------------------
(***************************************************************************)
(* What the job queue promises while workers keep their leases: a job is    *)
(* in one worker's hands at a time, only that worker ends it or gives it    *)
(* back, and its answer comes with its end.                                 *)
(***************************************************************************)
CONSTANTS Job, Worker, Nobody

VARIABLES
    phase,   \* absent, pending, running, completed or failed
    holder,  \* the worker that has the job in hand
    answer   \* the worker whose answer is kept

vars == <<phase, holder, answer>>

Init ==
    /\ phase = [j \in Job |-> "absent"]
    /\ holder = [j \in Job |-> Nobody]
    /\ answer = [j \in Job |-> Nobody]

Post(j) ==
    /\ phase[j] = "absent"
    /\ phase' = [phase EXCEPT ![j] = "pending"]
    /\ UNCHANGED <<holder, answer>>

\* To a worker, or to one that is never told.
HandOut(j, w) ==
    /\ phase[j] \in {"pending", "running"} /\ holder[j] = Nobody
    /\ phase' = [phase EXCEPT ![j] = "running"]
    /\ holder' = [holder EXCEPT ![j] = w]
    /\ UNCHANGED answer

\* The holder is gone: the job runs on until it is handed out again.
Abandon(j) ==
    /\ phase[j] = "running" /\ holder[j] # Nobody
    /\ holder' = [holder EXCEPT ![j] = Nobody]
    /\ UNCHANGED <<phase, answer>>

GiveBack(j) ==
    /\ phase[j] = "running" /\ holder[j] # Nobody
    /\ phase' = [phase EXCEPT ![j] = "pending"]
    /\ holder' = [holder EXCEPT ![j] = Nobody]
    /\ UNCHANGED answer

GiveUp(j) ==
    /\ phase[j] = "running" /\ holder[j] # Nobody
    /\ phase' = [phase EXCEPT ![j] = "failed"]
    /\ holder' = [holder EXCEPT ![j] = Nobody]
    /\ UNCHANGED answer

\* A queue may keep no answers.
End(j) ==
    /\ phase[j] = "running" /\ holder[j] # Nobody
    /\ phase' = [phase EXCEPT ![j] = "completed"]
    /\ holder' = [holder EXCEPT ![j] = Nobody]
    /\ answer' \in {answer, [answer EXCEPT ![j] = holder[j]]}

Next ==
    \E j \in Job :
        \/ Post(j) \/ Abandon(j) \/ GiveBack(j) \/ GiveUp(j) \/ End(j)
        \/ \E w \in Worker \cup {Nobody} : HandOut(j, w)

Spec == Init /\ [][Next]_vars
=============================================================================
