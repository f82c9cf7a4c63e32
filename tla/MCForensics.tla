----------------------------- MODULE MCForensics -----------------------------
(* Instances of Forensics for TLC. *)
EXTENDS Forensics

CONSTANTS p1, p2, g1, g2

Exits(p, S) == [kind : {"exit"}, who : {p}, leader : {TRUE}, signal : S, cgroup : {g1}]

\* p1 has every kind of record; p2 competes with it for a timeline.
MCFacts ==
    Exits(p1, {NoSignal, Sigkill})
    \cup [kind : {"exit"}, who : {p1}, leader : {FALSE}, signal : {Sigkill}, cgroup : {g1}]
    \cup [kind : {"signal"}, who : {p1}, signal : {Sigkill}, origin : {"process", "unknown"}]
    \cup [kind : {"oom"}, who : {p1}, oom : {"memcg"}, cgroup : {g1, g2}]
    \cup [kind : {"oom"}, who : {p1}, oom : {"global", "unknown"}, cgroup : {g1}]
    \cup Exits(p2, {Sigkill})
    \cup [kind : {"oom"}, who : {p2}, oom : {"memcg"}, cgroup : {g1}]
    \cup [kind : {"loss"}, dropped : {0, 1}]
=============================================================================
