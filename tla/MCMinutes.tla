----------------------------- MODULE MCMinutes -----------------------------
(* Instances of Minutes for TLC: two runs over a meeting whose recording   *)
(* a call may also name by another URL, one permit, a restart or a crash.*)
EXTENDS Minutes

MCRecordingOf == [m \in Meetings |-> "rec"]
MCSections == {[app |-> "known", inline |-> {"stt", "folder"}],
               [app |-> "unnamed", inline |-> {"stt", "folder"}],
               [app |-> "known", inline |-> {"stt"}]}
=============================================================================
