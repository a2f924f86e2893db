---------------------------- MODULE MCReminders ----------------------------
(* Instances of Reminders for TLC: a cadence of two thresholds and a day   *)
(* of overdue reminders, and what an admin may make of it.                 *)
EXTENDS Reminders

MCDefault == [on |-> TRUE, leads |-> {2, 0}, cap |-> 1, zone |-> 0]

(* Off, other thresholds, no thresholds in a zone ahead, a wild lead. *)
MCCadences ==
  {[MCDefault EXCEPT !.on = FALSE], [MCDefault EXCEPT !.leads = {1}, !.cap = 2],
   [MCDefault EXCEPT !.leads = {}, !.zone = 1], [MCDefault EXCEPT !.leads = {2, 9}]}
=============================================================================
