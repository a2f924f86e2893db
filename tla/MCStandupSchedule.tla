------------------------- MODULE MCStandupSchedule -------------------------
(* Instances of StandupSchedule for TLC: days of three slots.              *)
EXTENDS StandupSchedule

MCSchedule(zone, at, on) ==
  [zone |-> zone, trigger |-> [j \in Jobs |-> [enabled |-> on, at |-> at]]]

(* On at home, off, or on a zone ahead. *)
MCSchedules == {MCSchedule(0, 1, TRUE), MCSchedule(0, 1, FALSE), MCSchedule(1, 0, TRUE)}

(* Another time, at home. *)
MCDefaults == MCSchedule(0, 0, TRUE)
=============================================================================
