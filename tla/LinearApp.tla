------------------------------ MODULE LinearApp ------------------------------
(***************************************************************************)
(* What the two parts of the linear App that are modelled have in common,  *)
(* its webhooks (Debounce) and its due-date reminders (Reminders).         *)
(***************************************************************************)
CONSTANTS
  Issues,
  None      \* nobody, nothing, no entry; no due date, no tier
=============================================================================
