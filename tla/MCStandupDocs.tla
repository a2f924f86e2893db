---------------------------- MODULE MCStandupDocs ----------------------------
(***************************************************************************)
(* Two calls out of a menu of a job, an action and a chat command that     *)
(* names two people, for a group of two and a table of two columns besides *)
(* the names.  All are for today: documents of two days never meet.        *)
(***************************************************************************)
EXTENDS StandupDocs

CONSTANTS ann, bob, today, tomorrow, plain, fancy

MCMenu ==
  {[from |-> "job", op |-> "announce", date |-> today, users |-> <<>>],
   [from |-> "action", op |-> "urgent", date |-> None, users |-> <<>>],
   [from |-> "chat", op |-> "urgent", date |-> tomorrow, users |-> <<bob, ann>>]}

MCTitleOf == [x \in {plain, fancy} \X {today, tomorrow} |-> x]
=============================================================================
