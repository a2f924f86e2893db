----------------------------- MODULE MCDebounce -----------------------------
(* Instances of Debounce for TLC: a create and two updates of one issue,   *)
(* and an update of another.                                               *)
EXTENDS Debounce

MCGens == 1..2

MCWebhook(u) ==
  CASE u = "create" -> [issue |-> "LIN-1", created |-> TRUE, moved |-> FALSE, lines |-> {},
                        was |-> Unchanged, assignee |-> "bob", actor |-> "ann"]
    [] u = "move"   -> [issue |-> "LIN-1", created |-> FALSE, moved |-> TRUE,
                        lines |-> {"status"}, was |-> Unchanged, assignee |-> "bob",
                        actor |-> None]
    [] u = "hand"   -> [issue |-> "LIN-1", created |-> FALSE, moved |-> FALSE,
                        lines |-> {"assignee", "priority"}, was |-> "bob", assignee |-> "ann",
                        actor |-> "bob"]
    [] u = "claim"  -> [issue |-> "LIN-2", created |-> FALSE, moved |-> TRUE,
                        lines |-> {"status"}, was |-> None, assignee |-> "ann", actor |-> "ann"]

MCWebhooks == [u \in Updates |-> MCWebhook(u)]
=============================================================================
