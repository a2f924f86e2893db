\* A create and two updates of an issue, and one of another, over a restart and a crash or a refusal.
CONSTANTS
  Updates = {"create", "move", "hand", "claim"}
  Issues = {"LIN-1", "LIN-2"}
  Users = {"ann", "bob"}
  Lines = {"status", "assignee", "priority"}
  Webhook <- MCWebhooks
  Gens <- MCGens
  None = None
  Unchanged = Unchanged
  MaxMishaps = 1
SPECIFICATION Spec
INVARIANTS
  PendingInv
  MergeFaithful
PROPERTY EventuallySent
\* Every webhook delivered, nothing is left to do.
CHECK_DEADLOCK FALSE
