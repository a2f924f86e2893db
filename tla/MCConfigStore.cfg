\* Two requests in flight together, crashes and disk errors between their steps.
CONSTANTS
  Apps = {"standup"}
  Refs = {"main"}
  Creds = {"k1", "k2"}
  Bodies <- MCBodies
  Writers = {w1, w2}
  None = None
  Malformed = Malformed
  Truncated = Truncated
  MaxEdits = 3
  MaxFaults = 1
SPECIFICATION Spec
SYMMETRY MCSymmetry
INVARIANTS
  TypeOK
  DiskAgrees
PROPERTY AckedBindResolves
\* With the edit budget spent and every request answered nothing is left to do.
CHECK_DEADLOCK FALSE
