\* What set_app_enabled says of the rest of the config, with structured edits only.
CONSTANTS
  Apps = {"standup"}
  Refs = {"main"}
  Creds = {"k1", "k2"}
  Bodies <- MCBodies
  Writers = {w1, w2}
  None = None
  Malformed = Malformed
  Truncated = Truncated
  MaxEdits = 3
  MaxFaults = 0
SPECIFICATION MCStructured
SYMMETRY MCSymmetry

PROPERTY RestUntouched
\* With the edit budget spent and every request answered nothing is left to do.
CHECK_DEADLOCK FALSE
