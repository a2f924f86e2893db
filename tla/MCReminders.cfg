\* Two issues over four days, one edit of the settings, one rescheduling, one fault.
CONSTANTS
  Issues = {i1, i2}
  Deadlines = {2, 3}
  Cadences <- MCCadences
  Default <- MCDefault
  None = None
  LastDay = 3
  TooFar = 8
  MaxEdits = 1
  MaxMoves = 1
  MaxFaults = 1
SPECIFICATION RemindersSpec
INVARIANTS
  PassInv
  RepeatsExplained
PROPERTIES
  DeadlineNears
  AllReminded
