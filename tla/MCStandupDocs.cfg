\* Two calls from the menu, two members, two columns; one edit by a member or
\* an admin, one fault.
SPECIFICATION Spec
CONSTANTS
  ann = ann
  bob = bob
  today = today
  tomorrow = tomorrow
  plain = plain
  fancy = fancy
  Calls = {1, 2}
  Menu <- MCMenu
  Members = {ann, bob}
  Columns = {"done", "plan"}
  Dates = {today, tomorrow}
  Today = today
  Tomorrow = tomorrow
  Templates = {plain, fancy}
  TitleOf <- MCTitleOf
  Default = plain
  None = None
  MaxEdits = 1
  MaxFaults = 1
INVARIANTS
  TwinsExplained
  WholeOrExplained
  ReminderInv
PROPERTY EveryCallEnds
CHECK_DEADLOCK FALSE
