\* Runs of one meeting over a restart and a crash, one permit to a generation.
CONSTANTS
  Runs = {r1, r2}
  Meetings = {"m"}
  Recordings = {"rec", "other"}
  RecordingOf <- MCRecordingOf
  Hints = {"other"}
  Chunks = 2
  Batch = 2
  SegCounts = {0, 3}
  Cap = 1
  Env = {}
  Sections <- MCSections
  None = None
  MaxGens = 2
  MaxFaults = 1
SPECIFICATION Spec
INVARIANTS
  RunInv
  OwnRecording
  DocInOrder
PROPERTY EveryEventEnds
\* Every run ended, nothing is left to do.
CHECK_DEADLOCK FALSE
