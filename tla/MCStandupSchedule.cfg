\* A job over nearly three days: one edit of the schedule, one failed read of it,
\* two restarts.
CONSTANTS
  Jobs = {"urgent"}
  Schedules <- MCSchedules
  Defaults <- MCDefaults
  DayLength = 3
  LastSlot = 7
  MaxRun = 1
  MaxSaves = 1
  MaxRestarts = 2
  MaxMisreads = 1
SPECIFICATION ScheduleSpec
INVARIANTS
  FiringInv
  NotTwiceADay
PROPERTY StopsWhenTold
\* At the last slot every job waits.
CHECK_DEADLOCK FALSE
