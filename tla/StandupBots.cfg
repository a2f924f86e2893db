\* What serve_with_bot says of a restart.
CONSTANTS
  Jobs = {"urgent"}
  Schedules <- MCSchedules
  Defaults <- MCDefaults
  DayLength = 3
  LastSlot = 7
  MaxRun = 1
  MaxSaves = 1
  MaxRestarts = 2
  MaxMisreads = 1
SPECIFICATION ScheduleSpec
INVARIANT NoLeakedBot
\* At the last slot every job waits.
CHECK_DEADLOCK FALSE
