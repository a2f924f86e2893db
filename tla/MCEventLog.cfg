\* Two logging threads, a channel of two, a replay of one, a table of three.
CONSTANTS
  Threads = {t1, t2}
  Persister = persister
  NoId = NoId
  Buffer = 2
  Backfill = 1
  Retention = 3
  MaxId = 4
  MaxFaults = 1
SPECIFICATION Spec
INVARIANTS
  StoreInv
  NeverTwice
  GapExplained
PROPERTY CatchesUp
\* Ids run out and the log falls silent.
CHECK_DEADLOCK FALSE
