SPECIFICATION Spec
CONSTANTS
  m1 = m1  m2 = m2  m3 = m3
  k1 = k1  k2 = k2
  r1 = r1  r2 = r2
  hello = hello  bye = bye
  w1 = w1  w2 = w2
  NoMsg = NoMsg
  Bodies = {hello, bye}
  Msgs = {m1, m2}
  Keys = {k1}
  Rooms = {r1, r2}
  Cmd <- MCConflict
  Workers = {w1, w2}
  BatchSize = 2
  MaxDeliver = 2
  DisableFanout = FALSE
  MaxFaults = 3
  MaxCrashes = 1
SYMMETRY WorkerSymmetry
INVARIANTS
  DeadOnlyAfterMaxDeliver
  EarlyAckIsRecorded
  TablesAgree
PROPERTIES
  StatusMovesForward
CHECK_DEADLOCK FALSE
