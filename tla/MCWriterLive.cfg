SPECIFICATION FairSpec
CONSTANTS
  m1 = m1  m2 = m2  m3 = m3
  k1 = k1  k2 = k2
  r1 = r1  r2 = r2
  hello = hello  bye = bye
  w1 = w1  w2 = w2
  NoMsg = NoMsg
  Bodies = {hello, bye}
  Msgs = {m1, m2, m3}
  Keys = {k1, k2}
  Rooms = {r1, r2}
  Cmd <- MCConflictAndOther
  Workers = {w1}
  BatchSize = 2
  MaxDeliver = 1
  DisableFanout = FALSE
  MaxFaults = 2
  MaxCrashes = 0
PROPERTIES
  BatchesReturn
  CommandsAreRecorded
  
CHECK_DEADLOCK FALSE
