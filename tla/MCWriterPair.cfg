SPECIFICATION Spec
CONSTANTS
  m1 = m1  m2 = m2  m3 = m3
  k1 = k1  k2 = k2
  r1 = r1  r2 = r2
  hello = hello  bye = bye
  w1 = w1  w2 = w2
  NoMsg = NoMsg
  Bodies = {hello, bye}
  Msgs = {m1, m3}
  Keys = {k1, k2}
  Rooms = {r1}
  Cmd <- MCPair
  Workers = {w1, w2}
  BatchSize = 2
  MaxDeliver = 2
  DisableFanout = FALSE
  MaxFaults = 1
  MaxCrashes = 0
SYMMETRY WorkerSymmetry
INVARIANTS
  TypeOK
  ContiguousSequences
  FanoutIsTruthful
  LastMessageAtIsNewest
PROPERTIES
  ImplementsRoomLog
CHECK_DEADLOCK FALSE
