SPECIFICATION Spec
CONSTANTS
  s1 = s1
  s2 = s2
  s3 = s3
  u1 = u1
  u2 = u2
  r1 = r1
  Sock = {s1, s2}
  User = {u1, u2}
  Room = {r1}
  Call = {k1}
  NoRoom = NoRoom
  NoSock = NoSock
  UserOf <- UserOfPair
  Founded <- Shared
  Later <- Nobody
  Preload = FALSE
  Attempts = 1
  MaxFaults = 0
INVARIANTS NoDeadSockets
CHECK_DEADLOCK FALSE
