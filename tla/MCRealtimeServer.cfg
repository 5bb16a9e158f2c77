SPECIFICATION Spec
CONSTANTS
  s1 = s1
  s2 = s2
  s3 = s3
  u1 = u1
  u2 = u2
  r1 = r1
  Sock = {s1, s2, s3}
  User = {u1, u2}
  Room = {r1}
  Call = {k1}
  NoRoom = NoRoom
  NoSock = NoSock
  UserOf <- UserOfTabs
  Founded <- Nobody
  Later <- Shared
  Preload = TRUE
  Attempts = 2
  MaxFaults = 2
INVARIANTS TypeOK IndexIsRight OnlyOtherMembers PreloadedAreReached SendsAreAnswered
PROPERTIES OnlyFramesLeak
SYMMETRY Symmetric
CHECK_DEADLOCK FALSE
