SPECIFICATION Spec
CONSTANTS
  Conn = {c1, c2}
  Asker = {}
  MaxFaults = 2
  MaxCrashes = 1
INVARIANTS LiveIsListed OfflineIsHonest
CHECK_DEADLOCK FALSE
