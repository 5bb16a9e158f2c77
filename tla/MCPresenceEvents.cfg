SPECIFICATION Spec
CONSTANTS
  Conn = {c1, c2}
  Asker = {}
  MaxFaults = 0
  MaxCrashes = 0
INVARIANTS LastEventIsTrue
CHECK_DEADLOCK FALSE
