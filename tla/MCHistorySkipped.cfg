SPECIFICATION Spec
CONSTANTS
  Msg = {m1, m2, m3}
  Reader = {r1, r2}
  Member = {r1}
  Limit = {0, 1}
  Default = 3
  MaxPage = 2
  MaxTime = 2
INVARIANTS ScrollShowsEverything
CHECK_DEADLOCK FALSE
