SPECIFICATION ServicesSpec
CONSTANTS
  c1 = c1
  c2 = c2
  c3 = c3
  c4 = c4
  q1 = q1
  q2 = q2
  q3 = q3
  u1 = u1
  u2 = u2
  u3 = u3
  User = {u1, u2, u3}
  Looker = {u1}
  Nobody = Nobody
  Call = {c1, c2, c3}
  May <- MCMay
  Request <- MCRequest
  MaxTime = 3
  MaxFaults = 1
  MaxCrashes = 1
  Req = {q1, q2, q3}
  Outsider = {q3}
  Buffered = {q1, q2}
  ReqOf <- MCReqOf
  MaxCreatedAt = 2
  Writer = Writer
  None = None
  Reader = {u1, u2}
  Member = {u1}
  PageLimit = {0, 1}
  Default = 3
  MaxPage = 2
  Client = {c1, c2, c3, c4}
  AccountRequest <- MCAccountRequest
  MayAccount <- MCMayAccount
  Missing = Missing
  RestLimit = 2
  Key = {u1, u2, u3}
  SocketLimit = 1
  Length = 2
  MaxEntries = 2
  Every = 4
  MaxChecks = 6
  Conn = {c1}
  Asker = {u1}
  MaxActors = 2
INVARIANTS TypesOK ContiguousSequences AnswersAgree OneAnnouncement EventsFollowTheRoom
  ScrollIsExact OneRoomUnlessTogether ListIsByActivity TokensNameTheirUser RedisLimitHolds LocalLimitHolds
PROPERTIES NotRefusedForEver GhostsExpire WatchersLearn
CHECK_DEADLOCK FALSE
