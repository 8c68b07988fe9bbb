SPECIFICATION FairSpec
CONSTANTS
  p1 = p1  p2 = p2  r1 = r1  u1 = u1  u2 = u2
  i1 = i1  i2 = i2  s1 = s1  s2 = s2
  Pushers = {p1, p2}
  Readers = {r1}
  Users = {u1, u2}
  UserOf <- MCUserOf
  Scope <- MCScopeAll
  Ids = {i1, i2}
  Shas = {s1, s2}
  Batches <- MCCrossing
  MaxBatch = 2
  MaxRejected = 0
  FailureCap = 1
  PageLimit = 1
  Retention = FALSE
  RetentionBatch = 1
  MaxPushes = 2
INVARIANTS TruthfulReply AcceptedOnce
PROPERTIES PushEnds Converges
CHECK_DEADLOCK FALSE
