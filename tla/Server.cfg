SPECIFICATION Spec
CONSTANTS
  l1 = l1  d1 = d1  w1 = w1  w2 = w2  r1 = r1  r2 = r2  p1 = p1  p2 = p2
  Links = {l1}
  Codes = {d1}
  Sweepers = {w1, w2}
  MaxAttempts = 2
  MaxFaults = 1
  Pushes = {r1, r2}
  Processes = {p1, p2}
  Asks <- MCAsks
  Limited = TRUE
  DeviceLimit = 2
  MaxAsked = 4
  Nil = Nil
  Uploads = {r1, r2}
  Batches <- MCBatches
  AllowLists <- MCLists
  Values <- MCValues
  Owners = {"ann"}
  MaxUploads = 3
  Fallible = {"update"}
  Callers = {r1, r2}
  Calls <- MCCalls
  Limit <- MCLimit
  Proxies = {"lb"}
  Window = 2
  PruneEvery = 3
  MaxTime = 6
  MaxCalls = 4
SYMMETRY Symmetry
INVARIANTS SchemaBeforeUse DeviceLimitHolds SecondDeviceSeen
  EntriesKeepTheirFile AllowListHolds CardsKeepRepos WindowHolds
PROPERTIES MailIsWanted LinkMailsEnd
CHECK_DEADLOCK FALSE
