SPECIFICATION FairSpec
CONSTANTS
  a = a  b = b  c = c
  k1 = k1  k2 = k2  k3 = k3  k4 = k4  k5 = k5  k6 = k6
  r1 = r1  r2 = r2  w1 = w1  NoUser = NoUser
  Users = {a, b, c}
  Owners = {a, b}
  Keys = {k1, k2, k3, k4, k5, k6}
  FirstKeys <- MCFirstKeys
  Requests = {r1, r2}
  Workers = {w1}
  Asks <- MCAsks
  MaxSends = 2
INVARIANTS OwnerRemains WritesWhileActive RotatedOnce
PROPERTIES RequestsEnd DueIsPurged
CHECK_DEADLOCK FALSE
