SPECIFICATION FairSpec
CONSTANTS
  k1 = k1  k2 = k2  k3 = k3  i1 = i1  i2 = i2  sA = sA  sB = sB  b1 = b1  b2 = b2
  b3 = b3  r1 = r1  r2 = r2
  NoIk = NoIk
  NoSid = NoSid
  Keys = {k1, k2, k3}
  OwnerOf <- MCOneOfTwo
  Requests = {r1, r2}
  Sids = {sA, sB}
  Sends <- MCContended
  GuardsExpire = TRUE
  MaxSends = 3
INVARIANTS ProcessedOnce OneActivePerDevice
PROPERTIES RequestsEnd
CHECK_DEADLOCK FALSE
