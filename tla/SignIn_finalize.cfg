SPECIFICATION Spec
CONSTANTS
  e1 = e1  e2 = e2  c1 = c1  c2 = c2  r1 = r1  r2 = r2  NoOne = NoOne
  Emails = {e1}
  Codes = {c1, c2}
  Requests = {r1, r2}
  SendCap = 2
  OtpCap = 2
  Scenarios <- MCViolations
SYMMETRY Symmetry
INVARIANT FinalizeIsAtomic
CHECK_DEADLOCK FALSE
