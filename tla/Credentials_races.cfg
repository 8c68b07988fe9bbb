SPECIFICATION Spec
CONSTANTS
  a1 = a1  a2 = a2  r1 = r1  r2 = r2
  Addresses = {a1, a2}
  Requests = {r1, r2}
  Scenarios <- MCScenarios
  MaxAsks = 4
SYMMETRY Symmetry
INVARIANTS LinkServesOnce
PROPERTIES PasswordEndsSessions HandoffNeedsKey
CHECK_DEADLOCK FALSE
