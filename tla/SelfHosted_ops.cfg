SPECIFICATION Spec
CONSTANTS
  admin = admin  timer = timer  s1 = s1  s2 = s2
  Shells = {admin}
  Timers = {timer}
  Setups = {s1, s2}
  MaxRev = 2
  Linking = {2}
  Old = 2
  MinKeep = 2
  MaxBackups = 4
  MaxCommands = 2
  MaxMishaps = 1
SYMMETRY Symmetry
INVARIANTS ServesItsSchema OneFirstAdmin
PROPERTIES BackupsKept
CHECK_DEADLOCK FALSE
