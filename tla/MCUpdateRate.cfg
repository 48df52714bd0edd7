SPECIFICATION Spec
CONSTANTS
  Checkers = {"p1"}
  Versions <- MCVersions
  NotAVersion = NotAVersion
  Overflow = Overflow
  Nothing = Nothing
  Lifetime = 2
  RequestTime = 1
  MaxTime = 4
  MaxSetBack = 0
INVARIANT AskedOncePerLifetime
CHECK_DEADLOCK FALSE
