SPECIFICATION FairSpec
CONSTANTS
  Tasks = {t1, t2}
  Logins = {l1}
  User = user
  MaxTurns = 2
  MaxServers = 2
INVARIANT RunningTurnKeepsItsSession
INVARIANT AuthorizingHasALogin
PROPERTY TurnsSettle
CHECK_DEADLOCK FALSE
