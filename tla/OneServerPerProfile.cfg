SPECIFICATION Spec
CONSTANTS
  Tasks = {t1, t2}
  Logins = {l1}
  User = user
  MaxTurns = 1
  MaxServers = 2
INVARIANT OneServerPerProfile
CHECK_DEADLOCK FALSE
