SPECIFICATION FairSpec
CONSTANTS
  restart = restart
  fetch = fetch
  Calls = {restart, fetch}
  Changes = {restart}
  SftpCalls = {fetch}
  Droppable = {fetch}
  Faults = {"server_exit", "session_exit", "send", "refused", "channel_error"}
  MaxExecutes = 2
  MaxReconnects = 1
INVARIANT StartsAtMostOnce
PROPERTY ImplementsRemoteCalls
PROPERTY CallsSettle
\* Every call may be settled and every process gone.
CHECK_DEADLOCK FALSE
