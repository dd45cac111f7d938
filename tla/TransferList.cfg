SPECIFICATION FairSpec
CONSTANTS
  t1 = t1
  t2 = t2
  Transfers = {t1, t2}
  Given = {t1}
  Batch <- OneBatch
  MaxTransport = 1
  McpPolicies = {"renameAll"}
  MaxClicks = 1
INVARIANT CopiesAsAnswered
INVARIANT SlotsRespected
PROPERTY TransfersLeave
CHECK_DEADLOCK FALSE
