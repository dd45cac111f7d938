SPECIFICATION FairSpec
CONSTANTS
  Commands = {c1, c2}
  Flaky = {c1}
  Slots = {s1, s2}
  MaxTasks = 1
  MaxRequests = 2
INVARIANT CompletedCommandHasEnded
PROPERTY OnlyACancellationOverturns
PROPERTY EndedTasksAreCleanedUp
CHECK_DEADLOCK FALSE
