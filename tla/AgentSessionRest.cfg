SPECIFICATION FairSpec
CONSTANTS
  NoIntent = NoIntent
  c1 = c1
  c2 = c2
  Plans <- ReviewPlan
  Contents = {c1}
  MaxSteps = 2
  MaxReads = 8
  MaxErrors = 1
  MaxRepeats = 1
  OfferedKinds = {"tool", "review", "sensitive"}
  Prechecks = {}
  TurnResults = {"continue", "verify"}
  BundleSizes = {1, 2}
  Faults = {}
  UserControls = {"pause", "cancel", "resume"}
  DirectAnswers = {FALSE}
  MaxResuming = 1
  MaxRestarts = 1
INVARIANT InertWhenStopped
INVARIANT RestsOnlyWhereItCanBeWoken
INVARIANT AwaitedApprovalIsOpen
PROPERTY ComesToRest
PROPERTY CancelSettles
\* A settled task, or one that only waits for its user, makes no step.
CHECK_DEADLOCK FALSE
