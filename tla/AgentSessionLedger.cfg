SPECIFICATION Spec
CONSTANTS
  NoIntent = NoIntent
  c1 = c1
  c2 = c2
  Plans <- MixedPlans
  Contents = {c1, c2}
  MaxSteps = 2
  MaxReads = 2
  MaxErrors = 1
  MaxRepeats = 1
  OfferedKinds = {"tool", "shell", "denied", "fatal", "read", "broken"}
  Prechecks = {}
  TurnResults = {"continue", "verify"}
  BundleSizes = {1}
  Faults = {"observation", "invalid_result"}
  UserControls = {"cancel"}
  DirectAnswers = {FALSE}
  MaxResuming = 1
  MaxRestarts = 0
INVARIANT FailedCheckNeverPasses
PROPERTY ImplementsLedger
\* A settled task, or one that only waits for its user, makes no step.
CHECK_DEADLOCK FALSE
