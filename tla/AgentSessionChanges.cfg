SPECIFICATION Spec
CONSTANTS
  NoIntent = NoIntent
  c1 = c1
  c2 = c2
  Plans <- OpenPlans
  Contents = {c1}
  MaxSteps = 2
  MaxReads = 2
  MaxErrors = 1
  MaxRepeats = 1
  OfferedKinds = {"tool"}
  Prechecks = {TRUE}
  TurnResults = {"continue", "need_user", "verify", "blocked"}
  BundleSizes = {1}
  Faults = {"capability_expired", "deadline", "session_mismatch", "turn_error", "context_exhausted"}
  UserControls = {"pause", "cancel", "resume"}
  DirectAnswers = {FALSE}
  MaxResuming = 2
  MaxRestarts = 1
INVARIANT TypeOK
PROPERTY TerminalIsFinal
INVARIANT ChangesRunOnce
INVARIANT StartedChangeIsRecorded
INVARIANT PendingChangeIsOwed
INVARIANT CompleteImpliesVerified
PROPERTY ChangesAreAuthorized
\* A settled task, or one that only waits for its user, makes no step.
CHECK_DEADLOCK FALSE
