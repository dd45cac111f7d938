SPECIFICATION Spec
CONSTANTS
  Tasks = {1, 2}
  c1 = c1
  c2 = c2
  Clicks = {c1, c2}
  Faults = {"crash", "full"}
  MaxSequence = 6
  MaxConfigs = 2
  MaxRefusals = 1
  MaxRestarts = 1
SYMMETRY ClickSymmetry
INVARIANT PublishedIsDurable
INVARIANT OnlyATornSnapshotLosesATask
INVARIANT PendingConfigHasAReason
PROPERTY PolicyFrozenWhileActive
\* The bounds on clicks, events and restarts end every behaviour.
CHECK_DEADLOCK FALSE
