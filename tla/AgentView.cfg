SPECIFICATION FairSpec
CONSTANTS
  MaxEvents = 4
  MaxControls = 3
  MaxFaults = 1
INVARIANT ViewIsAMomentOfTheTask
INVARIANT QuietViewIsExact
PROPERTY ViewNeverGoesBack
PROPERTY ControlReturns
\* The bounds on events and calls end every behaviour.
CHECK_DEADLOCK FALSE
