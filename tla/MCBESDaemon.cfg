CONSTANTS
  MaxStarts = 3
  MaxSignals = 2
  MaxCommands = 2
  QuietSignals = TRUE
SPECIFICATION FairSpec
INVARIANTS Consistent NoOrphans
PROPERTIES TermStops HandlersReturn
CHECK_DEADLOCK FALSE
