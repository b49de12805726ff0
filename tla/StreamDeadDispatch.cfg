SPECIFICATION Spec
CONSTANTS
  Modes <- JustRaw
  Resubscribes = FALSE
  InitMax = 1
  OutputMax = 2
  OutMax = 2
  Topics <- JustOnce
  MaxChan = 2
  MaxRepeats = 0
  MaxBreaks = 1
  MaxFailures = 1
  MaxOther = 0
  MaxRequests = 1
INVARIANTS GoneLeavesNothing
CHECK_DEADLOCK FALSE
