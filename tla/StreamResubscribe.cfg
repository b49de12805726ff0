SPECIFICATION Spec
CONSTANTS
  Modes <- JustRaw
  Resubscribes = TRUE
  InitMax = 1
  OutputMax = 2
  OutMax = 2
  Topics <- JustOnce
  MaxChan = 2
  MaxRepeats = 0
  MaxBreaks = 0
  MaxFailures = 0
  MaxOther = 0
  MaxRequests = 2
INVARIANTS NoStaleIncremental
CHECK_DEADLOCK FALSE
