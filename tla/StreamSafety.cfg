SPECIFICATION Spec
CONSTANTS
  Modes <- BothModes
  Resubscribes = FALSE
  InitMax = 1
  OutputMax = 2
  OutMax = 1
  Topics <- AnyTopic
  MaxChan = 2
  MaxRepeats = 1
  MaxBreaks = 1
  MaxFailures = 1
  MaxOther = 1
  MaxRequests = 2
INVARIANTS
  StreamTypeOK HandoffInv StreamOrdered RawContiguous HandoffComplete
  GoneUnlessDispatchDied
CHECK_DEADLOCK FALSE
