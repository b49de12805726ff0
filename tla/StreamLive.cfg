SPECIFICATION LiveSpec
CONSTANTS
  Modes <- BothModes
  Resubscribes = FALSE
  InitMax = 1
  OutputMax = 2
  OutMax = 1
  Topics <- AnyTopic
  MaxChan = 1
  MaxRepeats = 1
  MaxBreaks = 1
  MaxFailures = 0
  MaxOther = 0
  MaxRequests = 1
PROPERTIES SubscriberCatchesUp FailedSessionLeaves
CHECK_DEADLOCK FALSE
