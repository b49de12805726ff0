SPECIFICATION FedSpec
CONSTANTS
  A = A
  P = P
  Symbol = {A}
  Partition = {P}
  PartitionOf <- JustOne
  Malformed = Malformed
  Times = {1}
  MaxLog = 3
  MaxSeq = 1
  MaxMalformed = 0
  MaxSending = 1
  MaxFeedRuns = 2
  QueueMax = 1
  MaxHalts = 1
PROPERTIES
  EventuallyProcessed
  EventuallyCommitted
  StopEndsThread
  ShutdownEndsRetry
