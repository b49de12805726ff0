SPECIFICATION FairSpec
CONSTANTS
  A = A
  B = B
  P = P
  Q = Q
  Symbol = {A, B}
  Partition = {P}
  PartitionOf <- Both
  Malformed = Malformed
  Times = {1}
  MaxLog = 3
  MaxSeq = 1
  MaxMalformed = 1
  QueueMax = 1
  MaxHalts = 0
PROPERTY
  EventuallyCommitted
