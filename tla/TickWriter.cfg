SPECIFICATION FairSpec
CONSTANTS
  A = A
  B = B
  P = P
  Q = Q
  Symbol = {A, B}
  Partition = {P, Q}
  PartitionOf <- OneEach
  Malformed = Malformed
  Times = {1}
  MaxLog = 2
  MaxSeq = 2
  MaxMalformed = 1
  BatchMax = 3
  MaxHalts = 2
INVARIANTS
  ReplayInv
  NoLostTick
  StoredInOrder
  BoundedReplay
PROPERTIES
  ImplementsCommittedConsumer
  EventuallyStored
  StopTerminates
