SPECIFICATION Spec
CONSTANTS
  A = A
  B = B
  P = P
  Q = Q
  Symbol = {A, B}
  Partition = {P, Q}
  PartitionOf <- OneEach
  Malformed = Malformed
  Times = {1}
  MaxLog = 2
  MaxSeq = 2
  MaxMalformed = 1
  QueueMax = 1
  MaxHalts = 2
SYMMETRY Mirror
INVARIANTS
  CommitSafe
  BoundedInFlight
  FlightInv
PROPERTIES
  SnapshotCoversPublish
  RegressionOnlyByReplay
  ImplementsCommittedConsumer
