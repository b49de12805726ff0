SPECIFICATION FairSpec
CONSTANTS
  Prices = {0, 2, 3, 4}
  Filters <- Half
  Policies = {"drop_oldest", "disconnect"}
  OutMax = 2
  DropLimit = 2
  SampleMax = 3
  Latencies = {1, 2}
  MaxOffered = 4
CHECK_DEADLOCK FALSE
INVARIANTS
  SessionInv
  WithinBand
  PercentilesReported
PROPERTIES
  SlowClientStops
  QueueDrains
