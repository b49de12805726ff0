SPECIFICATION HistorySpec
CONSTANTS
  A = A
  P = P
  Symbol = {A}
  Partition = {P}
  PartitionOf <- JustOne
  Malformed = Malformed
  Times = {1, 2}
  MaxSeq = 2
  MaxLog = 3
  MaxMalformed = 0
  BatchMax = 1
  MaxHalts = 1
  R1 = R1
  R2 = R2
  Request = {R1, R2}
  Param <- Asked
  Absent = Absent
  NotANumber = NotANumber
  NotATime = NotATime
  Failures = {503}
  DefaultLimit = 1
  MaxHistoryLimit = 2
INVARIANTS
  HistoryInv
  AnswerIsTopicCut
  NeverWithdrawn
  PagesContinue
  CommittedIsVisible
SYMMETRY Alike
CHECK_DEADLOCK FALSE
