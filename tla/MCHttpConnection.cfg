SPECIFICATION FairSpec
CONSTANTS
  iobuf_size = 3
  max_header_size = 3
  max_body_size = 3
  LifeTimer = TRUE
  Requests <- MCRequests
  Window = 6
INVARIANTS
  TypeOK
  NoByteLost
  TimersGuardTransfers
  MemoryBounded
  LimitsHold
PROPERTIES
  TransfersEnd
  LifeEnds
CHECK_DEADLOCK FALSE
