\* Two connections that share the first of two servers.
CONSTANTS
  Conns = {0, 2}
  config_size = 2
  OrderCap = 2
  ReplyCap = 2
  MaxTxn = 2
SPECIFICATION FairSpec
INVARIANT TypeOK
INVARIANT RepliesInOrder
INVARIANT RepliesMatch
PROPERTY HandlerReturns
CHECK_DEADLOCK FALSE
