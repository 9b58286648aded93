\* One connection, which closes before redis has answered.
CONSTANTS
  Conns = {1}
  config_size = 1
  OrderCap = 2
  ReplyCap = 4
  MaxTxn = 1
SPECIFICATION Spec
INVARIANT NoFreedChannel
CHECK_DEADLOCK FALSE
