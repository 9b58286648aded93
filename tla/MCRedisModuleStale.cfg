\* One connection; its second request gets a reply to the first.
CONSTANTS
  Conns = {1}
  config_size = 1
  OrderCap = 2
  ReplyCap = 4
  MaxTxn = 2
SPECIFICATION Spec
INVARIANT OwnReplies
CHECK_DEADLOCK FALSE
