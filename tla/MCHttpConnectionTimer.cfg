SPECIFICATION Spec
CONSTANTS
  iobuf_size = 3
  max_header_size = 3
  max_body_size = 3
  LifeTimer = TRUE
  Requests <- MCShortHeaders
  Window = 3
INVARIANT TimerRemovesConnectionOnly
CHECK_DEADLOCK FALSE
