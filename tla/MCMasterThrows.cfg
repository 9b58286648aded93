\* No worker dies; an exception may leave the RunLoop() of a worker.
CONSTANTS
  process = 2
  MaxPids = 5
  ForkFails = FALSE
  Throws = TRUE
  MaxDeaths = 0
SPECIFICATION Spec
INVARIANT AtMostCpuUsed
CHECK_DEADLOCK FALSE
