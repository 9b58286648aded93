\* Workers die, fork() fails, and exceptions leave the RunLoop() of workers.
CONSTANTS
  process = 2
  MaxPids = 5
  ForkFails = TRUE
  Throws = TRUE
  MaxDeaths = 2
SPECIFICATION FairSpec
INVARIANT TypeOK
INVARIANT NoneForgotten
INVARIANT ForkTreeBounded
PROPERTY Restored
PROPERTY ZombiesReaped
CHECK_DEADLOCK FALSE
