\* Two workers of two file descriptors each; connection numbers wrap around.
CONSTANTS
  Workers = {w1, w2}
  reuse_port = 0
  Conids = 3
  MaxFds = 2
  Resets = TRUE
  MaxClients = 5
SPECIFICATION FairSpec
INVARIANT TypeOK
INVARIANT IdsFarApart
PROPERTY ClientsServed
CHECK_DEADLOCK FALSE
