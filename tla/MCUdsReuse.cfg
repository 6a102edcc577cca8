CONSTANTS
  MaxFd = 2
  Room = 2
  QueueMax = 1
  Cap = 1
  Reuse = TRUE
SPECIFICATION StreamSpec
INVARIANT OwnersExact
