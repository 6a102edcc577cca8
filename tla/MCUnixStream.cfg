CONSTANTS
  MaxFd = 2
  Room = 2
  QueueMax = 2
  Cap = 1
  Reuse = FALSE
SPECIFICATION StreamSpec
INVARIANT OwnersExact
PROPERTY RecvReturns
