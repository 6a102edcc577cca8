CONSTANTS
  MaxFd = 0
  Room = 1
  QueueMax = 1
  Cap = 1
  Reuse = FALSE
SPECIFICATION StreamSpec
PROPERTY SendReturns
