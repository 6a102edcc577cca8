CONSTANTS
  Programs <- AllPrograms
  Packets <- MCPackets
  ByteSize = 2
  WordBits = 4
  MemWords = 2
  BitOp <- MCBitOp
SPECIFICATION CbpfSpec
INVARIANTS
  FetchInBounds
  OperandsInBounds
  CodesAgree
PROPERTIES
  ForwardOnly
  Terminates
CHECK_DEADLOCK FALSE
