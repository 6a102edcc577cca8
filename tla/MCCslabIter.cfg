CONSTANTS
  Size = 5
  BITS = 2
SPECIFICATION IterSpec
INVARIANTS
  IterTypeOK
  LoadsInBounds
  NothingMissed
  EachOnce
  ExclCount
PROPERTIES
  CallsReturn
