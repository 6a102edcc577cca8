CONSTANTS
  Slots = {0, 1}
  Readers = {r1, r2}
  BITS = 2
  MaxTime = 14
SPECIFICATION MemSpec
SYMMETRY ReaderSymmetry
INVARIANTS
  NoRacyRead
  FrontierCoversGot
  StaleFlagsBounded
