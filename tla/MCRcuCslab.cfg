CONSTANTS
  Capacity = 2
  Items = {v1, v2, v3}
  Handles = {h1, h2}
  MaxGen = 2
SPECIFICATION RcuSpec
SYMMETRY RcuSymmetry
INVARIANTS
  FreelistExact
  CountersExact
  FlagsSound
  RcuTypeOK
  RefsValid
  CreationOrder
  GenerationBlind
  RemovalsTracked
  NoStragglers
  NothingLeaked
  IterExact
  ProxiesPresent
  EntryReserved
  DropExact
PROPERTY ImplementsGracePeriod
