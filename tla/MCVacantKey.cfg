CONSTANTS
  Capacity = 2
  Items = {v1, v2}
  Handles = {h1, h2}
  MaxGen = 1
SPECIFICATION RcuSpec
INVARIANT VacantKeyHonoured
