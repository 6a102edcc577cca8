CONSTANTS
  Capacity = 1
  Items = {v1, v2}
  Handles = {h1}
  MaxGen = 2
SPECIFICATION RcuFairSpec
PROPERTIES
  GenerationsEnd
  StorageFreed
