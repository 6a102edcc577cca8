CONSTANTS
  Objs = {o1, o2, o3, o4}
  NoObj = NoObj
  Readers = {r1, r2}
  Writers = {w1, w2}
  Nobody = Nobody
SPECIFICATION LockSpec
INVARIANTS
  CountsExact
PROPERTIES
  LockImplements
  OldValueGoes
