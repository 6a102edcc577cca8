CONSTANTS
  Objs = {o1, o2, o3, o4}
  Users = {u1, u2}
  NoObj = NoObj
  Slots = {k1, k2}
  NoKey = NoKey
SPECIFICATION GuardedSpec
INVARIANT EntryValid
PROPERTY RemovedRecycled
