CONSTANTS
  ka = ka
  kb = kb
  Keys = {ka, kb}
  HtSize = 2
  SlotOf <- OwnSlots
  Segs = {s1, s2, s3}
  SegCap = 2
  MaxVer = 2
SPECIFICATION Spec
SYMMETRY Symmetry
INVARIANTS
  Consistent
  RefusedOnlyAfter
PROPERTIES
  IsDurableMap
CHECK_DEADLOCK FALSE
