CONSTANTS
  ka = ka
  kb = kb
  Keys = {ka, kb}
  HtSize = 2
  SlotOf <- OwnSlots
  Segs = {s1, s2, s3}
  SegCap = 2
  MaxVer = 2
SPECIFICATION Spec
ACTION_CONSTRAINT OnlyClosings
SYMMETRY Symmetry
INVARIANT
  ClosedReopens
CHECK_DEADLOCK FALSE
