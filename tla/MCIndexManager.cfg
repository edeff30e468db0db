CONSTANTS
  u1 = u1
  u2 = u2
  u3 = u3
  u4 = u4
  u5 = u5
  u6 = u6
  u7 = u7
  ka = ka
  kb = kb
  kc = kc
  s1 = s1
  s2 = s2
  s3 = s3
  Keys = {ka, kb, kc}
  Segments = {s1, s2, s3}
  Updates = {u1, u2, u3, u4, u5, u6, u7}
  NoUpdate = none
  KeyOf <- MixKey
  SlotOf <- TwoSlots
  SegOf <- MixSeg
  StampOf <- MixStamp
  SizeOf <- MixSize
  Deletes = {u2, u5}
  Reaped = {u2, u5}
  HeaderSize = 2
  htSize = 2
  Word = 64
SPECIFICATION IterSpec
CHECK_DEADLOCK FALSE
INVARIANTS
  EveryKeyOnce
  CounterIsExact
  Consistent
  TheoryIsExact
  TableHoldsEntries
