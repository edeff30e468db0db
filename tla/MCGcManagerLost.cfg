CONSTANTS
  k1 = k1
  k2 = k2
  k3 = k3
  k4 = k4
  a1 = a1
  a2 = a2
  b1 = b1
  b2 = b2
  c1 = c1
  c2 = c2
  A = A
  B = B
  C = C
  SegNum = 4
  SegSize = 5
  SegHeader = 1
  SEG_RESERVED_FOR_GC = 1
  Word = 256
  Keys = {k1, k2, k3, k4}
  Writes = {a1, a2, b1, b2, c1, c2}
  Batches = {A, B, C}
  KeyOf <- SameKey
  Deletes = {c1}
  Items <- Pairs
  Reaped = {C}
  Readers = {}
  NoEntry = none
  Thld = 4
  Overlap = TRUE
  WriteMayFail = FALSE
  MaxMerges = 1
SPECIFICATION Spec
INVARIANTS
  LatestVisible
CHECK_DEADLOCK FALSE
