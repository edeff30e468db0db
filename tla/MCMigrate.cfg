CONSTANTS
  k1 = k1
  k2 = k2
  a1 = a1
  b1 = b1
  c1 = c1
  A = A
  B = B
  C = C
  SegNum = 3
  SegSize = 5
  SegHeader = 1
  SEG_RESERVED_FOR_GC = 1
  Word = 256
  Keys = {k1, k2}
  Writes = {a1, b1, c1}
  Batches = {A, B, C}
  KeyOf <- Key
  Deletes = {c1}
  Items <- Batch
  Together = {A}
  Reaped = {C}
  volNum = 2
  MediumSegNum <- Sizes
  MediumSegSize = 3
  NoEntry = none
  MaxFailures = 1
  MaxBack = 1
SPECIFICATION FairSpec
INVARIANTS
  Consistent
  ReserveKept
  LatestVisible
  DeathIsExact
  RefusedTriedAll
PROPERTIES
  AllocReturns
CHECK_DEADLOCK FALSE
