CONSTANTS
  ka = ka
  kb = kb
  v1 = v1
  v2 = v2
  c1 = c1
  c2 = c2
  Keys = {ka, kb}
  Values = {v1, v2, Empty}
  Footprint <- Digest
  CacheSize = 2
  Percent = 50
  DefaultSize = 3
  Policies = {"LRU", "SLRU"}
  Clients = {c1, c2}
  Empty = Empty
  NotFound = NotFound
  NoResult = NoResult
  MaxWrites = 2
  MaxBatch = 2
SPECIFICATION Spec
SYMMETRY Symmetry
INVARIANTS
  Consistent
  HitIsLastPut
  WrittenOnceReadsRight
