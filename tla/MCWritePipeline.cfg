CONSTANTS
  r1 = r1
  r2 = r2
  r3 = r3
  ka = ka
  sh1 = sh1
  Keys = {ka}
  Shards = {sh1}
  Reqs = {r1, r2, r3}
  KeyOf <- OneKey
  ShardOf <- OneShard
  Deletes = {r2}
  SegWriters = {w1, w2}
  SegCap = 2
  AllocMayFail = TRUE
  WriteMayFail = TRUE
  TableMayFill = TRUE
  MaxNotifies = 3
  NoReq = none
SPECIFICATION Spec
SYMMETRY Symmetry
INVARIANTS
  Consistent
  LatestVisible
  
  
CHECK_DEADLOCK FALSE
