CONSTANTS
  SegNum = 5
  SegSize = 2
  SegHeader = 1
  SEG_RESERVED_FOR_GC = 2
  Word = 256
  Writers = {w1, w2}
  BackThread = bg
  NoThread = none
SYMMETRY Symmetry
SPECIFICATION Spec
INVARIANTS
  TypeOK
  CountersAgree
  ReservedIsHeld
  MergeOwnsCandidates
  ReserveShrinksByRaces
  ReserveSuffices
CHECK_DEADLOCK FALSE
