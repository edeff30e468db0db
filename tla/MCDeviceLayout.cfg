CONSTANTS
  Page = 4
  SegHeaderSize = 1
  DataHeaderSize = 1
  KeyLens = {1, 2}
  DataLens = {0, 1, 4}
  Word = 64
  SBSize = 4
  TimeSize = 1
  CounterSize = 1
  EntrySize = 2
  StatSize = 1
  Configs <- SmallConfigs
SPECIFICATION Spec
INVARIANTS
  Consistent
  WritesStayInSegment
  PiecesApart
  SlicesFoundAgain
PROPERTIES
  SizingEnds
CHECK_DEADLOCK FALSE
