CONSTANTS
  Data = {d1, d2}
  NoData = NoData
  Sizes = {1, 3, 5}
  Alignment = 2
  DefaultSize = 4
  Fences = {f1, f2}
SPECIFICATION FairSpec
INVARIANTS StagedDataIntact BatchesTracked
PROPERTIES DrainMeansDone DrainEnds
CHECK_DEADLOCK FALSE
