CONSTANTS
  Capacity = 2
  MaxSnapshotSize = 21
  Images = {"a", "c"}
  InitialImage = "a"
  Tags = {1, 2}
  Path <- MCPath
  HistoryCapacity = 2
  Width <- UnevenWidth
  RestWidth = 1
  Garbage = "garbage"
  None = "none"
  MaxRecords = 3
SPECIFICATION InPlaceSpec
INVARIANT HistoryAsLived
