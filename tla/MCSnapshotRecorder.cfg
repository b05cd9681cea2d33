CONSTANTS
  Capacity = 2
  MaxSnapshotSize = 17
  Images = {"a", "c"}
  InitialImage = "a"
  Tags = {1, 2}
  Path <- MCPath
  HistoryCapacity = 2
  Width <- EvenWidth
  RestWidth = 1
  Garbage = "garbage"
  None = "none"
  MaxRecords = 3
SPECIFICATION Spec
INVARIANT HistoryAsLived
PROPERTY RefinesStack
