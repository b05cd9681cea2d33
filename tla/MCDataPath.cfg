CONSTANTS
  x = x
  y = y
  p = p
  Inf = Inf
  None = None
  Skip = Skip
  States = {1, 2, 3}
  Root = 1
  Events = {"a", "b"}
  Vars <- MCVars
  MaxIterations = 200
  Sources <- MCSources
  Values <- MCValues
  Atoms <- MCAtoms
SPECIFICATION Spec
INVARIANTS
  IntervalsSound
  SameBehaviour
  CutOffOnlyUnbounded
