SPECIFICATION Spec
CONSTANTS
  Names <- MCNames
  Events <- MCEvents
  Atoms <- MCAtoms
  Jobs <- MCJobs
  FusedName <- MCFusedName
INVARIANTS TypeOK EmittedFlat
PROPERTIES ComesToAnEnd RefinesSource
