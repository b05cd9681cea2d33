SPECIFICATION Spec
CONSTANTS
  Names <- MCNames
  Events <- MCEvents
  Atoms <- MCAtoms
  Jobs <- MCFactored
  FusedName <- MCFusedName
PROPERTY RefinesSource
