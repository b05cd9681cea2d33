SPECIFICATION Spec
CONSTANTS
  Names <- MCNames
  Events <- MCEvents
  Atoms <- MCAtoms
  Jobs <- MCSharedName
  FusedName <- MCFusedName
PROPERTY RefinesSource
