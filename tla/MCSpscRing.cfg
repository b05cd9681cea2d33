CONSTANTS
  Capacity = 2
  Modulus = 4
  a = a
  b = b
  Values <- MCValues
  Raw = Raw
  Husk = Husk
  Observers = {"producer", "consumer"}
SPECIFICATION Spec
INVARIANTS
  TypeOK
  LifetimesDisjoint
  LiveExactlyOccupied
  SizeWithinCapacity
PROPERTY RefinesFifo
