CONSTANTS
  n1 = n1
  n2 = n2
  n3 = n3
  Nodes <- MCNodes
  Root = n1
  Graphs <- MCGraphs
  Asked <- MCAsked
  None = None
SPECIFICATION Spec
INVARIANTS
  TypeOK
  ReachableExact
  VerdictSound
  NoFalseAlarm
  SatExact
  CounterexampleReal
PROPERTY Answers
