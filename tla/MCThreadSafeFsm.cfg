CONSTANTS
  main = main
  other = other
  worker = worker
  none = none
  s0 = s0
  s1 = s1
  Clients <- MCClients
  Controllers <- MCControllers
  Worker = worker
  None = none
  States <- MCStates
  InitialState = s0
  MaxTasks = 2
  CallKinds <- MCAllKinds
  StepsSend = FALSE
SPECIFICATION FairSpec
INVARIANTS
  TypeOK
  OneDispatcher
  EachEventOnce
PROPERTIES
  StopDrains
  Answered
  CallsReturn
\* The program may end: see StartThread.
CHECK_DEADLOCK FALSE
