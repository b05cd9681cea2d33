CONSTANTS
  main = main
  other = other
  worker = worker
  none = none
  s0 = s0
  s1 = s1
  Clients <- MCClients
  Controllers <- MCControllers
  Worker = worker
  None = none
  States <- MCOneState
  InitialState = s0
  MaxTasks = 3
  CallKinds <- MCEventKinds
  StepsSend = FALSE
SPECIFICATION FairSpec
INVARIANTS
  EachEventOnce
PROPERTIES
  Answered
\* The program may end: see StartThread.
CHECK_DEADLOCK FALSE
