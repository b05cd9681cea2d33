CONSTANTS
  main = main
  other = other
  worker = worker
  none = none
  s0 = s0
  s1 = s1
  Clients <- MCClients
  Controllers <- MCControllers
  Worker = worker
  None = none
  States <- MCOneState
  InitialState = s0
  MaxTasks = 1
  CallKinds <- MCEventKinds
  StepsSend = FALSE
SPECIFICATION Spec
INVARIANT NoRestartRace
\* The program may end: see StartThread.
CHECK_DEADLOCK FALSE
