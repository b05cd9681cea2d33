CONSTANTS
  QueueCapacity = 2
  w1 = w1
  w2 = w2
  Words <- MCWords
  off = off
  on = on
  States <- MCStates
  InitialState = off
  MaxOps = 2
  SeqModulus = 6
  TickMutates = FALSE
  StoresPassIncrement = FALSE
SPECIFICATION FairSpec
INVARIANTS
  SnapshotLinearizable
  ResetIsBarrier
PROPERTY SnapshotReturns
