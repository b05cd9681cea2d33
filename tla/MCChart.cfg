CONSTANTS
  StateOrder <- MCStateOrder
  Parent <- MCParent
  InitialSub <- MCInitialSub
  Shallow = {}
  Deep = {"P"}
  Transitions <- MCTransitions
  States <- MCStates
  Within <- MCWithin
  InitialState = "out"
  NoState = "none"
  Events = {"next", "stop", "resume"}
  TimedEvents = {"after2", "after3", "every2"}
  Delay <- MCDelay
  Periodic = {"every2"}
  Anonymous = "anonymous"
  Rows <- MCRows
  Defers <- MCDefers
  DeferredCapacity = 2
  MaxStay <- MCMaxStay
  Deltas = {1, 2}
  MaxResidence = 3
SPECIFICATION Spec
INVARIANTS
  TypeOK
  ActiveConfiguration
  TimersMatchState
  HistoryLeadsBack
  ViolationIsOverstay
  EntryAsDeclared
PROPERTIES
  NoStaleTimeout
  RunToCompletion
