SPECIFICATION Spec
CONSTANTS
  Workers = {w1, w2}
  Reconcilers = {r1}
  MaxVersion = 1
  Copy <- Single
  MayAge = TRUE
  OnEdit = "hold"
  OnDelete = "hold"
  MaxAttempts = 2
  MaxQueue = 2
  MaxGen = 2
  Faults = {"stall", "died"}
  MaxFaults = 1
  MaxTouches = 1
  MaxPauses = 1
  MaxOutages = 0
  NoWorker = NoWorker
SYMMETRY WorkerSymmetry
INVARIANTS TypeOK HoldWaits
PROPERTIES DetachedIsFinal PauseIsBoundary
CHECK_DEADLOCK FALSE
