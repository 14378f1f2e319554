SPECIFICATION Spec
CONSTANTS
  Workers = {w1}
  Reconcilers = {r1}
  MaxVersion = 2
  Copy <- Renamed
  MayAge = FALSE
  OnEdit = "repair"
  OnDelete = "repair"
  MaxAttempts = 2
  MaxQueue = 2
  MaxGen = 3
  Faults = {"refused", "rejected", "auth", "lost", "applied", "died"}
  MaxFaults = 1
  MaxTouches = 1
  MaxPauses = 0
  MaxOutages = 1
  NoWorker = NoWorker
INVARIANTS ConvergedIsTrue NoCopyLeftBehind MarkersMatch
PROPERTIES WritesAreCurrent ForeignIsSafe
CHECK_DEADLOCK FALSE
