SPECIFICATION Spec
CONSTANTS
  Workers = {w1}
  Reconcilers = {r1}
  MaxVersion = 3
  Copy <- Unseen
  MayAge = FALSE
  OnEdit = "repair"
  OnDelete = "repair"
  MaxAttempts = 2
  MaxQueue = 2
  MaxGen = 1
  Faults = {}
  MaxFaults = 0
  MaxTouches = 0
  MaxPauses = 0
  MaxOutages = 0
  NoWorker = NoWorker
INVARIANTS ConvergedIsTrue
CHECK_DEADLOCK FALSE
