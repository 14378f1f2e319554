SPECIFICATION FairSpec
CONSTANTS
  Workers = {w1}
  Reconcilers = {r1}
  MaxVersion = 2
  Copy <- Removed
  MayAge = FALSE
  OnEdit = "repair"
  OnDelete = "repair"
  MaxAttempts = 2
  MaxQueue = 2
  MaxGen = 4
  Faults = {"applied"}
  MaxFaults = 1
  MaxTouches = 0
  MaxPauses = 0
  MaxOutages = 0
  NoWorker = NoWorker
PROPERTIES Converges
CHECK_DEADLOCK FALSE
