SPECIFICATION FairSpec
CONSTANTS
  Workers = {w1}
  Reconcilers = {r1}
  MaxVersion = 2
  Copy <- Renamed
  MayAge = FALSE
  OnEdit = "repair"
  OnDelete = "repair"
  MaxAttempts = 2
  MaxQueue = 2
  MaxGen = 4
  Faults = {"refused", "applied", "died"}
  MaxFaults = 1
  MaxTouches = 1
  MaxPauses = 0
  MaxOutages = 0
  NoWorker = NoWorker
PROPERTIES Converges
