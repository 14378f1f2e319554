SPECIFICATION FairSpec
CONSTANTS
  Windows = 2
  Width = 2
  Count = 2
  Lock = 1
  Policies = {"auto_move"}
  Troubles = {"refused", "rejected", "touch", "outage", "pause"}
  MaxPasses = 1
  MaxIntent = 2
  MaxGen = 2
  MaxTroubles = 1
  MaxChanges = 0
INVARIANTS RemovalCleansUp
PROPERTIES RemovalCompletes IntentsSettle
CHECK_DEADLOCK FALSE
