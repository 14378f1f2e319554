SPECIFICATION Spec
CONSTANTS
  Windows = 1
  Width = 3
  Count = 1
  Lock = 1
  Policies = {"auto_move", "suggest", "keep_with_warning"}
  Troubles = {"applied", "died", "touch"}
  MaxPasses = 2
  MaxIntent = 2
  MaxGen = 2
  MaxTroubles = 1
  MaxChanges = 1
INVARIANTS TypeOK OneMeeting ConvergedIsTrue
PROPERTIES GivenUpLate
CHECK_DEADLOCK FALSE
