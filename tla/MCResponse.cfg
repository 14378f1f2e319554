SPECIFICATION Spec
CONSTANTS
  Invitations = {1, 2}
  Rules = {1}
  Touched = {1}
  Unrevised = {}
  Start <- MCStart
  Budget = 1
  Window = 0
  Passes = {"p"}
  Workers = {"v"}
  MaxTime = 1
  MaxRevision = 2
  MaxBusy = 1
INVARIANTS WithinBudget ApplyKeepsItsGround AppliedIsAnswered
PROPERTIES DeclinesAsMirrored
