SPECIFICATION FairSpec
CONSTANTS
  Jobs = {j1, j2}
  Keys = {sync, window}
  OnceKeys = {window}
  Owners = {w1, w2}
  MayCrash = {w2}
  MaxAttempts = 2
  AttemptCap = 2
  NoKey = NoKey
  NoOwner = NoOwner
  NoJob = NoJob
INVARIANTS TypeOK OneLivePerKey WindowRunsOnce AttemptIsCurrent LeaseHasRunner
PROPERTIES OutcomeFromHolder ImplementsContract JobsSettle
