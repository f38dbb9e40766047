\* The queue is drained before a run: every fault but an unknown size.
SPECIFICATION Spec
CONSTANTS
  f1 = f1
  f2 = f2
  Files <- OneFile
  MaxRuns = 2
  MaxTasks = 4
  MaxAttempts = 3
  MissLimit = 2
  DeleteSrc = TRUE
  Overwrite = "if_newer"
  Dated = TRUE
  SameSize <- NoFiles
  Contains <- Exact
  Orderly = TRUE
  Env <- AllButSize
INVARIANTS TypeOK NoLoss OneOwner FailedIsTracked DeadLetterExact
PROPERTY CountsUp
