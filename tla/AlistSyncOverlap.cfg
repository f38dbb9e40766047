\* A second run while a task of the first waits for its retry.
SPECIFICATION Spec
CONSTANTS
  f1 = f1
  f2 = f2
  Files <- OneFile
  MaxRuns = 2
  MaxTasks = 3
  MaxAttempts = 2
  MissLimit = 2
  DeleteSrc = TRUE
  Overwrite = "if_newer"
  Dated = TRUE
  SameSize <- NoFiles
  Contains <- Exact
  Orderly = FALSE
  Env <- OnlyCopyFail
INVARIANT NoLoss
