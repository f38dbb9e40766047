\* Two files of one name, a server that answers: everything ends.
SPECIFICATION FairSpec
CONSTANTS
  f1 = f1
  f2 = f2
  Files <- TwoFiles
  MaxRuns = 1
  MaxTasks = 2
  MaxAttempts = 2
  MissLimit = 1
  DeleteSrc = TRUE
  Overwrite = "if_newer"
  Dated = TRUE
  SameSize <- NoFiles
  Contains <- Confused
  Orderly = TRUE
  Env <- Calm
PROPERTIES WorkerEnds TaskSettles
