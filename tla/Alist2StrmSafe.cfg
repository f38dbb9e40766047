\* Every fault but a failing FSGet.
SPECIFICATION Spec
CONSTANTS
  video = video
  subtitle = subtitle
  part1 = part1
  part2 = part2
  Files <- AllFiles
  Sub <- SubFiles
  Disc <- Parts
  Rank <- Sizes
  Detail <- Subtitles
  Direct <- Subtitles
  Loads <- Subtitles
  Ignored <- None
  ScanMode = "incremental"
  Overwrite = FALSE
  SyncServer = TRUE
  MaxEvents = 3
  Env <- AllButGet
INVARIANT TypeOK
PROPERTIES DeletesOnlyGone EntriesKept
