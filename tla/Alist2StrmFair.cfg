\* Faults that end: the local tree follows the remote one.
SPECIFICATION FairSpec
CONSTANTS
  video = video
  subtitle = subtitle
  part1 = part1
  part2 = part2
  Files <- AllFiles
  Sub <- SubFiles
  Disc <- Parts
  Rank <- Sizes
  Detail <- WithVideo
  Direct <- None
  Loads <- Subtitles
  Ignored <- None
  ScanMode = "incremental"
  Overwrite = FALSE
  SyncServer = TRUE
  MaxEvents = 3
  Env <- Settling
INVARIANT SnapshotHonest
PROPERTY Converges
