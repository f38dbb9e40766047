\* Every fault, files that come and go.
SPECIFICATION FairSpec
CONSTANTS
  None = None
  prefixed = prefixed
  plain = plain
  nested = nested
  namesake = namesake
  root = root
  sub = sub
  deep = deep
  Files <- AllFiles
  Dirs <- AllDirs
  Root = root
  Below <- Tree
  Dir <- Places
  Path <- Paths
  Slot <- Targets
  Renames <- Prefixed
  Wanted <- AllFiles
  Size <- Sizes
  RemoveDirs = TRUE
  MaxEvents = 3
  Env <- EnvKinds
INVARIANT TypeOK
PROPERTIES ReplacesWhatIsListed MovedIsThere RemovesOnlyMoved Drained
