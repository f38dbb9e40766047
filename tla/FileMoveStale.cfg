\* One listing that is out of date, and no other fault.
SPECIFICATION Spec
CONSTANTS
  None = None
  prefixed = prefixed
  plain = plain
  nested = nested
  namesake = namesake
  root = root
  sub = sub
  deep = deep
  Files <- AllFiles
  Dirs <- AllDirs
  Root = root
  Below <- Tree
  Dir <- Places
  Path <- Paths
  Slot <- Targets
  Renames <- Prefixed
  Wanted <- Large
  Size <- Sizes
  RemoveDirs = TRUE
  MaxEvents = 1
  Env = {"stale"}
PROPERTY Replaces
