\* Two handlers, six requests, crashes at any point.
SPECIFICATION Spec
CONSTANTS
  p1 = p1
  p2 = p2
  strm = strm
  sync = sync
  alissync = alissync
  None = None
  Procs <- MCProcs
  Types <- MCTypes
  OldType = alissync
  NewType = sync
  Backups <- MCBackups
  Legacy <- MCTypes
  Migrations = 4
  ConfigsFrom = 2
  UsersFrom = 3
  MaxVersion = 1
  MaxUsers = 3
  WebToken = TRUE
  Threshold = 2
  MaxOps = 6
SYMMETRY Symmetry
INVARIANT TypeOK
INVARIANT MigratedOnce
INVARIANT TriesBounded
PROPERTY OneBootstrap
PROPERTY LastAdminStays
PROPERTY AllOrNothing
