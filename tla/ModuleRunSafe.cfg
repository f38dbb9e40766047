\* Runs, reloads, edits and restarts, with one fault.
SPECIFICATION Spec
CONSTANTS
  m1 = m1
  r1 = r1
  r2 = r2
  q1 = q1
  q2 = q2
  v1 = v1
  None = None
  Modules <- OneModule
  OnStart <- OneModule
  Slots <- TwoSlots
  Requests <- TwoRequests
  Versions <- OneVersion
  MaxFaults = 1
  Restarts = TRUE
INVARIANTS TypeOK LocksExact Applied NoOldCron RowsExact
PROPERTY OneAtATime
SYMMETRY Sym
