\* Runs end, handlers go on: saved configurations come into force.
SPECIFICATION FairSpec
CONSTANTS
  m1 = m1
  r1 = r1
  r2 = r2
  q1 = q1
  q2 = q2
  v1 = v1
  None = None
  Modules <- OneModule
  OnStart <- OneModule
  Slots <- TwoSlots
  Requests <- OneRequest
  Versions <- OneVersion
  MaxFaults = 1
  Restarts = FALSE
PROPERTIES ConfigApplied LocksReleased
