-------------------------- MODULE ModuleRunSafety ---------------------------
(***************************************************************************)
(* More theorems about ModuleRun: the running rows and the gauge count the *)
(* live runs, and a configuration that was saved is put in force.          *)
(***************************************************************************)
EXTENDS ModuleRunProofs, FiniteSetTheorems

(***************************************************************************)
(* Rows and gauge.                                                         *)
(***************************************************************************)
Rowed(m)  == {r \in Slots : Working(r, m) /\ runs[r].row}
AtWork    == {r \in Slots : \E m \in Modules : Working(r, m)}
RowInv    == TypeInv /\ RowsExact

LEMMA RowSets ==
  /\ IsFiniteSet(AtWork) /\ Cardinality(AtWork) \in Nat
  /\ \A m \in Modules : IsFiniteSet(Rowed(m)) /\ Cardinality(Rowed(m)) \in Nat
<1>1. AtWork \subseteq Slots /\ \A m \in Modules : Rowed(m) \subseteq Slots
  BY DEF AtWork, Rowed
<1> QED
  BY <1>1, FS_Subset, FS_CardinalityType, SlotsAssumption

\* A step without a fault after which the same runs work.
LEMMA RowFrame ==
  ASSUME RowsExact, faults' = faults, UNCHANGED <<rows, gauge>>,
         \A r \in Slots, m \in Modules : /\ Working(r, m)' <=> Working(r, m)
                                         /\ Working(r, m) => runs'[r].row = runs[r].row
  PROVE  RowsExact'
<1>1. \A m \in Modules : {r \in Slots : Working(r, m)' /\ runs'[r].row}
                          = {r \in Slots : Working(r, m) /\ runs[r].row}
  OBVIOUS
<1>2. {r \in Slots : \E m \in Modules : Working(r, m)'} = {r \in Slots : \E m \in Modules : Working(r, m)}
  OBVIOUS
<1> QED
  BY <1>1, <1>2 DEF RowsExact

\* A fault is never taken back.
LEMMA FaultStays ==
  ASSUME faults \in Nat, Fault
  PROVE  faults' # 0
BY DEF Fault

LEMMA TriggerRows ==
  ASSUME TypeOK, RowsExact, NEW r \in Slots, runs[r].pc = "free", NEW n, NEW v, NEW by,
         runs' = [runs EXCEPT ![r] = Triggered(n, v, by)], UNCHANGED <<rows, gauge, faults>>
  PROVE  RowsExact'
<1>1. runs'[r].pc = "fired"
  BY DEF Triggered, NoRun, TypeOK
<1>2. ASSUME NEW s \in Slots, NEW m \in Modules
      PROVE  /\ Working(s, m)' <=> Working(s, m)
             /\ Working(s, m) => runs'[s].row = runs[s].row
  <2>1. CASE s = r
    BY <1>1, <2>1 DEF Working
  <2>2. CASE s # r
    BY <2>2 DEF Working, TypeOK
  <2> QED
    BY <2>1, <2>2
<1> QED
  BY <1>2, RowFrame

\* Run r begins to work with a row, the others going on.
LEMMA TrackRows ==
  ASSUME RowInv, NEW r \in Slots, Track(r), faults' = 0
  PROVE  RowsExact'
<1> PICK m \in Modules : m = runs[r].m
  BY DEF RowInv, TypeInv, TypeOK, RunRecs
<1>0. /\ TypeOK /\ faults \in Nat /\ m \in Modules /\ runs[r] \in RunRecs
      /\ runs \in [Slots -> RunRecs] /\ rows \in [Modules -> Int] /\ gauge \in Int
  BY FromAssumptions DEF Assumptions, RowInv, TypeInv, TypeOK, RunRecs
<1>1. ~ Fault
  BY <1>0, FaultStays
<1>2. /\ runs[r].pc = "enabled" /\ gauge' = gauge + 1 /\ rows' = [rows EXCEPT ![m] = @ + 1]
      /\ runs' = [runs EXCEPT ![r].pc = "work", ![r].row = TRUE] /\ faults = 0
  BY <1>1 DEF Track, NoFault
<1>3. runs'[r].m = m /\ runs'[r].pc = "work" /\ runs'[r].row
  BY <1>0, <1>2 DEF RunRecs
<1>4. \A s \in Slots : s # r => runs'[s] = runs[s]
  BY <1>0, <1>2
<1>5. AtWork' = AtWork \cup {r} /\ r \notin AtWork
  BY <1>0, <1>2, <1>3, <1>4 DEF AtWork, Working
<1>6. Rowed(m)' = Rowed(m) \cup {r} /\ r \notin Rowed(m)
  BY <1>0, <1>2, <1>3, <1>4 DEF Rowed, Working
<1>7. \A n \in Modules : n # m => Rowed(n)' = Rowed(n)
  BY <1>0, <1>2, <1>3, <1>4 DEF Rowed, Working
<1>8. Cardinality(AtWork') = Cardinality(AtWork) + 1
  BY <1>5, RowSets, FS_AddElement
<1>9. Cardinality(Rowed(m)') = Cardinality(Rowed(m)) + 1
  BY <1>0, <1>6, RowSets, FS_AddElement
<1>10. gauge = Cardinality(AtWork) /\ \A n \in Modules : rows[n] = Cardinality(Rowed(n))
  BY <1>2 DEF RowInv, RowsExact, AtWork, Rowed
<1>11. gauge' = Cardinality(AtWork')
  BY <1>2, <1>8, <1>10
<1>12. \A n \in Modules : rows'[n] = Cardinality(Rowed(n)')
  BY <1>0, <1>2, <1>7, <1>9, <1>10
<1> QED
  BY <1>11, <1>12 DEF RowsExact, AtWork, Rowed

LEMMA FinishRows ==
  ASSUME RowInv, NEW r \in Slots, Finish(r), faults' = 0
  PROVE  RowsExact'
<1> PICK m \in Modules : m = runs[r].m
  BY DEF RowInv, TypeInv, TypeOK, RunRecs
<1>0. /\ TypeOK /\ faults \in Nat /\ m \in Modules /\ runs[r] \in RunRecs
      /\ runs \in [Slots -> RunRecs] /\ rows \in [Modules -> Int] /\ gauge \in Int
  BY FromAssumptions DEF Assumptions, RowInv, TypeInv, TypeOK, RunRecs
<1>1. ~ Fault
  BY <1>0, FaultStays
<1>2. /\ runs[r].pc = "done" /\ gauge' = gauge - 1 /\ runs' = [runs EXCEPT ![r].pc = "release"]
      /\ rows' = [rows EXCEPT ![m] = IF runs[r].row THEN @ - 1 ELSE @] /\ faults = 0
  BY <1>1 DEF Finish, Goto, NoFault
<1>3. runs'[r].m = m /\ runs'[r].pc = "release"
  BY <1>0, <1>2 DEF RunRecs
<1>4. \A s \in Slots : s # r => runs'[s] = runs[s]
  BY <1>0, <1>2
<1>5. AtWork' = AtWork \ {r} /\ r \in AtWork
  BY <1>0, <1>2, <1>3, <1>4 DEF AtWork, Working
<1>6. Rowed(m)' = Rowed(m) \ {r}
  <2>1. r \notin Rowed(m)'
    BY <1>3 DEF Rowed, Working
  <2>2. \A s \in Slots : s # r => (s \in Rowed(m)' <=> s \in Rowed(m))
    BY <1>0, <1>4 DEF Rowed, Working
  <2> QED
    BY <2>1, <2>2 DEF Rowed
<1>7. \A n \in Modules : n # m => Rowed(n)' = Rowed(n)
  BY <1>0, <1>2, <1>3, <1>4 DEF Rowed, Working
<1>8. Cardinality(AtWork') = Cardinality(AtWork) - 1
  BY <1>5, RowSets, FS_RemoveElement
<1>9. rows'[m] = Cardinality(Rowed(m)')
  <2>1. rows[m] = Cardinality(Rowed(m)) /\ rows[m] \in Int
    BY <1>0, <1>2 DEF RowInv, RowsExact, Rowed
  <2>2. CASE runs[r].row
    <3>1. r \in Rowed(m)
      BY <1>2, <2>2 DEF Rowed, Working
    <3>2. Cardinality(Rowed(m)') = Cardinality(Rowed(m)) - 1
      <4>1. IsFiniteSet(Rowed(m))
        BY RowSets
      <4>2. Cardinality(Rowed(m) \ {r}) = Cardinality(Rowed(m)) - 1
        BY <3>1, <4>1, FS_RemoveElement
      <4> QED
        BY <1>6, <4>2
    <3>3. rows' = [rows EXCEPT ![m] = @ - 1]
      BY <1>2, <2>2
    <3> QED
      BY <1>0, <2>1, <3>2, <3>3
  <2>3. CASE ~ runs[r].row
    <3>1. r \notin Rowed(m)
      BY <2>3 DEF Rowed
    <3>2. Rowed(m)' = Rowed(m)
      BY <1>6, <3>1
    <3>3. rows' = [rows EXCEPT ![m] = @]
      BY <1>2, <2>3
    <3> QED
      BY <1>0, <2>1, <3>2, <3>3
  <2> QED
    BY <2>2, <2>3
<1>10. gauge = Cardinality(AtWork) /\ \A n \in Modules : rows[n] = Cardinality(Rowed(n))
  BY <1>2 DEF RowInv, RowsExact, AtWork, Rowed
<1>11. gauge' = Cardinality(AtWork')
  BY <1>2, <1>8, <1>10
<1>12. \A n \in Modules : rows'[n] = Cardinality(Rowed(n)')
  <2> SUFFICES ASSUME NEW n \in Modules, n # m PROVE rows'[n] = Cardinality(Rowed(n)')
    BY <1>9
  <2>1. rows'[n] = rows[n]
    BY <1>0, <1>2
  <2> QED
    BY <1>7, <1>10, <2>1
<1> QED
  BY <1>11, <1>12 DEF RowsExact, AtWork, Rowed

LEMMA RunRows ==
  ASSUME RowInv, NEW r \in Slots, faults' = 0,
         RunStep(r) \/ \E m \in Modules : Fire(r, m) \/ RunModule(r, m)
  PROVE  RowsExact'
<1>0. TypeOK /\ RowsExact /\ faults \in Nat /\ runs[r] \in RunRecs
  BY FromAssumptions DEF Assumptions, RowInv, TypeInv, TypeOK
<1>1. ASSUME NEW m \in Modules, Fire(r, m) \/ RunModule(r, m) PROVE RowsExact'
  BY <1>0, <1>1, TriggerRows DEF Fire, RunModule
<1>2. CASE Acquire(r) \/ Check(r) \/ Release(r)
  <2>1. \A m \in Modules : ~Working(r, m)' /\ ~Working(r, m)
    BY <1>0, <1>2 DEF TypeOK, Acquire, Check, Release, Goto, NoRun, Working, RunRecs
  <2>2. \A s \in Slots : s # r => runs'[s] = runs[s]
    BY <1>0, <1>2 DEF TypeOK, Acquire, Check, Release, Goto
  <2>3. UNCHANGED <<rows, gauge, faults>>
    BY <1>2 DEF Acquire, Check, Release
  <2>4. \A s \in Slots, m \in Modules : /\ Working(s, m)' <=> Working(s, m)
                                        /\ Working(s, m) => runs'[s].row = runs[s].row
    BY <2>1, <2>2 DEF Working
  <2> QED
    BY <1>0, <2>3, <2>4, RowFrame
<1>3. CASE Return(r)
  <2>1. \A s \in Slots, m \in Modules : /\ Working(s, m)' <=> Working(s, m)
                                        /\ Working(s, m) => runs'[s].row = runs[s].row
    BY <1>0, <1>3 DEF TypeOK, Return, Goto, Working, RunRecs
  <2> QED
    BY <1>0, <1>3, <2>1, RowFrame DEF Return
<1>4. CASE Panic(r)
  BY <1>0, <1>4, FaultStays DEF Panic
<1> QED
  BY <1>1, <1>2, <1>3, <1>4, TrackRows, FinishRows DEF RunStep

LEMMA RowStep == RowInv /\ [Next]_vars => RowInv'
<1> SUFFICES ASSUME RowInv, [Next]_vars, faults' = 0 PROVE RowsExact'
  BY TypeStep DEF RowInv, RowsExact
<1>0. TypeOK /\ RowsExact /\ faults \in Nat /\ loader \in LoaderRecs
  BY FromAssumptions DEF Assumptions, RowInv, TypeInv, TypeOK
<1>1. CASE UNCHANGED <<rows, gauge, runs, faults>>
  BY <1>0, <1>1, RowFrame DEF Working
<1>2. ASSUME NEW q \in Requests,
             \/ HandlerStep(q)
             \/ \E m \in Modules : Toggle(q, m) \/ \E c \in Configs : SaveConfig(q, m, c)
      PROVE  RowsExact'
  <2>1. UNCHANGED <<rows, gauge, runs>>
    BY <1>2 DEF HandlerStep, SetEnabled, ReadField, WriteField, TriggerReload, Toggle, SaveConfig,
       handlerVars
  <2>2. UNCHANGED faults \/ Fault
    BY <1>2 DEF HandlerStep, SetEnabled, ReadField, WriteField, TriggerReload, Toggle, SaveConfig,
       NoFault
  <2> QED
    BY <1>0, <1>1, <2>1, <2>2, FaultStays
<1>3. CASE LoaderStep
  <2>1. UNCHANGED <<rows, gauge>> /\ (UNCHANGED faults \/ Fault)
    BY <1>3 DEF LoaderStep, Reload, Clear, ReadConfig, AddJob, Start, loaderVars, NoFault
  <2>2. CASE UNCHANGED runs
    BY <1>0, <1>1, <2>1, <2>2, FaultStays
  <2>3. CASE AddJob
    <3>1. ASSUME NEW r \in Slots, runs[r].pc = "free",
                 runs' = [runs EXCEPT ![r] = Triggered(loader.m, loader.got.v, "start")]
          PROVE  RowsExact'
      BY <1>0, <2>1, <2>3, <3>1, TriggerRows DEF AddJob
    <3> QED
      BY <2>2, <2>3, <3>1 DEF AddJob
  <2> QED
    BY <1>3, <2>2, <2>3 DEF LoaderStep, Reload, Clear, ReadConfig, Start
<1>4. CASE Restart
  <2>1. rows' = [m \in Modules |-> 0] /\ gauge' = 0 /\ \A r \in Slots : runs'[r].pc = "free"
    BY <1>0, <1>4, FaultStays DEF Restart, NoRuns, NoRun
  <2>2. AtWork' = {} /\ \A m \in Modules : Rowed(m)' = {}
    BY <2>1 DEF AtWork, Rowed, Working
  <2>3. gauge' = Cardinality(AtWork') /\ \A m \in Modules : rows'[m] = Cardinality(Rowed(m)')
    BY <2>1, <2>2, FS_EmptySet
  <2> QED
    BY <2>3 DEF RowsExact, AtWork, Rowed
<1> QED
  BY <1>1, <1>2, <1>3, <1>4, RunRows DEF Next, vars

(* A running row is the row of a live run, and the gauge counts them,      *)
(* through reloads and restarts, while no panic and no failed write        *)
(* occurred (TrackRun, MarkInterruptedTaskRuns).                           *)
THEOREM RowsAreExact == Spec => []RowsExact
<1>1. Init => RowInv
  <2> SUFFICES ASSUME Init PROVE RowsExact
    BY TypeInit DEF RowInv
  <2>1. \A r \in Slots : runs[r].pc = "free"
    BY DEF Init, NoRuns, NoRun
  <2>2. AtWork = {} /\ \A m \in Modules : Rowed(m) = {}
    BY <2>1 DEF AtWork, Rowed, Working
  <2>3. gauge = Cardinality(AtWork) /\ \A m \in Modules : rows[m] = Cardinality(Rowed(m))
    BY <2>2, FS_EmptySet DEF Init
  <2> QED
    BY <2>3 DEF RowsExact, AtWork, Rowed
<1>2. RowInv => RowsExact
  BY DEF RowInv
<1> QED
  BY <1>1, <1>2, RowStep, PTL DEF Spec

-----------------------------------------------------------------------------
(***************************************************************************)
(* What is in force.  Whatever is not as in the table is about to be:      *)
(* while no reload is pending and none has begun its rounds over a module, *)
(* the entry of that module is the table's, except for the flag that a     *)
(* toggle has set and will write.                                          *)
(***************************************************************************)
Pending     == signal \/ loader.pc = "drain" \/ \E q \in Requests : req[q].pc = "trigger"
Toggling(m) == \E q \in Requests : req[q].m = m /\ req[q].pc \in {"read", "write"}
Agrees(m)   == reg[m].v = cfg[m].v /\ (reg[m] = cfg[m] \/ Toggling(m))

Loaded == loader.pc = "wait" => loader.todo = {}
Known  == faults = 0 /\ ~ Pending =>
            /\ \A m \in Modules : m \notin loader.todo => Agrees(m)
            /\ loader.pc = "wait" => \A m \in Modules : jobs[m] = cfg[m].v
            /\ loader.pc = "add" => loader.got = cfg[loader.m]
ForceInv == TypeInv /\ Loaded /\ Known

\* Of an absent configuration there is one form.
LEMMA OneAbsent ==
  ASSUME NEW c \in Configs, NEW d \in Configs, c.v = None, d.v = None
  PROVE  c = d
BY FromAssumptions DEF Assumptions, Configs, Absent

LEMMA KnownFrame ==
  ASSUME Known, UNCHANGED runVars, faults' = 0 => faults = 0
  PROVE  Known'
BY DEF Known, Pending, Agrees, Toggling, runVars

LEMMA RunForce ==
  ASSUME ForceInv, NEW r \in Slots,
         RunStep(r) \/ \E m \in Modules : Fire(r, m) \/ RunModule(r, m)
  PROVE  Known' /\ Loaded'
<1>1. UNCHANGED runVars
  BY DEF RunStep, Acquire, Check, Track, Return, Panic, Finish, Release, Fire, RunModule
<1>2. UNCHANGED faults \/ Fault
  BY DEF RunStep, Acquire, Check, Track, Return, Panic, Finish, Release, Fire, RunModule, NoFault
<1>3. faults \in Nat
  BY FromAssumptions DEF Assumptions, ForceInv, TypeInv, TypeOK
<1>4. faults' = 0 => faults = 0
  BY <1>2, <1>3, FaultStays
<1>5. Known'
  BY <1>1, <1>4, KnownFrame DEF ForceInv
<1>6. Loaded'
  BY <1>1 DEF ForceInv, Loaded, runVars
<1> QED
  BY <1>5, <1>6

\* Where the changed handler is one that will trigger a reload, nothing is claimed.
LEMMA PendingForce ==
  ASSUME NEW q \in Requests, req'[q].pc = "trigger"
  PROVE  Known'
BY DEF Known, Pending

\* A handler that changes neither the table nor the registry, and that was
\* not about to write: the other toggles go on.
LEMMA QuietForce ==
  ASSUME TypeOK, Known, UNCHANGED <<cfg, reg, signal, faults>>, UNCHANGED <<jobs, loader>>,
         NEW q \in Requests, NEW new, req' = [req EXCEPT ![q] = new],
         req[q].pc \in {"idle", "flip"}
  PROVE  Known'
<1> SUFFICES ASSUME faults = 0, ~ Pending'
             PROVE  /\ \A m \in Modules : m \notin loader.todo => Agrees(m)'
                    /\ loader.pc = "wait" => \A m \in Modules : jobs[m] = cfg[m].v
                    /\ loader.pc = "add" => loader.got = cfg[loader.m]
  BY DEF Known
<1>1. \A p \in Requests : p # q => req'[p] = req[p]
  BY DEF TypeOK
<1>2. ~ Pending
  BY <1>1 DEF Pending
<1>3. \A m \in Modules : Toggling(m) => Toggling(m)'
  BY <1>1 DEF Toggling
<1> QED
  BY <1>2, <1>3 DEF Known, Agrees

LEMMA HandlerForce ==
  ASSUME ForceInv, NEW q \in Requests,
         \/ HandlerStep(q)
         \/ \E m \in Modules : Toggle(q, m) \/ \E c \in Configs : SaveConfig(q, m, c)
  PROVE  Known' /\ Loaded'
<1> PICK k \in Modules : k = req[q].m
  BY DEF ForceInv, TypeInv, TypeOK, RequestRecs
<1>0. /\ TypeOK /\ Known /\ Loaded /\ faults \in Nat /\ req \in [Requests -> RequestRecs]
      /\ req[q] \in RequestRecs /\ k = req[q].m /\ req[q].on \in BOOLEAN
      /\ cfg \in [Modules -> Configs] /\ reg \in [Modules -> Configs]
  BY FromAssumptions DEF Assumptions, ForceInv, TypeInv, TypeOK, RequestRecs
<1>1. UNCHANGED <<jobs, loader>>
  BY DEF HandlerStep, SetEnabled, ReadField, WriteField, TriggerReload, Toggle, SaveConfig,
     handlerVars
<1>2. Loaded'
  BY <1>0, <1>1 DEF Loaded
<1> SUFFICES Known'
  BY <1>2
<1>3. ASSUME NEW n \in Modules, NEW c \in Configs, SaveConfig(q, n, c)
      PROVE  Known'
  BY <1>0, <1>3, PendingForce DEF SaveConfig, Await, RequestRecs
<1>4. ASSUME NEW n \in Modules, Toggle(q, n)
      PROVE  Known'
  BY <1>0, <1>1, <1>4, QuietForce DEF Toggle
<1>5. CASE SetEnabled(q)
  <2>1. CASE reg[k].v = None
    BY <1>0, <1>1, <1>5, <2>1, QuietForce DEF SetEnabled, Answer
  <2>2. CASE reg[k].v # None
    <3>1. /\ req[q].pc = "flip" /\ req' = [req EXCEPT ![q].pc = "read"]
          /\ reg' = [reg EXCEPT ![k].on = req[q].on] /\ UNCHANGED <<cfg, signal, faults>>
      BY <1>5, <2>2 DEF SetEnabled, Await
    <3>2. req'[q].m = k /\ req'[q].pc = "read" /\ \A p \in Requests : p # q => req'[p] = req[p]
      BY <1>0, <3>1 DEF RequestRecs
    <3>3. reg'[k].v = reg[k].v /\ \A n \in Modules : n # k => reg'[n] = reg[n]
      <4>1. reg[k] \in [v : Versions, on : BOOLEAN]
        BY <1>0, <2>2 DEF Configs, Absent
      <4> QED
        BY <1>0, <3>1, <4>1
    <3>4. Pending' <=> Pending
      BY <1>1, <3>1, <3>2 DEF Pending
    <3>5. \A n \in Modules : Toggling(n) => Toggling(n)'
      BY <3>1, <3>2 DEF Toggling
    <3>6. \A n \in Modules : Agrees(n) => Agrees(n)'
      <4>1. \A n \in Modules : n # k /\ Agrees(n) => Agrees(n)'
        BY <3>1, <3>3, <3>5 DEF Agrees
      <4>2. \E p \in Requests : req'[p].m = k /\ req'[p].pc \in {"read", "write"}
        BY <3>2
      <4>3. ASSUME NEW n \in Modules, n = k, Agrees(n)
            PROVE  Agrees(n)'
        BY <3>1, <3>3, <4>2, <4>3 DEF Agrees, Toggling
      <4> QED
        BY <4>1, <4>3
    <3> QED
      BY <1>0, <1>1, <3>1, <3>4, <3>6 DEF Known
  <2> QED
    BY <2>1, <2>2
<1>6. CASE ReadField(q)
  <2>0. UNCHANGED <<cfg, reg, signal>> /\ req[q].pc = "read"
    BY <1>6 DEF ReadField
  <2>1. CASE req' = [req EXCEPT ![q].pc = "write", ![q].doc = cfg[k]] /\ NoFault
    <3>1. /\ req'[q].m = k /\ req'[q].pc = "write"
          /\ \A p \in Requests : p # q => req'[p] = req[p]
      BY <1>0, <2>1 DEF RequestRecs
    <3>2. Pending' <=> Pending
      BY <1>1, <2>0, <3>1 DEF Pending
    <3>3. \A n \in Modules : Toggling(n) => Toggling(n)'
      BY <2>0, <3>1 DEF Toggling
    <3> QED
      BY <1>0, <1>1, <2>0, <2>1, <3>2, <3>3 DEF Known, Agrees, NoFault
  <2>2. CASE cfg[k].v = None /\ NoFault /\ Answer(q)
    <3>1. req'[q].pc = "idle" /\ \A p \in Requests : p # q => req'[p] = req[p]
      BY <1>0, <2>2 DEF Answer, NoRequest
    <3>2. Pending' <=> Pending
      BY <1>1, <2>0, <3>1 DEF Pending
    <3>3. \A n \in Modules : n # k /\ Toggling(n) => Toggling(n)'
      BY <2>0, <3>1 DEF Toggling
    <3>4. ASSUME NEW n \in Modules, Agrees(n)
          PROVE  Agrees(n)'
      <4>1. CASE n = k
        <5>1. reg[n] = cfg[n]
          BY <1>0, <2>2, <3>4, <4>1, OneAbsent DEF Agrees
        <5> QED
          BY <2>0, <5>1 DEF Agrees
      <4>2. CASE n # k
        BY <2>0, <3>3, <3>4, <4>2 DEF Agrees
      <4> QED
        BY <4>1, <4>2
    <3> QED
      BY <1>0, <1>1, <2>0, <2>2, <3>2, <3>4 DEF Known, NoFault
  <2>3. CASE Fault
    BY <1>0, <2>3, FaultStays DEF Known
  <2> QED
    BY <1>6, <2>1, <2>2, <2>3 DEF ReadField
<1>7. CASE WriteField(q)
  <2>1. CASE Await(q, "trigger")
    BY <1>0, <2>1, PendingForce DEF Await, RequestRecs
  <2>2. CASE Fault
    BY <1>0, <2>2, FaultStays DEF Known
  <2> QED
    BY <1>7, <2>1, <2>2 DEF WriteField
<1>8. CASE TriggerReload(q)
  BY <1>8 DEF TriggerReload, Known, Pending
<1> QED
  BY <1>3, <1>4, <1>5, <1>6, <1>7, <1>8 DEF HandlerStep

LEMMA LoaderForce ==
  ASSUME ForceInv, LoaderStep
  PROVE  Known' /\ Loaded'
<1>0. /\ TypeOK /\ Known /\ Loaded /\ faults \in Nat /\ loader \in LoaderRecs
      /\ cfg \in [Modules -> Configs] /\ reg \in [Modules -> Configs] /\ loader.m \in Modules
  BY FromAssumptions DEF Assumptions, ForceInv, TypeInv, TypeOK, LoaderRecs
<1>1. CASE Reload
  BY <1>0, <1>1 DEF Reload, Known, Pending, Loaded, LoaderRecs
<1>2. CASE Clear
  BY <1>2 DEF Clear, Loading, Known, Loaded
<1>3. ASSUME NEW m \in Modules, ReadConfig(m)
      PROVE  Known' /\ Loaded'
  <2>0. /\ loader.pc = "load" /\ UNCHANGED <<cfg, req, reg, jobs, signal>>
        /\ loader'.pc = "add" /\ loader'.todo = loader.todo
    BY <1>0, <1>3 DEF ReadConfig, loaderVars, LoaderRecs
  <2>1. Loaded'
    BY <2>0 DEF Loaded
  <2>2. CASE Fault
    BY <1>0, <2>1, <2>2, FaultStays DEF Known
  <2>3. CASE loader' = [loader EXCEPT !.pc = "add", !.m = m, !.got = cfg[m]] /\ NoFault
    <3>1. loader'.m = m /\ loader'.got = cfg[m]
      BY <1>0, <2>3 DEF LoaderRecs
    <3>2. Pending' <=> Pending
      BY <2>0 DEF Pending
    <3>3. \A n \in Modules : Agrees(n)' <=> Agrees(n)
      BY <2>0 DEF Agrees, Toggling
    <3> QED
      BY <1>0, <2>0, <2>1, <2>3, <3>1, <3>2, <3>3 DEF Known, NoFault
  <2> QED
    BY <1>3, <2>2, <2>3 DEF ReadConfig
<1>4. CASE AddJob
  <2> DEFINE m == loader.m
  <2>0. /\ loader.pc = "add" /\ UNCHANGED <<cfg, req, jobs, signal, faults>>
        /\ reg' = [reg EXCEPT ![m] = loader.got]
        /\ loader'.pc = "load" /\ loader'.todo = loader.todo \ {m}
    BY <1>4 DEF AddJob, loaderVars, Loading
  <2>1. Pending' <=> Pending
    BY <2>0 DEF Pending
  <2>2. ASSUME faults = 0, ~ Pending, NEW n \in Modules, n \notin loader'.todo
        PROVE  Agrees(n)'
    <3>1. CASE n = m
      <4>1. reg'[n] = cfg'[n]
        BY <1>0, <2>0, <2>2, <3>1 DEF Known
      <4> QED
        BY <4>1 DEF Agrees
    <3>2. CASE n # m
      <4>1. reg'[n] = reg[n] /\ Agrees(n)
        BY <1>0, <2>0, <2>2, <3>2 DEF Known
      <4> QED
        BY <2>0, <4>1 DEF Agrees, Toggling
    <3> QED
      BY <3>1, <3>2
  <2> QED
    BY <2>0, <2>1, <2>2 DEF Known, Loaded
<1>5. CASE Start
  <2>0. /\ loader.pc = "load" /\ loader.todo = {} /\ UNCHANGED <<cfg, req, reg, signal, faults>>
        /\ jobs' = [m \in Modules |-> reg[m].v] /\ loader'.pc = "wait" /\ loader'.todo = {}
    BY <1>5 DEF Start, loaderVars, Loading
  <2>1. Pending' <=> Pending
    BY <2>0 DEF Pending
  <2>2. \A m \in Modules : Agrees(m)' <=> Agrees(m)
    BY <2>0 DEF Agrees, Toggling
  <2>3. \A m \in Modules : Agrees(m) => jobs'[m] = cfg'[m].v
    BY <2>0 DEF Agrees
  <2> QED
    BY <1>0, <2>0, <2>1, <2>2, <2>3 DEF Known, Loaded
<1> QED
  BY <1>1, <1>2, <1>3, <1>4, <1>5 DEF LoaderStep

LEMMA ForceInit == Init => ForceInv
BY TypeInit DEF Init, ForceInv, Loading, Known, Loaded

LEMMA ForceStep == ForceInv /\ [Next]_vars => ForceInv'
<1> SUFFICES ASSUME ForceInv, [Next]_vars PROVE Known' /\ Loaded'
  BY TypeStep DEF ForceInv
<1>1. CASE UNCHANGED vars
  BY <1>1, KnownFrame DEF vars, runVars, ForceInv, Loaded
<1>2. CASE Restart
  BY <1>2 DEF Restart, Loading, Known, Loaded
<1> QED
  BY <1>1, <1>2, RunForce, LoaderForce, HandlerForce DEF Next

(* When the reload goroutine is idle and no handler is at work, registry   *)
(* and scheduler are those of the table: no change is lost although the    *)
(* channel holds one signal, and a toggle that meets a reload leaves no    *)
(* other flag, with any number of handlers, modules and restarts.          *)
THEOREM TableInForce == Spec => []Applied
<1>1. ForceInv => Applied
  <2> SUFFICES ASSUME ForceInv, Settled, faults = 0, NEW m \in Modules
               PROVE  reg[m] = cfg[m] /\ jobs[m] = cfg[m].v
    BY DEF Applied
  <2>1. ~ Pending /\ ~ Toggling(m)
    BY DEF Settled, Pending, Toggling
  <2>2. Agrees(m) /\ jobs[m] = cfg[m].v
    BY <2>1 DEF ForceInv, Known, Loaded, Settled
  <2> QED
    BY <2>1, <2>2 DEF Agrees
<1> QED
  BY <1>1, ForceInit, ForceStep, PTL DEF Spec
=============================================================================
