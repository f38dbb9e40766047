--------------------------- MODULE ModuleRunProofs ---------------------------
(***************************************************************************)
(* Theorems about ModuleRun, for every number of modules, goroutines and   *)
(* requests, with any number of faults, reloads and restarts.              *)
(***************************************************************************)
EXTENDS ModuleRun, TLAPS

Assumptions == /\ Modules # {} /\ OnStart \subseteq Modules
               /\ None \notin Versions /\ MaxFaults \in Nat

LEMMA FromAssumptions == Assumptions
BY ModulesAssumption, VersionsAssumption, BoundsAssumption DEF Assumptions

\* The values that fill the fresh memory of a process are of their types.
LEMMA BlankTypes ==
  /\ Absent \in Configs /\ NoRun \in RunRecs /\ NoRequest \in RequestRecs
  /\ \A b \in BOOLEAN : Loading(b) \in LoaderRecs
<1>1. (CHOOSE m \in Modules : TRUE) \in Modules
  BY FromAssumptions DEF Assumptions
<1>2. Absent \in Configs
  BY DEF Configs
<1> QED
  BY <1>1, <1>2 DEF NoRun, RunRecs, NoRequest, RequestRecs, Loading, LoaderRecs

\* A field of a configuration.
LEMMA ConfigFields ==
  ASSUME NEW c \in Configs
  PROVE  /\ c.v \in Versions \cup {None} /\ c.on \in BOOLEAN
         /\ c.on => c.v # None
<1>1. CASE c \in [v : Versions, on : BOOLEAN]
  BY <1>1, FromAssumptions DEF Assumptions
<1>2. CASE c = Absent
  BY <1>2 DEF Absent
<1> QED
  BY <1>1, <1>2 DEF Configs

-----------------------------------------------------------------------------
\* A toggle that is about to write has read a configuration.
Docs    == \A q \in Requests : req[q].pc = "write" => req[q].doc.v # None
TypeInv == TypeOK /\ Docs

LEMMA RunTypes ==
  ASSUME TypeOK, NEW r \in Slots,
         RunStep(r) \/ \E m \in Modules : Fire(r, m) \/ RunModule(r, m)
  PROVE  TypeOK'
<1> USE DEF TypeOK
<1>1. ASSUME NEW m \in Modules, Fire(r, m) PROVE TypeOK'
  BY <1>1, BlankTypes DEF Fire, runVars, Triggered, RunRecs
<1>2. ASSUME NEW m \in Modules, RunModule(r, m) PROVE TypeOK'
  BY <1>2, BlankTypes, ConfigFields DEF RunModule, runVars, Triggered, RunRecs
<1>3. CASE Acquire(r)
  BY <1>3, BlankTypes DEF Acquire, Goto, runVars, RunRecs
<1>4. CASE Check(r)
  BY <1>4 DEF Check, Goto, runVars, RunRecs
<1>5. CASE Track(r)
  BY <1>5, FromAssumptions DEF Assumptions, Track, Goto, Fault, NoFault, runVars, RunRecs
<1>6. CASE Return(r)
  BY <1>6 DEF Return, Goto, runVars, RunRecs
<1>7. CASE Panic(r)
  BY <1>7, FromAssumptions DEF Assumptions, Panic, Goto, Fault, runVars, RunRecs
<1>8. CASE Finish(r)
  BY <1>8, FromAssumptions DEF Assumptions, Finish, Goto, Fault, NoFault, runVars, RunRecs
<1>9. CASE Release(r)
  BY <1>9, BlankTypes DEF Release, runVars, RunRecs
<1> QED
  BY <1>1, <1>2, <1>3, <1>4, <1>5, <1>6, <1>7, <1>8, <1>9 DEF RunStep

LEMMA LoaderTypes == ASSUME TypeOK, LoaderStep PROVE TypeOK'
<1> USE DEF TypeOK
<1>1. CASE Reload
  BY <1>1 DEF Reload, NoJobs, loaderVars, LoaderRecs
<1>2. CASE Clear
  BY <1>2, BlankTypes DEF Clear, NoEntries, loaderVars
<1>3. ASSUME NEW m \in Modules, ReadConfig(m) PROVE TypeOK'
  <2> PICK c \in {cfg[m], Absent} :
         /\ IF c = cfg[m] THEN NoFault ELSE Fault
         /\ loader' = [loader EXCEPT !.pc = "add", !.m = m, !.got = c]
    BY <1>3 DEF ReadConfig
  <2>1. c \in Configs /\ faults' \in 0 .. MaxFaults
    BY BlankTypes, FromAssumptions DEF Assumptions, Fault, NoFault
  <2> QED
    BY <1>3, <2>1 DEF ReadConfig, loaderVars, LoaderRecs
<1>4. CASE AddJob
  <2>1. loader.m \in Modules /\ loader.got \in Configs /\ loader.todo \subseteq Modules
        /\ loader.boot \in BOOLEAN
    BY DEF LoaderRecs
  <2>2. runs' \in [Slots -> RunRecs]
    <3>1. Triggered(loader.m, loader.got.v, "start") \in RunRecs
      BY <2>1, BlankTypes, ConfigFields DEF Triggered, RunRecs
    <3> QED
      BY <1>4, <3>1 DEF AddJob
  <2>3. loader' \in LoaderRecs
    BY <1>4, <2>1, BlankTypes DEF AddJob, LoaderRecs
  <2>4. reg' \in [Modules -> Configs]
    BY <1>4, <2>1 DEF AddJob
  <2> QED
    BY <1>4, <2>2, <2>3, <2>4 DEF AddJob, loaderVars
<1>5. CASE Start
  BY <1>5, BlankTypes, ConfigFields DEF Start, loaderVars, LoaderRecs
<1> QED
  BY LoaderStep, <1>1, <1>2, <1>3, <1>4, <1>5 DEF LoaderStep

LEMMA HandlerTypes ==
  ASSUME TypeInv, NEW q \in Requests,
         \/ HandlerStep(q)
         \/ \E m \in Modules : Toggle(q, m) \/ \E c \in Configs : SaveConfig(q, m, c)
  PROVE  TypeOK'
<1> USE DEF TypeInv, TypeOK, Docs
<1>0. req[q].m \in Modules /\ req[q].on \in BOOLEAN /\ req[q].doc \in Configs
  BY DEF RequestRecs
<1>1. CASE SetEnabled(q)
  <2>1. req' \in [Requests -> RequestRecs]
    BY <1>1, BlankTypes DEF SetEnabled, Await, Answer, RequestRecs
  <2>2. reg' \in [Modules -> Configs]
    BY <1>1, <1>0 DEF SetEnabled, Configs, Absent
  <2> QED
    BY <1>1, <2>1, <2>2 DEF SetEnabled, handlerVars
<1>2. CASE ReadField(q)
  BY <1>2, <1>0, BlankTypes, FromAssumptions
  DEF Assumptions, ReadField, Answer, Fault, NoFault, handlerVars, RequestRecs
<1>3. CASE WriteField(q)
  <2>1. req' \in [Requests -> RequestRecs]
    BY <1>3, BlankTypes DEF WriteField, Await, Answer, RequestRecs
  <2>2. cfg' \in [Modules -> Configs]
    <3>1. ASSUME req[q].doc.v # None PROVE [req[q].doc EXCEPT !.on = req[q].on] \in Configs
      BY <1>0, <3>1 DEF Configs, Absent
    <3> QED
      BY <1>3, <1>0, <3>1 DEF WriteField
  <2> QED
    BY <1>3, <2>1, <2>2, FromAssumptions DEF Assumptions, WriteField, Fault, NoFault, handlerVars
<1>4. CASE TriggerReload(q)
  BY <1>4, BlankTypes DEF TriggerReload, Answer, handlerVars
<1>5. ASSUME NEW m \in Modules, Toggle(q, m) PROVE TypeOK'
  BY <1>5, BlankTypes, ConfigFields DEF Toggle, handlerVars, RequestRecs
<1>6. ASSUME NEW m \in Modules, NEW c \in Configs, SaveConfig(q, m, c) PROVE TypeOK'
  BY <1>6 DEF SaveConfig, Await, handlerVars, RequestRecs
<1> QED
  BY <1>1, <1>2, <1>3, <1>4, <1>5, <1>6 DEF HandlerStep

LEMMA RestartTypes == ASSUME TypeOK, Restart PROVE TypeOK'
<1>1. loader' \in LoaderRecs /\ signal' \in BOOLEAN /\ running' \subseteq Modules
  BY BlankTypes DEF Restart
<1>2. runs' \in [Slots -> RunRecs] /\ req' \in [Requests -> RequestRecs]
  BY BlankTypes DEF Restart, NoRuns, NoRequests
<1>3. reg' \in [Modules -> Configs] /\ jobs' \in [Modules -> Versions \cup {None}]
  BY BlankTypes DEF Restart, NoEntries, NoJobs
<1>4. rows' \in [Modules -> Int] /\ faults' \in 0 .. MaxFaults
  BY FromAssumptions DEF Assumptions, Restart, TypeOK, Fault, NoFault
<1>5. cfg' \in [Modules -> Configs] /\ gauge' \in Int
  BY DEF Restart, TypeOK
<1> QED
  BY <1>1, <1>2, <1>3, <1>4, <1>5 DEF TypeOK

LEMMA TypeInit == Init => TypeInv
<1> SUFFICES ASSUME Init PROVE TypeInv
  OBVIOUS
<1>1. loader \in LoaderRecs /\ signal \in BOOLEAN /\ running \subseteq Modules
  BY BlankTypes DEF Init
<1>2. runs \in [Slots -> RunRecs] /\ req \in [Requests -> RequestRecs] /\ Docs
  BY BlankTypes DEF Init, NoRuns, NoRequests, NoRequest, Docs
<1>3. reg \in [Modules -> Configs] /\ jobs \in [Modules -> Versions \cup {None}]
  BY BlankTypes DEF Init, NoEntries, NoJobs
<1>4. /\ cfg \in [Modules -> Configs] /\ rows \in [Modules -> Int]
      /\ gauge \in Int /\ faults \in 0 .. MaxFaults
  BY FromAssumptions DEF Assumptions, Init
<1> QED
  BY <1>1, <1>2, <1>3, <1>4 DEF TypeOK, TypeInv

\* Only ReadField brings a handler to "write".
LEMMA DocsStep == TypeInv /\ [Next]_vars => Docs'
<1> SUFFICES ASSUME TypeInv, [Next]_vars, NEW q \in Requests, req'[q].pc = "write"
             PROVE  req'[q].doc.v # None
  BY DEF Docs
<1> USE DEF TypeInv, TypeOK, Docs
<1>1. CASE UNCHANGED req
  BY <1>1
<1>2. ASSUME NEW p \in Requests, HandlerStep(p) PROVE req'[q].doc.v # None
  BY <1>2 DEF HandlerStep, SetEnabled, ReadField, WriteField, TriggerReload, Await, Answer,
              NoRequest, RequestRecs
<1>3. ASSUME NEW p \in Requests, NEW m \in Modules, Toggle(p, m)
      PROVE  req'[q].doc.v # None
  <2>1. p # q
    BY <1>3 DEF Toggle, NoRequest
  <2> QED
    BY <1>3, <2>1 DEF Toggle
<1>4. ASSUME NEW p \in Requests, NEW m \in Modules, NEW c \in Configs, SaveConfig(p, m, c)
      PROVE  req'[q].doc.v # None
  <2>1. p # q
    BY <1>4 DEF SaveConfig, Await, RequestRecs
  <2> QED
    BY <1>4, <2>1 DEF SaveConfig, Await
<1>5. CASE Restart
  BY <1>5 DEF Restart, NoRequests, NoRequest
<1>6. ASSUME NEW r \in Slots, RunStep(r) \/ \E m \in Modules : Fire(r, m) \/ RunModule(r, m)
      PROVE  UNCHANGED req
  BY <1>6 DEF RunStep, Acquire, Check, Track, Return, Panic, Finish, Release, Fire, RunModule,
              runVars
<1>7. CASE LoaderStep
  BY <1>1, <1>7 DEF LoaderStep, Reload, Clear, ReadConfig, AddJob, Start, loaderVars
<1> QED
  BY <1>1, <1>2, <1>3, <1>4, <1>5, <1>6, <1>7 DEF Next, vars

LEMMA TypeStep == TypeInv /\ [Next]_vars => TypeInv'
<1> SUFFICES ASSUME TypeInv, [Next]_vars PROVE TypeOK'
  BY DocsStep DEF TypeInv
<1>1. CASE UNCHANGED vars
  BY <1>1 DEF vars, TypeInv, TypeOK
<1>2. CASE Next
  BY <1>2, RunTypes, LoaderTypes, HandlerTypes, RestartTypes DEF Next, TypeInv
<1> QED
  BY <1>1, <1>2

(* The state stays of its type: in particular a toggle neither enables a   *)
(* module without an entry nor writes a configuration it never read.       *)
THEOREM TypeCorrect == Spec => []TypeOK
<1>1. TypeInv => TypeOK
  BY DEF TypeInv
<1> QED
  BY <1>1, TypeInit, TypeStep, PTL DEF Spec

-----------------------------------------------------------------------------
(***************************************************************************)
(* The execution locks.                                                    *)
(***************************************************************************)
LockInv == TypeInv /\ LocksExact

\* A step that neither takes nor gives back a lock.
LEMMA LockFrame ==
  ASSUME LocksExact, running' = running,
         \A r \in Slots, m \in Modules : Holding(r, m)' <=> Holding(r, m)
  PROVE  LocksExact'
BY DEF LocksExact

\* A triggered run holds nothing yet.
LEMMA TriggerLocks ==
  ASSUME TypeOK, NEW r \in Slots, runs[r].pc = "free", NEW n, NEW v, NEW by,
         runs' = [runs EXCEPT ![r] = Triggered(n, v, by)],
         NEW s \in Slots, NEW m \in Modules
  PROVE  Holding(s, m)' <=> Holding(s, m)
<1>1. CASE s = r
  <2>1. runs'[s].pc = "fired"
    BY <1>1 DEF Triggered, NoRun, TypeOK
  <2> QED
    BY <1>1, <2>1 DEF Holding
<1>2. CASE s # r
  BY <1>2 DEF Holding, TypeOK
<1> QED
  BY <1>1, <1>2

LEMMA RunLocks ==
  ASSUME LockInv, NEW r \in Slots,
         RunStep(r) \/ \E m \in Modules : Fire(r, m) \/ RunModule(r, m)
  PROVE  LocksExact'
<1> USE DEF LockInv, TypeInv, TypeOK
<1>0. runs[r] \in RunRecs /\ runs[r].m \in Modules
  BY DEF RunRecs
<1>1. ASSUME NEW m \in Modules, Fire(r, m) \/ RunModule(r, m) PROVE LocksExact'
  <2>1. running' = running /\ runs[r].pc = "free"
    BY <1>1 DEF Fire, RunModule
  <2>2. CASE Fire(r, m)
    BY <2>1, <2>2, LockFrame, TriggerLocks DEF Fire
  <2>3. CASE RunModule(r, m)
    BY <2>1, <2>3, LockFrame, TriggerLocks DEF RunModule
  <2> QED
    BY <1>1, <2>2, <2>3
<1>2. CASE Acquire(r)
  <2>1. CASE runs[r].m \in running
    BY <1>2, <2>1, LockFrame DEF Acquire, NoRun, Holding
  <2>2. CASE runs[r].m \notin running
    <3>1. running' = running \cup {runs[r].m}
      BY <1>2, <2>2 DEF Acquire
    <3>2. \A s \in Slots, m \in Modules :
            Holding(s, m)' <=> Holding(s, m) \/ (s = r /\ m = runs[r].m)
      BY <1>0, <1>2, <2>2 DEF Acquire, Goto, Holding, RunRecs
    <3> QED
      BY <1>0, <2>2, <3>1, <3>2 DEF LocksExact
  <2> QED
    BY <2>1, <2>2
<1>3. CASE Check(r) \/ Track(r) \/ Return(r) \/ Panic(r) \/ Finish(r)
  <2>1. running' = running
    BY <1>3 DEF Check, Track, Return, Panic, Finish
  <2>2. ASSUME NEW s \in Slots, NEW m \in Modules PROVE Holding(s, m)' <=> Holding(s, m)
    BY <1>0, <1>3 DEF Check, Track, Return, Panic, Finish, Goto, Holding, RunRecs
  <2> QED
    BY <2>1, <2>2, LockFrame
<1>4. CASE Release(r)
  <2>1. running' = running \ {runs[r].m}
    BY <1>4 DEF Release
  <2>2. \A s \in Slots, m \in Modules : Holding(s, m)' <=> Holding(s, m) /\ s # r
    BY <1>4 DEF Release, NoRun, Holding
  <2>3. Holding(r, runs[r].m)
    BY <1>4 DEF Release, Holding
  <2>4. \A m \in Modules : Holding(r, m) => m = runs[r].m
    BY DEF Holding
  <2> QED
    BY <1>0, <2>1, <2>2, <2>3, <2>4 DEF LocksExact
<1> QED
  BY <1>1, <1>2, <1>3, <1>4 DEF RunStep

LEMMA LoaderLocks == ASSUME LockInv, LoaderStep PROVE LocksExact'
<1> USE DEF LockInv, TypeInv, TypeOK
<1>1. running' = running
  BY DEF LoaderStep, Reload, Clear, ReadConfig, AddJob, Start, loaderVars
<1>2. CASE UNCHANGED runs
  BY <1>1, <1>2, LockFrame DEF Holding
<1>3. CASE AddJob
  BY <1>1, <1>2, <1>3, TriggerLocks, LockFrame DEF AddJob
<1> QED
  BY <1>2, <1>3 DEF LoaderStep, Reload, Clear, ReadConfig, Start

\* In a fresh process nothing is locked and nothing held.
LEMMA FreshLocks == running = {} /\ runs = NoRuns => LocksExact
<1> SUFFICES ASSUME running = {}, runs = NoRuns PROVE LocksExact
  OBVIOUS
<1>1. \A r \in Slots : runs[r].pc = "free"
  BY DEF NoRuns, NoRun
<1> QED
  BY <1>1 DEF LocksExact, Holding

LEMMA FreshLocksPrime == running' = {} /\ runs' = NoRuns => LocksExact'
<1> SUFFICES ASSUME running' = {}, runs' = NoRuns PROVE LocksExact'
  OBVIOUS
<1>1. \A r \in Slots : runs'[r].pc = "free"
  BY DEF NoRuns, NoRun
<1> QED
  BY <1>1 DEF LocksExact, Holding

LEMMA LockStep == LockInv /\ [Next]_vars => LockInv'
<1> SUFFICES ASSUME LockInv, [Next]_vars PROVE LocksExact'
  BY TypeStep DEF LockInv
<1>1. CASE UNCHANGED <<running, runs>>
  BY <1>1, LockFrame DEF LockInv, Holding
<1>2. CASE \E q \in Requests :
             \/ HandlerStep(q)
             \/ \E m \in Modules : Toggle(q, m) \/ \E c \in Configs : SaveConfig(q, m, c)
  BY <1>1, <1>2
  DEF HandlerStep, SetEnabled, ReadField, WriteField, TriggerReload, Toggle, SaveConfig, handlerVars
<1>3. CASE Restart
  BY <1>3, FreshLocksPrime DEF Restart
<1> QED
  BY <1>1, <1>2, <1>3, RunLocks, LoaderLocks DEF Next, vars

(* A lock is held exactly by one run between TryAcquireRun and ReleaseRun, *)
(* with any number of panics, reloads, disabled modules and restarts.      *)
THEOREM LocksAreExact == Spec => []LocksExact
<1>1. Init => LockInv
  BY TypeInit, FreshLocks DEF LockInv, Init
<1>2. LockInv => LocksExact
  BY DEF LockInv
<1> QED
  BY <1>1, <1>2, LockStep, PTL DEF Spec

-----------------------------------------------------------------------------
(***************************************************************************)
(* The refinement: Track begins an execution, Finish and Panic end it.     *)
(***************************************************************************)

\* A step of the run r that leaves every other run alone.
LEMMA OthersWork ==
  ASSUME TypeOK, NEW r \in Slots, NEW new, runs' = [runs EXCEPT ![r] = new],
         NEW s \in Slots, s # r, NEW m \in Modules
  PROVE  Working(s, m)' <=> Working(s, m)
BY DEF TypeOK, Working

\* A step after which the same runs work.
LEMMA WorkFrame ==
  ASSUME \A r \in Slots, m \in Modules : Working(r, m)' <=> Working(r, m)
  PROVE  Executing' = Executing
<1>1. \A m \in Modules : {r \in Slots : Working(r, m)'} = {r \in Slots : Working(r, m)}
  OBVIOUS
<1> QED
  BY <1>1 DEF Executing

\* A step that changes who works on one module.
LEMMA WorkSet ==
  ASSUME NEW m \in Modules, NEW S,
         \A n \in Modules \ {m} : {r \in Slots : Working(r, n)'} = {r \in Slots : Working(r, n)},
         {r \in Slots : Working(r, m)'} = S
  PROVE  Executing' = [Executing EXCEPT ![m] = S]
<1>1. Executing' = [n \in Modules |-> {r \in Slots : Working(r, n)'}]
  BY DEF Executing
<1>2. Executing = [n \in Modules |-> {r \in Slots : Working(r, n)}]
  BY DEF Executing
<1>3. Executing' \in [Modules -> SUBSET Slots] /\ Executing \in [Modules -> SUBSET Slots]
  BY <1>1, <1>2
<1>4. \A n \in Modules : Executing'[n] = [Executing EXCEPT ![m] = S][n]
  <2> SUFFICES ASSUME NEW n \in Modules PROVE Executing'[n] = [Executing EXCEPT ![m] = S][n]
    OBVIOUS
  <2>1. Executing'[n] = {r \in Slots : Working(r, n)'}
    BY <1>1
  <2>2. Executing[n] = {r \in Slots : Working(r, n)}
    BY <1>2
  <2> QED
    BY <1>3, <2>1, <2>2
<1> QED
  BY <1>3, <1>4

\* The run with the lock is the only one that can be at work.
LEMMA OnlyHolderWorks ==
  ASSUME LocksExact, NEW r \in Slots, NEW m \in Modules, Holding(r, m),
         NEW s \in Slots, Working(s, m)
  PROVE  s = r
<1>1. Holding(s, m)
  BY DEF Working, Holding
<1> QED
  BY <1>1 DEF LocksExact

\* When one run's work on m begins, or ends.
LEMMA WorkChanges ==
  ASSUME LockInv, NEW r \in Slots, NEW m \in Modules, Holding(r, m), runs'[r].m = m,
         \A s \in Slots, n \in Modules : s # r => (Working(s, n)' <=> Working(s, n))
  PROVE  /\ ~Working(r, m) /\ Working(r, m)' => Flight!Begin(m, r)
         /\ Working(r, m) /\ ~Working(r, m)' => Flight!End(m)
<1> USE DEF LockInv
<1>1. \A n \in Modules : n # m => ~Working(r, n) /\ ~Working(r, n)'
  BY DEF Holding, Working
<1>2. \A s \in Slots : s # r => ~Working(s, m) /\ ~Working(s, m)'
  BY OnlyHolderWorks
<1>3. \A n \in Modules \ {m} : {s \in Slots : Working(s, n)'} = {s \in Slots : Working(s, n)}
  BY <1>1
<1>4. ASSUME ~Working(r, m), Working(r, m)' PROVE Flight!Begin(m, r)
  <2>1. {s \in Slots : Working(s, m)} = {} /\ {s \in Slots : Working(s, m)'} = {r}
    BY <1>2, <1>4
  <2>2. Executing[m] = {} /\ Executing' = [Executing EXCEPT ![m] = {r}]
    BY <1>3, <2>1, WorkSet DEF Executing
  <2> QED
    BY <2>2 DEF Flight!Begin
<1>5. ASSUME Working(r, m), ~Working(r, m)' PROVE Flight!End(m)
  <2>1. {s \in Slots : Working(s, m)} = {r} /\ {s \in Slots : Working(s, m)'} = {}
    BY <1>2, <1>5
  <2>2. Executing[m] # {} /\ Executing' = [Executing EXCEPT ![m] = {}]
    BY <1>3, <2>1, WorkSet DEF Executing
  <2> QED
    BY <2>2 DEF Flight!End
<1> QED
  BY <1>4, <1>5

LEMMA RunFlights ==
  ASSUME LockInv, NEW r \in Slots,
         RunStep(r) \/ \E m \in Modules : Fire(r, m) \/ RunModule(r, m)
  PROVE  [Flight!Next]_Executing
<1> USE DEF LockInv, TypeInv
<1>0. runs[r] \in RunRecs /\ runs[r].m \in Modules
  BY DEF TypeOK, RunRecs
<1>1. PICK new : runs' = [runs EXCEPT ![r] = new]
  BY DEF RunStep, Acquire, Check, Track, Return, Panic, Finish, Release, Fire, RunModule, Goto
<1>2. \A s \in Slots, n \in Modules : s # r => (Working(s, n)' <=> Working(s, n))
  BY <1>1, OthersWork
<1>3. CASE \/ Acquire(r) \/ Check(r) \/ Return(r) \/ Release(r)
           \/ \E m \in Modules : Fire(r, m) \/ RunModule(r, m)
  <2>1. CASE Return(r)
    BY <1>0, <1>2, <2>1, WorkFrame DEF TypeOK, Return, Goto, Working, RunRecs
  <2>2. CASE Acquire(r) \/ Check(r) \/ Release(r)
    <3>1. \A m \in Modules : ~Working(r, m)' /\ ~Working(r, m)
      BY <1>0, <2>2 DEF TypeOK, Acquire, Check, Release, Goto, NoRun, Working, RunRecs
    <3> QED
      BY <1>2, <3>1, WorkFrame
  <2>3. ASSUME NEW m \in Modules, Fire(r, m) \/ RunModule(r, m) PROVE Executing' = Executing
    <3>0. PICK v, by : runs[r].pc = "free" /\ runs' = [runs EXCEPT ![r] = Triggered(m, v, by)]
      BY <2>3 DEF Fire, RunModule
    <3>1. runs[r].pc = "free" /\ runs'[r].pc = "fired"
      BY <3>0 DEF TypeOK, Triggered, NoRun
    <3> QED
      BY <1>2, <3>1, WorkFrame DEF Working
  <2> QED
    BY <1>3, <2>1, <2>2, <2>3
<1>4. CASE Track(r) \/ Panic(r) \/ Finish(r)
  <2> DEFINE m == runs[r].m
  <2>1. Holding(r, m) /\ runs'[r].m = m
    BY <1>0, <1>4 DEF TypeOK, Track, Panic, Finish, Goto, Holding, RunRecs
  <2>2. (~Working(r, m) /\ Working(r, m)') \/ (Working(r, m) /\ ~Working(r, m)')
    BY <1>0, <1>4 DEF TypeOK, Track, Panic, Finish, Goto, Working, RunRecs
  <2>3. Flight!Begin(m, r) \/ Flight!End(m)
    BY <1>0, <1>2, <2>1, <2>2, WorkChanges
  <2> QED
    BY <1>0, <2>3 DEF Flight!Next
<1> QED
  BY <1>3, <1>4 DEF RunStep

LEMMA FlightStep == LockInv /\ [Next]_vars => [Flight!Next]_Executing
<1> SUFFICES ASSUME LockInv, [Next]_vars PROVE [Flight!Next]_Executing
  OBVIOUS
<1> USE DEF LockInv, TypeInv
<1>1. CASE UNCHANGED runs
  BY <1>1, WorkFrame DEF Working
<1>2. CASE \E q \in Requests :
             \/ HandlerStep(q)
             \/ \E m \in Modules : Toggle(q, m) \/ \E c \in Configs : SaveConfig(q, m, c)
  BY <1>1, <1>2
  DEF HandlerStep, SetEnabled, ReadField, WriteField, TriggerReload, Toggle, SaveConfig, handlerVars
<1>3. CASE AddJob
  <2>1. ASSUME NEW r \in Slots, runs[r].pc = "free",
               runs' = [runs EXCEPT ![r] = Triggered(loader.m, loader.got.v, "start")]
        PROVE  Executing' = Executing
    <3>1. runs'[r].pc = "fired"
      BY <2>1 DEF TypeOK, Triggered, NoRun
    <3>2. \A m \in Modules : Working(r, m)' <=> Working(r, m)
      BY <2>1, <3>1 DEF Working
    <3> QED
      BY <2>1, <3>2, OthersWork, WorkFrame
  <2> QED
    BY <1>1, <1>3, <2>1 DEF AddJob
<1>4. CASE LoaderStep
  BY <1>1, <1>3, <1>4 DEF LoaderStep, Reload, Clear, ReadConfig, Start
<1>5. CASE Restart
  <2>1. \A r \in Slots : runs'[r].pc = "free"
    BY <1>5 DEF Restart, NoRuns, NoRun
  <2>2. \A m \in Modules : {r \in Slots : Working(r, m)'} = {}
    BY <2>1 DEF Working
  <2> QED
    BY <2>2 DEF Executing, Flight!Next, Flight!Stop
<1> QED
  BY <1>1, <1>2, <1>4, <1>5, RunFlights DEF Next, vars

(* The registry implements SingleFlight: however a module is triggered,    *)
(* at most one run executes it, through reloads, panics and restarts.      *)
THEOREM AtMostOneRun == Spec => OneAtATime
<1>1. Init => LockInv
  BY TypeInit, FreshLocks DEF LockInv, Init
<1>2. Init => Flight!Init
  <2> SUFFICES ASSUME Init PROVE Flight!Init
    OBVIOUS
  <2>1. \A r \in Slots : runs[r].pc = "free"
    BY DEF Init, NoRuns, NoRun
  <2>2. \A m \in Modules : {r \in Slots : Working(r, m)} = {}
    BY <2>1 DEF Working
  <2> QED
    BY <2>2 DEF Executing, Flight!Init
<1> QED
  BY <1>1, <1>2, LockStep, FlightStep, PTL DEF Spec, OneAtATime, Flight!Spec

-----------------------------------------------------------------------------
(***************************************************************************)
(* Reloads and cron runs.  While the loader rebuilds, no job is in force,  *)
(* so nothing fires; and it begins to rebuild when no cron run is left.    *)
(***************************************************************************)
Cron(r) == runs[r].pc # "free" /\ runs[r].by = "cron"

Idle      == loader.pc # "wait" => jobs = NoJobs
Drained   == loader.pc \in {"load", "add"} => \A r \in Slots : ~Cron(r)
Versioned == \A r \in Slots : runs[r].pc # "free" => runs[r].v # None
CronInv   == TypeInv /\ Idle /\ Drained /\ Versioned /\ NoOldCron

\* A step that neither loads nor triggers anything.
LEMMA CronFrame ==
  ASSUME CronInv, UNCHANGED <<loader, jobs>>,
         \A r \in Slots : \/ runs'[r].pc = "free"
                          \/ /\ runs[r].pc # "free" /\ runs'[r].m = runs[r].m
                             /\ runs'[r].v = runs[r].v /\ runs'[r].by = runs[r].by
  PROVE  (Idle /\ Drained /\ Versioned /\ NoOldCron)'
BY DEF CronInv, Idle, Drained, Versioned, NoOldCron, Cron, NoJobs

LEMMA RunCron ==
  ASSUME CronInv, NEW r \in Slots,
         RunStep(r) \/ \E m \in Modules : Fire(r, m) \/ RunModule(r, m)
  PROVE  (Idle /\ Drained /\ Versioned /\ NoOldCron)'
<1> USE DEF CronInv, TypeInv, TypeOK
<1>0. runs[r] \in RunRecs
  OBVIOUS
<1>1. UNCHANGED <<loader, jobs>>
  BY DEF RunStep, Acquire, Check, Track, Return, Panic, Finish, Release, Fire, RunModule, runVars
<1>2. CASE RunStep(r)
  <2>1. \A s \in Slots : s # r => runs'[s] = runs[s]
    BY <1>2 DEF RunStep, Acquire, Check, Track, Return, Panic, Finish, Release, Goto
  <2>2. \/ runs'[r].pc = "free"
        \/ /\ runs[r].pc # "free" /\ runs'[r].m = runs[r].m
           /\ runs'[r].v = runs[r].v /\ runs'[r].by = runs[r].by
    <3>1. CASE Acquire(r)
      BY <1>0, <3>1 DEF Acquire, Goto, NoRun, RunRecs
    <3>2. CASE Check(r) \/ Return(r) \/ Panic(r) \/ Finish(r)
      BY <1>0, <3>2 DEF Check, Return, Panic, Finish, Goto, RunRecs
    <3>3. CASE Track(r)
      BY <1>0, <3>3 DEF Track, Goto, RunRecs
    <3>4. CASE Release(r)
      BY <3>4 DEF Release, NoRun
    <3> QED
      BY <1>2, <3>1, <3>2, <3>3, <3>4 DEF RunStep
  <2> QED
    BY <1>1, <2>1, <2>2, CronFrame
<1>3. ASSUME NEW m \in Modules, Fire(r, m) PROVE (Idle /\ Drained /\ Versioned /\ NoOldCron)'
  <2>1. jobs[m] # None /\ runs' = [runs EXCEPT ![r] = Triggered(m, jobs[m], "cron")]
    BY <1>3 DEF Fire
  <2>2. loader.pc = "wait"
    BY <2>1 DEF Idle, NoJobs
  <2>3. runs'[r].m = m /\ runs'[r].v = jobs[m]
    BY <2>1 DEF Triggered, NoRun
  <2> QED
    BY <1>1, <2>1, <2>2, <2>3 DEF Idle, Drained, Versioned, NoOldCron
<1>4. ASSUME NEW m \in Modules, RunModule(r, m) PROVE (Idle /\ Drained /\ Versioned /\ NoOldCron)'
  <2>1. reg[m].v # None /\ runs' = [runs EXCEPT ![r] = Triggered(m, reg[m].v, "manual")]
    BY <1>4, ConfigFields DEF RunModule
  <2>2. runs'[r].by = "manual" /\ runs'[r].v # None
    BY <2>1 DEF Triggered, NoRun
  <2> QED
    BY <1>1, <2>1, <2>2 DEF Idle, Drained, Versioned, NoOldCron, Cron
<1> QED
  BY <1>2, <1>3, <1>4

LEMMA LoaderCron == ASSUME CronInv, LoaderStep PROVE (Idle /\ Drained /\ Versioned /\ NoOldCron)'
<1> USE DEF CronInv, TypeInv, TypeOK
<1> loader \in LoaderRecs
  OBVIOUS
<1>1. CASE Reload
  BY <1>1 DEF Reload, LoaderRecs, Idle, Drained, Versioned, NoOldCron, Cron
<1>2. CASE Clear
  BY <1>2 DEF Clear, Loading, Idle, Drained, Versioned, NoOldCron, Cron
<1>3. ASSUME NEW m \in Modules, ReadConfig(m) PROVE (Idle /\ Drained /\ Versioned /\ NoOldCron)'
  <2>1. loader.pc = "load" /\ loader'.pc = "add" /\ UNCHANGED <<jobs, runs>>
    BY <1>3 DEF ReadConfig, LoaderRecs
  <2> QED
    BY <2>1 DEF Idle, Drained, Versioned, NoOldCron, Cron, NoJobs
<1>4. CASE AddJob
  <2>1. loader.pc = "add" /\ loader'.pc = "load" /\ UNCHANGED jobs
    BY <1>4 DEF AddJob, Loading
  <2>2. CASE UNCHANGED runs
    BY <2>1, <2>2 DEF Idle, Drained, Versioned, NoOldCron, Cron, NoJobs
  <2>3. ASSUME NEW r \in Slots, loader.got.on,
               runs' = [runs EXCEPT ![r] = Triggered(loader.m, loader.got.v, "start")]
        PROVE  (Idle /\ Drained /\ Versioned /\ NoOldCron)'
    <3>1. loader.got.v # None
      BY <2>3, ConfigFields DEF LoaderRecs
    <3>2. runs'[r].by = "start" /\ runs'[r].v # None
      BY <2>3, <3>1 DEF Triggered, NoRun
    <3> QED
      BY <2>1, <2>3, <3>2 DEF Idle, Drained, Versioned, NoOldCron, Cron, NoJobs
  <2> QED
    BY <1>4, <2>2, <2>3 DEF AddJob
<1>5. CASE Start
  <2>1. loader.pc = "load" /\ loader'.pc = "wait" /\ UNCHANGED runs
    BY <1>5 DEF Start, Loading
  <2> QED
    BY <2>1 DEF Idle, Drained, Versioned, NoOldCron, Cron
<1> QED
  BY <1>1, <1>2, <1>3, <1>4, <1>5 DEF LoaderStep

LEMMA CronInit == Init => CronInv
<1> SUFFICES ASSUME Init PROVE Idle /\ Drained /\ Versioned /\ NoOldCron
  BY TypeInit DEF CronInv
<1>1. \A r \in Slots : runs[r].pc = "free"
  BY DEF Init, NoRuns, NoRun
<1> QED
  BY <1>1 DEF Init, Idle, Drained, Versioned, NoOldCron, Cron

LEMMA CronStep == CronInv /\ [Next]_vars => CronInv'
<1> SUFFICES ASSUME CronInv, [Next]_vars PROVE (Idle /\ Drained /\ Versioned /\ NoOldCron)'
  BY TypeStep DEF CronInv
<1>1. CASE UNCHANGED <<loader, jobs, runs>>
  BY <1>1 DEF CronInv, Idle, Drained, Versioned, NoOldCron, Cron, NoJobs
<1>2. CASE \E q \in Requests :
             \/ HandlerStep(q)
             \/ \E m \in Modules : Toggle(q, m) \/ \E c \in Configs : SaveConfig(q, m, c)
  BY <1>1, <1>2
  DEF HandlerStep, SetEnabled, ReadField, WriteField, TriggerReload, Toggle, SaveConfig, handlerVars
<1>3. CASE Restart
  <2>1. \A r \in Slots : runs'[r].pc = "free"
    BY <1>3 DEF Restart, NoRuns, NoRun
  <2> QED
    BY <1>3, <2>1 DEF Restart, Idle, Drained, Versioned, NoOldCron, Cron, NoJobs
<1> QED
  BY <1>1, <1>2, <1>3, RunCron, LoaderCron DEF Next, vars

(* A reload leaves no cron run of the previous scheduler behind: every     *)
(* live one runs the version its job has now.                              *)
THEOREM CronIsCurrent == Spec => []NoOldCron
<1>1. CronInv => NoOldCron
  BY DEF CronInv
<1> QED
  BY <1>1, CronInit, CronStep, PTL DEF Spec
=============================================================================
