------------------------------ MODULE ModuleRun ------------------------------
(***************************************************************************)
(* The process around the modules: the configuration table, the registry   *)
(* with its execution locks, the cron scheduler, the goroutine that        *)
(* rebuilds both when the configuration changes, the runs, and the web     *)
(* handlers that save, delete, toggle and run a module.                    *)
(*                                                                         *)
(* One action is one table access, one critical section of the registry or *)
(* one channel operation; goroutines interleave between them.  The module  *)
(* function itself (AlistSync, Alist2Strm, ...) is one step that returns   *)
(* or panics.                                                              *)
(*                                                                         *)
(* Not here: the shutdown on SIGTERM (a stop of the process is Restart),   *)
(* configurations the parsers reject, and two configurations of one type   *)
(* (the loader reads a type's list at once; here each module is read on    *)
(* its own, which allows every outcome of the joint read and more).        *)
(***************************************************************************)
EXTENDS Integers, FiniteSets

CONSTANTS
  Modules,    \* the module configurations, by type and ID
  Versions,   \* what a configuration says apart from its enable flag
  OnStart,    \* the modules configured with run_on_start
  Slots,      \* the goroutines that can run a module at one time
  Requests,   \* the web requests served at one time
  MaxFaults,  \* bound on the panics and failed table accesses
  Restarts,   \* whether the process may be restarted
  None        \* no version: not in the table, the registry or the scheduler

ASSUME ModulesAssumption  == /\ Modules # {} /\ IsFiniteSet(Modules)
                             /\ OnStart \subseteq Modules
ASSUME VersionsAssumption == Versions # {} /\ None \notin Versions
ASSUME SlotsAssumption    == Slots # {} /\ IsFiniteSet(Slots)
ASSUME RequestsAssumption == IsFiniteSet(Requests)
ASSUME BoundsAssumption   == MaxFaults \in Nat /\ Restarts \in BOOLEAN

VARIABLES
  cfg,      \* the module_configs table
  rows,     \* the number of task_runs rows of each module in state running
  reg,      \* ModuleRegistry.entries
  running,  \* ModuleRegistry.running: the execution locks
  jobs,     \* the version each job of the started scheduler runs
  signal,   \* whether reloadCh holds a signal
  loader,   \* main during start-up, then the reload goroutine
  runs,     \* the goroutines that run a module
  gauge,    \* metricsState.Running
  req,      \* the web handlers
  faults    \* faults so far

vars == <<cfg, rows, reg, running, jobs, signal, loader, runs, gauge, req, faults>>

-----------------------------------------------------------------------------
\* A configuration in the table, or an entry of the registry, or none.
Absent  == [v |-> None, on |-> FALSE]
Configs == [v : Versions, on : BOOLEAN] \cup {Absent}

NoRun   == [m |-> CHOOSE m \in Modules : TRUE, v |-> None, by |-> "cron",
            row |-> FALSE, pc |-> "free"]
RunRecs == [m : Modules, v : Versions \cup {None}, by : {"cron", "manual", "start"},
            row : BOOLEAN,    \* whether its task_runs row was written
            pc : {"free", "fired", "held", "enabled", "work", "done", "release"}]

LoaderRecs == [pc : {"wait", "drain", "load", "add"}, boot : BOOLEAN,
               todo : SUBSET Modules, m : Modules, got : Configs]
Loading(boot) == [pc |-> "load", boot |-> boot, todo |-> Modules,
                  m |-> CHOOSE m \in Modules : TRUE, got |-> Absent]

NoRequest   == [m |-> CHOOSE m \in Modules : TRUE, pc |-> "idle", on |-> FALSE, doc |-> Absent]
RequestRecs == [m : Modules, pc : {"idle", "flip", "read", "write", "trigger"},
                on : BOOLEAN, doc : Configs]

TypeOK ==
  /\ cfg \in [Modules -> Configs]
  /\ rows \in [Modules -> Int]
  /\ reg \in [Modules -> Configs]
  /\ running \subseteq Modules
  /\ jobs \in [Modules -> Versions \cup {None}]
  /\ signal \in BOOLEAN
  /\ loader \in LoaderRecs
  /\ runs \in [Slots -> RunRecs]
  /\ gauge \in Int
  /\ req \in [Requests -> RequestRecs]
  /\ faults \in 0 .. MaxFaults

\* The memory of a process that has opened the database and serves the web.
NoEntries  == [m \in Modules |-> Absent]
NoJobs     == [m \in Modules |-> None]
NoRuns     == [r \in Slots |-> NoRun]
NoRequests == [q \in Requests |-> NoRequest]

Init ==
  /\ cfg \in [Modules -> Configs]
  /\ rows = [m \in Modules |-> 0]
  /\ reg = NoEntries /\ running = {} /\ jobs = NoJobs
  /\ signal = FALSE /\ loader = Loading(TRUE)
  /\ runs = NoRuns /\ gauge = 0 /\ req = NoRequests
  /\ faults = 0

\* One more fault, or none: a bounded number of accesses may fail.
Fault   == faults < MaxFaults /\ faults' = faults + 1
NoFault == UNCHANGED faults

-----------------------------------------------------------------------------
(***************************************************************************)
(* Runs.  Cron, run_on_start and the web console all end in Acquire: a     *)
(* trigger of a module whose lock is taken is dropped.                     *)
(***************************************************************************)
runVars == <<cfg, reg, jobs, signal, loader, req>>

Goto(r, l) == runs' = [runs EXCEPT ![r].pc = l]
Triggered(m, v, by) == [NoRun EXCEPT !.m = m, !.v = v, !.by = by, !.pc = "fired"]

\* The started scheduler fires a module's job.
Fire(r, m) ==
  /\ runs[r].pc = "free" /\ jobs[m] # None
  /\ runs' = [runs EXCEPT ![r] = Triggered(m, jobs[m], "cron")]
  /\ UNCHANGED <<runVars, rows, running, gauge, faults>>

\* POST .../run: the handler reads a copy of the entry, closure included.
RunModule(r, m) ==
  /\ runs[r].pc = "free" /\ reg[m].on
  /\ runs' = [runs EXCEPT ![r] = Triggered(m, reg[m].v, "manual")]
  /\ UNCHANGED <<runVars, rows, running, gauge, faults>>

\* TryAcquireRun: a taken lock drops the trigger (a manual one is answered 409).
Acquire(r) ==
  LET m == runs[r].m IN
  /\ runs[r].pc = "fired"
  /\ IF m \in running
     THEN runs' = [runs EXCEPT ![r] = NoRun] /\ UNCHANGED running
     ELSE Goto(r, "held") /\ running' = running \cup {m}
  /\ UNCHANGED <<runVars, rows, gauge, faults>>

(* Mutant: a check that returns before the deferred release is in place. *)
CheckKeepsLock(r) ==
  /\ runs[r].pc = "held"
  /\ runs' = [runs EXCEPT ![r] = IF reg[@.m].on THEN [@ EXCEPT !.pc = "enabled"] ELSE NoRun]
  /\ UNCHANGED <<runVars, rows, running, gauge, faults>>

\* safeRun looks the module up again: cleared or disabled, nothing is run.
Check(r) ==
  /\ runs[r].pc = "held"
  /\ Goto(r, IF reg[runs[r].m].on THEN "enabled" ELSE "release")
  /\ UNCHANGED <<runVars, rows, running, gauge, faults>>

\* TrackRun counts the run and writes its row; a failed write is ignored.
Track(r) ==
  LET m == runs[r].m IN
  /\ runs[r].pc = "enabled"
  /\ gauge' = gauge + 1
  /\ \/ /\ runs' = [runs EXCEPT ![r].pc = "work", ![r].row = TRUE]
        /\ rows' = [rows EXCEPT ![m] = @ + 1]
        /\ NoFault
     \/ Fault /\ Goto(r, "work") /\ UNCHANGED rows
  /\ UNCHANGED <<runVars, running>>

\* The module function returns, with or without an error ...
Return(r) ==
  /\ runs[r].pc = "work" /\ Goto(r, "done")
  /\ UNCHANGED <<runVars, rows, running, gauge, faults>>

(* Mutant: a panic that takes the goroutine past the release. *)
PanicKeepsLock(r) ==
  /\ runs[r].pc = "work" /\ Fault /\ runs' = [runs EXCEPT ![r] = NoRun]
  /\ UNCHANGED <<runVars, rows, running, gauge>>

\* ... or panics: TrackRun's second half is skipped, safeRun recovers.
Panic(r) ==
  /\ runs[r].pc = "work" /\ Fault /\ Goto(r, "release")
  /\ UNCHANGED <<runVars, rows, running, gauge>>

\* The second half of TrackRun; a failed update is ignored.
Finish(r) ==
  LET m == runs[r].m IN
  /\ runs[r].pc = "done" /\ Goto(r, "release")
  /\ gauge' = gauge - 1
  /\ \/ NoFault /\ rows' = [rows EXCEPT ![m] = IF runs[r].row THEN @ - 1 ELSE @]
     \/ runs[r].row /\ Fault /\ UNCHANGED rows
  /\ UNCHANGED <<runVars, running>>

\* The deferred ReleaseRun.
Release(r) ==
  /\ runs[r].pc = "release"
  /\ running' = running \ {runs[r].m}
  /\ runs' = [runs EXCEPT ![r] = NoRun]
  /\ UNCHANGED <<runVars, rows, gauge, faults>>

RunStep(r) == \/ Acquire(r) \/ Check(r) \/ Track(r) \/ Return(r) \/ Panic(r)
              \/ Finish(r) \/ Release(r)

-----------------------------------------------------------------------------
(***************************************************************************)
(* The loader: main adds the jobs once, firing run_on_start; the reload    *)
(* goroutine then stops the scheduler, waits for its runs (not for manual  *)
(* ones), clears the registry's entries (not its locks) and adds them      *)
(* again from the table.                                                   *)
(***************************************************************************)
loaderVars == <<cfg, rows, running, gauge, req>>

\* The goroutine takes the signal and stops the scheduler.
Reload ==
  /\ loader.pc = "wait" /\ signal
  /\ signal' = FALSE
  /\ jobs' = NoJobs
  /\ loader' = [loader EXCEPT !.pc = "drain"]
  /\ UNCHANGED <<loaderVars, reg, runs, faults>>

(* Mutant: a stop that does not wait for the runs of the scheduler. *)
ClearAtOnce ==
  /\ loader.pc = "drain"
  /\ reg' = NoEntries
  /\ loader' = Loading(FALSE)
  /\ UNCHANGED <<loaderVars, jobs, signal, runs, faults>>

(* Mutant: a Clear that empties the table of locks as well. *)
ClearLocks ==
  /\ loader.pc = "drain"
  /\ \A r \in Slots : runs[r].pc # "free" => runs[r].by # "cron"
  /\ reg' = NoEntries /\ running' = {}
  /\ loader' = Loading(FALSE)
  /\ UNCHANGED <<cfg, rows, gauge, req, jobs, signal, runs, faults>>

\* stopActive returns when no run of the scheduler is left; Clear follows.
Clear ==
  /\ loader.pc = "drain"
  /\ \A r \in Slots : runs[r].pc # "free" => runs[r].by # "cron"
  /\ reg' = NoEntries
  /\ loader' = Loading(FALSE)
  /\ UNCHANGED <<loaderVars, jobs, signal, runs, faults>>

\* ListModuleConfigs; when it fails the list is empty.
ReadConfig(m) ==
  /\ loader.pc = "load" /\ m \in loader.todo
  /\ \E c \in {cfg[m], Absent} :
       /\ IF c = cfg[m] THEN NoFault ELSE Fault
       /\ loader' = [loader EXCEPT !.pc = "add", !.m = m, !.got = c]
  /\ UNCHANGED <<loaderVars, reg, jobs, signal, runs>>

\* Register and AddFunc; at start-up run_on_start triggers the module too.
AddJob ==
  LET m == loader.m
      starting == loader.boot /\ m \in OnStart /\ loader.got.on IN
  /\ loader.pc = "add"
  /\ reg' = [reg EXCEPT ![m] = loader.got]
  /\ loader' = [Loading(loader.boot) EXCEPT !.todo = loader.todo \ {m}]
  /\ IF starting
     THEN \E r \in Slots :
            /\ runs[r].pc = "free"
            /\ runs' = [runs EXCEPT ![r] = Triggered(m, loader.got.v, "start")]
     ELSE UNCHANGED runs
  /\ UNCHANGED <<loaderVars, jobs, signal, faults>>

(* Mutant: a rebuild that empties the channel when it is done. *)
StartDropsSignal ==
  /\ loader.pc = "load" /\ loader.todo = {}
  /\ jobs' = [m \in Modules |-> reg[m].v]
  /\ loader' = [Loading(FALSE) EXCEPT !.pc = "wait", !.todo = {}]
  /\ signal' = FALSE
  /\ UNCHANGED <<loaderVars, reg, runs, faults>>

\* The new scheduler is set and started, disabled modules included.
Start ==
  /\ loader.pc = "load" /\ loader.todo = {}
  /\ jobs' = [m \in Modules |-> reg[m].v]
  /\ loader' = [Loading(FALSE) EXCEPT !.pc = "wait", !.todo = {}]
  /\ UNCHANGED <<loaderVars, reg, signal, runs, faults>>

LoaderStep == Reload \/ Clear \/ (\E m \in Modules : ReadConfig(m)) \/ AddJob \/ Start

-----------------------------------------------------------------------------
(***************************************************************************)
(* The web handlers that change a configuration.  TriggerReload fills the  *)
(* channel, of capacity one, after the table was written.                  *)
(***************************************************************************)
handlerVars == <<rows, running, jobs, loader, runs, gauge>>

Await(q, l) == req' = [req EXCEPT ![q].pc = l]
Answer(q)   == req' = [req EXCEPT ![q] = NoRequest]

\* Saving (also a restore), or with c = Absent deleting, a configuration.
SaveConfig(q, m, c) ==
  /\ req[q].pc = "idle"
  /\ cfg' = [cfg EXCEPT ![m] = c]
  /\ Await(q, "trigger")
  /\ UNCHANGED <<handlerVars, reg, signal, faults>>

\* Toggle reads a copy of the entry (404 when there is none) ...
Toggle(q, m) ==
  /\ req[q].pc = "idle" /\ reg[m].v # None
  /\ req' = [req EXCEPT ![q] = [NoRequest EXCEPT !.m = m, !.pc = "flip", !.on = ~reg[m].on]]
  /\ UNCHANGED <<handlerVars, cfg, reg, signal, faults>>

(* Mutant: a SetEnabled that does not look whether the entry is still there. *)
SetEnabledBlind(q) ==
  /\ req[q].pc = "flip"
  /\ Await(q, "read") /\ reg' = [reg EXCEPT ![req[q].m].on = req[q].on]
  /\ UNCHANGED <<handlerVars, cfg, signal, faults>>

\* ... sets the flag in the registry (404 when a reload took the entry) ...
SetEnabled(q) ==
  LET m == req[q].m IN
  /\ req[q].pc = "flip"
  /\ IF reg[m].v = None
     THEN Answer(q) /\ UNCHANGED reg
     ELSE Await(q, "read") /\ reg' = [reg EXCEPT ![m].on = req[q].on]
  /\ UNCHANGED <<handlerVars, cfg, signal, faults>>

\* ... and, in UpdateModuleConfigField, reads the whole configuration ...
ReadField(q) ==
  LET m == req[q].m IN
  /\ req[q].pc = "read"
  /\ \/ /\ cfg[m].v # None /\ NoFault
        /\ req' = [req EXCEPT ![q].pc = "write", ![q].doc = cfg[m]]
     \/ cfg[m].v = None /\ NoFault /\ Answer(q)
     \/ Fault /\ Answer(q)
  /\ UNCHANGED <<handlerVars, cfg, reg, signal>>

\* ... and writes it back with the flag, where the row still exists.
WriteField(q) ==
  LET m == req[q].m IN
  /\ req[q].pc = "write"
  /\ \/ /\ NoFault /\ Await(q, "trigger")
        /\ cfg' = [cfg EXCEPT ![m] = IF @.v = None THEN @
                                      ELSE [req[q].doc EXCEPT !.on = req[q].on]]
     \/ Fault /\ Answer(q) /\ UNCHANGED cfg
  /\ UNCHANGED <<handlerVars, reg, signal>>

(* Mutant: a channel without a buffer: a signal nobody waits for is dropped. *)
TriggerUnbuffered(q) ==
  /\ req[q].pc = "trigger" /\ signal' = (loader.pc = "wait")
  /\ Answer(q)
  /\ UNCHANGED <<handlerVars, cfg, reg, faults>>

TriggerReload(q) ==
  /\ req[q].pc = "trigger" /\ signal' = TRUE
  /\ Answer(q)
  /\ UNCHANGED <<handlerVars, cfg, reg, faults>>

HandlerStep(q) == SetEnabled(q) \/ ReadField(q) \/ WriteField(q) \/ TriggerReload(q)

-----------------------------------------------------------------------------
(* Mutant: a restart that leaves the rows of the runs it killed. *)
RestartOnly ==
  /\ Restarts
  /\ reg' = NoEntries /\ running' = {} /\ jobs' = NoJobs
  /\ signal' = FALSE /\ loader' = Loading(TRUE)
  /\ runs' = NoRuns /\ gauge' = 0 /\ req' = NoRequests
  /\ UNCHANGED <<cfg, rows, faults>>

\* The process stops in any state and is started again: its memory is lost;
\* MarkInterruptedTaskRuns closes the rows, unless that update fails.
Restart ==
  /\ Restarts
  /\ reg' = NoEntries /\ running' = {} /\ jobs' = NoJobs
  /\ signal' = FALSE /\ loader' = Loading(TRUE)
  /\ runs' = NoRuns /\ gauge' = 0 /\ req' = NoRequests
  /\ \/ NoFault /\ rows' = [m \in Modules |-> 0]
     \/ Fault /\ UNCHANGED rows
  /\ UNCHANGED cfg

Next ==
  \/ \E r \in Slots : RunStep(r) \/ \E m \in Modules : Fire(r, m) \/ RunModule(r, m)
  \/ LoaderStep
  \/ \E q \in Requests :
       \/ HandlerStep(q)
       \/ \E m \in Modules : Toggle(q, m) \/ \E c \in Configs : SaveConfig(q, m, c)
  \/ Restart

Spec == Init /\ [][Next]_vars

\* Goroutines and handlers go on, and a module function ends; nothing says
\* that a job fires or that a user does anything.
Fairness ==
  /\ \A r \in Slots : WF_vars(RunStep(r))
  /\ WF_vars(LoaderStep)
  /\ \A q \in Requests : WF_vars(HandlerStep(q))

FairSpec == Spec /\ Fairness

-----------------------------------------------------------------------------
Working(r, m)   == runs[r].m = m /\ runs[r].pc \in {"work", "done"}
Holding(r, m)   == runs[r].m = m /\ runs[r].pc \in {"held", "enabled", "work", "done", "release"}
Settled         == loader.pc = "wait" /\ ~signal /\ \A q \in Requests : req[q].pc = "idle"

(* The refinement: of one module at most one run executes at any time,     *)
(* whatever triggered it and however many reloads happen meanwhile         *)
(* (withSingleFlight, handleRunModule, and Clear keeping the locks).       *)
Executing  == [m \in Modules |-> {r \in Slots : Working(r, m)}]
Flight     == INSTANCE SingleFlight WITH Runs <- Slots, executing <- Executing
OneAtATime == Flight!Spec

(* A lock is held exactly while one run stands between TryAcquireRun and   *)
(* ReleaseRun: no path, the panic and the disabled module included, leaves *)
(* a lock behind, which would end a module's runs until a restart.         *)
LocksExact ==
  \A m \in Modules :
    /\ m \in running <=> \E r \in Slots : Holding(r, m)
    /\ \A r, s \in Slots : Holding(r, m) /\ Holding(s, m) => r = s

(* When the reload goroutine is idle and no handler is at work, registry   *)
(* and scheduler are those of the table: no signal is lost although the    *)
(* channel coalesces them, and a toggle in a reload leaves no other flag.  *)
Applied ==
  Settled /\ faults = 0 => \A m \in Modules : reg[m] = cfg[m] /\ jobs[m] = cfg[m].v

(* A cron run that outlives the stop of its scheduler is waited for: every *)
(* live cron run was started by the jobs now in force (stopActive).        *)
NoOldCron ==
  \A r \in Slots :
    runs[r].pc # "free" /\ runs[r].by = "cron" /\ loader.pc # "drain" => runs[r].v = jobs[runs[r].m]

(* A running row is the row of a live run, and the gauge their number,     *)
(* across restarts, while no panic and no failed write occurred (TrackRun, *)
(* MarkInterruptedTaskRuns).                                               *)
RowsExact ==
  faults = 0 =>
    /\ \A m \in Modules : rows[m] = Cardinality({r \in Slots : Working(r, m) /\ runs[r].row})
    /\ gauge = Cardinality({r \in Slots : \E m \in Modules : Working(r, m)})

(* A configuration in the table is put in force, unless it changes again   *)
(* or an access failed.                                                    *)
InForce(m, c) == reg[m] = c /\ jobs[m] = c.v
ConfigApplied ==
  \A m \in Modules, c \in Configs :
    cfg[m] = c ~> InForce(m, c) \/ cfg[m] # c \/ faults > 0

(* A module whose lock is taken becomes runnable again.                    *)
LocksReleased == \A m \in Modules : m \in running ~> m \notin running
=============================================================================
