----------------------------- MODULE AlistSync -----------------------------
(***************************************************************************)
(* The AlistSync module: one directory pair of one configuration,          *)
(* synchronised by server-side copies inside one OpenList/Alist instance.  *)
(*                                                                         *)
(* Actors.  Every run (cron or manual; the module registry lets only one   *)
(* be active) starts one worker per selected file and one RetryDaemon of   *)
(* its own.  A worker that gives a file up puts a task in the sync_tasks   *)
(* table and in its daemon's memory; the daemon resubmits the copy.  A     *)
(* daemon is never stopped when its run ends, so daemons accumulate.       *)
(*                                                                         *)
(* One action is one API call, one table access or one critical section:   *)
(* everything between two of them interleaves with the other actors and    *)
(* with the server, which executes accepted copies in the background.      *)
(*                                                                         *)
(* Not here: the web handlers on the queue, failing table writes and the   *)
(* offline-download tasks of older versions (module SyncQueue, see the     *)
(* README's plan); directories and FSMkdir (a failure is only logged);     *)
(* wall-clock time (a back-off may elapse at any poll); the transport's    *)
(* own resubmission of a request, which a client call's outcome absorbs.   *)
(***************************************************************************)
EXTENDS Naturals, FiniteSets

CONSTANTS
  Files,        \* the files of the pair's source directory
  MaxRuns,      \* bound on the runs of the configuration (and so on daemons)
  MaxTasks,     \* bound on the copy tasks the server ever creates
  MaxAttempts,  \* retry.max_attempts
  MissLimit,    \* copyMissLimit
  DeleteSrc,    \* the pair's delete_src
  Overwrite,    \* the pair's overwrite policy
  Dated,        \* whether the modification times of listings parse
  SameSize,     \* the files whose older destination version has the new size
  Contains,     \* <<f, g>>: the task name of g contains the file name of f
  Orderly,      \* whether the timing is the expected one, see below
  Env           \* the environment events this instance allows

(* What the environment may do:                                            *)
(*   probe      an existence probe (FSGet of a destination) fails          *)
(*   size       the daemon's FSGet of the source's size fails              *)
(*   reject     the server refuses a copy it could execute                 *)
(*   existsfirst a copy's destination is looked at before its source        *)
(*   ambiguous  an accepted copy is answered with an error                 *)
(*   remove     an FSRemove fails                                          *)
(*   lists      a task query (undone, done or info) fails                  *)
(*   forget     the server drops a copy task: cleared, or lost by a restart*)
(*   copyfail   a copy task fails                                          *)
(*   crash      the AutoFilm process stops and is started again            *)
EnvKinds == {"probe", "size", "reject", "existsfirst", "ambiguous",
             "remove", "lists", "forget", "copyfail", "crash"}

(* Orderly instances add two facts about time that no code enforces: a run  *)
(* starts only when the tasks of the runs before it are settled or dead     *)
(* letters; and a daemon has read the table before a worker of its run      *)
(* gives a file up, which takes at least one 5 s poll.                      *)

Runs    == 1 .. MaxRuns
TaskIds == 1 .. MaxTasks
Actors  == Files \cup Runs    \* a file's worker; the daemon of a run

ASSUME FilesAssumption   == Files # {} /\ IsFiniteSet(Files) /\ Files \cap Nat = {}
ASSUME BoundsAssumption  == MaxRuns \in Nat /\ MaxTasks \in Nat
ASSUME RetryAssumption   == MaxAttempts \in Nat \ {0} /\ MissLimit \in Nat \ {0}
ASSUME PairAssumption    == /\ DeleteSrc \in BOOLEAN /\ Dated \in BOOLEAN
                            /\ Overwrite \in {"never", "always", "if_newer"}
                            /\ SameSize \subseteq Files
ASSUME BindingAssumption == /\ Contains \subseteq Files \X Files
                            /\ \A f \in Files : <<f, f>> \in Contains
ASSUME EnvAssumption     == Orderly \in BOOLEAN /\ Env \subseteq EnvKinds

VARIABLES
  src,    \* source file: "full", or "none" once removed
  dst,    \* destination: "none", "part" of a copy, an "old" version or "full"
  tasks,  \* the server's copy tasks
  row,    \* the sync_tasks table, one row per destination path
  run,    \* the last run started
  pc,     \* where each actor stands
  wait,   \* locals of waitCopyDoneWith
  mem,    \* activeTasks of each daemon
  poll,   \* task pointers a daemon's poll still holds
  same,   \* those of them that are still the ones in activeTasks
  cur     \* the file a daemon is retrying

serverVars == <<src, dst, tasks>>
daemonVars == <<mem, poll, same, cur>>
vars       == <<src, dst, tasks, row, run, pc, wait, mem, poll, same, cur>>

-----------------------------------------------------------------------------
NoTask == [st |-> "none", att |-> 0]    \* absent from a table or a map
Task(st, att) == [st |-> st, att |-> att]
TaskRecs == [st : {"none", "failed", "dead", "ok"}, att : Nat]

NoCopy   == [file |-> CHOOSE f \in Files : TRUE, st |-> "none"]
CopyRecs == [file : Files, st : {"none", "running", "ok", "failed", "gone"}]

NoWait   == [bound |-> 0, ever |-> FALSE, miss |-> 0, sized |-> TRUE]
WaitRecs == [bound : 0 .. MaxTasks, ever : BOOLEAN, miss : 0 .. MissLimit, sized : BOOLEAN]

WaitPcs   == {"first", "poll", "ask", "undone", "done", "verify", "purge"}
SharedPcs == WaitPcs \cup {"idle", "copy", "copied", "partial"}
WorkerPcs == SharedPcs \cup {"listed", "queued", "clear", "save", "add"}
DaemonPcs == SharedPcs \cup {"off", "load", "fill", "scan", "size", "settle", "drop", "failed"}

TypeOK ==
  /\ src   \in [Files -> {"full", "none"}]
  /\ dst   \in [Files -> {"none", "part", "old", "full"}]
  /\ tasks \in [TaskIds -> CopyRecs]
  /\ row   \in [Files -> TaskRecs]
  /\ run   \in 0 .. MaxRuns
  /\ pc    \in [Actors -> WorkerPcs \cup DaemonPcs]
  /\ \A f \in Files : pc[f] \in WorkerPcs
  /\ \A d \in Runs : pc[d] \in DaemonPcs
  /\ wait  \in [Actors -> WaitRecs]
  /\ mem   \in [Runs -> [Files -> TaskRecs]]
  /\ poll  \in [Runs -> [Files -> TaskRecs]]
  /\ same  \in [Runs -> SUBSET Files]
  /\ cur   \in [Runs -> Files]

NoTasks == [f \in Files |-> NoTask]

Init ==
  /\ src = [f \in Files |-> "full"]
  /\ dst \in [Files -> {"none", "old"}]
  /\ tasks = [i \in TaskIds |-> NoCopy]
  /\ row = NoTasks
  /\ run = 0
  /\ pc = [a \in Actors |-> IF a \in Files THEN "idle" ELSE "off"]
  /\ wait = [a \in Actors |-> NoWait]
  /\ mem = [d \in Runs |-> NoTasks]
  /\ poll = [d \in Runs |-> NoTasks]
  /\ same = [d \in Runs |-> {}]
  /\ cur = [d \in Runs |-> CHOOSE f \in Files : TRUE]

FileOf(a) == IF a \in Files THEN a ELSE cur[a]
Goto(a, l) == pc' = [pc EXCEPT ![a] = l]

(***************************************************************************)
(* The server.  A copy is accepted when the source exists and nothing is   *)
(* at the destination, and then runs in the background; it never touches a *)
(* destination that is already complete.                                   *)
(***************************************************************************)
Fresh(i) == tasks[i].st = "none" /\ \A j \in 1 .. (i - 1) : tasks[j].st # "none"

CopyStarts(i) ==
  /\ tasks[i].st = "running" /\ dst[tasks[i].file] = "none"
  /\ dst' = [dst EXCEPT ![tasks[i].file] = "part"]
  /\ UNCHANGED <<src, tasks, row, run, pc, wait, daemonVars>>

CopyEnds(i) ==
  /\ tasks[i].st = "running"
  /\ \/ /\ src[tasks[i].file] = "full"
        /\ tasks' = [tasks EXCEPT ![i].st = "ok"]
        /\ dst' = [dst EXCEPT ![tasks[i].file] = "full"]
     \/ /\ src[tasks[i].file] = "none" \/ "copyfail" \in Env
        /\ tasks' = [tasks EXCEPT ![i].st = "failed"]
        /\ UNCHANGED dst
  /\ UNCHANGED <<src, row, run, pc, wait, daemonVars>>

TaskForgotten(i) ==
  /\ "forget" \in Env
  /\ tasks[i].st \in {"running", "ok", "failed"}
  /\ tasks' = [tasks EXCEPT ![i].st = "gone"]
  /\ UNCHANGED <<src, dst, row, run, pc, wait, daemonVars>>

(* FSRemove of a destination file; every caller goes on whatever it says.   *)
TryRemoveDst(f) ==
  \/ dst' = [dst EXCEPT ![f] = "none"]
  \/ "remove" \in Env /\ UNCHANGED dst

-----------------------------------------------------------------------------
(***************************************************************************)
(* A run: New and Run, then syncPair.                                      *)
(***************************************************************************)

(* Nothing is left to retry, in the table, in a daemon's memory or on the   *)
(* way from one to the other.                                               *)
Loaded == \A d \in Runs : pc[d] \notin {"load", "fill"}
Drained ==
  /\ Loaded
  /\ \A f \in Files : row[f].st # "failed"
  /\ \A d \in Runs, f \in Files : mem[d][f].st # "failed" /\ poll[d][f].st # "failed"

(* The run holds the configuration's execution lock, creates and starts a   *)
(* daemon and lists the source.                                             *)
StartRun ==
  /\ run < MaxRuns
  /\ \A f \in Files : pc[f] = "idle"
  /\ Orderly => Drained
  /\ run' = run + 1
  /\ pc' = [a \in Actors |->
              IF a = run + 1 THEN "load"
              ELSE IF a \in Files THEN (IF src[a] = "full" THEN "listed" ELSE "idle")
              ELSE pc[a]]
  /\ UNCHANGED <<serverVars, row, wait, daemonVars>>

(* The source is newer than an old destination and not newer than a copy,   *)
(* complete or partial.                                                     *)
ShouldOverwrite(f) ==
  \/ dst[f] = "none"
  \/ Overwrite = "always"
  \/ Overwrite = "if_newer" /\ Dated /\ dst[f] = "old"
  \/ Overwrite = "if_newer" /\ ~Dated
     /\ (dst[f] = "part" \/ (dst[f] = "old" /\ f \notin SameSize))

Select(f) ==
  /\ pc[f] = "listed"
  /\ \/ ShouldOverwrite(f) /\ Goto(f, "queued")
     \/ (~ShouldOverwrite(f) \/ "probe" \in Env) /\ Goto(f, "idle")
  /\ UNCHANGED <<serverVars, row, run, wait, daemonVars>>

(* copyOne looks at the destination again, once every file has been listed. *)
Probe(f) ==
  /\ pc[f] = "queued"
  /\ \A g \in Files : pc[g] # "listed"
  /\ \/ dst[f] # "none" /\ Goto(f, "clear")
     \/ (dst[f] = "none" \/ "probe" \in Env) /\ Goto(f, "copy")
  /\ UNCHANGED <<serverVars, row, run, wait, daemonVars>>

(* Removing the old destination; an error ends copyOne without a task.  A   *)
(* file that is gone by now may be removed or not be found.                 *)
Clear(f) ==
  /\ pc[f] = "clear"
  /\ \/ dst' = [dst EXCEPT ![f] = "none"] /\ Goto(f, "copy")
     \/ (dst[f] = "none" \/ "remove" \in Env) /\ UNCHANGED dst /\ Goto(f, "idle")
  /\ UNCHANGED <<src, tasks, row, run, wait, daemonVars>>

-----------------------------------------------------------------------------
(***************************************************************************)
(* FSCopy and waitCopyDoneWith, shared by the workers and the daemons.     *)
(***************************************************************************)

(* After an error a worker waits as after a success; a daemon gives up.     *)
OnError(a) == Goto(a, IF a \in Files THEN "first" ELSE "partial")
OnAccepted(a) == Goto(a, IF a \in Files THEN "first" ELSE "size")
OnSourceGone(a) == Goto(a, IF a \in Files THEN "idle" ELSE "settle")

(* The server takes the copy: a task of its own, or done on the spot.       *)
Submit(f) ==
  \/ /\ dst' = [dst EXCEPT ![f] = "full"]
     /\ UNCHANGED tasks
  \/ /\ \E i \in TaskIds : /\ Fresh(i)
                           /\ tasks' = [tasks EXCEPT ![i] = [file |-> f, st |-> "running"]]
     /\ UNCHANGED dst

(* Nothing is copied onto an existing file (403); a server may notice that  *)
(* before it looks for the source.                                          *)
CopyRefused(f) ==
  \/ dst[f] # "none" /\ (src[f] = "full" \/ "existsfirst" \in Env)
  \/ "reject" \in Env

FSCopy(a) ==
  LET f == FileOf(a) IN
  /\ pc[a] = "copy"
  /\ wait' = [wait EXCEPT ![a] = NoWait]
  /\ \/ /\ src[f] = "none"
        /\ OnSourceGone(a)
        /\ UNCHANGED <<dst, tasks>>
     \/ /\ CopyRefused(f)
        /\ OnError(a)
        /\ UNCHANGED <<dst, tasks>>
     \/ /\ src[f] = "full" /\ dst[f] = "none"
        /\ Submit(f)
        /\ OnAccepted(a) \/ ("ambiguous" \in Env /\ OnError(a))
  /\ UNCHANGED <<src, row, run, daemonVars>>

(* The daemon asks for the source's size; without it any size will do.      *)
AskSize(d) ==
  /\ pc[d] = "size"
  /\ \E known \in BOOLEAN :
        /\ known => src[cur[d]] = "full"
        /\ ~known => src[cur[d]] = "none" \/ "size" \in Env
        /\ wait' = [wait EXCEPT ![d].sized = known]
  /\ Goto(d, "first")
  /\ UNCHANGED <<serverVars, row, run, daemonVars>>

(* Mutant: any existing destination passes.                                 *)
SizeFitsAny(a) == dst[FileOf(a)] # "none"

(* checkDest: the destination exists with the size that is wanted.          *)
SizeFits(a) ==
  LET f == FileOf(a) IN
  \/ dst[f] = "full"
  \/ dst[f] = "old" /\ f \in SameSize
  \/ dst[f] # "none" /\ ~wait[a].sized

DestChecked(a, yes, no) ==
  /\ \/ SizeFits(a) /\ Goto(a, yes)
     \/ (~SizeFits(a) \/ "probe" \in Env) /\ Goto(a, no)
  /\ UNCHANGED <<serverVars, row, run, wait, daemonVars>>

CheckFirst(a) == pc[a] = "first" /\ DestChecked(a, "copied", "poll")

CheckPoll(a) ==
  /\ pc[a] = "poll"
  /\ DestChecked(a, "copied", IF wait[a].bound # 0 THEN "ask" ELSE "undone")

(* A bound task is asked for by its identifier.                             *)
AskBound(a) ==
  /\ pc[a] = "ask"
  /\ LET st == tasks[wait[a].bound].st IN
     \/ st = "gone"    /\ Goto(a, "poll") /\ wait' = [wait EXCEPT ![a].bound = 0]
     \/ (st = "running" \/ "lists" \in Env) /\ Goto(a, "poll") /\ UNCHANGED wait
     \/ st = "failed"  /\ Goto(a, "purge") /\ UNCHANGED wait
     \/ st = "ok"      /\ Goto(a, "verify") /\ UNCHANGED wait
  /\ UNCHANGED <<serverVars, row, run, daemonVars>>

(* findInList: the first task whose name contains the file name.            *)
Listed(a, sts) ==
  {i \in TaskIds : tasks[i].st \in sts /\ <<FileOf(a), tasks[i].file>> \in Contains}

Bound(w, i) == [bound |-> i, ever |-> TRUE, miss |-> 0, sized |-> w.sized]

ListUndone(a) ==
  /\ pc[a] = "undone"
  /\ \/ /\ \E i \in Listed(a, {"running"}) :
              wait' = [wait EXCEPT ![a] = Bound(@, i)]
        /\ Goto(a, "poll")
     \/ /\ Listed(a, {"running"}) = {} \/ "lists" \in Env
        /\ Goto(a, "done") /\ UNCHANGED wait
  /\ UNCHANGED <<serverVars, row, run, daemonVars>>

(* Mutant: the miss counter has no limit.                                   *)
ListDoneNoLimit(a) ==
  /\ pc[a] = "done"
  /\ \/ Listed(a, {"failed"}) # {} /\ Goto(a, "purge") /\ UNCHANGED wait
     \/ Listed(a, {"ok"}) # {} /\ Goto(a, "verify") /\ UNCHANGED wait
     \/ /\ Listed(a, {"ok", "failed"}) = {} \/ "lists" \in Env
        /\ Goto(a, "poll")
        /\ wait' = [wait EXCEPT ![a].miss = IF wait[a].ever THEN @ + 1 ELSE @]
  /\ UNCHANGED <<serverVars, row, run, daemonVars>>

(* Mutant: a failed task in the done list is passed over.                   *)
ListDoneSuccess(a) ==
  /\ pc[a] = "done"
  /\ \/ Listed(a, {"ok"}) # {} /\ Goto(a, "verify")
     \/ Listed(a, {"ok"}) = {} /\ Goto(a, "poll")
  /\ UNCHANGED <<serverVars, row, run, wait, daemonVars>>

ListDone(a) ==
  /\ pc[a] = "done"
  /\ \/ Listed(a, {"failed"}) # {} /\ Goto(a, "purge") /\ UNCHANGED wait
     \/ Listed(a, {"ok"}) # {} /\ Goto(a, "verify") /\ UNCHANGED wait
     \/ /\ Listed(a, {"ok", "failed"}) = {} \/ "lists" \in Env
        /\ \/ ~wait[a].ever /\ Goto(a, "poll") /\ UNCHANGED wait
           \/ /\ wait[a].ever
              /\ wait' = [wait EXCEPT ![a].miss = @ + 1]
              /\ Goto(a, IF wait[a].miss + 1 >= MissLimit THEN "partial" ELSE "poll")
  /\ UNCHANGED <<serverVars, row, run, daemonVars>>

(* The task succeeded: the destination has the last word.                   *)
Verify(a) == pc[a] = "verify" /\ DestChecked(a, "copied", "partial")

(* The task failed: removePartial inside the wait.                          *)
Purge(a) ==
  /\ pc[a] = "purge"
  /\ TryRemoveDst(FileOf(a))
  /\ Goto(a, "partial")
  /\ UNCHANGED <<src, tasks, row, run, wait, daemonVars>>

-----------------------------------------------------------------------------
(***************************************************************************)
(* What follows the wait.                                                  *)
(***************************************************************************)

(* delete_src: an error is only reported.                                   *)
AfterCopied(a) ==
  /\ pc[a] = "copied"
  /\ \/ DeleteSrc /\ src' = [src EXCEPT ![FileOf(a)] = "none"]
     \/ (~DeleteSrc \/ "remove" \in Env) /\ UNCHANGED src
  /\ Goto(a, IF a \in Files THEN "idle" ELSE "settle")
  /\ wait' = [wait EXCEPT ![a] = NoWait]
  /\ UNCHANGED <<dst, tasks, row, run, daemonVars>>

(* removePartial of enqueueFailed and of retryFailed.                       *)
RemovePartial(a) ==
  /\ pc[a] = "partial"
  /\ TryRemoveDst(FileOf(a))
  /\ Goto(a, IF a \in Files THEN "save" ELSE "failed")
  /\ wait' = [wait EXCEPT ![a] = NoWait]
  /\ UNCHANGED <<src, tasks, row, run, daemonVars>>

(* Mutant: the task is saved and never handed over.                         *)
SaveFailedOnly(f) ==
  /\ pc[f] = "save"
  /\ row' = [row EXCEPT ![f] = Task("failed", 1)]
  /\ Goto(f, "idle")
  /\ UNCHANGED <<serverVars, run, wait, daemonVars>>

(* enqueueFailed: the row, then the memory of the run's own daemon.         *)
SaveFailed(f) ==
  /\ pc[f] = "save"
  /\ Orderly => Loaded
  /\ row' = [row EXCEPT ![f] = Task("failed", 1)]
  /\ Goto(f, "add")
  /\ UNCHANGED <<serverVars, run, wait, daemonVars>>

(* Mutant: every daemon gets the task.                                      *)
AddTaskToAll(f) ==
  /\ pc[f] = "add"
  /\ mem' = [d \in Runs |-> [mem[d] EXCEPT ![f] = Task("failed", 1)]]
  /\ same' = [d \in Runs |-> same[d] \ {f}]
  /\ Goto(f, "idle")
  /\ UNCHANGED <<serverVars, row, run, wait, poll, cur>>

AddTask(f) ==
  /\ pc[f] = "add"
  /\ mem' = [mem EXCEPT ![run][f] = Task("failed", 1)]
  /\ same' = [same EXCEPT ![run] = @ \ {f}]
  /\ Goto(f, "idle")
  /\ UNCHANGED <<serverVars, row, run, wait, poll, cur>>

-----------------------------------------------------------------------------
(***************************************************************************)
(* The daemon.                                                             *)
(***************************************************************************)

(* loadPendingTasks: the table is read, then copied into activeTasks.       *)
Load(d) ==
  /\ pc[d] = "load"
  /\ poll' = [poll EXCEPT ![d] =
                [f \in Files |-> IF row[f].st \in {"failed", "dead"} THEN row[f] ELSE NoTask]]
  /\ Goto(d, "fill")
  /\ UNCHANGED <<serverVars, row, run, wait, mem, same, cur>>

Fill(d) ==
  /\ pc[d] = "fill"
  /\ mem' = [mem EXCEPT ![d] =
               [f \in Files |-> IF poll[d][f] # NoTask THEN poll[d][f] ELSE mem[d][f]]]
  /\ poll' = [poll EXCEPT ![d] = NoTasks]
  /\ Goto(d, "idle")
  /\ UNCHANGED <<serverVars, row, run, wait, same, cur>>

(* Mutant: dead letters are polled too.                                     *)
TickAll(d) ==
  /\ pc[d] = "idle"
  /\ poll' = [poll EXCEPT ![d] = mem[d]]
  /\ same' = [same EXCEPT ![d] = {f \in Files : mem[d][f] # NoTask}]
  /\ Goto(d, IF mem[d] = NoTasks THEN "idle" ELSE "scan")
  /\ UNCHANGED <<serverVars, row, run, wait, mem, cur>>

(* pollTasks takes the pointers of its map; a dead letter is left alone.    *)
Tick(d) ==
  LET due == {f \in Files : mem[d][f].st = "failed"} IN
  /\ pc[d] = "idle"
  /\ poll' = [poll EXCEPT ![d] = [f \in Files |-> IF f \in due THEN mem[d][f] ELSE NoTask]]
  /\ same' = [same EXCEPT ![d] = due]
  /\ Goto(d, IF due = {} THEN "idle" ELSE "scan")
  /\ UNCHANGED <<serverVars, row, run, wait, mem, cur>>

Held(d) == {f \in Files : poll[d][f] # NoTask}

(* checkRetryTask of a task whose back-off has elapsed, ...                 *)
Retry(d) ==
  /\ pc[d] = "scan"
  /\ \E f \in Held(d) : cur' = [cur EXCEPT ![d] = f]
  /\ Goto(d, "copy")
  /\ UNCHANGED <<serverVars, row, run, wait, mem, poll, same>>

(* ... and of one that must wait longer.                                    *)
Release(d, f) ==
  /\ poll' = [poll EXCEPT ![d][f] = NoTask]
  /\ same' = [same EXCEPT ![d] = @ \ {f}]
  /\ Goto(d, IF Held(d) \subseteq {f} THEN "idle" ELSE "scan")

NotDue(d) ==
  /\ pc[d] = "scan"
  /\ \E f \in Held(d) : Release(d, f)
  /\ UNCHANGED <<serverVars, row, run, wait, mem, cur>>

(* The retry succeeded, or its source is gone: Save, ...                    *)
SaveSettled(d) ==
  /\ pc[d] = "settle"
  /\ row' = [row EXCEPT ![cur[d]] = Task("ok", poll[d][cur[d]].att)]
  /\ Goto(d, "drop")
  /\ UNCHANGED <<serverVars, run, wait, daemonVars>>

(* ... then RemoveTask, whichever object activeTasks holds by now.          *)
RemoveTask(d) ==
  /\ pc[d] = "drop"
  /\ mem' = [mem EXCEPT ![d][cur[d]] = NoTask]
  /\ Release(d, cur[d])
  /\ UNCHANGED <<serverVars, row, run, wait, cur>>

(* Mutants of retryFailed: one attempt too many; no attempt counted.        *)
FailedAs(d, new) ==
  /\ pc[d] = "failed"
  /\ row' = [row EXCEPT ![cur[d]] = new]
  /\ mem' = [mem EXCEPT ![d][cur[d]] = IF cur[d] \in same[d] THEN new ELSE @]
  /\ Release(d, cur[d])
  /\ UNCHANGED <<serverVars, run, wait, cur>>

RetryFailedLate(d) ==
  LET att == poll[d][cur[d]].att + 1
  IN  FailedAs(d, Task(IF att > MaxAttempts THEN "dead" ELSE "failed", att))

RetryFailedUncounted(d) == FailedAs(d, Task("failed", poll[d][cur[d]].att))

(* retryFailed: the task object counts the attempt and is saved.            *)
RetryFailed(d) ==
  LET f   == cur[d]
      att == poll[d][f].att + 1
      new == Task(IF att >= MaxAttempts THEN "dead" ELSE "failed", att)
  IN
  /\ pc[d] = "failed"
  /\ row' = [row EXCEPT ![f] = new]
  /\ mem' = [mem EXCEPT ![d][f] = IF f \in same[d] THEN new ELSE @]
  /\ Release(d, f)
  /\ UNCHANGED <<serverVars, run, wait, cur>>

(* The process dies and starts again: only the server and the table remain. *)
Crash ==
  /\ "crash" \in Env
  /\ pc' = [a \in Actors |-> IF a \in Files THEN "idle" ELSE "off"]
  /\ wait' = [a \in Actors |-> NoWait]
  /\ mem' = [d \in Runs |-> NoTasks]
  /\ poll' = [d \in Runs |-> NoTasks]
  /\ same' = [d \in Runs |-> {}]
  /\ UNCHANGED <<serverVars, row, run, cur>>

-----------------------------------------------------------------------------
Server(i) == CopyStarts(i) \/ CopyEnds(i) \/ TaskForgotten(i)

Copying(a) ==
  \/ FSCopy(a) \/ CheckFirst(a) \/ CheckPoll(a) \/ AskBound(a) \/ ListUndone(a)
  \/ ListDone(a) \/ Verify(a) \/ Purge(a) \/ AfterCopied(a) \/ RemovePartial(a)

Worker(f) == Select(f) \/ Probe(f) \/ Clear(f) \/ SaveFailed(f) \/ AddTask(f) \/ Copying(f)

Daemon(d) ==
  \/ Load(d) \/ Fill(d) \/ Tick(d) \/ Retry(d) \/ NotDue(d) \/ AskSize(d)
  \/ SaveSettled(d) \/ RemoveTask(d) \/ RetryFailed(d) \/ Copying(d)

Next ==
  \/ StartRun \/ Crash
  \/ \E i \in TaskIds : Server(i)
  \/ \E f \in Files : Worker(f)
  \/ \E d \in Runs : Daemon(d)

Spec == Init /\ [][Next]_vars

(***************************************************************************)
(* Fairness.  A goroutine that can go on does, the server finishes what it *)
(* runs, and a back-off (at most half an hour) does not hold a task back   *)
(* at every poll for ever.                                                 *)
(***************************************************************************)
FairSpec ==
  /\ Spec
  /\ \A i \in TaskIds : WF_vars(CopyEnds(i))
  /\ \A f \in Files : WF_vars(Worker(f))
  /\ \A d \in Runs : WF_vars(Daemon(d)) /\ SF_vars(Retry(d))

-----------------------------------------------------------------------------
(***************************************************************************)
(* Properties.                                                             *)
(***************************************************************************)

(* delete_src never costs data: a file is at its source, or complete at its *)
(* destination (afterCopied and checkRetryTask remove the source, the       *)
(* waits and removePartial act on the destination).                         *)
NoLoss == \A f \in Files : src[f] = "full" \/ dst[f] = "full"

WorkerBusy(f) == pc[f] \notin {"idle", "add"}
DaemonOwns(d, f) == mem[d][f].st = "failed" \/ poll[d][f].st = "failed"

(* A file being copied by a worker is not at the same time a daemon's to    *)
(* retry, and never two daemons': the copies, probes and removals of one    *)
(* destination are those of one actor (worker hand-over in enqueueFailed,   *)
(* reloading in loadPendingTasks).                                          *)
OneOwner ==
  \A f \in Files, d \in Runs : DaemonOwns(d, f) =>
    /\ ~WorkerBusy(f)
    /\ \A e \in Runs \ {d} : ~DaemonOwns(e, f)

(* While daemons run, a failed row is exactly the task some daemon holds,   *)
(* attempts included, or the worker is about to hand it over: the table     *)
(* never promises a retry nobody will make (enqueueFailed, retryFailed,     *)
(* Save before RemoveTask).                                                 *)
FailedIsTracked ==
  \A f \in Files : row[f].st = "failed" =>
    \/ pc[f] = "add"
    \/ \E d \in Runs : mem[d][f] = row[f]
    \/ \A d \in Runs : pc[d] \in {"off", "load"}

(* An attempt is counted once, and the dead letter comes at max_attempts,   *)
(* neither earlier nor later (later only for max_attempts = 1, as           *)
(* enqueueFailed counts one attempt without looking at the limit).          *)
Limit == IF MaxAttempts = 1 THEN 2 ELSE MaxAttempts
AtLimit(t) == /\ t.st = "failed" => t.att \in 1 .. (Limit - 1)
              /\ t.st = "dead" => t.att = Limit
DeadLetterExact ==
  \A f \in Files : AtLimit(row[f]) /\ \A d \in Runs : AtLimit(mem[d][f]) /\ AtLimit(poll[d][f])

(* A daemon's retry never lowers the attempts of a row, and never touches   *)
(* a dead letter: only a worker's enqueueFailed starts a count anew.        *)
CountsUp ==
  [][\A f \in Files : row'[f] # row[f] /\ row[f].st # "none" =>
       \/ pc[f] = "save"
       \/ row[f].st = "failed" /\ row'[f].att >= row[f].att]_vars

(* A file taken up by a worker is done with: copied, gone, given up or put  *)
(* in the queue (the comment of copyOne: a failure goes to the queue and is *)
(* not retried on the spot).                                                *)
WorkerEnds == \A f \in Files : pc[f] = "queued" ~> pc[f] = "idle"

(* A queued task is retried until it is settled or a dead letter.           *)
TaskSettles == \A f \in Files : row[f].st = "failed" ~> row[f].st \in {"ok", "dead"}
=============================================================================
