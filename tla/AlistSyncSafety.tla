-------------------------- MODULE AlistSyncSafety --------------------------
(***************************************************************************)
(* The safety of AlistSync.  DeadLetterExact needs only what a daemon      *)
(* knows of the tasks its poll holds (PollInv).  The rest are about timely *)
(* executions, where OwnInv says who may touch a file, and DataInv, which  *)
(* rests on it, where the file's data are.                                 *)
(***************************************************************************)
EXTENDS AlistSyncProofs

(* A daemon in the middle of a retry, and one reading the table.            *)
RetryPcs == CopyPcs \cup {"size", "settle", "drop", "failed"}
Loading(d) == pc[d] \in {"load", "fill"}

(* A poll holds failed tasks only, and the file being retried is one.       *)
PollOk(d) ==
  /\ ~Loading(d) => \A f \in Files : poll[d][f] = NoTask \/ poll[d][f].st = "failed"
  /\ pc[d] \in RetryPcs => poll[d][cur[d]].st = "failed"
PollInv == \A d \in Runs : PollOk(d)

(* Nothing is left to retry while a daemon reads the table.                 *)
LoadQuiet ==
  \A d \in Runs, f \in Files : Loading(d) =>
    row[f].st # "failed" /\ pc[f] # "add" /\ \A e \in Runs : ~DaemonOwns(e, f)

(* A file is its worker's or one daemon's.                                  *)
Owned ==
  \A d \in Runs, f \in Files : DaemonOwns(d, f) =>
    pc[f] = "idle" /\ \A e \in Runs \ {d} : ~DaemonOwns(e, f)

(* The worker's row while it hands the task over.                           *)
Handed == \A f \in Files : pc[f] = "add" => row[f] = Task("failed", 1)

(* What a poll holds is the task activeTasks holds, ...                     *)
Pointed ==
  \A d \in Runs, f \in Files :
    poll[d][f].st = "failed" => f \in same[d] /\ mem[d][f] = poll[d][f]

(* ... and that is the row, but between Save and RemoveTask.                *)
Settling(d, f) == pc[d] = "drop" /\ cur[d] = f
RowKnown ==
  \A d \in Runs, f \in Files : mem[d][f].st = "failed" =>
    IF Settling(d, f) THEN row[f].st = "ok" ELSE row[f] = mem[d][f]

(* A worker is one of a run that has started.                               *)
Started == \A f \in Files : pc[f] # "idle" => run \in Runs

(* Before the first run there is nothing at all.                            *)
Unstarted == run = 0 =>
  /\ \A f \in Files : pc[f] = "idle" /\ row[f] = NoTask
  /\ \A d \in Runs : pc[d] = "off"
  /\ \A d \in Runs, f \in Files : mem[d][f] = NoTask /\ poll[d][f] = NoTask

(* What OwnInv needs of the timing of a step, and that a step is timely: a  *)
(* run after the first starts on a drained queue, and a worker gives a file *)
(* up when the table has been read.  Every step of an Orderly instance is.  *)
Drains == StartRun => Drained
Reads  == \A f \in Files : SaveFailed(f) => Loaded
Timely == (StartRun => run = 0 \/ Drained) /\ Reads

OwnInv == LoadQuiet /\ Owned /\ Handed /\ Pointed /\ RowKnown /\ Started /\ FailedIsTracked

(* A file somebody still has to copy is at its source, ...                  *)
WorkersSource == \A f \in Files : pc[f] # "idle" => src[f] = "full"
Settled(d, f) == cur[d] = f /\ pc[d] \in {"settle", "drop"}
DaemonsSource ==
  \A d \in Runs, f \in Files : DaemonOwns(d, f) /\ ~Settled(d, f) => src[f] = "full"

(* ... and one found copied is complete, as the size was known.             *)
AlwaysSized == \A a \in Actors : wait[a].sized
CopiedFull  == \A a \in Actors : pc[a] = "copied" => dst[FileOf(a)] = "full"

DataInv == WorkersSource /\ DaemonsSource /\ AlwaysSized /\ CopiedFull /\ NoLoss
-----------------------------------------------------------------------------
LEMMA PollInit == Init => PollInv
  BY ActorsDiffer DEF Init, PollInv, PollOk, NoTasks, RetryPcs, CopyPcs, WaitPcs, Actors

(* A daemon whose part of the state is untouched, or only moves on with its *)
(* copy, keeps its part of PollInv.                                         *)
LEMMA PollKept ==
  ASSUME TypeOK, PollInv, UNCHANGED <<poll, cur>>,
         \A d \in Runs : \/ pc'[d] = pc[d]
                         \/ pc'[d] = "load"
                         \/ pc[d] \in RetryPcs
  PROVE  PollInv'
  BY DEF PollInv, PollOk, Loading, RetryPcs, CopyPcs, WaitPcs

LEMMA PollNext == TypeInv /\ PollInv /\ [Next]_vars => PollInv'
<1> SUFFICES ASSUME TypeInv, PollInv, [Next]_vars PROVE PollInv'
  OBVIOUS
<1>t. TypeOK /\ PcType /\ QueueType
  BY TypeParts DEF TypeInv
<1>1. CASE UNCHANGED vars
  BY <1>t, <1>1, PollKept DEF vars
<1>2. CASE StartRun
  <2>1. \A d \in Runs : pc'[d] \in {"load", pc[d]}
    BY <1>2, ActorsDiffer DEF StartRun, Actors
  <2> QED
    BY <1>t, <1>2, <2>1, PollKept DEF StartRun, daemonVars
<1>3. CASE Crash
  BY <1>3, ActorsDiffer
     DEF Crash, PollInv, PollOk, NoTasks, RetryPcs, CopyPcs, WaitPcs, Actors
<1>4. ASSUME NEW i \in TaskIds, Server(i) PROVE PollInv'
  BY <1>t, <1>4, PollKept DEF Server, CopyStarts, CopyEnds, TaskForgotten, daemonVars
<1>5. ASSUME NEW a \in Actors, Copying(a) PROVE PollInv'
  <2>1. \A d \in Runs : pc'[d] = pc[d] \/ pc[d] \in RetryPcs
    <3>1. pc[a] \in RetryPcs /\ \E l : Goto(a, l)
      BY <1>t, <1>5, CopyingFrame DEF RetryPcs
    <3> QED
      BY <1>t, <3>1 DEF Goto, PcType
  <2> QED
    BY <1>t, <1>5, <2>1, CopyingFrame, PollKept
<1>6. ASSUME NEW f \in Files, Worker(f), ~Copying(f) PROVE PollInv'
  <2>1. UNCHANGED <<poll, cur>> /\ \E l : Goto(f, l)
    BY <1>6 DEF Worker, Select, Probe, Clear, SaveFailed, AddTask, daemonVars
  <2>2. \A d \in Runs : pc'[d] = pc[d]
    BY <1>t, <2>1, ActorsDiffer DEF Goto, PcType, Actors
  <2> QED
    BY <1>t, <2>1, <2>2, PollKept
<1>7. ASSUME NEW d \in Runs, Daemon(d), ~Copying(d) PROVE PollInv'
  <2> USE DEF RetryPcs, CopyPcs, WaitPcs
  <2>1. \A e \in Runs \ {d} : pc'[e] = pc[e] /\ poll'[e] = poll[e] /\ cur'[e] = cur[e]
    BY <1>7, <1>t DEF Daemon, Load, Fill, Tick, Retry, NotDue, AskSize, SaveSettled, RemoveTask,
                      RetryFailed, Release, Goto, daemonVars, PcType, QueueType, Actors
  <2>2. PollOk(d) /\ d \in Actors
    BY DEF PollInv, Actors
  <2>3. CASE Load(d) \/ Fill(d)
    <3>1. CASE Load(d)
      <4>1. pc'[d] = "fill"
        BY <1>t, <2>2, <3>1 DEF Load, Goto, PcType
      <4> QED
        BY <2>1, <4>1 DEF PollInv, PollOk, Loading
    <3>2. CASE Fill(d)
      <4>1. pc'[d] = "idle" /\ poll'[d] = NoTasks
        BY <1>t, <2>2, <3>2 DEF Fill, Goto, PcType, QueueType
      <4> QED
        BY <2>1, <4>1 DEF PollInv, PollOk, Loading, NoTasks
    <3> QED
      BY <2>3, <3>1, <3>2
  <2>4. CASE Tick(d)
    BY <1>t, <2>1, <2>2, <2>4 DEF Tick, Goto, PollInv, PollOk, Loading, PcType, QueueType
  <2>5. CASE Retry(d)
    BY <1>t, <2>1, <2>2, <2>5 DEF Retry, Goto, PollInv, PollOk, Loading, Held, PcType, QueueType
  <2>6. ASSUME NEW f \in Files, Release(d, f), ~Loading(d), UNCHANGED cur PROVE PollInv'
    BY <1>t, <2>1, <2>2, <2>6 DEF Release, Goto, PollInv, PollOk, Loading, PcType, QueueType
  <2>7. CASE NotDue(d) \/ RemoveTask(d) \/ RetryFailed(d)
    <3>1. ~Loading(d) /\ UNCHANGED cur /\ \E f \in Files : Release(d, f)
      BY <1>t, <2>7 DEF NotDue, RemoveTask, RetryFailed, Held, Loading, QueueType
    <3> QED
      BY <2>6, <3>1
  <2>8. CASE AskSize(d) \/ SaveSettled(d)
    <3>1. UNCHANGED <<poll, cur>> /\ pc[d] \in RetryPcs
      BY <2>8 DEF AskSize, SaveSettled, daemonVars
    <3> QED
      BY <1>t, <2>1, <3>1, PollKept
  <2> QED
    BY <1>7, <2>3, <2>4, <2>5, <2>7, <2>8 DEF Daemon
<1> QED
  BY <1>1, <1>2, <1>3, <1>4, <1>5, <1>6, <1>7 DEF Next, Worker, Daemon, Actors

(* A task fails fewer times than the limit allows until it fails exactly    *)
(* that often: no constant, no fault and no timing changes that.            *)
LEMMA AtLimitKept ==
  ASSUME NEW t \in TaskRecs, t.st = "failed", AtLimit(t)
  PROVE  AtLimit(Task(IF t.att + 1 >= MaxAttempts THEN "dead" ELSE "failed", t.att + 1))
  BY RetryAssumption DEF AtLimit, Limit, Task, TaskRecs

LEMMA AtLimitFirst ==
  AtLimit(NoTask) /\ AtLimit(Task("failed", 1)) /\ \A n \in Nat : AtLimit(Task("ok", n))
  BY RetryAssumption DEF AtLimit, Limit, Task, NoTask

LEMMA DeadLetterNext == TypeInv /\ PollInv /\ DeadLetterExact /\ [Next]_vars => DeadLetterExact'
<1> SUFFICES ASSUME TypeInv, PollInv, DeadLetterExact, [Next]_vars PROVE DeadLetterExact'
  OBVIOUS
<1>t. TypeOK /\ QueueType
  BY TypeParts DEF TypeInv
<1> USE AtLimitFirst DEF DeadLetterExact
<1>1. CASE UNCHANGED <<row, mem, poll>>
  BY <1>1 DEF AtLimit
<1>2. CASE Crash
  BY <1>2 DEF Crash, NoTasks, AtLimit
<1>3. ASSUME NEW f \in Files, Worker(f), ~Copying(f) PROVE DeadLetterExact'
  <2>1. CASE SaveFailed(f)
    BY <1>t, <2>1 DEF SaveFailed, daemonVars, QueueType
  <2>2. CASE AddTask(f)
    BY <1>t, <2>2 DEF AddTask, QueueType
  <2>3. CASE Select(f) \/ Probe(f) \/ Clear(f)
    BY <1>1, <2>3 DEF Select, Probe, Clear, daemonVars
  <2> QED
    BY <1>3, <2>1, <2>2, <2>3 DEF Worker
<1>4. ASSUME NEW d \in Runs, Daemon(d), ~Copying(d) PROVE DeadLetterExact'
  <2>1. CASE Load(d)
    BY <1>t, <2>1 DEF Load, QueueType
  <2>2. CASE Fill(d)
    BY <1>t, <2>2 DEF Fill, NoTasks, QueueType
  <2>3. CASE Tick(d)
    BY <1>t, <2>3 DEF Tick, QueueType
  <2>4. CASE Retry(d) \/ AskSize(d)
    BY <1>1, <2>4 DEF Retry, AskSize, daemonVars
  <2>5. ASSUME NEW f, Release(d, f)
        PROVE  \A g \in Files, e \in Runs : AtLimit(poll'[e][g])
    BY <1>t, <2>5 DEF Release, QueueType
  <2>6. CASE NotDue(d)
    BY <2>5, <2>6 DEF NotDue
  <2>c. cur[d] \in Files /\ poll[d][cur[d]] \in TaskRecs /\ AtLimit(poll[d][cur[d]])
    BY <1>t DEF QueueType
  <2>7. CASE SaveSettled(d)
    BY <1>t, <2>7, <2>c, TaskTypes DEF SaveSettled, daemonVars, QueueType
  <2>8. CASE RemoveTask(d)
    BY <1>t, <2>5, <2>8 DEF RemoveTask, QueueType
  <2>9. CASE RetryFailed(d)
    <3> DEFINE att == poll[d][cur[d]].att + 1
               new == Task(IF att >= MaxAttempts THEN "dead" ELSE "failed", att)
    <3>1. poll[d][cur[d]].st = "failed"
      BY <2>9 DEF RetryFailed, PollInv, PollOk, RetryPcs
    <3>2. AtLimit(new)
      BY <2>c, <3>1, AtLimitKept
    <3>3. /\ row' = [row EXCEPT ![cur[d]] = new]
          /\ mem' = [mem EXCEPT ![d][cur[d]] = IF cur[d] \in same[d] THEN new ELSE @]
          /\ Release(d, cur[d])
      BY <2>9 DEF RetryFailed
    <3> HIDE DEF new
    <3> QED
      BY <1>t, <2>5, <2>c, <3>2, <3>3 DEF QueueType
  <2> QED
    BY <1>4, <2>1, <2>2, <2>3, <2>4, <2>6, <2>7, <2>8, <2>9 DEF Daemon
<1>5. ASSUME NEW a \in Actors, Copying(a) PROVE DeadLetterExact'
  BY <1>1, <1>t, <1>5, CopyingFrame
<1>6. CASE StartRun \/ UNCHANGED vars \/ \E i \in TaskIds : Server(i)
  BY <1>1, <1>6
     DEF StartRun, Server, CopyStarts, CopyEnds, TaskForgotten, daemonVars, vars
<1> QED
  BY <1>2, <1>3, <1>4, <1>5, <1>6 DEF Next, Worker, Daemon, Actors

(* The dead letter comes exactly at max_attempts, whatever fails and in     *)
(* whatever order runs, polls and crashes come (enqueueFailed, retryFailed).*)
THEOREM DeadLetters == Spec => []DeadLetterExact
<1>1. Init => TypeInv /\ PollInv /\ DeadLetterExact
  BY TypeInit, PollInit, AtLimitFirst DEF Init, DeadLetterExact, NoTasks
<1>2. TypeInv /\ PollInv /\ DeadLetterExact /\ [Next]_vars => (TypeInv /\ PollInv /\ DeadLetterExact)'
  BY TypeNext, PollNext, DeadLetterNext
<1> QED
  BY <1>1, <1>2, PTL DEF Spec

-----------------------------------------------------------------------------
LEMMA OwnInit == Init => OwnInv
<1> SUFFICES ASSUME Init PROVE OwnInv
  OBVIOUS
<1>1. \A f \in Files : pc[f] = "idle" /\ row[f] = NoTask
  BY DEF Init, Actors, NoTasks
<1>2. \A d \in Runs : pc[d] = "off"
  BY ActorsDiffer DEF Init, Actors
<1>3. \A d \in Runs, f \in Files : mem[d][f] = NoTask /\ poll[d][f] = NoTask
  BY DEF Init, NoTasks
<1>4. NoTask.st = "none"
  BY DEF NoTask
<1> QED
  BY <1>1, <1>2, <1>3, <1>4
     DEF OwnInv, LoadQuiet, Owned, Handed, Pointed, RowKnown, Started, FailedIsTracked,
         Loading, DaemonOwns

LEMMA UnstartedInit == Init => Unstarted
  BY ActorsDiffer DEF Init, Unstarted, Actors, NoTasks

(* Steps that leave the queue alone: no worker is put to work or reaches    *)
(* "add", no daemon begins or ends a reading of the table or a settlement.  *)
LEMMA OwnKept ==
  ASSUME OwnInv, UNCHANGED <<row, run, mem, poll, same>>,
         \A f \in Files : pc'[f] = pc[f] \/ (pc[f] \notin {"idle", "add"} /\ pc'[f] # "add"),
         \A d \in Runs :
            \/ pc'[d] = pc[d] /\ (cur'[d] = cur[d] \/ pc[d] # "drop")
            \/ /\ pc[d] \notin {"off", "load", "fill", "drop"}
               /\ pc'[d] \notin {"load", "fill", "drop"}
  PROVE  OwnInv'
<1> USE DEF OwnInv, Loading, DaemonOwns, Settling
<1>1. LoadQuiet' /\ Owned' /\ Handed' /\ Started'
  BY DEF LoadQuiet, Owned, Handed, Started
<1>2. Pointed' /\ RowKnown'
  BY DEF Pointed, RowKnown
<1>3. FailedIsTracked'
  BY DEF FailedIsTracked
<1> QED
  BY <1>1, <1>2, <1>3

LEMMA OwnServer ==
  ASSUME TypeInv, OwnInv, NEW i \in TaskIds, Server(i)
  PROVE  OwnInv'
  BY OwnKept DEF Server, CopyStarts, CopyEnds, TaskForgotten, daemonVars

LEMMA OwnCopying ==
  ASSUME TypeInv, OwnInv, NEW a \in Actors, Copying(a)
  PROVE  OwnInv'
<1>t. TypeOK /\ PcType
  BY TypeParts DEF TypeInv
<1>1. UNCHANGED <<row, run, mem, poll, same, cur>>
  BY <1>t, CopyingFrame
<1>2. PICK l \in NextPcs(a) : Goto(a, l)
  BY <1>t, CopyingFrame
<1>3. pc[a] \notin {"off", "load", "fill", "drop", "idle", "add"}
  BY <1>t, CopyingFrame DEF CopyPcs, WaitPcs
<1>4. l \notin {"load", "fill", "drop", "add"}
  BY <1>2 DEF NextPcs, CopyPcs, WaitPcs
<1>5. \A b \in Actors : pc'[b] = pc[b] \/ (b = a /\ pc'[b] = l)
  BY <1>t, <1>2 DEF Goto, PcType
<1> QED
  BY <1>1, <1>3, <1>4, <1>5, OwnKept DEF Actors

LEMMA OwnWorker ==
  ASSUME TypeInv, PollInv, OwnInv, Reads, NEW f \in Files, Worker(f), ~Copying(f)
  PROVE  OwnInv'
<1>t. TypeOK /\ PcType /\ QueueType
  BY TypeParts DEF TypeInv
<1>p. ASSUME NEW l, Goto(f, l)
      PROVE  /\ pc'[f] = l
             /\ \A g \in Files \ {f} : pc'[g] = pc[g]
             /\ \A d \in Runs : pc'[d] = pc[d]
  BY <1>t, <1>p, ActorsDiffer DEF Goto, PcType, Actors
<1>n. pc[f] # "idle" => \A d \in Runs : ~DaemonOwns(d, f)
  BY DEF OwnInv, Owned
<1>1. CASE Select(f) \/ Probe(f) \/ Clear(f)
  BY <1>1, <1>p, OwnKept DEF Select, Probe, Clear, daemonVars
<1>2. CASE SaveFailed(f)
  <2>1. /\ pc[f] = "save" /\ Loaded /\ Goto(f, "add")
        /\ UNCHANGED <<run, mem, poll, same, cur>>
        /\ row'[f] = Task("failed", 1)
        /\ \A g \in Files \ {f} : row'[g] = row[g]
    BY <1>2, <1>t DEF SaveFailed, Reads, daemonVars, QueueType
  <2>2. \A d \in Runs : ~Loading(d)
    BY <2>1 DEF Loaded, Loading
  <2> USE <1>n, <1>p, <2>1, <2>2 DEF OwnInv, Loading, DaemonOwns, Settling
  <2>3. LoadQuiet' /\ Owned' /\ Handed' /\ Started'
    BY DEF LoadQuiet, Owned, Handed, Started
  <2>4. Pointed' /\ RowKnown'
    BY DEF Pointed, RowKnown
  <2>5. FailedIsTracked'
    BY DEF FailedIsTracked
  <2> QED
    BY <2>3, <2>4, <2>5
<1>3. CASE AddTask(f)
  <2>1. /\ pc[f] = "add" /\ Goto(f, "idle")
        /\ UNCHANGED <<run, row, poll, cur>>
        /\ run \in Runs
        /\ mem'[run][f] = Task("failed", 1)
        /\ \A d \in Runs, g \in Files : d # run \/ g # f => mem'[d][g] = mem[d][g]
        /\ \A d \in Runs, g \in Files \ {f} : g \in same[d] => g \in same'[d]
    BY <1>3, <1>t DEF AddTask, QueueType, OwnInv, Started
  <2>2. \A d \in Runs : ~Loading(d) /\ ~Settling(d, f)
    BY <1>n, <2>1 DEF OwnInv, LoadQuiet, Settling, PollInv, PollOk, RetryPcs, DaemonOwns
  <2>3. row[f] = Task("failed", 1)
    BY <2>1 DEF OwnInv, Handed
  <2> USE <1>n, <1>p, <2>1, <2>2, <2>3 DEF OwnInv, Loading, DaemonOwns, Settling
  <2>4. LoadQuiet' /\ Owned' /\ Handed' /\ Started'
    BY DEF LoadQuiet, Owned, Handed, Started
  <2>5. Pointed' /\ RowKnown'
    BY DEF Pointed, RowKnown
  <2>6. FailedIsTracked'
    BY DEF FailedIsTracked
  <2> QED
    BY <2>4, <2>5, <2>6
<1> QED
  BY <1>1, <1>2, <1>3 DEF Worker

(* Reading the table, when nothing is left to retry.                        *)
LEMMA OwnLoading ==
  ASSUME TypeInv, OwnInv, NEW d \in Runs, Load(d) \/ Fill(d)
  PROVE  OwnInv'
<1>t. PcType /\ QueueType /\ d \in Actors
  BY TypeParts DEF TypeInv, Actors
<1>1. UNCHANGED <<run, row, cur, same>> /\ \E l \in {"fill", "idle"} : Goto(d, l)
  BY DEF Load, Fill
<1>2. /\ \A f \in Files : pc'[f] = pc[f]
      /\ \A e \in Runs \ {d} : pc'[e] = pc[e]
      /\ pc'[d] \in {"fill", "idle"}
  BY <1>1, <1>t, ActorsDiffer DEF Goto, PcType, Actors
<1>3. \A f \in Files : row[f].st # "failed" /\ pc[f] # "add" /\ \A e \in Runs : ~DaemonOwns(e, f)
  BY DEF Load, Fill, OwnInv, LoadQuiet, Loading
<1>4. \A f \in Files, e \in Runs : ~DaemonOwns(e, f)'
  <2>1. \A f \in Files, e \in Runs : mem[e][f].st # "failed" /\ poll[e][f].st # "failed"
    BY <1>3 DEF DaemonOwns
  <2>2. CASE Load(d)
    BY <1>3, <1>t, <2>1, <2>2 DEF Load, DaemonOwns, QueueType, NoTask
  <2>3. CASE Fill(d)
    BY <1>t, <2>1, <2>3 DEF Fill, DaemonOwns, QueueType, NoTask, NoTasks
  <2> QED
    BY <2>2, <2>3
<1> QED
  BY <1>1, <1>2, <1>3, <1>4
     DEF OwnInv, LoadQuiet, Owned, Handed, Pointed, RowKnown, Started, FailedIsTracked, DaemonOwns

(* The polling and retrying daemon.                                         *)
LEMMA OwnDaemon ==
  ASSUME TypeInv, PollInv, OwnInv, NEW d \in Runs, Daemon(d), ~Copying(d)
  PROVE  OwnInv'
<1>t. PcType /\ QueueType /\ d \in Actors /\ cur[d] \in Files
  BY TypeParts DEF TypeInv, Actors, QueueType
<1>p. ASSUME NEW l, Goto(d, l)
      PROVE  /\ pc'[d] = l
             /\ \A f \in Files : pc'[f] = pc[f]
             /\ \A e \in Runs \ {d} : pc'[e] = pc[e]
  BY <1>t, <1>p, ActorsDiffer DEF Goto, PcType, Actors
<1>o. \A f \in Files : DaemonOwns(d, f) =>
        /\ pc[f] = "idle"
        /\ \A e \in Runs : ~Loading(e)
        /\ \A e \in Runs \ {d} : ~DaemonOwns(e, f)
  BY DEF OwnInv, Owned, LoadQuiet
<1>r. ASSUME NEW f \in Files, Release(d, f)
      PROVE  /\ poll'[d][f] = NoTask
             /\ pc'[d] \in {"idle", "scan"}
             /\ \A g \in Files : pc'[g] = pc[g]
             /\ \A e \in Runs \ {d} : pc'[e] = pc[e]
             /\ \A e \in Runs, g \in Files : e # d \/ g # f =>
                  poll'[e][g] = poll[e][g] /\ (g \in same'[e] <=> g \in same[e])
  BY <1>p, <1>r, <1>t DEF Release, QueueType
<1>f. ASSUME poll[d][cur[d]].st = "failed"
      PROVE  /\ DaemonOwns(d, cur[d]) /\ cur[d] \in same[d]
             /\ mem[d][cur[d]] = poll[d][cur[d]]
  BY <1>f, <1>t DEF OwnInv, Pointed, DaemonOwns
<1>1. CASE Load(d) \/ Fill(d)
  BY <1>1, OwnLoading
<1>2. CASE Retry(d) \/ AskSize(d)
  <2>1. /\ UNCHANGED <<row, run, mem, poll, same>>
        /\ pc[d] \in {"scan", "size"} /\ \E l \in {"copy", "first"} : Goto(d, l)
        /\ \A e \in Runs \ {d} : cur'[e] = cur[e]
    BY <1>2, <1>t DEF Retry, AskSize, daemonVars, QueueType
  <2> QED
    BY <1>p, <2>1, OwnKept
<1>3. CASE Tick(d)
  <2>1. /\ UNCHANGED <<row, run, mem, cur>>
        /\ pc[d] = "idle" /\ \E l \in {"idle", "scan"} : Goto(d, l)
        /\ \A e \in Runs \ {d} : poll'[e] = poll[e] /\ same'[e] = same[e]
        /\ \A f \in Files : poll'[d][f].st = "failed" =>
             f \in same'[d] /\ mem[d][f].st = "failed" /\ poll'[d][f] = mem[d][f]
    BY <1>3, <1>t DEF Tick, QueueType, NoTask
  <2>2. \A e \in Runs, f \in Files : DaemonOwns(e, f)' => DaemonOwns(e, f)
    BY <2>1 DEF DaemonOwns
  <2> USE <1>p, <2>1, <2>2 DEF OwnInv, Loading, Settling
  <2>3. LoadQuiet' /\ Owned' /\ Handed' /\ Started'
    BY DEF LoadQuiet, Owned, Handed, Started
  <2>4. Pointed' /\ RowKnown'
    BY DEF Pointed, RowKnown
  <2>5. FailedIsTracked'
    BY DEF FailedIsTracked
  <2> QED
    BY <2>3, <2>4, <2>5
<1>4. CASE NotDue(d)
  <2>1. PICK f \in Files : Release(d, f)
    BY <1>4, <1>t DEF NotDue, Held
  <2>2. UNCHANGED <<row, run, mem, cur>> /\ pc[d] = "scan"
    BY <1>4 DEF NotDue
  <2>3. \A e \in Runs, g \in Files : DaemonOwns(e, g)' => DaemonOwns(e, g)
    BY <1>r, <2>1, <2>2 DEF DaemonOwns, NoTask
  <2> USE <1>r, <2>1, <2>2, <2>3 DEF OwnInv, Loading, Settling
  <2>4. LoadQuiet' /\ Owned' /\ Handed' /\ Started'
    BY DEF LoadQuiet, Owned, Handed, Started
  <2>5. Pointed' /\ RowKnown'
    BY DEF Pointed, RowKnown, NoTask
  <2>6. FailedIsTracked'
    BY DEF FailedIsTracked
  <2> QED
    BY <2>4, <2>5, <2>6
<1>5. CASE SaveSettled(d)
  <2>1. /\ pc[d] = "settle" /\ Goto(d, "drop") /\ UNCHANGED <<run, mem, poll, same, cur>>
        /\ row'[cur[d]].st = "ok" /\ \A f \in Files \ {cur[d]} : row'[f] = row[f]
    BY <1>5, <1>t DEF SaveSettled, daemonVars, QueueType, Task
  <2>2. poll[d][cur[d]].st = "failed"
    BY <2>1 DEF PollInv, PollOk, RetryPcs
  <2> USE <1>f, <1>o, <1>p, <1>t, <2>1, <2>2 DEF OwnInv, Loading, Settling, DaemonOwns
  <2>3. LoadQuiet' /\ Owned' /\ Handed' /\ Started'
    BY DEF LoadQuiet, Owned, Handed, Started
  <2>4. Pointed' /\ RowKnown'
    BY DEF Pointed, RowKnown
  <2>5. FailedIsTracked'
    BY DEF FailedIsTracked
  <2> QED
    BY <2>3, <2>4, <2>5
<1>6. CASE RemoveTask(d)
  <2>1. /\ pc[d] = "drop" /\ Release(d, cur[d]) /\ UNCHANGED <<run, row, cur>>
        /\ mem'[d][cur[d]] = NoTask
        /\ \A e \in Runs, f \in Files : e # d \/ f # cur[d] => mem'[e][f] = mem[e][f]
    BY <1>6, <1>t DEF RemoveTask, QueueType
  <2>2. row[cur[d]].st = "ok"
    BY <1>f, <1>t, <2>1 DEF PollInv, PollOk, RetryPcs, OwnInv, RowKnown, Settling
  <2>3. \A e \in Runs, f \in Files : DaemonOwns(e, f)' => DaemonOwns(e, f)
    BY <1>r, <1>t, <2>1 DEF DaemonOwns, NoTask
  <2> USE <1>r, <1>t, <2>1, <2>2, <2>3 DEF OwnInv, Loading, Settling
  <2>4. LoadQuiet' /\ Owned' /\ Handed' /\ Started'
    BY DEF LoadQuiet, Owned, Handed, Started
  <2>5. Pointed' /\ RowKnown'
    <3>1. Pointed'
      BY DEF Pointed, NoTask
    <3>2. RowKnown'
      BY DEF RowKnown, NoTask
    <3> QED
      BY <3>1, <3>2
  <2>6. FailedIsTracked'
    BY DEF FailedIsTracked
  <2> QED
    BY <2>4, <2>5, <2>6
<1>7. CASE RetryFailed(d)
  <2>1. /\ pc[d] = "failed" /\ Release(d, cur[d]) /\ UNCHANGED <<run, cur>>
        /\ row' = [row EXCEPT ![cur[d]] = row'[cur[d]]]
        /\ cur[d] \in same[d] => mem'[d][cur[d]] = row'[cur[d]]
        /\ \A e \in Runs, f \in Files : e # d \/ f # cur[d] => mem'[e][f] = mem[e][f]
    BY <1>7, <1>t DEF RetryFailed, QueueType
  <2>2. poll[d][cur[d]].st = "failed"
    BY <2>1 DEF PollInv, PollOk, RetryPcs
  <2>3. \A e \in Runs, f \in Files : DaemonOwns(e, f)' => DaemonOwns(e, f)
    BY <1>f, <1>r, <1>t, <2>1, <2>2 DEF DaemonOwns, NoTask
  <2>4. \A f \in Files \ {cur[d]} : row'[f] = row[f]
    BY <1>t, <2>1 DEF QueueType
  <2> USE <1>f, <1>o, <1>r, <1>t, <2>1, <2>2, <2>3, <2>4 DEF OwnInv, Loading, Settling
  <2>5. LoadQuiet' /\ Owned' /\ Handed' /\ Started'
    BY DEF LoadQuiet, Owned, Handed, Started
  <2>6. Pointed' /\ RowKnown'
    <3>1. Pointed'
      BY DEF Pointed, NoTask, DaemonOwns
    <3>2. RowKnown'
      BY DEF RowKnown, NoTask, DaemonOwns
    <3> QED
      BY <3>1, <3>2
  <2>7. FailedIsTracked'
    BY DEF FailedIsTracked
  <2> QED
    BY <2>5, <2>6, <2>7
<1> QED
  BY <1>1, <1>2, <1>3, <1>4, <1>5, <1>6, <1>7 DEF Daemon

LEMMA OwnStartRun ==
  ASSUME TypeInv, OwnInv, Drains, StartRun
  PROVE  OwnInv'
<1>t. PcType /\ QueueType
  BY TypeParts DEF TypeInv
<1>1. /\ Drained /\ run' = run + 1 /\ run + 1 \in Runs
      /\ UNCHANGED <<row, mem, poll, same, cur>>
  BY <1>t, BoundsAssumption DEF StartRun, Drains, daemonVars, QueueType, Runs
<1>2. /\ \A f \in Files : pc'[f] \in {"listed", "idle"}
      /\ \A d \in Runs : pc'[d] \in {"load", pc[d]}
  BY <1>1, ActorsDiffer DEF StartRun, Actors
<1>3. \A f \in Files : row[f].st # "failed" /\ \A d \in Runs : ~DaemonOwns(d, f)
  BY <1>1 DEF Drained, DaemonOwns
<1>4. \A f \in Files, d \in Runs : mem[d][f].st # "failed" /\ poll[d][f].st # "failed"
  BY <1>3 DEF DaemonOwns
<1> QED
  BY <1>1, <1>2, <1>3, <1>4
     DEF OwnInv, LoadQuiet, Owned, Handed, Pointed, RowKnown, Started, FailedIsTracked, DaemonOwns

LEMMA OwnCrash ==
  ASSUME TypeInv, Crash
  PROVE  OwnInv'
<1>1. /\ \A f \in Files : pc'[f] = "idle"
      /\ \A d \in Runs : pc'[d] = "off"
      /\ \A f \in Files, d \in Runs : mem'[d][f].st = "none" /\ poll'[d][f].st = "none"
  BY ActorsDiffer DEF Crash, Actors, NoTasks, NoTask
<1> QED
  BY <1>1 DEF OwnInv, LoadQuiet, Owned, Handed, Pointed, RowKnown, Started, FailedIsTracked,
              DaemonOwns, Loading

LEMMA OwnNext ==
  ASSUME TypeInv, PollInv, OwnInv, UNCHANGED vars \/ (Next /\ Drains /\ Reads)
  PROVE  OwnInv'
<1>1. CASE UNCHANGED vars
  BY <1>1, OwnKept DEF vars
<1>2. ASSUME NEW a \in Actors, Copying(a) PROVE OwnInv'
  BY <1>2, OwnCopying
<1>3. CASE Next /\ Drains /\ Reads
  BY <1>2, <1>3, OwnStartRun, OwnCrash, OwnServer, OwnWorker, OwnDaemon DEF Next, Actors
<1> QED
  BY <1>1, <1>3

LEMMA RunGrows ==
  ASSUME TypeInv, [Next]_vars
  PROVE  UNCHANGED run \/ StartRun
<1>1. \A a \in Actors : Copying(a) => UNCHANGED run
  BY TypeParts, CopyingFrame DEF TypeInv
<1>2. \A f \in Files : Worker(f) => UNCHANGED run
  BY <1>1 DEF Worker, Select, Probe, Clear, SaveFailed, AddTask, Actors
<1>3. \A d \in Runs : Daemon(d) => UNCHANGED run
  BY <1>1 DEF Daemon, Load, Fill, Tick, Retry, NotDue, AskSize, SaveSettled, RemoveTask,
              RetryFailed, Actors
<1> QED
  BY <1>2, <1>3 DEF Next, Crash, Server, CopyStarts, CopyEnds, TaskForgotten, vars

LEMMA UnstartedNext ==
  ASSUME TypeInv, Unstarted, [Next]_vars
  PROVE  Unstarted'
<1> SUFFICES ASSUME run' = 0 PROVE Unstarted'
  BY DEF Unstarted
<1>1. run \in Nat
  BY TypeParts DEF TypeInv, QueueType
<1>2. CASE UNCHANGED vars
  BY <1>2 DEF vars, Unstarted, daemonVars
<1>3. CASE StartRun
  BY <1>1, <1>3 DEF StartRun
<1>4. CASE Crash
  BY <1>4, ActorsDiffer DEF Crash, Unstarted, NoTasks, Actors
<1>5. CASE \E i \in TaskIds : Server(i)
  BY <1>5 DEF Server, CopyStarts, CopyEnds, TaskForgotten, daemonVars, Unstarted
<1>6. ASSUME run = 0, NEW a \in Actors, Copying(a) PROVE FALSE
  <2>1. pc[a] \in CopyPcs
    BY <1>6, TypeParts, CopyingFrame DEF TypeInv
  <2> QED
    BY <1>6, <2>1 DEF Unstarted, Actors, CopyPcs, WaitPcs
<1>7. ASSUME run = 0, NEW f \in Files, Worker(f), ~Copying(f) PROVE FALSE
  BY <1>7 DEF Unstarted, Worker, Select, Probe, Clear, SaveFailed, AddTask
<1>8. ASSUME run = 0, NEW d \in Runs, Daemon(d), ~Copying(d) PROVE FALSE
  BY <1>8 DEF Unstarted, Daemon, Load, Fill, Tick, Retry, NotDue, AskSize, SaveSettled, RemoveTask,
              RetryFailed
<1>9. CASE run # 0 /\ ~StartRun
  BY <1>9, RunGrows
<1> QED
  BY <1>2, <1>3, <1>4, <1>5, <1>6, <1>7, <1>8, <1>9 DEF Next, Actors

(* A timely step is one from which ownership survives.                      *)
LEMMA TimelyStep ==
  ASSUME Unstarted, [Next]_vars, [Timely]_vars
  PROVE  UNCHANGED vars \/ (Next /\ Drains /\ Reads)
<1>1. run = 0 => Drained
  BY DEF Unstarted, Drained, Loaded, NoTask
<1> QED
  BY <1>1 DEF Timely, Drains

(* The instances that a run of TLC checks are timely.                       *)
LEMMA OrderlyIsTimely == ASSUME Orderly PROVE Spec => [][Timely]_vars
<1>1. [Next]_vars => [Timely]_vars
  BY DEF Timely, Reads, StartRun, SaveFailed
<1> QED
  BY <1>1, PTL DEF Spec

LEMMA OwnAlways == Spec /\ [][Timely]_vars => [](TypeInv /\ PollInv /\ OwnInv /\ Unstarted)
<1>1. Init => TypeInv /\ PollInv /\ OwnInv /\ Unstarted
  BY TypeInit, PollInit, OwnInit, UnstartedInit
<1>2. TypeInv /\ PollInv /\ OwnInv /\ Unstarted /\ [Next]_vars /\ [Timely]_vars
        => (TypeInv /\ PollInv /\ OwnInv /\ Unstarted)'
  BY TypeNext, PollNext, OwnNext, UnstartedNext, TimelyStep
<1> QED
  BY <1>1, <1>2, PTL DEF Spec

(* One actor per file: as long as each run after the first finds the queue  *)
(* drained, no two of the worker and the daemons ever have the same         *)
(* destination in hand (Run, daemon.loop).                                  *)
THEOREM SingleOwner == Spec /\ [][Timely]_vars => []OneOwner
<1>1. OwnInv => OneOwner
  BY DEF OwnInv, Owned, OneOwner, WorkerBusy
<1> QED
  BY <1>1, OwnAlways, PTL

(* The table never promises a retry that no daemon will make.               *)
THEOREM FailedTracked == Spec /\ [][Timely]_vars => []FailedIsTracked
<1>1. OwnInv => FailedIsTracked
  BY DEF OwnInv
<1> QED
  BY <1>1, OwnAlways, PTL

-----------------------------------------------------------------------------
(* Where the sizes are known: no older version has the new size, and the    *)
(* daemon's query of the source does not fail.                              *)
SizesKnown == SameSize = {} /\ "size" \notin Env

(* Two actors in the middle of a copy have different files.                 *)
BusyPcs == CopyPcs \cup {"clear", "size"}

LEMMA BusyOwns ==
  ASSUME TypeInv, PollInv, OwnInv, NEW a \in Actors, pc[a] \in BusyPcs
  PROVE  /\ a \in Files => pc[a] \notin {"idle", "add"} /\ \A d \in Runs : ~DaemonOwns(d, a)
         /\ a \in Runs => /\ DaemonOwns(a, cur[a]) /\ ~Settled(a, cur[a])
                          /\ pc[cur[a]] = "idle"
                          /\ \A d \in Runs \ {a} : ~DaemonOwns(d, cur[a])
<1>t. PcType /\ QueueType
  BY TypeParts DEF TypeInv
<1>1. pc[a] \notin {"idle", "add", "settle", "drop"}
  BY DEF BusyPcs, CopyPcs, WaitPcs
<1>2. CASE a \in Files
  BY <1>1, <1>2, ActorsDiffer DEF OwnInv, Owned
<1>3. CASE a \in Runs
  <2>1. pc[a] \in RetryPcs
    BY <1>3, <1>t DEF BusyPcs, RetryPcs, PcType, DaemonPcs, SharedPcs, WaitPcs
  <2>2. DaemonOwns(a, cur[a]) /\ cur[a] \in Files
    BY <1>3, <1>t, <2>1 DEF PollInv, PollOk, DaemonOwns, QueueType
  <2> QED
    BY <1>1, <1>3, <2>2, ActorsDiffer DEF OwnInv, Owned, Settled
<1> QED
  BY <1>2, <1>3 DEF Actors

LEMMA BusyApart ==
  ASSUME TypeInv, PollInv, OwnInv, NEW a \in Actors, NEW b \in Actors, a # b,
         pc[a] \in BusyPcs, pc[b] \in BusyPcs
  PROVE  FileOf(a) # FileOf(b)
<1>1. /\ a \in Files => FileOf(a) = a
      /\ a \in Runs => FileOf(a) = cur[a]
      /\ b \in Files => FileOf(b) = b
      /\ b \in Runs => FileOf(b) = cur[b]
  BY ActorsDiffer DEF FileOf
<1>2. pc[a] # "idle" /\ pc[b] # "idle"
  BY DEF BusyPcs, CopyPcs, WaitPcs
<1> QED
  BY <1>1, <1>2, BusyOwns DEF Actors

(* Whoever is in the middle of a copy still has its source.                 *)
LEMMA BusySource ==
  ASSUME TypeInv, PollInv, OwnInv, DataInv, NEW a \in Actors, pc[a] \in BusyPcs
  PROVE  src[FileOf(a)] = "full"
<1>1. FileOf(a) \in Files
  BY FileOfType DEF TypeInv
<1> QED
  BY <1>1, BusyOwns, ActorsDiffer DEF DataInv, WorkersSource, DaemonsSource, FileOf, Actors

LEMMA DataInit == Init => DataInv
<1> SUFFICES ASSUME Init PROVE DataInv
  OBVIOUS
<1>1. \A f \in Files : src[f] = "full"
  BY DEF Init
<1>2. \A a \in Actors : wait[a].sized /\ pc[a] # "copied"
  BY DEF Init, NoWait
<1> QED
  BY <1>1, <1>2 DEF DataInv, WorkersSource, DaemonsSource, AlwaysSized, CopiedFull, NoLoss

LEMMA DataServer ==
  ASSUME TypeInv, DataInv, NEW i \in TaskIds, Server(i)
  PROVE  DataInv'
<1>1. UNCHANGED <<src, pc, wait, mem, poll, cur>>
  BY DEF Server, CopyStarts, CopyEnds, TaskForgotten, daemonVars
<1>2. \A f \in Files : dst[f] = "full" => dst'[f] = "full"
  BY TypeParts DEF Server, CopyStarts, CopyEnds, TaskForgotten, TypeInv, ServerType
<1>3. \A a \in Actors : FileOf(a)' = FileOf(a) /\ FileOf(a) \in Files
  BY <1>1, FileOfType DEF FileOf, TypeInv
<1>4. WorkersSource' /\ DaemonsSource' /\ AlwaysSized'
  BY <1>1 DEF DataInv, WorkersSource, DaemonsSource, AlwaysSized, DaemonOwns, Settled
<1>5. CopiedFull' /\ NoLoss'
  BY <1>1, <1>2, <1>3 DEF DataInv, CopiedFull, NoLoss
<1> QED
  BY <1>4, <1>5 DEF DataInv

LEMMA DataCopying ==
  ASSUME TypeInv, PollInv, OwnInv, DataInv, SizesKnown, NEW a \in Actors, Copying(a)
  PROVE  DataInv'
<1> DEFINE f == FileOf(a)
<1>t. TypeOK /\ ServerType /\ PcType /\ WaitType /\ f \in Files /\ NoLoss
  BY TypeParts, FileOfType DEF TypeInv, DataInv
<1>g. \A b \in Actors : FileOf(b)' = FileOf(b) /\ FileOf(b) \in Files
  BY <1>t, CopyingFrame, FileOfType DEF FileOf
<1>1. /\ pc[a] \in BusyPcs /\ UNCHANGED <<row, run, mem, poll, same, cur>>
      /\ pc[a] \in CopyPcs
      /\ \E l \in NextPcs(a) : Goto(a, l)
  BY <1>t, CopyingFrame DEF BusyPcs
<1>2. \A b \in Actors \ {a} : pc'[b] = pc[b]
  BY <1>1, <1>t DEF Goto, PcType
<1>3. src[f] = "full"
  BY <1>1, BusySource
<1>4. /\ \A g \in Files \ {f} : src'[g] = src[g] /\ dst'[g] = dst[g]
      /\ src'[f] = "none" => AfterCopied(a)
  BY <1>3, <1>t DEF Copying, FSCopy, Submit, CheckFirst, CheckPoll, AskBound, ListUndone, ListDone,
       Verify, Purge, AfterCopied, RemovePartial, DestChecked, TryRemoveDst, serverVars, ServerType
<1>5. AfterCopied(a) =>
        /\ dst'[f] = "full"
        /\ pc'[a] = (IF a \in Files THEN "idle" ELSE "settle")
  <2>1. ASSUME AfterCopied(a)
        PROVE  pc[a] = "copied" /\ dst' = dst /\ Goto(a, IF a \in Files THEN "idle" ELSE "settle")
    BY <2>1 DEF AfterCopied
  <2>2. pc[a] = "copied" => dst[f] = "full"
    BY DEF DataInv, CopiedFull
  <2> QED
    BY <1>t, <2>1, <2>2 DEF Goto, PcType
<1>6. src'[f] \in {"full", "none"}
  BY <1>3, <1>t DEF Copying, FSCopy, Submit, CheckFirst, CheckPoll, AskBound, ListUndone, ListDone,
       Verify, Purge, AfterCopied, RemovePartial, DestChecked, TryRemoveDst, serverVars, ServerType
<1>7. NoLoss'
  BY <1>4, <1>5, <1>6, <1>t DEF NoLoss
<1>8. WorkersSource'
  <2>1. \A g \in Files : pc'[g] # "idle" => pc[g] # "idle"
    BY <1>1, <1>2 DEF CopyPcs, WaitPcs, Actors
  <2>2. AfterCopied(a) => pc'[f] = "idle"
    BY <1>1, <1>2, <1>5, <1>t, ActorsDiffer, BusyOwns DEF FileOf, Actors
  <2> QED
    BY <1>4, <1>6, <2>1, <2>2 DEF DataInv, WorkersSource
<1>9. DaemonsSource'
  <2>1. \A d \in Runs, g \in Files : (DaemonOwns(d, g) /\ ~Settled(d, g))' => DaemonOwns(d, g) /\ ~Settled(d, g)
    BY <1>1, <1>2 DEF DaemonOwns, Settled, CopyPcs, WaitPcs, Actors
  <2>2. ASSUME AfterCopied(a), NEW d \in Runs, NEW g \in Files, g = f
        PROVE  (DaemonOwns(d, g) => Settled(d, g))'
    BY <1>1, <1>5, <2>2, ActorsDiffer, BusyOwns DEF FileOf, Actors, DaemonOwns, Settled
  <2> SUFFICES ASSUME NEW d \in Runs, NEW g \in Files, (DaemonOwns(d, g) /\ ~Settled(d, g))'
               PROVE  src'[g] = "full"
    BY DEF DaemonsSource
  <2>3. src[g] = "full"
    BY <2>1 DEF DataInv, DaemonsSource
  <2>4. CASE g = f
    BY <1>4, <1>6, <2>2, <2>4
  <2> QED
    BY <1>4, <2>3, <2>4
<1>10. AlwaysSized'
  <2>1. \A b \in Actors : wait[b].sized /\ wait[b] \in WaitRecs
    BY <1>t DEF DataInv, AlwaysSized, WaitType
  <2>2. CASE UNCHANGED wait
    BY <2>1, <2>2 DEF AlwaysSized
  <2>3. CASE wait' = [wait EXCEPT ![a] = NoWait]
    BY <1>t, <2>1, <2>3 DEF AlwaysSized, NoWait, WaitType
  <2>4. CASE AskBound(a)
    BY <1>t, <2>1, <2>4 DEF AlwaysSized, AskBound, WaitType, WaitRecs
  <2>5. CASE ListUndone(a)
    BY <1>t, <2>1, <2>5 DEF AlwaysSized, ListUndone, Bound, WaitType
  <2>6. CASE ListDone(a)
    BY <1>t, <2>1, <2>6 DEF AlwaysSized, ListDone, WaitType, WaitRecs
  <2> QED
    BY <2>2, <2>3, <2>4, <2>5, <2>6 DEF Copying, FSCopy, CheckFirst, CheckPoll, Verify, Purge,
         AfterCopied, RemovePartial, DestChecked
<1>11. CopiedFull'
  <2>1. ASSUME NEW b \in Actors \ {a}, pc'[b] = "copied" PROVE dst'[FileOf(b)] = "full"
    <3>1. pc[b] = "copied" /\ dst[FileOf(b)] = "full"
      BY <1>2, <2>1 DEF DataInv, CopiedFull
    <3>2. FileOf(b) # f
      BY <1>1, <3>1, BusyApart DEF BusyPcs, CopyPcs
    <3> QED
      BY <1>4, <1>g, <3>1, <3>2
  <2>2. ASSUME pc'[a] = "copied" PROVE dst'[f] = "full"
    <3>1. CheckFirst(a) \/ CheckPoll(a) \/ Verify(a)
      BY <1>t, <2>2 DEF Copying, FSCopy, OnError, OnAccepted, OnSourceGone, CheckFirst, CheckPoll,
           AskBound, ListUndone, ListDone, Verify, Purge, AfterCopied, RemovePartial, Goto, PcType
    <3>2. SizeFits(a) /\ dst' = dst
      BY <1>t, <2>2, <3>1 DEF CheckFirst, CheckPoll, Verify, DestChecked, Goto, PcType, serverVars
    <3> QED
      BY <3>2 DEF SizeFits, SizesKnown, DataInv, AlwaysSized
  <2> QED
    BY <1>g, <2>1, <2>2 DEF CopiedFull
<1> QED
  BY <1>7, <1>8, <1>9, <1>10, <1>11 DEF DataInv

LEMMA DataWorker ==
  ASSUME TypeInv, PollInv, OwnInv, DataInv, NEW f \in Files, Worker(f), ~Copying(f)
  PROVE  DataInv'
<1>t. TypeOK /\ ServerType /\ PcType /\ QueueType /\ NoLoss /\ f \in Actors
  BY TypeParts DEF TypeInv, DataInv, Actors
<1>1. /\ UNCHANGED <<src, wait, poll, cur>> /\ pc[f] # "idle"
      /\ \E l \in WorkerPcs \ {"copied"} : Goto(f, l)
  BY DEF Worker, Select, Probe, Clear, SaveFailed, AddTask, serverVars, daemonVars, WorkerPcs, SharedPcs
<1>2. pc'[f] # "copied" /\ \A b \in Actors \ {f} : pc'[b] = pc[b]
  BY <1>1, <1>t DEF Goto, PcType
<1>3. src[f] = "full"
  BY <1>1 DEF DataInv, WorkersSource
<1>4. WorkersSource' /\ AlwaysSized'
  BY <1>1, <1>2 DEF DataInv, WorkersSource, AlwaysSized, Actors
<1>5. DaemonsSource'
  <2>1. \A d \in Runs, g \in Files : mem'[d][g] = mem[d][g] \/ g = f
    BY <1>t DEF Worker, Select, Probe, Clear, SaveFailed, AddTask, daemonVars, QueueType
  <2>2. \A d \in Runs, g \in Files : (DaemonOwns(d, g) /\ ~Settled(d, g))' =>
           (DaemonOwns(d, g) /\ ~Settled(d, g)) \/ g = f
    BY <1>1, <1>2, <2>1, ActorsDiffer DEF DaemonOwns, Settled, Actors
  <2> QED
    BY <1>1, <1>3, <2>2 DEF DataInv, DaemonsSource
<1>6. \A g \in Files \ {f} : dst'[g] = dst[g]
  BY <1>t DEF Worker, Select, Probe, Clear, SaveFailed, AddTask, serverVars, ServerType
<1>7. NoLoss'
  BY <1>1, <1>3, <1>6, <1>t DEF NoLoss
<1>8. CopiedFull'
  <2>1. SUFFICES ASSUME NEW b \in Actors, pc'[b] = "copied" PROVE dst'[FileOf(b)'] = "full"
    BY DEF CopiedFull
  <2>2. pc[b] = "copied" /\ b # f /\ FileOf(b)' = FileOf(b) /\ FileOf(b) \in Files
    BY <1>1, <1>2, <1>t, <2>1, FileOfType DEF FileOf
  <2>3. dst[FileOf(b)] = "full"
    BY <2>2 DEF DataInv, CopiedFull
  <2>4. FileOf(b) # f
    <3>1. b \in Files => FileOf(b) = b
      BY DEF FileOf
    <3>2. b \in Runs => FileOf(b) = cur[b] /\ pc[cur[b]] = "idle"
      BY <2>2, ActorsDiffer, BusyOwns DEF FileOf, BusyPcs, CopyPcs
    <3> QED
      BY <1>1, <2>2, <3>1, <3>2 DEF Actors
  <2> QED
    BY <1>6, <2>2, <2>3, <2>4
<1> QED
  BY <1>4, <1>5, <1>7, <1>8 DEF DataInv

LEMMA DataDaemon ==
  ASSUME TypeInv, PollInv, OwnInv, DataInv, SizesKnown, NEW d \in Runs, Daemon(d), ~Copying(d)
  PROVE  DataInv'
<1>t. TypeOK /\ PcType /\ QueueType /\ WaitType /\ d \in Actors
  BY TypeParts DEF TypeInv, Actors
<1>1. /\ UNCHANGED <<src, dst>>
      /\ \E l \in DaemonPcs \ {"copied"} : Goto(d, l)
      /\ \A e \in Runs \ {d} : mem'[e] = mem[e] /\ poll'[e] = poll[e] /\ cur'[e] = cur[e]
  BY <1>t DEF Daemon, Load, Fill, Tick, Retry, NotDue, AskSize, SaveSettled, RemoveTask, RetryFailed,
         Release, serverVars, daemonVars, DaemonPcs, SharedPcs, WaitPcs, QueueType
<1>2. pc'[d] # "copied" /\ \A b \in Actors \ {d} : pc'[b] = pc[b]
  BY <1>1, <1>t DEF Goto, PcType
<1>3. WorkersSource' /\ NoLoss'
  BY <1>1, <1>2, ActorsDiffer DEF DataInv, WorkersSource, NoLoss, Actors
<1>4. AlwaysSized'
  <2>1. CASE AskSize(d)
    <3>1. pc[d] = "size" /\ src[cur[d]] = "full"
      BY <2>1, ActorsDiffer, BusySource DEF AskSize, BusyPcs, FileOf, Actors
    <3>2. wait' = [wait EXCEPT ![d].sized = TRUE]
      BY <2>1, <3>1 DEF AskSize, SizesKnown
    <3> QED
      BY <1>t, <3>2 DEF DataInv, AlwaysSized, WaitType, WaitRecs
  <2>2. CASE ~AskSize(d)
    <3>1. UNCHANGED wait
      BY <2>2 DEF Daemon, Load, Fill, Tick, Retry, NotDue, SaveSettled, RemoveTask, RetryFailed
    <3> QED
      BY <3>1 DEF DataInv, AlwaysSized
  <2> QED
    BY <2>1, <2>2
<1>5. CopiedFull'
  <2>1. \A b \in Actors : pc'[b] = "copied" => pc[b] = "copied" /\ FileOf(b)' = FileOf(b)
    BY <1>1, <1>2 DEF FileOf, Actors
  <2> QED
    BY <1>1, <2>1 DEF DataInv, CopiedFull
<1>6. DaemonsSource'
  <2>1. ASSUME NEW g \in Files, (DaemonOwns(d, g) /\ ~Settled(d, g))'
        PROVE  DaemonOwns(d, g) /\ ~Settled(d, g)
    <3>1. CASE Load(d) \/ Fill(d)
      <4>1. /\ row[g].st # "failed" /\ mem[d][g].st # "failed" /\ poll[d][g].st # "failed"
        BY <3>1 DEF Load, Fill, OwnInv, LoadQuiet, Loading, DaemonOwns
      <4> QED
        BY <1>t, <2>1, <3>1, <4>1 DEF Load, Fill, DaemonOwns, NoTask, NoTasks, QueueType
    <3>2. CASE Tick(d)
      BY <1>t, <2>1, <3>2 DEF Tick, DaemonOwns, Settled, NoTask, QueueType
    <3>3. CASE Retry(d) \/ AskSize(d)
      BY <1>t, <2>1, <3>3 DEF Retry, AskSize, DaemonOwns, Settled, daemonVars
    <3>4. CASE NotDue(d)
      BY <1>t, <2>1, <3>4 DEF NotDue, Release, DaemonOwns, Settled, NoTask, QueueType
    <3>5. CASE SaveSettled(d)
      BY <1>t, <2>1, <3>5 DEF SaveSettled, DaemonOwns, Settled, daemonVars, Goto, PcType
    <3>6. CASE RemoveTask(d)
      BY <1>t, <2>1, <3>6 DEF RemoveTask, Release, DaemonOwns, Settled, NoTask, QueueType
    <3>7. CASE RetryFailed(d)
      <4>1. pc[d] = "failed" /\ poll[d][cur[d]].st = "failed" /\ Release(d, cur[d])
            /\ \A h \in Files \ {cur[d]} : mem'[d][h] = mem[d][h]
        BY <1>t, <3>7 DEF RetryFailed, PollInv, PollOk, RetryPcs, QueueType
      <4> QED
        BY <1>t, <2>1, <4>1 DEF Release, DaemonOwns, Settled, NoTask, QueueType
    <3> QED
      BY <3>1, <3>2, <3>3, <3>4, <3>5, <3>6, <3>7 DEF Daemon
  <2>2. \A e \in Runs \ {d}, g \in Files :
          (DaemonOwns(e, g) /\ ~Settled(e, g))' => DaemonOwns(e, g) /\ ~Settled(e, g)
    BY <1>1, <1>2 DEF DaemonOwns, Settled, Actors
  <2> QED
    BY <1>1, <2>1, <2>2 DEF DataInv, DaemonsSource
<1> QED
  BY <1>3, <1>4, <1>5, <1>6 DEF DataInv

LEMMA DataStartRun ==
  ASSUME TypeInv, DataInv, Drains, StartRun
  PROVE  DataInv'
<1>1. UNCHANGED <<src, dst, row, wait, mem, poll, same, cur>> /\ Drained
  BY DEF StartRun, Drains, serverVars, daemonVars
<1>2. \A f \in Files : pc'[f] # "idle" => src[f] = "full"
  BY TypeParts, BoundsAssumption, ActorsDiffer
     DEF StartRun, Actors, TypeInv, QueueType, Runs
<1>3. \A a \in Actors : pc'[a] = "copied" => pc[a] = "copied"
  BY DEF StartRun
<1>4. \A f \in Files, d \in Runs : ~DaemonOwns(d, f)'
  BY <1>1 DEF Drained, DaemonOwns
<1>5. \A a \in Actors : FileOf(a)' = FileOf(a)
  BY <1>1 DEF FileOf
<1> QED
  BY <1>1, <1>2, <1>3, <1>4, <1>5
     DEF DataInv, WorkersSource, DaemonsSource, AlwaysSized, CopiedFull, NoLoss

LEMMA DataCrash ==
  ASSUME DataInv, Crash
  PROVE  DataInv'
<1>1. /\ UNCHANGED <<src, dst>>
      /\ \A f \in Files : pc'[f] = "idle"
      /\ \A a \in Actors : pc'[a] # "copied" /\ wait'[a].sized
      /\ \A d \in Runs, f \in Files : ~DaemonOwns(d, f)'
  BY DEF Crash, serverVars, Actors, NoWait, NoTasks, NoTask, DaemonOwns
<1> QED
  BY <1>1 DEF DataInv, WorkersSource, DaemonsSource, AlwaysSized, CopiedFull, NoLoss

LEMMA DataNext ==
  ASSUME SizesKnown, TypeInv, PollInv, OwnInv, DataInv,
         UNCHANGED vars \/ (Next /\ Drains /\ Reads)
  PROVE  DataInv'
<1>1. CASE UNCHANGED vars
  BY <1>1 DEF vars, DataInv, WorkersSource, DaemonsSource, AlwaysSized, CopiedFull, NoLoss,
              DaemonOwns, Settled, FileOf
<1>2. ASSUME NEW a \in Actors, Copying(a) PROVE DataInv'
  BY <1>2, DataCopying
<1>3. CASE Next /\ Drains
  BY <1>2, <1>3, DataStartRun, DataCrash, DataServer, DataWorker, DataDaemon DEF Next, Actors
<1> QED
  BY <1>1, <1>3

(* No file is ever lost to delete_src: with the sizes known and each run    *)
(* after the first on a drained queue, a source is removed only when the    *)
(* destination is complete, and a destination only while its source is      *)
(* there (afterCopied, removePartial).                                      *)
THEOREM NothingLost == ASSUME SizesKnown PROVE Spec /\ [][Timely]_vars => []NoLoss
<1>1. Init => DataInv
  BY DataInit
<1>2. TypeInv /\ PollInv /\ OwnInv /\ Unstarted /\ DataInv /\ [Next]_vars /\ [Timely]_vars => DataInv'
  BY TimelyStep, DataNext
<1>3. DataInv => NoLoss
  BY DEF DataInv
<1> QED
  BY <1>1, <1>2, <1>3, OwnAlways, PTL DEF Spec

(* The first run and the process after it, with crashes, need no drained    *)
(* queue: until a second run starts there is one owner per file and none is *)
(* lost.                                                                    *)
THEOREM FirstRunIsSafe ==
  ASSUME SizesKnown
  PROVE  Spec /\ [][Reads]_vars => [](run <= 1 => OneOwner /\ FailedIsTracked /\ NoLoss)
<1> DEFINE Inv == TypeInv /\ PollInv /\ Unstarted /\ (run <= 1 => OwnInv /\ DataInv)
<1>1. Init => Inv
  BY TypeInit, PollInit, OwnInit, UnstartedInit, DataInit
<1>2. Inv /\ [Next]_vars /\ [Reads]_vars => Inv'
  <2> SUFFICES ASSUME Inv, [Next]_vars, [Reads]_vars, run' <= 1 PROVE OwnInv' /\ DataInv'
    BY TypeNext, PollNext, UnstartedNext
  <2>1. run \in Nat
    BY TypeParts DEF TypeInv, QueueType
  <2>2. (StartRun => run = 0) /\ run <= 1
    BY <2>1, RunGrows DEF StartRun
  <2>3. [Timely]_vars
    BY <2>2 DEF Timely
  <2> QED
    BY <2>2, <2>3, TimelyStep, OwnNext, DataNext
<1>3. Inv => (run <= 1 => OneOwner /\ FailedIsTracked /\ NoLoss)
  BY DEF OwnInv, Owned, OneOwner, WorkerBusy, DataInv
<1> QED
  BY <1>1, <1>2, <1>3, PTL DEF Spec

-----------------------------------------------------------------------------
(* What a step may do to a row.                                             *)
CountStep == \A f \in Files : row'[f] # row[f] /\ row[f].st # "none" =>
  \/ pc[f] = "save"
  \/ row[f].st = "failed" /\ row'[f].att >= row[f].att

LEMMA CountNext ==
  TypeInv /\ PollInv /\ OwnInv /\ [Next]_vars => [CountStep]_vars
<1> SUFFICES ASSUME TypeInv, PollInv, OwnInv, Next PROVE CountStep
  OBVIOUS
<1>t. TypeOK /\ QueueType
  BY TypeParts DEF TypeInv
<1>1. CASE UNCHANGED row
  BY <1>1 DEF CountStep
<1>2. ASSUME NEW f \in Files, SaveFailed(f) PROVE CountStep
  BY <1>t, <1>2 DEF SaveFailed, CountStep, QueueType
<1>3. ASSUME NEW d \in Runs, SaveSettled(d) \/ RetryFailed(d) PROVE CountStep
  <2> DEFINE f == cur[d]
  <2>1. pc[d] \in {"settle", "failed"} /\ f \in Files
    BY <1>3, <1>t DEF SaveSettled, RetryFailed, QueueType
  <2>2. poll[d][f].st = "failed" /\ poll[d][f].att \in Nat
    BY <1>t, <2>1, TaskTypes DEF PollInv, PollOk, RetryPcs, QueueType
  <2>3. row[f] = poll[d][f]
    BY <2>1, <2>2 DEF OwnInv, Pointed, RowKnown, Settling
  <2>4. row'[f].att \in {poll[d][f].att, poll[d][f].att + 1}
    BY <1>3, <1>t, <2>1 DEF SaveSettled, RetryFailed, Task, QueueType
  <2>5. \A g \in Files \ {f} : row'[g] = row[g]
    BY <1>3, <1>t DEF SaveSettled, RetryFailed, QueueType
  <2> QED
    BY <2>2, <2>3, <2>4, <2>5 DEF CountStep
<1>4. ASSUME NEW a \in Actors, Copying(a) PROVE CountStep
  BY <1>1, <1>4, <1>t, CopyingFrame
<1>5. ASSUME NEW f \in Files, Worker(f), ~Copying(f), ~SaveFailed(f) PROVE CountStep
  BY <1>1, <1>5 DEF Worker, Select, Probe, Clear, AddTask
<1>6. ASSUME NEW d \in Runs, Daemon(d), ~Copying(d), ~SaveSettled(d), ~RetryFailed(d) PROVE CountStep
  BY <1>1, <1>6 DEF Daemon, Load, Fill, Tick, Retry, NotDue, AskSize, RemoveTask
<1>7. CASE StartRun \/ Crash \/ \E i \in TaskIds : Server(i)
  BY <1>1, <1>7 DEF StartRun, Crash, Server, CopyStarts, CopyEnds, TaskForgotten
<1> QED
  BY <1>2, <1>3, <1>4, <1>5, <1>6, <1>7 DEF Next, Worker, Daemon, Actors

(* A retry never lowers the attempts of a row and never revives a dead      *)
(* letter (retryFailed, the settlement in checkRetryTask).                  *)
THEOREM AttemptsCountUp == Spec /\ [][Timely]_vars => CountsUp
<1>1. TypeInv /\ PollInv /\ OwnInv /\ [Next]_vars
        => [\A f \in Files : row'[f] # row[f] /\ row[f].st # "none" =>
              \/ pc[f] = "save"
              \/ row[f].st = "failed" /\ row'[f].att >= row[f].att]_vars
  BY CountNext DEF CountStep
<1> QED
  BY <1>1, OwnAlways, PTL DEF Spec, CountsUp
=============================================================================
