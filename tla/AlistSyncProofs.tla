-------------------------- MODULE AlistSyncProofs --------------------------
(***************************************************************************)
(* Proofs about AlistSync, for every value of its constants.  TypeInv, the *)
(* type invariant with the bound of the miss counter, comes first; what    *)
(* follows rests on it and on CopyingFrame, which sums up the ten actions  *)
(* of a copy for the parts of the state they leave alone.                  *)
(***************************************************************************)
EXTENDS AlistSync, TLAPS

(* A worker is never taken for a daemon.                                    *)
LEMMA ActorsDiffer == \A f \in Files, d \in Runs : f # d /\ f \notin Runs /\ d \notin Files
  BY FilesAssumption DEF Runs

LEMMA FileOfType ==
  ASSUME TypeOK, NEW a \in Actors
  PROVE  FileOf(a) \in Files
  BY DEF TypeOK, FileOf, Actors

-----------------------------------------------------------------------------
(* A copy in progress, and where its steps may lead a worker or a daemon.   *)
CopyPcs == WaitPcs \cup {"copy", "copied", "partial"}
NextPcs(a) == CopyPcs \cup (IF a \in Files THEN {"idle", "save"} ELSE {"size", "settle", "failed"})

(* What every step of a copy has in common: only the copying actor's pc and *)
(* wait, and the server, change.                                            *)
LEMMA CopyingFrame ==
  ASSUME TypeOK, NEW a \in Actors, Copying(a)
  PROVE  /\ pc[a] \in CopyPcs
         /\ UNCHANGED <<row, run, mem, poll, same, cur>>
         /\ \E l \in NextPcs(a) : Goto(a, l)
<1> USE DEF CopyPcs, NextPcs, WaitPcs, daemonVars
<1>1. CASE FSCopy(a)
  BY <1>1 DEF FSCopy, OnError, OnAccepted, OnSourceGone
<1>2. CASE CheckFirst(a) \/ CheckPoll(a) \/ Verify(a)
  BY <1>2 DEF CheckFirst, CheckPoll, Verify, DestChecked
<1>3. CASE AskBound(a) \/ ListUndone(a) \/ ListDone(a)
  BY <1>3 DEF AskBound, ListUndone, ListDone
<1>4. CASE Purge(a) \/ AfterCopied(a) \/ RemovePartial(a)
  BY <1>4 DEF Purge, AfterCopied, RemovePartial
<1> QED
  BY <1>1, <1>2, <1>3, <1>4 DEF Copying

-----------------------------------------------------------------------------
(* The misses of a copy in progress stay below the limit: at the limit the  *)
(* actor leaves the wait, and starts over with none.                        *)
Waiting   == WaitPcs \cup {"size"}
MissBelow == \A a \in Actors : pc[a] \in Waiting => wait[a].miss < MissLimit

TypeInv == TypeOK /\ MissBelow

LEMMA TypeInit == Init => TypeInv
<1> SUFFICES ASSUME Init PROVE TypeInv
  OBVIOUS
<1> USE DEF Init
<1>1. (CHOOSE f \in Files : TRUE) \in Files
  BY FilesAssumption
<1>2. tasks \in [TaskIds -> CopyRecs]
  BY <1>1 DEF NoCopy, CopyRecs
<1>3. NoTasks \in [Files -> TaskRecs]
  BY DEF NoTasks, NoTask, TaskRecs
<1>4. wait \in [Actors -> WaitRecs] /\ MissBelow
  BY BoundsAssumption, RetryAssumption DEF NoWait, WaitRecs, MissBelow
<1>5. pc \in [Actors -> WorkerPcs \cup DaemonPcs]
      /\ (\A f \in Files : pc[f] \in WorkerPcs) /\ (\A d \in Runs : pc[d] \in DaemonPcs)
  BY ActorsDiffer DEF Actors, WorkerPcs, DaemonPcs, SharedPcs
<1> QED
  BY <1>1, <1>2, <1>3, <1>4, <1>5, BoundsAssumption DEF TypeOK, TypeInv

(* What a jump needs to keep the types of pc.                               *)
PcType ==
  /\ pc \in [Actors -> WorkerPcs \cup DaemonPcs]
  /\ \A f \in Files : pc[f] \in WorkerPcs
  /\ \A d \in Runs : pc[d] \in DaemonPcs

LEMMA GotoType ==
  ASSUME TypeOK, NEW a \in Actors, NEW l, Goto(a, l),
         a \in Files => l \in WorkerPcs, a \in Runs => l \in DaemonPcs
  PROVE  PcType'
  BY ActorsDiffer DEF TypeOK, Goto, Actors, PcType

LEMMA NextPcsType ==
  ASSUME NEW a \in Actors, NEW l \in NextPcs(a)
  PROVE  (a \in Files => l \in WorkerPcs) /\ (a \in Runs => l \in DaemonPcs)
  BY ActorsDiffer DEF Actors, NextPcs, CopyPcs, WaitPcs, SharedPcs, WorkerPcs, DaemonPcs

(* The records of wait, and the counter that must not leave its range.      *)
LEMMA WaitTypes ==
  ASSUME NEW w \in WaitRecs
  PROVE  /\ NoWait \in WaitRecs /\ NoWait.miss < MissLimit
         /\ [w EXCEPT !.bound = 0] \in WaitRecs
         /\ \A k \in BOOLEAN : [w EXCEPT !.sized = k] \in WaitRecs
         /\ \A i \in TaskIds : Bound(w, i) \in WaitRecs /\ Bound(w, i).miss < MissLimit
         /\ w.miss < MissLimit => [w EXCEPT !.miss = @ + 1] \in WaitRecs
<1> USE BoundsAssumption, RetryAssumption DEF WaitRecs
<1>1. NoWait \in WaitRecs /\ NoWait.miss < MissLimit
  BY DEF NoWait
<1>2. [w EXCEPT !.bound = 0] \in WaitRecs
  OBVIOUS
<1>3. ASSUME NEW k \in BOOLEAN PROVE [w EXCEPT !.sized = k] \in WaitRecs
  OBVIOUS
<1>4. ASSUME NEW i \in TaskIds PROVE Bound(w, i) \in WaitRecs /\ Bound(w, i).miss < MissLimit
  BY DEF Bound, TaskIds
<1>5. ASSUME w.miss < MissLimit PROVE [w EXCEPT !.miss = @ + 1] \in WaitRecs
  <2>1. w.miss + 1 \in 0 .. MissLimit
    BY <1>5
  <2> QED
    BY <2>1
<1> QED
  BY <1>1, <1>2, <1>3, <1>4, <1>5
(* The files' and the server's side of the types, and the daemons'.         *)
ServerType ==
  /\ src   \in [Files -> {"full", "none"}]
  /\ dst   \in [Files -> {"none", "part", "old", "full"}]
  /\ tasks \in [TaskIds -> CopyRecs]
QueueType ==
  /\ row   \in [Files -> TaskRecs]
  /\ run   \in 0 .. MaxRuns
  /\ mem   \in [Runs -> [Files -> TaskRecs]]
  /\ poll  \in [Runs -> [Files -> TaskRecs]]
  /\ same  \in [Runs -> SUBSET Files]
  /\ cur   \in [Runs -> Files]
WaitType == wait \in [Actors -> WaitRecs]

LEMMA TypeParts ==
  /\ TypeOK  <=> ServerType  /\ QueueType  /\ WaitType  /\ PcType
  /\ TypeOK' <=> ServerType' /\ QueueType' /\ WaitType' /\ PcType'
  BY DEF TypeOK, ServerType, QueueType, WaitType, PcType

LEMMA MissKept ==
  ASSUME TypeInv, NEW a \in Actors, NEW l, Goto(a, l), UNCHANGED wait,
         l \in Waiting => pc[a] \in Waiting
  PROVE  MissBelow'
  BY DEF TypeInv, TypeOK, MissBelow, Goto

LEMMA MissSet ==
  ASSUME TypeInv, NEW a \in Actors, NEW l, Goto(a, l), NEW w, wait' = [wait EXCEPT ![a] = w],
         l \in Waiting => w.miss < MissLimit
  PROVE  MissBelow'
  BY DEF TypeInv, TypeOK, MissBelow, Goto

LEMMA TypeServer ==
  ASSUME TypeInv, NEW i \in TaskIds, Server(i)
  PROVE  TypeInv'
<1>1. UNCHANGED <<src, row, run, pc, wait, mem, poll, same, cur>>
  BY DEF Server, CopyStarts, CopyEnds, TaskForgotten, daemonVars
<1>2. ServerType /\ QueueType /\ WaitType /\ PcType /\ MissBelow
  BY TypeParts DEF TypeInv
<1>3. dst' \in [Files -> {"none", "part", "old", "full"}]
  BY <1>2 DEF Server, CopyStarts, CopyEnds, TaskForgotten, ServerType
<1>4. tasks[i] \in CopyRecs
  BY <1>2 DEF ServerType
<1>5. \A st \in {"ok", "failed", "gone"} : [tasks[i] EXCEPT !.st = st] \in CopyRecs
  BY <1>4 DEF CopyRecs
<1>6. tasks' = tasks \/ \E st \in {"ok", "failed", "gone"} : tasks' = [tasks EXCEPT ![i].st = st]
  BY DEF Server, CopyStarts, CopyEnds, TaskForgotten
<1>7. tasks' \in [TaskIds -> CopyRecs]
  BY <1>2, <1>5, <1>6 DEF ServerType
<1> QED
  BY <1>1, <1>2, <1>3, <1>7, TypeParts
     DEF TypeInv, ServerType, QueueType, WaitType, PcType, MissBelow

LEMMA TypeCopying ==
  ASSUME TypeInv, NEW a \in Actors, Copying(a)
  PROVE  TypeInv'
<1> DEFINE f == FileOf(a)
<1>t. TypeOK /\ ServerType /\ QueueType /\ WaitType /\ PcType /\ MissBelow
  BY TypeParts DEF TypeInv
<1>f. f \in Files
  BY <1>t, FileOfType
<1>w. wait \in [Actors -> WaitRecs] /\ wait[a] \in WaitRecs
  BY <1>t DEF WaitType
<1>q. QueueType'
  BY <1>t, CopyingFrame DEF QueueType
<1>p. PcType'
  BY <1>t, CopyingFrame, GotoType, NextPcsType
<1>1. ASSUME FSCopy(a) PROVE ServerType' /\ WaitType' /\ MissBelow'
  <2>1. WaitType' /\ MissBelow'
    BY <1>1, <1>w, WaitTypes, MissSet
       DEF FSCopy, WaitType, OnError, OnAccepted, OnSourceGone
  <2>2. dst' \in [Files -> {"none", "part", "old", "full"}]
    BY <1>1, <1>f, <1>t DEF FSCopy, Submit, ServerType
  <2>3. [file |-> f, st |-> "running"] \in CopyRecs
    BY <1>f DEF CopyRecs
  <2>4. tasks' = tasks \/ \E i \in TaskIds : tasks' = [tasks EXCEPT ![i] = [file |-> f, st |-> "running"]]
    BY <1>1 DEF FSCopy, Submit
  <2>5. tasks' \in [TaskIds -> CopyRecs]
    BY <2>3, <2>4, <1>t DEF ServerType
  <2>6. src' = src
    BY <1>1 DEF FSCopy
  <2> QED
    BY <2>1, <2>2, <2>5, <2>6, <1>t DEF ServerType
<1>2. ASSUME CheckFirst(a) \/ CheckPoll(a) \/ Verify(a) PROVE ServerType' /\ WaitType' /\ MissBelow'
  <2>1. UNCHANGED <<src, dst, tasks, wait>> /\ pc[a] \in Waiting /\ \E l : Goto(a, l)
    BY <1>2 DEF CheckFirst, CheckPoll, Verify, DestChecked, serverVars, Waiting, WaitPcs
  <2> QED
    BY <1>t, <2>1, MissKept DEF ServerType, WaitType
<1>3. ASSUME AskBound(a) \/ ListUndone(a) \/ ListDone(a) PROVE ServerType' /\ WaitType' /\ MissBelow'
  <2>1. UNCHANGED <<src, dst, tasks>> /\ pc[a] \in Waiting
    BY <1>3 DEF AskBound, ListUndone, ListDone, serverVars, Waiting, WaitPcs
  <2>2. CASE UNCHANGED wait
    <3>1. \E l : Goto(a, l)
      BY <1>3 DEF AskBound, ListUndone, ListDone
    <3> QED
      BY <1>t, <2>1, <2>2, <3>1, MissKept DEF ServerType, WaitType
  <2>3. wait[a].miss < MissLimit
    BY <1>t, <2>1 DEF MissBelow
  <2>4. CASE AskBound(a) /\ wait' # wait
    <3>1. wait' = [wait EXCEPT ![a] = [wait[a] EXCEPT !.bound = 0]] /\ Goto(a, "poll")
      BY <2>4 DEF AskBound
    <3>2. [wait[a] EXCEPT !.bound = 0].miss = wait[a].miss
      BY <1>w DEF WaitRecs
    <3> QED
      BY <1>t, <1>w, <2>1, <2>3, <3>1, <3>2, WaitTypes, MissSet DEF ServerType, WaitType
  <2>5. CASE ListUndone(a) /\ wait' # wait
    <3>1. PICK i \in TaskIds : wait' = [wait EXCEPT ![a] = Bound(wait[a], i)] /\ Goto(a, "poll")
      BY <2>5 DEF ListUndone, Listed
    <3> QED
      BY <1>t, <1>w, <2>1, <3>1, WaitTypes, MissSet DEF ServerType, WaitType
  <2>6. CASE ListDone(a) /\ wait' # wait
    <3> DEFINE w == [wait[a] EXCEPT !.miss = @ + 1]
    <3>1. /\ wait' = [wait EXCEPT ![a] = w]
          /\ Goto(a, IF wait[a].miss + 1 >= MissLimit THEN "partial" ELSE "poll")
      BY <2>6 DEF ListDone
    <3>2. w \in WaitRecs
      BY <1>w, <2>3, WaitTypes
    <3>3. w.miss = wait[a].miss + 1 /\ wait[a].miss \in Nat
      BY <1>w, RetryAssumption DEF WaitRecs
    <3>4. (IF wait[a].miss + 1 >= MissLimit THEN "partial" ELSE "poll") \in Waiting
            => w.miss < MissLimit
      BY <3>3, RetryAssumption DEF Waiting, WaitPcs
    <3>5. WaitType'
      BY <1>w, <3>1, <3>2 DEF WaitType
    <3> HIDE DEF w
    <3>6. MissBelow'
      BY <3>1, <3>4, MissSet
    <3> QED
      BY <1>t, <2>1, <3>5, <3>6 DEF ServerType
  <2> QED
    BY <1>3, <2>2, <2>4, <2>5, <2>6
<1>4. ASSUME Purge(a) \/ AfterCopied(a) \/ RemovePartial(a) PROVE ServerType' /\ WaitType' /\ MissBelow'
  <2>1. WaitType' /\ MissBelow'
    <3>1. CASE Purge(a)
      BY <1>t, <3>1, MissKept DEF Purge, WaitType, Waiting, WaitPcs
    <3>2. CASE AfterCopied(a) \/ RemovePartial(a)
      BY <1>w, <3>2, WaitTypes, MissSet DEF AfterCopied, RemovePartial, WaitType
    <3> QED
      BY <1>4, <3>1, <3>2
  <2>2. ServerType'
    BY <1>4, <1>f, <1>t DEF Purge, AfterCopied, RemovePartial, TryRemoveDst, ServerType
  <2> QED
    BY <2>1, <2>2
<1>5. ServerType' /\ WaitType' /\ MissBelow'
  BY <1>1, <1>2, <1>3, <1>4 DEF Copying
<1> QED
  BY <1>5, <1>p, <1>q, TypeParts DEF TypeInv
LEMMA TaskTypes ==
  /\ NoTask \in TaskRecs /\ NoTasks \in [Files -> TaskRecs]
  /\ \A st \in {"failed", "dead", "ok"}, att \in Nat : Task(st, att) \in TaskRecs
  /\ \A t \in TaskRecs : t.att \in Nat
  BY DEF NoTask, NoTasks, Task, TaskRecs

LEMMA TypeWorker ==
  ASSUME TypeInv, NEW f \in Files, Worker(f)
  PROVE  TypeInv'
<1>t. TypeOK /\ ServerType /\ QueueType /\ WaitType /\ PcType /\ MissBelow
  BY TypeParts DEF TypeInv
<1>a. f \in Actors
  BY DEF Actors
<1>1. CASE Copying(f)
  BY <1>1, <1>a, TypeCopying
<1>2. ASSUME Select(f) \/ Probe(f) \/ Clear(f) \/ SaveFailed(f) \/ AddTask(f) PROVE TypeInv'
  <2> USE <1>2 DEF Select, Probe, Clear, SaveFailed, AddTask, serverVars, daemonVars
  <2>1. \E l \in WorkerPcs : Goto(f, l) /\ UNCHANGED wait /\ l \notin Waiting
    BY DEF WorkerPcs, SharedPcs, Waiting, WaitPcs
  <2>2. PcType' /\ WaitType' /\ MissBelow'
    BY <1>a, <1>t, <2>1, ActorsDiffer, GotoType, MissKept DEF WaitType
  <2>3. ServerType'
    BY <1>t DEF ServerType
  <2>4. Task("failed", 1) \in TaskRecs
    BY TaskTypes
  <2>5. row' \in [Files -> TaskRecs] /\ run' \in 0 .. MaxRuns
    BY <1>t, <2>4 DEF QueueType
  <2>6. mem' \in [Runs -> [Files -> TaskRecs]] /\ same' \in [Runs -> SUBSET Files]
    <3>1. CASE UNCHANGED <<mem, same>>
      BY <1>t, <3>1 DEF QueueType
    <3>2. CASE AddTask(f)
      <4>1. [mem[run] EXCEPT ![f] = Task("failed", 1)] \in [Files -> TaskRecs] \/ run \notin Runs
        BY <1>t, <2>4 DEF QueueType
      <4> QED
        BY <1>t, <3>2, <4>1 DEF QueueType, AddTask
    <3> QED
      BY <3>1, <3>2
  <2>7. QueueType'
    BY <1>t, <2>5, <2>6 DEF QueueType
  <2> QED
    BY <2>2, <2>3, <2>7, TypeParts DEF TypeInv
<1> QED
  BY <1>1, <1>2 DEF Worker

LEMMA ReleaseType ==
  ASSUME QueueType, NEW d \in Runs, NEW f, Release(d, f)
  PROVE  poll' \in [Runs -> [Files -> TaskRecs]] /\ same' \in [Runs -> SUBSET Files]
  BY TaskTypes DEF QueueType, Release

LEMMA TypeDaemon ==
  ASSUME TypeInv, NEW d \in Runs, Daemon(d)
  PROVE  TypeInv'
<1>t. TypeOK /\ ServerType /\ QueueType /\ WaitType /\ PcType /\ MissBelow
  BY TypeParts DEF TypeInv
<1>a. d \in Actors
  BY DEF Actors
<1>c. cur[d] \in Files /\ poll[d] \in [Files -> TaskRecs] /\ poll[d][cur[d]].att \in Nat
  BY <1>t, TaskTypes DEF QueueType
<1>1. CASE Copying(d)
  BY <1>1, <1>a, TypeCopying
<1>2. ASSUME AskSize(d) PROVE TypeInv'
  <2>1. UNCHANGED <<src, dst, tasks, row, run, mem, poll, same, cur>> /\ Goto(d, "first")
    BY <1>2 DEF AskSize, serverVars, daemonVars
  <2>2. PICK known \in BOOLEAN : wait' = [wait EXCEPT ![d] = [wait[d] EXCEPT !.sized = known]]
    BY <1>2 DEF AskSize
  <2>3. wait[d] \in WaitRecs /\ wait[d].miss < MissLimit
    BY <1>2, <1>a, <1>t DEF AskSize, WaitType, MissBelow, Waiting
  <2>4. [wait[d] EXCEPT !.sized = known] \in WaitRecs
    BY <2>3, WaitTypes
  <2>5. [wait[d] EXCEPT !.sized = known].miss < MissLimit
    BY <2>3 DEF WaitRecs
  <2>6. PcType'
    BY <1>a, <1>t, <2>1, ActorsDiffer, GotoType DEF DaemonPcs, SharedPcs, WaitPcs
  <2>7. WaitType' /\ MissBelow'
    BY <1>a, <1>t, <2>1, <2>2, <2>4, <2>5, MissSet DEF WaitType
  <2> QED
    BY <1>t, <2>1, <2>6, <2>7, TypeParts DEF TypeInv, ServerType, QueueType
<1>3. ASSUME \/ Load(d) \/ Fill(d) \/ Tick(d) \/ Retry(d) \/ NotDue(d)
             \/ SaveSettled(d) \/ RemoveTask(d) \/ RetryFailed(d)
      PROVE  TypeInv'
  <2>1. UNCHANGED <<src, dst, tasks, run, wait>> /\ \E l \in DaemonPcs \ Waiting : Goto(d, l)
    BY <1>3 DEF Load, Fill, Tick, Retry, NotDue, SaveSettled, RemoveTask, RetryFailed,
                Release, serverVars, DaemonPcs, SharedPcs, Waiting, WaitPcs
  <2>2. ServerType' /\ WaitType' /\ PcType' /\ MissBelow'
    BY <1>a, <1>t, <2>1, ActorsDiffer, GotoType, MissKept DEF ServerType, WaitType
  <2>3. CASE Load(d)
    <3>1. poll' \in [Runs -> [Files -> TaskRecs]]
      BY <1>t, <2>3, TaskTypes DEF Load, QueueType
    <3> QED
      BY <1>t, <2>2, <2>3, <3>1, TypeParts DEF Load, QueueType, TypeInv
  <2>4. CASE Fill(d)
    <3>1. mem' \in [Runs -> [Files -> TaskRecs]] /\ poll' \in [Runs -> [Files -> TaskRecs]]
      BY <1>t, <2>4, TaskTypes DEF Fill, QueueType
    <3> QED
      BY <1>t, <2>2, <2>4, <3>1, TypeParts DEF Fill, QueueType, TypeInv
  <2>5. CASE Tick(d)
    <3>1. poll' \in [Runs -> [Files -> TaskRecs]] /\ same' \in [Runs -> SUBSET Files]
      BY <1>t, <2>5, TaskTypes DEF Tick, QueueType
    <3> QED
      BY <1>t, <2>2, <2>5, <3>1, TypeParts DEF Tick, QueueType, TypeInv
  <2>6. CASE Retry(d)
    <3>1. cur' \in [Runs -> Files]
      BY <1>t, <2>6 DEF Retry, QueueType, Held
    <3> QED
      BY <1>t, <2>2, <2>6, <3>1, TypeParts DEF Retry, QueueType, TypeInv
  <2>7. CASE NotDue(d)
    <3>1. poll' \in [Runs -> [Files -> TaskRecs]] /\ same' \in [Runs -> SUBSET Files]
      BY <1>t, <2>7, ReleaseType DEF NotDue
    <3> QED
      BY <1>t, <2>2, <2>7, <3>1, TypeParts DEF NotDue, QueueType, TypeInv
  <2>8. CASE SaveSettled(d)
    <3>1. row' \in [Files -> TaskRecs]
      BY <1>c, <1>t, <2>8, TaskTypes DEF SaveSettled, QueueType
    <3> QED
      BY <1>t, <2>2, <2>8, <3>1, TypeParts DEF SaveSettled, QueueType, TypeInv, daemonVars
  <2>9. CASE RemoveTask(d)
    <3>1. poll' \in [Runs -> [Files -> TaskRecs]] /\ same' \in [Runs -> SUBSET Files]
      BY <1>t, <2>9, ReleaseType DEF RemoveTask
    <3>2. mem' \in [Runs -> [Files -> TaskRecs]]
      BY <1>t, <2>9, TaskTypes DEF RemoveTask, QueueType
    <3> QED
      BY <1>t, <2>2, <2>9, <3>1, <3>2, TypeParts DEF RemoveTask, QueueType, TypeInv
  <2>10. CASE RetryFailed(d)
    <3>1. poll' \in [Runs -> [Files -> TaskRecs]] /\ same' \in [Runs -> SUBSET Files]
      BY <1>t, <2>10, ReleaseType DEF RetryFailed
    <3> DEFINE att == poll[d][cur[d]].att + 1
               new == Task(IF att >= MaxAttempts THEN "dead" ELSE "failed", att)
    <3>2. new \in TaskRecs
      BY <1>c, TaskTypes
    <3>3. /\ row' = [row EXCEPT ![cur[d]] = new]
          /\ mem' = [mem EXCEPT ![d][cur[d]] = IF cur[d] \in same[d] THEN new ELSE @]
      BY <2>10 DEF RetryFailed
    <3> HIDE DEF new
    <3>4. row' \in [Files -> TaskRecs] /\ mem' \in [Runs -> [Files -> TaskRecs]]
      BY <1>c, <1>t, <3>2, <3>3 DEF QueueType
    <3> QED
      BY <1>t, <2>2, <2>10, <3>1, <3>4, TypeParts DEF RetryFailed, QueueType, TypeInv
  <2> QED
    BY <1>3, <2>3, <2>4, <2>5, <2>6, <2>7, <2>8, <2>9, <2>10
<1> QED
  BY <1>1, <1>2, <1>3 DEF Daemon

LEMMA TypeStartRun == ASSUME TypeInv, StartRun PROVE TypeInv'
<1> USE DEF StartRun, serverVars, daemonVars
<1>t. TypeOK /\ ServerType /\ QueueType /\ WaitType /\ PcType /\ MissBelow
  BY TypeParts DEF TypeInv
<1>r. run + 1 \in Runs
  BY <1>t, BoundsAssumption DEF QueueType, Runs
<1>1. run' \in 0 .. MaxRuns
  BY <1>t, BoundsAssumption DEF QueueType
<1>2. PcType'
  <2>1. \A a \in Files : pc'[a] \in {"listed", "idle"}
    BY <1>t, <1>r, ActorsDiffer DEF Actors
  <2>2. \A a \in Runs : pc'[a] \in {"load", pc[a]}
    BY ActorsDiffer DEF Actors
  <2>3. DOMAIN pc' = Actors /\ pc' = [a \in Actors |-> pc'[a]]
    OBVIOUS
  <2>4. {"listed", "idle"} \subseteq WorkerPcs /\ "load" \in DaemonPcs
    BY DEF WorkerPcs, DaemonPcs, SharedPcs
  <2> QED
    BY <1>t, <2>1, <2>2, <2>3, <2>4 DEF PcType, Actors
<1>3. \A a \in Actors : pc'[a] \in Waiting => pc[a] \in Waiting
  BY <1>t, <1>r, ActorsDiffer DEF PcType, Actors, Waiting, WaitPcs
<1>4. MissBelow'
  BY <1>t, <1>3 DEF MissBelow
<1> QED
  BY <1>t, <1>1, <1>2, <1>4, TypeParts DEF ServerType, QueueType, WaitType, TypeInv

LEMMA TypeCrash == ASSUME TypeInv, Crash PROVE TypeInv'
<1> USE DEF Crash, serverVars
<1>t. TypeOK /\ ServerType /\ QueueType /\ WaitType /\ PcType /\ MissBelow
  BY TypeParts DEF TypeInv
<1>1. PcType'
  BY ActorsDiffer DEF PcType, Actors, WorkerPcs, DaemonPcs, SharedPcs
<1>2. WaitType'
  BY BoundsAssumption, RetryAssumption DEF WaitType, NoWait, WaitRecs
<1>3. MissBelow'
  BY RetryAssumption DEF MissBelow, NoWait
<1>4. QueueType'
  BY <1>t, TaskTypes DEF QueueType
<1> QED
  BY <1>t, <1>1, <1>2, <1>3, <1>4, TypeParts DEF ServerType, TypeInv

LEMMA TypeNext == TypeInv /\ [Next]_vars => TypeInv'
<1> SUFFICES ASSUME TypeInv, [Next]_vars PROVE TypeInv'
  OBVIOUS
<1>1. CASE UNCHANGED vars
  BY <1>1 DEF vars, TypeInv, TypeOK, MissBelow
<1>2. CASE Next
  BY <1>2, TypeStartRun, TypeCrash, TypeServer, TypeWorker, TypeDaemon DEF Next
<1> QED
  BY <1>1, <1>2

(* The type invariant holds in every instance; in it, the miss counter of a *)
(* wait (waitCopyDoneWith) stays within copyMissLimit.                      *)
THEOREM TypeCorrect == Spec => []TypeOK
<1>1. Spec => []TypeInv
  BY TypeInit, TypeNext, PTL DEF Spec
<1>2. TypeInv => TypeOK
  BY DEF TypeInv
<1> QED
  BY <1>1, <1>2, PTL
=============================================================================
