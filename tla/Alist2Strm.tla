----------------------------- MODULE Alist2Strm -----------------------------
(***************************************************************************)
(* The Alist2Strm module: the runs of one configuration, each of which     *)
(* lists the remote tree, writes a local output (.strm file or download)   *)
(* for every file that changed since the snapshot of the last run, and     *)
(* deletes the outputs of the files it did not see.                        *)
(*                                                                         *)
(* The remote tree is a root and one directory below it, Sub.  A file has  *)
(* a version, which stands for size and modification time; its output has  *)
(* the version it was made from.  The registry's lock lets the runs of a   *)
(* configuration not overlap, and every run has a new Alist2Strm object.   *)
(* The remote tree, the user and the process may change or fail between    *)
(* any two steps.                                                          *)
(*                                                                         *)
(* Abstracted: a listing of one directory is one step (the pages of it are *)
(* several requests); the outputs of two files are two files (not so for   *)
(* two stems that agree, nor in flatten mode); a new version of a download *)
(* has a later time or a larger size than the local file; local files that *)
(* are nobody's output; smart protection, which keeps counts but has no    *)
(* say in what is deleted; rate limits, waiting times, empty directories.  *)
(***************************************************************************)
EXTENDS Naturals

CONSTANTS
  Files,       \* the remote files the configuration processes
  Sub,         \* those of the subdirectory
  Disc,        \* the members of one BDMV disc
  Rank,        \* their sizes
  Detail,      \* files whose details are asked for (needFSGet)
  Direct,      \* those a full scan asks for too: not when the listing has a sign
  Loads,       \* files that are downloaded
  Ignored,     \* files whose local name matches sync_ignore
  ScanMode,    \* scan_mode: "full" or "incremental"
  Overwrite,   \* overwrite
  SyncServer,  \* sync_server
  MaxEvents,   \* bound on the changes and faults of a behaviour
  Env          \* the kinds of changes and faults this instance allows

(* The environment:                                                        *)
(*   change   a remote file appears, changes or disappears                 *)
(*   restore  a removed file comes back as it was                          *)
(*   user     the user deletes a local output                              *)
(*   list     a listing fails                                              *)
(*   empty    the root is listed with success and without a file           *)
(*   load     LoadSnapshot fails                                           *)
(*   get      FSGet of an existing file fails                              *)
(*   write    writing or downloading an output fails                       *)
(*   save     SaveSnapshot fails (it is a transaction: nothing is saved)   *)
(*   remove   deleting a local file fails                                  *)
(*   crash    the process stops and is started again                       *)
EnvKinds == {"change", "restore", "user", "list", "empty", "load",
             "get", "write", "save", "remove", "crash"}

ASSUME FilesAssumption == /\ Sub \subseteq Files /\ Disc \subseteq Files
                          /\ Detail \subseteq Files /\ Loads \subseteq Detail
                          /\ Direct \subseteq Detail
                          /\ Ignored \subseteq Files
ASSUME DiscAssumption  == Disc \cap Detail = {} /\ Rank \in [Disc -> Nat]
ASSUME ModeAssumption  == /\ ScanMode \in {"full", "incremental"}
                          /\ Overwrite \in BOOLEAN /\ SyncServer \in BOOLEAN
ASSUME EventAssumption == MaxEvents \in Nat /\ Env \subseteq EnvKinds

VARIABLES
  present,     \* the remote files there are
  version,     \* the version of each of them, or the last one it had
  local,       \* the version each local output was made from; 0: there is none
  snap,        \* the saved snapshot: the version of each file in it, or 0
  budget,      \* the changes and faults still to come
  pc,          \* the stage of the run
  full,        \* the run is a full scan
  incomplete,  \* a subtree could not be listed
  newSnap,     \* what the run has listed, and the new snapshot
  todo,        \* the changed files still to be dispatched
  jobs,        \* the version of each output the workers have to write, or 0
  collected,   \* the members of the disc collected by the BDMV manager
  processed,   \* processedPaths
  doomed,      \* filesToDelete
  gone         \* history: the files that were absent at some point of the run

remoteVars == <<present, version>>
diskVars   == <<local, snap>>
runVars    == <<full, incomplete, newSnap, todo, jobs, collected, processed, doomed>>
vars       == <<remoteVars, diskVars, budget, pc, runVars, gone>>

-----------------------------------------------------------------------------
Nothing == [f \in Files |-> 0]
Known(s) == {f \in Files : s[f] # 0}

Stages == {"idle", "root", "sub", "diff", "work", "mark", "clean"}

TypeOK ==
  /\ present \subseteq Files
  /\ version \in [Files -> Nat \ {0}]
  /\ local \in [Files -> Nat] /\ snap \in [Files -> Nat] /\ newSnap \in [Files -> Nat]
  /\ budget \in 0 .. MaxEvents
  /\ pc \in Stages
  /\ full \in BOOLEAN /\ incomplete \in BOOLEAN
  /\ todo \subseteq Files /\ jobs \in [Files -> Nat] /\ collected \subseteq Disc
  /\ processed \subseteq Files /\ doomed \subseteq Files /\ gone \subseteq Files
  /\ pc # "work" => todo = {} /\ jobs = Nothing
  /\ pc # "clean" => doomed = {}

Init ==
  /\ present \in SUBSET Files
  /\ version = [f \in Files |-> 1]
  /\ local = Nothing /\ snap = Nothing /\ newSnap = Nothing
  /\ budget = MaxEvents
  /\ pc = "idle" /\ full = FALSE /\ incomplete = FALSE
  /\ todo = {} /\ jobs = Nothing /\ collected = {}
  /\ processed = {} /\ doomed = {} /\ gone = {}

Fault(kind) == kind \in Env /\ budget > 0 /\ budget' = budget - 1
NoFault     == UNCHANGED budget

(* The object of the run is dropped.                                        *)
EndRun ==
  /\ pc' = "idle" /\ full' = FALSE /\ incomplete' = FALSE
  /\ newSnap' = Nothing /\ todo' = {} /\ jobs' = Nothing /\ collected' = {}
  /\ processed' = {} /\ doomed' = {} /\ gone' = {}

-----------------------------------------------------------------------------
(***************************************************************************)
(* Listing: runIncremental and, when the snapshot cannot be loaded or the  *)
(* configuration says so, runFull.                                         *)
(***************************************************************************)
StartRun ==
  /\ pc = "idle" /\ pc' = "root"
  /\ gone' = Files \ present
  /\ \/ NoFault /\ full' = (ScanMode = "full")
     \/ Fault("load") /\ full' = TRUE
  /\ UNCHANGED <<remoteVars, diskVars, incomplete, newSnap, todo, jobs, collected,
                 processed, doomed>>

Listing(dir) == [f \in Files |-> IF f \notin dir THEN newSnap[f]
                                 ELSE IF f \in present THEN version[f] ELSE 0]

(* A root listed as empty has no subdirectory to visit.                     *)
ListRoot ==
  /\ pc = "root"
  /\ \/ NoFault /\ newSnap' = Listing(Files \ Sub) /\ pc' = "sub"
     \/ Fault("empty") /\ UNCHANGED newSnap /\ pc' = "diff"
  /\ UNCHANGED <<remoteVars, diskVars, full, incomplete, todo, jobs, collected,
                 processed, doomed, gone>>

(* Without the root there is nothing to do, nothing to save or clean up.    *)
RootFails ==
  /\ pc = "root" /\ Fault("list")
  /\ EndRun
  /\ UNCHANGED <<remoteVars, diskVars>>

(* Mutant: the old entries of a failed directory are not taken over.        *)
EntriesLost == newSnap

OldEntries == [f \in Files |-> IF f \in Sub /\ ~full THEN snap[f] ELSE newSnap[f]]

(* A subdirectory that fails is skipped, and the snapshot keeps what it had *)
(* of it.                                                                   *)
ListSub ==
  /\ pc = "sub" /\ pc' = "diff"
  /\ \/ NoFault /\ newSnap' = Listing(Sub) /\ UNCHANGED incomplete
     \/ Fault("list") /\ incomplete' = TRUE /\ newSnap' = OldEntries
  /\ UNCHANGED <<remoteVars, diskVars, full, todo, jobs, collected, processed, doomed, gone>>

-----------------------------------------------------------------------------
(***************************************************************************)
(* Diff: what is to be processed.                                          *)
(***************************************************************************)
Suspicious == ~full /\ Known(newSnap) = {} /\ Known(snap) # {}

(* An empty tree where there was one: the run is abandoned.                 *)
Abandon ==
  /\ pc = "diff" /\ Suspicious
  /\ EndRun
  /\ UNCHANGED <<remoteVars, diskVars, budget>>

Seen == IF incomplete THEN Files \ Sub ELSE Files

(* Mutant: the local tree is not looked at.                                 *)
ChangedNoStat == {f \in Seen : newSnap[f] # 0 /\ newSnap[f] # snap[f]}

(* DiffSnapshots, and the unchanged files whose output is missing.          *)
Changed == {f \in Seen : newSnap[f] # 0 /\ (newSnap[f] # snap[f] \/ local[f] = 0)}

Diff ==
  /\ pc = "diff" /\ ~Suspicious
  /\ todo' = IF full THEN Known(newSnap) ELSE Changed
  /\ pc' = "work"
  /\ UNCHANGED <<remoteVars, diskVars, budget, full, incomplete, newSnap, jobs, collected,
                 processed, doomed, gone>>

-----------------------------------------------------------------------------
(***************************************************************************)
(* Processing, while the workers write.                                    *)
(***************************************************************************)

(* shouldProcessFile, by the data of the listing or of FSGet.               *)
Wanted(f, v) == Overwrite \/ local[f] = 0 \/ (f \in Loads /\ local[f] < v)

Take(f) == pc = "work" /\ f \in todo /\ todo' = todo \ {f}

Collect(f) ==
  /\ Take(f) /\ f \in Disc
  /\ collected' = collected \cup {f}
  /\ UNCHANGED <<remoteVars, diskVars, budget, pc, full, incomplete, newSnap, jobs,
                 processed, doomed, gone>>

(* FSGet tells what the file is by now; a full scan has decided before it   *)
(* asks, and does not ask when the listing has a signature.                 *)
Dispatch(f) ==
  LET v == IF f \in Detail THEN version[f] ELSE newSnap[f] IN
  /\ Take(f) /\ f \notin Disc
  /\ f \in Detail => f \in present /\ (full => f \in Direct)
  /\ processed' = processed \cup {f}
  /\ jobs' = IF Wanted(f, IF full THEN newSnap[f] ELSE v)
             THEN [jobs EXCEPT ![f] = v] ELSE jobs
  /\ UNCHANGED <<remoteVars, diskVars, budget, pc, full, incomplete, newSnap, collected,
                 doomed, gone>>

NoDetail(f) == (f \notin present /\ NoFault) \/ Fault("get")

(* Mutant: a file without details stays in the snapshot.                    *)
DropDetailKept(f) ==
  /\ Take(f) /\ f \in Detail /\ ~full /\ NoDetail(f)
  /\ UNCHANGED <<remoteVars, diskVars, pc, full, incomplete, newSnap, jobs, collected,
                 processed, doomed, gone>>

(* Without details an incremental scan strikes the file from the snapshot,  *)
(* for the next run to see it as new.                                       *)
DropDetail(f) ==
  /\ Take(f) /\ f \in Detail /\ ~full /\ NoDetail(f)
  /\ newSnap' = [newSnap EXCEPT ![f] = 0]
  /\ UNCHANGED <<remoteVars, diskVars, pc, full, incomplete, jobs, collected, processed,
                 doomed, gone>>

(* A full scan goes on with the listing's data, which do for a .strm file   *)
(* unless it is to hold the raw url, and never for a download.              *)
FullNoDetail(f) ==
  /\ Take(f) /\ f \in Detail /\ full
  /\ NoDetail(f) \/ (f \notin Direct /\ NoFault)
  /\ processed' = processed \cup {f}
  /\ \/ f \in Direct \cup Loads /\ UNCHANGED jobs
     \/ f \notin Loads /\ jobs' = IF Wanted(f, newSnap[f])
                                 THEN [jobs EXCEPT ![f] = newSnap[f]] ELSE jobs
  /\ UNCHANGED <<remoteVars, diskVars, pc, full, incomplete, newSnap, collected, doomed, gone>>

(* processFile: both kinds of output are written aside and renamed.         *)
Write(f) ==
  /\ jobs[f] # 0 /\ jobs' = [jobs EXCEPT ![f] = 0]
  /\ \/ f \notin Loads /\ NoFault /\ local' = [local EXCEPT ![f] = jobs[f]]
     \/ f \in Loads \cap present /\ NoFault /\ local' = [local EXCEPT ![f] = version[f]]
     \/ f \in Loads \ present /\ NoFault /\ UNCHANGED local
     \/ Fault("write") /\ UNCHANGED local
  /\ UNCHANGED <<remoteVars, snap, pc, full, incomplete, newSnap, todo, collected,
                 processed, doomed, gone>>

(* Mutant of Worked: the workers are not waited for.                        *)
WorkedEarly == pc = "work" /\ todo = {}

Worked == pc = "work" /\ todo = {} /\ jobs = Nothing

NoDisc ==
  /\ Worked /\ collected = {}
  /\ pc' = "mark"
  /\ UNCHANGED <<remoteVars, diskVars, budget, runVars, gone>>

(* The largest member collected stands for the disc; it may need FSGet too. *)
ProcessLargest(f) ==
  /\ Worked /\ f \in collected /\ \A g \in collected : Rank[g] <= Rank[f]
  /\ processed' = processed \cup {f}
  /\ \/ NoFault /\ local' = [local EXCEPT ![f] = newSnap[f]]
     \/ NoDetail(f) /\ UNCHANGED local
     \/ Fault("write") /\ UNCHANGED local
  /\ pc' = "mark"
  /\ UNCHANGED <<remoteVars, snap, full, incomplete, newSnap, todo, jobs, collected,
                 doomed, gone>>

-----------------------------------------------------------------------------
(***************************************************************************)
(* The end of the run.                                                     *)
(***************************************************************************)

(* markSnapshotProcessed.                                                   *)
Marked == IF full THEN processed ELSE processed \cup Known(newSnap)

(* An error of SaveSnapshot is only logged; a full scan saves nothing.      *)
SaveSnapshot ==
  \/ full  /\ NoFault /\ UNCHANGED snap
  \/ ~full /\ NoFault /\ snap' = newSnap
  \/ ~full /\ Fault("save") /\ UNCHANGED snap

(* Mutant: an incomplete scan cleans up as well.                            *)
CleansAnyway == SyncServer /\ Marked # {}

(* Nothing is deleted after an incomplete scan or one that saw no file.     *)
Cleans == SyncServer /\ ~incomplete /\ Marked # {}

SaveAndEnd ==
  /\ pc = "mark" /\ ~Cleans
  /\ SaveSnapshot
  /\ EndRun
  /\ UNCHANGED <<remoteVars, local>>

SaveAndClean ==
  /\ pc = "mark" /\ Cleans
  /\ SaveSnapshot
  /\ doomed' = Known(local) \ (Marked \cup Ignored)
  /\ processed' = Marked
  /\ pc' = "clean"
  /\ UNCHANGED <<remoteVars, local, full, incomplete, newSnap, todo, jobs, collected, gone>>

Remove(f) ==
  /\ f \in doomed /\ doomed' = doomed \ {f}
  /\ \/ NoFault /\ local' = [local EXCEPT ![f] = 0]
     \/ Fault("remove") /\ UNCHANGED local
  /\ UNCHANGED <<remoteVars, snap, pc, full, incomplete, newSnap, todo, jobs, collected,
                 processed, gone>>

EndClean ==
  /\ pc = "clean" /\ doomed = {}
  /\ EndRun
  /\ UNCHANGED <<remoteVars, diskVars, budget>>

-----------------------------------------------------------------------------
(***************************************************************************)
(* The environment.                                                        *)
(***************************************************************************)
Disappear(f) ==
  /\ Fault("change") /\ f \in present
  /\ present' = present \ {f}
  /\ gone' = IF pc = "idle" THEN gone ELSE gone \cup {f}
  /\ UNCHANGED <<version, diskVars, pc, runVars>>

Upload(f) ==
  /\ Fault("change")
  /\ present' = present \cup {f} /\ version' = [version EXCEPT ![f] = @ + 1]
  /\ UNCHANGED <<diskVars, pc, runVars, gone>>

Restore(f) ==
  /\ Fault("restore") /\ f \notin present
  /\ present' = present \cup {f}
  /\ UNCHANGED <<version, diskVars, pc, runVars, gone>>

DeleteLocal(f) ==
  /\ Fault("user") /\ local[f] # 0
  /\ local' = [local EXCEPT ![f] = 0]
  /\ UNCHANGED <<remoteVars, snap, pc, runVars, gone>>

Crash ==
  /\ Fault("crash") /\ pc # "idle"
  /\ EndRun
  /\ UNCHANGED <<remoteVars, diskVars>>

-----------------------------------------------------------------------------
Processing(f) ==
  Collect(f) \/ Dispatch(f) \/ DropDetail(f) \/ FullNoDetail(f) \/ Write(f) \/ ProcessLargest(f)

Run ==
  \/ StartRun \/ ListRoot \/ RootFails \/ ListSub \/ Abandon \/ Diff
  \/ \E f \in Files : Processing(f)
  \/ NoDisc \/ SaveAndEnd \/ SaveAndClean
  \/ \E f \in Files : Remove(f)
  \/ EndClean

Environment ==
  \/ \E f \in Files : Disappear(f) \/ Upload(f) \/ Restore(f) \/ DeleteLocal(f)
  \/ Crash

Next == Run \/ Environment

Spec == Init /\ [][Next]_vars

(* The schedule starts run after run, and a run goes on: every request and  *)
(* every download has a timeout.                                            *)
FairSpec == Spec /\ WF_vars(Run)

-----------------------------------------------------------------------------
(***************************************************************************)
(* Properties.                                                             *)
(***************************************************************************)

(* The one output of a disc may be taken back from a smaller member.        *)
Lesser(f) == f \in Disc /\ \E g \in Disc \ {f} : Rank[g] >= Rank[f]

(* What was not seen is not gone: the cleanup deletes an output only if its *)
(* remote file was absent at some point of the run (the comment on the      *)
(* cleanup of runIncremental: not seen is not deleted).                     *)
DeletesOnlyGone ==
  [][pc = "clean" =>
       \A f \in Files : local[f] # 0 /\ local'[f] = 0 /\ doomed' # doomed =>
         f \in gone \/ Lesser(f)]_vars

(* Nor does the snapshot lose the entry of a file that was there throughout *)
(* (the entries of failed subtrees are kept, an empty tree is refused).     *)
EntriesKept ==
  [][\A f \in Files : snap[f] # 0 /\ snap'[f] = 0 => f \in gone]_vars

(* Between runs the snapshot does not call a stale output unchanged: what   *)
(* the next run would skip is up to date (a path that failed is struck from *)
(* the snapshot).                                                           *)
Renewed(f) == f \in Loads \/ (Overwrite /\ f \notin Disc)
SnapshotHonest ==
  pc = "idle" => \A f \in present :
    Renewed(f) /\ snap[f] = version[f] /\ local[f] # 0 => local[f] >= version[f]

(* When changes and faults are over, the local tree comes to follow the     *)
(* remote one: every file has its output, downloads are current, a disc has *)
(* that of its largest member, and with sync_server nothing else is left    *)
(* (unless the remote tree is empty, which is taken for a failure).         *)
Largest(f) == f \in Disc /\ \A g \in Disc \cap present : Rank[g] <= Rank[f]
Mirrored ==
  \A f \in Files :
    /\ f \in present /\ (f \in Disc => Largest(f)) => local[f] # 0
    /\ f \in present /\ Renewed(f) => local[f] >= version[f]
    /\ f \notin present /\ present # {} /\ SyncServer /\ f \notin Ignored => local[f] = 0
Converges == <>[]Mirrored
=============================================================================
