------------------------------ MODULE FileMove ------------------------------
(***************************************************************************)
(* The FileMove module, OpenList backend: run after run lists the source   *)
(* tree, renames the files whose names the rename pattern changes, moves   *)
(* those that match to the target tree, and removes the directories whose  *)
(* matched files were all moved.                                           *)
(*                                                                         *)
(* A file is its data, wherever it is.  A name in the source tree or in    *)
(* the target tree is held by one file at most; in flatten mode, and after *)
(* a rename, several files claim the same name.  The registry's lock keeps *)
(* the runs apart.  A request that changes a tree may fail, or be executed *)
(* and answered with an error, at once or (a move the client does not wait *)
(* for) later; the server refuses to move or rename to a name in use.  The  *)
(* listing comes from the server's cache (FSListLight does not refresh it)  *)
(* and may be out of date; files also come and go while a run is under way. *)
(*                                                                         *)
(* Abstracted: the source tree is listed in one step; the counts of the    *)
(* report; files that change in place; a pattern that changes a name once  *)
(* more.  outdated is a history variable, for the properties.              *)
(***************************************************************************)
EXTENDS Naturals

CONSTANTS
  Files, None,
  Dirs, Root,   \* the source directories
  Below,        \* for each directory: itself and those below it
  Dir,          \* where each file lies
  Path,         \* its name in the source tree once it is renamed
  Slot,         \* its name in the target tree
  Renames,      \* files whose name the pattern changes
  Wanted,       \* files that match by path and size
  Size,
  RemoveDirs,   \* remove_matched_dirs
  MaxEvents,    \* bound on the changes and faults of a behaviour
  Env           \* the kinds of them this instance allows

(* list, probe, remove, rename, mkdir, move: such a request fails; done: a  *)
(* change is made but answered with an error; late: a move is answered with *)
(* an error and made later; stale: the listing is out of date; upload: a    *)
(* file appears; outside: somebody else takes or moves one; config: the     *)
(* setting overwrite is changed; crash.                                     *)
EnvKinds == {"list", "probe", "remove", "rename", "mkdir", "move", "done",
             "late", "stale", "upload", "outside", "config", "crash"}

ASSUME FileAssumption == /\ None \notin Files
                         /\ Renames \subseteq Files /\ Wanted \subseteq Files
                         /\ \A f, g \in Files : Path[f] = Path[g] => Slot[f] = Slot[g]
ASSUME DirAssumption  == /\ Root \in Dirs /\ Dir \in [Files -> Dirs]
                         /\ Below \in [Dirs -> SUBSET Dirs]
                         /\ \A d \in Dirs : d \in Below[d]
ASSUME ModeAssumption == RemoveDirs \in BOOLEAN
ASSUME EventAssumption == MaxEvents \in Nat /\ Env \subseteq EnvKinds

VARIABLES
  at,       \* each file in the source tree: under its "old" or "new" name, or "away"
  slot,     \* what each name of the target tree holds
  late,     \* files the server is still moving
  overwrite, \* the configuration's setting
  budget,   \* the changes and faults still to come
  pc,       \* the stage of the run
  listing,  \* the files still to be handled, under the names they were listed
  cur,      \* the file being handled
  matched,  \* matchedDirs: the files counted
  moved,    \* movedDirs
  doomed,   \* the directories still to be removed
  outdated  \* history: files of which the run's entry is wrong

treeVars == <<at, slot, late>>
runVars  == <<listing, cur, matched, moved, doomed>>
vars     == <<treeVars, overwrite, budget, pc, runVars, outdated>>

-----------------------------------------------------------------------------
Slots   == {Slot[f] : f \in Files}
Names   == {"old", "new", "away"}
Nothing == [f \in Files |-> "away"]

(* The files that have, or a name that stands for, the data of a run.       *)
Holders(f) == {g \in Files : at[g] = "new" /\ Path[g] = Path[f]}
Somewhere(f) == at[f] # "away" \/ slot[Slot[f]] = f

(* A tree: only files to be renamed have an old name, and a name has one    *)
(* file.                                                                    *)
Trees == {t \in [Files -> Names] :
            /\ \A f \in Files \ Renames : t[f] # "old"
            /\ \A f, g \in Files : t[f] = "new" /\ t[g] = "new" /\ Path[f] = Path[g] => f = g}

Naming == {"probeName", "removeName", "rename"}
Moving == {"probe", "remove", "mkdir", "move"}
After  == {"gone", "goneNotFound", "verify"}

TypeOK ==
  /\ at \in [Files -> Names]
  /\ slot \in [Slots -> Files \cup {None}]
  /\ late \subseteq Files /\ overwrite \in BOOLEAN
  /\ budget \in 0 .. MaxEvents
  /\ pc \in {"idle", "list", "scan", "dirs"} \cup Naming \cup Moving \cup After
  /\ listing \in [Files -> Names]
  /\ cur \in IF pc \in Naming \cup Moving \cup After THEN Files ELSE {None}
  /\ moved \subseteq matched /\ matched \subseteq Wanted
  /\ doomed \subseteq Dirs \ {Root} /\ (pc # "dirs" => doomed = {})
  /\ outdated \subseteq Files /\ (pc \in {"idle", "list"} => outdated = {})

Init ==
  /\ at \in Trees
  /\ slot \in [Slots -> Files \cup {None}]
  /\ \A s \in Slots : slot[s] # None => Slot[slot[s]] = s /\ at[slot[s]] = "away"
  /\ late = {} /\ overwrite \in BOOLEAN /\ budget = MaxEvents
  /\ pc = "idle" /\ listing = Nothing /\ cur = None
  /\ matched = {} /\ moved = {} /\ doomed = {} /\ outdated = {}

Spend(kind) == kind \in Env /\ budget > 0 /\ budget' = budget - 1
Fault(kind) == Spend(kind) /\ UNCHANGED overwrite
NoFault     == UNCHANGED <<budget, overwrite>>

EndRun ==
  /\ pc' = "idle" /\ listing' = Nothing /\ cur' = None
  /\ matched' = {} /\ moved' = {} /\ doomed' = {} /\ outdated' = {}

(* What a run knows of the files of S is wrong from now on.                 *)
Outdate(S) == outdated' = IF pc \in {"idle", "list"} THEN {} ELSE outdated \cup S

(* The file at hand is left, counted as moved or not.                       *)
Leave == pc' = "scan" /\ cur' = None /\ UNCHANGED <<listing, matched, doomed>>
Skip  == Leave /\ UNCHANGED moved
Goto(p) == pc' = p /\ UNCHANGED runVars

-----------------------------------------------------------------------------
(***************************************************************************)
(* The scan.                                                               *)
(***************************************************************************)
StartRun ==
  /\ pc = "idle" /\ NoFault /\ Goto("list")
  /\ UNCHANGED <<treeVars, outdated>>

(* A directory that cannot be listed is skipped with all below it; without  *)
(* the root there is no run.                                                *)
Listed(skipped) == [f \in Files |-> IF Dir[f] \in skipped THEN "away" ELSE at[f]]

Scan(entries) ==
  /\ pc' = "scan" /\ listing' = entries /\ UNCHANGED <<cur, matched, moved, doomed>>
  /\ outdated' = {f \in Files : entries[f] \notin {"away", at[f]}}

List ==
  /\ pc = "list" /\ UNCHANGED treeVars
  /\ \/ NoFault /\ Scan(Listed({}))
     \/ \E d \in Dirs \ {Root} : Fault("list") /\ Scan(Listed(Below[d]))
     \/ \E entries \in Trees : Fault("stale") /\ Scan(entries)
     \/ Fault("list") /\ EndRun

(* Mutant of Counted: a file is counted only once it is moved.              *)
CountedLate(f) == {}

Counted(f) == {f} \cap Wanted

(* What is to be done with f once it has its name.                          *)
Match(f) ==
  /\ matched' = matched \cup Counted(f)
  /\ IF f \in Wanted THEN pc' = "probe" /\ cur' = f ELSE pc' = "scan" /\ cur' = None

Take(f) ==
  /\ pc = "scan" /\ listing[f] # "away"
  /\ listing' = [listing EXCEPT ![f] = "away"]
  /\ IF listing[f] = "old" THEN pc' = "probeName" /\ cur' = f /\ UNCHANGED matched
                           ELSE Match(f)
  /\ NoFault /\ UNCHANGED <<treeVars, moved, doomed, outdated>>

-----------------------------------------------------------------------------
(***************************************************************************)
(* Renaming.  A probe tells that there is a file, that there is none, or   *)
(* nothing, which is no reason to go on.                                   *)
(***************************************************************************)

(* Mutant of Present: what is in the way is left there.                     *)
PresentBlocks(there, next) == IF there THEN Skip ELSE Goto(next[2])

Present(there, next) ==
  IF ~there THEN Goto(next[2]) ELSE IF overwrite THEN Goto(next[1]) ELSE Skip

ProbeName ==
  /\ pc = "probeName" /\ UNCHANGED <<treeVars, outdated>>
  /\ \/ NoFault /\ Present(Holders(cur) # {}, <<"removeName", "rename">>)
     \/ Fault("probe") /\ Skip

Removed == [g \in Files |-> IF g \in Holders(cur) THEN "away" ELSE at[g]]

RemoveName ==
  /\ pc = "removeName" /\ UNCHANGED <<slot, late>>
  /\ \/ NoFault /\ at' = Removed /\ Outdate(Holders(cur)) /\ Goto("rename")
     \/ Fault("done") /\ at' = Removed /\ Outdate(Holders(cur)) /\ Skip
     \/ Fault("remove") /\ UNCHANGED <<at, outdated>> /\ Skip

CanRename == at[cur] = "old" /\ Holders(cur) = {}

Rename ==
  /\ pc = "rename" /\ UNCHANGED <<slot, late, outdated>>
  /\ \/ /\ CanRename /\ NoFault /\ at' = [at EXCEPT ![cur] = "new"]
        /\ Match(cur) /\ UNCHANGED <<listing, moved, doomed>>
     \/ CanRename /\ Fault("done") /\ at' = [at EXCEPT ![cur] = "new"] /\ Skip
     \/ (Fault("rename") \/ (~CanRename /\ NoFault)) /\ UNCHANGED at /\ Skip

-----------------------------------------------------------------------------
(***************************************************************************)
(* Moving.                                                                 *)
(***************************************************************************)
Probe ==
  /\ pc = "probe" /\ UNCHANGED <<treeVars, outdated>>
  /\ \/ NoFault /\ Present(slot[Slot[cur]] # None, <<"remove", "mkdir">>)
     \/ Fault("probe") /\ Skip

Emptied == [slot EXCEPT ![Slot[cur]] = None]

(* The old destination is removed first, lest the server rename the new one.*)
Remove ==
  /\ pc = "remove" /\ UNCHANGED <<at, late, outdated>>
  /\ \/ NoFault /\ slot' = Emptied /\ Goto("mkdir")
     \/ Fault("done") /\ slot' = Emptied /\ Skip
     \/ Fault("remove") /\ UNCHANGED slot /\ Skip

Mkdir ==
  /\ pc = "mkdir" /\ UNCHANGED <<treeVars, outdated>>
  /\ (NoFault /\ Goto("move")) \/ (Fault("mkdir") /\ Skip)

(* The server moves what has the name now.                                  *)
CanMove(g) == g \in Holders(cur) /\ slot[Slot[cur]] = None
Carry(g)   == at' = [at EXCEPT ![g] = "away"] /\ slot' = [slot EXCEPT ![Slot[g]] = g]

Move ==
  /\ pc = "move" /\ UNCHANGED outdated
  /\ \/ \E g \in Files : /\ CanMove(g) /\ NoFault /\ Carry(g) /\ UNCHANGED late
                         /\ moved' = moved \cup {cur} /\ Leave
     \/ \E g \in Files : CanMove(g) /\ Fault("done") /\ Carry(g) /\ UNCHANGED late /\ Goto("gone")
     \/ \E g \in Files : /\ CanMove(g) /\ Fault("late") /\ late' = late \cup {g}
                         /\ UNCHANGED <<at, slot>> /\ Goto("gone")
     \/ Holders(cur) = {} /\ NoFault /\ UNCHANGED treeVars /\ Goto("goneNotFound")
     \/ /\ Fault("move") \/ (slot[Slot[cur]] # None /\ Holders(cur) # {} /\ NoFault)
        /\ UNCHANGED treeVars /\ Goto("gone")

(* Mutant: a move that failed is tried again without a look at the source.  *)
CheckGoneRetries ==
  /\ pc \in {"gone", "goneNotFound"} /\ UNCHANGED <<treeVars, outdated>>
  /\ NoFault /\ pc' = "scan" /\ cur' = None
  /\ listing' = [listing EXCEPT ![cur] = "new"]
  /\ UNCHANGED <<matched, moved, doomed>>

(* After an error: a source that is gone is skipped; otherwise an error     *)
(* that leaves it open whether the file was moved is settled by a look at   *)
(* the destination.                                                         *)
CheckGone ==
  /\ pc \in {"gone", "goneNotFound"} /\ UNCHANGED <<treeVars, outdated>>
  /\ \/ Holders(cur) = {} /\ NoFault /\ Skip
     \/ /\ Fault("probe") \/ (Holders(cur) # {} /\ NoFault)
        /\ IF pc = "gone" THEN Goto("verify") ELSE Skip

(* Mutant of Verified: any file at the destination will do.                 *)
VerifiedAny == slot[Slot[cur]] # None

(* verifyMoveSucceeded: an unknown size, 0, is met by any file.             *)
Verified == slot[Slot[cur]] # None /\ Size[cur] \in {0, Size[slot[Slot[cur]]]}

Verify ==
  /\ pc = "verify" /\ UNCHANGED <<treeVars, outdated>>
  /\ \/ Verified /\ NoFault /\ moved' = moved \cup {cur} /\ Leave
     \/ (Fault("probe") \/ (~Verified /\ NoFault)) /\ Skip

-----------------------------------------------------------------------------
(***************************************************************************)
(* The removal of directories.                                             *)
(***************************************************************************)
In(d) == {f \in Files : Dir[f] = d}
(* Mutant of Complete: one file that was moved is enough.                   *)
CompleteOne(d) == d # Root /\ matched \cap In(d) \cap moved # {}

Complete(d) == d # Root /\ matched \cap In(d) # {} /\ matched \cap In(d) \subseteq moved

EndScan ==
  /\ pc = "scan" /\ listing = Nothing /\ pc' = "dirs"
  /\ doomed' = {d \in Dirs : RemoveDirs /\ Complete(d)}
  /\ NoFault /\ UNCHANGED <<treeVars, listing, cur, matched, moved, outdated>>

Cleared(d) == [f \in Files |-> IF Dir[f] \in Below[d] THEN "away" ELSE at[f]]

(* The deepest first, each with all that is in it; an error ends it.        *)
RemoveDir(d) ==
  /\ d \in doomed /\ Below[d] \cap doomed = {d}
  /\ \/ /\ NoFault /\ at' = Cleared(d) /\ doomed' = doomed \ {d}
        /\ UNCHANGED <<pc, listing, cur, matched, moved, outdated>>
     \/ Fault("done") /\ at' = Cleared(d) /\ EndRun
     \/ Fault("remove") /\ UNCHANGED at /\ EndRun
  /\ UNCHANGED <<slot, late>>

EndDirs == pc = "dirs" /\ doomed = {} /\ EndRun /\ NoFault /\ UNCHANGED treeVars

-----------------------------------------------------------------------------
(***************************************************************************)
(* The environment.                                                        *)
(***************************************************************************)
LateMove(f) ==
  /\ f \in late /\ late' = late \ {f} /\ Outdate({f})
  /\ IF at[f] = "new" /\ slot[Slot[f]] = None THEN Carry(f) ELSE UNCHANGED <<at, slot>>
  /\ NoFault /\ UNCHANGED <<pc, runVars>>

Upload(f) ==
  /\ Fault("upload") /\ ~Somewhere(f) /\ Outdate({f})
  /\ f \in Renames \/ Holders(f) = {}
  /\ at' = [at EXCEPT ![f] = IF f \in Renames THEN "old" ELSE "new"]
  /\ UNCHANGED <<slot, late, pc, runVars>>

(* A file is taken away, perhaps to where the run would have moved it.      *)
Outside(f) ==
  /\ Fault("outside") /\ at[f] # "away" /\ Outdate({f})
  /\ at' = [at EXCEPT ![f] = "away"]
  /\ UNCHANGED slot \/ (slot[Slot[f]] = None /\ slot' = [slot EXCEPT ![Slot[f]] = f])
  /\ UNCHANGED <<late, pc, runVars>>

Configure ==
  /\ Spend("config") /\ pc = "idle"
  /\ overwrite' \in BOOLEAN
  /\ UNCHANGED <<treeVars, pc, runVars, outdated>>

Crash == Fault("crash") /\ pc # "idle" /\ EndRun /\ UNCHANGED treeVars

-----------------------------------------------------------------------------
Run ==
  \/ StartRun \/ List
  \/ \E f \in Files : Take(f)
  \/ ProbeName \/ RemoveName \/ Rename
  \/ Probe \/ Remove \/ Mkdir \/ Move \/ CheckGone \/ Verify
  \/ EndScan
  \/ \E d \in Dirs : RemoveDir(d)
  \/ EndDirs

Environment == (\E f \in Files : LateMove(f) \/ Upload(f) \/ Outside(f)) \/ Configure \/ Crash

Next == Run \/ Environment

Spec == Init /\ [][Next]_vars

(* The schedule starts run after run, requests have timeouts, and the       *)
(* server finishes what it carries out.                                     *)
FairSpec == Spec /\ WF_vars(Run) /\ \A f \in Files : WF_vars(LateMove(f))

-----------------------------------------------------------------------------
(***************************************************************************)
(* Properties.                                                             *)
(***************************************************************************)

(* The file that is removed and the one at hand, which is to replace it.    *)
Destroyed == {f \in Files : Somewhere(f) /\ ~Somewhere(f)'}
Replaced  == \A f \in Destroyed : f # cur /\ at[cur] # "away"

(* What an overwrite destroys is replaced: it is another file than the one  *)
(* at hand, and the one at hand is there to take its place (the comment on  *)
(* the removal of the old destination in moveOpenList, and the one on a     *)
(* source that is gone).                                                    *)
Replaces == [][RemoveName \/ Remove => Replaced]_vars

(* An overwrite destroys without replacing only what the run's entry is     *)
(* wrong about: the listing was out of date, somebody else or a move that   *)
(* came late changed the tree, or the run renamed another file over it.     *)
(* No retry, lost answer, crash or change of setting makes it do so.        *)
ReplacesWhatIsListed == [][(RemoveName \/ Remove) /\ cur \notin outdated => Replaced]_vars

(* A file counts as moved only when it is at its destination: what the      *)
(* verification after an ambiguous error sees is that file.  If the entry   *)
(* is wrong, it may be another one that had the file's name.                *)
Stands(f, g)  == g = f \/ (f \in outdated /\ Path[g] = Path[f])
MovedIsThere  == [][\A f \in moved' \ moved : \E g \in Files : Stands(f, g) /\ slot'[Slot[f]] = g]_vars

(* A removed directory had no matched file of its own left (matched against *)
(* moved in removeMatchedOpenListDirs), but for what came there later.      *)
RemovesOnlyMoved ==
  [][pc = "dirs" =>
       \A f \in matched \ outdated : at[f] # "away" /\ at'[f] = "away" => Dir[f] \notin doomed]_vars

(* What README.md says: a directory is kept for every matched file left in  *)
(* it, at any depth.  The code counts each directory apart.                 *)
KeepsUnmoved ==
  [][\A d \in Dirs : RemoveDir(d) => \A f \in matched : Dir[f] \in Below[d] => at[f] = "away"]_vars

(* When changes and faults are over, every matching file comes to leave the *)
(* source tree, unless its name is taken and may not be overwritten.        *)
Blocked(f) == ~overwrite /\ (slot[Slot[f]] # None \/ Holders(f) \ {f} # {})
Drained == <>[](\A f \in Wanted : at[f] # "away" => Blocked(f))
=============================================================================
