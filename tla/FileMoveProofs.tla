--------------------------- MODULE FileMoveProofs ---------------------------
(***************************************************************************)
(* What FileMove never does, for every tree, every setting and any number  *)
(* of runs, changes and faults, stale listings and changes from outside    *)
(* included.  What counts as moved is where it should be as long as sizes  *)
(* tell files of one target apart.                                         *)
(***************************************************************************)
EXTENDS FileMove, TLAPS

(* What is to be moved was counted.                                         *)
CurMatched == pc \in Moving \cup After => cur \in matched

(* Between runs nothing is matched.                                         *)
NoneYet == pc \in {"idle", "list"} => matched = {}

TypeInv == TypeOK /\ CurMatched /\ NoneYet

USE FileAssumption, DirAssumption, ModeAssumption, EventAssumption

LEMMA TypeInit == Init => TypeInv
BY DEF Init, TypeInv, TypeOK, CurMatched, NoneYet, Slots, Names, Trees, Nothing, Naming, Moving, After

LEMMA TypeStep == TypeInv /\ [Next]_vars => TypeInv'
<1> SUFFICES ASSUME TypeInv, [Next]_vars PROVE TypeInv'
  OBVIOUS
<1> USE DEF TypeInv, TypeOK, CurMatched, NoneYet, Fault, Spend, NoFault, Outdate, treeVars, runVars, Naming, Moving, After
<1>1. CASE StartRun
  BY <1>1 DEF StartRun, Goto
<1>2. CASE List
  BY <1>2 DEF List, Listed, Scan, Trees, EndRun, Nothing, Names
<1>3. ASSUME NEW f \in Files, Take(f) PROVE TypeInv'
  BY <1>3 DEF Take, Match, Counted, Names
<1>4. CASE ProbeName
  BY <1>4 DEF ProbeName, Present, Goto, Skip, Leave
<1>15. CASE RemoveName
  BY <1>15 DEF RemoveName, Removed, Holders, Goto, Skip, Leave, Names
<1>5. CASE Rename
  BY <1>5 DEF Rename, Match, Counted, Skip, Leave, Names
<1>6. CASE Probe \/ Remove \/ Mkdir
  BY <1>6 DEF Probe, Remove, Mkdir, Present, Emptied, Goto, Skip, Leave, Slots
<1>7. CASE Move
  <2>1. at' \in [Files -> Names] /\ slot' \in [Slots -> Files \cup {None}] /\ late' \subseteq Files
    <3>1. \A g \in Files : Slot[g] \in Slots
      BY DEF Slots
    <3>2. CASE \E g \in Files : Carry(g) /\ UNCHANGED late
      BY <3>1, <3>2 DEF Carry, Names
    <3>3. CASE \E g \in Files : late' = late \cup {g} /\ UNCHANGED <<at, slot>>
      BY <3>3
    <3> QED
      BY <1>7, <3>2, <3>3 DEF Move
  <2>2. /\ UNCHANGED <<overwrite, listing, matched, doomed, outdated>>
        /\ budget' \in 0 .. MaxEvents
    BY <1>7 DEF Move, Goto, Leave
  <2>3. \/ pc' = "scan" /\ cur' = None /\ moved' \subseteq matched
        \/ pc' \in {"gone", "goneNotFound"} /\ UNCHANGED <<cur, moved>> /\ pc = "move"
    BY <1>7 DEF Move, Goto, Leave
  <2>4. CASE pc' = "scan" /\ cur' = None /\ moved' \subseteq matched
    BY <1>7, <2>1, <2>2, <2>4 DEF Move
  <2>5. CASE pc' \in {"gone", "goneNotFound"} /\ UNCHANGED <<cur, moved>>
    BY <1>7, <2>1, <2>2, <2>5 DEF Move
  <2> QED
    BY <2>3, <2>4, <2>5
<1>8. CASE CheckGone \/ Verify
  BY <1>8 DEF CheckGone, Verify, Goto, Skip, Leave
<1>9. CASE EndScan \/ EndDirs
  BY <1>9 DEF EndScan, EndDirs, EndRun, Complete, Nothing, Names
<1>10. ASSUME NEW d \in Dirs, RemoveDir(d) PROVE TypeInv'
  BY <1>10 DEF RemoveDir, Cleared, EndRun, Nothing, Names
<1>11. ASSUME NEW f \in Files, LateMove(f) PROVE TypeInv'
  BY <1>11 DEF LateMove, Carry, Slots, Names
<1>12. ASSUME NEW f \in Files, Upload(f) PROVE TypeInv'
  BY <1>12 DEF Upload, Names
<1>16. ASSUME NEW f \in Files, Outside(f) PROVE TypeInv'
  BY <1>16 DEF Outside, Slots, Names
<1>13. CASE Configure \/ Crash
  BY <1>13 DEF Configure, Crash, EndRun, Nothing, Names
<1>14. CASE UNCHANGED vars
  BY <1>14 DEF vars
<1> QED
  BY <1>1, <1>2, <1>3, <1>4, <1>5, <1>6, <1>7, <1>8, <1>9, <1>10, <1>11, <1>12, <1>13, <1>14, <1>15, <1>16
  DEF Next, Run, Environment

(* Every state is well typed: what is moved was matched, what is matched    *)
(* is wanted, and the root is never doomed.                                 *)
THEOREM TypeCorrect == Spec => []TypeOK
<1>1. Spec => []TypeInv
  BY TypeInit, TypeStep, PTL DEF Spec
<1> QED
  BY <1>1, PTL DEF TypeInv

-----------------------------------------------------------------------------
(***************************************************************************)
(* The invariant.  The tree: a name has one holder, in its own place, and  *)
(* a file is in one place; only a file that is to be renamed has its old   *)
(* name.                                                                   *)
(***************************************************************************)
Unique == \A f, g \in Files : at[f] = "new" /\ at[g] = "new" /\ Path[f] = Path[g] => f = g
SlotOk == \A s \in Slots : slot[s] # None => Slot[slot[s]] = s
OnePlace == \A f \in Files : slot[Slot[f]] = f => at[f] = "away"
OldRename == \A f \in Files : at[f] = "old" => f \in Renames

Tree == Unique /\ SlotOk /\ OnePlace /\ OldRename

(* Of a file whose entry is not outdated the run knows where it is: under   *)
(* the name it was listed with while it waits, under the new name once it   *)
(* is renamed.  Two entries for one name are not both right.                *)
Fresh   == pc \in {"idle", "list", "dirs"} => listing = Nothing
Handled == cur # None => listing[cur] = "away"
Right   == \A f \in Files \ outdated : listing[f] \in {"away", at[f]}
OneEntry == listing \in Trees
NoRival == pc \in Moving => \A g \in Files \ outdated : listing[g] = "new" => Path[g] # Path[cur]

Lists == Fresh /\ Handled /\ Right /\ OneEntry /\ NoRival

CurOld  == pc \in Naming /\ cur \notin outdated => at[cur] = "old"
CurHere == pc \in Moving /\ cur \notin outdated => at[cur] = "new"
Renaming == pc \in Naming => cur \in Renames

AtHand == CurOld /\ CurHere /\ Renaming

(* What was moved is gone until it comes back, and all that matched in a    *)
(* doomed directory was moved.                                              *)
AwayMoved  == \A f \in moved \ outdated : at[f] = "away"
DoomedDone == \A d \in doomed : matched \cap In(d) \subseteq moved

Ends == AwayMoved /\ DoomedDone

MoveInv == TypeInv /\ Tree /\ Lists /\ AtHand

(* Files with the same target have sizes that are known and differ.         *)
SizesTell == \A f \in Wanted, g \in Files : Slot[f] = Slot[g] /\ Size[f] \in {0, Size[g]} => f = g

-----------------------------------------------------------------------------
(* What a name of the target tree holds is a file or nothing.               *)
LEMMA SlotType == TypeOK => \A f \in Files : Slot[f] \in Slots
BY DEF Slots

(* A step changes the tree in one of these ways.                            *)
Renamed(f) == /\ at[f] = "old" /\ Holders(f) = {}
              /\ at' = [at EXCEPT ![f] = "new"] /\ UNCHANGED slot
Carried(g) == at[g] # "away" /\ slot[Slot[g]] = None /\ Carry(g)
Taken(S)   == at' = [g \in Files |-> IF g \in S THEN "away" ELSE at[g]] /\ UNCHANGED slot
Freed(s)   == slot' = [slot EXCEPT ![s] = None] /\ UNCHANGED at
Added(f)   == /\ ~Somewhere(f) /\ (f \in Renames \/ Holders(f) = {})
              /\ at' = [at EXCEPT ![f] = IF f \in Renames THEN "old" ELSE "new"]
              /\ UNCHANGED slot

TreeChange ==
  \/ UNCHANGED <<at, slot>>
  \/ \E f \in Files : Renamed(f) \/ Carried(f) \/ Added(f)
  \/ \E S \in SUBSET Files : Taken(S)
  \/ \E s \in Slots : Freed(s)

LEMMA TreeChanges == TypeInv /\ [Next]_vars => TreeChange
<1> SUFFICES ASSUME TypeInv, [Next]_vars PROVE TreeChange
  OBVIOUS
<1> USE DEF TypeInv, TypeOK, treeVars, Naming, Moving, After
<1>1. ASSUME UNCHANGED <<at, slot>> PROVE TreeChange
  BY <1>1 DEF TreeChange
<1>2. CASE RemoveName
  <2>1. UNCHANGED <<at, slot>> \/ Taken(Holders(cur))
    BY <1>2 DEF RemoveName, Removed, Taken
  <2> QED
    BY <2>1 DEF TreeChange, Holders
<1>3. CASE Rename
  BY <1>3 DEF Rename, CanRename, Renamed, TreeChange
<1>4. CASE Remove
  <2>1. Slot[cur] \in Slots
    BY <1>4 DEF Remove, Slots
  <2> QED
    BY <1>4, <2>1 DEF Remove, Emptied, Freed, TreeChange
<1>5. CASE Move
  <2>1. \A g \in Files : CanMove(g) /\ Carry(g) => Carried(g)
    BY <1>5 DEF Move, CanMove, Holders, Carried, Carry
  <2> QED
    BY <1>5, <2>1 DEF Move, TreeChange
<1>6. ASSUME NEW d \in Dirs, RemoveDir(d) PROVE TreeChange
  <2>1. UNCHANGED <<at, slot>> \/ Taken({f \in Files : Dir[f] \in Below[d]})
    BY <1>6 DEF RemoveDir, Cleared, Taken
  <2> QED
    BY <2>1 DEF TreeChange
<1>7. ASSUME NEW f \in Files, LateMove(f) PROVE TreeChange
  BY <1>7 DEF LateMove, Carried, TreeChange
<1>8. ASSUME NEW f \in Files, Upload(f) PROVE TreeChange
  BY <1>8 DEF Upload, Added, TreeChange
<1>10. ASSUME NEW f \in Files, Outside(f) PROVE TreeChange
  <2>2. CASE UNCHANGED slot
    <3>1. Taken({f})
      BY <1>10, <2>2 DEF Outside, Taken
    <3> QED
      BY <3>1 DEF TreeChange
  <2>3. CASE slot[Slot[f]] = None /\ slot' = [slot EXCEPT ![Slot[f]] = f]
    BY <1>10, <2>3 DEF Outside, Carried, Carry, TreeChange
  <2> QED
    BY <1>10, <2>2, <2>3 DEF Outside
<1>9. CASE \/ StartRun \/ List \/ (\E f \in Files : Take(f)) \/ ProbeName \/ Probe \/ Mkdir
           \/ CheckGone \/ Verify \/ EndScan \/ EndDirs \/ Configure \/ Crash \/ UNCHANGED vars
  BY <1>1, <1>9 DEF StartRun, List, Take, ProbeName, Probe, Mkdir, CheckGone, Verify,
                    EndScan, EndDirs, Configure, Crash, vars
<1> QED
  BY <1>2, <1>3, <1>4, <1>5, <1>6, <1>7, <1>8, <1>9, <1>10 DEF Next, Run, Environment

LEMMA TreeStep == TypeInv /\ Tree /\ [Next]_vars => Tree'
<1> SUFFICES ASSUME TypeInv, Tree, TreeChange PROVE Tree'
  BY TreeChanges
<1> USE DEF TypeInv, TypeOK, Tree, Unique, SlotOk, OnePlace, OldRename
<1>1. CASE UNCHANGED <<at, slot>>
  BY <1>1
<1>2. ASSUME NEW f \in Files, Renamed(f) PROVE Tree'
  BY <1>2 DEF Renamed, Holders
<1>3. ASSUME NEW g \in Files, Carried(g) PROVE Tree'
  BY <1>3, SlotType DEF Carried, Carry
<1>4. ASSUME NEW f \in Files, Added(f) PROVE Tree'
  BY <1>4 DEF Added, Holders, Somewhere
<1>5. ASSUME NEW S \in SUBSET Files, Taken(S) PROVE Tree'
  BY <1>5 DEF Taken
<1>6. ASSUME NEW s \in Slots, Freed(s) PROVE Tree'
  BY <1>6, SlotType DEF Freed
<1> QED
  BY <1>1, <1>2, <1>3, <1>4, <1>5, <1>6 DEF TreeChange

(* What the server moves under the name at hand is the file at hand, unless *)
(* its entry is wrong.                                                      *)
LEMMA MovesCur ==
  MoveInv /\ pc = "move" => \A g \in Files : CanMove(g) => g = cur \/ cur \in outdated
BY DEF MoveInv, TypeInv, TypeOK, AtHand, CurHere, Tree, Unique, CanMove, Holders, Moving, Naming

LEMMA ListsStep ==
  ASSUME MoveInv, [Next]_vars
  PROVE  Lists'
<1> USE DEF MoveInv, TypeInv, TypeOK, Lists, Fresh, Handled, Right, OneEntry, NoRival, Trees,
            Fault, Spend, NoFault, Outdate, treeVars, runVars, Naming, Moving, After, Nothing
<1>3. CASE StartRun
  BY <1>3 DEF StartRun, Goto
<1>4. CASE List
  <2>1. CASE EndRun
    BY <2>1 DEF EndRun, Names
  <2>2. ASSUME NEW entries \in Trees, Scan(entries) PROVE Lists'
    BY <1>4, <2>2 DEF List, Scan, Trees
  <2>3. at \in Trees /\ \A D \in SUBSET Dirs : Listed(D) \in Trees
    BY DEF Listed, Trees, Names, Tree, Unique, OldRename
  <2> QED
    BY <1>4, <2>1, <2>2, <2>3 DEF List
<1>5. ASSUME NEW f \in Files, Take(f) PROVE Lists'
  BY <1>5 DEF Take, Match, Names
<1>6. CASE RemoveName
  BY <1>6 DEF RemoveName, Removed, Holders, Goto, Skip, Leave
<1>7. CASE Rename
  <2>1. /\ UNCHANGED <<listing, outdated>> /\ listing[cur] = "away" /\ cur \in Files
        /\ (pc' = "scan" /\ cur' = None) \/ (pc' = "probe" /\ cur' = cur)
    BY <1>7 DEF Rename, Match, Skip, Leave
  <2>2. CASE UNCHANGED at /\ pc' = "scan"
    BY <2>1, <2>2
  <2>3. CASE CanRename /\ at' = [at EXCEPT ![cur] = "new"]
    BY <2>1, <2>3 DEF CanRename, Holders
  <2> QED
    BY <1>7, <2>2, <2>3 DEF Rename, Skip, Leave
<1>8. CASE ProbeName \/ Probe \/ Mkdir
  BY <1>8 DEF ProbeName, Probe, Mkdir, Present, Goto, Skip, Leave
<1>9. CASE Remove
  BY <1>9 DEF Remove, Emptied, Goto, Skip, Leave
<1>10. CASE Move
  <2>1. /\ pc = "move" /\ cur \in Files /\ listing[cur] = "away"
        /\ UNCHANGED <<overwrite, listing, outdated>>
        /\ pc' \in {"scan", "gone", "goneNotFound"} /\ cur' \in {cur, None}
    BY <1>10 DEF Move, Goto, Leave
  <2>2. UNCHANGED at \/ \E g \in Files : CanMove(g) /\ Carry(g)
    BY <1>10 DEF Move
  <2>3. \A g \in Files \ outdated : CanMove(g) => listing[g] # "new" /\ at[g] = "new"
    BY <2>1 DEF CanMove, Holders
  <2> QED
    BY <2>1, <2>2, <2>3 DEF Carry, Names
<1>11. CASE CheckGone \/ Verify
  BY <1>11 DEF CheckGone, Verify, Goto, Skip, Leave
<1>12. CASE EndScan \/ EndDirs
  BY <1>12 DEF EndScan, EndDirs, EndRun
<1>13. ASSUME NEW d \in Dirs, RemoveDir(d) PROVE Lists'
  BY <1>13 DEF RemoveDir, EndRun
<1>14. ASSUME NEW f \in Files, LateMove(f) PROVE Lists'
  BY <1>14 DEF LateMove, Carry
<1>15. ASSUME NEW f \in Files, Upload(f) PROVE Lists'
  BY <1>15 DEF Upload
<1>18. ASSUME NEW f \in Files, Outside(f) PROVE Lists'
  BY <1>18 DEF Outside
<1>16. CASE Configure \/ Crash
  BY <1>16 DEF Configure, Crash, EndRun, Names
<1>17. CASE UNCHANGED vars
  BY <1>17 DEF vars
<1> QED
  BY <1>3, <1>4, <1>5, <1>6, <1>7, <1>8, <1>9, <1>10, <1>11, <1>12, <1>13, <1>14, <1>15, <1>16,
     <1>17, <1>18 DEF Next, Run, Environment

LEMMA AtHandStep ==
  ASSUME MoveInv, [Next]_vars
  PROVE  AtHand'
<1> USE DEF MoveInv, TypeInv, TypeOK, AtHand, CurOld, CurHere, Renaming,
            Fault, Spend, NoFault, Outdate, treeVars, runVars, Naming, Moving, After
<1>1. CASE StartRun
  BY <1>1 DEF StartRun, Goto
<1>2. CASE List
  BY <1>2 DEF List, Scan, EndRun
<1>3. ASSUME NEW f \in Files, Take(f) PROVE AtHand'
  <2>1. /\ pc = "scan" /\ UNCHANGED <<at, outdated>> /\ listing[f] # "away"
        /\ (f \in outdated \/ listing[f] = at[f])
    BY <1>3 DEF Take, Lists, Right
  <2>2. CASE listing[f] = "old"
    <3>1. f \in Renames
      BY <2>2 DEF Lists, OneEntry, Trees
    <3> QED
      BY <1>3, <2>1, <2>2, <3>1 DEF Take
  <2>3. CASE listing[f] # "old"
    BY <1>3, <2>1, <2>3 DEF Take, Match, Names
  <2> QED
    BY <2>2, <2>3
<1>4. CASE ProbeName
  BY <1>4 DEF ProbeName, Present, Goto, Skip, Leave
<1>5. CASE RemoveName
  BY <1>5 DEF RemoveName, Removed, Holders, Goto, Skip, Leave
<1>6. CASE Rename
  BY <1>6 DEF Rename, CanRename, Match, Skip, Leave
<1>7. CASE Probe
  BY <1>7 DEF Probe, Present, Goto, Skip, Leave
<1>8. CASE Remove
  BY <1>8 DEF Remove, Emptied, Goto, Skip, Leave
<1>9. CASE Mkdir
  BY <1>9 DEF Mkdir, Goto, Skip, Leave
<1>10. CASE Move
  BY <1>10 DEF Move, Goto, Leave
<1>11. CASE CheckGone \/ Verify
  BY <1>11 DEF CheckGone, Verify, Goto, Skip, Leave
<1>12. CASE EndScan \/ EndDirs
  BY <1>12 DEF EndScan, EndDirs, EndRun, Nothing
<1>13. ASSUME NEW d \in Dirs, RemoveDir(d) PROVE AtHand'
  BY <1>13 DEF RemoveDir, EndRun
<1>14. ASSUME NEW f \in Files, LateMove(f) PROVE AtHand'
  BY <1>14 DEF LateMove, Carry
<1>15. ASSUME NEW f \in Files, Upload(f) PROVE AtHand'
  BY <1>15 DEF Upload
<1>18. ASSUME NEW f \in Files, Outside(f) PROVE AtHand'
  BY <1>18 DEF Outside
<1>16. CASE Configure \/ Crash
  BY <1>16 DEF Configure, Crash, EndRun
<1>17. CASE UNCHANGED vars
  BY <1>17 DEF vars
<1> QED
  BY <1>1, <1>2, <1>3, <1>4, <1>5, <1>6, <1>7, <1>8, <1>9, <1>10, <1>11, <1>12, <1>13, <1>14, <1>15,
     <1>16, <1>17, <1>18 DEF Next, Run, Environment

(* The invariant holds in every state of every instance.                    *)
THEOREM MoveInvariant == Spec => []MoveInv
<1>1. Init => MoveInv
  <2> SUFFICES ASSUME Init PROVE MoveInv
    OBVIOUS
  <2>1. TypeInv
    BY TypeInit
  <2>2. Tree
    BY <2>1, SlotType DEF Init, Names, Trees, TypeInv, TypeOK, Tree, Unique, SlotOk, OnePlace, OldRename
  <2>3. Lists /\ AtHand
    BY DEF Init, Lists, Fresh, Handled, Right, OneEntry, NoRival, Trees, Names, Nothing,
           AtHand, CurOld, CurHere, Renaming, Naming, Moving
  <2> QED
    BY <2>1, <2>2, <2>3 DEF MoveInv
<1>2. MoveInv /\ [Next]_vars => MoveInv'
  BY TypeStep, TreeStep, ListsStep, AtHandStep DEF MoveInv
<1> QED
  BY <1>1, <1>2, PTL DEF Spec

-----------------------------------------------------------------------------
(* An overwrite destroys without replacing only what the run's entry is     *)
(* wrong about, whatever fails, is answered late or comes from outside: the *)
(* comment on the removal of the old destination in moveOpenList.           *)
THEOREM OverwriteReplaces == Spec => ReplacesWhatIsListed
<1>1. MoveInv /\ [Next]_vars => ((RemoveName \/ Remove) /\ cur \notin outdated => Replaced)
  <2> SUFFICES ASSUME MoveInv, RemoveName \/ Remove, cur \notin outdated,
                      NEW f \in Files, Somewhere(f), ~Somewhere(f)'
               PROVE  f # cur /\ at[cur] # "away"
    BY DEF Replaced, Destroyed
  <2> USE DEF MoveInv, TypeInv, TypeOK, Somewhere
  <2>1. CASE RemoveName
    BY <2>1 DEF RemoveName, Removed, Holders, AtHand, CurOld, Naming
  <2>2. CASE Remove
    <3>1. at[cur] = "new" /\ UNCHANGED at
      BY <2>2 DEF Remove, AtHand, CurHere, Moving
    <3> QED
      BY <3>1
  <2> QED
    BY <2>1, <2>2
<1> QED
  BY <1>1, MoveInvariant, PTL DEF Spec, ReplacesWhatIsListed

-----------------------------------------------------------------------------
(* What counts as moved is at its destination: what the verification sees   *)
(* there has the name and the size of the file at hand.                     *)
IsThere == \A f \in moved' \ moved : \E g \in Files : Stands(f, g) /\ slot'[Slot[f]] = g

LEMMA MovedThere == ASSUME SizesTell PROVE MoveInv /\ [Next]_vars => IsThere
<1> SUFFICES ASSUME MoveInv, [Next]_vars PROVE IsThere
  OBVIOUS
<1> USE DEF MoveInv, TypeInv, TypeOK, IsThere, runVars
<1>1. ASSUME moved' \subseteq moved PROVE IsThere
  BY <1>1
<1>2. CASE Move
  <2>1. ASSUME NEW g \in Files, CanMove(g), Carry(g), moved' = moved \cup {cur} PROVE IsThere
    <3>1. cur \in Files /\ Path[g] = Path[cur] /\ Slot[g] = Slot[cur]
      BY <1>2, <2>1, FileAssumption DEF Move, CanMove, Holders, Moving
    <3>2. slot'[Slot[cur]] = g
      BY <2>1, <3>1, SlotType DEF Carry
    <3>3. Stands(cur, g)
      BY <1>2, <2>1, <3>1, MovesCur DEF Move, Stands
    <3> QED
      BY <2>1, <3>2, <3>3
  <2> QED
    BY <1>1, <1>2, <2>1 DEF Move, Goto, Leave
<1>3. CASE Verify
  <2>1. cur \in Wanted /\ slot' = slot
    BY <1>3 DEF Verify, treeVars, After, CurMatched
  <2>2. moved' \subseteq moved \/ (Verified /\ moved' = moved \cup {cur})
    BY <1>3 DEF Verify, Skip, Leave
  <2>3. Verified => slot[Slot[cur]] = cur
    BY <2>1, FileAssumption, SlotType DEF Verified, SizesTell, Tree, SlotOk
  <2> QED
    BY <1>1, <2>1, <2>2, <2>3, FileAssumption DEF Stands
<1>4. ASSUME NEW f \in Files, Take(f) PROVE IsThere
  BY <1>1, <1>4 DEF Take
<1>5. ASSUME NEW d \in Dirs, RemoveDir(d) PROVE IsThere
  BY <1>1, <1>5 DEF RemoveDir, EndRun
<1>6. ASSUME NEW f \in Files, LateMove(f) \/ Upload(f) \/ Outside(f) PROVE IsThere
  BY <1>1, <1>6 DEF LateMove, Upload, Outside
<1> QED
  BY <1>1, <1>2, <1>3, <1>4, <1>5, <1>6 DEF Next, Run, Environment, StartRun, List, Scan, ProbeName, RemoveName,
     Rename, Probe, Remove, Mkdir, CheckGone, EndScan, EndDirs, Configure, Crash, vars, Present, Match, Goto,
     Skip, Leave, EndRun

(* What counts as moved is at its destination; under a wrong entry it may be *)
(* another file that had its name.                                          *)
THEOREM MovedAreThere == ASSUME SizesTell PROVE Spec => MovedIsThere
<1>1. MoveInv /\ [Next]_vars => [IsThere]_vars
  BY MovedThere
<1> QED
  BY <1>1, MoveInvariant, PTL DEF Spec, MovedIsThere, IsThere

(* An entry that is wrong stays so as long as anything counts as moved.     *)
LEMMA StaysOutdated == TypeInv /\ [Next]_vars => outdated \subseteq outdated' \/ moved' = {}
<1> SUFFICES ASSUME TypeInv, [Next]_vars PROVE outdated \subseteq outdated' \/ moved' = {}
  OBVIOUS
<1> USE DEF TypeInv, TypeOK, Outdate, EndRun
<1>1. CASE List
  BY <1>1 DEF List, Scan
<1>2. ASSUME NEW f \in Files, Take(f) \/ LateMove(f) \/ Upload(f) \/ Outside(f)
      PROVE  outdated \subseteq outdated'
  BY <1>2 DEF Take, LateMove, Upload, Outside
<1>3. ASSUME NEW d \in Dirs, RemoveDir(d) PROVE outdated \subseteq outdated' \/ moved' = {}
  BY <1>3 DEF RemoveDir
<1> QED
  BY <1>1, <1>2, <1>3 DEF Next, Run, Environment, StartRun, ProbeName, RemoveName, Rename, Probe, Remove, Mkdir,
     Move, CheckGone, Verify, EndScan, EndDirs, Configure, Crash, vars

(* A file that counts as moved stays away: it is at its destination; if it  *)
(* comes back, its entry is outdated.                                       *)
LEMMA EndsStep == ASSUME SizesTell PROVE MoveInv /\ MoveInv' /\ Ends /\ [Next]_vars => Ends'
<1> SUFFICES ASSUME MoveInv, MoveInv', Ends, [Next]_vars PROVE Ends'
  OBVIOUS
<1> USE DEF Ends, AwayMoved, DoomedDone
<1>1. AwayMoved'
  <2> SUFFICES ASSUME NEW f \in moved', f \notin outdated', f \notin outdated PROVE at'[f] = "away"
    BY StaysOutdated DEF MoveInv
  <2>0. f \in Files
    BY FileAssumption DEF MoveInv, TypeInv, TypeOK
  <2>1. CASE f \notin moved
    BY <2>0, <2>1, MovedThere DEF IsThere, Stands, MoveInv, Tree, OnePlace
  <2>2. CASE f \in moved
    <3>1. f \in Files /\ f \in matched /\ at[f] = "away" /\ at \in [Files -> Names]
      BY <2>0, <2>2 DEF MoveInv, TypeInv, TypeOK
    <3>2. ASSUME NEW g \in Files, Upload(g) PROVE at'[f] = "away"
      <4>1. f # g
        BY <2>2, <3>2 DEF Upload, Outdate, MoveInv, TypeInv, TypeOK, NoneYet
      <4> QED
        BY <3>1, <3>2, <4>1 DEF Upload
    <3>3. ASSUME NEW g \in Files, LateMove(g) \/ Outside(g) PROVE at'[f] = "away"
      BY <3>1, <3>3 DEF LateMove, Carry, Outside
    <3>4. CASE Rename
      BY <3>1, <3>4 DEF Rename, CanRename, MoveInv, TypeInv, TypeOK, Naming
    <3>5. CASE Move
      BY <3>1, <3>5 DEF Move, Carry, treeVars
    <3>6. CASE RemoveName \/ \E d \in Dirs : RemoveDir(d)
      BY <3>1, <3>6 DEF RemoveName, Removed, RemoveDir, Cleared
    <3> QED
      BY <3>1, <3>2, <3>3, <3>4, <3>5, <3>6 DEF Next, Run, Environment, StartRun, List, Take, ProbeName,
         Probe, Remove, Mkdir, CheckGone, Verify, EndScan, EndDirs, Configure, Crash, vars, treeVars
  <2> QED
    BY <2>1, <2>2
<1>2. DoomedDone'
  <2>1. doomed = {} \/ pc = "dirs"
    BY DEF MoveInv, TypeInv, TypeOK
  <2>2. CASE EndScan
    BY <2>2 DEF EndScan, Complete, In
  <2>3. ASSUME NEW d \in Dirs, RemoveDir(d) PROVE DoomedDone'
    BY <2>3 DEF RemoveDir, EndRun, In
  <2>4. ASSUME NEW f \in Files, Take(f) PROVE DoomedDone'
    BY <2>1, <2>4 DEF Take
  <2>5. ASSUME NEW f \in Files, LateMove(f) \/ Upload(f) \/ Outside(f) PROVE DoomedDone'
    BY <2>5 DEF LateMove, Upload, Outside, runVars, In
  <2>6. ASSUME pc # "dirs", doomed' = doomed PROVE DoomedDone'
    BY <2>1, <2>6
  <2>7. ASSUME UNCHANGED runVars PROVE DoomedDone'
    BY <2>7 DEF runVars, In
  <2>8. ASSUME doomed' = {} PROVE DoomedDone'
    BY <2>8
  <2>9. CASE StartRun \/ Configure \/ UNCHANGED vars
    BY <2>7, <2>9 DEF StartRun, Goto, Configure, vars
  <2>10. CASE EndDirs \/ Crash
    BY <2>8, <2>10 DEF EndDirs, Crash, EndRun
  <2>11. CASE \/ List \/ ProbeName \/ RemoveName \/ Rename \/ Probe \/ Remove \/ Mkdir
              \/ Move \/ CheckGone \/ Verify
    <3>1. pc # "dirs" /\ (doomed' = doomed \/ doomed' = {})
      BY <2>11 DEF List, Scan, ProbeName, RemoveName, Rename, Probe, Remove, Mkdir, Move, CheckGone, Verify,
                   Present, Goto, Skip, Leave, EndRun, runVars
    <3> QED
      BY <2>6, <2>8, <3>1
  <2> QED
    BY <2>2, <2>3, <2>4, <2>5, <2>9, <2>10, <2>11 DEF Next, Run, Environment
<1> QED
  BY <1>1, <1>2

(* A removed directory had no matched file of its own left: matched against *)
(* moved in removeMatchedOpenListDirs.                                      *)
THEOREM RemovesOnlyTheMoved == ASSUME SizesTell PROVE Spec => RemovesOnlyMoved
<1>1. Init => Ends
  BY DEF Init, Ends, AwayMoved, DoomedDone
<1>2. MoveInv /\ Ends =>
        (pc = "dirs" => \A f \in matched \ outdated : at[f] # "away" /\ at'[f] = "away" => Dir[f] \notin doomed)
  BY FileAssumption DEF MoveInv, TypeInv, TypeOK, Ends, AwayMoved, DoomedDone, In
<1> QED
  BY <1>1, <1>2, EndsStep, MoveInvariant, PTL DEF Spec, RemovesOnlyMoved
=============================================================================
