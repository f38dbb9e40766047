-------------------------- MODULE Alist2StrmProofs --------------------------
(***************************************************************************)
(* Alist2Strm: type correctness; what a run may delete and strike from the *)
(* snapshot, if FSGet does not fail; and what the snapshot promises, if    *)
(* writing does not fail and no removed file comes back as it was.         *)
(***************************************************************************)
EXTENDS Alist2Strm, TLAPS

LEMMA EnvTypes == Disc \subseteq Files /\ Sub \subseteq Files /\ MaxEvents \in Nat
  BY FilesAssumption, EventAssumption

LEMMA EventTypes ==
  ASSUME TypeOK, NoFault \/ \E kind : Fault(kind)
  PROVE  budget' \in 0 .. MaxEvents
  BY EnvTypes DEF TypeOK, NoFault, Fault

LEMMA EndRunTypes ==
  ASSUME TypeOK, EndRun, UNCHANGED <<present, version>>,
         local' \in [Files -> Nat], snap' \in [Files -> Nat], budget' \in 0 .. MaxEvents
  PROVE  TypeOK'
  BY DEF TypeOK, EndRun, Nothing, Stages

LEMMA ListingTypes == ASSUME TypeOK, NEW dir PROVE Listing(dir) \in [Files -> Nat]
  BY DEF Listing, TypeOK

LEMMA TypeInit == Init => TypeOK
<1> SUFFICES ASSUME Init PROVE TypeOK
  OBVIOUS
<1>1. Nothing \in [Files -> Nat] /\ [f \in Files |-> 1] \in [Files -> Nat \ {0}]
  BY DEF Nothing
<1>2. budget \in 0 .. MaxEvents
  BY EventAssumption DEF Init
<1>3. present \subseteq Files /\ pc = "idle" /\ full = FALSE /\ incomplete = FALSE /\ todo = {}
      /\ jobs = Nothing /\ collected = {} /\ processed = {} /\ doomed = {} /\ gone = {}
  BY DEF Init
<1>4. version \in [Files -> Nat \ {0}] /\ local \in [Files -> Nat] /\ snap \in [Files -> Nat]
      /\ newSnap \in [Files -> Nat]
  BY <1>1 DEF Init
<1> QED
  BY <1>1, <1>2, <1>3, <1>4 DEF TypeOK, Stages

LEMMA RunTypes == TypeOK /\ Run => TypeOK'
<1> SUFFICES ASSUME TypeOK, Run PROVE TypeOK'
  OBVIOUS
<1> USE EnvTypes, EventTypes DEF remoteVars, diskVars, runVars
<1>1. CASE StartRun
  BY <1>1 DEF StartRun, TypeOK, Stages
<1>2. CASE ListRoot
  BY <1>2, ListingTypes DEF ListRoot, TypeOK, Stages
<1>3. CASE ListSub
  <2>1. OldEntries \in [Files -> Nat]
    BY DEF OldEntries, TypeOK
  <2> QED
    BY <1>3, <2>1, ListingTypes DEF ListSub, TypeOK, Stages
<1>4. CASE RootFails
  BY <1>4, EndRunTypes DEF RootFails, TypeOK
<1>5. CASE Abandon \/ EndClean
  <2>1. EndRun /\ UNCHANGED <<remoteVars, diskVars, budget>>
    BY <1>5 DEF Abandon, EndClean
  <2> QED
    BY <2>1, EndRunTypes DEF TypeOK
<1>6. CASE Diff
  BY <1>6 DEF Diff, TypeOK, Stages, Known, Changed, Seen
<1>7. CASE NoDisc
  BY <1>7 DEF NoDisc, Worked, TypeOK, Stages
<1>8. CASE SaveAndEnd
  <2>1. snap' \in [Files -> Nat]
    BY <1>8 DEF SaveAndEnd, SaveSnapshot, TypeOK
  <2>2. budget' \in 0 .. MaxEvents
    BY <1>8 DEF SaveAndEnd, SaveSnapshot
  <2> QED
    BY <1>8, <2>1, <2>2, EndRunTypes DEF SaveAndEnd, TypeOK
<1>9. CASE SaveAndClean
  <2>1. snap' \in [Files -> Nat] /\ budget' \in 0 .. MaxEvents
    BY <1>9 DEF SaveAndClean, SaveSnapshot, TypeOK
  <2> QED
    BY <1>9, <2>1 DEF SaveAndClean, TypeOK, Stages, Known, Marked
<1>10. ASSUME NEW f \in Files, Processing(f) PROVE TypeOK'
  <2>1. CASE Collect(f)
    BY <2>1 DEF Collect, Take, TypeOK, Stages
  <2>2. CASE Dispatch(f)
    BY <2>2 DEF Dispatch, Take, TypeOK, Stages
  <2>3. CASE DropDetail(f)
    BY <2>3 DEF DropDetail, NoDetail, Take, TypeOK, Stages
  <2>4. CASE FullNoDetail(f)
    BY <2>4 DEF FullNoDetail, NoDetail, Take, TypeOK, Stages
  <2>5. CASE Write(f)
    <3>1. jobs' \in [Files -> Nat] /\ local' \in [Files -> Nat] /\ budget' \in 0 .. MaxEvents
      BY <2>5 DEF Write, TypeOK
    <3>2. pc = "work"
      BY <2>5 DEF Write, TypeOK, Nothing
    <3> QED
      BY <2>5, <3>1, <3>2 DEF Write, TypeOK
  <2>6. CASE ProcessLargest(f)
    BY <2>6 DEF ProcessLargest, NoDetail, Worked, TypeOK, Stages
  <2> QED
    BY <1>10, <2>1, <2>2, <2>3, <2>4, <2>5, <2>6 DEF Processing
<1>11. ASSUME NEW f \in Files, Remove(f) PROVE TypeOK'
  BY <1>11 DEF Remove, TypeOK
<1> QED
  BY <1>1, <1>2, <1>3, <1>4, <1>5, <1>6, <1>7, <1>8, <1>9, <1>10, <1>11 DEF Run

LEMMA EnvironmentTypes == TypeOK /\ Environment => TypeOK'
<1> SUFFICES ASSUME TypeOK, Environment PROVE TypeOK'
  OBVIOUS
<1> USE EventTypes DEF remoteVars, diskVars, runVars
<1>1. ASSUME NEW f \in Files, Disappear(f) \/ Upload(f) \/ Restore(f) \/ DeleteLocal(f)
      PROVE  TypeOK'
  BY <1>1 DEF Disappear, Upload, Restore, DeleteLocal, TypeOK
<1>2. CASE Crash
  BY <1>2, EndRunTypes DEF Crash, TypeOK
<1> QED
  BY <1>1, <1>2 DEF Environment

LEMMA TypeNext == TypeOK /\ [Next]_vars => TypeOK'
<1>1. TypeOK /\ UNCHANGED vars => TypeOK'
  BY DEF TypeOK, vars, remoteVars, diskVars, runVars
<1> QED
  BY <1>1, RunTypes, EnvironmentTypes DEF Next

(* Type correctness: the variables keep their types, work is in progress    *)
(* only while the run works (wg.Wait before the snapshot is saved), and     *)
(* deletions are pending only in the cleanup.                               *)
THEOREM TypeCorrect == Spec => []TypeOK
  BY TypeInit, TypeNext, PTL DEF Spec
-----------------------------------------------------------------------------
(***************************************************************************)
(* What was not seen is not gone.                                          *)
(***************************************************************************)

(* A run starts with a new object.                                          *)
FreshRun ==
  /\ pc \in {"idle", "root"} => newSnap = Nothing
  /\ pc \in {"idle", "root", "sub", "diff"} => collected = {} /\ processed = {}
  /\ pc \in {"idle", "root", "sub"} => ~incomplete

(* During a run, a file that is not there is remembered.                    *)
GoneKnown == pc # "idle" => Files \ present \subseteq gone

(* Half of the tree is listed.                                              *)
RootListed == pc = "sub" => \A f \in Files \ Sub : f \in gone \/ newSnap[f] # 0

(* A run that was shown an empty tree, and had no snapshot to doubt it, has *)
(* nothing to do; ...                                                       *)
Blank ==
  /\ newSnap = Nothing /\ todo = {} /\ jobs = Nothing /\ collected = {} /\ processed = {}
  /\ pc = "diff" \/ full \/ snap = Nothing

(* ... any other has listed all that is there, or kept the old entries of   *)
(* what it could not list; and a full scan has each of its files in hand.   *)
InHand == todo \cup processed \cup collected
Covered ==
  /\ \A f \in Seen : f \in gone \/ newSnap[f] # 0
  /\ incomplete /\ ~full => \A f \in Sub : newSnap[f] = snap[f]
  /\ ~full => todo \subseteq Seen
  /\ full /\ pc # "diff" => Known(newSnap) \subseteq InHand
TreeListed == pc \in {"diff", "work", "mark"} => Blank \/ Covered

(* The members of a disc but the largest are left, and what is doomed was   *)
(* gone or is one of them.                                                  *)
DiscDone   == pc = "mark" => \A f \in collected \ processed : Lesser(f)
DoomedGone == \A f \in doomed : f \in gone \/ Lesser(f)

SeenInv == FreshRun /\ GoneKnown /\ RootListed /\ TreeListed /\ DiscDone /\ DoomedGone

LEMMA SeenInit == Init => SeenInv
  BY DEF Init, SeenInv, FreshRun, GoneKnown, RootListed, TreeListed, DiscDone, DoomedGone

LEMMA SeenEndRun == ASSUME EndRun PROVE SeenInv'
  BY DEF EndRun, SeenInv, FreshRun, GoneKnown, RootListed, TreeListed, DiscDone, DoomedGone,
         Nothing

(* Listing a directory finds what is there.                                 *)
LEMMA ListingFinds ==
  ASSUME TypeOK, GoneKnown, pc # "idle", NEW dir, NEW f \in Files,
         f \in dir \/ f \in gone \/ newSnap[f] # 0
  PROVE  f \in gone \/ Listing(dir)[f] # 0
  BY DEF TypeOK, GoneKnown, Listing

LEMMA SeenListing ==
  ASSUME TypeOK, SeenInv, StartRun \/ ListRoot \/ ListSub \/ Diff PROVE SeenInv'
<1> USE EnvTypes DEF remoteVars, diskVars
<1>1. CASE StartRun
  BY <1>1 DEF StartRun, TypeOK, SeenInv, FreshRun, GoneKnown, RootListed, TreeListed, DiscDone,
              DoomedGone
<1>2. CASE ListRoot
  <2>1. CASE newSnap' = Listing(Files \ Sub) /\ pc' = "sub"
    <3>1. RootListed'
      BY <1>2, <2>1, ListingFinds DEF ListRoot, RootListed, SeenInv
    <3> QED
      BY <1>2, <2>1, <3>1 DEF ListRoot, SeenInv, FreshRun, GoneKnown, TreeListed, DiscDone, DoomedGone
  <2>2. CASE UNCHANGED newSnap /\ pc' = "diff"
    <3>1. Blank'
      BY <1>2, <2>2 DEF ListRoot, Blank, SeenInv, FreshRun, TypeOK, Nothing
    <3> QED
      BY <1>2, <2>2, <3>1 DEF ListRoot, SeenInv, FreshRun, GoneKnown, RootListed, TreeListed,
                              DiscDone, DoomedGone
  <2> QED
    BY <1>2, <2>1, <2>2 DEF ListRoot
<1>3. CASE ListSub
  <2>1. Covered'
    <3>0. UNCHANGED <<snap, gone, full, todo>> /\ todo = {} /\ ~incomplete /\ pc = "sub" /\ pc' = "diff"
      BY <1>3 DEF ListSub, TypeOK, SeenInv, FreshRun
    <3>1. CASE newSnap' = Listing(Sub) /\ UNCHANGED incomplete
      <4>1. \A f \in Files : f \in gone \/ newSnap'[f] # 0
        BY <3>0, <3>1, ListingFinds DEF SeenInv, RootListed
      <4> QED
        BY <3>0, <3>1, <4>1 DEF Covered, Seen
    <3>2. CASE newSnap' = OldEntries /\ incomplete' = TRUE
      <4>1. \A f \in Files \ Sub : f \in gone \/ newSnap'[f] # 0
        BY <3>0, <3>2 DEF SeenInv, RootListed, OldEntries
      <4>2. ~full => \A f \in Sub : newSnap'[f] = snap[f]
        BY <3>2 DEF OldEntries
      <4> QED
        BY <3>0, <3>2, <4>1, <4>2 DEF Covered, Seen
    <3> QED
      BY <1>3, <3>1, <3>2 DEF ListSub
  <2> QED
    BY <1>3, <2>1 DEF ListSub, SeenInv, FreshRun, GoneKnown, RootListed, TreeListed,
                      DiscDone, DoomedGone
<1>4. CASE Diff
  <2>0. UNCHANGED <<newSnap, snap, full, incomplete, jobs, collected, processed, gone>>
        /\ pc = "diff" /\ pc' = "work" /\ todo' = (IF full THEN Known(newSnap) ELSE Changed)
    BY <1>4 DEF Diff
  <2>1. CASE Blank
    <3>1. Known(newSnap) = {} /\ Changed = {}
      BY <2>1 DEF Blank, Known, Changed, Seen, Nothing
    <3>2. full \/ snap = Nothing
      BY <1>4, <3>1 DEF Diff, Suspicious, Known, TypeOK, Nothing
    <3> QED
      BY <1>4, <2>0, <2>1, <3>1, <3>2 DEF Diff, SeenInv, FreshRun, GoneKnown, RootListed, TreeListed, Blank,
                              DiscDone, DoomedGone, TypeOK
  <2>2. CASE Covered
    <3>1. Covered'
      BY <2>0, <2>2 DEF Covered, Known, Changed, Seen, InHand
    <3> QED
      BY <1>4, <2>0, <3>1 DEF Diff, SeenInv, FreshRun, GoneKnown, RootListed, TreeListed,
                              DiscDone, DoomedGone, TypeOK
  <2> QED
    BY <2>0, <2>1, <2>2 DEF SeenInv, TreeListed
<1> QED
  BY <1>1, <1>2, <1>3, <1>4

(* While the run works, its steps keep what the listing covered.            *)
LEMMA SeenWork ==
  ASSUME "get" \notin Env, TypeOK, SeenInv, NEW f \in Files, Processing(f) PROVE SeenInv'
<1>0. pc = "work" /\ (Blank \/ Covered) /\ UNCHANGED <<present, snap, full, incomplete, doomed, gone>>
  BY DEF Processing, Collect, Dispatch, DropDetail, FullNoDetail, Write, ProcessLargest, Take,
         Worked, TypeOK, Nothing, SeenInv, TreeListed, remoteVars, diskVars
<1>1. CASE pc' = "work"
  <2>1. Covered
    BY <1>0, <1>1 DEF Processing, Collect, Dispatch, DropDetail, FullNoDetail, Write,
           ProcessLargest, Take, Blank, Nothing
  <2>2. Covered'
    <3>1. CASE ~DropDetail(f)
      <4>1. UNCHANGED newSnap /\ todo' \subseteq todo /\ InHand \subseteq InHand'
        BY <1>0, <1>1, <3>1 DEF Processing, Collect, Dispatch, FullNoDetail, Write, ProcessLargest,
                                Take, InHand
      <4> QED
        BY <1>0, <1>1, <2>1, <4>1 DEF Covered, Seen, Known
    <3>2. CASE DropDetail(f)
      <4>1. /\ f \in gone /\ f \in Seen /\ ~full
            /\ todo' = todo \ {f} /\ newSnap' = [newSnap EXCEPT ![f] = 0]
        BY <1>0, <2>1, <3>2 DEF DropDetail, NoDetail, Fault, Take, Covered, SeenInv, GoneKnown
      <4>2. incomplete => f \notin Sub
        BY <4>1 DEF Seen
      <4> QED
        BY <1>0, <1>1, <2>1, <4>1, <4>2, EnvTypes DEF Covered, Seen, TypeOK
    <3> QED
      BY <3>1, <3>2
  <2> QED
    BY <1>0, <1>1, <2>2 DEF SeenInv, FreshRun, GoneKnown, RootListed, TreeListed, DiscDone,
                            DoomedGone
<1>2. CASE ProcessLargest(f)
  <2>1. UNCHANGED <<newSnap, todo, jobs, collected>> /\ processed' = processed \cup {f} /\ pc' = "mark"
    BY <1>2 DEF ProcessLargest
  <2>2. Covered
    BY <1>0, <1>2 DEF ProcessLargest, Blank
  <2>3. Covered'
    BY <1>0, <2>1, <2>2 DEF Covered, Seen, Known, InHand
  <2>4. DiscDone'
    BY <1>2, <2>1, EnvTypes, DiscAssumption DEF ProcessLargest, DiscDone, Lesser, TypeOK
  <2> QED
    BY <1>0, <2>1, <2>3, <2>4 DEF SeenInv, FreshRun, GoneKnown, RootListed, TreeListed, DoomedGone
<1> QED
  BY <1>0, <1>1, <1>2 DEF Processing, Collect, Dispatch, DropDetail, FullNoDetail, Write

LEMMA SeenEnd ==
  ASSUME TypeOK, SeenInv, NoDisc \/ SaveAndClean \/ \E f \in Files : Remove(f) PROVE SeenInv'
<1>1. CASE NoDisc
  <2>1. UNCHANGED <<newSnap, snap, todo, jobs, collected, processed, full, incomplete, gone, doomed, present>>
        /\ pc = "work" /\ pc' = "mark" /\ collected = {}
    BY <1>1 DEF NoDisc, Worked, runVars, remoteVars, diskVars
  <2>2. TreeListed'
    BY <2>1 DEF SeenInv, TreeListed, Blank, Covered, Seen, Known, InHand
  <2> QED
    BY <2>1, <2>2 DEF SeenInv, FreshRun, GoneKnown, RootListed, DiscDone, DoomedGone
<1>2. CASE SaveAndClean
  <2>1. DoomedGone'
    <3> SUFFICES ASSUME NEW f \in doomed' PROVE f \in gone' \/ Lesser(f)
      BY DEF DoomedGone, Lesser
    <3>1. f \in Files /\ f \notin Marked /\ gone' = gone /\ pc = "mark" /\ Seen = Files /\ Covered
          /\ todo = {}
      BY <1>2 DEF SaveAndClean, Cleans, Known, Seen, SeenInv, TreeListed, Blank, Marked, Nothing, TypeOK
    <3>2. CASE ~full
      BY <3>1, <3>2 DEF Marked, Known, Covered
    <3>3. CASE full
      BY <3>1, <3>3 DEF Marked, Known, Covered, InHand, SeenInv, DiscDone
    <3> QED
      BY <3>2, <3>3
  <2> QED
    BY <1>2, <2>1 DEF SaveAndClean, remoteVars, SeenInv, FreshRun, GoneKnown, RootListed, TreeListed,
                      DiscDone
<1>3. ASSUME NEW f \in Files, Remove(f) PROVE SeenInv'
  <2>1. pc = "clean" /\ pc' = "clean" /\ doomed' \subseteq doomed /\ UNCHANGED <<gone, present>>
    BY <1>3 DEF Remove, TypeOK, remoteVars
  <2> QED
    BY <2>1 DEF SeenInv, FreshRun, GoneKnown, RootListed, TreeListed, DiscDone, DoomedGone, Lesser
<1> QED
  BY <1>1, <1>2, <1>3

LEMMA SeenEnvironment ==
  ASSUME TypeOK, SeenInv, Environment \/ UNCHANGED vars PROVE SeenInv'
<1>1. CASE Crash
  BY <1>1, SeenEndRun DEF Crash
<1>2. CASE UNCHANGED <<pc, runVars, snap>> /\ gone \subseteq gone' /\ (pc # "idle" => Files \ present' \subseteq gone')
  <2>1. TreeListed'
    BY <1>2 DEF SeenInv, TreeListed, Blank, Covered, Seen, Known, InHand, runVars
  <2> QED
    BY <1>2, <2>1 DEF SeenInv, FreshRun, GoneKnown, RootListed, DiscDone, DoomedGone, Lesser, runVars
<1>3. ASSUME NEW f \in Files, Disappear(f) \/ Upload(f) \/ Restore(f) \/ DeleteLocal(f) PROVE SeenInv'
  <2>1. UNCHANGED <<pc, runVars, snap>> /\ gone \subseteq gone'
    BY <1>3 DEF Disappear, Upload, Restore, DeleteLocal, diskVars
  <2>2. pc # "idle" => Files \ present' \subseteq gone'
    BY <1>3 DEF Disappear, Upload, Restore, DeleteLocal, remoteVars, SeenInv, GoneKnown
  <2> QED
    BY <1>2, <2>1, <2>2
<1>4. CASE UNCHANGED vars
  BY <1>2, <1>4 DEF vars, remoteVars, diskVars, SeenInv, GoneKnown
<1> QED
  BY <1>1, <1>3, <1>4 DEF Environment

LEMMA SeenNext ==
  ASSUME "get" \notin Env PROVE TypeOK /\ SeenInv /\ [Next]_vars => SeenInv'
<1> SUFFICES ASSUME TypeOK, SeenInv, [Next]_vars PROVE SeenInv'
  OBVIOUS
<1>1. CASE RootFails \/ Abandon \/ SaveAndEnd \/ EndClean
  BY <1>1, SeenEndRun DEF RootFails, Abandon, SaveAndEnd, EndClean
<1>2. CASE \E f \in Files : Processing(f)
  BY <1>2, SeenWork
<1> QED
  BY <1>1, <1>2, SeenListing, SeenEnd, SeenEnvironment DEF Next, Run

LEMMA SeenAlways == ASSUME "get" \notin Env PROVE Spec => [](TypeOK /\ SeenInv)
<1>1. Init => TypeOK /\ SeenInv
  BY TypeInit, SeenInit
<1>2. TypeOK /\ SeenInv /\ [Next]_vars => (TypeOK /\ SeenInv)'
  BY TypeNext, SeenNext
<1> QED
  BY <1>1, <1>2, PTL DEF Spec

(* If FSGet does not fail on a file that exists, the cleanup deletes only   *)
(* outputs of files that were absent at some point of the run, however      *)
(* listings, saving, deleting and the process fail and whatever the user    *)
(* and the remote side do meanwhile.                                        *)
THEOREM DeletesOnlyTheGone == ASSUME "get" \notin Env PROVE Spec => DeletesOnlyGone
<1>1. SeenInv /\ TypeOK /\ [Next]_vars =>
        [pc = "clean" => \A f \in Files : local[f] # 0 /\ local'[f] = 0 /\ doomed' # doomed =>
           f \in gone \/ Lesser(f)]_vars
  <2> SUFFICES ASSUME SeenInv, TypeOK, Next, pc = "clean", NEW f \in Files,
                      local[f] # 0, local'[f] = 0, doomed' # doomed
               PROVE  f \in gone \/ Lesser(f)
    OBVIOUS
  <2>1. CASE \E g \in Files : Remove(g)
    <3>1. f \in doomed
      BY <2>1 DEF Remove, TypeOK
    <3> QED
      BY <3>1 DEF SeenInv, DoomedGone
  <2>2. CASE ~\E g \in Files : Remove(g)
    <3>1. UNCHANGED local \/ UNCHANGED doomed
      BY <2>2 DEF Next, Run, Environment, StartRun, ListRoot, RootFails, ListSub, Abandon, Diff,
             Processing, Collect, Dispatch, DropDetail, FullNoDetail, Write, ProcessLargest,
             NoDisc, SaveAndEnd, SaveAndClean, EndClean, Disappear, Upload, Restore, DeleteLocal,
             Crash, diskVars, runVars
    <3> QED
      BY <3>1
  <2> QED
    BY <2>1, <2>2
<1> QED
  BY <1>1, SeenAlways, PTL DEF Spec, DeletesOnlyGone

(* On the same condition the snapshot keeps the entry of every file that    *)
(* was there throughout the run.                                            *)
THEOREM EntriesAreKept == ASSUME "get" \notin Env PROVE Spec => EntriesKept
<1>1. SeenInv /\ TypeOK /\ [Next]_vars =>
        [\A f \in Files : snap[f] # 0 /\ snap'[f] = 0 => f \in gone]_vars
  <2> SUFFICES ASSUME SeenInv, TypeOK, Next, NEW f \in Files, snap[f] # 0, snap'[f] = 0
               PROVE  f \in gone
    OBVIOUS
  <2>1. snap' = newSnap /\ pc = "mark" /\ ~full
    BY DEF Next, Run, Environment, StartRun, ListRoot, RootFails, ListSub, Abandon, Diff,
           Processing, Collect, Dispatch, DropDetail, FullNoDetail, Write, ProcessLargest, Remove,
           NoDisc, SaveAndEnd, SaveAndClean, SaveSnapshot, EndClean, Disappear, Upload, Restore,
           DeleteLocal, Crash, diskVars
  <2>2. Covered
    BY <2>1 DEF SeenInv, TreeListed, Blank, Nothing
  <2> QED
    BY <2>1, <2>2 DEF Covered, Seen
<1> QED
  BY <1>1, SeenAlways, PTL DEF Spec, EntriesKept
-----------------------------------------------------------------------------
(***************************************************************************)
(* What the snapshot promises.                                             *)
(***************************************************************************)

(* An entry of s is no reason to skip a file that should be renewed.        *)
Current(s, f) == f \in present /\ s[f] = version[f] /\ local[f] # 0 => local[f] >= version[f]

(* Versions only grow, and what is listed or to be written is not older     *)
(* than what earlier runs left.                                             *)
Bounded ==
  \A f \in Files : /\ snap[f] <= version[f] /\ local[f] <= version[f]
                   /\ newSnap[f] <= version[f] /\ jobs[f] <= version[f]
After(v, f)  == snap[f] <= v /\ local[f] <= v
KeptEntry(f) == incomplete /\ ~full /\ f \in Sub
Listed ==
  /\ pc = "sub" => \A f \in Sub : newSnap[f] = 0
  /\ pc \in {"sub", "diff"} =>
       \A f \in Files : IF KeptEntry(f) THEN newSnap[f] = snap[f]
                        ELSE newSnap[f] = 0 \/ After(newSnap[f], f)
Pending ==
  /\ \A f \in todo : newSnap[f] # 0 /\ After(newSnap[f], f) /\ jobs[f] = 0
  /\ \A f \in Files : jobs[f] # 0 => After(jobs[f], f) /\ newSnap[f] <= jobs[f]

OldHonest == \A f \in Files : Renewed(f) => Current(snap, f)
NewHonest ==
  ~full /\ pc \in {"work", "mark"} =>
    \A f \in Files : Renewed(f) => f \in todo \/ jobs[f] # 0 \/ Current(newSnap, f)

HonestInv == FreshRun /\ Bounded /\ Listed /\ Pending /\ OldHonest /\ NewHonest

LEMMA HonestInit == Init => HonestInv
  BY DEF Init, HonestInv, FreshRun, Bounded, Listed, Pending, OldHonest, NewHonest, Current, Nothing

LEMMA HonestEndRun ==
  ASSUME TypeOK, EndRun, UNCHANGED <<present, version, local>>, HonestInv,
         OldHonest', \A f \in Files : snap'[f] <= version[f]
  PROVE  HonestInv'
  BY DEF TypeOK, EndRun, HonestInv, FreshRun, Bounded, Listed, Pending, NewHonest, Nothing

LEMMA HonestListing ==
  ASSUME TypeOK, HonestInv, StartRun \/ ListRoot \/ ListSub PROVE HonestInv'
<1> USE EnvTypes DEF remoteVars, diskVars
<1>0. UNCHANGED <<present, version, local, snap, jobs, todo>> /\ todo = {} /\ jobs = Nothing
      /\ Pending' /\ OldHonest' /\ NewHonest'
  BY DEF StartRun, ListRoot, ListSub, TypeOK, HonestInv, Pending, Nothing, OldHonest, Current,
         NewHonest
<1>1. CASE StartRun
  BY <1>0, <1>1 DEF StartRun, HonestInv, FreshRun, Bounded, Listed
<1>2. CASE ListRoot
  <2>1. newSnap = Nothing /\ UNCHANGED incomplete /\ ~incomplete /\ pc' \in {"sub", "diff"}
        /\ collected' = {} /\ processed' = {}
    BY <1>2 DEF ListRoot, HonestInv, FreshRun
  <2>2. \A f \in Files : newSnap'[f] \in {0, version[f]} /\ (pc' = "sub" /\ f \in Sub => newSnap'[f] = 0)
    BY <1>2, <2>1 DEF ListRoot, Listing, Nothing, TypeOK
  <2> QED
    BY <1>0, <2>1, <2>2 DEF TypeOK, HonestInv, FreshRun, Bounded, Listed, KeptEntry, After
<1>3. CASE ListSub
  <2>1. pc = "sub" /\ pc' = "diff" /\ ~incomplete /\ UNCHANGED full /\ collected' = {} /\ processed' = {}
    BY <1>3 DEF ListSub, HonestInv, FreshRun
  <2>2. CASE newSnap' = Listing(Sub) /\ UNCHANGED incomplete
    <3>1. \A f \in Files : newSnap'[f] \in {0, version[f], newSnap[f]}
      BY <2>2 DEF Listing, TypeOK
    <3> QED
      BY <1>0, <2>1, <2>2, <3>1 DEF TypeOK, HonestInv, FreshRun, Bounded, Listed, KeptEntry, After
  <2>3. CASE newSnap' = OldEntries /\ incomplete' = TRUE
    <3>1. \A f \in Files : newSnap'[f] = IF f \in Sub /\ ~full THEN snap[f] ELSE newSnap[f]
      BY <2>3 DEF OldEntries
    <3> QED
      BY <1>0, <2>1, <2>3, <3>1 DEF TypeOK, HonestInv, FreshRun, Bounded, Listed, KeptEntry, After
  <2> QED
    BY <1>3, <2>2, <2>3 DEF ListSub
<1> QED
  BY <1>1, <1>2, <1>3

LEMMA HonestDiff == ASSUME TypeOK, HonestInv, Diff PROVE HonestInv'
<1>1. UNCHANGED <<present, version, local, snap, newSnap, jobs, full, incomplete, collected, processed>>
      /\ jobs = Nothing /\ pc = "diff" /\ pc' = "work"
      /\ todo' = (IF full THEN Known(newSnap) ELSE Changed)
  BY DEF Diff, TypeOK, remoteVars, diskVars
<1>2. \A f \in todo' : f \in Files /\ newSnap[f] # 0 /\ ~KeptEntry(f)
  BY <1>1 DEF Known, Changed, Seen, KeptEntry
<1>3. Pending'
  BY <1>1, <1>2 DEF HonestInv, Listed, Pending, After, Nothing
<1>4. NewHonest'
  <2> SUFFICES ASSUME ~full, NEW f \in Files, Renewed(f), f \notin Changed PROVE Current(newSnap, f)
    BY <1>1 DEF NewHonest, Current, Renewed
  <2>1. newSnap[f] = 0 \/ newSnap[f] = snap[f]
    BY <1>1 DEF Changed, Seen, HonestInv, Listed, KeptEntry
  <2> QED
    BY <2>1 DEF Current, HonestInv, OldHonest, TypeOK
<1> QED
  BY <1>1, <1>3, <1>4 DEF HonestInv, FreshRun, Bounded, Listed, OldHonest, Current, Renewed

LEMMA HonestWork ==
  ASSUME "write" \notin Env, TypeOK, HonestInv, NEW f \in Files, Processing(f) PROVE HonestInv'
<1> USE DEF remoteVars, diskVars
<1>0. pc = "work" /\ pc' \in {"work", "mark"} /\ UNCHANGED <<present, version, snap, full, incomplete>>
  BY DEF Processing, Collect, Dispatch, DropDetail, FullNoDetail, Write, ProcessLargest, Take,
         Worked, TypeOK, Nothing
<1>1. FreshRun' /\ Listed'
  BY <1>0 DEF FreshRun, Listed
<1>2. \A g \in Disc : ~Renewed(g)
  BY FilesAssumption, DiscAssumption DEF Renewed
<1>3. CASE Collect(f)
  <2>1. UNCHANGED <<local, newSnap, jobs>> /\ todo' = todo \ {f} /\ f \in Disc
    BY <1>3 DEF Collect, Take
  <2> QED
    BY <1>0, <1>1, <1>2, <2>1 DEF HonestInv, Bounded, Pending, OldHonest, NewHonest, Current, After,
                                  Renewed
<1>4. CASE Dispatch(f) \/ FullNoDetail(f)
  <2>1. UNCHANGED <<local, newSnap>> /\ f \in todo /\ todo' = todo \ {f} /\ pc' = "work"
    BY <1>0, <1>4 DEF Dispatch, FullNoDetail, Take
  <2>2. jobs' = jobs \/ \E v \in {version[f], newSnap[f]} : jobs' = [jobs EXCEPT ![f] = v]
    BY <1>4 DEF Dispatch, FullNoDetail
  <2>3. Bounded' /\ Pending'
    BY <1>0, <2>1, <2>2 DEF TypeOK, HonestInv, Bounded, Pending, After
  <2>4. OldHonest'
    BY <1>0, <2>1 DEF HonestInv, OldHonest, Current, Renewed
  <2>5. ~full /\ Renewed(f) /\ jobs'[f] = 0 => Current(newSnap, f)
    <3> SUFFICES ASSUME ~full, Renewed(f), jobs'[f] = 0 PROVE Current(newSnap, f)
      OBVIOUS
    <3>1. Dispatch(f)
      BY <1>4 DEF FullNoDetail
    <3>2. CASE f \in Detail
      <4>1. ~Wanted(f, version[f])
        BY <3>1, <3>2 DEF Dispatch, TypeOK
      <4> QED
        BY <4>1 DEF Wanted, Renewed, Current, TypeOK
    <3>3. CASE f \notin Detail
      <4>1. f \notin Loads /\ ~Wanted(f, newSnap[f])
        BY <3>1, <3>3, <2>1, FilesAssumption DEF Dispatch, TypeOK, HonestInv, Pending
      <4> QED
        BY <4>1 DEF Wanted, Renewed, Current, TypeOK
    <3> QED
      BY <3>2, <3>3
  <2>6. \A g \in Files \ {f} : jobs'[g] = jobs[g]
    BY <2>2 DEF TypeOK
  <2>7. NewHonest'
    BY <1>0, <2>1, <2>5, <2>6 DEF HonestInv, NewHonest, Current, Renewed
  <2> QED
    BY <1>1, <2>3, <2>4, <2>7 DEF HonestInv
<1>5. CASE DropDetail(f)
  <2>1. UNCHANGED <<local, jobs>> /\ newSnap' = [newSnap EXCEPT ![f] = 0] /\ todo' = todo \ {f}
    BY <1>5 DEF DropDetail, Take
  <2> QED
    BY <1>0, <1>1, <2>1 DEF TypeOK, HonestInv, Bounded, Pending, OldHonest, NewHonest, Current, After,
                            Renewed
<1>6. CASE Write(f)
  <2>1. UNCHANGED <<newSnap, todo>> /\ jobs' = [jobs EXCEPT ![f] = 0] /\ jobs[f] # 0 /\ f \notin todo
    BY <1>6 DEF Write, HonestInv, Pending
  <2>2. \/ f \in Loads \ present /\ UNCHANGED local
        \/ \E v \in {jobs[f], version[f]} : local' = [local EXCEPT ![f] = v]
    BY <1>6 DEF Write, Fault
  <2>3. Bounded' /\ Pending'
    BY <1>0, <2>1, <2>2 DEF TypeOK, HonestInv, Bounded, Pending, After
  <2>4. OldHonest'
    BY <1>0, <2>1, <2>2 DEF TypeOK, HonestInv, Bounded, Pending, After, OldHonest, Current, Renewed
  <2>5. NewHonest'
    BY <1>0, <2>1, <2>2 DEF TypeOK, HonestInv, Bounded, Pending, After, NewHonest, Current, Renewed
  <2> QED
    BY <1>1, <2>3, <2>4, <2>5 DEF HonestInv
<1>7. CASE ProcessLargest(f)
  <2>1. UNCHANGED <<newSnap, todo, jobs>> /\ todo = {} /\ jobs = Nothing /\ f \in Disc
    BY <1>7 DEF ProcessLargest, Worked, TypeOK
  <2>2. UNCHANGED local \/ local' = [local EXCEPT ![f] = newSnap[f]]
    BY <1>7 DEF ProcessLargest
  <2> QED
    BY <1>0, <1>1, <1>2, <2>1, <2>2 DEF TypeOK, HonestInv, Bounded, Pending, OldHonest, NewHonest,
                                        Current, Renewed, Nothing
<1> QED
  BY <1>3, <1>4, <1>5, <1>6, <1>7 DEF Processing

LEMMA HonestSaved ==
  ASSUME TypeOK, HonestInv, pc = "mark", SaveSnapshot, UNCHANGED <<present, version, local>>
  PROVE  OldHonest' /\ \A f \in Files : snap'[f] <= version[f]
<1>1. CASE snap' = snap
  BY <1>1 DEF HonestInv, OldHonest, Bounded, Current, Renewed
<1>2. CASE ~full /\ snap' = newSnap
  <2>1. \A f \in Files : Renewed(f) => Current(newSnap, f)
    BY <1>2 DEF HonestInv, NewHonest, TypeOK, Nothing
  <2> QED
    BY <1>2, <2>1 DEF HonestInv, OldHonest, Bounded, Current, Renewed
<1> QED
  BY <1>1, <1>2 DEF SaveSnapshot

LEMMA HonestEnd ==
  ASSUME TypeOK, HonestInv,
         RootFails \/ Abandon \/ NoDisc \/ SaveAndEnd \/ SaveAndClean \/ EndClean \/ Crash
         \/ \E f \in Files : Remove(f)
  PROVE  HonestInv'
<1> USE DEF remoteVars, diskVars
<1>1. CASE RootFails \/ Abandon \/ EndClean \/ Crash
  <2>1. EndRun /\ UNCHANGED <<present, version, local, snap>>
    BY <1>1 DEF RootFails, Abandon, EndClean, Crash
  <2>2. OldHonest' /\ \A f \in Files : snap'[f] <= version[f]
    BY <2>1 DEF HonestInv, OldHonest, Bounded, Current, Renewed
  <2> QED
    BY <2>1, <2>2, HonestEndRun
<1>2. CASE NoDisc
  BY <1>2 DEF NoDisc, Worked, runVars, HonestInv, FreshRun, Bounded, Listed, Pending, OldHonest,
              NewHonest, Current, Renewed, After
<1>3. CASE SaveAndEnd
  BY <1>3, HonestSaved, HonestEndRun DEF SaveAndEnd
<1>4. CASE SaveAndClean
  <2>1. UNCHANGED <<present, version, local, newSnap, todo, jobs, full, incomplete>> /\ SaveSnapshot
        /\ pc = "mark" /\ pc' = "clean" /\ todo = {} /\ jobs = Nothing
    BY <1>4 DEF SaveAndClean, TypeOK
  <2>2. OldHonest' /\ \A f \in Files : snap'[f] <= version[f]
    BY <2>1, HonestSaved
  <2> QED
    BY <2>1, <2>2 DEF HonestInv, FreshRun, Bounded, Listed, Pending, NewHonest, Nothing, TypeOK
<1>5. ASSUME NEW f \in Files, Remove(f) PROVE HonestInv'
  <2>1. pc = "clean" /\ pc' = "clean" /\ todo = {} /\ jobs = Nothing
        /\ UNCHANGED <<present, version, snap, newSnap, todo, jobs, full, incomplete>>
        /\ (UNCHANGED local \/ local' = [local EXCEPT ![f] = 0])
    BY <1>5 DEF Remove, TypeOK
  <2> QED
    BY <2>1 DEF TypeOK, HonestInv, FreshRun, Bounded, Listed, Pending, OldHonest, NewHonest, Current,
                Renewed, Nothing
<1> QED
  BY <1>1, <1>2, <1>3, <1>4, <1>5

LEMMA HonestEnvironment ==
  ASSUME "restore" \notin Env, TypeOK, HonestInv, NEW f \in Files,
         Disappear(f) \/ Upload(f) \/ Restore(f) \/ DeleteLocal(f)
  PROVE  HonestInv'
<1> USE DEF remoteVars, diskVars, runVars
<1>1. UNCHANGED <<pc, full, incomplete, newSnap, snap, todo, jobs, collected, processed>>
  BY DEF Disappear, Upload, Restore, DeleteLocal
<1>2. CASE Disappear(f) \/ DeleteLocal(f)
  <2>1. UNCHANGED version /\ present' \subseteq present
        /\ (UNCHANGED local \/ local' = [local EXCEPT ![f] = 0])
    BY <1>2 DEF Disappear, DeleteLocal
  <2> QED
    BY <1>1, <2>1 DEF TypeOK, HonestInv, FreshRun, Bounded, Listed, Pending, OldHonest, NewHonest,
                      Current, Renewed, After, KeptEntry
<1>3. CASE Upload(f)
  <2>1. UNCHANGED local /\ version' = [version EXCEPT ![f] = @ + 1] /\ present' = present \cup {f}
    BY <1>3 DEF Upload
  <2>2. \A g \in Files : version'[g] >= version[g] /\ (g # f => version'[g] = version[g])
    BY <2>1 DEF TypeOK
  <2>3. version'[f] > version[f]
    BY <2>1 DEF TypeOK
  <2>4. Bounded' /\ FreshRun' /\ Listed' /\ Pending'
    BY <1>1, <2>1, <2>2 DEF TypeOK, HonestInv, FreshRun, Bounded, Listed, Pending, After, KeptEntry
  <2>5. OldHonest' /\ NewHonest'
    BY <1>1, <2>1, <2>2, <2>3 DEF TypeOK, HonestInv, Bounded, OldHonest, NewHonest, Current, Renewed
  <2> QED
    BY <2>4, <2>5 DEF HonestInv
<1> QED
  BY <1>2, <1>3 DEF Restore, Fault

LEMMA HonestNext ==
  ASSUME {"write", "restore"} \cap Env = {} PROVE TypeOK /\ HonestInv /\ [Next]_vars => HonestInv'
<1> SUFFICES ASSUME TypeOK, HonestInv, [Next]_vars PROVE HonestInv'
  OBVIOUS
<1>1. CASE UNCHANGED vars
  BY <1>1 DEF vars, remoteVars, diskVars, runVars, HonestInv, FreshRun, Bounded, Listed, Pending,
              OldHonest, NewHonest, Current, Renewed, After, KeptEntry
<1>2. CASE \E f \in Files : Processing(f)
  BY <1>2, HonestWork
<1>3. CASE Environment
  BY <1>3, HonestEnvironment, HonestEnd DEF Environment
<1> QED
  BY <1>1, <1>2, <1>3, HonestListing, HonestDiff, HonestEnd DEF Next, Run

(* If writing does not fail and no removed file comes back as it was, the   *)
(* snapshot never calls a stale output unchanged: failing listings, FSGets, *)
(* saves and crashes cannot make a later run skip a change.                 *)
THEOREM SnapshotIsHonest ==
  ASSUME {"write", "restore"} \cap Env = {} PROVE Spec => []SnapshotHonest
<1>1. Init => TypeOK /\ HonestInv
  BY TypeInit, HonestInit
<1>2. TypeOK /\ HonestInv /\ [Next]_vars => (TypeOK /\ HonestInv)'
  BY TypeNext, HonestNext
<1>3. TypeOK /\ HonestInv => SnapshotHonest
  BY DEF TypeOK, HonestInv, OldHonest, SnapshotHonest, Current
<1> QED
  BY <1>1, <1>2, <1>3, PTL DEF Spec
=============================================================================
