---------------------------- MODULE MCModuleRun ----------------------------
(* Instances of ModuleRun for TLC.                                         *)
EXTENDS ModuleRun, TLC
CONSTANTS m1, r1, r2, q1, q2, v1

OneModule   == {m1}
TwoSlots    == {r1, r2}
OneRequest  == {q1}
TwoRequests == {q1, q2}
OneVersion  == {v1}
Sym         == Permutations(TwoSlots) \cup Permutations(TwoRequests)
=============================================================================
