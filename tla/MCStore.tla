------------------------------- MODULE MCStore -------------------------------
(* Instances of Store for TLC.                                              *)
EXTENDS Store, TLC
CONSTANTS p1, p2, strm, sync, alissync

MCProcs   == {p1, p2}
MCTypes   == {strm, sync}
MCBackups == {[settings |-> 1, configs |-> [t \in MCTypes |-> 1]],
              [settings |-> 0, configs |-> [t \in MCTypes |-> 0]]}
Symmetry  == Permutations(MCProcs)
=============================================================================
