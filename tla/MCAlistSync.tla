---------------------------- MODULE MCAlistSync ----------------------------
(* Instances of AlistSync for TLC.                                         *)
EXTENDS AlistSync
CONSTANTS f1, f2

OneFile  == {f1}
TwoFiles == {f1, f2}
Exact    == {<<f, f>> : f \in Files}
Confused == Files \X Files
NoFiles  == {}
AllButSize == EnvKinds \ {"size"}
Calm     == {"ambiguous", "copyfail", "remove"}
OnlyCopyFail == {"copyfail"}
=============================================================================
