----------------------------- MODULE MCFileMove -----------------------------
(* Instances of FileMove for TLC.                                          *)
EXTENDS FileMove
CONSTANTS prefixed, plain, nested, namesake, root, sub, deep

AllFiles == {prefixed, plain, nested, namesake}
AllDirs  == {root, sub, deep}
Tree     == [d \in AllDirs |-> CASE d = root -> AllDirs
                                 [] d = sub  -> {sub, deep}
                                 [] OTHER    -> {deep}]
Places   == [f \in AllFiles |-> IF f = nested THEN deep ELSE sub]
(* The prefixed file is renamed to the plain one's name; the nested file    *)
(* and its namesake go to the same place (flatten).                         *)
Paths    == [f \in AllFiles |-> IF f = prefixed THEN plain ELSE f]
Targets  == [f \in AllFiles |-> CASE f = prefixed -> plain
                                  [] f = namesake -> nested
                                  [] OTHER        -> f]
Sizes    == [f \in AllFiles |-> CASE f = plain -> 1 [] f = nested -> 2 [] OTHER -> 3]
Prefixed == {prefixed}
Large    == AllFiles \ {plain}
=============================================================================
