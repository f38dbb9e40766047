---------------------------- MODULE MCAlist2Strm ----------------------------
(* Instances of Alist2Strm for TLC.                                        *)
EXTENDS Alist2Strm
CONSTANTS video, subtitle, part1, part2

AllFiles  == {video, subtitle, part1, part2}
SubFiles  == {subtitle, part1}
Parts     == {part1, part2}
Sizes     == [f \in Parts |-> IF f = part1 THEN 1 ELSE 2]
Subtitles == {subtitle}
WithVideo == {subtitle, video}
None      == {}

AllButGet == EnvKinds \ {"get"}
Settling  == EnvKinds \ {"write", "restore"}
=============================================================================
