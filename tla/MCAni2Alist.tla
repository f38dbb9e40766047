----------------------------- MODULE MCAni2Alist -----------------------------
(* Instances of Ani2Alist for TLC.                                          *)
EXTENDS Ani2Alist, SequencesExt
CONSTANTS season, feed

k == <<"2024-7">>
MCSeasons == {season}
MCFeeds   == {feed}
MCKey     == [c \in MCSeasons |-> k]
(* The season has a file in a directory; the feed's link lies in the        *)
(* season's directory.                                                      *)
MCItems   == (season :> {<<<<"d">>, <<"b">>>>}) @@ (feed :> {<<k, <<"t">>>>})
Text(lines) == FoldLeft(LAMBDA t, l : t \o Line(l[1], l[2]), <<>>, lines)
Hand   == Text(<< <<0, k>>, <<4, <<"mine", "">>>>, <<6, <<"x", "link">>>>, <<4, <<"y", "link">>>>,
                  <<0, <<"t">>>>, <<1, <<"u", "link">>>> >>)
Dedent == Text(<< <<0, k>>, <<4, <<"x", "link">>>>, <<2, <<"y", "link">>>> >>)
Double == Text(<< <<0, k>>, <<2, <<"x", "link">>>>, <<0, k>>, <<2, <<"y", "link">>>> >>)
(* Nothing; a user's indentation, nested directories, and one that has the  *)
(* name of the feed's file; a dedent to an indentation of its own; and a    *)
(* directory that is there twice.  Of the last two the parser loses x.      *)
MCTexts == {<<>>, Hand, Dedent, Double}
=============================================================================
