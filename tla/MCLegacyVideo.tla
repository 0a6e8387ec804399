--------------------------- MODULE MCLegacyVideo ---------------------------
(* Two rows of text of three columns: lines that fill a row, reach the end *)
(* of the text, scroll, and scroll away.                                   *)
EXTENDS LegacyVideo

MCCharacters == {97, 98}
MCColors == {2, 7}
MCTimes == {1, 2}
=============================================================================
