------------------------------ MODULE MCConsole ------------------------------
(* A 2x3 text page: strings of up to MaxLen = 4 characters, from every      *)
(* cursor position, so that a call scrolls zero, one, two or three rows.   *)
EXTENDS ConsoleImpl

MCStrings == {<< >>, <<"a">>, <<"b", "_", "b">>, <<"a", "b", "b", "a">>}
=============================================================================
