------------------------------ MODULE MCShell ------------------------------
(* One- and two-letter command words, one a prefix of another, and lines    *)
(* long enough for every command with an argument.                          *)
EXTENDS Shell, TLC

MCNormal == <<"0", "7">>
MCHelp == {<<"h", "a">>}
MCColor == <<"a">>
MCHash == <<"h">>
MCAlgorithms == {<<"a">>}
MCPr == <<"p">>
MCKeyword == <<"x">> :> {<<"p">>, <<"h">>}
=============================================================================
