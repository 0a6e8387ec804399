---------------------------- MODULE MCLegacyTasks ----------------------------
(* The tables at their real addresses, filled up to the last entry of the  *)
(* LDT.  No two tasks have the same base; the first three creations have a *)
(* choice of two sizes.                                                    *)
EXTENDS LegacyTasks

MCPrograms == [n \in 1 .. MaxTasks |->
  {[base |-> 4096 * n, code |-> c, data |-> WORD] :
     c \in IF n <= 3 THEN {n, WORD} ELSE {n}}]
=============================================================================
