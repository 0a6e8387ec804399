------------------------- MODULE MCHashAndDigits -------------------------
(***************************************************************************)
(* One thread that prints digests and numbers in any order, one call at a  *)
(* time: texts on both sides of what fits a block, and numbers of one to   *)
(* ten digits at the ends of their ranges, up to the largest that TLC can  *)
(* hold.                                                                   *)
(***************************************************************************)
EXTENDS Sha256, NumString

abc == <<97, 98, 99>>
Repeat(byte, n) == [j \in 1 .. n |-> byte]

(* "abcdbcdecdef ... nopq", the 56 bytes of the two-block example.         *)
Alphabet == [j \in 1 .. 56 |-> 97 + (j - 1) \div 4 + ((j - 1) % 4)]

MCTexts == {<< >>, abc, Repeat(255, 55), Alphabet}
MCNumbers ==
  {0, 7, 9, 10, 31, 99, 100, 255, 65535, 999999, 999999999, 1000000000,
   2147483647}

CallsInit == Init /\ DecInit

CallsNext ==
  \/ doing = "idle" /\ Next /\ UNCHANGED decVars
  \/ pc = "idle" /\ DecNext /\ UNCHANGED vars

CallsSpec == CallsInit /\ [][CallsNext]_<<vars, decVars>>

(* The published digests of the two examples.                              *)
ASSUME KnownAbc ==
  SHA256(abc) = Halves(<<
    <<\hba78, \h16bf>>, <<\h8f01, \hcfea>>,
    <<\h4141, \h40de>>, <<\h5dae, \h2223>>,
    <<\hb003, \h61a3>>, <<\h9617, \h7a9c>>,
    <<\hb410, \hff61>>, <<\hf200, \h15ad>>>>)

ASSUME KnownAlphabet ==
  SHA256(Alphabet) = Halves(<<
    <<\h248d, \h6a61>>, <<\hd206, \h38b8>>,
    <<\he5c0, \h2693>>, <<\h0c3e, \h6039>>,
    <<\ha33c, \he459>>, <<\h64ff, \h2167>>,
    <<\hf6ec, \hedd4>>, <<\h19db, \h06c1>>>>)

(* A longer text has a digest, and it is not what the code prints for it.  *)
ASSUME AlphabetDiffers == SHA256(Alphabet) # [n \in 1 .. 8 |-> Plus(H[n], H[n])]
=============================================================================
