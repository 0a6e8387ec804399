--------------------------- MODULE MCInterrupts ---------------------------
(* Every exception and service, every scan code, and divisions of a dword  *)
(* with up to two prefixes (operand size, cs, fs) and every addressing     *)
(* form, with sib bytes of every base, without and with an index.          *)
EXTENDS Interrupts

MCVectors == (0 .. 31) \cup {33, 64, 65, 66}
MCScanCodes == 0 .. 255

Prefixes == {102, 46, 100}
PrefixLists == {<< >>} \cup {<<p>> : p \in Prefixes} \cup (Prefixes \X Prefixes)
ModRMs == {64 * mod + 8 * 6 + rm : mod \in 0 .. 3, rm \in 0 .. 7}
Sibs == {8 * index + base : index \in {0, 4}, base \in 0 .. 7}
MCDivisions ==
  {d \in [prefix : PrefixLists, modrm : ModRMs, sib : Sibs] :
     HasSib(d) \/ d.sib = 0}
=============================================================================
