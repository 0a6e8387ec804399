------------------------------ MODULE Sha256 ------------------------------
(***************************************************************************)
(* sha256 (Include/hash/sha2.h), called by the shell's hash command and    *)
(* modelled round by round, against the definition of FIPS 180-4.  Its     *)
(* state is global and outlives the call: nothing of one text may reach    *)
(* the digest of the next.                                                 *)
(*                                                                         *)
(* A word is the set of its one bits, so that the logic of words is that   *)
(* of sets; words are added modulo 2^32, in halves of 16 bits.             *)
(***************************************************************************)
EXTENDS Integers, Sequences

CONSTANT Texts                \* what the command hashes: sequences of bytes

ASSUME TextsAssumption == Texts \subseteq Seq(1 .. 255)

-----------------------------------------------------------------------------
Bits == 0 .. 31
Not(x) == Bits \ x
Xor(x, y) == (x \cup y) \ (x \cap y)
ShiftR(x, n) == {b - n : b \in x} \cap Bits
ShiftL(x, n) == {b + n : b \in x} \cap Bits

Bit(x, b) == IF b \in x THEN 1 ELSE 0
Nibble(x, b) ==
  Bit(x, b) + 2 * Bit(x, b + 1) + 4 * Bit(x, b + 2) + 8 * Bit(x, b + 3)
Half(x, b) ==
  Nibble(x, b) + 16 * Nibble(x, b + 4)
    + 256 * Nibble(x, b + 8) + 4096 * Nibble(x, b + 12)
Low(x) == Half(x, 0)
High(x) == Half(x, 16)
Word(high, low) ==
  {b \in 0 .. 15 : (low \div 2 ^ b) % 2 = 1}
    \cup {b \in 16 .. 31 : (high \div 2 ^ (b - 16)) % 2 = 1}
Plus(x, y) ==
  LET low == Low(x) + Low(y)
      high == High(x) + High(y) + low \div 65536
  IN  Word(high % 65536, low % 65536)

Halves(table) == [i \in DOMAIN table |-> Word(table[i][1], table[i][2])]
H == Halves(<<
<<\h6a09, \he667>>, <<\hbb67, \hae85>>, <<\h3c6e, \hf372>>, <<\ha54f, \hf53a>>,
<<\h510e, \h527f>>, <<\h9b05, \h688c>>, <<\h1f83, \hd9ab>>, <<\h5be0, \hcd19>>
>>)
K == Halves(<<
<<\h428a, \h2f98>>, <<\h7137, \h4491>>, <<\hb5c0, \hfbcf>>, <<\he9b5, \hdba5>>,
<<\h3956, \hc25b>>, <<\h59f1, \h11f1>>, <<\h923f, \h82a4>>, <<\hab1c, \h5ed5>>,
<<\hd807, \haa98>>, <<\h1283, \h5b01>>, <<\h2431, \h85be>>, <<\h550c, \h7dc3>>,
<<\h72be, \h5d74>>, <<\h80de, \hb1fe>>, <<\h9bdc, \h06a7>>, <<\hc19b, \hf174>>,
<<\he49b, \h69c1>>, <<\hefbe, \h4786>>, <<\h0fc1, \h9dc6>>, <<\h240c, \ha1cc>>,
<<\h2de9, \h2c6f>>, <<\h4a74, \h84aa>>, <<\h5cb0, \ha9dc>>, <<\h76f9, \h88da>>,
<<\h983e, \h5152>>, <<\ha831, \hc66d>>, <<\hb003, \h27c8>>, <<\hbf59, \h7fc7>>,
<<\hc6e0, \h0bf3>>, <<\hd5a7, \h9147>>, <<\h06ca, \h6351>>, <<\h1429, \h2967>>,
<<\h27b7, \h0a85>>, <<\h2e1b, \h2138>>, <<\h4d2c, \h6dfc>>, <<\h5338, \h0d13>>,
<<\h650a, \h7354>>, <<\h766a, \h0abb>>, <<\h81c2, \hc92e>>, <<\h9272, \h2c85>>,
<<\ha2bf, \he8a1>>, <<\ha81a, \h664b>>, <<\hc24b, \h8b70>>, <<\hc76c, \h51a3>>,
<<\hd192, \he819>>, <<\hd699, \h0624>>, <<\hf40e, \h3585>>, <<\h106a, \ha070>>,
<<\h19a4, \hc116>>, <<\h1e37, \h6c08>>, <<\h2748, \h774c>>, <<\h34b0, \hbcb5>>,
<<\h391c, \h0cb3>>, <<\h4ed8, \haa4a>>, <<\h5b9c, \hca4f>>, <<\h682e, \h6ff3>>,
<<\h748f, \h82ee>>, <<\h78a5, \h636f>>, <<\h84c8, \h7814>>, <<\h8cc7, \h0208>>,
<<\h90be, \hfffa>>, <<\ha450, \h6ceb>>, <<\hbef9, \ha3f7>>, <<\hc671, \h78f2>>
>>)

-----------------------------------------------------------------------------
VARIABLES
  s,             \* the text of the call
  pc, i,         \* where the call is, and the round
  v,             \* a, b, c, d, e, f, g, h
  raw_data, W,
  hash8,         \* the last call's digits
  printed        \* what the last call printed

globals == <<v, raw_data, W, hash8>>
vars == <<s, pc, i, globals, printed>>

Init ==
  /\ s = << >> /\ pc = "idle" /\ i = 0
  /\ v = [n \in 1 .. 8 |-> {}]
  /\ raw_data = [n \in 0 .. 63 |-> 0]
  /\ W = [n \in 0 .. 63 |-> {}]
  /\ hash8 = [n \in 0 .. 63 |-> 0]
  /\ printed = << >>

(* Mutant: the block keeps what the last call left in it.                  *)
Cleared_KeepsBlock == raw_data

Cleared == [n \in 0 .. 63 |-> 0]

(* What the padding stores into a block: the text, a one bit and the       *)
(* length in bits, of which only the last two bytes can be other than 0.   *)
Padded(text, block) ==
  LET len == Len(text)
  IN  [n \in 0 .. 63 |->
         CASE n < len -> text[n + 1]
           [] n = len -> 128
           [] n \in 56 .. 61 -> 0
           [] n = 62 -> (len * 8) \div 256
           [] n = 63 -> (len * 8) % 256
           [] OTHER -> block[n]]

(* The call up to the rounds, which a text that does not fit a block skips.*)
Call(text) ==
  /\ pc = "idle"
  /\ s' = text /\ i' = 0
  /\ v' = H
  /\ W' = [n \in 0 .. 63 |-> {}]
  /\ hash8' = [n \in 0 .. 63 |-> 0]
  /\ IF Len(text) <= 55
       THEN pc' = "round" /\ raw_data' = Padded(text, Cleared)
       ELSE pc' = "finish" /\ raw_data' = Cleared
  /\ UNCHANGED printed

rotr(x, n) == ShiftR(x, n) \cup ShiftL(x, 32 - n)

sha256_IE(w, n) ==
  LET x == w[n - 2]
      y == w[n - 15]
      s1 == Xor(Xor(rotr(x, 17), rotr(x, 19)), ShiftR(x, 10))
      s0 == Xor(Xor(rotr(y, 7), rotr(y, 18)), ShiftR(y, 3))
  IN  Plus(Plus(Plus(s1, w[n - 7]), s0), w[n - 16])

sha256_ROC(w, n) ==
  LET a == v[1]  b == v[2]  c == v[3]  d == v[4]
      e == v[5]  f == v[6]  g == v[7]  h == v[8]
      S1 == Xor(Xor(rotr(e, 6), rotr(e, 11)), rotr(e, 25))
      ch == Xor(e \cap f, Not(e) \cap g)
      temp1 == Plus(Plus(Plus(Plus(h, S1), ch), K[n + 1]), w)
      S2 == Xor(Xor(rotr(a, 2), rotr(a, 13)), rotr(a, 22))
      maj == Xor(Xor(a \cap b, a \cap c), b \cap c)
  IN  v' = <<Plus(temp1, Plus(S2, maj)), a, b, c, Plus(d, temp1), e, f, g>>

BigEndian(n) ==
  Word(raw_data[4 * n] * 256 + raw_data[4 * n + 1],
       raw_data[4 * n + 2] * 256 + raw_data[4 * n + 3])

Round ==
  /\ pc = "round"
  /\ LET w == IF i < 16 THEN BigEndian(i) ELSE sha256_IE(W, i)
     IN  W' = [W EXCEPT ![i] = w] /\ sha256_ROC(w, i)
  /\ i' = i + 1
  /\ pc' = IF i' = 64 THEN "finish" ELSE "round"
  /\ UNCHANGED <<s, raw_data, hash8, printed>>

hex_to_char(hex) == IF hex <= 9 THEN hex + 48 ELSE hex + 87

(* The digits of the eight words, most significant first: a byte at a time,*)
(* each byte its two digits.                                               *)
Digits(words) ==
  [n \in 0 .. 63 |->
     LET word == words[n \div 8 + 1]
         byte == ShiftR(word, 24 - 8 * ((n \div 2) % 4)) \cap 0 .. 7
         digit == IF n % 2 = 0 THEN ShiftR(byte, 4) ELSE byte \cap 0 .. 3
     IN  hex_to_char(Nibble(digit, 0))]

Finish ==
  /\ pc = "finish"
  /\ v' = [n \in 1 .. 8 |-> Plus(v[n], H[n])]
  /\ hash8' = Digits(v')
  /\ printed' = [n \in 1 .. 64 |-> hash8'[n - 1]]
  /\ pc' = "idle"
  /\ UNCHANGED <<s, i, raw_data, W>>

Next == Round \/ Finish \/ \E text \in Texts : Call(text)

Spec == Init /\ [][Next]_vars

-----------------------------------------------------------------------------
(* FIPS 180-4, for a message of any length.                                *)
ROTR(n, x) == {(b + 32 - n) % 32 : b \in x}
Sigma(x, p, q, r) == Xor(Xor(ROTR(p, x), ROTR(q, x)), ROTR(r, x))
sigma(x, p, q, r) == Xor(Xor(ROTR(p, x), ROTR(q, x)), ShiftR(x, r))

Zeros(n) == [j \in 1 .. n |-> 0]
Message(text) ==
  LET bits == 8 * Len(text)
      zeros == (119 - (Len(text) % 64)) % 64
  IN  text \o <<128>> \o Zeros(zeros) \o Zeros(6)
        \o <<(bits \div 256) % 256, bits % 256>>

FirstWords(block) ==
  [t \in 1 .. 16 |-> Word(block[4 * t - 3] * 256 + block[4 * t - 2],
                          block[4 * t - 1] * 256 + block[4 * t])]
NextWord(ws, t) ==
  Plus(Plus(Plus(sigma(ws[t - 2], 17, 19, 10), ws[t - 7]),
            sigma(ws[t - 15], 7, 18, 3)), ws[t - 16])
Schedules(block) ==
  LET ws[t \in 16 .. 64] == IF t = 16 THEN FirstWords(block)
                            ELSE LET w == ws[t - 1]
                                 IN  Append(w, NextWord(w, t))
  IN  ws
Schedule(block) == Schedules(block)[64]

NextWorking(r, constant, word) ==
  LET Ch == (r[5] \cap r[6]) \cup (r[7] \ r[5])
      T1 == Plus(Plus(Plus(Plus(r[8], Sigma(r[5], 6, 11, 25)), Ch), constant),
                 word)
      Maj == (r[1] \cap r[2]) \cup (r[1] \cap r[3]) \cup (r[2] \cap r[3])
      T2 == Plus(Sigma(r[1], 2, 13, 22), Maj)
  IN  [r EXCEPT ![1] = Plus(T1, T2), ![2] = r[1], ![3] = r[2], ![4] = r[3],
                ![5] = Plus(r[4], T1), ![6] = r[5], ![7] = r[6], ![8] = r[7]]
Workings(hash, words) ==
  LET r[t \in 0 .. 64] == IF t = 0 THEN hash
                          ELSE NextWorking(r[t - 1], K[t], words[t])
  IN  r
Compress(hash, block) ==
  LET last == Workings(hash, Schedule(block))[64]
  IN  [n \in 1 .. 8 |-> Plus(hash[n], last[n])]

Hashes(m) ==
  LET hash[n \in 0 .. Len(m) \div 64] ==
        IF n = 0 THEN H
        ELSE Compress(hash[n - 1], SubSeq(m, 64 * n - 63, 64 * n))
  IN  hash
SHA256(text) ==
  LET m == Message(text) IN Hashes(m)[Len(m) \div 64]

HexDigits == <<48, 49, 50, 51, 52, 53, 54, 55, 56, 57,
               97, 98, 99, 100, 101, 102>>
Hex(words) ==
  [n \in 1 .. 64 |-> HexDigits[1 + Nibble(words[(n - 1) \div 8 + 1],
                                          28 - 4 * ((n - 1) % 8))]]

Printed == pc = "idle" /\ printed # << >>

(* A call prints the digest of its text when the text leaves room in one   *)
(* block for the padding, and else, whatever the text, twice the initial   *)
(* hash value; what was hashed before it makes no difference.              *)
DigestCorrect ==
  Printed =>
    printed = Hex(IF Len(s) <= 55 THEN SHA256(s)
                  ELSE [n \in 1 .. 8 |-> Plus(H[n], H[n])])
=============================================================================
