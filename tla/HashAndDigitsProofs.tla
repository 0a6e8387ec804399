------------------------ MODULE HashAndDigitsProofs ------------------------
(***************************************************************************)
(* sha256 and dec_digit, for every value of the constants:                 *)
(*                                                                         *)
(*   - sha256 computes SHA-256 of every text that fits a block, and gives  *)
(*     all others the same digest.  The inductive invariant says that      *)
(*     before each round words and variables are those of the standard,    *)
(*     whose recursive definitions are first shown to have solutions;      *)
(*   - dec_digit leaves the decimal notation of every number of at most    *)
(*     ten digits.                                                         *)
(*                                                                         *)
(* The two share no state; each theorem is about one of them.              *)
(***************************************************************************)
EXTENDS Sha256, NumString, SequenceTheorems, WellFoundedInduction, TLAPS

(* sha256.                                                                 *)

Words == SUBSET Bits
Working == [1 .. 8 -> Words]

(* Induction, over the least number that is not in a set.                  *)
LEMMA LeastExists ==
  ASSUME NEW S \in SUBSET Nat, S # {}
  PROVE  \E n \in S : \A m \in S : n <= m
<1>1. \E n \in S : \A m \in S : ~(<<m, n>> \in OpToRel(<, Nat))
  BY WFMin, NatLessThanWellFounded, Zenon
<1>2. \A n, m \in Nat : m < n => <<m, n>> \in OpToRel(<, Nat)
  BY Zenon DEF OpToRel
<1>3. \E n \in S : \A m \in S : ~(m < n)
  BY <1>1, <1>2, Zenon
<1> QED BY <1>3

LEMMA AllReached ==
  ASSUME NEW S, NEW first \in Nat, NEW last \in Nat,
         first \in S, \A n \in first .. last - 1 : n \in S => n + 1 \in S
  PROVE  first .. last \subseteq S
<1> DEFINE T == {n \in first .. last : n \notin S}
<1>1. SUFFICES ASSUME T # {} PROVE FALSE
  OBVIOUS
<1>2. PICK n \in T : \A m \in T : n <= m
  <2>1. T \in SUBSET Nat
    OBVIOUS
  <2> HIDE DEF T
  <2> QED BY <1>1, <2>1, LeastExists
<1>3. n # first /\ n \in first .. last /\ n \notin S
  BY <1>2
<1>4. n - 1 \in first .. last - 1 /\ n - 1 < n /\ (n - 1) + 1 = n
  BY <1>3
<1>5. n - 1 \in S
  BY <1>2, <1>4
<1> QED BY <1>3, <1>4, <1>5

(* A recursion over the naturals has a solution, with values of one type.  *)
IsRecursion(f, base, step, first, last) ==
  f = [n \in first .. last |->
         IF n = first THEN base ELSE step[<<f[n - 1], n>>]]

LEMMA RecursionExists ==
  ASSUME NEW D, NEW base \in D, NEW first \in Nat, NEW last \in Nat,
         NEW step \in [D \X (first .. last) -> D], first <= last
  PROVE  \E f \in [first .. last -> D] : IsRecursion(f, base, step, first, last)
<1> DEFINE S == {n \in first .. last :
                   \E f \in [first .. n -> D] :
                     IsRecursion(f, base, step, first, n)}
<1>1. first \in S
  <2> DEFINE f == [n \in first .. first |-> base]
  <2>1. f \in [first .. first -> D]
    OBVIOUS
  <2>2. IsRecursion(f, base, step, first, first)
    BY DEF IsRecursion
  <2> QED BY <2>1, <2>2
<1>2. ASSUME NEW n \in first .. last - 1, n \in S
      PROVE  n + 1 \in S
  <2>1. PICK f \in [first .. n -> D] : IsRecursion(f, base, step, first, n)
    BY <1>2
  <2>2. n \in Nat /\ n + 1 \in first .. last /\ n \in first .. n
    OBVIOUS
  <2> DEFINE next == step[<<f[n], n + 1>>]
             g == [m \in first .. n + 1 |-> IF m = n + 1 THEN next ELSE f[m]]
  <2>3. next \in D
    BY <2>2
  <2> HIDE DEF next
  <2>4. g \in [first .. n + 1 -> D]
    BY <2>2, <2>3
  <2>5. ASSUME NEW m \in first .. n + 1
        PROVE  g[m] = IF m = first THEN base ELSE step[<<g[m - 1], m>>]
    <3>1. CASE m = n + 1
      <4>1. g[m] = next /\ m # first /\ m - 1 = n /\ g[m - 1] = f[n]
        BY <2>2, <3>1
      <4> QED BY <3>1, <4>1 DEF next
    <3>2. CASE m # n + 1
      <4>1. m \in first .. n /\ g[m] = f[m]
        BY <2>2, <3>2
      <4>2. f[m] = IF m = first THEN base ELSE step[<<f[m - 1], m>>]
        BY <2>1, <4>1 DEF IsRecursion
      <4>3. m # first => m - 1 \in first .. n /\ m - 1 # n + 1
                         /\ m - 1 \in first .. n + 1
        BY <2>2, <4>1
      <4>4. m # first => g[m - 1] = f[m - 1]
        BY <4>3
      <4> QED BY <4>1, <4>2, <4>4
    <3> QED BY <3>1, <3>2
  <2>6. IsRecursion(g, base, step, first, n + 1)
    BY <2>5 DEF IsRecursion
  <2> HIDE DEF g
  <2> QED BY <2>2, <2>4, <2>6
<1>3. last \in S
  <2> HIDE DEF S
  <2>1. first .. last \subseteq S
    BY <1>1, <1>2, AllReached
  <2> QED BY <2>1
<1> QED BY <1>3

(* The logic of words.                                                     *)
LEMMA WordBits ==
  ASSUME NEW x, NEW y
  PROVE  /\ Word(x, y) \in Words /\ Plus(x, y) \in Words
BY DEF Word, Plus, Words, Bits

LEMMA Rotation ==
  ASSUME NEW x \in Words, NEW n \in 1 .. 31
  PROVE  rotr(x, n) = ROTR(n, x)
<1>1. ASSUME NEW b \in x, b >= n
      PROVE  /\ (b + 32 - n) % 32 = b - n /\ b - n \in Bits
             /\ b + (32 - n) \notin Bits
  BY <1>1 DEF Words, Bits
<1>2. ASSUME NEW b \in x, ~(b >= n)
      PROVE  /\ (b + 32 - n) % 32 = b + (32 - n) /\ b + (32 - n) \in Bits
             /\ b - n \notin Bits
  BY <1>2 DEF Words, Bits
<1>3. ASSUME NEW c \in rotr(x, n) PROVE c \in ROTR(n, x)
  BY <1>1, <1>2 DEF rotr, ROTR, ShiftR, ShiftL
<1>4. ASSUME NEW c \in ROTR(n, x) PROVE c \in rotr(x, n)
  BY <1>1, <1>2 DEF rotr, ROTR, ShiftR, ShiftL
<1> QED BY <1>3, <1>4

LEMMA Rotations ==
  ASSUME NEW x \in Words
  PROVE  /\ Xor(Xor(rotr(x, 17), rotr(x, 19)), ShiftR(x, 10))
              = sigma(x, 17, 19, 10)
         /\ Xor(Xor(rotr(x, 7), rotr(x, 18)), ShiftR(x, 3))
              = sigma(x, 7, 18, 3)
         /\ Xor(Xor(rotr(x, 6), rotr(x, 11)), rotr(x, 25))
              = Sigma(x, 6, 11, 25)
         /\ Xor(Xor(rotr(x, 2), rotr(x, 13)), rotr(x, 22))
              = Sigma(x, 2, 13, 22)
BY Rotation DEF sigma, Sigma

LEMMA Choice ==
  ASSUME NEW e, NEW f, NEW g \in Words
  PROVE  Xor(e \cap f, Not(e) \cap g) = (e \cap f) \cup (g \ e)
BY DEF Xor, Not, Words

(* The digits.                                                             *)
LEMMA DigitGlyph ==
  ASSUME NEW h \in 0 .. 15
  PROVE  hex_to_char(h) = HexDigits[1 + h]
BY DEF hex_to_char, HexDigits

LEMMA NibbleRange ==
  ASSUME NEW x, NEW b
  PROVE  Nibble(x, b) \in 0 .. 15
<1>1. \A k : Bit(x, k) \in {0, 1}
  BY DEF Bit
<1>2. /\ Bit(x, b) \in {0, 1} /\ Bit(x, b + 1) \in {0, 1}
      /\ Bit(x, b + 2) \in {0, 1} /\ Bit(x, b + 3) \in {0, 1}
  BY <1>1
<1> QED BY <1>2 DEF Nibble

LEMMA NibbleMoved ==
  ASSUME NEW x, NEW y, NEW b \in Nat,
         \A k \in 0 .. 3 : k \in x <=> k + b \in y
  PROVE  Nibble(x, 0) = Nibble(y, b)
<1>1. \A k \in 0 .. 3 : Bit(x, k) = Bit(y, k + b)
  BY DEF Bit
<1>2. /\ Bit(x, 0) = Bit(y, b) /\ Bit(x, 1) = Bit(y, b + 1)
      /\ Bit(x, 2) = Bit(y, b + 2) /\ Bit(x, 3) = Bit(y, b + 3)
  <2>1. 0 + b = b /\ 1 + b = b + 1 /\ 2 + b = b + 2 /\ 3 + b = b + 3
    OBVIOUS
  <2>2. 0 \in 0 .. 3 /\ 1 \in 0 .. 3 /\ 2 \in 0 .. 3 /\ 3 \in 0 .. 3
    OBVIOUS
  <2>3. /\ Bit(x, 0) = Bit(y, 0 + b) /\ Bit(x, 1) = Bit(y, 1 + b)
        /\ Bit(x, 2) = Bit(y, 2 + b) /\ Bit(x, 3) = Bit(y, 3 + b)
    BY <1>1, <2>2, Zenon
  <2> QED BY <2>1, <2>3, Zenon
<1>3. 0 + 1 = 1 /\ 0 + 2 = 2 /\ 0 + 3 = 3
  OBVIOUS
<1> QED BY <1>2, <1>3, Zenon DEF Nibble

LEMMA DigitOfByte ==
  ASSUME NEW word \in Words, NEW p \in 0 .. 3
  PROVE  LET byte == ShiftR(word, 24 - 8 * p) \cap 0 .. 7
         IN  /\ Nibble(ShiftR(byte, 4), 0) = Nibble(word, 28 - 8 * p)
             /\ Nibble(byte \cap 0 .. 3, 0) = Nibble(word, 24 - 8 * p)
<1> DEFINE byte == ShiftR(word, 24 - 8 * p) \cap 0 .. 7
           low == 24 - 8 * p
<1>1. low \in Nat /\ low <= 24 /\ 28 - 8 * p = low + 4
  OBVIOUS
<1> HIDE DEF low
<1>2. byte = {b - low : b \in word} \cap Bits \cap 0 .. 7
  BY DEF low, ShiftR
<1> HIDE DEF byte
<1>3. \A k : k \in byte <=> k \in 0 .. 7 /\ k + low \in word
  <2>1. ASSUME NEW k \in byte PROVE k \in 0 .. 7 /\ k + low \in word
    <3>1. PICK b \in word : k = b - low
      BY <1>2
    <3> QED BY <1>1, <1>2, <3>1 DEF Words, Bits
  <2>2. ASSUME NEW k \in 0 .. 7, k + low \in word PROVE k \in byte
    <3>1. k = (k + low) - low /\ k \in Bits
      BY <1>1 DEF Bits
    <3> QED BY <1>2, <2>2, <3>1
  <2> QED BY <2>1, <2>2
<1>4. \A k \in 0 .. 3 : k \in ShiftR(byte, 4) <=> k + (low + 4) \in word
  <2>1. ASSUME NEW k \in 0 .. 3, k \in ShiftR(byte, 4)
        PROVE  k + (low + 4) \in word
    <3>1. PICK b \in byte : k = b - 4
      BY <2>1 DEF ShiftR
    <3>2. b \in 0 .. 7 /\ b + low \in word
      BY <1>3, <3>1
    <3>3. b + low = k + (low + 4)
      BY <1>1, <3>1, <3>2
    <3> QED BY <3>2, <3>3
  <2>2. ASSUME NEW k \in 0 .. 3, k + (low + 4) \in word
        PROVE  k \in ShiftR(byte, 4)
    <3>1. k = (k + 4) - 4 /\ k \in Bits /\ k + 4 \in 0 .. 7
          /\ (k + 4) + low = k + (low + 4)
      BY <1>1 DEF Bits
    <3>2. k + 4 \in byte
      BY <1>3, <2>2, <3>1
    <3> QED BY <3>1, <3>2 DEF ShiftR
  <2> QED BY <2>1, <2>2
<1>5. \A k \in 0 .. 3 : k \in byte \cap 0 .. 3 <=> k + low \in word
  BY <1>3
<1>6. Nibble(ShiftR(byte, 4), 0) = Nibble(word, low + 4)
  BY <1>1, <1>4, NibbleMoved
<1>7. Nibble(byte \cap 0 .. 3, 0) = Nibble(word, low)
  BY <1>1, <1>5, NibbleMoved
<1> QED BY <1>1, <1>6, <1>7 DEF byte, low

LEMMA DigitsAreHex ==
  ASSUME NEW words \in [1 .. 8 -> Words]
  PROVE  [n \in 1 .. 64 |-> Digits(words)[n - 1]] = Hex(words)
<1>1. ASSUME NEW n \in 0 .. 63
      PROVE  Digits(words)[n] =
               HexDigits[1 + Nibble(words[n \div 8 + 1], 28 - 4 * (n % 8))]
  <2> DEFINE word == words[n \div 8 + 1]
             p == (n \div 2) % 4
             byte == ShiftR(word, 24 - 8 * p) \cap 0 .. 7
             digit == IF n % 2 = 0 THEN ShiftR(byte, 4) ELSE byte \cap 0 .. 3
  <2>1. word \in Words /\ p \in 0 .. 3
    <3>1. n \div 8 + 1 \in 1 .. 8 /\ p \in 0 .. 3
      OBVIOUS
    <3> QED BY <3>1
  <2>2. 28 - 4 * (n % 8) = IF n % 2 = 0 THEN 28 - 8 * p ELSE 24 - 8 * p
    OBVIOUS
  <2>3. Digits(words)[n] = hex_to_char(Nibble(digit, 0))
    BY DEF Digits
  <2>4. Nibble(digit, 0) = Nibble(word, 28 - 4 * (n % 8))
    <3> HIDE DEF p, word
    <3>1. /\ Nibble(ShiftR(byte, 4), 0) = Nibble(word, 28 - 8 * p)
          /\ Nibble(byte \cap 0 .. 3, 0) = Nibble(word, 24 - 8 * p)
      BY <2>1, DigitOfByte
    <3> HIDE DEF byte
    <3>2. CASE n % 2 = 0
      BY <2>2, <3>1, <3>2
    <3>3. CASE n % 2 # 0
      BY <2>2, <3>1, <3>3
    <3> QED BY <3>2, <3>3
  <2> HIDE DEF digit
  <2> QED BY <2>3, <2>4, NibbleRange, DigitGlyph
<1>2. ASSUME NEW n \in 1 .. 64
      PROVE  Digits(words)[n - 1] =
               HexDigits[1 + Nibble(words[(n - 1) \div 8 + 1],
                                    28 - 4 * ((n - 1) % 8))]
  BY <1>1
<1> QED BY <1>2 DEF Hex

(* The schedule: its words are those of the recurrence.                    *)
LEMMA FirstWordsAre ==
  ASSUME NEW block
  PROVE  FirstWords(block) \in Seq(Words) /\ Len(FirstWords(block)) = 16
<1>1. \A t \in 1 .. 16 : FirstWords(block)[t] \in Words
  BY WordBits DEF FirstWords
<1>2. FirstWords(block) = [t \in 1 .. 16 |-> FirstWords(block)[t]]
  BY DEF FirstWords
<1> HIDE DEF FirstWords
<1> QED BY <1>1, <1>2

LEMMA NextWordIs ==
  ASSUME NEW ws, NEW t
  PROVE  NextWord(ws, t) \in Words
BY WordBits DEF NextWord

LEMMA Previous ==
  \A t \in 17 .. 64 : t - 1 \in 16 .. 64 /\ t \in 16 .. 64
BY SMTT(60)

LEMMA SchedulesAre ==
  ASSUME NEW block
  PROVE  LET ws == Schedules(block)
         IN  /\ ws \in [16 .. 64 -> Seq(Words)]
             /\ ws[16] = FirstWords(block)
             /\ \A t \in 17 .. 64 :
                  ws[t] = Append(ws[t - 1], NextWord(ws[t - 1], t))
<1> DEFINE longer(p) == Append(p[1], NextWord(p[1], p[2]))
           step == [p \in Seq(Words) \X (16 .. 64) |-> longer(p)]
           Is(f) == f = [t \in 16 .. 64 |->
                           IF t = 16 THEN FirstWords(block)
                           ELSE Append(f[t - 1], NextWord(f[t - 1], t))]
<1>1. step \in [Seq(Words) \X (16 .. 64) -> Seq(Words)]
  <2>1. ASSUME NEW p \in Seq(Words) \X (16 .. 64)
        PROVE  Append(p[1], NextWord(p[1], p[2])) \in Seq(Words)
    BY NextWordIs
  <2> QED BY <2>1
<1>2. FirstWords(block) \in Seq(Words)
  BY FirstWordsAre
<1>3. PICK f \in [16 .. 64 -> Seq(Words)] :
        IsRecursion(f, FirstWords(block), step, 16, 64)
  <2> HIDE DEF step
  <2>1. 16 \in Nat /\ 64 \in Nat /\ 16 <= 64
    OBVIOUS
  <2> QED BY <1>1, <1>2, <2>1, RecursionExists, ZenonT(60)
<1>4. f = [t \in 16 .. 64 |-> IF t = 16 THEN FirstWords(block)
                              ELSE step[<<f[t - 1], t>>]]
  BY <1>3 DEF IsRecursion
<1>5. ASSUME NEW t \in 17 .. 64
      PROVE  step[<<f[t - 1], t>>] = Append(f[t - 1], NextWord(f[t - 1], t))
  <2>1. t - 1 \in 16 .. 64 /\ t \in 16 .. 64
    BY Previous
  <2>2. f[t - 1] \in Seq(Words)
    BY <2>1
  <2>3. ASSUME NEW w \in Seq(Words), NEW k \in 16 .. 64
        PROVE  step[<<w, k>>] = Append(w, NextWord(w, k))
    <3>1. longer(<<w, k>>) = Append(w, NextWord(w, k))
      OBVIOUS
    <3>2. <<w, k>> \in Seq(Words) \X (16 .. 64)
      OBVIOUS
    <3> HIDE DEF longer
    <3> QED BY <3>1, <3>2
  <2> HIDE DEF step
  <2> QED BY <2>1, <2>2, <2>3
<1> HIDE DEF step
<1>6. Is(f)
  <2>1. ASSUME NEW t \in 16 .. 64
        PROVE  f[t] = IF t = 16 THEN FirstWords(block)
                      ELSE Append(f[t - 1], NextWord(f[t - 1], t))
    <3>1. CASE t = 16
      BY <1>4, <3>1, ZenonT(60)
    <3>2. CASE t # 16
      <4>1. t \in 17 .. 64
        BY <3>2
      <4>2. f[t] = step[<<f[t - 1], t>>]
        BY <1>4, <3>2, ZenonT(60)
      <4> QED BY <1>5, <3>2, <4>1, <4>2
    <3> QED BY <3>1, <3>2
  <2> QED BY <2>1
<1>7. Schedules(block) = CHOOSE g : Is(g)
  BY DEF Schedules
<1>8. Is(Schedules(block))
  <2> HIDE DEF Is
  <2> QED BY <1>6, <1>7, Zenon
<1> DEFINE ws == Schedules(block)
<1> HIDE DEF ws
<1>8b. ws = [t \in 16 .. 64 |->
                IF t = 16 THEN FirstWords(block)
                ELSE Append(ws[t - 1], NextWord(ws[t - 1], t))]
  BY <1>8 DEF ws
<1>9. ws[16] = FirstWords(block)
  BY <1>8b
<1>10. ASSUME NEW t \in 17 .. 64
       PROVE  ws[t] = Append(ws[t - 1], NextWord(ws[t - 1], t))
  <2>1. t \in 16 .. 64 /\ t # 16
    OBVIOUS
  <2> QED BY <1>8b, <2>1
<1> DEFINE S == {n \in Nat : ws[n] \in Seq(Words)}
<1>11. 16 \in S
  BY <1>2, <1>9
<1>12. ASSUME NEW n \in 16 .. 63, n \in S
       PROVE  n + 1 \in S
  <2>1. n + 1 \in 17 .. 64 /\ (n + 1) - 1 = n
    OBVIOUS
  <2>2. ws[n + 1] = Append(ws[n], NextWord(ws[n], n + 1))
    BY <1>10, <2>1
  <2>3. ws[n + 1] \in Seq(Words)
    BY <1>12, <2>2, NextWordIs
  <2> QED BY <2>1, <2>3
<1>13. 16 .. 64 \subseteq S
  <2>1. 64 - 1 = 63 /\ 16 \in Nat /\ 64 \in Nat
    OBVIOUS
  <2> HIDE DEF S
  <2> QED BY <1>11, <1>12, <2>1, AllReached
<1>14. ws = [t \in 16 .. 64 |-> ws[t]]
  BY <1>8 DEF ws
<1>15. ws \in [16 .. 64 -> Seq(Words)]
  BY <1>13, <1>14
<1> QED BY <1>9, <1>10, <1>15 DEF ws

LEMMA Appended ==
  ASSUME NEW ws \in Seq(Words), NEW w \in Words
  PROVE  /\ Append(ws, w) \in Seq(Words) /\ Len(Append(ws, w)) = Len(ws) + 1
         /\ \A t \in 1 .. Len(ws) : Append(ws, w)[t] = ws[t]
         /\ Append(ws, w)[Len(ws) + 1] = w
OBVIOUS

LEMMA ScheduleIs ==
  ASSUME NEW block
  PROVE  LET ws == Schedule(block)
         IN  /\ ws \in Seq(Words) /\ Len(ws) = 64
             /\ \A t \in 1 .. 16 : ws[t] = FirstWords(block)[t]
             /\ \A t \in 17 .. 64 : ws[t] = NextWord(ws, t)
<1> DEFINE all == Schedules(block)
           Good(n) ==
             /\ all[n] \in Seq(Words) /\ Len(all[n]) = n
             /\ \A t \in Nat : t > 0 /\ t <= 16 =>
                  all[n][t] = FirstWords(block)[t]
             /\ \A t \in Nat : t > 16 /\ t <= n =>
                  all[n][t] = NextWord(all[n], t)
           S == {n \in Nat : n >= 16 /\ Good(n)}
<1>1. /\ all[16] = FirstWords(block)
      /\ \A t \in 17 .. 64 :
           all[t] = Append(all[t - 1], NextWord(all[t - 1], t))
  BY SchedulesAre
<1> HIDE DEF all
<1>2. 16 \in S
  <2>1. ~ \E t \in Nat : t > 16 /\ t <= 16
    OBVIOUS
  <2>2. all[16] \in Seq(Words) /\ Len(all[16]) = 16
    BY <1>1, FirstWordsAre
  <2>3. \A t : all[16][t] = FirstWords(block)[t]
    BY <1>1
  <2>4. Good(16)
    BY <2>1, <2>2, <2>3, Zenon
  <2> HIDE DEF Good
  <2> QED BY <2>4
<1>3. ASSUME NEW n \in 16 .. 64 - 1, n \in S
      PROVE  n + 1 \in S
  <2>1. n \in Nat /\ n >= 16 /\ n + 1 \in 17 .. 64 /\ (n + 1) - 1 = n
    BY <1>3
  <2> DEFINE ws == all[n]
             w == NextWord(ws, n + 1)
             longer == all[n + 1]
  <2>2. longer = Append(ws, w)
    BY <1>1, <2>1
  <2>3. ws \in Seq(Words) /\ Len(ws) = n /\ w \in Words
    BY <1>3, NextWordIs
  <2>4. /\ \A t \in Nat : t > 0 /\ t <= 16 => ws[t] = FirstWords(block)[t]
        /\ \A t \in Nat : t > 16 /\ t <= n => ws[t] = NextWord(ws, t)
    BY <1>3
  <2> HIDE DEF ws, longer
  <2>5. /\ longer \in Seq(Words) /\ Len(longer) = n + 1
        /\ longer[n + 1] = w
    BY <2>1, <2>2, <2>3, Appended
  <2>6. \A t \in Nat : t > 0 /\ t <= n => longer[t] = ws[t]
    BY <2>1, <2>2, <2>3, Appended
  <2>7. \A t \in Nat : t > 16 /\ t <= n + 1 =>
          NextWord(longer, t) = NextWord(ws, t)
    <3> SUFFICES ASSUME NEW t \in Nat, t > 16, t <= n + 1
                 PROVE  NextWord(longer, t) = NextWord(ws, t)
      OBVIOUS
    <3>1. /\ longer[t - 2] = ws[t - 2] /\ longer[t - 7] = ws[t - 7]
          /\ longer[t - 15] = ws[t - 15] /\ longer[t - 16] = ws[t - 16]
      BY <2>1, <2>6
    <3> QED BY <3>1 DEF NextWord
  <2>8. \A t \in Nat : t > 0 /\ t <= 16 => longer[t] = FirstWords(block)[t]
    BY <2>1, <2>4, <2>6
  <2>9. \A t \in Nat : t > 16 /\ t <= n + 1 => longer[t] = NextWord(longer, t)
    <3> SUFFICES ASSUME NEW t \in Nat, t > 16, t <= n + 1
                 PROVE  longer[t] = NextWord(longer, t)
      OBVIOUS
    <3> HIDE DEF w
    <3>1. CASE t = n + 1
      BY <2>5, <2>7, <3>1 DEF w
    <3>2. CASE t # n + 1
      <4>1. t <= n /\ t > 0
        BY <2>1, <3>2
      <4> QED BY <2>4, <2>6, <2>7, <4>1
    <3> QED BY <3>1, <3>2
  <2>10. n + 1 \in Nat /\ n + 1 >= 16
    BY <2>1
  <2> QED BY <2>5, <2>8, <2>9, <2>10 DEF longer
<1>4. 64 \in S
  <2> HIDE DEF S
  <2>1. 16 .. 64 \subseteq S
    BY <1>2, <1>3, AllReached
  <2> QED BY <2>1
<1>5. Schedule(block) = all[64]
  BY DEF Schedule, all
<1>6. /\ \A t \in 1 .. 16 : t \in Nat /\ t > 0 /\ t <= 16
      /\ \A t \in 17 .. 64 : t \in Nat /\ t > 16 /\ t <= 64
  OBVIOUS
<1> QED BY <1>4, <1>5, <1>6, ZenonT(90)

(* The rounds, from any start and with any words.                          *)
LEMMA NextWorkingIs ==
  ASSUME NEW r \in Working, NEW constant, NEW word
  PROVE  NextWorking(r, constant, word) \in Working
<1> DEFINE Ch == (r[5] \cap r[6]) \cup (r[7] \ r[5])
           T1 == Plus(Plus(Plus(Plus(r[8], Sigma(r[5], 6, 11, 25)), Ch),
                           constant), word)
           Maj == (r[1] \cap r[2]) \cup (r[1] \cap r[3]) \cup (r[2] \cap r[3])
           T2 == Plus(Sigma(r[1], 2, 13, 22), Maj)
<1>1. NextWorking(r, constant, word) =
        [r EXCEPT ![1] = Plus(T1, T2), ![2] = r[1], ![3] = r[2], ![4] = r[3],
                  ![5] = Plus(r[4], T1), ![6] = r[5], ![7] = r[6], ![8] = r[7]]
  BY DEF NextWorking
<1>2. Plus(T1, T2) \in Words /\ Plus(r[4], T1) \in Words
  BY WordBits
<1> HIDE DEF T1, T2
<1> QED BY <1>1, <1>2 DEF Working

LEMMA Earlier ==
  \A t \in 0 .. 64 : t # 0 => t - 1 \in 0 .. 64
OBVIOUS

LEMMA WorkingsAre ==
  ASSUME NEW hash \in Working, NEW words
  PROVE  LET r == Workings(hash, words)
         IN  /\ r[0] = hash /\ r[64] \in Working
             /\ \A t \in 1 .. 64 : r[t] = NextWorking(r[t - 1], K[t], words[t])
<1> DEFINE next(p) == NextWorking(p[1], K[p[2]], words[p[2]])
           step == [p \in Working \X (0 .. 64) |-> next(p)]
           Is(f) == f = [t \in 0 .. 64 |->
                           IF t = 0 THEN hash
                           ELSE NextWorking(f[t - 1], K[t], words[t])]
<1>1. step \in [Working \X (0 .. 64) -> Working]
  <2>1. ASSUME NEW p \in Working \X (0 .. 64)
        PROVE  next(p) \in Working
    BY NextWorkingIs
  <2> HIDE DEF next
  <2> QED BY <2>1
<1>2. PICK f \in [0 .. 64 -> Working] : IsRecursion(f, hash, step, 0, 64)
  <2> HIDE DEF step
  <2>1. 0 \in Nat /\ 64 \in Nat /\ 0 <= 64
    OBVIOUS
  <2> QED BY <1>1, <2>1, RecursionExists
<1>3. f = [t \in 0 .. 64 |-> IF t = 0 THEN hash ELSE step[<<f[t - 1], t>>]]
  BY <1>2 DEF IsRecursion
<1>4. ASSUME NEW t \in 0 .. 64, t # 0
      PROVE  step[<<f[t - 1], t>>] = NextWorking(f[t - 1], K[t], words[t])
  <2>1. t - 1 \in 0 .. 64
    BY <1>4, Earlier
  <2>2. f[t - 1] \in Working
    BY <2>1
  <2>3. ASSUME NEW r \in Working, NEW k \in 0 .. 64
        PROVE  step[<<r, k>>] = NextWorking(r, K[k], words[k])
    <3>1. next(<<r, k>>) = NextWorking(r, K[k], words[k])
      OBVIOUS
    <3>2. <<r, k>> \in Working \X (0 .. 64)
      OBVIOUS
    <3> HIDE DEF next
    <3> QED BY <3>1, <3>2
  <2> HIDE DEF step
  <2> QED BY <2>2, <2>3
<1> HIDE DEF step
<1>5. Is(f)
  <2>1. ASSUME NEW t \in 0 .. 64
        PROVE  f[t] = IF t = 0 THEN hash
                      ELSE NextWorking(f[t - 1], K[t], words[t])
    <3>1. CASE t = 0
      BY <1>3, <3>1
    <3>2. CASE t # 0
      BY <1>3, <1>4, <3>2
    <3> QED BY <3>1, <3>2
  <2> QED BY <1>3, <2>1
<1> DEFINE r == Workings(hash, words)
<1>6. Is(r)
  <2>1. r = CHOOSE f_1 : Is(f_1)
    BY DEF Workings
  <2> HIDE DEF Is, r
  <2> QED BY <1>5, <2>1, Zenon
<1> HIDE DEF r
<1>7. /\ r[0] = hash
      /\ \A t \in 1 .. 64 : r[t] = NextWorking(r[t - 1], K[t], words[t])
  BY <1>6
<1> DEFINE S == {n \in Nat : r[n] \in Working}
<1>8. 0 \in S
  BY <1>7
<1>9. ASSUME NEW n \in 0 .. 64 - 1, n \in S
      PROVE  n + 1 \in S
  <2>1. n + 1 \in 1 .. 64 /\ (n + 1) - 1 = n
    OBVIOUS
  <2>2. r[n + 1] = NextWorking(r[n], K[n + 1], words[n + 1])
    BY <1>7, <2>1
  <2>3. r[n + 1] \in Working
    BY <1>9, <2>2, NextWorkingIs
  <2> QED BY <2>1, <2>3
<1>10. 0 .. 64 \subseteq S
  <2> HIDE DEF S
  <2>1. 0 \in Nat /\ 64 \in Nat
    OBVIOUS
  <2> QED BY <1>8, <1>9, <2>1, AllReached
<1> QED BY <1>7, <1>10 DEF r

(* The message of a text that fits is one block, and sha256 builds it.     *)
LEMMA Joined ==
  ASSUME NEW a \in Seq(Int), NEW b \in Seq(Int)
  PROVE  /\ a \o b \in Seq(Int) /\ Len(a \o b) = Len(a) + Len(b)
         /\ \A j \in Int : 1 <= j /\ j <= Len(a) => (a \o b)[j] = a[j]
         /\ \A j \in Int : Len(a) < j /\ j <= Len(a) + Len(b) =>
              (a \o b)[j] = b[j - Len(a)]
OBVIOUS

LEMMA BytesAreInt ==
  ASSUME NEW text \in Seq(1 .. 255)
  PROVE  text \in Seq(Int)
<1>1. 1 .. 255 \subseteq Int
  OBVIOUS
<1> QED BY <1>1, SeqMonotonic, Zenon

LEMMA ZerosAre ==
  ASSUME NEW n \in Nat
  PROVE  /\ Zeros(n) \in Seq(Int) /\ Len(Zeros(n)) = n
         /\ \A j \in Int : 1 <= j /\ j <= n => Zeros(n)[j] = 0
BY DEF Zeros

LEMMA Fits ==
  ASSUME NEW text \in Seq(1 .. 255), Len(text) <= 55
  PROVE  LET m == Message(text)
         IN  /\ Len(m) = 64 /\ m \in Seq(Int)
             /\ \A n \in 1 .. 64 : m[n] = Padded(text, Cleared)[n - 1]
<1> DEFINE len == Len(text)
           bits == 8 * len
           zeros == Zeros(55 - len)
           six == Zeros(6)
           last == <<(bits \div 256) % 256, bits % 256>>
           front == text \o <<128>>
           body == front \o zeros
           most == body \o six
           m == most \o last
<1>1. len \in Nat /\ len <= 55
  OBVIOUS
<1>2. (119 - (len % 64)) % 64 = 55 - len
  BY <1>1
<1>3. Message(text) = m
  BY <1>2 DEF Message
<1>4. text \in Seq(Int) /\ <<128>> \in Seq(Int)
  BY BytesAreInt
<1>5. /\ (bits \div 256) % 256 = (len * 8) \div 256
      /\ bits % 256 = (len * 8) % 256
      /\ (bits \div 256) % 256 \in Int /\ bits % 256 \in Int
  BY <1>1
<1>6. /\ zeros \in Seq(Int) /\ Len(zeros) = 55 - len
      /\ \A j \in Int : 1 <= j /\ j <= 55 - len => zeros[j] = 0
  <2>1. 55 - len \in Nat
    BY <1>1
  <2> QED BY <2>1, ZerosAre
<1>7. /\ six \in Seq(Int) /\ Len(six) = 6
      /\ \A j \in Int : 1 <= j /\ j <= 6 => six[j] = 0
  <2>1. 6 \in Nat
    OBVIOUS
  <2> QED BY <2>1, ZerosAre
<1>8. /\ last \in Seq(Int) /\ Len(last) = 2
      /\ last[1] = (len * 8) \div 256 /\ last[2] = (len * 8) % 256
  <2>1. \A x, y \in Int : /\ <<x, y>> \in Seq(Int) /\ Len(<<x, y>>) = 2
                          /\ <<x, y>>[1] = x /\ <<x, y>>[2] = y
    OBVIOUS
  <2> HIDE DEF bits, len
  <2> QED BY <1>5, <2>1
<1> HIDE DEF zeros, last, six
<1>9. /\ front \in Seq(Int) /\ Len(front) = len + 1 /\ front[len + 1] = 128
      /\ \A j \in Int : 1 <= j /\ j <= len => front[j] = text[j]
  <2>1. Len(<<128>>) = 1 /\ <<128>>[1] = 128
    OBVIOUS
  <2>2. len + 1 \in Int /\ len < len + 1 /\ (len + 1) - len = 1
    BY <1>1
  <2>3. /\ front \in Seq(Int) /\ Len(front) = len + Len(<<128>>)
        /\ \A j \in Int : 1 <= j /\ j <= len => front[j] = text[j]
        /\ \A j \in Int : len < j /\ j <= len + Len(<<128>>) =>
             front[j] = <<128>>[j - len]
    BY <1>4, Joined
  <2> HIDE DEF len, front
  <2>4. front[len + 1] = <<128>>[(len + 1) - len]
    BY <2>1, <2>2, <2>3
  <2> QED BY <2>1, <2>2, <2>3, <2>4
<1> HIDE DEF len, front
<1>10. /\ body \in Seq(Int) /\ Len(body) = 56
       /\ \A j \in Int : 1 <= j /\ j <= len + 1 => body[j] = front[j]
       /\ \A j \in Int : len + 1 < j /\ j <= 56 => body[j] = 0
  <2>3. /\ body \in Seq(Int) /\ Len(body) = Len(front) + Len(zeros)
        /\ \A j \in Int : 1 <= j /\ j <= Len(front) => body[j] = front[j]
        /\ \A j \in Int : Len(front) < j /\ j <= Len(front) + Len(zeros) =>
             body[j] = zeros[j - Len(front)]
    BY <1>6, <1>9, Joined, ZenonT(60)
  <2> HIDE DEF body
  <2>1. /\ body \in Seq(Int) /\ Len(body) = 56
        /\ \A j \in Int : 1 <= j /\ j <= len + 1 => body[j] = front[j]
        /\ \A j \in Int : len + 1 < j /\ j <= 56 =>
             body[j] = zeros[j - (len + 1)]
    BY <1>1, <1>6, <1>9, <2>3
  <2>2. ASSUME NEW j \in Int, len + 1 < j, j <= 56
        PROVE  body[j] = 0
    <3>1. PICK k \in Int : k = j - (len + 1)
      BY <1>1
    <3>2. 1 <= k /\ k <= 55 - len
      BY <1>1, <2>2, <3>1
    <3>3. zeros[k] = 0
      BY <1>6, <3>2
    <3>4. body[j] = zeros[j - (len + 1)]
      BY <2>1, <2>2, Zenon
    <3> QED BY <3>1, <3>3, <3>4
  <2> QED BY <2>1, <2>2, Zenon
<1> HIDE DEF body
<1>11. /\ most \in Seq(Int) /\ Len(most) = 62
       /\ \A j \in Int : 1 <= j /\ j <= 56 => most[j] = body[j]
       /\ \A j \in Int : 56 < j /\ j <= 62 => most[j] = 0
  <2>3. /\ most \in Seq(Int) /\ Len(most) = Len(body) + Len(six)
        /\ \A j \in Int : 1 <= j /\ j <= Len(body) => most[j] = body[j]
        /\ \A j \in Int : Len(body) < j /\ j <= Len(body) + Len(six) =>
             most[j] = six[j - Len(body)]
    BY <1>7, <1>10, Joined, ZenonT(60)
  <2> HIDE DEF most
  <2>1. /\ most \in Seq(Int) /\ Len(most) = 62
        /\ \A j \in Int : 1 <= j /\ j <= 56 => most[j] = body[j]
        /\ \A j \in Int : 56 < j /\ j <= 62 => most[j] = six[j - 56]
    BY <1>7, <1>10, <2>3
  <2>2. ASSUME NEW j \in Int, 56 < j, j <= 62
        PROVE  most[j] = 0
    <3>1. PICK k \in Int : k = j - 56
      OBVIOUS
    <3>2. 1 <= k /\ k <= 6
      BY <2>2, <3>1
    <3>3. six[k] = 0
      BY <1>7, <3>2
    <3>4. most[j] = six[j - 56]
      BY <2>1, <2>2, Zenon
    <3> QED BY <3>1, <3>3, <3>4
  <2> QED BY <2>1, <2>2, Zenon
<1> HIDE DEF most
<1>12. /\ m \in Seq(Int) /\ Len(m) = 64
       /\ \A j \in Int : 1 <= j /\ j <= 62 => m[j] = most[j]
       /\ m[63] = last[1] /\ m[64] = last[2]
  <2>3. /\ m \in Seq(Int) /\ Len(m) = Len(most) + Len(last)
        /\ \A j \in Int : 1 <= j /\ j <= Len(most) => m[j] = most[j]
        /\ \A j \in Int : Len(most) < j /\ j <= Len(most) + Len(last) =>
             m[j] = last[j - Len(most)]
    BY <1>8, <1>11, Joined, ZenonT(60)
  <2> HIDE DEF m
  <2>1. /\ m \in Seq(Int) /\ Len(m) = 64
        /\ \A j \in Int : 1 <= j /\ j <= 62 => m[j] = most[j]
        /\ \A j \in Int : 62 < j /\ j <= 64 => m[j] = last[j - 62]
    BY <1>8, <1>11, <2>3
  <2>2. /\ 63 \in Int /\ 62 < 63 /\ 63 <= 64 /\ 63 - 62 = 1
        /\ 64 \in Int /\ 62 < 64 /\ 64 <= 64 /\ 64 - 62 = 2
    OBVIOUS
  <2>4. m[63] = last[63 - 62] /\ m[64] = last[64 - 62]
    BY <2>1, <2>2, Zenon
  <2> QED BY <2>1, <2>2, <2>4
<1> HIDE DEF m
<1>13. ASSUME NEW n \in Int, 0 <= n, n <= 63
       PROVE  m[n + 1] = Padded(text, Cleared)[n]
  <2>1. Padded(text, Cleared)[n] =
          CASE n < len -> text[n + 1]
            [] n = len -> 128
            [] n \in 56 .. 61 -> 0
            [] n = 62 -> (len * 8) \div 256
            [] n = 63 -> (len * 8) % 256
            [] OTHER -> Cleared[n]
    <3>1. n \in 0 .. 63
      BY <1>13
    <3> QED BY <3>1 DEF Padded, len
  <2>2. CASE n < len
    <3>1. m[n + 1] = text[n + 1]
      BY <1>1, <1>9, <1>10, <1>11, <1>12, <1>13, <2>2
    <3> QED BY <1>1, <1>13, <2>1, <2>2, <3>1
  <2>3. CASE n = len
    <3>1. m[n + 1] = 128
      BY <1>1, <1>9, <1>10, <1>11, <1>12, <1>13, <2>3
    <3> QED BY <1>1, <1>13, <2>1, <2>3, <3>1
  <2>4. CASE n > len /\ n <= 55
    <3>1. m[n + 1] = 0
      BY <1>1, <1>10, <1>11, <1>12, <1>13, <2>4
    <3>2. Cleared[n] = 0
      <4>1. n \in 0 .. 63
        BY <1>13
      <4> QED BY <4>1 DEF Cleared
    <3>3. ~(n < len) /\ n # len /\ n \notin 56 .. 61 /\ n # 62 /\ n # 63
      BY <1>1, <1>13, <2>4
    <3>4. Padded(text, Cleared)[n] = Cleared[n]
      BY <2>1, <3>3, Zenon
    <3> QED BY <3>1, <3>2, <3>4
  <2>5. CASE 56 <= n /\ n <= 61
    <3>1. m[n + 1] = 0
      BY <1>1, <1>11, <1>12, <1>13, <2>5
    <3>2. n \in 56 .. 61
      BY <1>13, <2>5
    <3> QED BY <1>1, <1>13, <2>1, <2>5, <3>1, <3>2
  <2>6. CASE n = 62
    BY <1>1, <1>8, <1>12, <2>1, <2>6
  <2>7. CASE n = 63
    BY <1>1, <1>8, <1>12, <2>1, <2>7
  <2> QED BY <1>1, <1>13, <2>2, <2>3, <2>4, <2>5, <2>6, <2>7
<1>14. ASSUME NEW n \in 1 .. 64
       PROVE  m[n] = Padded(text, Cleared)[n - 1]
  <2>1. n - 1 \in Int /\ 0 <= n - 1 /\ n - 1 <= 63 /\ (n - 1) + 1 = n
    OBVIOUS
  <2> QED BY <1>13, <2>1
<1> QED BY <1>3, <1>12, <1>14

(* The digest of a text that fits compresses its one block.                *)
LEMMA OneBlock ==
  ASSUME NEW m \in Seq(Int), Len(m) = 64
  PROVE  Hashes(m)[Len(m) \div 64] = Compress(H, m)
<1> DEFINE next(hash, n) == Compress(hash, SubSeq(m, 64 * n - 63, 64 * n))
           Is(g) == g = [n \in 0 .. Len(m) \div 64 |->
                           IF n = 0 THEN H ELSE next(g[n - 1], n)]
           one == [n \in 0 .. 1 |-> IF n = 0 THEN H ELSE next(H, 1)]
           hash == CHOOSE g : Is(g)
<1>1. Len(m) \div 64 = 1 /\ 0 .. 1 = {0, 1}
  BY Z3
<1>2. 64 * 1 - 63 = 1 /\ 64 * 1 = 64
  OBVIOUS
<1>3. SubSeq(m, 1, 64) = m
  <2>1. SubSeq(m, 1, Len(m)) = m
    OBVIOUS
  <2> QED BY <2>1
<1>4. next(H, 1) = Compress(H, m)
  BY <1>2, <1>3, Zenon
<1>5. Hashes(m) = hash
  BY Zenon DEF Hashes
<1> HIDE DEF next
<1>6. Is(one)
  <2>1. one[0] = H
    OBVIOUS
  <2>2. \A n \in {0, 1} : IF n = 0 THEN TRUE ELSE n - 1 = 0 /\ n = 1
    OBVIOUS
  <2>3. \A n \in 0 .. 1 :
          (IF n = 0 THEN H ELSE next(H, 1))
            = (IF n = 0 THEN H ELSE next(one[n - 1], n))
    BY <1>1, <2>1, <2>2
  <2> HIDE DEF next
  <2> QED BY <1>1, <2>3
<1>7. Is(hash)
  <2> HIDE DEF Is, one
  <2> QED BY <1>6, Zenon
<1>8. hash[0] = H /\ hash[1] = next(hash[0], 1)
  <2> HIDE DEF hash
  <2>1. 0 \in 0 .. 1 /\ 1 \in 0 .. 1 /\ 1 # 0 /\ 1 - 1 = 0
    OBVIOUS
  <2> QED BY <1>1, <1>7, <2>1
<1> HIDE DEF hash
<1> QED BY <1>1, <1>4, <1>5, <1>8

LEMMA HInitial ==
  H \in Working
<1>1. H \in [1 .. 8 -> Words]
  BY WordBits DEF H, Halves
<1> QED BY <1>1 DEF Working

LEMMA SHA256Is ==
  ASSUME NEW text \in Seq(1 .. 255), Len(text) <= 55
  PROVE  SHA256(text) = Compress(H, Message(text))
<1>1. Message(text) \in Seq(Int) /\ Len(Message(text)) = 64
  BY Fits
<1>2. SHA256(text) = Hashes(Message(text))[Len(Message(text)) \div 64]
  BY Zenon DEF SHA256
<1> QED BY <1>1, <1>2, OneBlock, Zenon

(* The code's words and rounds are those of the standard.                  *)
LEMMA BigEndianIs ==
  ASSUME NEW text \in Seq(1 .. 255), Len(text) <= 55,
         raw_data = Padded(text, Cleared), NEW n \in 0 .. 15
  PROVE  BigEndian(n) = FirstWords(Message(text))[n + 1]
<1> DEFINE m == Message(text)
           t == n + 1
<1>1. \A j \in 1 .. 64 : m[j] = raw_data[j - 1]
  BY Fits
<1> HIDE DEF m
<1>2. /\ 4 * t - 3 \in 1 .. 64 /\ (4 * t - 3) - 1 = 4 * n
      /\ 4 * t - 2 \in 1 .. 64 /\ (4 * t - 2) - 1 = 4 * n + 1
      /\ 4 * t - 1 \in 1 .. 64 /\ (4 * t - 1) - 1 = 4 * n + 2
      /\ 4 * t \in 1 .. 64 /\ 4 * t - 1 = 4 * n + 3
  OBVIOUS
<1>3. t \in 1 .. 16
  OBVIOUS
<1> HIDE DEF t
<1>4. /\ m[4 * t - 3] = raw_data[4 * n] /\ m[4 * t - 2] = raw_data[4 * n + 1]
      /\ m[4 * t - 1] = raw_data[4 * n + 2] /\ m[4 * t] = raw_data[4 * n + 3]
  <2>1. m[4 * t - 3] = raw_data[4 * n]
    BY <1>1, <1>2, Zenon
  <2>2. m[4 * t - 2] = raw_data[4 * n + 1]
    BY <1>1, <1>2, Zenon
  <2>3. m[4 * t - 1] = raw_data[4 * n + 2]
    BY <1>1, <1>2, Zenon
  <2>4. m[4 * t] = raw_data[4 * n + 3]
    BY <1>1, <1>2, Zenon
  <2> QED BY <2>1, <2>2, <2>3, <2>4
<1>5. FirstWords(m)[t] = Word(m[4 * t - 3] * 256 + m[4 * t - 2],
                              m[4 * t - 1] * 256 + m[4 * t])
  BY <1>3, Zenon DEF FirstWords
<1>6. BigEndian(n) = FirstWords(m)[t]
  BY <1>4, <1>5, ZenonT(60) DEF BigEndian
<1> QED BY <1>6 DEF m, t

LEMMA ExpansionIs ==
  ASSUME NEW ws, NEW w, NEW n \in Nat, n >= 16,
         \A t \in Nat : t < n => w[t] = ws[t + 1] /\ w[t] \in Words
  PROVE  sha256_IE(w, n) = NextWord(ws, n + 1)
<1>1. /\ n - 2 \in Nat /\ n - 2 < n /\ (n - 2) + 1 = (n + 1) - 2
      /\ n - 7 \in Nat /\ n - 7 < n /\ (n - 7) + 1 = (n + 1) - 7
      /\ n - 15 \in Nat /\ n - 15 < n /\ (n - 15) + 1 = (n + 1) - 15
      /\ n - 16 \in Nat /\ n - 16 < n /\ (n - 16) + 1 = (n + 1) - 16
  OBVIOUS
<1>2. w[n - 2] = ws[(n + 1) - 2] /\ w[n - 2] \in Words
  BY <1>1, Zenon
<1>3. w[n - 7] = ws[(n + 1) - 7]
  BY <1>1, Zenon
<1>4. w[n - 15] = ws[(n + 1) - 15] /\ w[n - 15] \in Words
  BY <1>1, Zenon
<1>5. w[n - 16] = ws[(n + 1) - 16]
  BY <1>1, Zenon
<1>6. sha256_IE(w, n) =
        Plus(Plus(Plus(sigma(w[n - 2], 17, 19, 10), w[n - 7]),
                  sigma(w[n - 15], 7, 18, 3)), w[n - 16])
  BY <1>2, <1>4, Rotations, Zenon DEF sha256_IE
<1> QED BY <1>2, <1>3, <1>4, <1>5, <1>6, Zenon DEF NextWord

LEMMA SameWorking ==
  ASSUME NEW f \in Working, NEW g \in Working,
         f[1] = g[1], f[2] = g[2], f[3] = g[3], f[4] = g[4],
         f[5] = g[5], f[6] = g[6], f[7] = g[7], f[8] = g[8]
  PROVE  f = g
<1>1. \A j \in 1 .. 8 : \/ j = 1 \/ j = 2 \/ j = 3 \/ j = 4
                       \/ j = 5 \/ j = 6 \/ j = 7 \/ j = 8
  OBVIOUS
<1>2. \A j \in 1 .. 8 : f[j] = g[j]
  BY <1>1
<1> QED BY <1>2 DEF Working

LEMMA Moved ==
  ASSUME NEW r \in Working, NEW x \in Words, NEW y \in Words
  PROVE  <<x, r[1], r[2], r[3], y, r[5], r[6], r[7]>>
           = [r EXCEPT ![1] = x, ![2] = r[1], ![3] = r[2], ![4] = r[3],
                       ![5] = y, ![6] = r[5], ![7] = r[6], ![8] = r[7]]
<1> DEFINE f == <<x, r[1], r[2], r[3], y, r[5], r[6], r[7]>>
           g == [r EXCEPT ![1] = x, ![2] = r[1], ![3] = r[2], ![4] = r[3],
                          ![5] = y, ![6] = r[5], ![7] = r[6], ![8] = r[7]]
<1>1. f \in Working
  BY DEF Working
<1>2. g \in Working
  BY DEF Working
<1>3. /\ f[1] = g[1] /\ f[2] = g[2] /\ f[3] = g[3] /\ f[4] = g[4]
      /\ f[5] = g[5] /\ f[6] = g[6] /\ f[7] = g[7] /\ f[8] = g[8]
  BY DEF Working
<1> HIDE DEF f, g
<1>4. f = g
  BY <1>1, <1>2, <1>3, SameWorking
<1> QED BY <1>4 DEF f, g

LEMMA RoundIs ==
  ASSUME v \in Working, NEW w, NEW n, sha256_ROC(w, n)
  PROVE  v' = NextWorking(v, K[n + 1], w)
<1> DEFINE T1 == Plus(Plus(Plus(Plus(v[8], Sigma(v[5], 6, 11, 25)),
                                (v[5] \cap v[6]) \cup (v[7] \ v[5])),
                           K[n + 1]), w)
           T2 == Plus(Sigma(v[1], 2, 13, 22),
                      (v[1] \cap v[2]) \cup (v[1] \cap v[3])
                        \cup (v[2] \cap v[3]))
           t1 == Plus(T1, T2)
           t5 == Plus(v[4], T1)
           r == [v EXCEPT ![1] = t1, ![2] = v[1], ![3] = v[2], ![4] = v[3],
                          ![5] = t5, ![6] = v[5], ![7] = v[6], ![8] = v[7]]
<1>1. v[1] \in Words /\ v[5] \in Words /\ v[7] \in Words
  BY DEF Working
<1>2. NextWorking(v, K[n + 1], w) = r
  BY Zenon DEF NextWorking
<1>3. sha256_ROC(w, n) =>
        v' = <<t1, v[1], v[2], v[3], t5, v[5], v[6], v[7]>>
  <2>1. /\ Xor(Xor(rotr(v[5], 6), rotr(v[5], 11)), rotr(v[5], 25))
             = Sigma(v[5], 6, 11, 25)
        /\ Xor(Xor(rotr(v[1], 2), rotr(v[1], 13)), rotr(v[1], 22))
             = Sigma(v[1], 2, 13, 22)
    BY <1>1, Rotations, Zenon
  <2>2. Xor(v[5] \cap v[6], Not(v[5]) \cap v[7])
          = (v[5] \cap v[6]) \cup (v[7] \ v[5])
    BY <1>1, Choice, Zenon
  <2>3. Xor(Xor(v[1] \cap v[2], v[1] \cap v[3]), v[2] \cap v[3])
          = (v[1] \cap v[2]) \cup (v[1] \cap v[3]) \cup (v[2] \cap v[3])
    BY DEF Xor
  <2> QED BY <2>1, <2>2, <2>3 DEF sha256_ROC
<1>4. t1 \in Words /\ t5 \in Words
  BY WordBits
<1> HIDE DEF t1, t5
<1>5. <<t1, v[1], v[2], v[3], t5, v[5], v[6], v[7]>> = r
  BY <1>4, Moved, Zenon
<1> QED BY <1>2, <1>3, <1>5, Zenon

(* What is compressed, and the values that each round of it yields.        *)
Given == Schedule(Message(s))
Rounds == Workings(H, Given)

(* Before round i the first i words and the eight variables are those of   *)
(* the standard; what an earlier text left behind is never looked at.      *)
IInv ==
  /\ s \in Seq(1 .. 255)
  /\ pc \in {"idle", "round", "finish"}
  /\ v \in Working
  /\ DOMAIN W = 0 .. 63
  /\ pc = "round" =>
       /\ Len(s) <= 55
       /\ i \in 0 .. 63
       /\ raw_data = Padded(s, Cleared)
       /\ \A t \in 0 .. 63 : t < i => W[t] = Given[t + 1]
       /\ v = Rounds[i]
  /\ pc = "finish" => v = IF Len(s) <= 55 THEN Rounds[64] ELSE H
  /\ DigestCorrect

LEMMA InitIInv ==
  Init => IInv
<1> SUFFICES ASSUME Init PROVE IInv
  OBVIOUS
<1>1. s = << >> /\ pc = "idle" /\ printed = << >>
  BY DEF Init
<1>2. s \in Seq(1 .. 255)
  BY <1>1
<1>3. v \in Working
  BY DEF Init, Working, Words
<1>4. DOMAIN W = 0 .. 63
  BY DEF Init
<1>5. DigestCorrect
  BY <1>1, Zenon DEF DigestCorrect, Printed
<1> QED BY <1>1, <1>2, <1>3, <1>4, <1>5 DEF IInv

LEMMA PlusCommutes ==
  ASSUME NEW x, NEW y
  PROVE  Plus(x, y) = Plus(y, x)
<1>1. \A z, b : Nibble(z, b) \in Int
  <2>1. \A z, b : Nibble(z, b) \in 0 .. 15
    BY NibbleRange, Zenon
  <2> QED BY <2>1
<1>2. Low(x) \in Int /\ Low(y) \in Int /\ High(x) \in Int /\ High(y) \in Int
  BY <1>1 DEF Low, High, Half
<1>3. Low(x) + Low(y) = Low(y) + Low(x) /\ High(x) + High(y) = High(y) + High(x)
  BY <1>2
<1> QED BY <1>3 DEF Plus

(* A call starts from the standard's initial value, with its own block.    *)
LEMMA CallIInv ==
  ASSUME IInv, NEW text \in Texts, Call(text)
  PROVE  IInv'
<1>1. /\ s' = text /\ i' = 0 /\ v' = H /\ W' = [n \in 0 .. 63 |-> {}]
      /\ IF Len(text) <= 55
           THEN pc' = "round" /\ raw_data' = Padded(text, Cleared)
           ELSE pc' = "finish"
  BY DEF Call
<1>2. s' \in Seq(1 .. 255)
  BY <1>1, TextsAssumption
<1>3. v' \in Working /\ DOMAIN W' = 0 .. 63
  BY <1>1, HInitial
<1>4. Rounds'[0] = H
  BY HInitial, WorkingsAre DEF Rounds
<1>5. pc' = "round" =>
        /\ Len(s') <= 55
        /\ i' \in 0 .. 63
        /\ raw_data' = Padded(s', Cleared)
        /\ \A t \in 0 .. 63 : t < i' => W'[t] = Given'[t + 1]
        /\ v' = Rounds'[i']
  <2>1. pc' = "round" => Len(s') <= 55 /\ raw_data' = Padded(s', Cleared)
    BY <1>1
  <2>2. i' \in 0 .. 63 /\ \A t \in 0 .. 63 : ~(t < i')
    BY <1>1
  <2>3. v' = Rounds'[i']
    BY <1>1, <1>4
  <2> QED BY <2>1, <2>2, <2>3, Zenon
<1>6. pc' = "finish" => v' = IF Len(s') <= 55 THEN Rounds'[64] ELSE H
  BY <1>1
<1>7. pc' \in {"idle", "round", "finish"}
  BY <1>1
<1>8. DigestCorrect'
  BY <1>1 DEF DigestCorrect, Printed
<1> QED BY <1>2, <1>3, <1>5, <1>6, <1>7, <1>8, Zenon DEF IInv

(* A round stores the standard's next word and takes its next step.        *)
LEMMA RoundIInv ==
  ASSUME IInv, Round
  PROVE  IInv'
<1> DEFINE w == IF i < 16 THEN BigEndian(i) ELSE sha256_IE(W, i)
<1>1. /\ s \in Seq(1 .. 255) /\ v \in Working /\ DOMAIN W = 0 .. 63
      /\ Len(s) <= 55 /\ i \in 0 .. 63 /\ raw_data = Padded(s, Cleared)
      /\ \A t \in 0 .. 63 : t < i => W[t] = Given[t + 1]
      /\ v = Rounds[i]
  BY Zenon DEF IInv, Round
<1>2. /\ W' = [W EXCEPT ![i] = w] /\ sha256_ROC(w, i)
      /\ i' = i + 1 /\ pc' = IF i' = 64 THEN "finish" ELSE "round"
      /\ s' = s /\ raw_data' = raw_data
  BY DEF Round
<1>3. /\ \A t \in 1 .. 16 : Given[t] = FirstWords(Message(s))[t]
      /\ \A t \in 17 .. 64 : Given[t] = NextWord(Given, t)
  BY ScheduleIs DEF Given
<1>4. \A t \in 0 .. 63 : Given[t + 1] \in Words
  <2>1. Given \in Seq(Words) /\ Len(Given) = 64
    BY ScheduleIs DEF Given
  <2>2. \A t \in 1 .. 64 : Given[t] \in Words
    BY <2>1, ElementOfSeq, Zenon
  <2> QED BY <2>2
<1>5. \A t \in 1 .. 64 : Rounds[t] = NextWorking(Rounds[t - 1], K[t], Given[t])
  BY HInitial, WorkingsAre DEF Rounds
<1>6. w = Given[i + 1]
  <2>1. CASE i < 16
    <3>1. i \in 0 .. 15 /\ i + 1 \in 1 .. 16
      BY <1>1, <2>1
    <3>2. BigEndian(i) = FirstWords(Message(s))[i + 1]
      BY <1>1, <3>1, BigEndianIs
    <3> QED BY <1>3, <2>1, <3>1, <3>2, Zenon
  <2>2. CASE ~(i < 16)
    <3>1. i \in Nat /\ i >= 16 /\ i + 1 \in 17 .. 64
      BY <1>1, <2>2
    <3>2. \A t \in Nat : t < i => W[t] = Given[t + 1] /\ W[t] \in Words
      <4>1. ASSUME NEW t \in Nat, t < i
            PROVE  t \in 0 .. 63
        <5>1. i \in 0 .. 63
          BY <1>1, Zenon
        <5> QED BY <4>1, <5>1
      <4> QED BY <1>1, <1>4, <4>1, Zenon
    <3>3. sha256_IE(W, i) = NextWord(Given, i + 1)
      BY <3>1, <3>2, ExpansionIs
    <3> QED BY <1>3, <2>2, <3>1, <3>3, Zenon
  <2> QED BY <2>1, <2>2, Zenon
<1> HIDE DEF w
<1>7. v' = Rounds[i + 1]
  <2>1. v' = NextWorking(v, K[i + 1], w)
    BY <1>1, <1>2, RoundIs, Zenon
  <2>2. i + 1 \in 1 .. 64 /\ (i + 1) - 1 = i
    <3>1. i \in 0 .. 63
      BY <1>1, Zenon
    <3> QED BY <3>1
  <2>3. Rounds[i + 1] = NextWorking(Rounds[i], K[i + 1], Given[i + 1])
    BY <1>5, <2>2
  <2> QED BY <1>1, <1>6, <2>1, <2>3, Zenon
<1>8. v' \in Working
  <2>1. v' = NextWorking(v, K[i + 1], w)
    BY <1>1, <1>2, RoundIs, Zenon
  <2> QED BY <1>1, <2>1, NextWorkingIs, Zenon
<1>9. /\ DOMAIN W' = 0 .. 63
      /\ \A t \in 0 .. 63 : t < i + 1 => W'[t] = Given[t + 1]
  <2>1. i \in 0 .. 63 /\ DOMAIN W = 0 .. 63
    BY <1>1, Zenon
  <2>2. DOMAIN W' = 0 .. 63
    BY <1>2, <2>1
  <2>3. W'[i] = Given[i + 1] /\ \A t \in 0 .. 63 : t # i => W'[t] = W[t]
    BY <1>2, <1>6, <2>1
  <2>4. \A t \in 0 .. 63 : t < i + 1 => t < i \/ t = i
    BY <2>1
  <2>5. \A t \in 0 .. 63 : t < i => t # i
    BY <2>1
  <2> QED BY <1>1, <2>2, <2>3, <2>4, <2>5, Zenon
<1>10. Given' = Given /\ Rounds' = Rounds
  BY <1>2 DEF Given, Rounds
<1>11. pc' = "round" => i' \in 0 .. 63
  BY <1>1, <1>2
<1>12. pc' = "finish" => i + 1 = 64
  BY <1>2
<1>13. pc' \in {"round", "finish"} /\ pc' # "idle"
  BY <1>2
<1>14. DigestCorrect'
  BY <1>13, Zenon DEF DigestCorrect, Printed
<1>15. pc' = "round" =>
         /\ Len(s') <= 55
         /\ i' \in 0 .. 63
         /\ raw_data' = Padded(s', Cleared)
         /\ \A t \in 0 .. 63 : t < i' => W'[t] = Given'[t + 1]
         /\ v' = Rounds'[i']
  BY <1>1, <1>2, <1>7, <1>9, <1>10, <1>11, Zenon
<1>16. pc' = "finish" => v' = IF Len(s') <= 55 THEN Rounds'[64] ELSE H
  BY <1>1, <1>2, <1>7, <1>10, <1>12, Zenon
<1>17. s' \in Seq(1 .. 255) /\ pc' \in {"idle", "round", "finish"}
  BY <1>1, <1>2, <1>13
<1> QED BY <1>8, <1>9, <1>14, <1>15, <1>16, <1>17, Zenon DEF IInv

(* What is printed are the digits of the digest, or of twice H.            *)
LEMMA FinishIInv ==
  ASSUME IInv, Finish
  PROVE  IInv'
<1>1. /\ s \in Seq(1 .. 255) /\ v \in Working /\ DOMAIN W = 0 .. 63
      /\ v = IF Len(s) <= 55 THEN Rounds[64] ELSE H
  BY Zenon DEF IInv, Finish
<1>2. /\ v' = [n \in 1 .. 8 |-> Plus(v[n], H[n])]
      /\ printed' = [n \in 1 .. 64 |-> Digits(v')[n - 1]]
      /\ pc' = "idle" /\ s' = s /\ W' = W
  BY DEF Finish
<1>3. v' \in Working
  BY <1>2, WordBits DEF Working
<1>4. printed' = Hex(v')
  BY <1>2, <1>3, DigitsAreHex, Zenon DEF Working
<1>5. ASSUME Len(s) <= 55
      PROVE  v' = SHA256(s)
  <2>1. SHA256(s) = [n \in 1 .. 8 |-> Plus(H[n], v[n])]
    BY <1>1, <1>5, SHA256Is, Zenon DEF Compress, Rounds, Given
  <2>2. \A n \in 1 .. 8 : Plus(H[n], v[n]) = Plus(v[n], H[n])
    BY PlusCommutes, Zenon
  <2> HIDE DEF Plus
  <2> QED BY <1>2, <2>1, <2>2
<1>6. ASSUME ~(Len(s) <= 55)
      PROVE  v' = [n \in 1 .. 8 |-> Plus(H[n], H[n])]
  <2>1. v = H
    BY <1>1, <1>6
  <2> QED BY <1>2, <2>1, Zenon
<1>7. DigestCorrect'
  BY <1>2, <1>4, <1>5, <1>6, Zenon DEF DigestCorrect
<1>8. /\ s' \in Seq(1 .. 255) /\ pc' \in {"idle", "round", "finish"}
      /\ pc' # "round" /\ pc' # "finish" /\ DOMAIN W' = 0 .. 63
  BY <1>1, <1>2
<1> QED BY <1>3, <1>7, <1>8, Zenon DEF IInv

LEMMA UnchangedIInv ==
  ASSUME IInv, UNCHANGED vars
  PROVE  IInv'
BY DEF IInv, vars, globals, DigestCorrect, Printed, Given, Rounds

LEMMA Inductive ==
  Spec => []IInv
<1>1. IInv /\ [Next]_vars => IInv'
  BY CallIInv, RoundIInv, FinishIInv, UnchangedIInv, Zenon DEF Next
<1> QED BY <1>1, InitIInv, PTL DEF Spec

(* What sha256 prints of a text of at most 55 bytes is its SHA-256, for    *)
(* every such text and whatever the calls before it were for: nothing that *)
(* stays in the global block, words and variables reaches the digest.  Of  *)
(* a longer text nothing is hashed, and all of them get one digest.        *)
THEOREM DigestIsSha256 ==
  Spec => []DigestCorrect
<1>1. IInv => DigestCorrect
  BY DEF IInv
<1> QED BY <1>1, Inductive, PTL

-----------------------------------------------------------------------------
(* dec_digit: a division by ten is one step down the powers of ten.        *)
LEMMA Quotients ==
  ASSUME NEW n \in Nat, TenDigits(n), NEW k \in 0 .. 9
  PROVE  /\ Quotient(n, k) \in Nat
         /\ Quotient(n, k) \div 10 = Quotient(n, k + 1)
BY SMT DEF TenDigits, Quotient, Tens

LEMMA Quotient10 == \A n : Quotient(n, 10) = 0
BY DEF Quotient

LEMMA Quotient0 == \A n \in Nat : Quotient(n, 0) = n
BY SMT DEF Quotient, Tens

(* The first loop divides as many digits away as it has counted; the       *)
(* second has written those behind index, and holds the number without     *)
(* them.                                                                   *)
Counting ==
  /\ length \in 0 .. 9
  /\ num = asked
  /\ num1 = Quotient(asked, length)
  /\ \A k \in 1 .. length : Quotient(asked, k) # 0
  /\ num_string = [j \in 0 .. SIZE - 1 |-> 0]

Writing ==
  /\ length \in 1 .. 10 /\ IsLength(asked, length)
  /\ index \in 1 .. length
  /\ num = Quotient(asked, length - index)
  /\ num_string = [j \in 0 .. SIZE - 1 |->
                     IF index <= j /\ j < length
                       THEN Digit(asked, length - 1 - j) ELSE 0]

DecInv ==
  /\ doing \in {"idle", "count", "write"}
  /\ doing # "idle" => asked \in Numbers
  /\ doing = "count" => Counting
  /\ doing = "write" => Writing
  /\ InDecimal

LEMMA CallDecInv ==
  ASSUME DecInv, NEW n \in Numbers, dec_digit(n)
  PROVE  DecInv'
<1>1. n \in Nat
  BY NumbersAssumption
<1>2. num1' = Quotient(asked', 0)
  BY <1>1, Quotient0 DEF dec_digit
<1>3. Counting'
  BY <1>2 DEF dec_digit, Counting, Blanked
<1> QED BY <1>3 DEF dec_digit, DecInv, InDecimal

LEMMA CountDecInv ==
  ASSUME DecInv, Count
  PROVE  DecInv'
<1>1. /\ asked \in Nat /\ TenDigits(asked) /\ asked \in Numbers
      /\ Counting
  BY NumbersAssumption DEF DecInv, Count
<1>2. /\ length \in 0 .. 9 /\ length + 1 \in 1 .. 10
      /\ num1 = Quotient(asked, length)
  BY <1>1 DEF Counting
<1>3. num1' = Quotient(asked, length + 1)
  BY <1>1, <1>2, Quotients DEF Count
<1>4. /\ length' = length + 1 /\ asked' = asked
      /\ num' = num /\ num_string' = num_string
  BY DEF Count
<1>5. CASE num1' = 0
  <2>1. doing' = "write" /\ index' = length'
    BY <1>5 DEF Count
  <2>2. IsLength(asked, length + 1)
    <3>1. (length + 1) - 1 = length
      BY <1>2
    <3> QED BY <1>1, <1>3, <1>5, <3>1 DEF Counting, IsLength
  <2>3. num = Quotient(asked, 0)
    BY <1>1, Quotient0 DEF Counting
  <2>4. Writing'
    <3>1. index' \in 1 .. length' /\ length' - index' = 0 /\ index' = length'
      BY <1>2, <1>4, <2>1
    <3>2. \A j \in 0 .. SIZE - 1 : ~(index' <= j /\ j < length')
      BY <3>1, <1>2, <1>4
    <3>3. num_string' =
            [j \in 0 .. SIZE - 1 |->
               IF index' <= j /\ j < length' THEN Digit(asked', length' - 1 - j)
               ELSE 0]
      BY <1>1, <1>4, <3>2 DEF Counting
    <3>4. num' = Quotient(asked', length' - index')
      BY <1>4, <2>3, <3>1
    <3>5. length' \in 1 .. 10 /\ IsLength(asked', length')
      BY <1>2, <1>4, <2>2
    <3> QED BY <3>1, <3>3, <3>4, <3>5 DEF Writing
  <2> QED BY <1>1, <1>4, <2>1, <2>4 DEF DecInv, InDecimal
<1>6. CASE num1' # 0
  <2>1. doing' = "count"
    BY <1>6 DEF Count
  <2>2. length + 1 # 10
    BY <1>3, <1>6, Quotient10
  <2>3. Counting'
    <3>1. length + 1 \in 0 .. 9
      BY <1>2, <2>2
    <3>2. \A k \in 1 .. length + 1 : Quotient(asked, k) # 0
      <4>1. \A k \in 1 .. length + 1 : k \in 1 .. length \/ k = length + 1
        BY <1>2
      <4> QED BY <1>1, <1>3, <1>6, <4>1, Zenon DEF Counting
    <3> QED BY <1>1, <1>3, <1>4, <3>1, <3>2 DEF Counting
  <2> QED BY <1>1, <1>4, <2>1, <2>3 DEF DecInv, InDecimal
<1> QED BY <1>5, <1>6

LEMMA WriteDecInv ==
  ASSUME DecInv, Write
  PROVE  DecInv'
<1>1. /\ asked \in Nat /\ TenDigits(asked) /\ asked \in Numbers
      /\ Writing
  BY NumbersAssumption DEF DecInv, Write
<1>2. /\ length \in 1 .. 10 /\ index \in 1 .. length
      /\ num = Quotient(asked, length - index)
  BY <1>1 DEF Writing
<1>3. PICK k \in 0 .. 9 : k = length - index
  BY <1>2
<1>4. num' = Quotient(asked, k + 1)
  BY <1>1, <1>2, <1>3, Quotients DEF Write
<1>5. /\ asked' = asked /\ length' = length /\ index' = index - 1
      /\ num_string' = [num_string EXCEPT ![index - 1] = Digit(asked, k)]
  BY <1>2, <1>3 DEF Write, Digit
<1>6. num_string' = [j \in 0 .. SIZE - 1 |->
                       IF index - 1 <= j /\ j < length
                         THEN Digit(asked, length - 1 - j) ELSE 0]
  <2>1. index - 1 \in 0 .. SIZE - 1 /\ length - 1 - (index - 1) = k
    BY <1>2, <1>3 DEF SIZE
  <2>2. \A j \in 0 .. SIZE - 1 : index - 1 <= j <=> index <= j \/ j = index - 1
    BY <1>2 DEF SIZE
  <2>3. index - 1 < length /\ ~(index <= index - 1)
    BY <1>2
  <2> HIDE DEF Digit, SIZE
  <2> QED BY <1>1, <1>5, <2>1, <2>2, <2>3 DEF Writing
<1>7. num' = 0 <=> index - 1 = 0
  <2>1. ASSUME index - 1 # 0 PROVE num' # 0
    <3>1. k + 1 \in 1 .. length - 1
      BY <1>2, <1>3, <2>1
    <3> QED BY <1>1, <1>4, <3>1 DEF Writing, IsLength
  <2>2. ASSUME index - 1 = 0 PROVE num' = 0
    <3>1. k + 1 = length
      BY <1>2, <1>3, <2>2
    <3> QED BY <1>1, <1>4, <3>1 DEF Writing, IsLength
  <2> QED BY <2>1, <2>2
<1>8. CASE index - 1 = 0
  <2>1. doing' = "idle"
    BY <1>5, <1>8 DEF Write
  <2>2. num_string' = [j \in 0 .. SIZE - 1 |->
                         IF j < length THEN Digit(asked, length - 1 - j) ELSE 0]
    <3>1. \A j \in 0 .. SIZE - 1 : index - 1 <= j
      BY <1>8
    <3> QED BY <1>6, <3>1
  <2>3. InDecimal'
    <3>1. IsLength(asked, length)
      BY <1>1 DEF Writing
    <3>2. IsLength(asked, length)'
      BY <1>5, <3>1 DEF IsLength, Quotient
    <3>3. num_string' =
            [j \in 0 .. SIZE - 1 |->
               IF j < length THEN Digit(asked', length - 1 - j) ELSE 0]
      BY <1>5, <2>2, Zenon
    <3>4. IsLength(asked', length)
      BY <1>5, <3>2, Zenon
    <3> HIDE DEF Digit, IsLength
    <3> QED BY <1>2, <3>3, <3>4 DEF InDecimal
  <2> QED BY <2>1, <2>3 DEF DecInv
<1>9. CASE index - 1 # 0
  <2>1. doing' = "write"
    BY <1>5, <1>7, <1>9 DEF Write
  <2>2. Writing'
    <3>1. index - 1 \in 1 .. length /\ length - (index - 1) = k + 1
      BY <1>2, <1>3, <1>9
    <3>2. IsLength(asked, length)
      BY <1>1 DEF Writing
    <3> QED BY <1>2, <1>4, <1>5, <1>6, <3>1, <3>2 DEF Writing, IsLength, Digit
  <2> QED BY <1>1, <1>5, <2>1, <2>2 DEF DecInv, InDecimal
<1> QED BY <1>8, <1>9

(* What dec_digit leaves in num_string is the number, in decimal and       *)
(* ended by a NUL, for every uint32_t and whatever it was called for       *)
(* before: the two loops agree about where the first digit is.             *)
THEOREM NumStringInDecimal ==
  DecSpec => []InDecimal
<1>1. DecInit => DecInv
  BY DEF DecInit, DecInv, InDecimal
<1>2. DecInv /\ [DecNext]_decVars => DecInv'
  <2>1. DecInv /\ UNCHANGED decVars => DecInv'
    BY DEF DecInv, decVars, Counting, Writing, InDecimal, IsLength, Quotient,
           Digit
  <2> QED BY <2>1, CallDecInv, CountDecInv, WriteDecInv, Zenon DEF DecNext
<1>3. DecInv => InDecimal
  BY DEF DecInv
<1> QED BY <1>1, <1>2, <1>3, PTL DEF DecSpec
=============================================================================
