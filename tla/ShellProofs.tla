----------------------------- MODULE ShellProofs -----------------------------
(***************************************************************************)
(* The line buffer, for every buffer size and every set of commands.       *)
(***************************************************************************)
EXTENDS Shell, WellFoundedInduction, TLAPS

LineType == line \in Seq(Keys) /\ Len(line) <= MaxLine
BufferType == command \in [0 .. SIZE - 1 -> Keys \cup {NUL}]

(* No line reaches the end of the buffer, which is as it was at the start. *)
EndIsNul == \A i \in 0 .. SIZE - 1 : i \notin 1 .. MaxLine => command[i] = NUL

IInv == LineType /\ BufferType /\ BufferHoldsLine /\ EndIsNul

LEMMA InitIInv == Init => IInv
<1> SUFFICES ASSUME Init PROVE IInv
  OBVIOUS
<1>1. LineType
  BY BufferAssumption DEF Init, LineType
<1>2. BufferType
  BY DEF Init, BufferType, EmptyBuffer
<1>3. BufferHoldsLine
  BY DEF Init, BufferHoldsLine, EmptyBuffer, Blanks, PROMPT
<1>4. EndIsNul
  BY DEF Init, EndIsNul, EmptyBuffer
<1> QED BY <1>1, <1>2, <1>3, <1>4 DEF IInv

LEMMA TypeIInv ==
  ASSUME IInv, NEW k \in Keys, Type(k)
  PROVE  IInv'
<1> DEFINE n == Len(line)
<1>1. n \in Nat /\ n < MaxLine /\ line \in Seq(Keys)
  BY DEF IInv, LineType, Type
<1>2. /\ line' \in Seq(Keys) /\ Len(line') = n + 1 /\ line'[n + 1] = k
      /\ \A i \in 1 .. n : line'[i] = line[i]
  BY <1>1 DEF Type
<1>3. cmd_char_num = PROMPT + n
  BY DEF IInv, BufferHoldsLine
<1>4. cmd_char_num + 1 - PROMPT = n + 1 /\ n + 1 \in 0 .. SIZE - 1
  BY <1>1, <1>3, BufferAssumption DEF PROMPT
<1>5. /\ command' \in [0 .. SIZE - 1 -> Keys \cup {NUL}]
      /\ command'[n + 1] = k
      /\ \A i \in 0 .. SIZE - 1 : i # n + 1 => command'[i] = command[i]
  BY <1>4 DEF IInv, BufferType, Type
<1>6. cmd_char_num' = PROMPT + Len(line')
  BY <1>1, <1>2, <1>3 DEF Type, PROMPT
<1>7. ASSUME NEW i \in 0 .. SIZE - 1
      PROVE  IF i \in 1 .. Len(line') THEN command'[i] = line'[i]
                                      ELSE command'[i] \in Blanks
  <2>1. CASE i = n + 1
    BY <1>1, <1>2, <1>5, <2>1
  <2>2. CASE i # n + 1
    <3>1. i \in 1 .. n + 1 <=> i \in 1 .. n
      BY <1>1, <2>2
    <3>2. IF i \in 1 .. n THEN command[i] = line[i] ELSE command[i] \in Blanks
      BY DEF IInv, BufferHoldsLine
    <3> QED BY <1>2, <1>5, <2>2, <3>1, <3>2
  <2> QED BY <2>1, <2>2
<1>8. LineType' /\ BufferType'
  BY <1>1, <1>2, <1>5, BufferAssumption DEF LineType, BufferType
<1>9. BufferHoldsLine'
  BY <1>6, <1>7 DEF BufferHoldsLine
<1>10. EndIsNul'
  BY <1>1, <1>5, BufferAssumption DEF IInv, EndIsNul
<1> QED BY <1>8, <1>9, <1>10 DEF IInv

LEMMA BackSpaceIInv ==
  ASSUME IInv, back_space
  PROVE  IInv'
<1> DEFINE n == Len(line)
<1>1. n \in Nat /\ n <= MaxLine /\ line \in Seq(Keys)
  BY DEF IInv, LineType
<1>2. cmd_char_num = PROMPT + n
  BY DEF IInv, BufferHoldsLine
<1>3. n > 0 /\ cmd_char_num - PROMPT = n /\ n \in 0 .. SIZE - 1
  BY <1>1, <1>2, BufferAssumption DEF back_space, PROMPT
<1>4. /\ line' \in Seq(Keys) /\ Len(line') = n - 1
      /\ \A i \in 1 .. n - 1 : line'[i] = line[i]
  BY <1>1, <1>3 DEF back_space
<1>5. /\ command' \in [0 .. SIZE - 1 -> Keys \cup {NUL}]
      /\ command'[n] = NUL
      /\ \A i \in 0 .. SIZE - 1 : i # n => command'[i] = command[i]
  BY <1>3 DEF IInv, BufferType, back_space
<1>6. cmd_char_num' = PROMPT + Len(line')
  BY <1>1, <1>2, <1>4 DEF back_space, PROMPT
<1>7. ASSUME NEW i \in 0 .. SIZE - 1
      PROVE  IF i \in 1 .. Len(line') THEN command'[i] = line'[i]
                                      ELSE command'[i] \in Blanks
  <2>1. CASE i = n
    BY <1>1, <1>4, <1>5, <2>1 DEF Blanks
  <2>2. CASE i # n
    <3>1. i \in 1 .. n - 1 <=> i \in 1 .. n
      BY <1>1, <2>2
    <3>2. IF i \in 1 .. n THEN command[i] = line[i] ELSE command[i] \in Blanks
      BY DEF IInv, BufferHoldsLine
    <3> QED BY <1>4, <1>5, <2>2, <3>1, <3>2
  <2> QED BY <2>1, <2>2
<1>8. n - 1 <= MaxLine
  BY <1>1, BufferAssumption
<1>9. LineType' /\ BufferType'
  BY <1>4, <1>5, <1>8 DEF LineType, BufferType
<1>10. BufferHoldsLine'
  BY <1>6, <1>7 DEF BufferHoldsLine
<1>11. EndIsNul'
  BY <1>5 DEF IInv, EndIsNul
<1> QED BY <1>9, <1>10, <1>11 DEF IInv

(* A blank line leaves a blank buffer, any other a cleared one.            *)
LEMMA EnterIInv ==
  ASSUME IInv, enter
  PROVE  IInv'
<1>1. line' = << >> /\ cmd_char_num' = PROMPT
  BY DEF enter
<1>2. CASE NonBlank(command) = {}
  <2>1. command' = command
    BY <1>2 DEF enter
  <2>2. \A i \in 0 .. SIZE - 1 : command'[i] \in Blanks
    BY <1>2, <2>1 DEF NonBlank
  <2> QED BY <1>1, <2>1, <2>2, BufferAssumption DEF IInv, LineType, BufferType,
                BufferHoldsLine, EndIsNul, PROMPT
<1>3. CASE NonBlank(command) # {}
  <2>1. command' = EmptyBuffer
    BY <1>3 DEF enter
  <2> QED BY <1>1, <2>1, BufferAssumption DEF IInv, LineType, BufferType,
                BufferHoldsLine, EndIsNul, EmptyBuffer, Blanks, PROMPT
<1> QED BY <1>2, <1>3

LEMMA NextIInv == IInv /\ [Next]_vars => IInv'
<1> SUFFICES ASSUME IInv, [Next]_vars PROVE IInv'
  OBVIOUS
<1>1. CASE UNCHANGED vars
  BY <1>1 DEF vars, IInv, LineType, BufferType, BufferHoldsLine, EndIsNul
<1> QED BY <1>1, TypeIInv, BackSpaceIInv, EnterIInv DEF Next

(* Whatever is typed, erased and entered, command[] holds the line on the  *)
(* screen and only blanks behind it.                                       *)
THEOREM BufferAlwaysHoldsLine == Spec => []BufferHoldsLine
<1>1. IInv => BufferHoldsLine
  BY DEF IInv
<1> QED BY <1>1, InitIInv, NextIInv, PTL DEF Spec
-----------------------------------------------------------------------------
(* Buffers that hold the line: command[] and Fresh differ only in what is  *)
(* blank.                                                                  *)
Holds(b) ==
  /\ b \in [0 .. SIZE - 1 -> Keys \cup {NUL}]
  /\ \A i \in 0 .. SIZE - 1 :
       /\ i \in 1 .. Len(line) => b[i] = line[i]
       /\ i \notin 1 .. Len(line) => b[i] \in Blanks
       /\ i \notin 1 .. MaxLine => b[i] = NUL

LEMMA BothHold ==
  ASSUME IInv
  PROVE  /\ Holds(command) /\ Holds(Fresh)
         /\ \A i \in 0 .. SIZE - 1 : i \notin 1 .. Len(line) => Fresh[i] = NUL
         /\ Len(line) \in Nat /\ Len(line) <= MaxLine
         /\ \A i \in 1 .. Len(line) : line[i] # NUL
<1>1. /\ line \in Seq(Keys) /\ Len(line) \in Nat /\ Len(line) <= MaxLine
      /\ \A i \in 1 .. Len(line) : line[i] \in Keys /\ line[i] # NUL
  BY BufferAssumption DEF IInv, LineType
<1>2. Holds(command)
  BY DEF IInv, BufferType, BufferHoldsLine, EndIsNul, Holds
<1>3. /\ Fresh \in [0 .. SIZE - 1 -> Keys \cup {NUL}]
      /\ \A i \in 0 .. SIZE - 1 :
           Fresh[i] = IF i \in 1 .. Len(line) THEN line[i] ELSE NUL
  BY <1>1 DEF Fresh
<1>4. \A i \in 0 .. SIZE - 1 : i \notin 1 .. MaxLine => i \notin 1 .. Len(line)
  BY <1>1, BufferAssumption
<1>5. Holds(Fresh)
  BY <1>1, <1>3, <1>4 DEF Holds, Blanks
<1> QED BY <1>1, <1>2, <1>3, <1>5

LEMMA LeastExists ==
  ASSUME NEW S \in SUBSET Nat, S # {}
  PROVE  \E i \in S : \A j \in S : i <= j
<1>1. \E x \in S : \A y \in S : ~(<<y, x>> \in OpToRel(<, Nat))
  BY WFMin, NatLessThanWellFounded, Zenon
<1>2. \A x, y \in Nat : y < x => <<y, x>> \in OpToRel(<, Nat)
  BY Zenon DEF OpToRel
<1>3. \E x \in S : \A y \in S : ~(y < x)
  BY <1>1, <1>2, Zenon
<1> QED BY <1>3

(* The dispatch sees the same words at the same places.                    *)
LEMMA SameSolid ==
  ASSUME NEW b, NEW c, Holds(b), Holds(c), NEW i \in 0 .. SIZE - 1
  PROVE  /\ b[i] \in Blanks <=> c[i] \in Blanks
         /\ b[i] \notin Blanks => b[i] = c[i]
BY DEF Holds

LEMMA SameStart ==
  ASSUME NEW b, NEW c, Holds(b), Holds(c), Len(line) \in Nat,
         Len(line) <= MaxLine
  PROVE  /\ NonBlank(b) = NonBlank(c)
         /\ cmd_calculate(b) = cmd_calculate(c)
         /\ NonBlank(b) # {} => cmd_calculate(b) \in 1 .. MaxLine
<1>1. NonBlank(b) = NonBlank(c)
  BY SameSolid DEF NonBlank
<1>2. cmd_calculate(b) = cmd_calculate(c)
  BY <1>1 DEF cmd_calculate
<1>3. ASSUME NonBlank(b) # {} PROVE cmd_calculate(b) \in 1 .. MaxLine
  <2>1. NonBlank(b) \in SUBSET Nat
    BY BufferAssumption DEF NonBlank
  <2>2. \E i \in NonBlank(b) : \A j \in NonBlank(b) : i <= j
    BY <1>3, <2>1, LeastExists
  <2>3. cmd_calculate(b) \in NonBlank(b)
    BY <2>2 DEF cmd_calculate
  <2>4. NonBlank(b) \subseteq 1 .. MaxLine
    BY BufferAssumption DEF NonBlank, Holds
  <2> QED BY <2>3, <2>4
<1> QED BY <1>1, <1>2, <1>3

LEMMA SameWord ==
  ASSUME NEW b, NEW c, Holds(b), Holds(c), NEW base \in Nat,
         NEW s \in Seq(Keys \ {SPACE}), base + Len(s) < SIZE
  PROVE  cmd_code_check(b, base, s) <=> cmd_code_check(c, base, s)
<1>1. Len(s) \in Nat /\ \A i \in 1 .. Len(s) : s[i] \in Keys \ {SPACE}
  OBVIOUS
<1>2. \A i \in 1 .. Len(s) : s[i] \notin Blanks
  BY <1>1, BufferAssumption DEF Blanks
<1>3. \A i \in 1 .. Len(s) : base + i - 1 \in 0 .. SIZE - 1
  BY <1>1, BufferAssumption
<1>4. \A i \in 1 .. Len(s) : b[base + i - 1] = s[i] <=> c[base + i - 1] = s[i]
  BY <1>2, <1>3, SameSolid
<1>5. base + Len(s) \in 0 .. SIZE - 1
  BY <1>1, BufferAssumption
<1>6. b[base + Len(s)] \in Blanks <=> c[base + Len(s)] \in Blanks
  BY <1>5, SameSolid
<1> QED BY <1>4, <1>6 DEF cmd_code_check

LEMMA SameColor ==
  ASSUME NEW b, NEW c, Holds(b), Holds(c), NEW base \in Nat, base + 3 < SIZE
  PROVE  SetColor(b, base) = SetColor(c, base)
<1>1. \A i \in base .. base + 3 : i \in 0 .. SIZE - 1
  BY BufferAssumption
<1>2. \A i \in base .. base + 3 : \A S : S \subseteq Keys \ {SPACE} =>
        /\ b[i] \in S <=> c[i] \in S
        /\ b[i] \in S => b[i] = c[i]
  BY <1>1, SameSolid, BufferAssumption DEF Blanks
<1>3. /\ base \in base .. base + 3 /\ base + 1 \in base .. base + 3
      /\ base + 2 \in base .. base + 3 /\ base + 3 \in base .. base + 3
      /\ base + 2 + 1 = base + 3
  OBVIOUS
<1>4. b[base] = ZERO <=> c[base] = ZERO
  <2>1. {ZERO} \subseteq Keys \ {SPACE}
    BY BufferAssumption
  <2> QED BY <1>2, <1>3, <2>1
<1>5. b[base + 1] \in EX <=> c[base + 1] \in EX
  BY <1>2, <1>3, BufferAssumption
<1>6. ASSUME NEW at \in {base, base + 2}
      PROVE  /\ b[at] \in HexDigits <=> c[at] \in HexDigits
             /\ b[at + 1] \in HexDigits <=> c[at + 1] \in HexDigits
             /\ b[at] \in HexDigits => b[at] = c[at]
             /\ b[at + 1] \in HexDigits => b[at + 1] = c[at + 1]
  BY <1>2, <1>3, BufferAssumption
<1> DEFINE at == IF b[base] = ZERO /\ b[base + 1] \in EX THEN base + 2 ELSE base
<1>7. at \in {base, base + 2}
  OBVIOUS
<1>8. SetColor(b, base) =
        IF b[at] \in HexDigits /\ b[at + 1] \in HexDigits
        THEN <<"color", <<b[at], b[at + 1]>>>> ELSE <<"color error">>
  BY DEF SetColor
<1>9. SetColor(c, base) =
        IF c[at] \in HexDigits /\ c[at + 1] \in HexDigits
        THEN <<"color", <<c[at], c[at + 1]>>>> ELSE <<"color error">>
  BY <1>4, <1>5 DEF SetColor
<1> HIDE DEF at
<1>10. CASE b[at] \in HexDigits /\ b[at + 1] \in HexDigits
  <2>1. /\ c[at] \in HexDigits /\ c[at + 1] \in HexDigits
        /\ b[at] = c[at] /\ b[at + 1] = c[at + 1]
    BY <1>6, <1>7, <1>10
  <2> QED BY <1>8, <1>9, <1>10, <2>1
<1>11. CASE ~(b[at] \in HexDigits /\ b[at + 1] \in HexDigits)
  <2>1. ~(c[at] \in HexDigits /\ c[at + 1] \in HexDigits)
    BY <1>6, <1>7, <1>11
  <2> QED BY <1>8, <1>9, <1>11, <2>1
<1> QED BY <1>10, <1>11

-----------------------------------------------------------------------------
(* The text that printf and sha256 read ends before the first NUL.         *)
TextEnd(b, base, end) ==
  /\ end \in base .. SIZE - 1
  /\ b[end] = NUL
  /\ \A i \in base .. end - 1 : b[i] # NUL
  /\ StringAt(b, base) = [i \in 1 .. end - base |-> b[base + i - 1]]

LEMMA TextEnds ==
  ASSUME NEW b, Holds(b), NEW base \in 1 .. SIZE - 1, MaxLine + 1 < SIZE
  PROVE  \E end : TextEnd(b, base, end)
<1> DEFINE ends == {i \in base .. SIZE - 1 : b[i] = NUL}
           end == CHOOSE i \in ends : \A j \in ends : i <= j
<1>1. SIZE - 1 \in ends
  <2>1. SIZE - 1 \in 0 .. SIZE - 1 /\ SIZE - 1 \notin 1 .. MaxLine
    BY BufferAssumption
  <2>2. b[SIZE - 1] = NUL
    BY <2>1 DEF Holds
  <2> QED BY <2>2, BufferAssumption
<1>2. ends \in SUBSET Nat
  BY BufferAssumption
<1>3. \E i \in ends : \A j \in ends : i <= j
  <2> HIDE DEF ends
  <2> QED BY <1>1, <1>2, LeastExists
<1>4. end \in ends /\ \A j \in ends : end <= j
  <2> HIDE DEF ends
  <2> QED BY <1>3
<1>5. StringAt(b, base) = [i \in 1 .. end - base |-> b[base + i - 1]]
  BY DEF StringAt
<1> HIDE DEF end
<1>6. \A i \in base .. end - 1 : b[i] # NUL
  BY <1>4, BufferAssumption
<1> QED BY <1>4, <1>5, <1>6 DEF TextEnd

(* Blanks at the end of a text do not show in what is left of it.          *)
LEMMA SameTrimmed ==
  ASSUME NEW m \in Nat, NEW n \in Nat, n <= m, NEW s, NEW t,
         s \in [1 .. m -> Keys], t \in [1 .. n -> Keys],
         \A i \in 1 .. n : s[i] = t[i],
         \A i \in 1 .. m : i > n => s[i] = SPACE
  PROVE  Trimmed(s) = Trimmed(t)
<1>1. /\ s \in Seq(Keys) /\ Len(s) = m
      /\ t \in Seq(Keys) /\ Len(t) = n
  OBVIOUS
<1> DEFINE Solid(u) == {i \in 1 .. Len(u) : u[i] # SPACE}
           Last(S) == CHOOSE i \in S : \A j \in S : j <= i
           solid == Solid(t)
           last == Last(solid)
<1>2. Solid(s) = Solid(t)
  BY <1>1
<1>3. /\ Trimmed(s) = IF solid = {} THEN << >> ELSE SubSeq(s, 1, last)
      /\ Trimmed(t) = IF solid = {} THEN << >> ELSE SubSeq(t, 1, last)
  <2>1. \A u : Trimmed(u) = IF Solid(u) = {} THEN << >>
                            ELSE SubSeq(u, 1, Last(Solid(u)))
    BY DEF Trimmed
  <2> HIDE DEF Solid, Last
  <2> QED BY <1>2, <2>1
<1>4. ASSUME solid # {} PROVE last \in 1 .. n
  <2> DEFINE above == {n - i : i \in solid}
  <2>1. above \in SUBSET Nat /\ above # {}
    BY <1>1, <1>4
  <2>2. \E x \in above : \A y \in above : x <= y
    <3> HIDE DEF above
    <3> QED BY <2>1, LeastExists
  <2>3. \E i \in solid : \A j \in solid : n - i <= n - j
    BY <2>2
  <2>4. \E i \in solid : \A j \in solid : j <= i
    BY <1>1, <2>3
  <2>5. last \in solid
    <3> HIDE DEF solid
    <3> QED BY <2>4
  <2> QED BY <1>1, <2>5
<1> HIDE DEF solid, last
<1>5. ASSUME solid # {} PROVE SubSeq(s, 1, last) = SubSeq(t, 1, last)
  <2>1. last \in 1 .. n /\ last \in 1 .. m
    BY <1>4, <1>5
  <2>2. /\ SubSeq(s, 1, last) = [i \in 1 .. last |-> s[i]]
        /\ SubSeq(t, 1, last) = [i \in 1 .. last |-> t[i]]
    BY <1>1, <2>1
  <2>3. \A i \in 1 .. last : s[i] = t[i]
    BY <2>1
  <2>4. [i \in 1 .. last |-> s[i]] = [i \in 1 .. last |-> t[i]]
    BY <2>3
  <2> QED BY <2>2, <2>4
<1>6. CASE solid = {}
  BY <1>3, <1>6, Zenon
<1>7. CASE solid # {}
  BY <1>3, <1>5, <1>7, Zenon
<1> QED BY <1>6, <1>7

LEMMA SameText ==
  ASSUME IInv, NEW base \in 1 .. SIZE - 1, MaxLine + 1 < SIZE
  PROVE  Trimmed(StringAt(command, base)) = Trimmed(StringAt(Fresh, base))
<1>1. /\ Holds(command) /\ Holds(Fresh)
      /\ \A i \in 0 .. SIZE - 1 : i \notin 1 .. Len(line) => Fresh[i] = NUL
      /\ Len(line) \in Nat
      /\ \A i \in 1 .. Len(line) : line[i] # NUL
  BY BothHold
<1>a. PICK e : TextEnd(command, base, e)
  BY <1>1, TextEnds
<1>2. /\ e \in base .. SIZE - 1
      /\ command[e] = NUL
      /\ \A i \in base .. e - 1 : command[i] # NUL
      /\ StringAt(command, base) = [i \in 1 .. e - base |-> command[base + i - 1]]
  BY <1>a DEF TextEnd
<1>b. PICK f : TextEnd(Fresh, base, f)
  BY <1>1, TextEnds
<1>3. /\ f \in base .. SIZE - 1
      /\ Fresh[f] = NUL
      /\ \A i \in base .. f - 1 : Fresh[i] # NUL
      /\ StringAt(Fresh, base) = [i \in 1 .. f - base |-> Fresh[base + i - 1]]
  BY <1>b DEF TextEnd
<1>4. /\ \A i \in base .. SIZE - 1 : i \in 0 .. SIZE - 1
      /\ base \in Nat /\ e \in Nat /\ f \in Nat /\ base > 0
      /\ base <= e /\ base <= f /\ e < SIZE /\ f < SIZE
  BY <1>2, <1>3, BufferAssumption
<1>5. e \notin 1 .. Len(line) /\ f \notin 1 .. Len(line)
  BY <1>1, <1>2, <1>3, <1>4 DEF Holds
<1>6. \A i \in base .. f - 1 : i \in 1 .. Len(line)
  <2> TAKE i \in base .. f - 1
  <2>1. i \in 0 .. SIZE - 1
    BY <1>4, BufferAssumption
  <2>2. Fresh[i] # NUL
    BY <1>3
  <2>3. i \notin 1 .. Len(line) => Fresh[i] = NUL
    BY <1>1, <2>1
  <2> QED BY <2>2, <2>3
<1>7. f <= e
  <2>1. e \in base .. f - 1 \/ f <= e
    BY <1>4
  <2> QED BY <1>5, <1>6, <2>1
<1>8. \A i \in base .. f - 1 : command[i] = Fresh[i] /\ command[i] \in Keys
  <2> TAKE i \in base .. f - 1
  <2>1. i \in 1 .. Len(line) /\ i \in 0 .. SIZE - 1
    BY <1>4, <1>6, BufferAssumption
  <2>2. command[i] = line[i] /\ Fresh[i] = line[i] /\ command[i] \in Keys \cup {NUL}
    BY <1>1, <2>1 DEF Holds
  <2> QED BY <1>1, <2>1, <2>2
<1>9. \A i \in f .. e - 1 : command[i] = SPACE
  <2> TAKE i \in f .. e - 1
  <2>1. i \in 0 .. SIZE - 1 /\ i \in base .. e - 1 /\ i \notin 1 .. Len(line)
    BY <1>1, <1>4, <1>5, <1>6, BufferAssumption
  <2>2. command[i] \in Blanks /\ command[i] # NUL
    BY <1>1, <1>2, <2>1 DEF Holds
  <2> QED BY <2>2 DEF Blanks
<1> DEFINE s == StringAt(command, base)
           t == StringAt(Fresh, base)
<1>10. e - base \in Nat /\ f - base \in Nat /\ f - base <= e - base
  BY <1>4, <1>7
<1>11. \A i \in 1 .. f - base : base + i - 1 \in base .. f - 1
  BY <1>4
<1>12. \A i \in 1 .. e - base :
         IF i > f - base THEN base + i - 1 \in f .. e - 1
                         ELSE base + i - 1 \in base .. f - 1
  BY <1>4, <1>7
<1>13. s \in [1 .. e - base -> Keys]
  BY <1>2, <1>8, <1>9, <1>12, BufferAssumption
<1>14. t \in [1 .. f - base -> Keys]
  BY <1>3, <1>8, <1>11
<1>15. \A i \in 1 .. f - base : s[i] = t[i]
  <2> TAKE i \in 1 .. f - base
  <2>1. i \in 1 .. e - base
    BY <1>10
  <2> QED BY <1>2, <1>3, <1>8, <1>11, <2>1
<1>16. \A i \in 1 .. e - base : i > f - base => s[i] = SPACE
  BY <1>2, <1>9, <1>12
<1> HIDE DEF s, t
<1>17. Trimmed(s) = Trimmed(t)
  BY <1>10, <1>13, <1>14, <1>15, <1>16, SameTrimmed
<1> QED BY <1>17 DEF s, t
-----------------------------------------------------------------------------
(* Only a command with two hexadecimal digits sets the colour.             *)
LEMMA ColorOutcome ==
  ASSUME NEW b, NEW base, code(b, base)[1] = "color"
  PROVE  code(b, base)[2] \in HexDigits \X HexDigits
<1>1. ASSUME NEW at, SetColor(b, at)[1] = "color"
      PROVE  SetColor(b, at)[2] \in HexDigits \X HexDigits
  BY <1>1 DEF SetColor
<1>2. \A at : HashOf(b, at)[1] # "color"
  BY DEF HashOf
<1>3. \A at : PrintString(b, at)[1] # "color"
  BY DEF PrintString
<1>4. \A at, w : KeywordArgument(b, at, w)[1] # "color"
  BY DEF KeywordArgument
<1>5. <<"help">>[1] # "color" /\ <<"no command">>[1] # "color"
  OBVIOUS
<1> QED BY <1>1, <1>2, <1>3, <1>4, <1>5 DEF code

OutcomeType == color \in (HexDigits \X HexDigits) \cup {NORMAL}

LEMMA NextOutcome == OutcomeType /\ [Next]_vars => OutcomeType'
<1> SUFFICES ASSUME OutcomeType, [Next]_vars PROVE OutcomeType'
  OBVIOUS
<1>1. CASE UNCHANGED color
  BY <1>1 DEF OutcomeType
<1>2. CASE enter /\ color' # color
  <2>1. Dispatch(command)[1] = "color" /\ color' = Dispatch(command)[2]
    BY <1>2 DEF enter
  <2>2. Dispatch(command) = code(command, cmd_calculate(command))
    BY <2>1 DEF Dispatch
  <2> QED BY <2>1, <2>2, ColorOutcome DEF OutcomeType
<1> QED BY <1>1, <1>2 DEF Next, Type, back_space, vars

(* The count and the line keep step and stay within the bound, and the     *)
(* colour is the first one or one that was asked for.                      *)
THEOREM TypeCorrect == Spec => []TypeOK
<1>1. Init => OutcomeType
  BY DEF Init, OutcomeType
<1>2. IInv /\ OutcomeType => TypeOK
  <2> SUFFICES ASSUME IInv, OutcomeType PROVE TypeOK
    OBVIOUS
  <2>1. cmd_char_num \in PROMPT .. PROMPT + MaxLine
    BY BufferAssumption DEF IInv, LineType, BufferHoldsLine, PROMPT
  <2> QED BY <2>1 DEF IInv, LineType, BufferType, OutcomeType, TypeOK
<1> QED BY <1>1, <1>2, InitIInv, NextIInv, NextOutcome, PTL DEF Spec

-----------------------------------------------------------------------------
(* The outcome of a line, command by command.                              *)
LEMMA UpToBlanksOf ==
  /\ \A t : UpToBlanks(<<"pr", t>>) = <<"pr", Trimmed(t)>>
  /\ \A t : UpToBlanks(<<"hash", t>>) = <<"hash", Trimmed(t)>>
  /\ UpToBlanks(<<"press string">>) = <<"pr", << >>>>
BY DEF UpToBlanks

LEMMA SameHash ==
  ASSUME IInv, NEW base \in 1 .. SIZE - 1,
         \A a \in Algorithms : base + Len(a) + 1 < SIZE,
         MaxLine + 1 < SIZE
  PROVE  UpToBlanks(HashOf(command, base)) = UpToBlanks(HashOf(Fresh, base))
<1> DEFINE Found(b) == {a \in Algorithms : cmd_code_check(b, base, a)}
           alg(S) == CHOOSE a \in S : TRUE
           Text(b) == StringAt(b, base + Len(alg(Found(b))) + 1)
<1>1. \A a \in Algorithms : a \in Seq(Keys \ {SPACE}) /\ Len(a) \in Nat
  BY WordsAssumption DEF ArgumentWords
<1>2. base \in Nat
  BY BufferAssumption
<1>3. Found(command) = Found(Fresh)
  <2>1. \A a \in Algorithms : base + Len(a) < SIZE
    BY <1>1, <1>2, BufferAssumption
  <2> QED BY <1>1, <1>2, <2>1, SameWord, BothHold
<1>4. \A b : HashOf(b, base) =
               IF Found(b) = {} THEN <<"unknown algorithm">>
               ELSE <<"hash", Text(b)>>
  BY DEF HashOf
<1> HIDE DEF Found
<1>5. CASE Found(Fresh) = {}
  BY <1>3, <1>4, <1>5
<1>6. CASE Found(Fresh) # {}
  <2> DEFINE a == alg(Found(Fresh))
  <2>1. a \in Algorithms
    BY <1>6 DEF Found
  <2> HIDE DEF a
  <2>2. base + Len(a) + 1 \in 1 .. SIZE - 1
    BY <1>1, <1>2, <2>1, BufferAssumption
  <2>3. Trimmed(StringAt(command, base + Len(a) + 1))
          = Trimmed(StringAt(Fresh, base + Len(a) + 1))
    BY <2>2, SameText
  <2>4. /\ HashOf(command, base) = <<"hash", StringAt(command, base + Len(a) + 1)>>
        /\ HashOf(Fresh, base) = <<"hash", StringAt(Fresh, base + Len(a) + 1)>>
    BY <1>3, <1>4, <1>6 DEF a
  <2> QED BY <2>3, <2>4, UpToBlanksOf
<1> QED BY <1>5, <1>6

LEMMA SameKeyword ==
  ASSUME IInv, NEW base \in 1 .. SIZE - 1, NEW w \in DOMAIN Keyword,
         \A a \in Keyword[w] : base + Len(a) < SIZE
  PROVE  KeywordArgument(command, base, w) = KeywordArgument(Fresh, base, w)
<1>1. \A a \in Keyword[w] : a \in Seq(Keys \ {SPACE})
  BY WordsAssumption DEF ArgumentWords
<1>2. {a \in Keyword[w] : cmd_code_check(command, base, a)}
        = {a \in Keyword[w] : cmd_code_check(Fresh, base, a)}
  BY <1>1, SameWord, BothHold, BufferAssumption
<1> QED BY <1>2 DEF KeywordArgument

(* A line that ends with the word "pr" prints nothing, and so does one     *)
(* with blanks behind it.                                                  *)
LEMMA SamePrint ==
  ASSUME IInv, NEW base \in 1 .. MaxLine, cmd_code_check(command, base, Pr)
  PROVE  UpToBlanks(PrintString(command, base))
           = UpToBlanks(PrintString(Fresh, base))
<1> DEFINE at == base + Len(Pr)
           Ends(b) == b[at] = NUL \/ b[at + 1] = NUL
<1>1. Len(Pr) \in Nat /\ MaxLine + Len(Pr) + 5 < SIZE
  BY WordsAssumption DEF CommandWords
<1>2. /\ base \in Nat /\ at \in Nat /\ at > 0
      /\ at \in 0 .. SIZE - 1 /\ at + 1 \in 0 .. SIZE - 1
      /\ at + 1 \in 1 .. SIZE - 1 /\ MaxLine + 1 < SIZE
  BY <1>1, BufferAssumption
<1>3. \A b : PrintString(b, base) =
        IF Ends(b) THEN <<"press string">> ELSE <<"pr", StringAt(b, at + 1)>>
  BY DEF PrintString
<1>4. command[at] \in Blanks
  BY DEF cmd_code_check
<1>5. /\ Holds(command) /\ Holds(Fresh) /\ Len(line) \in Nat
      /\ \A i \in 0 .. SIZE - 1 : i \notin 1 .. Len(line) => Fresh[i] = NUL
      /\ \A i \in 1 .. Len(line) : line[i] # NUL
  BY BothHold
<1> HIDE DEF at
<1>6. ASSUME Ends(command) PROVE Ends(Fresh)
  <2>1. \A i \in 0 .. SIZE - 1 : command[i] = NUL => Fresh[i] = NUL
    <3> TAKE i \in 0 .. SIZE - 1
    <3>1. i \in 1 .. Len(line) => command[i] = line[i] /\ line[i] # NUL
      BY <1>5 DEF Holds
    <3>2. i \notin 1 .. Len(line) => Fresh[i] = NUL
      BY <1>5
    <3> QED BY <3>1, <3>2
  <2> QED BY <1>2, <1>6, <2>1
<1>7. CASE Ends(command)
  BY <1>3, <1>6, <1>7
<1>8. CASE ~Ends(Fresh)
  <2>1. Trimmed(StringAt(command, at + 1)) = Trimmed(StringAt(Fresh, at + 1))
    BY <1>2, SameText
  <2>2. /\ PrintString(command, base) = <<"pr", StringAt(command, at + 1)>>
        /\ PrintString(Fresh, base) = <<"pr", StringAt(Fresh, at + 1)>>
    BY <1>3, <1>6, <1>8
  <2> QED BY <2>1, <2>2, UpToBlanksOf
<1>9. CASE ~Ends(command) /\ Ends(Fresh)
  <2>1. Trimmed(StringAt(command, at + 1)) = Trimmed(StringAt(Fresh, at + 1))
    BY <1>2, SameText
  <2>2. Fresh[at + 1] = NUL
    <3>1. \A i \in 1 .. Len(line) : i \in 0 .. SIZE - 1 => Fresh[i] = line[i]
      BY <1>5 DEF Holds
    <3>2. CASE Fresh[at] = NUL
      <4>1. at \notin 1 .. Len(line)
        BY <1>2, <1>5, <3>1, <3>2
      <4>2. at + 1 \notin 1 .. Len(line)
        BY <1>2, <1>5, <4>1
      <4> QED BY <1>2, <1>5, <4>2
    <3> QED BY <1>9, <3>2
  <2>3. Trimmed(StringAt(Fresh, at + 1)) = << >>
    <3>1. PICK e : TextEnd(Fresh, at + 1, e)
      BY <1>2, <1>5, TextEnds
    <3>2. e = at + 1
      <4>1. /\ e \in at + 1 .. SIZE - 1
            /\ \A i \in at + 1 .. e - 1 : Fresh[i] # NUL
        BY <3>1 DEF TextEnd
      <4>2. at + 1 \in at + 1 .. e - 1 \/ e = at + 1
        BY <1>2, <4>1, BufferAssumption
      <4> QED BY <2>2, <4>1, <4>2
    <3>3. StringAt(Fresh, at + 1) = [i \in 1 .. e - (at + 1) |-> Fresh[at + 1 + i - 1]]
      BY <3>1 DEF TextEnd
    <3>4. 1 .. e - (at + 1) = {}
      BY <1>2, <3>2
    <3>5. StringAt(Fresh, at + 1) = << >>
      <4>1. StringAt(Fresh, at + 1) = [i \in {} |-> Fresh[at + 1 + i - 1]]
        BY ONLY <3>3, <3>4, Zenon
      <4> QED BY ONLY <4>1
    <3> QED BY <3>5 DEF Trimmed
  <2>4. UpToBlanks(PrintString(command, base)) = <<"pr", << >>>>
    <3>1. PrintString(command, base) = <<"pr", StringAt(command, at + 1)>>
      BY <1>3, <1>9
    <3> QED BY <2>1, <2>3, <3>1, UpToBlanksOf
  <2>5. PrintString(Fresh, base) = <<"press string">>
    BY <1>3, <1>9
  <2> QED BY <2>4, <2>5, UpToBlanksOf
<1> QED BY <1>7, <1>8, <1>9

LEMMA SameCode ==
  ASSUME IInv, NEW base \in 1 .. MaxLine
  PROVE  UpToBlanks(code(command, base)) = UpToBlanks(code(Fresh, base))
<1> DEFINE keywords(b) == {w \in DOMAIN Keyword : cmd_code_check(b, base, w)}
           keyword(S) == CHOOSE w \in S : TRUE
           helps(b) == \E w \in Help : cmd_code_check(b, base, w)
           Arg(w) == base + Len(w) + 1
<1>1. \A w \in CommandWords :
        /\ w \in Seq(Keys \ {SPACE}) /\ Len(w) \in Nat
        /\ MaxLine + Len(w) + 5 < SIZE
        /\ \A a \in ArgumentWords : MaxLine + Len(w) + Len(a) + 4 < SIZE
  BY WordsAssumption
<1>2. base \in Nat /\ base <= MaxLine /\ base > 0 /\ MaxLine + 1 < SIZE
  <2>1. Color \in CommandWords
    BY DEF CommandWords
  <2> QED BY <1>1, <2>1, BufferAssumption
<1>3. \A w \in CommandWords :
        /\ base + Len(w) < SIZE /\ Arg(w) \in Nat /\ Arg(w) + 3 < SIZE
        /\ Arg(w) \in 1 .. SIZE - 1
  BY <1>1, <1>2, BufferAssumption
<1>4. \A w \in CommandWords :
        cmd_code_check(command, base, w) <=> cmd_code_check(Fresh, base, w)
  BY <1>1, <1>2, <1>3, SameWord, BothHold
<1>5. /\ Help \subseteq CommandWords /\ DOMAIN Keyword \subseteq CommandWords
      /\ Color \in CommandWords /\ Hash \in CommandWords /\ Pr \in CommandWords
  BY DEF CommandWords
<1>6. (helps(command) <=> helps(Fresh)) /\ keywords(command) = keywords(Fresh)
  BY <1>4, <1>5
<1>7. SetColor(command, Arg(Color)) = SetColor(Fresh, Arg(Color))
  BY <1>3, <1>5, SameColor, BothHold
<1>8. UpToBlanks(HashOf(command, Arg(Hash))) = UpToBlanks(HashOf(Fresh, Arg(Hash)))
  <2>1. \A a \in Algorithms : a \in ArgumentWords /\ Len(a) \in Nat
    BY WordsAssumption DEF ArgumentWords
  <2>2. ASSUME NEW a \in Algorithms PROVE Arg(Hash) + Len(a) + 1 < SIZE
    <3>1. /\ Len(Hash) \in Nat /\ Len(a) \in Nat
          /\ MaxLine + Len(Hash) + Len(a) + 4 < SIZE
      BY <1>1, <1>5, <2>1
    <3> QED BY <1>2, <3>1, BufferAssumption
  <2> QED BY <1>2, <1>3, <1>5, <2>2, SameHash
<1>9. ASSUME NEW w \in DOMAIN Keyword
      PROVE  KeywordArgument(command, Arg(w), w) = KeywordArgument(Fresh, Arg(w), w)
  <2>1. \A a \in Keyword[w] : a \in ArgumentWords /\ Len(a) \in Nat
    BY WordsAssumption DEF ArgumentWords
  <2>2. ASSUME NEW a \in Keyword[w] PROVE Arg(w) + Len(a) < SIZE
    <3>1. /\ Len(w) \in Nat /\ Len(a) \in Nat
          /\ MaxLine + Len(w) + Len(a) + 4 < SIZE
      BY <1>1, <1>5, <2>1
    <3> QED BY <1>2, <3>1, BufferAssumption
  <2> QED BY <1>3, <1>5, <2>2, SameKeyword
<1>10. \A b : code(b, base) =
         IF helps(b) THEN <<"help">>
         ELSE IF cmd_code_check(b, base, Color) THEN SetColor(b, Arg(Color))
         ELSE IF cmd_code_check(b, base, Hash) THEN HashOf(b, Arg(Hash))
         ELSE IF cmd_code_check(b, base, Pr) THEN PrintString(b, base)
         ELSE IF keywords(b) # {}
              THEN KeywordArgument(b, Arg(keyword(keywords(b))), keyword(keywords(b)))
         ELSE <<"no command">>
  BY DEF code
<1>11. keywords(Fresh) # {} => keyword(keywords(Fresh)) \in DOMAIN Keyword
  OBVIOUS
<1>12. cmd_code_check(command, base, Pr) =>
         UpToBlanks(PrintString(command, base)) = UpToBlanks(PrintString(Fresh, base))
  BY SamePrint
<1> HIDE DEF keywords, keyword, helps, Arg
<1>13. CASE helps(Fresh)
  BY <1>6, <1>10, <1>13
<1>14. CASE ~helps(Fresh) /\ cmd_code_check(Fresh, base, Color)
  BY <1>4, <1>5, <1>6, <1>7, <1>10, <1>14
<1>15. CASE /\ ~helps(Fresh) /\ ~cmd_code_check(Fresh, base, Color)
            /\ cmd_code_check(Fresh, base, Hash)
  BY <1>4, <1>5, <1>6, <1>8, <1>10, <1>15
<1>16. CASE /\ ~helps(Fresh) /\ ~cmd_code_check(Fresh, base, Color)
            /\ ~cmd_code_check(Fresh, base, Hash)
            /\ cmd_code_check(Fresh, base, Pr)
  BY <1>4, <1>5, <1>6, <1>10, <1>12, <1>16
<1>17. CASE /\ ~helps(Fresh) /\ ~cmd_code_check(Fresh, base, Color)
            /\ ~cmd_code_check(Fresh, base, Hash)
            /\ ~cmd_code_check(Fresh, base, Pr)
  <2>1. code(command, base) = code(Fresh, base)
    BY <1>4, <1>5, <1>6, <1>9, <1>10, <1>11, <1>17
  <2> QED BY <2>1
<1> QED BY <1>13, <1>14, <1>15, <1>16, <1>17

(* Enter acts on the line typed and on nothing that was typed before it,   *)
(* up to blanks at the end of a text.                                      *)
THEOREM NothingStale == Spec => []NoStaleInput
<1>1. IInv => NoStaleInput
  <2> SUFFICES ASSUME IInv PROVE NoStaleInput
    OBVIOUS
  <2>1. /\ NonBlank(command) = NonBlank(Fresh)
        /\ cmd_calculate(command) = cmd_calculate(Fresh)
        /\ NonBlank(command) # {} => cmd_calculate(command) \in 1 .. MaxLine
    BY BothHold, SameStart
  <2> QED BY <2>1, SameCode DEF NoStaleInput, Dispatch
<1> QED BY <1>1, InitIInv, NextIInv, PTL DEF Spec
=============================================================================
