------------------------- MODULE InterruptsProofs -------------------------
(***************************************************************************)
(* What the handlers give back, and what ISR_FOR_PS2 delivers, for every   *)
(* set of vectors, divisions and scan codes.                               *)
(***************************************************************************)
EXTENDS Interrupts, SequenceTheorems, TLAPS

(* low <= key <= high holds of every key: what C compares with high is 0   *)
(* or 1.                                                                   *)
LEMMA AlwaysInRange ==
  ASSUME NEW low \in Nat, NEW key \in Nat, NEW high \in Nat, high >= 1
  PROVE  InRange(low, key, high)
<1>1. CASE low <= key
  BY <1>1 DEF InRange
<1>2. CASE ~(low <= key)
  BY <1>2 DEF InRange
<1> QED
  BY <1>1, <1>2

(* So every key is taken for a letter.                                     *)
LEMMA EveryKeyALetter ==
  ASSUME NEW key \in Nat
  PROVE  InLetterRanges(key)
<1>1. InRange(16, key, 25)
  BY AlwaysInRange
<1> QED
  BY <1>1 DEF InLetterRanges

(* One run of the service keeps the flags at 0 and delivers a lower-case   *)
(* letter or nothing.                                                      *)
LEMMA ServiceDeliversLowerCase ==
  ASSUME LowerCaseOnly, ISR_FOR_PS2
  PROVE  LowerCaseOnly'
<1>1. PICK key \in ScanCodes :
         /\ ChangeFlags(key)
         /\ keybuf' = IF Converted(key) = Nothing THEN keybuf
                      ELSE Converted(key)
  BY DEF ISR_FOR_PS2
<1>2. key \in Nat
  BY ScanCodesAssumption
<1>3. InLetterRanges(key)
  BY <1>2, EveryKeyALetter
<1>4. KEY_SHIFT_FLAG' = 0 /\ KEY_CAPSLOCK_FLAG' = 0
  BY <1>1, <1>3 DEF ChangeFlags, LowerCaseOnly
<1>5. Converted(key) = PS2CLF(key)
  BY <1>3 DEF Converted, LowerCaseOnly
<1>6. keybuf' \in {NoKey} \cup {Lower(k) : k \in Letters}
  <2>1. CASE key \in Letters
    <3>1. Converted(key) \in {Lower(k) : k \in Letters}
      BY <1>5, <2>1 DEF PS2CLF
    <3> QED
      BY <1>1, <3>1 DEF LowerCaseOnly
  <2>2. CASE key \notin Letters
    <3>1. Converted(key) = Nothing
      BY <1>5, <2>2 DEF PS2CLF
    <3> QED
      BY <1>1, <3>1 DEF LowerCaseOnly
  <2> QED
    BY <2>1, <2>2
<1> QED
  BY <1>4, <1>6 DEF LowerCaseOnly

(* The handlers' other instructions leave the flags and the byte alone.    *)
LEMMA OthersLeaveKeyboard ==
  ASSUME HandlerStep, ~ISR_FOR_PS2
  PROVE  UNCHANGED keyboard
<1>1. CASE Pusha
  BY <1>1 DEF Pusha
<1>2. CASE Popa
  BY <1>2 DEF Popa
<1>3. CASE Drop
  BY <1>3 DEF Drop
<1>4. CASE Overwrite
  BY <1>4 DEF Overwrite
<1>5. CASE \E r \in {"ds", "es", "edi"} : Push(r)
  BY <1>5 DEF Push
<1>6. CASE \E r \in {"ds", "es"} : Pop(r)
  BY <1>6 DEF Pop
<1>7. CASE TakeEip
  BY <1>7 DEF TakeEip
<1>8. CASE FixPrefix \/ FixModRM \/ FixSib
  BY <1>8 DEF FixPrefix, FixModRM, FixSib, Advance
<1>9. CASE GiveEip
  BY <1>9 DEF GiveEip
<1>10. CASE Iret
  BY <1>10 DEF Iret
<1> QED
  BY <1>1, <1>2, <1>3, <1>4, <1>5, <1>6, <1>7, <1>8, <1>9, <1>10
     DEF HandlerStep

(* Whatever the keyboard sends and whatever interrupts it, ISR_FOR_PS2     *)
(* never sees a shift or caps lock key and delivers lower-case letters.    *)
THEOREM OnlyLowerCase == Spec => []LowerCaseOnly
<1>1. Init => LowerCaseOnly
  BY DEF Init, LowerCaseOnly
<1>2. LowerCaseOnly /\ [Next]_vars => LowerCaseOnly'
  <2> SUFFICES ASSUME LowerCaseOnly, [Next]_vars
               PROVE  LowerCaseOnly'
    OBVIOUS
  <2>1. CASE ISR_FOR_PS2
    BY <2>1, ServiceDeliversLowerCase
  <2>2. CASE HandlerStep /\ ~ISR_FOR_PS2
    <3>1. UNCHANGED keyboard
      BY <2>2, OthersLeaveKeyboard
    <3> QED
      BY <3>1 DEF keyboard, flags, LowerCaseOnly
  <2>3. CASE \E v \in Vectors : Interrupt(v)
    <3>1. keybuf' = NoKey /\ UNCHANGED flags
      BY <2>3 DEF Interrupt
    <3> QED
      BY <3>1 DEF flags, LowerCaseOnly
  <2>4. CASE UNCHANGED vars
    <3>1. UNCHANGED keyboard
      BY <2>4 DEF vars
    <3> QED
      BY <3>1 DEF keyboard, flags, LowerCaseOnly
  <2> QED
    BY <2>1, <2>2, <2>3, <2>4 DEF Next
<1> QED
  BY <1>1, <1>2, PTL DEF Spec
-----------------------------------------------------------------------------
(* What is on the stack and in the registers at each instruction of a      *)
(* handler.  Only the length of the stack matters in SERVER_ISR.           *)
ServerISR == 64
OfSegments == {65, 66}                  \* VIDEO_ISR and DEVICE_ISR
KernelISRs == {64, 65, 66}              \* that load the kernel's segments

(* The stack when a handler is entered, and how far above that it is.      *)
Base(v) == IF v \in HasErrorCode THEN 5 ELSE 4
Height(v) ==
  CASE v = 0 -> <<0, 8, 8, 8, 8, 0>>
    [] v = 12 -> <<0, 8, 0, -1>>
    [] v = 13 -> <<0, 8, 0, -1>>
    [] v = 33 -> <<0, 8, 9, 9, 8, 8, 0>>
    [] v = 64 -> <<0, 8, 9, 10, 10, 11, 10, 2>>
    [] v = 65 -> <<0, 8, 9, 10, 10, 10, 9, 8, 0>>
    [] v = 66 -> <<0, 8, 9, 10, 10, 9, 8, 0>>
    [] OTHER -> <<0, 8, 0>>

(* Where the registers are popped.                                         *)
PopaAt(v) ==
  CASE v = 0 -> 5
    [] v = 33 -> 6
    [] v = 64 -> 7
    [] v = 65 -> 8
    [] v = 66 -> 7
    [] OTHER -> 2

(* The address of return of a division is where it should be.              *)
Resumes(a) ==
  /\ EIP < a /\ a <= NextInstruction(division)
  /\ a = NextInstruction(division) <=> KnownForm(division)

(* The handler is at one of its instructions.                              *)
Running ==
  /\ vector \in 0 .. 255
  /\ pc # 0 => pc \in 1 .. Len(Handler(vector))

(* The frame of the interrupt stays in place, but for the address that     *)
(* DE_ISR replaces, and so do the registers that pusha saved above it.     *)
StackKept ==
  pc # 0 =>
    /\ stack \in Seq(Int) /\ Len(stack) = Base(vector) + Height(vector)[pc]
    /\ stack[1] = CALLERS /\ stack[2] = EFLAGS /\ stack[3] = CS
    /\ IF vector = 0 /\ pc > 4 THEN Resumes(stack[4]) ELSE stack[4] = EIP
    /\ vector # ServerISR /\ pc \in 2 .. PopaAt(vector) =>
         \A i \in 1 .. 8 : stack[Base(vector) + i] = Before[General[i]]
    /\ vector \in OfSegments /\ pc \in 3 .. PopaAt(vector) - 1 =>
         stack[13] = Before.ds
    /\ vector \in OfSegments /\ pc \in 4 .. PopaAt(vector) - 2 =>
         stack[14] = Before.es

(* What popa does not restore is the program's: esp, and the segments when *)
(* they have been popped.                                                  *)
RegistersKept ==
  pc # 0 =>
    /\ regs \in [Registers -> Int]
    /\ vector # ServerISR =>
         /\ pc = 1 \/ pc > PopaAt(vector) => regs = Before
         /\ regs["esp"] = Before.esp
         /\ ~(vector \in OfSegments /\ pc \in 5 .. PopaAt(vector) - 1) =>
              regs["ds"] = Before.ds
         /\ ~(vector \in OfSegments /\ pc \in 5 .. PopaAt(vector) - 2) =>
              regs["es"] = Before.es

(* _DE_fix has come to byte n: over prefixes 0x66 only, and then over the  *)
(* opcode or over the first other prefix, which it takes for it.           *)
Skipped(n) == \A i \in 1 .. n : division.prefix[i] = 102
Fixing(where, n) ==
  \/ /\ where = "prefix" /\ n \in 0 .. Len(division.prefix) /\ Skipped(n)
  \/ /\ where = "modrm" /\ n - 1 \in 0 .. Len(division.prefix) /\ Skipped(n - 1)
     /\ n - 1 = Len(division.prefix) \/ division.prefix[n] # 102
  \/ /\ where = "sib" /\ n = Len(division.prefix) + 2 /\ Skipped(n - 2)
     /\ Mod(division.modrm) = 0 /\ Rm(division.modrm) = 4

DivisionFixed ==
  vector = 0 =>
    /\ pc # 0 => division \in Divisions
    /\ pc \in 1 .. 2 => at = "prefix"
    /\ pc = 3 => Fixing(at, regs["ebx"] - EIP)
    /\ pc = 4 => Resumes(regs["ebx"])

(* What the interrupted program finds.                                     *)
GivenBack ==
  pc = 0 =>
    /\ vector \in Unbalanced => Len(stack) # 1
    /\ vector \notin Unbalanced => Intact
    /\ vector \notin Unbalanced \cup {0} => eip = EIP
    /\ vector = 0 => Resumes(eip)

HandlerInv ==
  /\ Running /\ StackKept /\ RegistersKept /\ DivisionFixed /\ GivenBack

-----------------------------------------------------------------------------
(* What the instructions do to the stack.                                  *)
LEMMA Appended ==
  ASSUME NEW s \in Seq(Int), NEW x \in Int
  PROVE  /\ Append(s, x) \in Seq(Int) /\ Len(Append(s, x)) = Len(s) + 1
         /\ \A i \in 1 .. Len(s) : Append(s, x)[i] = s[i]
         /\ Append(s, x)[Len(s) + 1] = x
OBVIOUS

(* A sequence behind a sequence.                                           *)
LEMMA Joined ==
  ASSUME NEW s \in Seq(Int), NEW t \in Seq(Int)
  PROVE  /\ s \o t \in Seq(Int) /\ Len(s \o t) = Len(s) + Len(t)
         /\ \A i \in 1 .. Len(s) : (s \o t)[i] = s[i]
         /\ \A i \in 1 .. Len(t) : (s \o t)[Len(s) + i] = t[i]
<1>1. Len(s) \in Nat /\ Len(t) \in Nat
  BY LenProperties
<1> QED
  BY <1>1, ConcatProperties

(* What is below stays.                                                    *)
LEMMA PoppedKeeps ==
  ASSUME stack \in Seq(Int), NEW n \in 1 .. Len(stack)
  PROVE  /\ Popped(n) \in Seq(Int) /\ Len(Popped(n)) = Len(stack) - n
         /\ \A i \in 1 .. Len(stack) - n : Popped(n)[i] = stack[i]
<1>1. Len(stack) \in Nat /\ \A i \in 1 .. Len(stack) : stack[i] \in Int
  BY LenProperties
<1>2. \A i \in 1 .. Len(stack) - n : stack[i] \in Int
  BY <1>1
<1>3. Len(stack) - n \in Int
  BY <1>1
<1>4. /\ SubSeq(stack, 1, Len(stack) - n) \in Seq(Int)
      /\ Len(SubSeq(stack, 1, Len(stack) - n)) =
           IF 1 <= Len(stack) - n THEN Len(stack) - n - 1 + 1 ELSE 0
      /\ \A i \in 1 .. Len(stack) - n - 1 + 1 :
           SubSeq(stack, 1, Len(stack) - n)[i] = stack[1 + i - 1]
  BY <1>2, <1>3, SubSeqProperties
<1>5. ASSUME NEW i \in 1 .. Len(stack) - n
      PROVE  SubSeq(stack, 1, Len(stack) - n)[i] = stack[i]
  <2>1. i \in 1 .. Len(stack) - n - 1 + 1 /\ 1 + i - 1 = i
    BY <1>1
  <2> QED
    BY <1>4, <2>1
<1>6. Len(SubSeq(stack, 1, Len(stack) - n)) = Len(stack) - n
  BY <1>1, <1>4
<1> QED
  BY <1>4, <1>5, <1>6 DEF Popped

(* The registers that pusha saves, by name.                                *)
LEMMA GeneralNames ==
  /\ DOMAIN Before = Registers /\ Before \in [Registers -> Int]
  /\ \A i \in 1 .. 8 : General[i] \in Registers
  /\ \A r \in Registers \ {"ds", "es"} :
       \E i \in 1 .. 8 : General[i] = r /\ (CHOOSE j \in 1 .. 8 : General[j] = r) = i
<1>1. Registers = {"eax", "ecx", "edx", "ebx", "esp", "ebp", "esi", "edi",
                   "ds", "es"}
  <2>1. \A i \in 1 .. 8 : General[i] \in
          {"eax", "ecx", "edx", "ebx", "esp", "ebp", "esi", "edi"}
    BY DEF General
  <2>2. /\ General[1] = "eax" /\ General[2] = "ecx" /\ General[3] = "edx"
        /\ General[4] = "ebx" /\ General[5] = "esp" /\ General[6] = "ebp"
        /\ General[7] = "esi" /\ General[8] = "edi"
    BY DEF General
  <2> QED
    BY <2>1, <2>2 DEF Registers
<1>2. DOMAIN Before = Registers
  BY <1>1 DEF Before
<1>3. \A r \in Registers : Before[r] \in Int
  BY <1>1 DEF Before
<1>4. Before = [r \in Registers |-> Before[r]]
  BY <1>2 DEF Before
<1>5. \A i \in 1 .. 8 : General[i] \in Registers
  BY DEF Registers
<1>6. ASSUME NEW r \in Registers \ {"ds", "es"}
      PROVE  \E i \in 1 .. 8 :
               General[i] = r /\ (CHOOSE j \in 1 .. 8 : General[j] = r) = i
  <2>1. \E i \in 1 .. 8 : General[i] = r
    BY DEF Registers
  <2> QED
    BY <2>1
<1> QED
  BY <1>2, <1>3, <1>4, <1>5, <1>6

(* The instruction that is next, and what it works on.                     *)
Op == Handler(vector)[pc][1]
Operand == Handler(vector)[pc][2]

(* Where each instruction stands.                                          *)
LEMMA Places ==
  ASSUME Running, pc # 0
  PROVE  /\ Len(Handler(vector)) \in Nat /\ PopaAt(vector) \in 2 .. 8
         /\ Op = "iret" <=> pc = Len(Handler(vector))
         /\ \/ Op = "pusha" /\ pc = 1
            \/ Op = "popa" /\ pc = PopaAt(vector)
            \/ Op = "iret" /\ pc = Len(Handler(vector))
            \/ Op = "push" /\ vector \in KernelISRs /\ pc = 2 /\ Operand = "ds"
            \/ Op = "push" /\ vector \in KernelISRs /\ pc = 3 /\ Operand = "es"
            \/ Op = "push" /\ vector = ServerISR /\ pc = 5
            \/ Op = "push" /\ vector = 33 /\ pc = 2
            \/ Op = "pop" /\ vector \in OfSegments /\ pc = PopaAt(vector) - 2 /\ Operand = "es"
            \/ Op = "pop" /\ vector \in OfSegments /\ pc = PopaAt(vector) - 1 /\ Operand = "ds"
            \/ Op = "pop" /\ vector = ServerISR /\ pc = 6
            \/ Op = "drop" /\ vector \in {12, 13} /\ pc = 3
            \/ Op = "drop" /\ vector = 33 /\ pc = 4
            \/ Op = "kernel" /\ vector \in KernelISRs /\ pc = 4
            \/ Op = "call" /\ vector = 65 /\ pc = 5 /\ Operand = "none"
            \/ Op = "call" /\ vector = 33 /\ pc = 3 /\ Operand = "ISR_FOR_PS2"
            \/ Op = "call" /\ vector = 0 /\ pc = 3 /\ Operand = "_DE_fix"
            \/ Op = "eoi" /\ vector = 33 /\ pc = 5
            \/ Op = "take" /\ vector = 0 /\ pc = 2
            \/ Op = "give" /\ vector = 0 /\ pc = 4
<1> USE DEF PUSHA, POPA, PUSH, POP, DROP, KERNEL, CALL, KEY, EOI, TAKE_EIP, FIX,
        GIVE_EIP, IRET
<1>1. CASE vector \notin {0, 12, 13, 33, 64, 65, 66}
  <2>1. Handler(vector) = default_ISR
    BY <1>1 DEF Handler
  <2>2. Len(Handler(vector)) = 3
    BY <2>1 DEF default_ISR
  <2>3. pc \in 1 .. 3
    BY <2>2 DEF Running
  <2>4. \/ pc = 1 /\ Op = "pusha" /\ Operand = "none"
        \/ pc = 2 /\ Op = "popa" /\ Operand = "none"
        \/ pc = 3 /\ Op = "iret" /\ Operand = "none"
    BY <2>1, <2>3 DEF Op, Operand, default_ISR
  <2>5. /\ PopaAt(vector) = 2
        /\ vector \notin OfSegments /\ vector # ServerISR
    BY <1>1 DEF PopaAt, OfSegments, ServerISR, KernelISRs
  <2>6. Op = "iret" <=> pc = Len(Handler(vector))
    BY <2>2, <2>4
  <2>7. Len(Handler(vector)) \in Nat /\ PopaAt(vector) \in 2 .. 8
    BY <2>2, <2>5
  <2> QED
    BY <1>1, <2>4, <2>5, <2>6, <2>7
<1>2. CASE vector = 0
  <2>1. Handler(vector) = DE_ISR
    BY <1>2 DEF Handler
  <2>2. Len(Handler(vector)) = 6
    BY <2>1 DEF DE_ISR
  <2>3. pc \in 1 .. 6
    BY <2>2 DEF Running
  <2>4. \/ pc = 1 /\ Op = "pusha" /\ Operand = "none"
        \/ pc = 2 /\ Op = "take" /\ Operand = "none"
        \/ pc = 3 /\ Op = "call" /\ Operand = "_DE_fix"
        \/ pc = 4 /\ Op = "give" /\ Operand = "none"
        \/ pc = 5 /\ Op = "popa" /\ Operand = "none"
        \/ pc = 6 /\ Op = "iret" /\ Operand = "none"
    BY <2>1, <2>3 DEF Op, Operand, DE_ISR
  <2>5. /\ PopaAt(vector) = 5
        /\ vector \notin OfSegments /\ vector # ServerISR
    BY <1>2 DEF PopaAt, OfSegments, ServerISR, KernelISRs
  <2>6. Op = "iret" <=> pc = Len(Handler(vector))
    BY <2>2, <2>4
  <2>7. Len(Handler(vector)) \in Nat /\ PopaAt(vector) \in 2 .. 8
    BY <2>2, <2>5
  <2> QED
    BY <1>2, <2>4, <2>5, <2>6, <2>7
<1>3. CASE vector = 12
  <2>1. Handler(vector) = SS_ISR
    BY <1>3 DEF Handler
  <2>2. Len(Handler(vector)) = 4
    BY <2>1 DEF SS_ISR
  <2>3. pc \in 1 .. 4
    BY <2>2 DEF Running
  <2>4. \/ pc = 1 /\ Op = "pusha" /\ Operand = "none"
        \/ pc = 2 /\ Op = "popa" /\ Operand = "none"
        \/ pc = 3 /\ Op = "drop" /\ Operand = "none"
        \/ pc = 4 /\ Op = "iret" /\ Operand = "none"
    BY <2>1, <2>3 DEF Op, Operand, SS_ISR
  <2>5. /\ PopaAt(vector) = 2
        /\ vector \notin OfSegments /\ vector # ServerISR
    BY <1>3 DEF PopaAt, OfSegments, ServerISR, KernelISRs
  <2>6. Op = "iret" <=> pc = Len(Handler(vector))
    BY <2>2, <2>4
  <2>7. Len(Handler(vector)) \in Nat /\ PopaAt(vector) \in 2 .. 8
    BY <2>2, <2>5
  <2> QED
    BY <1>3, <2>4, <2>5, <2>6, <2>7
<1>4. CASE vector = 13
  <2>1. Handler(vector) = GP_ISR
    BY <1>4 DEF Handler
  <2>2. Len(Handler(vector)) = 4
    BY <2>1 DEF GP_ISR
  <2>3. pc \in 1 .. 4
    BY <2>2 DEF Running
  <2>4. \/ pc = 1 /\ Op = "pusha" /\ Operand = "none"
        \/ pc = 2 /\ Op = "popa" /\ Operand = "none"
        \/ pc = 3 /\ Op = "drop" /\ Operand = "none"
        \/ pc = 4 /\ Op = "iret" /\ Operand = "none"
    BY <2>1, <2>3 DEF Op, Operand, GP_ISR
  <2>5. /\ PopaAt(vector) = 2
        /\ vector \notin OfSegments /\ vector # ServerISR
    BY <1>4 DEF PopaAt, OfSegments, ServerISR, KernelISRs
  <2>6. Op = "iret" <=> pc = Len(Handler(vector))
    BY <2>2, <2>4
  <2>7. Len(Handler(vector)) \in Nat /\ PopaAt(vector) \in 2 .. 8
    BY <2>2, <2>5
  <2> QED
    BY <1>4, <2>4, <2>5, <2>6, <2>7
<1>5. CASE vector = 33
  <2>1. Handler(vector) = PS2_ISR
    BY <1>5 DEF Handler
  <2>2. Len(Handler(vector)) = 7
    BY <2>1 DEF PS2_ISR
  <2>3. pc \in 1 .. 7
    BY <2>2 DEF Running
  <2>4. \/ pc = 1 /\ Op = "pusha" /\ Operand = "none"
        \/ pc = 2 /\ Op = "push" /\ Operand = "edi"
        \/ pc = 3 /\ Op = "call" /\ Operand = "ISR_FOR_PS2"
        \/ pc = 4 /\ Op = "drop" /\ Operand = "none"
        \/ pc = 5 /\ Op = "eoi" /\ Operand = "none"
        \/ pc = 6 /\ Op = "popa" /\ Operand = "none"
        \/ pc = 7 /\ Op = "iret" /\ Operand = "none"
    BY <2>1, <2>3 DEF Op, Operand, PS2_ISR
  <2>5. /\ PopaAt(vector) = 6
        /\ vector \notin OfSegments /\ vector # ServerISR
    BY <1>5 DEF PopaAt, OfSegments, ServerISR, KernelISRs
  <2>6. Op = "iret" <=> pc = Len(Handler(vector))
    BY <2>2, <2>4
  <2>7. Len(Handler(vector)) \in Nat /\ PopaAt(vector) \in 2 .. 8
    BY <2>2, <2>5
  <2> QED
    BY <1>5, <2>4, <2>5, <2>6, <2>7
<1>6. CASE vector = 64
  <2>1. Handler(vector) = SERVER_ISR
    BY <1>6 DEF Handler
  <2>2. Len(Handler(vector)) = 8
    BY <2>1 DEF SERVER_ISR
  <2>3. pc \in 1 .. 8
    BY <2>2 DEF Running
  <2>4. \/ pc = 1 /\ Op = "pusha" /\ Operand = "none"
        \/ pc = 2 /\ Op = "push" /\ Operand = "ds"
        \/ pc = 3 /\ Op = "push" /\ Operand = "es"
        \/ pc = 4 /\ Op = "kernel" /\ Operand = "none"
        \/ pc = 5 /\ Op = "push" /\ Operand = "es"
        \/ pc = 6 /\ Op = "pop" /\ Operand = "ds"
        \/ pc = 7 /\ Op = "popa" /\ Operand = "none"
        \/ pc = 8 /\ Op = "iret" /\ Operand = "none"
    BY <2>1, <2>3 DEF Op, Operand, SERVER_ISR
  <2>5. /\ PopaAt(vector) = 7
        /\ vector \in KernelISRs
        /\ vector \notin OfSegments /\ vector = ServerISR
    BY <1>6 DEF PopaAt, OfSegments, ServerISR, KernelISRs
  <2>6. Op = "iret" <=> pc = Len(Handler(vector))
    BY <2>2, <2>4
  <2>7. Len(Handler(vector)) \in Nat /\ PopaAt(vector) \in 2 .. 8
    BY <2>2, <2>5
  <2> QED
    BY <1>6, <2>4, <2>5, <2>6, <2>7
<1>7. CASE vector = 65
  <2>1. Handler(vector) = VIDEO_ISR
    BY <1>7 DEF Handler
  <2>2. Len(Handler(vector)) = 9
    BY <2>1 DEF VIDEO_ISR
  <2>3. pc \in 1 .. 9
    BY <2>2 DEF Running
  <2>4. \/ pc = 1 /\ Op = "pusha" /\ Operand = "none"
        \/ pc = 2 /\ Op = "push" /\ Operand = "ds"
        \/ pc = 3 /\ Op = "push" /\ Operand = "es"
        \/ pc = 4 /\ Op = "kernel" /\ Operand = "none"
        \/ pc = 5 /\ Op = "call" /\ Operand = "none"
        \/ pc = 6 /\ Op = "pop" /\ Operand = "es"
        \/ pc = 7 /\ Op = "pop" /\ Operand = "ds"
        \/ pc = 8 /\ Op = "popa" /\ Operand = "none"
        \/ pc = 9 /\ Op = "iret" /\ Operand = "none"
    BY <2>1, <2>3 DEF Op, Operand, VIDEO_ISR
  <2>5. /\ PopaAt(vector) = 8
        /\ PopaAt(vector) - 2 = 6 /\ PopaAt(vector) - 1 = 7
        /\ vector \in KernelISRs
        /\ vector \in OfSegments /\ vector # ServerISR
    BY <1>7 DEF PopaAt, OfSegments, ServerISR, KernelISRs
  <2>6. Op = "iret" <=> pc = Len(Handler(vector))
    BY <2>2, <2>4
  <2>7. Len(Handler(vector)) \in Nat /\ PopaAt(vector) \in 2 .. 8
    BY <2>2, <2>5
  <2> QED
    BY <1>7, <2>4, <2>5, <2>6, <2>7
<1>8. CASE vector = 66
  <2>1. Handler(vector) = DEVICE_ISR
    BY <1>8 DEF Handler
  <2>2. Len(Handler(vector)) = 8
    BY <2>1 DEF DEVICE_ISR
  <2>3. pc \in 1 .. 8
    BY <2>2 DEF Running
  <2>4. \/ pc = 1 /\ Op = "pusha" /\ Operand = "none"
        \/ pc = 2 /\ Op = "push" /\ Operand = "ds"
        \/ pc = 3 /\ Op = "push" /\ Operand = "es"
        \/ pc = 4 /\ Op = "kernel" /\ Operand = "none"
        \/ pc = 5 /\ Op = "pop" /\ Operand = "es"
        \/ pc = 6 /\ Op = "pop" /\ Operand = "ds"
        \/ pc = 7 /\ Op = "popa" /\ Operand = "none"
        \/ pc = 8 /\ Op = "iret" /\ Operand = "none"
    BY <2>1, <2>3 DEF Op, Operand, DEVICE_ISR
  <2>5. /\ PopaAt(vector) = 7
        /\ PopaAt(vector) - 2 = 5 /\ PopaAt(vector) - 1 = 6
        /\ vector \in KernelISRs
        /\ vector \in OfSegments /\ vector # ServerISR
    BY <1>8 DEF PopaAt, OfSegments, ServerISR, KernelISRs
  <2>6. Op = "iret" <=> pc = Len(Handler(vector))
    BY <2>2, <2>4
  <2>7. Len(Handler(vector)) \in Nat /\ PopaAt(vector) \in 2 .. 8
    BY <2>2, <2>5
  <2> QED
    BY <1>8, <2>4, <2>5, <2>6, <2>7
<1> QED
  BY <1>1, <1>2, <1>3, <1>4, <1>5, <1>6, <1>7, <1>8

(* Which instruction a step takes.                                         *)
LEMMA Named ==
  /\ Is(PUSHA) => pc # 0 /\ Op = "pusha"
  /\ Is(POPA) => pc # 0 /\ Op = "popa"
  /\ Is(DROP) => pc # 0 /\ Op = "drop"
  /\ Is(KERNEL) => pc # 0 /\ Op = "kernel"
  /\ Is(CALL) => pc # 0 /\ Op = "call" /\ Operand = "none"
  /\ Is(KEY) => pc # 0 /\ Op = "call" /\ Operand = "ISR_FOR_PS2"
  /\ Is(FIX) => pc # 0 /\ Op = "call" /\ Operand = "_DE_fix"
  /\ Is(EOI) => pc # 0 /\ Op = "eoi"
  /\ Is(TAKE_EIP) => pc # 0 /\ Op = "take"
  /\ Is(GIVE_EIP) => pc # 0 /\ Op = "give"
  /\ Is(IRET) => pc # 0 /\ Op = "iret"
  /\ Is(PUSH("ds")) => pc # 0 /\ Op = "push" /\ Operand = "ds"
  /\ Is(PUSH("es")) => pc # 0 /\ Op = "push" /\ Operand = "es"
  /\ Is(PUSH("edi")) => pc # 0 /\ Op = "push" /\ Operand = "edi"
  /\ Is(POP("ds")) => pc # 0 /\ Op = "pop" /\ Operand = "ds"
  /\ Is(POP("es")) => pc # 0 /\ Op = "pop" /\ Operand = "es"
BY DEF Is, Op, Operand, PUSHA, POPA, PUSH, POP, DROP, KERNEL, CALL, KEY, EOI,
       TAKE_EIP, FIX, GIVE_EIP, IRET

(* How far the stack has grown around pusha and popa.                      *)
LEMMA Heights ==
  ASSUME vector \in 0 .. 255
  PROVE  /\ Base(vector) \in {4, 5}
         /\ vector \in {0, 33} \cup KernelISRs => Base(vector) = 4
         /\ Height(vector)[1] = 0 /\ Height(vector)[2] = 8
         /\ vector # ServerISR => /\ Height(vector)[PopaAt(vector)] = 8
                                  /\ Height(vector)[PopaAt(vector) + 1] = 0
         /\ vector = ServerISR => /\ Height(vector)[PopaAt(vector)] = 10
                                  /\ Height(vector)[PopaAt(vector) + 1] = 2
         /\ PopaAt(vector) \in 2 .. 8
         /\ vector \in KernelISRs => PopaAt(vector) \in {7, 8}
<1>1. /\ Base(vector) \in {4, 5}
      /\ vector \in {0, 33} \cup KernelISRs => Base(vector) = 4
  BY DEF Base, HasErrorCode, KernelISRs
<1>2. CASE vector \notin {0, 12, 13, 33, 64, 65, 66}
  <2>1. Height(vector) = <<0, 8, 0>>
    BY <1>2 DEF Height
  <2>2. PopaAt(vector) = 2 /\ PopaAt(vector) + 1 = 3
    BY <1>2 DEF PopaAt
  <2> QED
    BY <1>1, <1>2, <2>1, <2>2 DEF ServerISR, KernelISRs
<1>3. CASE vector = 0
  <2>1. Height(vector) = <<0, 8, 8, 8, 8, 0>>
    BY <1>3 DEF Height
  <2>2. PopaAt(vector) = 5 /\ PopaAt(vector) + 1 = 6
    BY <1>3 DEF PopaAt
  <2> QED
    BY <1>1, <1>3, <2>1, <2>2 DEF ServerISR, KernelISRs
<1>4. CASE vector \in {12, 13}
  <2>1. Height(vector) = <<0, 8, 0, -1>>
    BY <1>4 DEF Height
  <2>2. PopaAt(vector) = 2 /\ PopaAt(vector) + 1 = 3
    BY <1>4 DEF PopaAt
  <2> QED
    BY <1>1, <1>4, <2>1, <2>2 DEF ServerISR, KernelISRs
<1>5. CASE vector = 33
  <2>1. Height(vector) = <<0, 8, 9, 9, 8, 8, 0>>
    BY <1>5 DEF Height
  <2>2. PopaAt(vector) = 6 /\ PopaAt(vector) + 1 = 7
    BY <1>5 DEF PopaAt
  <2> QED
    BY <1>1, <1>5, <2>1, <2>2 DEF ServerISR, KernelISRs
<1>6. CASE vector = 64
  <2>1. Height(vector) = <<0, 8, 9, 10, 10, 11, 10, 2>>
    BY <1>6 DEF Height
  <2>2. PopaAt(vector) = 7 /\ PopaAt(vector) + 1 = 8
    BY <1>6 DEF PopaAt
  <2> QED
    BY <1>1, <1>6, <2>1, <2>2 DEF ServerISR, KernelISRs
<1>7. CASE vector = 65
  <2>1. Height(vector) = <<0, 8, 9, 10, 10, 10, 9, 8, 0>>
    BY <1>7 DEF Height
  <2>2. PopaAt(vector) = 8 /\ PopaAt(vector) + 1 = 9
    BY <1>7 DEF PopaAt
  <2> QED
    BY <1>1, <1>7, <2>1, <2>2 DEF ServerISR, KernelISRs
<1>8. CASE vector = 66
  <2>1. Height(vector) = <<0, 8, 9, 10, 10, 9, 8, 0>>
    BY <1>8 DEF Height
  <2>2. PopaAt(vector) = 7 /\ PopaAt(vector) + 1 = 8
    BY <1>8 DEF PopaAt
  <2> QED
    BY <1>1, <1>8, <2>1, <2>2 DEF ServerISR, KernelISRs
<1> QED
  BY <1>2, <1>3, <1>4, <1>5, <1>6, <1>7, <1>8

(* An instruction other than iret leads to the next one of its handler.    *)
LEMMA Goes ==
  ASSUME Running, pc # 0, Op # "iret", Step
  PROVE  /\ Running' /\ GivenBack' /\ vector' = vector /\ division' = division
         /\ pc \in Nat /\ pc > 0 /\ pc' = pc + 1 /\ pc' # 0
<1>1. /\ pc' = pc + 1 /\ vector' = vector /\ division' = division
  BY DEF Step
<1>2. pc \in 1 .. Len(Handler(vector)) /\ vector \in 0 .. 255
  BY DEF Running
<1>3. Len(Handler(vector)) \in Nat /\ pc # Len(Handler(vector))
  BY Places
<1>4. pc + 1 \in 1 .. Len(Handler(vector)) /\ pc \in Nat /\ pc > 0 /\ pc + 1 # 0
  BY <1>2, <1>3
<1>5. Handler(vector)' = Handler(vector)
  BY <1>1 DEF Handler
<1>6. Running'
  BY <1>1, <1>2, <1>4, <1>5 DEF Running
<1>7. GivenBack'
  BY <1>1, <1>4 DEF GivenBack
<1> QED
  BY <1>1, <1>4, <1>6, <1>7

(* Instructions that do not touch the stack.                               *)
LEMMA StackUntouched ==
  ASSUME HandlerInv, pc # 0, Op # "iret", Step, UNCHANGED stack,
         Height(vector)[pc + 1] = Height(vector)[pc],
         pc # 1, pc # PopaAt(vector), ~(vector = 0 /\ pc = 4),
         ~(vector \in OfSegments /\ pc \in {2, 3})
  PROVE  StackKept'
<1>1. /\ pc \in Nat /\ pc > 0 /\ pc' = pc + 1
      /\ vector' = vector /\ division' = division /\ stack' = stack
  BY Goes DEF HandlerInv
<1>2. vector \in 0 .. 255 /\ PopaAt(vector) \in 2 .. 8
  BY Heights DEF HandlerInv, Running
<1>3. StackKept
  BY DEF HandlerInv
<1>4. /\ stack' \in Seq(Int) /\ Len(stack') = Base(vector) + Height(vector)[pc']
      /\ stack'[1] = CALLERS /\ stack'[2] = EFLAGS /\ stack'[3] = CS
  BY <1>1, <1>3 DEF StackKept
<1>5. IF vector = 0 /\ pc' > 4 THEN Resumes(stack[4]) ELSE stack[4] = EIP
  <2>1. vector = 0 /\ pc' > 4 <=> vector = 0 /\ pc > 4
    BY <1>1
  <2>2. IF vector = 0 /\ pc > 4 THEN Resumes(stack[4]) ELSE stack[4] = EIP
    BY <1>3 DEF StackKept
  <2> QED
    BY <2>1, <2>2, Zenon
<1>6. Resumes(stack[4])' <=> Resumes(stack[4])
  BY <1>1 DEF Resumes
<1>7. vector # ServerISR /\ pc' \in 2 .. PopaAt(vector) =>
        \A i \in 1 .. 8 : stack'[Base(vector) + i] = Before[General[i]]
  <2>1. vector # ServerISR /\ pc' \in 2 .. PopaAt(vector) => pc \in 2 .. PopaAt(vector)
    BY <1>1, <1>2
  <2> QED
    BY <1>1, <1>3, <2>1 DEF StackKept
<1>8. vector \in OfSegments /\ pc' \in 3 .. PopaAt(vector) - 1 =>
        stack'[13] = Before.ds
  <2>1. vector \in OfSegments /\ pc' \in 3 .. PopaAt(vector) - 1 => pc \in 3 .. PopaAt(vector) - 1
    BY <1>1, <1>2
  <2> QED
    BY <1>1, <1>3, <2>1 DEF StackKept
<1>9. vector \in OfSegments /\ pc' \in 4 .. PopaAt(vector) - 2 =>
        stack'[14] = Before.es
  <2>1. vector \in OfSegments /\ pc' \in 4 .. PopaAt(vector) - 2 => pc \in 4 .. PopaAt(vector) - 2
    BY <1>1, <1>2
  <2> QED
    BY <1>1, <1>3, <2>1 DEF StackKept
<1>10. /\ Base(vector)' = Base(vector) /\ PopaAt(vector)' = PopaAt(vector)
       /\ Height(vector)' = Height(vector)
  BY <1>1 DEF Base, PopaAt, Height
<1> QED
  BY <1>1, <1>4, <1>5, <1>6, <1>7, <1>8, <1>9, <1>10 DEF StackKept

(* Instructions that do not touch the registers.                           *)
LEMMA RegistersUntouched ==
  ASSUME HandlerInv, pc # 0, Op # "iret", Step, UNCHANGED regs,
         pc # PopaAt(vector),
         ~(vector \in OfSegments /\ pc \in {PopaAt(vector) - 2, PopaAt(vector) - 1})
  PROVE  RegistersKept'
<1>1. /\ pc \in Nat /\ pc > 0 /\ pc' = pc + 1 /\ pc' # 0
      /\ vector' = vector /\ regs' = regs
  BY Goes DEF HandlerInv
<1>2. PopaAt(vector) \in 2 .. 8
  BY Heights DEF HandlerInv, Running
<1>3. RegistersKept
  BY DEF HandlerInv
<1>4. pc' = 1 \/ pc' > PopaAt(vector) => pc > PopaAt(vector)
  BY <1>1, <1>2
<1>5. vector \in OfSegments =>
        /\ pc \in 5 .. PopaAt(vector) - 1 => pc' \in 5 .. PopaAt(vector) - 1
        /\ pc \in 5 .. PopaAt(vector) - 2 => pc' \in 5 .. PopaAt(vector) - 2
  BY <1>1, <1>2
<1>6. PopaAt(vector)' = PopaAt(vector)
  BY <1>1 DEF PopaAt
<1>7. vector # ServerISR /\ (pc' = 1 \/ pc' > PopaAt(vector)) => regs = Before
  BY <1>1, <1>3, <1>4 DEF RegistersKept
<1>8. regs \in [Registers -> Int]
  BY <1>3 DEF RegistersKept
<1>9. vector # ServerISR =>
        /\ regs["esp"] = Before.esp
        /\ ~(vector \in OfSegments /\ pc' \in 5 .. PopaAt(vector) - 1) =>
             regs["ds"] = Before.ds
        /\ ~(vector \in OfSegments /\ pc' \in 5 .. PopaAt(vector) - 2) =>
             regs["es"] = Before.es
  BY <1>1, <1>3, <1>5 DEF RegistersKept
<1> QED
  BY <1>1, <1>6, <1>7, <1>8, <1>9 DEF RegistersKept

(* Only DE_ISR knows of divisions.                                         *)
LEMMA NoDivisionElsewhere ==
  ASSUME vector' # 0
  PROVE  DivisionFixed'
BY DEF DivisionFixed

(* The eight registers come to lie above the frame.                        *)
LEMMA PushaKeeps ==
  ASSUME HandlerInv, Pusha
  PROVE  HandlerInv'
<1> DEFINE saved == [i \in 1 .. 8 |-> regs[General[i]]]
<1>1. Step /\ stack' = stack \o saved /\ regs' = regs /\ at' = at
  BY DEF Pusha
<1>2. pc # 0 /\ Op = "pusha"
  BY Named DEF Pusha
<1>3. /\ Running' /\ GivenBack' /\ vector' = vector /\ division' = division
      /\ pc' = pc + 1 /\ pc' # 0
  BY <1>1, <1>2, Goes DEF HandlerInv
<1>4. pc = 1 /\ pc' = 2
  BY <1>2, <1>3, Places DEF HandlerInv
<1>5. /\ Base(vector) \in {4, 5} /\ Height(vector)[1] = 0
      /\ Height(vector)[2] = 8 /\ PopaAt(vector) \in 2 .. 8
      /\ vector \in KernelISRs => PopaAt(vector) \in {7, 8}
  BY Heights DEF HandlerInv, Running
<1>6. regs \in [Registers -> Int] /\ (vector # ServerISR => regs = Before)
  BY <1>2, <1>4 DEF HandlerInv, RegistersKept
<1>7. saved \in Seq(Int) /\ Len(saved) = 8
  BY <1>6, GeneralNames
<1>8. /\ stack \in Seq(Int) /\ Len(stack) = Base(vector)
      /\ stack[1] = CALLERS /\ stack[2] = EFLAGS /\ stack[3] = CS
      /\ stack[4] = EIP
  BY <1>2, <1>4, <1>5 DEF HandlerInv, StackKept
<1>9. /\ stack' \in Seq(Int) /\ Len(stack') = Base(vector) + 8
      /\ \A i \in 1 .. Len(stack) : stack'[i] = stack[i]
      /\ \A i \in 1 .. 8 : stack'[Base(vector) + i] = saved[i]
  <2> HIDE DEF saved
  <2>1. /\ Len(stack) \in Nat /\ stack' = stack \o saved
        /\ stack' \in Seq(Int) /\ Len(stack') = Len(stack) + Len(saved)
        /\ \A i \in 1 .. Len(stack) : stack'[i] = stack[i]
        /\ \A i \in 1 .. Len(saved) : stack'[Len(stack) + i] = saved[i]
    BY <1>1, <1>7, <1>8, Joined, LenProperties
  <2> QED
    BY <1>7, <1>8, <2>1
<1>10. RegistersKept'
  BY <1>1, <1>2, <1>4, <1>5, RegistersUntouched DEF OfSegments, KernelISRs
<1>11. StackKept'
  <2>1. /\ stack'[1] = CALLERS /\ stack'[2] = EFLAGS /\ stack'[3] = CS
        /\ stack'[4] = EIP
    <3>1. \A i \in 1 .. 4 : i \in 1 .. Len(stack)
      BY <1>5, <1>8
    <3> QED
      BY <1>8, <1>9, <3>1
  <2>2. vector # ServerISR =>
          \A i \in 1 .. 8 : stack'[Base(vector) + i] = Before[General[i]]
    BY <1>6, <1>9
  <2>3. /\ Base(vector)' = Base(vector) /\ PopaAt(vector)' = PopaAt(vector)
        /\ Height(vector)' = Height(vector)
    BY <1>3 DEF Base, PopaAt, Height
  <2> HIDE DEF saved
  <2> QED
    BY <1>3, <1>4, <1>5, <1>9, <2>1, <2>2, <2>3 DEF StackKept
<1>12. DivisionFixed'
  BY <1>1, <1>2, <1>3, <1>4 DEF HandlerInv, DivisionFixed
<1> QED
  BY <1>3, <1>10, <1>11, <1>12 DEF HandlerInv

(* The stack is deep enough for popa.                                      *)
LEMMA Depths ==
  ASSUME NEW n \in 12 .. 15
  PROVE  /\ n \in Nat /\ 8 \in 1 .. n
         /\ \A i \in 1 .. 4 : i \in 1 .. n - 8
         /\ \A i \in 1 .. 8 : n - (8 - i) \in 1 .. n
OBVIOUS

(* The eight registers come back, but for esp.                             *)
LEMMA PopaKeeps ==
  ASSUME HandlerInv, Popa
  PROVE  HandlerInv'
<1> DEFINE index(r) == CHOOSE i \in 1 .. 8 : General[i] = r
<1>1. /\ Step /\ stack' = Popped(8) /\ at' = at
      /\ regs' = [r \in Registers |-> IF r \in {"ds", "es", "esp"} THEN regs[r]
                                      ELSE stack[Len(stack) - (8 - index(r))]]
  BY DEF Popa, Top
<1>2. pc # 0 /\ Op = "popa"
  BY Named DEF Popa
<1>3. /\ Running' /\ GivenBack' /\ vector' = vector /\ division' = division
      /\ pc' = pc + 1 /\ pc' # 0 /\ pc \in Nat
  BY <1>1, <1>2, Goes DEF HandlerInv
<1>4. pc = PopaAt(vector)
  BY <1>2, Places DEF HandlerInv
<1>5. /\ Base(vector) \in {4, 5} /\ PopaAt(vector) \in 2 .. 8
      /\ vector # ServerISR => /\ Height(vector)[PopaAt(vector)] = 8
                               /\ Height(vector)[PopaAt(vector) + 1] = 0
      /\ vector = ServerISR => /\ Height(vector)[PopaAt(vector)] = 10
                               /\ Height(vector)[PopaAt(vector) + 1] = 2
  BY Heights DEF HandlerInv, Running
<1>6. /\ stack \in Seq(Int) /\ Len(stack) \in Nat
      /\ Len(stack) = Base(vector) + Height(vector)[pc]
      /\ stack[1] = CALLERS /\ stack[2] = EFLAGS /\ stack[3] = CS
      /\ IF vector = 0 /\ pc > 4 THEN Resumes(stack[4]) ELSE stack[4] = EIP
      /\ vector # ServerISR =>
           \A i \in 1 .. 8 : stack[Base(vector) + i] = Before[General[i]]
  <2>1. StackKept /\ pc \in 2 .. PopaAt(vector)
    BY <1>4, <1>5 DEF HandlerInv
  <2>2. /\ stack \in Seq(Int) /\ Len(stack) = Base(vector) + Height(vector)[pc]
        /\ stack[1] = CALLERS /\ stack[2] = EFLAGS /\ stack[3] = CS
        /\ IF vector = 0 /\ pc > 4 THEN Resumes(stack[4]) ELSE stack[4] = EIP
    BY <1>2, <2>1 DEF StackKept
  <2>3. vector # ServerISR =>
          \A i \in 1 .. 8 : stack[Base(vector) + i] = Before[General[i]]
    BY <1>2, <2>1 DEF StackKept
  <2>4. Len(stack) \in Nat
    BY <2>2, LenProperties
  <2> QED
    BY <2>2, <2>3, <2>4
<1>7. /\ regs \in [Registers -> Int]
      /\ vector # ServerISR => /\ regs["esp"] = Before["esp"]
                               /\ regs["ds"] = Before["ds"]
                               /\ regs["es"] = Before["es"]
  BY <1>2, <1>3, <1>4, <1>5 DEF HandlerInv, RegistersKept
<1>8. /\ Len(stack) \in 12 .. 15
      /\ Len(stack) - 8 = Base(vector) + Height(vector)[pc + 1]
      /\ vector # ServerISR => Len(stack) = Base(vector) + 8
  <2>1. CASE vector # ServerISR
    <3>1. Height(vector)[pc] = 8 /\ Height(vector)[pc + 1] = 0
      BY <1>4, <1>5, <2>1
    <3>2. Len(stack) = Base(vector) + 8
      BY <1>6, <3>1
    <3> QED
      BY <1>5, <3>1, <3>2
  <2>2. CASE vector = ServerISR
    <3>1. Height(vector)[pc] = 10 /\ Height(vector)[pc + 1] = 2
      BY <1>4, <1>5, <2>2
    <3>2. Len(stack) = Base(vector) + 10
      BY <1>6, <3>1
    <3> QED
      BY <1>5, <2>2, <3>1, <3>2
  <2> QED
    BY <2>1, <2>2
<1>8a. /\ 8 \in 1 .. Len(stack)
       /\ \A i \in 1 .. 4 : i \in 1 .. Len(stack) - 8
       /\ \A i \in 1 .. 8 : Len(stack) - (8 - i) \in 1 .. Len(stack)
  BY <1>8, Depths
<1>9. /\ stack' \in Seq(Int) /\ Len(stack') = Len(stack) - 8
      /\ \A i \in 1 .. Len(stack) - 8 : stack'[i] = stack[i]
  BY <1>1, <1>6, <1>8a, PoppedKeeps
<1>10. StackKept'
  <2>1. \A i \in 1 .. 4 : i \in 1 .. Len(stack) - 8
    BY <1>8a
  <2>2. /\ stack'[1] = CALLERS /\ stack'[2] = EFLAGS /\ stack'[3] = CS
        /\ stack'[4] = stack[4]
    <3>1. /\ stack'[1] = stack[1] /\ stack'[2] = stack[2]
          /\ stack'[3] = stack[3] /\ stack'[4] = stack[4]
      BY <1>9, <2>1
    <3> QED
      BY <1>6, <3>1
  <2>3. /\ Base(vector)' = Base(vector) /\ PopaAt(vector)' = PopaAt(vector)
        /\ Height(vector)' = Height(vector)
    BY <1>3 DEF Base, PopaAt, Height
  <2>4. IF vector' = 0 /\ pc' > 4 THEN Resumes(stack[4])' ELSE stack'[4] = EIP
    <3>1. vector = 0 => pc = 5 /\ pc' = 6
      BY <1>3, <1>4 DEF PopaAt
    <3>2. Resumes(stack[4])' <=> Resumes(stack[4])
      BY <1>3, <2>2 DEF Resumes
    <3>3. CASE vector = 0
      BY <1>3, <1>6, <3>1, <3>2, <3>3
    <3>4. CASE vector # 0
      BY <1>3, <1>6, <2>2, <3>4
    <3> QED
      BY <3>3, <3>4
  <2>5. pc' > PopaAt(vector)
    BY <1>3, <1>4, <1>5
  <2> QED
    <3>1. Len(stack') = Base(vector)' + Height(vector)'[pc']
      BY <1>3, <1>8, <1>9, <2>3
    <3>2. /\ ~(pc' \in 2 .. PopaAt(vector)')
          /\ ~(pc' \in 3 .. PopaAt(vector)' - 1)
          /\ ~(pc' \in 4 .. PopaAt(vector)' - 2)
      BY <1>3, <1>5, <2>3, <2>5
    <3> QED
      BY <1>9, <2>2, <2>4, <3>1, <3>2 DEF StackKept
<1>11. regs' \in [Registers -> Int] /\ (vector # ServerISR => regs' = Before)
  <2>1. ASSUME NEW r \in Registers, r \notin {"ds", "es", "esp"}
        PROVE  /\ index(r) \in 1 .. 8 /\ General[index(r)] = r
               /\ stack[Len(stack) - (8 - index(r))] \in Int
               /\ vector # ServerISR =>
                    stack[Len(stack) - (8 - index(r))] = Before[r]
    <3>1. index(r) \in 1 .. 8 /\ General[index(r)] = r
      BY <2>1, GeneralNames
    <3> HIDE DEF index
    <3>2. Len(stack) - (8 - index(r)) \in 1 .. Len(stack)
      BY <1>8a, <3>1
    <3>3. stack[Len(stack) - (8 - index(r))] \in Int
      BY <1>6, <3>2, LenProperties
    <3>4. ASSUME vector # ServerISR
          PROVE  stack[Len(stack) - (8 - index(r))] = Before[r]
      <4>1. Len(stack) - (8 - index(r)) = Base(vector) + index(r)
        BY <1>5, <1>8, <3>1, <3>4
      <4> QED
        BY <1>6, <3>1, <3>4, <4>1
    <3> QED
      BY <3>1, <3>3, <3>4
  <2>2. \A r \in Registers : regs'[r] \in Int /\ (vector # ServerISR => regs'[r] = Before[r])
    <3>1. SUFFICES ASSUME NEW r \in Registers
                   PROVE  regs'[r] \in Int /\ (vector # ServerISR => regs'[r] = Before[r])
      OBVIOUS
    <3>2. CASE r \in {"ds", "es", "esp"}
      BY <1>1, <1>7, <3>2
    <3>3. CASE r \notin {"ds", "es", "esp"}
      <4> HIDE DEF index
      <4> QED
        BY <1>1, <2>1, <3>3
    <3> QED
      BY <3>2, <3>3
  <2>3. regs' = [r \in Registers |-> regs'[r]]
    BY <1>1
  <2> HIDE DEF index
  <2> QED
    BY <2>2, <2>3, GeneralNames
<1>12. RegistersKept'
  <2>1. vector # ServerISR => /\ regs'["esp"] = Before["esp"]
                              /\ regs'["ds"] = Before["ds"]
                              /\ regs'["es"] = Before["es"]
    BY <1>11
  <2> QED
    BY <1>3, <1>11, <2>1 DEF RegistersKept
<1>13. DivisionFixed'
  <2>1. vector = 0 => pc = 5 /\ pc' = 6
    BY <1>3, <1>4 DEF PopaAt
  <2> QED
    BY <1>2, <1>3, <2>1 DEF HandlerInv, DivisionFixed
<1> QED
  BY <1>3, <1>10, <1>12, <1>13 DEF HandlerInv

(* A word goes on top of the saved registers.                              *)
LEMMA Room ==
  ASSUME NEW b \in {4, 5}, NEW h \in 8 .. 11, NEW n, n = b + h
  PROVE  /\ 1 \in 1 .. n /\ 2 \in 1 .. n /\ 3 \in 1 .. n /\ 4 \in 1 .. n
         /\ \A i \in 1 .. 8 : b + i \in 1 .. n
         /\ h > 8 => /\ 1 \in 1 .. n - 1 /\ 2 \in 1 .. n - 1
                     /\ 3 \in 1 .. n - 1 /\ 4 \in 1 .. n - 1
                     /\ \A i \in 1 .. 8 : b + i \in 1 .. n - 1
OBVIOUS

(* A push between pusha and popa.                                          *)
LEMMA StackGrows ==
  ASSUME HandlerInv, pc # 0, Op # "iret", Step,
         NEW x \in Int, stack' = Append(stack, x),
         vector # 0, pc \in 2 .. PopaAt(vector) - 1,
         NEW h \in 8 .. 10, Height(vector)[pc] = h, Height(vector)[pc + 1] = h + 1,
         vector \in OfSegments => \/ pc = 2 /\ h = 8 /\ x = Before.ds
                                  \/ pc = 3 /\ h = 9 /\ x = Before.es
  PROVE  StackKept'
<1>1. /\ pc \in Nat /\ pc > 0 /\ pc' = pc + 1 /\ vector' = vector
  BY Goes DEF HandlerInv
<1>2. /\ Base(vector) \in {4, 5} /\ PopaAt(vector) \in 2 .. 8
      /\ vector \in OfSegments => Base(vector) = 4
  BY Heights DEF HandlerInv, Running, OfSegments, KernelISRs
<1>3. StackKept /\ pc \in 2 .. PopaAt(vector) /\ pc' \in 2 .. PopaAt(vector)
  BY <1>1, <1>2 DEF HandlerInv
<1>4. /\ stack \in Seq(Int) /\ Len(stack) = Base(vector) + h
      /\ stack[1] = CALLERS /\ stack[2] = EFLAGS /\ stack[3] = CS
      /\ stack[4] = EIP
  BY <1>3 DEF StackKept
<1>5. vector # ServerISR =>
        \A i \in 1 .. 8 : stack[Base(vector) + i] = Before[General[i]]
  BY <1>3 DEF StackKept
<1>6. /\ stack' \in Seq(Int) /\ Len(stack') = Len(stack) + 1
      /\ \A i \in 1 .. Len(stack) : stack'[i] = stack[i]
      /\ stack'[Len(stack) + 1] = x
  BY <1>4, Appended
<1>7. /\ 1 \in 1 .. Len(stack) /\ 2 \in 1 .. Len(stack)
      /\ 3 \in 1 .. Len(stack) /\ 4 \in 1 .. Len(stack)
      /\ \A i \in 1 .. 8 : Base(vector) + i \in 1 .. Len(stack)
  <2>1. h \in 8 .. 11
    OBVIOUS
  <2> QED
    BY <1>2, <1>4, <2>1, Room
<1>8. /\ stack'[1] = CALLERS /\ stack'[2] = EFLAGS /\ stack'[3] = CS
      /\ stack'[4] = EIP
  BY <1>4, <1>6, <1>7
<1>9. vector # ServerISR =>
        \A i \in 1 .. 8 : stack'[Base(vector) + i] = Before[General[i]]
  BY <1>5, <1>6, <1>7
<1>10. ASSUME vector \in OfSegments
       PROVE  /\ pc' \in 3 .. PopaAt(vector) - 1 => stack'[13] = Before.ds
              /\ pc' \in 4 .. PopaAt(vector) - 2 => stack'[14] = Before.es
  <2>1. CASE pc = 2 /\ h = 8 /\ x = Before.ds
    <3>1. Len(stack) + 1 = 13 /\ pc' = 3
      BY <1>1, <1>2, <1>4, <1>10, <2>1
    <3> QED
      BY <1>2, <1>6, <2>1, <3>1
  <2>2. CASE pc = 3 /\ h = 9 /\ x = Before.es
    <3>1. Len(stack) + 1 = 14 /\ pc' = 4 /\ 13 \in 1 .. Len(stack)
      BY <1>1, <1>2, <1>4, <1>10, <2>2
    <3>2. 3 \in 3 .. PopaAt(vector) - 1
      BY <1>2, <2>2
    <3>3. stack[13] = Before.ds
      BY <1>3, <1>10, <2>2, <3>2 DEF StackKept
    <3> QED
      BY <1>6, <2>2, <3>1, <3>3
  <2> QED
    BY <1>10, <2>1, <2>2
<1>11. /\ Base(vector)' = Base(vector) /\ PopaAt(vector)' = PopaAt(vector)
       /\ Height(vector)' = Height(vector)
  BY <1>1 DEF Base, PopaAt, Height
<1>12. Len(stack') = Base(vector)' + Height(vector)'[pc']
  <2>1. Height(vector)'[pc'] = h + 1
    BY <1>1, <1>11
  <2>2. Len(stack) + 1 = Base(vector) + (h + 1)
    BY <1>2, <1>4
  <2> QED
    BY <1>6, <1>11, <2>1, <2>2
<1>13. /\ IF vector' = 0 /\ pc' > 4 THEN Resumes(stack[4])' ELSE stack'[4] = EIP
       /\ vector' # ServerISR =>
            \A i \in 1 .. 8 : stack'[Base(vector)' + i] = Before[General[i]]
       /\ vector' \in OfSegments /\ pc' \in 3 .. PopaAt(vector)' - 1 =>
            stack'[13] = Before.ds
       /\ vector' \in OfSegments /\ pc' \in 4 .. PopaAt(vector)' - 2 =>
            stack'[14] = Before.es
  <2>1. vector' # 0
    BY <1>1
  <2> QED
    BY <1>1, <1>8, <2>1, <1>9, <1>10, <1>11
<1> QED
  BY <1>6, <1>8, <1>12, <1>13 DEF StackKept

(* A word that lay on top of the saved registers goes.                     *)
LEMMA StackShrinks ==
  ASSUME HandlerInv, pc # 0, Op # "iret", Step, stack' = Popped(1),
         vector # 0, pc \in 2 .. PopaAt(vector) - 1,
         NEW h \in 9 .. 11, Height(vector)[pc] = h, Height(vector)[pc + 1] = h - 1,
         vector \in OfSegments => \/ pc = PopaAt(vector) - 2 /\ h = 10
                                  \/ pc = PopaAt(vector) - 1
  PROVE  StackKept'
<1>1. /\ pc \in Nat /\ pc > 0 /\ pc' = pc + 1 /\ vector' = vector
  BY Goes DEF HandlerInv
<1>2. /\ Base(vector) \in {4, 5} /\ PopaAt(vector) \in 2 .. 8
      /\ vector \in OfSegments => Base(vector) = 4 /\ PopaAt(vector) \in {7, 8}
  BY Heights DEF HandlerInv, Running, OfSegments, KernelISRs
<1>3. StackKept /\ pc \in 2 .. PopaAt(vector) /\ pc' \in 2 .. PopaAt(vector)
  BY <1>1, <1>2 DEF HandlerInv
<1>4. /\ stack \in Seq(Int) /\ Len(stack) = Base(vector) + h
      /\ stack[1] = CALLERS /\ stack[2] = EFLAGS /\ stack[3] = CS
      /\ stack[4] = EIP
  BY <1>3 DEF StackKept
<1>5. vector # ServerISR =>
        \A i \in 1 .. 8 : stack[Base(vector) + i] = Before[General[i]]
  BY <1>3 DEF StackKept
<1>6. 1 \in 1 .. Len(stack)
  BY <1>2, <1>4
<1>7. /\ stack' \in Seq(Int) /\ Len(stack') = Len(stack) - 1
      /\ \A i \in 1 .. Len(stack) - 1 : stack'[i] = stack[i]
  BY <1>4, <1>6, PoppedKeeps
<1>8. /\ 1 \in 1 .. Len(stack) - 1 /\ 2 \in 1 .. Len(stack) - 1
      /\ 3 \in 1 .. Len(stack) - 1 /\ 4 \in 1 .. Len(stack) - 1
      /\ \A i \in 1 .. 8 : Base(vector) + i \in 1 .. Len(stack) - 1
  <2>1. h \in 8 .. 11 /\ h > 8
    OBVIOUS
  <2> QED
    BY <1>2, <1>4, <2>1, Room
<1>9. /\ stack'[1] = CALLERS /\ stack'[2] = EFLAGS /\ stack'[3] = CS
      /\ stack'[4] = EIP
  BY <1>4, <1>7, <1>8
<1>10. vector # ServerISR =>
         \A i \in 1 .. 8 : stack'[Base(vector) + i] = Before[General[i]]
  BY <1>5, <1>7, <1>8
<1>11. ASSUME vector \in OfSegments
       PROVE  /\ pc' \in 3 .. PopaAt(vector) - 1 => stack'[13] = Before.ds
              /\ ~(pc' \in 4 .. PopaAt(vector) - 2)
  <2>1. CASE pc = PopaAt(vector) - 2 /\ h = 10
    <3>1. 13 \in 1 .. Len(stack) - 1 /\ pc \in 3 .. PopaAt(vector) - 1
      BY <1>2, <1>4, <1>11, <2>1
    <3>2. stack[13] = Before.ds
      BY <1>3, <1>11, <3>1 DEF StackKept
    <3> QED
      BY <1>1, <1>2, <1>7, <2>1, <3>1, <3>2
  <2>2. CASE pc = PopaAt(vector) - 1
    BY <1>1, <1>2, <2>2
  <2> QED
    BY <1>11, <2>1, <2>2
<1>12. /\ Base(vector)' = Base(vector) /\ PopaAt(vector)' = PopaAt(vector)
       /\ Height(vector)' = Height(vector)
  BY <1>1 DEF Base, PopaAt, Height
<1>13. Len(stack') = Base(vector)' + Height(vector)'[pc']
  <2>1. Height(vector)'[pc'] = h - 1
    BY <1>1, <1>12
  <2>2. Len(stack) - 1 = Base(vector) + (h - 1)
    <3>1. Base(vector) \in {4, 5} /\ Len(stack) = Base(vector) + h
      BY <1>2, <1>4
    <3> QED
      BY <3>1
  <2> QED
    BY <1>7, <1>12, <2>1, <2>2
<1>14. /\ IF vector' = 0 /\ pc' > 4 THEN Resumes(stack[4])' ELSE stack'[4] = EIP
       /\ vector' # ServerISR =>
            \A i \in 1 .. 8 : stack'[Base(vector)' + i] = Before[General[i]]
       /\ vector' \in OfSegments /\ pc' \in 3 .. PopaAt(vector)' - 1 =>
            stack'[13] = Before.ds
       /\ vector' \in OfSegments /\ pc' \in 4 .. PopaAt(vector)' - 2 =>
            stack'[14] = Before.es
  <2>1. vector' # 0
    BY <1>1
  <2> QED
    BY <1>1, <1>9, <2>1, <1>10, <1>11, <1>12
<1> QED
  BY <1>7, <1>9, <1>13, <1>14 DEF StackKept

(* How far it has grown between them.                                      *)
LEMMA HeightsBetween ==
  ASSUME vector \in 0 .. 255
  PROVE  /\ vector = 0 =>
              /\ Height(vector)[3] = 8 /\ Height(vector)[4] = 8
              /\ Height(vector)[5] = 8
         /\ vector \in {12, 13} =>
              /\ Height(vector)[3] = 0 /\ Height(vector)[4] = -1
         /\ vector = 33 =>
              /\ Height(vector)[3] = 9 /\ Height(vector)[4] = 9
              /\ Height(vector)[5] = 8 /\ Height(vector)[6] = 8
         /\ vector = 64 =>
              /\ Height(vector)[3] = 9 /\ Height(vector)[4] = 10
              /\ Height(vector)[5] = 10 /\ Height(vector)[6] = 11
              /\ Height(vector)[7] = 10
         /\ vector = 65 =>
              /\ Height(vector)[3] = 9 /\ Height(vector)[4] = 10
              /\ Height(vector)[5] = 10 /\ Height(vector)[6] = 10
              /\ Height(vector)[7] = 9 /\ Height(vector)[8] = 8
         /\ vector = 66 =>
              /\ Height(vector)[3] = 9 /\ Height(vector)[4] = 10
              /\ Height(vector)[5] = 10 /\ Height(vector)[6] = 9
              /\ Height(vector)[7] = 8
<1>1. vector = 0 => Height(vector) = <<0, 8, 8, 8, 8, 0>>
  BY DEF Height
<1>2. vector \in {12, 13} => Height(vector) = <<0, 8, 0, -1>>
  BY DEF Height
<1>3. vector = 33 => Height(vector) = <<0, 8, 9, 9, 8, 8, 0>>
  BY DEF Height
<1>4. vector = 64 => Height(vector) = <<0, 8, 9, 10, 10, 11, 10, 2>>
  BY DEF Height
<1>5. vector = 65 => Height(vector) = <<0, 8, 9, 10, 10, 10, 9, 8, 0>>
  BY DEF Height
<1>6. vector = 66 => Height(vector) = <<0, 8, 9, 10, 10, 9, 8, 0>>
  BY DEF Height
<1> QED
  BY <1>1, <1>2, <1>3, <1>4, <1>5, <1>6

(* ds, es or edi is pushed.                                                *)
LEMMA PushKeeps ==
  ASSUME HandlerInv, NEW r \in {"ds", "es", "edi"}, Push(r)
  PROVE  HandlerInv'
<1>1. Step /\ stack' = Append(stack, regs[r]) /\ regs' = regs
  BY DEF Push
<1>2. pc # 0 /\ Op = "push" /\ Operand = r
  BY Named DEF Push
<1>3. Running' /\ GivenBack' /\ vector' = vector
  BY <1>1, <1>2, Goes DEF HandlerInv
<1>4. \/ vector \in KernelISRs /\ pc = 2 /\ r = "ds"
      \/ vector \in KernelISRs /\ pc = 3 /\ r = "es"
      \/ vector = ServerISR /\ pc = 5
      \/ vector = 33 /\ pc = 2
  BY <1>2, Places DEF HandlerInv
<1>5. /\ vector \in 0 .. 255 /\ vector # 0
      /\ vector \in KernelISRs => PopaAt(vector) \in {7, 8}
      /\ vector = 33 => PopaAt(vector) = 6
  BY <1>4, Heights DEF HandlerInv, Running, KernelISRs, ServerISR, PopaAt
<1>6. regs[r] \in Int
  <2>1. regs \in [Registers -> Int] /\ General[8] = "edi"
    BY <1>2 DEF HandlerInv, RegistersKept, General
  <2>2. r \in Registers
    BY <2>1 DEF Registers
  <2> QED
    BY <2>1, <2>2
<1>7. vector \in OfSegments =>
        /\ pc = 2 => regs[r] = Before.ds
        /\ pc = 3 => regs[r] = Before.es
  <2>1. ASSUME vector \in OfSegments
        PROVE  /\ vector # ServerISR /\ vector # 33
               /\ pc \notin 5 .. PopaAt(vector) - 1
               /\ pc \notin 5 .. PopaAt(vector) - 2
    BY <1>4, <1>5, <2>1 DEF OfSegments, KernelISRs, ServerISR
  <2>2. ASSUME vector \in OfSegments
        PROVE  regs["ds"] = Before.ds /\ regs["es"] = Before.es
    BY <1>2, <2>1, <2>2 DEF HandlerInv, RegistersKept
  <2> QED
    BY <1>4, <2>1, <2>2
<1>8. RegistersKept'
  <2>1. pc # PopaAt(vector)
    BY <1>4, <1>5 DEF KernelISRs, ServerISR
  <2>2. vector \in OfSegments =>
          pc \notin {PopaAt(vector) - 2, PopaAt(vector) - 1}
    BY <1>4, <1>5 DEF OfSegments, KernelISRs, ServerISR
  <2> QED
    BY <1>1, <1>2, <2>1, <2>2, RegistersUntouched
<1>9. PICK h \in 8 .. 10 :
        /\ Height(vector)[pc] = h /\ Height(vector)[pc + 1] = h + 1
        /\ pc \in 2 .. PopaAt(vector) - 1
        /\ vector \in OfSegments => (pc = 2 /\ h = 8) \/ (pc = 3 /\ h = 9)
  <2>1. CASE vector \in KernelISRs /\ pc = 2
    <3>1. Height(vector)[2] = 8 /\ Height(vector)[3] = 9
      BY <1>5, <2>1, Heights, HeightsBetween DEF KernelISRs
    <3>2. pc + 1 = 3 /\ pc \in 2 .. PopaAt(vector) - 1
      BY <1>5, <2>1
    <3>3. Height(vector)[pc] = 8 /\ Height(vector)[pc + 1] = 9
      BY <2>1, <3>1, <3>2
    <3> WITNESS 8 \in 8 .. 10
    <3> QED
      BY <2>1, <3>2, <3>3
  <2>2. CASE vector \in KernelISRs /\ pc = 3
    <3>1. Height(vector)[3] = 9 /\ Height(vector)[4] = 10
      BY <1>5, <2>2, HeightsBetween DEF KernelISRs
    <3> QED
      BY <1>5, <2>2, <3>1
  <2>3. CASE vector = ServerISR /\ pc = 5
    <3>1. Height(vector)[5] = 10 /\ Height(vector)[6] = 11 /\ vector \in KernelISRs
      BY <1>5, <2>3, HeightsBetween DEF ServerISR, KernelISRs
    <3> QED
      BY <1>5, <2>3, <3>1 DEF OfSegments, ServerISR
  <2>4. CASE vector = 33 /\ pc = 2
    <3>1. Height(vector)[2] = 8 /\ Height(vector)[3] = 9
      BY <1>5, <2>4, Heights, HeightsBetween
    <3> QED
      BY <1>5, <2>4, <3>1 DEF OfSegments
  <2> QED
    BY <1>4, <2>1, <2>2, <2>3, <2>4
<1>10. StackKept'
  BY <1>1, <1>2, <1>5, <1>6, <1>7, <1>9, StackGrows
<1>11. DivisionFixed'
  BY <1>3, <1>5, NoDivisionElsewhere
<1> QED
  BY <1>3, <1>8, <1>10, <1>11 DEF HandlerInv

(* A segment is popped.                                                    *)
LEMMA PopKeeps ==
  ASSUME HandlerInv, NEW r \in {"ds", "es"}, Pop(r)
  PROVE  HandlerInv'
<1>1. /\ Step /\ stack' = Popped(1)
      /\ regs' = [regs EXCEPT ![r] = stack[Len(stack) - 0]]
  BY DEF Pop, Top
<1>2. pc # 0 /\ Op = "pop" /\ Operand = r
  BY Named DEF Pop
<1>3. /\ Running' /\ GivenBack' /\ vector' = vector
      /\ pc \in Nat /\ pc' = pc + 1 /\ pc' # 0
  BY <1>1, <1>2, Goes DEF HandlerInv
<1>4. \/ vector \in OfSegments /\ pc = PopaAt(vector) - 2 /\ r = "es"
      \/ vector \in OfSegments /\ pc = PopaAt(vector) - 1 /\ r = "ds"
      \/ vector = ServerISR /\ pc = 6
  BY <1>2, Places DEF HandlerInv
<1>5. /\ vector \in 0 .. 255 /\ vector # 0 /\ vector \in KernelISRs
      /\ PopaAt(vector) \in {7, 8} /\ Base(vector) = 4
      /\ vector = ServerISR => PopaAt(vector) = 7
      /\ vector \in OfSegments => vector # ServerISR
  BY <1>4, Heights
     DEF HandlerInv, Running, KernelISRs, ServerISR, OfSegments, PopaAt
<1>6. PICK h \in 9 .. 11 :
        /\ Height(vector)[pc] = h /\ Height(vector)[pc + 1] = h - 1
        /\ vector \in OfSegments /\ r = "es" => pc = PopaAt(vector) - 2 /\ h = 10
        /\ vector \in OfSegments /\ r = "ds" => pc = PopaAt(vector) - 1 /\ h = 9
  <2>1. CASE vector = ServerISR /\ pc = 6
    <3>1. Height(vector)[6] = 11 /\ Height(vector)[7] = 10
      BY <1>5, <2>1, HeightsBetween DEF ServerISR
    <3> QED
      BY <1>5, <2>1, <3>1
  <2>2. CASE vector = 65 /\ pc # 6
    <3>1. pc = 7 /\ PopaAt(vector) = 8 /\ r = "ds"
      BY <1>4, <2>2 DEF PopaAt, ServerISR
    <3>2. Height(vector)[7] = 9 /\ Height(vector)[8] = 8
      BY <1>5, <2>2, HeightsBetween
    <3> QED
      BY <3>1, <3>2
  <2>3. CASE vector = 65 /\ pc = 6
    <3>1. PopaAt(vector) = 8 /\ r = "es"
      BY <1>4, <2>3 DEF PopaAt, ServerISR
    <3>2. Height(vector)[6] = 10 /\ Height(vector)[7] = 9
      BY <1>5, <2>3, HeightsBetween
    <3> QED
      BY <2>3, <3>1, <3>2
  <2>4. CASE vector = 66 /\ pc # 5
    <3>1. pc = 6 /\ PopaAt(vector) = 7 /\ r = "ds"
      BY <1>4, <2>4 DEF PopaAt, ServerISR
    <3>2. Height(vector)[6] = 9 /\ Height(vector)[7] = 8
      BY <1>5, <2>4, HeightsBetween
    <3> QED
      BY <3>1, <3>2
  <2>5. CASE vector = 66 /\ pc = 5
    <3>1. PopaAt(vector) = 7 /\ r = "es"
      BY <1>4, <2>5 DEF PopaAt, ServerISR
    <3>2. Height(vector)[5] = 10 /\ Height(vector)[6] = 9
      BY <1>5, <2>5, HeightsBetween
    <3> QED
      BY <2>5, <3>1, <3>2
  <2> QED
    BY <1>4, <2>1, <2>2, <2>3, <2>4, <2>5 DEF OfSegments
<1>7. pc \in 2 .. PopaAt(vector) - 1
  BY <1>4, <1>5
<1>8. StackKept'
  BY <1>1, <1>2, <1>4, <1>5, <1>6, <1>7, StackShrinks
<1>9. /\ stack \in Seq(Int) /\ Len(stack) = 4 + h
      /\ vector \in OfSegments => /\ r = "es" => stack[14] = Before.es
                                  /\ r = "ds" => stack[13] = Before.ds
  <2>1. StackKept
    BY DEF HandlerInv
  <2>2. vector \in OfSegments =>
          /\ r = "es" => pc \in 4 .. PopaAt(vector) - 2
          /\ r = "ds" => pc \in 3 .. PopaAt(vector) - 1
    BY <1>5, <1>6
  <2> QED
    BY <1>2, <1>5, <1>6, <2>1, <2>2 DEF StackKept
<1>10. stack[Len(stack) - 0] \in Int
  <2>1. Len(stack) - 0 \in 1 .. Len(stack)
    BY <1>9
  <2> QED
    BY <1>9, <2>1, LenProperties
<1>11. regs' \in [Registers -> Int] /\ r \in Registers
  <2>1. regs \in [Registers -> Int] /\ r \in Registers
    BY <1>2 DEF HandlerInv, RegistersKept, Registers
  <2> QED
    BY <1>1, <1>10, <2>1
<1>12. regs \in [Registers -> Int] /\ "esp" \in Registers
  <2>1. General[5] = "esp"
    BY DEF General
  <2> QED
    BY <1>2, <2>1 DEF HandlerInv, RegistersKept, Registers
<1>13. ASSUME vector # ServerISR
       PROVE  /\ pc' # 1 /\ ~(pc' > PopaAt(vector))
              /\ regs'["esp"] = Before.esp /\ regs'["es"] = Before.es
              /\ r = "ds" => regs'["ds"] = Before.ds
              /\ r = "es" => pc' \in 5 .. PopaAt(vector) - 1
  <2>1. regs["esp"] = Before.esp
    BY <1>2, <1>13 DEF HandlerInv, RegistersKept
  <2>2. vector \in OfSegments /\ "ds" \in Registers /\ "es" \in Registers
    BY <1>4, <1>13 DEF Registers
  <2>3. CASE r = "es"
    <3>1. Len(stack) - 0 = 14
      BY <1>6, <1>9, <2>2, <2>3
    <3>2. regs'["es"] = Before.es /\ regs'["esp"] = regs["esp"]
      BY <1>1, <1>9, <1>12, <2>2, <2>3, <3>1
    <3> QED
      BY <1>3, <1>5, <1>6, <2>1, <2>2, <2>3, <3>2
  <2>4. CASE r = "ds"
    <3>1. Len(stack) - 0 = 13
      BY <1>6, <1>9, <2>2, <2>4
    <3>2. regs'["ds"] = Before.ds /\ regs'["esp"] = regs["esp"]
          /\ regs'["es"] = regs["es"]
      BY <1>1, <1>9, <1>12, <2>2, <2>4, <3>1
    <3>3. pc = PopaAt(vector) - 1 /\ pc \notin 5 .. PopaAt(vector) - 2
      BY <1>5, <1>6, <2>2, <2>4
    <3>4. regs["es"] = Before.es
      BY <1>2, <1>13, <3>3 DEF HandlerInv, RegistersKept
    <3> QED
      BY <1>3, <1>5, <2>1, <2>4, <3>2, <3>3, <3>4
  <2> QED
    BY <2>3, <2>4
<1>14. RegistersKept'
  <2>1. PopaAt(vector)' = PopaAt(vector)
    BY <1>3 DEF PopaAt
  <2> QED
    BY <1>3, <1>4, <1>11, <1>13, <2>1 DEF RegistersKept
<1>15. DivisionFixed'
  BY <1>3, <1>5, NoDivisionElsewhere
<1> QED
  BY <1>3, <1>8, <1>14, <1>15 DEF HandlerInv

(* An argument or an error code is dropped.                                *)
LEMMA DropKeeps ==
  ASSUME HandlerInv, Drop
  PROVE  HandlerInv'
<1>1. Step /\ stack' = Popped(1) /\ regs' = regs
  BY DEF Drop
<1>2. pc # 0 /\ Op = "drop"
  BY Named DEF Drop
<1>3. /\ Running' /\ GivenBack' /\ vector' = vector
      /\ pc \in Nat /\ pc' = pc + 1 /\ pc' # 0
  BY <1>1, <1>2, Goes DEF HandlerInv
<1>4. \/ vector \in {12, 13} /\ pc = 3
      \/ vector = 33 /\ pc = 4
  <2>1. Running
    BY DEF HandlerInv
  <2> QED
    BY <1>2, <2>1, Places, Zenon
<1>5. /\ vector \in 0 .. 255 /\ vector # 0 /\ vector \notin OfSegments
      /\ vector # ServerISR /\ pc # PopaAt(vector)
  BY <1>4 DEF OfSegments, ServerISR, PopaAt
<1>6. DivisionFixed'
  BY <1>3, <1>5, NoDivisionElsewhere
<1>7. RegistersKept'
  BY <1>1, <1>2, <1>5, RegistersUntouched
<1>8. StackKept'
  <2>1. CASE vector = 33
    <3>1. /\ pc = 4 /\ PopaAt(vector) = 6
          /\ Height(vector)[4] = 9 /\ Height(vector)[5] = 8
      BY <1>4, <1>5, <2>1, HeightsBetween DEF PopaAt
    <3>2. 9 \in 9 .. 11 /\ pc \in 2 .. PopaAt(vector) - 1
      BY <3>1
    <3> QED
      BY <1>1, <1>2, <1>5, <3>1, <3>2, StackShrinks
  <2>2. CASE vector \in {12, 13}
    <3>1. /\ pc = 3 /\ pc' = 4 /\ PopaAt(vector) = 2 /\ Base(vector) = 5
          /\ Height(vector)[3] = 0 /\ Height(vector)[4] = -1
      BY <1>3, <1>4, <1>5, <2>2, HeightsBetween DEF PopaAt, Base, HasErrorCode
    <3>2. /\ stack \in Seq(Int) /\ Len(stack) = 5
          /\ stack[1] = CALLERS /\ stack[2] = EFLAGS /\ stack[3] = CS
          /\ stack[4] = EIP
      BY <1>2, <1>5, <3>1 DEF HandlerInv, StackKept
    <3>3. /\ stack' \in Seq(Int) /\ Len(stack') = 4
          /\ \A i \in 1 .. 4 : stack'[i] = stack[i]
      <4>1. 1 \in 1 .. Len(stack) /\ Len(stack) - 1 = 4
        BY <3>2
      <4> QED
        BY <1>1, <3>2, <4>1, PoppedKeeps
    <3>4. /\ stack'[1] = CALLERS /\ stack'[2] = EFLAGS /\ stack'[3] = CS
          /\ stack'[4] = EIP
      BY <3>2, <3>3
    <3>5. /\ Base(vector)' = Base(vector) /\ PopaAt(vector)' = PopaAt(vector)
          /\ Height(vector)' = Height(vector)
      BY <1>3 DEF Base, PopaAt, Height
    <3>6. /\ Len(stack') = Base(vector)' + Height(vector)'[pc']
          /\ pc' \notin 2 .. PopaAt(vector)'
      BY <3>1, <3>3, <3>5
    <3> QED
      BY <1>3, <1>5, <3>3, <3>4, <3>6 DEF StackKept
  <2> QED
    BY <1>4, <2>1, <2>2
<1> QED
  BY <1>3, <1>6, <1>7, <1>8 DEF HandlerInv

(* Instructions before popa that change registers but not esp.             *)
LEMMA RegistersWritten ==
  ASSUME HandlerInv, pc # 0, vector' = vector, pc' \in 2 .. PopaAt(vector),
         regs' \in [Registers -> Int], regs'["esp"] = regs["esp"],
         \/ vector = ServerISR
         \/ vector \in OfSegments /\ pc' \in 5 .. PopaAt(vector) - 2
         \/ /\ vector \notin OfSegments
            /\ regs'["ds"] = regs["ds"] /\ regs'["es"] = regs["es"]
  PROVE  RegistersKept'
<1>1. RegistersKept /\ PopaAt(vector) \in 2 .. 8
  BY Heights DEF HandlerInv, Running
<1>2. PopaAt(vector)' = PopaAt(vector)
  BY DEF PopaAt
<1>3. pc' # 1 /\ ~(pc' > PopaAt(vector))
  BY <1>1
<1>4. vector # ServerISR => regs'["esp"] = Before.esp
  BY <1>1 DEF RegistersKept
<1>5. vector # ServerISR /\ vector \notin OfSegments =>
        regs'["ds"] = Before.ds /\ regs'["es"] = Before.es
  BY <1>1 DEF RegistersKept, ServerISR, OfSegments
<1>6. vector \in OfSegments =>
        /\ pc' \in 5 .. PopaAt(vector) - 1 \/ vector = ServerISR
        /\ pc' \in 5 .. PopaAt(vector) - 2 \/ vector = ServerISR
  BY <1>1
<1> QED
  BY <1>2, <1>3, <1>4, <1>5, <1>6 DEF RegistersKept

(* The code that runs between pusha and popa.                              *)
LEMMA OverwriteKeeps ==
  ASSUME HandlerInv, Overwrite
  PROVE  HandlerInv'
<1>1. /\ Step /\ stack' = stack
      /\ regs' = [r \in Registers |-> IF r \in Overwritten THEN 16 ELSE regs[r]]
  BY DEF Overwrite
<1>2. /\ pc # 0 /\ Op # "iret" /\ "esp" \notin Overwritten
      /\ \/ vector \in KernelISRs /\ pc = 4
         \/ vector = 65 /\ pc = 5
         \/ vector = 33 /\ pc = 5 /\ Overwritten = {"eax", "edx"}
  <2>1. CASE Is(KERNEL)
    <3>1. pc # 0 /\ Op = "kernel"
      BY <2>1, Named
    <3>2. Overwritten = {"ebx", "ds", "es"}
      BY <2>1, <3>1, Named DEF Overwritten
    <3> QED
      BY <3>1, <3>2, Places DEF HandlerInv
  <2>2. CASE Is(CALL)
    <3>1. pc # 0 /\ Op = "call" /\ Operand = "none"
      BY <2>2, Named
    <3>2. Overwritten = {"eax", "ecx", "edx"}
      BY <2>2, <3>1, Named DEF Overwritten
    <3> QED
      BY <3>1, <3>2, Places DEF HandlerInv
  <2>3. CASE Is(EOI)
    <3>1. pc # 0 /\ Op = "eoi"
      BY <2>3, Named
    <3>2. Overwritten = {"eax", "edx"}
      BY <2>3, <3>1, Named DEF Overwritten
    <3> QED
      BY <3>1, <3>2, Places DEF HandlerInv
  <2>4. Is(KERNEL) \/ Is(CALL) \/ Is(EOI)
    BY DEF Overwrite, Overwritten
  <2> QED
    BY <2>1, <2>2, <2>3, <2>4
<1>3. /\ Running' /\ GivenBack' /\ vector' = vector
      /\ pc \in Nat /\ pc' = pc + 1 /\ pc' # 0
  BY <1>1, <1>2, Goes DEF HandlerInv
<1>4. /\ vector \in 0 .. 255 /\ vector # 0
      /\ vector \in KernelISRs => PopaAt(vector) \in {7, 8}
      /\ vector = 65 => PopaAt(vector) = 8 /\ vector \in KernelISRs
      /\ vector = 33 => PopaAt(vector) = 6
      /\ vector = ServerISR \/ vector \in OfSegments <=> vector \in KernelISRs
      /\ vector \in OfSegments => vector # 33
  BY <1>2, Heights
     DEF HandlerInv, Running, KernelISRs, OfSegments, ServerISR, PopaAt
<1>5. Height(vector)[pc + 1] = Height(vector)[pc]
  <2>1. CASE vector \in KernelISRs /\ pc = 4
    <3>1. Height(vector)[4] = 10 /\ Height(vector)[5] = 10
      BY <1>4, <2>1, HeightsBetween DEF KernelISRs
    <3> QED
      BY <2>1, <3>1
  <2>2. CASE vector = 65 /\ pc = 5
    <3>1. Height(vector)[5] = 10 /\ Height(vector)[6] = 10
      BY <1>4, <2>2, HeightsBetween
    <3> QED
      BY <2>2, <3>1
  <2>3. CASE vector = 33 /\ pc = 5
    <3>1. Height(vector)[5] = 8 /\ Height(vector)[6] = 8
      BY <1>4, <2>3, HeightsBetween
    <3> QED
      BY <2>3, <3>1
  <2> QED
    BY <1>2, <2>1, <2>2, <2>3
<1>6. StackKept'
  <2>1. pc # 1 /\ pc # PopaAt(vector) /\ pc \notin {2, 3}
    BY <1>2, <1>4
  <2> QED
    BY <1>1, <1>2, <1>4, <1>5, <2>1, StackUntouched
<1>7. RegistersKept'
  <2>1. regs \in [Registers -> Int] /\ {"esp", "ds", "es"} \subseteq Registers
    <3>1. General[5] = "esp"
      BY DEF General
    <3> QED
      BY <1>2, <3>1 DEF HandlerInv, RegistersKept, Registers
  <2>2. regs' \in [Registers -> Int] /\ regs'["esp"] = regs["esp"]
    BY <1>1, <1>2, <2>1
  <2>3. vector = 33 => regs'["ds"] = regs["ds"] /\ regs'["es"] = regs["es"]
    <3>1. vector = 33 => "ds" \notin Overwritten /\ "es" \notin Overwritten
      BY <1>2, <1>4
    <3> QED
      BY <1>1, <2>1, <3>1
  <2>4. /\ pc' \in 2 .. PopaAt(vector)
        /\ vector \in OfSegments => pc' \in 5 .. PopaAt(vector) - 2
        /\ vector \notin OfSegments => vector = ServerISR \/ vector = 33
    BY <1>2, <1>3, <1>4
  <2> QED
    BY <1>2, <1>3, <2>2, <2>3, <2>4, RegistersWritten
<1>8. DivisionFixed'
  BY <1>3, <1>4, NoDivisionElsewhere
<1> QED
  BY <1>3, <1>6, <1>7, <1>8 DEF HandlerInv

(* ISR_FOR_PS2, as far as the stack is concerned.                          *)
LEMMA ServiceKeeps ==
  ASSUME HandlerInv, ISR_FOR_PS2
  PROVE  HandlerInv'
<1>1. /\ Is(KEY) /\ Step /\ stack' = stack
      /\ regs' = [regs EXCEPT !["eax"] = 16, !["ecx"] = 16, !["edx"] = 16]
  BY DEF ISR_FOR_PS2, CalledC
<1>2. pc # 0 /\ Op # "iret" /\ vector = 33 /\ pc = 3
  BY <1>1, Named, Places DEF HandlerInv
<1>3. /\ Running' /\ GivenBack' /\ vector' = vector /\ pc' = 4
  BY <1>1, <1>2, Goes DEF HandlerInv
<1>4. /\ PopaAt(vector) = 6 /\ vector \notin OfSegments
      /\ Height(vector)[3] = 9 /\ Height(vector)[4] = 9
  BY <1>2, HeightsBetween DEF PopaAt, OfSegments
<1>5. StackKept'
  BY <1>1, <1>2, <1>4, StackUntouched
<1>6. RegistersKept'
  <2>1. regs \in [Registers -> Int]
    BY <1>2 DEF HandlerInv, RegistersKept
  <2>2. /\ regs' \in [Registers -> Int] /\ regs'["esp"] = regs["esp"]
        /\ regs'["ds"] = regs["ds"] /\ regs'["es"] = regs["es"]
    <3>1. General[5] = "esp"
      BY DEF General
    <3>2. {"esp", "ds", "es"} \subseteq Registers
      BY <3>1 DEF Registers
    <3>3. regs' = [r \in Registers |->
                     IF r \in {"eax", "ecx", "edx"} THEN 16 ELSE regs[r]]
      BY <1>1, <2>1
    <3> QED
      BY <2>1, <3>2, <3>3
  <2> QED
    BY <1>2, <1>3, <1>4, <2>2, RegistersWritten
<1>7. DivisionFixed'
  BY <1>2, <1>3, NoDivisionElsewhere
<1> QED
  BY <1>3, <1>5, <1>6, <1>7 DEF HandlerInv

-----------------------------------------------------------------------------
(* The bytes of the division.                                              *)
LEMMA Triple ==
  ASSUME NEW a \in Int, NEW b \in Int, NEW c \in Int
  PROVE  /\ <<a, b, c>> \in Seq(Int) /\ Len(<<a, b, c>>) = 3
         /\ <<a, b, c>>[1] = a /\ <<a, b, c>>[2] = b /\ <<a, b, c>>[3] = c
OBVIOUS

(* The byte at each place of the instruction.                              *)
LEMMA DivisionBytes ==
  ASSUME division \in Divisions
  PROVE  /\ Len(division.prefix) \in Nat
         /\ division.prefix \in [1 .. Len(division.prefix) -> Prefix]
         /\ division.modrm \in 0 .. 255 /\ division.sib \in 0 .. 255
         /\ \A n \in 0 .. Len(division.prefix) - 1 :
              Byte(EIP + n) = division.prefix[n + 1]
         /\ Byte(EIP + Len(division.prefix)) = 247
         /\ Byte(EIP + (Len(division.prefix) + 1)) = division.modrm
         /\ Byte(EIP + (Len(division.prefix) + 2)) = division.sib
<1> DEFINE p == division.prefix
           rest == <<247, division.modrm, division.sib>>
<1>0. /\ division.prefix \in Seq(Prefix)
      /\ division.modrm \in 0 .. 255 /\ division.sib \in 0 .. 255
  <2>1. division \in [prefix : Seq(Prefix), modrm : 0 .. 255, sib : 0 .. 255]
    BY DivisionsAssumption
  <2> QED
    BY <2>1
<1>1. p \in Seq(Prefix) /\ p \in Seq(Int)
  <2>1. Prefix \subseteq Int
    BY DEF Prefix
  <2>2. p \in [1 .. Len(p) -> Prefix] /\ Len(p) \in Nat
    BY <1>0, LenProperties
  <2>3. p \in [1 .. Len(p) -> Int]
    BY <2>1, <2>2
  <2>4. p \in Seq(Int)
    <3> HIDE DEF p
    <3> QED
      BY <2>2, <2>3, SeqDef
  <2> QED
    BY <1>0, <2>4
<1>2. rest \in Seq(Int) /\ Len(rest) = 3
  <2>1. ASSUME NEW m \in 0 .. 255 PROVE m \in Int
    OBVIOUS
  <2>2. division.modrm \in Int /\ division.sib \in Int
    BY <1>0, <2>1
  <2> QED
    BY <2>2, Triple
<1>3. /\ rest[1] = 247 /\ rest[2] = division.modrm /\ rest[3] = division.sib
  OBVIOUS
<1>4. Len(p) \in Nat /\ p \in [1 .. Len(p) -> Prefix]
  BY <1>1, LenProperties
<1>5. /\ \A i \in 1 .. Len(p) : (p \o rest)[i] = p[i]
      /\ \A i \in 1 .. Len(rest) : (p \o rest)[Len(p) + i] = rest[i]
  BY <1>1, <1>2, Joined
<1> HIDE DEF p, rest
<1>7. ASSUME NEW n \in 0 .. Len(p) - 1
      PROVE  Byte(EIP + n) = p[n + 1]
  <2>1. (EIP + n) - EIP + 1 = n + 1 /\ n + 1 \in 1 .. Len(p)
    BY <1>4 DEF EIP
  <2>2. Byte(EIP + n) = (p \o rest)[(EIP + n) - EIP + 1]
    BY DEF Byte, DIV, p, rest
  <2>3. (p \o rest)[n + 1] = p[n + 1]
    BY <1>5, <2>1
  <2> QED
    BY <2>1, <2>2, <2>3, Zenon
<1>8. /\ (EIP + Len(p)) - EIP + 1 = Len(p) + 1
      /\ (EIP + (Len(p) + 1)) - EIP + 1 = Len(p) + 2
      /\ (EIP + (Len(p) + 2)) - EIP + 1 = Len(p) + 3
  BY <1>4 DEF EIP
<1>9. /\ (p \o rest)[Len(p) + 1] = 247
      /\ (p \o rest)[Len(p) + 2] = division.modrm
      /\ (p \o rest)[Len(p) + 3] = division.sib
  <2>1. 1 \in 1 .. Len(rest) /\ 2 \in 1 .. Len(rest) /\ 3 \in 1 .. Len(rest)
    BY <1>2
  <2> QED
    BY <1>3, <1>5, <2>1
<1>10. /\ Byte(EIP + Len(p)) = 247
       /\ Byte(EIP + (Len(p) + 1)) = division.modrm
       /\ Byte(EIP + (Len(p) + 2)) = division.sib
  <2>1. /\ Byte(EIP + Len(p)) = (p \o rest)[(EIP + Len(p)) - EIP + 1]
        /\ Byte(EIP + (Len(p) + 1)) = (p \o rest)[(EIP + (Len(p) + 1)) - EIP + 1]
        /\ Byte(EIP + (Len(p) + 2)) = (p \o rest)[(EIP + (Len(p) + 2)) - EIP + 1]
    BY DEF Byte, DIV, p, rest
  <2> QED
    BY <1>8, <1>9, <2>1, Zenon
<1> QED
  BY <1>0, <1>4, <1>7, <1>10 DEF p

(* What _DE_fix makes of a prefix, or of the opcode, that it takes for a   *)
(* modrm: one byte more, or two when an opcode is still to come.           *)
LEMMA PrefixAsModRM ==
  /\ \A b \in Prefix : \/ Mod(b) = 0 /\ Rm(b) = 6
                       \/ Mod(b) = 1
                       \/ Mod(b) = 3
  /\ Mod(247) = 3
BY DEF Prefix, Mod, Rm

(* The fields of modrm.                                                    *)
LEMMA ModRM ==
  ASSUME NEW m \in 0 .. 255
  PROVE  Mod(m) \in 0 .. 3 /\ Rm(m) \in 0 .. 7
BY DEF Mod, Rm

(* The end of the instruction, form by form.                               *)
LEMMA InstructionEnd ==
  ASSUME division \in Divisions
  PROVE  LET L == Len(division.prefix)
             mod == Mod(division.modrm)
             rm == Rm(division.modrm)
             next == NextInstruction(division)
             last == EIP + (L + 2)
         IN  /\ mod \in 0 .. 3 /\ rm \in 0 .. 7
             /\ next \in Nat /\ next >= last
             /\ mod = 0 /\ rm = 5 => next = last + 4
             /\ mod = 0 /\ rm \notin {4, 5} => next = last
             /\ mod = 0 /\ rm = 4 /\ division.sib % 8 = 5 => next = last + 5
             /\ mod = 0 /\ rm = 4 /\ division.sib % 8 # 5 => next = last + 1
             /\ mod = 1 /\ rm # 4 => next = last + 1
             /\ mod = 1 /\ rm = 4 => next = last + 2
             /\ mod = 2 /\ rm # 4 => next = last + 4
             /\ mod = 2 /\ rm = 4 => next = last + 5
             /\ mod = 3 => next = last
<1> DEFINE L == Len(division.prefix)
           mod == Mod(division.modrm)
           rm == Rm(division.modrm)
           last == EIP + (L + 2)
<1>1. /\ L \in Nat /\ last \in Nat
      /\ division.modrm \in 0 .. 255 /\ division.sib \in 0 .. 255
  BY DivisionBytes DEF EIP
<1>2. mod \in 0 .. 3 /\ rm \in 0 .. 7
  BY <1>1, ModRM
<1>3. HasSib(division) <=> mod # 3 /\ rm = 4
  BY DEF HasSib
<1>4. Displacement(division) =
        CASE mod = 1 -> 1
          [] mod = 2 -> 4
          [] mod = 0 /\ rm = 5 -> 4
          [] mod = 0 /\ HasSib(division) /\ division.sib % 8 = 5 -> 4
          [] OTHER -> 0
  BY DEF Displacement
<1>5. /\ mod = 1 => Displacement(division) = 1
      /\ mod = 2 => Displacement(division) = 4
      /\ mod = 0 /\ rm = 5 => Displacement(division) = 4
      /\ mod = 0 /\ rm = 4 /\ division.sib % 8 = 5 => Displacement(division) = 4
      /\ mod = 0 /\ rm = 4 /\ division.sib % 8 # 5 => Displacement(division) = 0
      /\ mod = 0 /\ rm \notin {4, 5} => Displacement(division) = 0
      /\ mod = 3 => Displacement(division) = 0
  <2> HIDE DEF mod, rm
  <2> QED
    BY <1>3, <1>4
<1>6. NextInstruction(division) =
        last + (IF HasSib(division) THEN 1 ELSE 0) + Displacement(division)
  <2>1. Displacement(division) \in {0, 1, 4}
    BY <1>2, <1>5
  <2> QED
    BY <1>1, <2>1 DEF NextInstruction, EIP
<1> HIDE DEF mod, rm, last
<1>7. CASE mod = 0 /\ rm = 5
  BY <1>1, <1>2, <1>3, <1>5, <1>6, <1>7 DEF mod, rm, last
<1>8. CASE mod = 0 /\ rm = 4
  BY <1>1, <1>2, <1>3, <1>5, <1>6, <1>8 DEF mod, rm, last
<1>9. CASE mod = 0 /\ rm \notin {4, 5}
  BY <1>1, <1>2, <1>3, <1>5, <1>6, <1>9 DEF mod, rm, last
<1>10. CASE mod = 1
  BY <1>1, <1>2, <1>3, <1>5, <1>6, <1>10 DEF mod, rm, last
<1>11. CASE mod = 2
  BY <1>1, <1>2, <1>3, <1>5, <1>6, <1>11 DEF mod, rm, last
<1>12. CASE mod = 3
  BY <1>1, <1>2, <1>3, <1>5, <1>6, <1>12 DEF mod, rm, last
<1> QED
  BY <1>2, <1>7, <1>8, <1>9, <1>10, <1>11, <1>12

(* _DE_fix starts at the first byte of the division.                       *)
LEMMA TakeKeeps ==
  ASSUME HandlerInv, TakeEip
  PROVE  HandlerInv'
<1>1. /\ Step /\ stack' = stack /\ at' = at
      /\ regs' = [regs EXCEPT !["ebx"] = stack[Len(stack) - 8]]
  BY DEF TakeEip, Top
<1>2. pc # 0 /\ Op # "iret" /\ vector = 0 /\ pc = 2
  <2>1. pc # 0 /\ Op = "take"
    BY Named DEF TakeEip
  <2> QED
    BY <2>1, Places DEF HandlerInv
<1>3. /\ Running' /\ GivenBack' /\ vector' = vector /\ division' = division
      /\ pc' = 3
  BY <1>1, <1>2, Goes DEF HandlerInv
<1>4. /\ PopaAt(vector) = 5 /\ vector \notin OfSegments /\ Base(vector) = 4
      /\ Height(vector)[2] = 8 /\ Height(vector)[3] = 8
  BY <1>2, Heights, HeightsBetween DEF PopaAt, OfSegments
<1>5. StackKept'
  BY <1>1, <1>2, <1>4, StackUntouched
<1>6. stack[Len(stack) - 8] = EIP
  <2>1. Len(stack) = Base(vector) + Height(vector)[pc]
    BY <1>2 DEF HandlerInv, StackKept
  <2>2. stack[4] = EIP
    <3>1. IF vector = 0 /\ pc > 4 THEN Resumes(stack[4]) ELSE stack[4] = EIP
      BY <1>2 DEF HandlerInv, StackKept
    <3> QED
      BY <1>2, <3>1
  <2>3. Len(stack) = 12
    BY <1>2, <1>4, <2>1
  <2> QED
    BY <2>2, <2>3
<1>7. /\ regs \in [Registers -> Int]
      /\ {"ebx", "esp", "ds", "es"} \subseteq Registers
  <2>1. General[4] = "ebx" /\ General[5] = "esp"
    BY DEF General
  <2> QED
    BY <1>2, <2>1 DEF HandlerInv, RegistersKept, Registers
<1>8. /\ regs' \in [Registers -> Int] /\ regs'["ebx"] = EIP
      /\ regs'["esp"] = regs["esp"] /\ regs'["ds"] = regs["ds"]
      /\ regs'["es"] = regs["es"]
  BY <1>1, <1>6, <1>7 DEF EIP
<1>9. RegistersKept'
  BY <1>2, <1>3, <1>4, <1>8, RegistersWritten
<1>10. DivisionFixed'
  <2>1. division \in Divisions /\ at = "prefix"
    BY <1>2 DEF HandlerInv, DivisionFixed
  <2>2. Fixing("prefix", 0)
    BY <2>1, DivisionBytes DEF Fixing, Skipped
  <2>3. regs'["ebx"] - EIP = 0
    BY <1>8 DEF EIP
  <2>4. Fixing("prefix", 0)' <=> Fixing("prefix", 0)
    BY <1>3 DEF Fixing, Skipped
  <2>5. Fixing(at, regs["ebx"] - EIP)'
    BY <1>1, <2>1, <2>2, <2>3, <2>4
  <2> QED
    BY <1>2, <1>3, <2>1, <2>5 DEF DivisionFixed
<1> QED
  BY <1>3, <1>5, <1>9, <1>10 DEF HandlerInv

(* The registers and the stack during _DE_fix.                             *)
LEMMA DuringFix ==
  ASSUME HandlerInv, Is(FIX)
  PROVE  /\ pc # 0 /\ Op # "iret" /\ vector = 0 /\ pc = 3
         /\ division \in Divisions /\ Fixing(at, regs["ebx"] - EIP)
         /\ PopaAt(vector) = 5 /\ vector \notin OfSegments
         /\ Height(vector)[3] = 8 /\ Height(vector)[4] = 8
         /\ regs \in [Registers -> Int] /\ regs["ebx"] \in Int
         /\ {"ebx", "esp", "ds", "es"} \subseteq Registers
<1>1. pc # 0 /\ Op # "iret" /\ vector = 0 /\ pc = 3
  <2>1. pc # 0 /\ Op = "call" /\ Operand = "_DE_fix"
    BY Named
  <2> QED
    BY <2>1, Places DEF HandlerInv
<1>2. division \in Divisions /\ Fixing(at, regs["ebx"] - EIP)
  BY <1>1 DEF HandlerInv, DivisionFixed
<1>3. /\ PopaAt(vector) = 5 /\ vector \notin OfSegments
      /\ Height(vector)[3] = 8 /\ Height(vector)[4] = 8
  BY <1>1, HeightsBetween DEF PopaAt, OfSegments
<1>4. /\ regs \in [Registers -> Int]
      /\ {"ebx", "esp", "ds", "es"} \subseteq Registers
  <2>1. General[4] = "ebx" /\ General[5] = "esp"
    BY DEF General
  <2> QED
    BY <1>1, <2>1 DEF HandlerInv, RegistersKept, Registers
<1> QED
  BY <1>1, <1>2, <1>3, <1>4

(* _DE_fix goes on by n bytes, or has found the end.                       *)
LEMMA AdvanceKeeps ==
  ASSUME HandlerInv, Is(FIX), NEW n \in Nat, NEW where, Advance(n, where),
         where # "end" => Fixing(where, (regs["ebx"] + n) - EIP),
         where = "end" => Resumes(regs["ebx"] + n)
  PROVE  HandlerInv'
<1>1. /\ regs' = [regs EXCEPT !["ebx"] = @ + n] /\ at' = where
      /\ IF where = "end" THEN Step ELSE UNCHANGED <<pc, vector, division>>
      /\ stack' = stack
  BY DEF Advance
<1>2. /\ pc # 0 /\ Op # "iret" /\ vector = 0 /\ pc = 3 /\ division \in Divisions
      /\ PopaAt(vector) = 5 /\ vector \notin OfSegments
      /\ Height(vector)[3] = 8 /\ Height(vector)[4] = 8
      /\ regs \in [Registers -> Int] /\ regs["ebx"] \in Int
      /\ {"ebx", "esp", "ds", "es"} \subseteq Registers
  BY DuringFix
<1>3. /\ regs' \in [Registers -> Int] /\ regs'["ebx"] = regs["ebx"] + n
      /\ regs'["esp"] = regs["esp"] /\ regs'["ds"] = regs["ds"]
      /\ regs'["es"] = regs["es"]
  BY <1>1, <1>2
<1>4. CASE where = "end"
  <2>1. Step
    BY <1>1, <1>4
  <2>2. /\ Running' /\ GivenBack' /\ vector' = vector /\ division' = division
        /\ pc' = 4
    BY <1>2, <2>1, Goes DEF HandlerInv
  <2>3. StackKept'
    BY <1>1, <1>2, <2>1, StackUntouched
  <2>4. RegistersKept'
    BY <1>2, <1>3, <2>2, RegistersWritten
  <2>5. DivisionFixed'
    <3>1. Resumes(regs["ebx"])' <=> Resumes(regs["ebx"] + n)
      BY <1>3, <2>2 DEF Resumes
    <3> QED
      BY <1>2, <1>4, <2>2, <3>1 DEF DivisionFixed
  <2> QED
    BY <2>2, <2>3, <2>4, <2>5 DEF HandlerInv
<1>5. CASE where # "end"
  <2>1. pc' = pc /\ vector' = vector /\ division' = division
    BY <1>1, <1>5
  <2>2. Handler(vector)' = Handler(vector)
    BY <2>1 DEF Handler
  <2>3. Running' /\ GivenBack'
    BY <1>2, <2>1, <2>2 DEF HandlerInv, Running, GivenBack
  <2>4. StackKept'
    <3>1. /\ Base(vector)' = Base(vector) /\ PopaAt(vector)' = PopaAt(vector)
          /\ Height(vector)' = Height(vector)
          /\ Resumes(stack[4])' <=> Resumes(stack[4])
      BY <1>1, <2>1 DEF Base, PopaAt, Height, Resumes
    <3> QED
      BY <1>1, <2>1, <3>1 DEF HandlerInv, StackKept
  <2>5. RegistersKept'
    BY <1>2, <1>3, <2>1, RegistersWritten
  <2>6. DivisionFixed'
    <3>1. (regs["ebx"] - EIP)' = (regs["ebx"] + n) - EIP
      BY <1>3 DEF EIP
    <3>2. Fixing(at, regs["ebx"] - EIP)'
            <=> Fixing(where, (regs["ebx"] + n) - EIP)
      BY <1>1, <2>1, <3>1, Zenon DEF Fixing, Skipped
    <3> QED
      BY <1>2, <1>5, <2>1, <3>2 DEF DivisionFixed
  <2> QED
    BY <2>1, <2>3, <2>4, <2>5, <2>6 DEF HandlerInv
<1> QED
  BY <1>4, <1>5

(* Where _DE_fix has come to.                                              *)
LEMMA ByteReached ==
  ASSUME HandlerInv, Is(FIX)
  PROVE  \E n \in Int :
           /\ Fixing(at, n) /\ Byte(regs["ebx"]) = Byte(EIP + n)
           /\ \A k \in Nat : /\ (regs["ebx"] + k) - EIP = n + k
                             /\ regs["ebx"] + k = EIP + (n + k)
<1>1. regs["ebx"] \in Int /\ Fixing(at, regs["ebx"] - EIP)
  BY DuringFix
<1> DEFINE n == regs["ebx"] - EIP
<1>2. n \in Int /\ regs["ebx"] = EIP + n
  BY <1>1 DEF EIP
<1>3. ASSUME NEW k \in Nat
      PROVE  (regs["ebx"] + k) - EIP = n + k /\ regs["ebx"] + k = EIP + (n + k)
  BY <1>1 DEF EIP
<1>4. Byte(regs["ebx"]) = Byte(EIP + n)
  <2> HIDE DEF n
  <2> QED
    BY <1>2
<1>5. Fixing(at, n)
  BY <1>1
<1> HIDE DEF n
<1> QED
  BY <1>2, <1>3, <1>4, <1>5

(* The forms it knows.                                                     *)
LEMMA FormKnown ==
  ASSUME division \in Divisions
  PROVE  KnownForm(division) <=>
           /\ Skipped(Len(division.prefix))
           /\ Mod(division.modrm) # 3 /\ Rm(division.modrm) = 4 =>
                Mod(division.modrm) = 0 /\ (division.sib % 8 = 5 => division.sib = 5)
<1>1. DOMAIN division.prefix = 1 .. Len(division.prefix)
  BY DivisionBytes
<1> QED
  BY <1>1 DEF KnownForm, HasSib, Skipped

(* It steps over a prefix 0x66, or over what it takes for the opcode.      *)
LEMMA FixPrefixKeeps ==
  ASSUME HandlerInv, FixPrefix
  PROVE  HandlerInv'
<1> DEFINE L == Len(division.prefix)
<1>1. Is(FIX) /\ at = "prefix"
  BY DEF FixPrefix
<1>2. PICK n \in Int :
           /\ Fixing(at, n) /\ Byte(regs["ebx"]) = Byte(EIP + n)
           /\ \A k \in Nat : /\ (regs["ebx"] + k) - EIP = n + k
                             /\ regs["ebx"] + k = EIP + (n + k)
  BY <1>1, ByteReached
<1>3. division \in Divisions
  BY <1>1, DuringFix
<1>4. /\ L \in Nat /\ n \in 0 .. L /\ Skipped(n)
      /\ n = L => Byte(EIP + n) = 247
      /\ n < L => Byte(EIP + n) = division.prefix[n + 1]
  <2>1. /\ L \in Nat /\ Byte(EIP + L) = 247
        /\ \A m \in 0 .. L - 1 : Byte(EIP + m) = division.prefix[m + 1]
    BY <1>3, DivisionBytes
  <2>2. n \in 0 .. L /\ Skipped(n)
    BY <1>1, <1>2 DEF Fixing
  <2>3. n < L => n \in 0 .. L - 1
    BY <2>1, <2>2
  <2>4. n = L => Byte(EIP + n) = 247
    <3> HIDE DEF L
    <3> QED
      BY <2>1
  <2> QED
    BY <2>1, <2>2, <2>3, <2>4
<1> HIDE DEF L
<1>5. (regs["ebx"] + 1) - EIP = n + 1
  BY <1>2
<1>6. CASE Byte(regs["ebx"]) = 102
  <2>1. Advance(1, "prefix")
    BY <1>6 DEF FixPrefix
  <2>2. n < L /\ division.prefix[n + 1] = 102
    BY <1>2, <1>4, <1>6
  <2>3. Skipped(n + 1) /\ n + 1 \in 0 .. L
    BY <1>4, <2>2 DEF Skipped
  <2>4. Fixing("prefix", n + 1)
    BY <2>3 DEF Fixing, L
  <2> QED
    BY <1>1, <1>5, <2>1, <2>4, AdvanceKeeps
<1>7. CASE Byte(regs["ebx"]) # 102
  <2>1. Advance(1, "modrm")
    BY <1>7 DEF FixPrefix
  <2>2. n = L \/ division.prefix[n + 1] # 102
    BY <1>2, <1>4, <1>7
  <2>3. (n + 1) - 1 = n
    OBVIOUS
  <2>4. Fixing("modrm", n + 1)
    BY <1>4, <2>2, <2>3 DEF Fixing, L
  <2> QED
    BY <1>1, <1>5, <2>1, <2>4, AdvanceKeeps
<1> QED
  BY <1>6, <1>7

(* The modrm of the division, behind its opcode.                           *)
LEMMA ModRMReached ==
  ASSUME HandlerInv, FixModRM, NEW n \in Int, n = Len(division.prefix) + 1,
         Skipped(Len(division.prefix)),
         Byte(regs["ebx"]) = division.modrm,
         \A k \in Nat : /\ (regs["ebx"] + k) - EIP = n + k
                        /\ regs["ebx"] + k = EIP + (n + k)
  PROVE  HandlerInv'
<1> DEFINE L == Len(division.prefix)
           mod == Mod(division.modrm)
           rm == Rm(division.modrm)
           next == NextInstruction(division)
           last == EIP + (L + 2)
<1>1. Is(FIX) /\ at = "modrm"
  BY DEF FixModRM
<1>2. division \in Divisions
  BY <1>1, DuringFix
<1>3. L \in Nat /\ n = L + 1 /\ Skipped(L) /\ last \in Nat /\ last > EIP
  <2>1. L \in Nat
    BY <1>2, DivisionBytes
  <2>2. last \in Nat /\ last > EIP
    <3> HIDE DEF L
    <3> QED
      BY <2>1 DEF EIP
  <2> QED
    BY <2>1, <2>2
<1>4. /\ mod \in 0 .. 3 /\ rm \in 0 .. 7
      /\ next \in Nat /\ next >= last
      /\ mod = 0 /\ rm = 5 => next = last + 4
      /\ mod = 0 /\ rm \notin {4, 5} => next = last
      /\ mod = 1 /\ rm # 4 => next = last + 1
      /\ mod = 1 /\ rm = 4 => next = last + 2
      /\ mod = 2 /\ rm # 4 => next = last + 4
      /\ mod = 2 /\ rm = 4 => next = last + 5
      /\ mod = 3 => next = last
  BY <1>2, InstructionEnd
<1>5. KnownForm(division) <=>
        (mod # 3 /\ rm = 4 =>
           mod = 0 /\ (division.sib % 8 = 5 => division.sib = 5))
  BY <1>2, <1>3, FormKnown
<1>6. \/ mod = 0 /\ rm = 5 /\ Advance(5, "end")
      \/ mod = 0 /\ rm = 4 /\ Advance(1, "sib")
      \/ mod = 0 /\ rm \notin {4, 5} /\ Advance(1, "end")
      \/ mod = 1 /\ Advance(2, "end")
      \/ mod = 2 /\ Advance(5, "end")
      \/ mod = 3 /\ Advance(1, "end")
  BY DEF FixModRM
<1>7. \A a \in Int : EIP < a /\ a <= next /\ (a = next <=> KnownForm(division))
                       => Resumes(a)
  BY DEF Resumes
<1> HIDE DEF mod, rm, next
<1>8. /\ (regs["ebx"] + 1) - EIP = n + 1 /\ regs["ebx"] + 1 = EIP + (n + 1)
      /\ regs["ebx"] + 2 = EIP + (n + 2) /\ regs["ebx"] + 5 = EIP + (n + 5)
  OBVIOUS
<1>9. /\ regs["ebx"] + 1 = last /\ regs["ebx"] + 2 = last + 1
      /\ regs["ebx"] + 5 = last + 4
  BY <1>3, <1>8 DEF EIP
<1> HIDE DEF last
<1>10. CASE mod = 0 /\ rm = 4 /\ Advance(1, "sib")
  <2>1. Fixing("sib", n + 1)
    <3>1. n + 1 = L + 2 /\ (n + 1) - 2 = L
      BY <1>3
    <3> QED
      BY <1>3, <1>10, <3>1 DEF Fixing, L, mod, rm
  <2>2. Fixing("sib", (regs["ebx"] + 1) - EIP)
    BY <1>8, <2>1, Zenon
  <2> QED
    BY <1>1, <1>10, <2>2, AdvanceKeeps
<1>11. CASE mod = 0 /\ rm = 5 /\ Advance(5, "end")
  <2>1. Resumes(regs["ebx"] + 5)
    <3>1. KnownForm(division)
      BY <1>5, <1>11
    <3>2. next = last + 4
      BY <1>4, <1>11
    <3> QED
      BY <1>3, <1>7, <1>9, <3>1, <3>2 DEF EIP
  <2> QED
    BY <1>1, <1>11, <2>1, AdvanceKeeps
<1>12. CASE ((mod = 0 /\ rm \notin {4, 5}) \/ mod = 3) /\ Advance(1, "end")
  <2>1. Resumes(regs["ebx"] + 1)
    <3>1. KnownForm(division)
      BY <1>5, <1>12
    <3>2. next = last
      BY <1>4, <1>12
    <3> QED
      BY <1>3, <1>7, <1>9, <3>1, <3>2 DEF EIP
  <2> QED
    BY <1>1, <1>12, <2>1, AdvanceKeeps
<1>13. CASE mod = 1 /\ Advance(2, "end")
  <2>1. Resumes(regs["ebx"] + 2)
    <3>1. KnownForm(division) <=> rm # 4
      BY <1>5, <1>13
    <3>2. next = IF rm = 4 THEN last + 2 ELSE last + 1
      BY <1>4, <1>13
    <3> QED
      BY <1>3, <1>7, <1>9, <3>1, <3>2 DEF EIP
  <2> QED
    BY <1>1, <1>13, <2>1, AdvanceKeeps
<1>14. CASE mod = 2 /\ Advance(5, "end")
  <2>1. Resumes(regs["ebx"] + 5)
    <3>1. KnownForm(division) <=> rm # 4
      BY <1>5, <1>14
    <3>2. next = IF rm = 4 THEN last + 5 ELSE last + 4
      BY <1>4, <1>14
    <3> QED
      BY <1>3, <1>7, <1>9, <3>1, <3>2 DEF EIP
  <2> QED
    BY <1>1, <1>14, <2>1, AdvanceKeeps
<1> QED
  BY <1>6, <1>10, <1>11, <1>12, <1>13, <1>14

(* Before the last one there is a next one.                                *)
LEMMA Nearer ==
  ASSUME NEW n \in Int, NEW m \in Nat, n \in 1 .. m
  PROVE  \/ n = m
         \/ n < m /\ n \in 0 .. m - 1 /\ n + 1 \in 1 .. m
OBVIOUS

(* An element of a sequence.                                               *)
LEMMA Within ==
  ASSUME NEW S, NEW m, NEW f \in [1 .. m -> S], NEW i \in 1 .. m
  PROVE  f[i] \in S
OBVIOUS

(* Before the end is not at the end.                                       *)
LEMMA NotTheEnd ==
  ASSUME NEW a \in Int, NEW next \in Nat, a < next
  PROVE  a # next /\ a <= next
OBVIOUS

(* A prefix, or the opcode, that it takes for the modrm: it stops before   *)
(* the end.                                                                *)
LEMMA PrefixReached ==
  ASSUME HandlerInv, FixModRM, NEW n \in Int,
         n \in 1 .. Len(division.prefix), division.prefix[n] # 102,
         Byte(regs["ebx"]) = Byte(EIP + n),
         regs["ebx"] + 1 = EIP + (n + 1), regs["ebx"] + 2 = EIP + (n + 2)
  PROVE  HandlerInv'
<1> DEFINE L == Len(division.prefix)
           b == Byte(regs["ebx"])
           next == NextInstruction(division)
<1>1. Is(FIX) /\ at = "modrm"
  BY DEF FixModRM
<1>2. division \in Divisions
  BY <1>1, DuringFix
<1>3. L \in Nat /\ next \in Nat /\ next >= EIP + (L + 2)
  BY <1>2, DivisionBytes, InstructionEnd
<1>4. ~KnownForm(division)
  <2>1. ~Skipped(Len(division.prefix))
    BY DEF Skipped
  <2> QED
    BY <1>2, <2>1, FormKnown
<1>5. \/ n = L /\ b = 247
      \/ n < L /\ b \in Prefix
  <2>1. /\ division.prefix \in [1 .. L -> Prefix] /\ Byte(EIP + L) = 247
        /\ \A m \in 0 .. L - 1 : Byte(EIP + m) = division.prefix[m + 1]
    BY <1>2, DivisionBytes
  <2>2. n \in 1 .. L
    OBVIOUS
  <2> HIDE DEF L
  <2>3. n = L \/ (n < L /\ n \in 0 .. L - 1 /\ n + 1 \in 1 .. L)
    BY <1>3, <2>2, Nearer
  <2>4. n = L => Byte(EIP + n) = 247
    BY <2>1
  <2>5. n \in 0 .. L - 1 /\ n + 1 \in 1 .. L => Byte(EIP + n) \in Prefix
    <3>1. n + 1 \in 1 .. L => division.prefix[n + 1] \in Prefix
      <4>1. division.prefix \in [1 .. L -> Prefix]
        BY <2>1
      <4> QED
        BY <4>1, Within
    <3> QED
      BY <2>1, <3>1
  <2> QED
    BY <2>3, <2>4, <2>5, Zenon DEF L
<1>6. \/ n = L /\ Mod(b) = 3
      \/ n < L /\ ((Mod(b) = 0 /\ Rm(b) = 6) \/ Mod(b) = 1 \/ Mod(b) = 3)
  <2> HIDE DEF b
  <2> QED
    BY <1>5, PrefixAsModRM
<1>7. n \in 1 .. L
  OBVIOUS
<1>8. \/ Mod(b) = 0 /\ Rm(b) = 5 /\ Advance(5, "end")
      \/ Mod(b) = 0 /\ Rm(b) = 4 /\ Advance(1, "sib")
      \/ Mod(b) = 0 /\ Rm(b) \notin {4, 5} /\ Advance(1, "end")
      \/ Mod(b) = 1 /\ Advance(2, "end")
      \/ Mod(b) = 2 /\ Advance(5, "end")
      \/ Mod(b) = 3 /\ Advance(1, "end")
  BY DEF FixModRM
<1>9. \/ Advance(1, "end")
      \/ n < L /\ Advance(2, "end")
  <2> HIDE DEF L, b
  <2> QED
    BY <1>6, <1>8
<1>10. /\ regs["ebx"] + 1 = EIP + (n + 1)
       /\ regs["ebx"] + 2 = EIP + (n + 2)
  OBVIOUS
<1>11. ASSUME NEW a \in Int, EIP < a, a < next
       PROVE  Resumes(a)
  <2>1. a # next /\ a <= next
    BY <1>3, <1>11, NotTheEnd
  <2> QED
    BY <1>4, <1>11, <2>1, Zenon DEF Resumes
<1> HIDE DEF next, L, b
<1>12. CASE Advance(1, "end")
  <2>1. EIP < EIP + (n + 1) /\ EIP + (n + 1) < next /\ EIP + (n + 1) \in Int
    BY <1>3, <1>7 DEF EIP
  <2>2. Resumes(regs["ebx"] + 1)
    BY <1>10, <1>11, <2>1
  <2> QED
    BY <1>1, <1>12, <2>2, AdvanceKeeps
<1>13. CASE n < L /\ Advance(2, "end")
  <2>1. EIP < EIP + (n + 2) /\ EIP + (n + 2) < next /\ EIP + (n + 2) \in Int
    BY <1>3, <1>7, <1>13 DEF EIP
  <2>2. Resumes(regs["ebx"] + 2)
    BY <1>10, <1>11, <2>1
  <2> QED
    BY <1>1, <1>13, <2>2, AdvanceKeeps
<1> QED
  BY <1>9, <1>12, <1>13

(* What it takes for the modrm decides how far it goes.                    *)
LEMMA FixModRMKeeps ==
  ASSUME HandlerInv, FixModRM
  PROVE  HandlerInv'
<1> DEFINE L == Len(division.prefix)
<1>1. Is(FIX) /\ at = "modrm"
  BY DEF FixModRM
<1>2. PICK n \in Int :
           /\ Fixing(at, n) /\ Byte(regs["ebx"]) = Byte(EIP + n)
           /\ \A k \in Nat : /\ (regs["ebx"] + k) - EIP = n + k
                             /\ regs["ebx"] + k = EIP + (n + k)
  BY <1>1, ByteReached
<1>3. L \in Nat /\ Byte(EIP + (L + 1)) = division.modrm
  BY <1>1, DuringFix, DivisionBytes
<1>4. /\ n - 1 \in 0 .. L /\ Skipped(n - 1)
      /\ n - 1 = L \/ division.prefix[n] # 102
  BY <1>1, <1>2 DEF Fixing
<1>5. CASE n - 1 = L
  <2>1. n = L + 1 /\ Skipped(L)
    BY <1>3, <1>4, <1>5
  <2>2. Byte(regs["ebx"]) = division.modrm
    BY <1>2, <1>3, <2>1, Zenon
  <2> QED
    BY <1>2, <2>1, <2>2, ModRMReached
<1>6. CASE n - 1 # L
  <2>1. n \in 1 .. L /\ division.prefix[n] # 102
    BY <1>3, <1>4, <1>6
  <2>2. regs["ebx"] + 1 = EIP + (n + 1) /\ regs["ebx"] + 2 = EIP + (n + 2)
    BY <1>2
  <2> QED
    BY <1>2, <2>1, <2>2, PrefixReached
<1> QED
  BY <1>5, <1>6

(* A sib byte that is 5 has a displacement.                                *)
LEMMA FixSibKeeps ==
  ASSUME HandlerInv, FixSib
  PROVE  HandlerInv'
<1> DEFINE L == Len(division.prefix)
           next == NextInstruction(division)
           last == EIP + (L + 2)
           sib == division.sib
<1>1. Is(FIX) /\ at = "sib"
  BY DEF FixSib
<1>2. PICK n \in Int :
           /\ Fixing(at, n) /\ Byte(regs["ebx"]) = Byte(EIP + n)
           /\ \A k \in Nat : /\ (regs["ebx"] + k) - EIP = n + k
                             /\ regs["ebx"] + k = EIP + (n + k)
  BY <1>1, ByteReached
<1>3. division \in Divisions
  BY <1>1, DuringFix
<1>4. /\ L \in Nat /\ Byte(EIP + (L + 2)) = sib /\ sib \in 0 .. 255
  BY <1>3, DivisionBytes
<1>5. /\ n = L + 2 /\ Skipped(n - 2)
      /\ Mod(division.modrm) = 0 /\ Rm(division.modrm) = 4
  BY <1>1, <1>2 DEF Fixing
<1>6. Skipped(L)
  <2>1. n - 2 = L
    BY <1>4, <1>5
  <2> QED
    BY <1>5, <2>1, Zenon
<1>7. Byte(regs["ebx"]) = sib
  BY <1>2, <1>4, <1>5, Zenon
<1>8. KnownForm(division) <=> (sib % 8 = 5 => sib = 5)
  BY <1>3, <1>5, <1>6, FormKnown
<1>9. /\ sib % 8 = 5 => next = last + 5
      /\ sib % 8 # 5 => next = last + 1
  BY <1>3, <1>5, InstructionEnd
<1>10. \A a \in Int : EIP < a /\ a <= next /\ (a = next <=> KnownForm(division))
                        => Resumes(a)
  BY DEF Resumes
<1>11. /\ regs["ebx"] + 1 = last + 1 /\ regs["ebx"] + 5 = last + 5
       /\ last \in Nat /\ EIP < last
  <2>1. /\ regs["ebx"] + 1 = EIP + (n + 1) /\ regs["ebx"] + 5 = EIP + (n + 5)
    BY <1>2
  <2> HIDE DEF L
  <2> QED
    BY <1>4, <1>5, <2>1 DEF EIP
<1> HIDE DEF next, last, sib
<1>12. CASE sib = 5
  <2>1. Advance(5, "end")
    BY <1>7, <1>12 DEF FixSib
  <2>2. Resumes(regs["ebx"] + 5)
    BY <1>8, <1>9, <1>10, <1>11, <1>12 DEF EIP
  <2> QED
    BY <1>1, <2>1, <2>2, AdvanceKeeps
<1>13. CASE sib # 5
  <2>1. Advance(1, "end")
    BY <1>7, <1>13 DEF FixSib
  <2>2. Resumes(regs["ebx"] + 1)
    BY <1>8, <1>9, <1>10, <1>11, <1>13 DEF EIP
  <2> QED
    BY <1>1, <2>1, <2>2, AdvanceKeeps
<1> QED
  BY <1>12, <1>13

-----------------------------------------------------------------------------
(* The address of return is given to the frame.                            *)
LEMMA GiveKeeps ==
  ASSUME HandlerInv, GiveEip
  PROVE  HandlerInv'
<1>1. /\ Step /\ regs' = regs
      /\ stack' = [stack EXCEPT ![Len(stack) - 8] = regs["ebx"]]
  BY DEF GiveEip
<1>2. pc # 0 /\ Op # "iret" /\ vector = 0 /\ pc = 4
  <2>1. pc # 0 /\ Op = "give"
    BY Named DEF GiveEip
  <2> QED
    BY <2>1, Places DEF HandlerInv
<1>3. /\ Running' /\ GivenBack' /\ vector' = vector /\ division' = division
      /\ pc' = 5
  BY <1>1, <1>2, Goes DEF HandlerInv
<1>4. /\ PopaAt(vector) = 5 /\ vector \notin OfSegments /\ Base(vector) = 4
      /\ Height(vector)[4] = 8 /\ Height(vector)[5] = 8 /\ vector # ServerISR
  BY <1>2, Heights, HeightsBetween DEF PopaAt, OfSegments, ServerISR
<1>5. /\ stack \in Seq(Int) /\ Len(stack) = Base(vector) + Height(vector)[pc]
      /\ stack[1] = CALLERS /\ stack[2] = EFLAGS /\ stack[3] = CS
      /\ \A i \in 1 .. 8 : stack[Base(vector) + i] = Before[General[i]]
  <2>1. pc \in 2 .. PopaAt(vector)
    BY <1>2, <1>4
  <2> QED
    BY <1>2, <1>4, <2>1 DEF HandlerInv, StackKept
<1>6. Len(stack) = 12
  BY <1>2, <1>4, <1>5
<1>7. Resumes(regs["ebx"]) /\ regs["ebx"] \in Int
  <2>1. General[4] = "ebx" /\ regs \in [Registers -> Int]
    BY <1>2 DEF HandlerInv, RegistersKept, General
  <2> QED
    BY <1>2, <2>1 DEF HandlerInv, DivisionFixed, Registers
<1>8. /\ stack' \in Seq(Int) /\ Len(stack') = 12 /\ stack'[4] = regs["ebx"]
      /\ stack'[1] = stack[1] /\ stack'[2] = stack[2] /\ stack'[3] = stack[3]
      /\ \A i \in 1 .. 8 : stack'[4 + i] = stack[4 + i]
  <2>1. stack' = [stack EXCEPT ![4] = regs["ebx"]]
    BY <1>1, <1>6
  <2>2. stack \in [1 .. 12 -> Int]
    BY <1>5, <1>6, LenProperties
  <2>3. stack' \in [1 .. 12 -> Int]
    BY <1>7, <2>1, <2>2
  <2>4. stack' \in Seq(Int)
    BY <2>3, SeqDef
  <2>5. Len(stack') = 12
    <3>1. DOMAIN stack' = 1 .. 12
      BY <2>3
    <3> QED
      BY <2>4, <3>1, LenProperties
  <2>6. ASSUME NEW i \in 1 .. 8
        PROVE  stack'[4 + i] = stack[4 + i]
    <3>1. 4 + i \in 1 .. 12 /\ 4 + i # 4
      OBVIOUS
    <3> QED
      BY <2>1, <2>2, <3>1
  <2>7. /\ stack'[4] = regs["ebx"]
        /\ stack'[1] = stack[1] /\ stack'[2] = stack[2] /\ stack'[3] = stack[3]
    BY <2>1, <2>2
  <2> QED
    BY <2>4, <2>5, <2>6, <2>7
<1>9. StackKept'
  <2>1. /\ Base(vector)' = 4 /\ PopaAt(vector)' = 5 /\ Height(vector)'[pc'] = 8
    <3>1. /\ Base(vector)' = Base(vector) /\ PopaAt(vector)' = PopaAt(vector)
          /\ Height(vector)' = Height(vector)
      BY <1>3 DEF Base, PopaAt, Height
    <3> QED
      BY <1>3, <1>4, <3>1
  <2>2. Resumes(stack[4])'
    <3>1. Resumes(stack[4])' <=> Resumes(regs["ebx"])
      BY <1>3, <1>8 DEF Resumes
    <3> QED
      BY <1>7, <3>1
  <2>3. \A i \in 1 .. 8 : stack'[4 + i] = Before[General[i]]
    <3>1. \A i \in 1 .. 8 : stack[4 + i] = Before[General[i]]
      BY <1>4, <1>5
    <3> QED
      BY <1>8, <3>1
  <2>4. stack'[1] = CALLERS /\ stack'[2] = EFLAGS /\ stack'[3] = CS
    BY <1>5, <1>8
  <2>5. Len(stack') = Base(vector)' + Height(vector)'[pc']
    BY <1>8, <2>1
  <2>6. IF vector' = 0 /\ pc' > 4 THEN Resumes(stack[4])' ELSE stack'[4] = EIP
    BY <1>2, <1>3, <2>2
  <2>7. vector' \notin OfSegments
    BY <1>3, <1>4
  <2> QED
    BY <1>8, <2>1, <2>3, <2>4, <2>5, <2>6, <2>7 DEF StackKept
<1>10. RegistersKept'
  <2>1. regs \in [Registers -> Int]
    BY <1>2 DEF HandlerInv, RegistersKept
  <2> QED
    BY <1>1, <1>2, <1>3, <1>4, <2>1, RegistersWritten
<1>11. DivisionFixed'
  BY <1>2, <1>3 DEF HandlerInv, DivisionFixed
<1> QED
  BY <1>3, <1>9, <1>10, <1>11 DEF HandlerInv

(* At iret: how long a handler is, and what it has left on the stack.      *)
LEMMA AtIret ==
  ASSUME vector \in 0 .. 255
  PROVE  LET last == Len(Handler(vector))
             depth == Base(vector) + Height(vector)[last]
         IN  /\ last \in Nat /\ last > PopaAt(vector) /\ last # 0
             /\ vector = 0 => last = 6
             /\ vector = 64 => depth = 6
             /\ vector \in Unbalanced \ {64} => depth = 5
             /\ vector \notin Unbalanced => depth = 4
<1>1. Base(vector) = IF vector \in {8, 10, 11, 12, 13, 14, 17} THEN 5 ELSE 4
  BY DEF Base, HasErrorCode
<1>2. vector \in Unbalanced <=> vector \in {64, 8, 10, 11, 14, 17}
  BY DEF Unbalanced, HasErrorCode
<1>3. CASE vector \notin {0, 12, 13, 33, 64, 65, 66}
  <2>1. Len(Handler(vector)) = 3
    BY <1>3 DEF Handler, default_ISR
  <2>2. Height(vector) = <<0, 8, 0>> /\ PopaAt(vector) = 2
    BY <1>3 DEF Height, PopaAt
  <2>3. Height(vector)[3] = 0
    BY <2>2
  <2> QED
    BY <1>1, <1>2, <1>3, <2>1, <2>2, <2>3
<1>4. CASE vector = 0
  <2>1. Len(Handler(vector)) = 6
    BY <1>4 DEF Handler, DE_ISR
  <2>2. Height(vector) = <<0, 8, 8, 8, 8, 0>> /\ PopaAt(vector) = 5
    BY <1>4 DEF Height, PopaAt
  <2>3. Height(vector)[6] = 0
    BY <2>2
  <2> QED
    <3>1. /\ Base(vector) = 4 /\ vector \notin Unbalanced
          /\ vector # 64
      BY <1>1, <1>2, <1>4
    <3> QED
      BY <2>1, <2>2, <2>3, <3>1
<1>5. CASE vector \in {12, 13}
  <2>1. Len(Handler(vector)) = 4
    BY <1>5 DEF Handler, SS_ISR, GP_ISR
  <2>2. Height(vector) = <<0, 8, 0, -1>> /\ PopaAt(vector) = 2
    BY <1>5 DEF Height, PopaAt
  <2>3. Height(vector)[4] = -1
    BY <2>2
  <2> QED
    <3>1. /\ Base(vector) = 5 /\ vector \notin Unbalanced
          /\ vector # 0 /\ vector # 64
      BY <1>1, <1>2, <1>5
    <3>2. Base(vector) + Height(vector)[4] = 4
      BY <2>3, <3>1
    <3> QED
      BY <2>1, <2>2, <3>1, <3>2
<1>6. CASE vector = 33
  <2>1. Len(Handler(vector)) = 7
    BY <1>6 DEF Handler, PS2_ISR
  <2>2. Height(vector) = <<0, 8, 9, 9, 8, 8, 0>> /\ PopaAt(vector) = 6
    BY <1>6 DEF Height, PopaAt
  <2>3. Height(vector)[7] = 0
    BY <2>2
  <2> QED
    <3>1. /\ Base(vector) = 4 /\ vector \notin Unbalanced
          /\ vector # 0 /\ vector # 64
      BY <1>1, <1>2, <1>6
    <3> QED
      BY <2>1, <2>2, <2>3, <3>1
<1>7. CASE vector = 64
  <2>1. Len(Handler(vector)) = 8
    BY <1>7 DEF Handler, SERVER_ISR
  <2>2. Height(vector) = <<0, 8, 9, 10, 10, 11, 10, 2>> /\ PopaAt(vector) = 7
    BY <1>7 DEF Height, PopaAt
  <2>3. Height(vector)[8] = 2
    BY <2>2
  <2> QED
    BY <1>1, <1>2, <1>7, <2>1, <2>2, <2>3
<1>8. CASE vector = 65
  <2>1. Len(Handler(vector)) = 9
    BY <1>8 DEF Handler, VIDEO_ISR
  <2>2. Height(vector) = <<0, 8, 9, 10, 10, 10, 9, 8, 0>> /\ PopaAt(vector) = 8
    BY <1>8 DEF Height, PopaAt
  <2>3. Height(vector)[9] = 0
    BY <2>2
  <2> QED
    <3>1. /\ Base(vector) = 4 /\ vector \notin Unbalanced
          /\ vector # 0 /\ vector # 64
      BY <1>1, <1>2, <1>8
    <3> QED
      BY <2>1, <2>2, <2>3, <3>1
<1>9. CASE vector = 66
  <2>1. Len(Handler(vector)) = 8
    BY <1>9 DEF Handler, DEVICE_ISR
  <2>2. Height(vector) = <<0, 8, 9, 10, 10, 9, 8, 0>> /\ PopaAt(vector) = 7
    BY <1>9 DEF Height, PopaAt
  <2>3. Height(vector)[8] = 0
    BY <2>2
  <2> QED
    <3>1. /\ Base(vector) = 4 /\ vector \notin Unbalanced
          /\ vector # 0 /\ vector # 64
      BY <1>1, <1>2, <1>9
    <3> QED
      BY <2>1, <2>2, <2>3, <3>1
<1> QED
  BY <1>3, <1>4, <1>5, <1>6, <1>7, <1>8, <1>9

(* A stack of one element.                                                 *)
LEMMA Single ==
  ASSUME NEW s \in Seq(Int), Len(s) = 1, NEW x \in Int, s[1] = x
  PROVE  s = <<x>>
OBVIOUS

(* What is left under the frame.                                           *)
LEMMA LastLeft ==
  ASSUME NEW s, NEW f, NEW n, n = 1, Len(s) = n,
         \A i \in 1 .. n : s[i] = f[i]
  PROVE  Len(s) = 1 /\ s[1] = f[1]
OBVIOUS

(* The program goes on.                                                    *)
LEMMA IretKeeps ==
  ASSUME HandlerInv, Iret
  PROVE  HandlerInv'
<1>1. /\ stack' = Popped(3) /\ pc' = 0
      /\ eip' = stack[Len(stack) - 0] /\ cs' = stack[Len(stack) - 1]
      /\ eflags' = stack[Len(stack) - 2]
      /\ regs' = regs /\ vector' = vector /\ division' = division
  BY DEF Iret, Top
<1>2. pc # 0 /\ pc = Len(Handler(vector)) /\ vector \in 0 .. 255
  <2>1. pc # 0 /\ Op = "iret"
    BY Named DEF Iret
  <2> QED
    BY <2>1, Places DEF HandlerInv, Running
<1>3. /\ pc \in Nat /\ pc > PopaAt(vector)
      /\ vector = 0 => pc = 6
      /\ vector = 64 => Base(vector) + Height(vector)[pc] = 6
      /\ vector \in Unbalanced \ {64} => Base(vector) + Height(vector)[pc] = 5
      /\ vector \notin Unbalanced => Base(vector) + Height(vector)[pc] = 4
  BY <1>2, AtIret
<1>4. /\ stack \in Seq(Int) /\ Len(stack) = Base(vector) + Height(vector)[pc]
      /\ stack[1] = CALLERS /\ stack[2] = EFLAGS /\ stack[3] = CS
  BY <1>2 DEF HandlerInv, StackKept
<1>5. IF vector = 0 /\ pc > 4 THEN Resumes(stack[4]) ELSE stack[4] = EIP
  BY <1>2 DEF HandlerInv, StackKept
<1>6. vector # ServerISR => regs = Before
  BY <1>2, <1>3 DEF HandlerInv, RegistersKept
<1>7. vector \notin Unbalanced => Len(stack) = 4
  BY <1>3, <1>4
<1>8. vector \in Unbalanced => Len(stack) \in {5, 6}
  BY <1>3, <1>4
<1>9. vector \in Unbalanced => Len(stack') # 1
  <2>1. ASSUME vector \in Unbalanced
        PROVE  Len(Popped(3)) = Len(stack) - 3
    <3>1. 3 \in 1 .. Len(stack)
      BY <1>8, <2>1
    <3> QED
      BY <1>4, <3>1, PoppedKeeps
  <2>2. ASSUME NEW n \in {5, 6}
        PROVE  n - 3 # 1
    OBVIOUS
  <2> QED
    BY <1>1, <1>8, <2>1, <2>2
<1>10. vector \notin Unbalanced => stack' = <<CALLERS>>
  <2>1. ASSUME vector \notin Unbalanced
        PROVE  stack' = <<CALLERS>>
    <3>1. 3 \in 1 .. Len(stack) /\ Len(stack) - 3 = 1
      BY <1>7, <2>1
    <3>2. /\ Popped(3) \in Seq(Int) /\ Len(Popped(3)) = Len(stack) - 3
          /\ \A i \in 1 .. Len(stack) - 3 : Popped(3)[i] = stack[i]
      BY <1>4, <3>1, PoppedKeeps
    <3>3. Len(Popped(3)) = 1 /\ Popped(3)[1] = stack[1]
      <4> DEFINE p == Popped(3)
                 n == Len(stack) - 3
      <4>1. n = 1 /\ Len(p) = n /\ \A i \in 1 .. n : p[i] = stack[i]
        BY <3>1, <3>2, Zenon
      <4> HIDE DEF p, n
      <4>2. Len(p) = 1 /\ p[1] = stack[1]
        BY <4>1, LastLeft
      <4> QED
        BY <4>2 DEF p
    <3> QED
      BY <1>1, <1>4, <3>2, <3>3, Single DEF CALLERS
  <2> QED
    BY <2>1
<1>11. vector \notin Unbalanced =>
         eip' = stack[4] /\ cs' = CS /\ eflags' = EFLAGS
  <2>1. ASSUME vector \notin Unbalanced
        PROVE  eip' = stack[4] /\ cs' = CS /\ eflags' = EFLAGS
    <3>1. /\ Len(stack) - 0 = 4 /\ Len(stack) - 1 = 3 /\ Len(stack) - 2 = 2
      BY <1>7, <2>1
    <3> QED
      BY <1>1, <1>4, <3>1
  <2> QED
    BY <2>1
<1>12. 64 \in Unbalanced /\ 0 \notin Unbalanced
  BY DEF Unbalanced, HasErrorCode
<1>13. vector \notin Unbalanced => Intact'
  BY <1>1, <1>6, <1>10, <1>11, <1>12 DEF Intact, ServerISR
<1>14. vector \notin Unbalanced \cup {0} => eip' = EIP
  BY <1>5, <1>11
<1>15. vector = 0 => Resumes(eip)'
  <2>1. ASSUME vector = 0
        PROVE  Resumes(eip)'
    <3>1. Resumes(stack[4]) /\ eip' = stack[4]
      BY <1>3, <1>5, <1>11, <1>12, <2>1
    <3> QED
      BY <1>1, <3>1 DEF Resumes
  <2> QED
    BY <2>1
<1>16. GivenBack'
  BY <1>1, <1>9, <1>13, <1>14, <1>15 DEF GivenBack
<1>17. Running' /\ StackKept' /\ RegistersKept' /\ DivisionFixed'
  BY <1>1, <1>2 DEF Running, StackKept, RegistersKept, DivisionFixed
<1> QED
  BY <1>16, <1>17 DEF HandlerInv

(* What the processor pushes.                                              *)
LEMMA JoinedAt ==
  ASSUME NEW s \in Seq(Int), NEW t \in Seq(Int), NEW m \in Nat, Len(s) = m
  PROVE  /\ s \o t \in Seq(Int) /\ Len(s \o t) = m + Len(t)
         /\ \A i \in 1 .. m : (s \o t)[i] = s[i]
         /\ \A i \in 1 .. Len(t) : (s \o t)[m + i] = t[i]
BY Joined, Zenon

(* The frame above what the caller had pushed.                             *)
LEMMA FourOf ==
  ASSUME NEW x, NEW a, NEW b,
         \A i \in 1 .. 1 : x[i] = a[i], \A i \in 1 .. 3 : x[1 + i] = b[i]
  PROVE  x[1] = a[1] /\ x[2] = b[1] /\ x[3] = b[2] /\ x[4] = b[3]
<1>1. x[1] = a[1]
  OBVIOUS
<1>2. x[1 + 1] = b[1] /\ x[1 + 2] = b[2] /\ x[1 + 3] = b[3]
  OBVIOUS
<1> QED
  BY <1>1, <1>2

(* The stack when a handler is entered.                                    *)
LEMMA Framed ==
  ASSUME NEW t \in Seq(Int)
  PROVE  LET s == <<CALLERS>> \o <<EFLAGS, CS, EIP>> \o t
         IN  /\ s \in Seq(Int) /\ Len(s) = 4 + Len(t)
             /\ s[1] = CALLERS /\ s[2] = EFLAGS /\ s[3] = CS /\ s[4] = EIP
<1> DEFINE a == <<CALLERS>>
           b == <<EFLAGS, CS, EIP>>
           x == a \o b
<1>1. a \in Seq(Int) /\ Len(a) = 1 /\ a[1] = CALLERS
  BY DEF CALLERS
<1>2. /\ b \in Seq(Int) /\ Len(b) = 3
      /\ b[1] = EFLAGS /\ b[2] = CS /\ b[3] = EIP
  BY Triple DEF EFLAGS, CS, EIP
<1> HIDE DEF a, b
<1>3. /\ x \in Seq(Int) /\ Len(x) = 1 + Len(b)
      /\ \A i \in 1 .. 1 : x[i] = a[i]
      /\ \A i \in 1 .. Len(b) : x[1 + i] = b[i]
  <2>1. 1 \in Nat
    OBVIOUS
  <2> QED
    BY <1>1, <1>2, <2>1, JoinedAt, Zenon DEF x
<1> HIDE DEF x
<1>4. Len(x) = 4 /\ \A i \in 1 .. 3 : x[1 + i] = b[i]
  BY <1>2, <1>3
<1>5. x[1] = CALLERS /\ x[2] = EFLAGS /\ x[3] = CS /\ x[4] = EIP
  <2>1. x[1] = a[1] /\ x[2] = b[1] /\ x[3] = b[2] /\ x[4] = b[3]
    BY <1>3, <1>4, FourOf
  <2> QED
    BY <1>1, <1>2, <2>1, Zenon
<1> DEFINE y == x \o t
<1>6. /\ y \in Seq(Int) /\ Len(y) = 4 + Len(t)
      /\ \A i \in 1 .. 4 : y[i] = x[i]
  <2>1. 4 \in Nat
    OBVIOUS
  <2>2. x \in Seq(Int) /\ Len(x) = 4
    BY <1>3, <1>4
  <2> QED
    BY <2>1, <2>2, JoinedAt, Zenon DEF y
<1> HIDE DEF y
<1>7. y[1] = CALLERS /\ y[2] = EFLAGS /\ y[3] = CS /\ y[4] = EIP
  BY <1>5, <1>6
<1> QED
  BY <1>6, <1>7 DEF x, a, b, y

(* The first instruction of each handler.                                  *)
LEMMA OfEvery ==
  ASSUME NEW v \in 0 .. 255
  PROVE  /\ Height(v)[1] = 0 /\ PopaAt(v) \in 2 .. 8
         /\ 1 \in 1 .. Len(Handler(v))
<1>1. CASE v \notin {0, 12, 13, 33, 64, 65, 66}
  <2>1. /\ Height(v) = <<0, 8, 0>> /\ PopaAt(v) = 2
        /\ Handler(v) = default_ISR
    BY <1>1 DEF Height, PopaAt, Handler
  <2> QED
    BY <2>1 DEF default_ISR
<1>2. CASE v = 0
  <2>1. /\ Height(v) = <<0, 8, 8, 8, 8, 0>> /\ PopaAt(v) = 5
        /\ Handler(v) = DE_ISR
    BY <1>2 DEF Height, PopaAt, Handler
  <2> QED
    BY <2>1 DEF DE_ISR
<1>3. CASE v \in {12, 13}
  <2>1. /\ Height(v) = <<0, 8, 0, -1>> /\ PopaAt(v) = 2
        /\ Handler(v) \in {SS_ISR, GP_ISR}
    BY <1>3 DEF Height, PopaAt, Handler
  <2> QED
    BY <2>1 DEF SS_ISR, GP_ISR
<1>4. CASE v = 33
  <2>1. /\ Height(v) = <<0, 8, 9, 9, 8, 8, 0>> /\ PopaAt(v) = 6
        /\ Handler(v) = PS2_ISR
    BY <1>4 DEF Height, PopaAt, Handler
  <2> QED
    BY <2>1 DEF PS2_ISR
<1>5. CASE v = 64
  <2>1. /\ Height(v) = <<0, 8, 9, 10, 10, 11, 10, 2>> /\ PopaAt(v) = 7
        /\ Handler(v) = SERVER_ISR
    BY <1>5 DEF Height, PopaAt, Handler
  <2> QED
    BY <2>1 DEF SERVER_ISR
<1>6. CASE v = 65
  <2>1. /\ Height(v) = <<0, 8, 9, 10, 10, 10, 9, 8, 0>> /\ PopaAt(v) = 8
        /\ Handler(v) = VIDEO_ISR
    BY <1>6 DEF Height, PopaAt, Handler
  <2> QED
    BY <2>1 DEF VIDEO_ISR
<1>7. CASE v = 66
  <2>1. /\ Height(v) = <<0, 8, 9, 10, 10, 9, 8, 0>> /\ PopaAt(v) = 7
        /\ Handler(v) = DEVICE_ISR
    BY <1>7 DEF Height, PopaAt, Handler
  <2> QED
    BY <2>1 DEF DEVICE_ISR
<1> QED
  BY <1>1, <1>2, <1>3, <1>4, <1>5, <1>6, <1>7

(* The processor enters a handler.                                         *)
LEMMA InterruptKeeps ==
  ASSUME HandlerInv, NEW v \in Vectors, Interrupt(v)
  PROVE  HandlerInv'
<1> DEFINE code == IF v \in HasErrorCode THEN <<ERROR_CODE>> ELSE << >>
<1>1. /\ regs = Before /\ regs' = regs
      /\ stack = <<CALLERS>> /\ vector' = v /\ pc' = 1 /\ at' = "prefix"
      /\ stack' = stack \o <<EFLAGS, CS, EIP>> \o code
      /\ v = 0 => division' \in Divisions
  BY DEF Interrupt, Intact
<1>2. v \in 0 .. 255
  BY VectorsAssumption
<1>3. /\ code \in Seq(Int)
      /\ Len(code) = IF v \in HasErrorCode THEN 1 ELSE 0
  BY DEF ERROR_CODE
<1>4. /\ stack' \in Seq(Int) /\ Len(stack') = 4 + Len(code)
      /\ stack'[1] = CALLERS /\ stack'[2] = EFLAGS /\ stack'[3] = CS
      /\ stack'[4] = EIP
  <2>1. stack' = <<CALLERS>> \o <<EFLAGS, CS, EIP>> \o code
    BY <1>1
  <2> HIDE DEF code
  <2> QED
    BY <1>3, <2>1, Framed
<1>5. /\ Base(vector)' = (IF v \in HasErrorCode THEN 5 ELSE 4)
      /\ Height(vector)' = Height(v) /\ Handler(vector)' = Handler(v)
      /\ PopaAt(vector)' = PopaAt(v)
  BY <1>1 DEF Base, Height, Handler, PopaAt
<1>6. Height(v)[1] = 0 /\ PopaAt(v) \in 2 .. 8 /\ 1 \in 1 .. Len(Handler(v))
  BY <1>2, OfEvery
<1>7. Running'
  BY <1>1, <1>2, <1>5, <1>6 DEF Running
<1>8. StackKept'
  <2>1. Len(stack') = Base(vector)' + Height(vector)'[pc']
    BY <1>1, <1>3, <1>4, <1>5, <1>6
  <2>2. ~(vector' = 0 /\ pc' > 4) /\ pc' \notin 2 .. PopaAt(vector)'
    BY <1>1
  <2>3. /\ pc' \notin 3 .. PopaAt(vector)' - 1
        /\ pc' \notin 4 .. PopaAt(vector)' - 2
    BY <1>1
  <2> QED
    BY <1>4, <2>1, <2>2, <2>3 DEF StackKept
<1>9. RegistersKept'
  <2>1. regs' = Before /\ regs' \in [Registers -> Int]
    BY <1>1, GeneralNames
  <2>2. regs'["esp"] = Before.esp /\ regs'["ds"] = Before.ds /\ regs'["es"] = Before.es
    BY <2>1
  <2> QED
    BY <2>1, <2>2 DEF RegistersKept
<1>10. DivisionFixed'
  BY <1>1 DEF DivisionFixed
<1>11. GivenBack'
  BY <1>1 DEF GivenBack
<1> QED
  BY <1>7, <1>8, <1>9, <1>10, <1>11 DEF HandlerInv

-----------------------------------------------------------------------------
(* The invariant of the handlers.                                          *)
LEMMA HandlerInvInit == Init => HandlerInv
<1> SUFFICES ASSUME Init
             PROVE  HandlerInv
  OBVIOUS
<1>1. /\ regs = Before /\ stack = <<CALLERS>> /\ vector = 255 /\ pc = 0
      /\ eip = EIP /\ cs = CS /\ eflags = EFLAGS
  BY DEF Init
<1>2. 255 \notin Unbalanced
  BY DEF Unbalanced, HasErrorCode
<1> QED
  BY <1>1, <1>2
     DEF HandlerInv, Running, StackKept, RegistersKept, DivisionFixed, GivenBack,
         Intact

(* Every instruction keeps the invariant.                                  *)
LEMMA HandlerInvStep ==
  ASSUME HandlerInv, [Next]_vars
  PROVE  HandlerInv'
<1>1. CASE Pusha
  BY <1>1, PushaKeeps
<1>2. CASE Popa
  BY <1>2, PopaKeeps
<1>3. CASE Drop
  BY <1>3, DropKeeps
<1>4. CASE Overwrite
  BY <1>4, OverwriteKeeps
<1>5. CASE \E r \in {"ds", "es", "edi"} : Push(r)
  BY <1>5, PushKeeps
<1>6. CASE \E r \in {"ds", "es"} : Pop(r)
  BY <1>6, PopKeeps
<1>7. CASE TakeEip
  BY <1>7, TakeKeeps
<1>8. CASE FixPrefix
  BY <1>8, FixPrefixKeeps
<1>9. CASE FixModRM
  BY <1>9, FixModRMKeeps
<1>10. CASE FixSib
  BY <1>10, FixSibKeeps
<1>11. CASE GiveEip
  BY <1>11, GiveKeeps
<1>12. CASE ISR_FOR_PS2
  BY <1>12, ServiceKeeps
<1>13. CASE Iret
  BY <1>13, IretKeeps
<1>14. CASE \E v \in Vectors : Interrupt(v)
  BY <1>14, InterruptKeeps
<1>15. CASE UNCHANGED vars
  <2>1. /\ regs' = regs /\ stack' = stack /\ vector' = vector /\ pc' = pc
        /\ eip' = eip /\ cs' = cs /\ eflags' = eflags /\ division' = division
        /\ at' = at
    BY <1>15 DEF vars, frame
  <2>2. /\ Handler(vector)' = Handler(vector) /\ Base(vector)' = Base(vector)
        /\ Height(vector)' = Height(vector) /\ PopaAt(vector)' = PopaAt(vector)
    BY <2>1 DEF Handler, Base, Height, PopaAt
  <2>3. /\ Resumes(stack[4])' <=> Resumes(stack[4])
        /\ Resumes(regs["ebx"])' <=> Resumes(regs["ebx"])
        /\ Resumes(eip)' <=> Resumes(eip)
    BY <2>1 DEF Resumes
  <2>4. Fixing(at, regs["ebx"] - EIP)' <=> Fixing(at, regs["ebx"] - EIP)
    BY <2>1 DEF Fixing, Skipped
  <2>5. Running'
    BY <2>1, <2>2 DEF HandlerInv, Running
  <2>6. StackKept'
    BY <2>1, <2>2, <2>3 DEF HandlerInv, StackKept
  <2>7. RegistersKept'
    BY <2>1, <2>2 DEF HandlerInv, RegistersKept
  <2>8. DivisionFixed'
    BY <2>1, <2>3, <2>4 DEF HandlerInv, DivisionFixed
  <2>9. GivenBack'
    BY <2>1, <2>3 DEF HandlerInv, GivenBack, Intact
  <2> QED
    BY <2>5, <2>6, <2>7, <2>8, <2>9 DEF HandlerInv
<1> QED
  BY <1>1, <1>2, <1>3, <1>4, <1>5, <1>6, <1>7, <1>8, <1>9, <1>10, <1>11,
     <1>12, <1>13, <1>14, <1>15 DEF Next, HandlerStep

(* At every instruction of every handler the stack, the registers and      *)
(* what _DE_fix has read are as HandlerInv says.                           *)
THEOREM HandlersInvariant == Spec => []HandlerInv
<1>1. Init => HandlerInv
  BY HandlerInvInit
<1>2. HandlerInv /\ [Next]_vars => HandlerInv'
  BY HandlerInvStep
<1> QED
  BY <1>1, <1>2, PTL DEF Spec

(* Whatever is raised in whatever order, a handler gives the program back  *)
(* its registers, its stack, its flags and, but for a division, its place: *)
(* SERVER_ISR never does, nor default_ISR behind an error code; all others *)
(* always do.                                                              *)
THEOREM AllButUnbalanced == Spec => []Transparent
<1>1. HandlerInv => Transparent
  <2> SUFFICES ASSUME HandlerInv, pc = 0
               PROVE  Intact /\ (vector # 0 => eip = EIP)
                        <=> vector \notin Unbalanced
    BY DEF Transparent
  <2>1. GivenBack
    BY DEF HandlerInv
  <2>2. CASE vector \in Unbalanced
    <3>1. Len(stack) # 1
      BY <2>1, <2>2 DEF GivenBack
    <3>2. ~Intact
      <4>1. Len(<<CALLERS>>) = 1
        OBVIOUS
      <4> QED
        BY <3>1, <4>1 DEF Intact
    <3> QED
      BY <2>2, <3>2
  <2>3. CASE vector \notin Unbalanced
    BY <2>1, <2>3 DEF GivenBack
  <2> QED
    BY <2>2, <2>3
<1> QED
  BY <1>1, HandlersInvariant, PTL

(* After a divide error, whatever the bytes of the division, the program   *)
(* goes on behind its first byte and not behind its end, and at its end    *)
(* just when _DE_fix knows the form.                                       *)
THEOREM ResumesInside == Spec => []DivideResumes
<1>1. HandlerInv => DivideResumes
  BY DEF HandlerInv, GivenBack, Resumes, DivideResumes
<1> QED
  BY <1>1, HandlersInvariant, PTL
=============================================================================
