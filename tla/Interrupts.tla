---------------------------- MODULE Interrupts ----------------------------
(***************************************************************************)
(* The interrupt handlers of the kernel (Sources/init/init.s), the gates   *)
(* that lead to them (idt_init) and the keyboard service ISR_FOR_PS2       *)
(* (Include/asm/interrupt.h).                                              *)
(*                                                                         *)
(* A handler is a short program of pushes and pops around a call; it is    *)
(* right when what comes back to the interrupted program is what left it.  *)
(* One handler changes the address of return on purpose: DE_ISR steps over *)
(* the division that failed, whose length _DE_fix works out byte by byte.  *)
(*                                                                         *)
(* Handlers are entered through interrupt gates and hardware interrupts    *)
(* are masked: a handler runs to its end.                                  *)
(***************************************************************************)
EXTENDS Integers, Sequences

CONSTANTS
  Vectors,       \* what may be raised: exceptions and the services
  Divisions,     \* failing divisions: [prefix, modrm, sib]
  ScanCodes      \* what port 0x60 may hold

(* Prefixes of a division: a segment, the size of the operand, repeat.     *)
(* Lock is not allowed there, and the size of the address selects other    *)
(* forms than those of a 32 bit program.                                   *)
Prefix == {38, 46, 54, 62, 100, 101, 102, 242, 243}

ASSUME VectorsAssumption == Vectors \subseteq 0 .. 255
ASSUME DivisionsAssumption ==
  Divisions \subseteq
    [prefix : Seq(Prefix), modrm : 0 .. 255, sib : 0 .. 255]
ASSUME ScanCodesAssumption == ScanCodes \subseteq 0 .. 255

General == <<"eax", "ecx", "edx", "ebx", "esp", "ebp", "esi", "edi">>
Registers == {General[i] : i \in 1 .. 8} \cup {"ds", "es"}

(* The interrupted program: values that can be told apart.                 *)
Before == [eax |-> 1, ecx |-> 2, edx |-> 3, ebx |-> 4, esp |-> 5, ebp |-> 6,
           esi |-> 7, edi |-> 8, ds |-> 11, es |-> 12]
EFLAGS == 21
CS == 22
EIP == 100
ERROR_CODE == 23
CALLERS == 24                 \* what the interrupted program had pushed

VARIABLES
  regs,          \* registers; esp is the length of stack
  stack,         \* top at the end
  vector, pc,    \* 0: the program runs, else an index into Handler(vector)
  eip, cs, eflags,
  division,      \* the instruction that failed
  at,            \* where _DE_fix is
  KEY_SHIFT_FLAG, KEY_CAPSLOCK_FLAG,
  keybuf         \* the byte that edi points to

flags == <<KEY_SHIFT_FLAG, KEY_CAPSLOCK_FLAG>>
keyboard == <<flags, keybuf>>
frame == <<eip, cs, eflags>>
vars == <<regs, stack, vector, pc, frame, division, at, keyboard>>

NoKey == 0
NoDivision == [prefix |-> << >>, modrm |-> 0, sib |-> 0]

Init ==
  /\ regs = Before /\ stack = <<CALLERS>>
  /\ vector = 255 /\ pc = 0
  /\ eip = EIP /\ cs = CS /\ eflags = EFLAGS
  /\ division = NoDivision /\ at = "prefix"
  /\ KEY_SHIFT_FLAG = 0 /\ KEY_CAPSLOCK_FLAG = 0 /\ keybuf = NoKey

-----------------------------------------------------------------------------
(* The handlers, instruction by instruction.  A call of C code is one      *)
(* instruction: it keeps the stack and may change eax, ecx and edx.  Those *)
(* of SERVER_ISR and DEVICE_ISR are empty and left out.                    *)
PUSHA == <<"pusha", "none">>
POPA == <<"popa", "none">>
PUSH(r) == <<"push", r>>
POP(r) == <<"pop", r>>
DROP == <<"drop", "none">>                           \* addl $4,%esp
KERNEL == <<"kernel", "none">>                       \* ds and es become 0x10
CALL == <<"call", "none">>
KEY == <<"call", "ISR_FOR_PS2">>
EOI == <<"eoi", "none">>                             \* through al and dx
TAKE_EIP == <<"take", "none">>                       \* movl 0x20(%esp),%ebx
FIX == <<"call", "_DE_fix">>
GIVE_EIP == <<"give", "none">>                       \* movl %ebx,0x20(%esp)
IRET == <<"iret", "none">>

default_ISR == <<PUSHA, POPA, IRET>>
DE_ISR == <<PUSHA, TAKE_EIP, FIX, GIVE_EIP, POPA, IRET>>

(* Mutant: the error code stays on the stack.                              *)
GP_ISR_KeepsCode == <<PUSHA, POPA, IRET>>

GP_ISR == <<PUSHA, POPA, DROP, IRET>>
SS_ISR == <<PUSHA, POPA, DROP, IRET>>
PS2_ISR == <<PUSHA, PUSH("edi"), KEY, DROP, EOI, POPA, IRET>>
SERVER_ISR ==
  <<PUSHA, PUSH("ds"), PUSH("es"), KERNEL, PUSH("es"), POP("ds"), POPA, IRET>>
VIDEO_ISR ==
  <<PUSHA, PUSH("ds"), PUSH("es"), KERNEL, CALL, POP("es"), POP("ds"), POPA,
    IRET>>
DEVICE_ISR ==
  <<PUSHA, PUSH("ds"), PUSH("es"), KERNEL, POP("es"), POP("ds"), POPA, IRET>>

(* idt_init                                                                *)
Handler(v) ==
  CASE v = 0 -> DE_ISR
    [] v = 12 -> SS_ISR
    [] v = 13 -> GP_ISR
    [] v = 33 -> PS2_ISR
    [] v = 64 -> SERVER_ISR
    [] v = 65 -> VIDEO_ISR
    [] v = 66 -> DEVICE_ISR
    [] OTHER -> default_ISR

(* Exceptions for which the processor pushes an error code.                *)
HasErrorCode == {8, 10, 11, 12, 13, 14, 17}

Top(n) == stack[Len(stack) - n]
Popped(n) == SubSeq(stack, 1, Len(stack) - n)
Is(op) == pc # 0 /\ Handler(vector)[pc] = op
Step == pc' = pc + 1 /\ UNCHANGED <<vector, division>>

(* Nothing was left behind by the last handler: the program goes on.       *)
Intact ==
  /\ regs = Before /\ stack = <<CALLERS>>
  /\ cs = CS /\ eflags = EFLAGS

Interrupt(v) ==
  /\ pc = 0 /\ Intact
  /\ vector' = v /\ pc' = 1
  /\ stack' = stack \o <<EFLAGS, CS, EIP>>
                    \o (IF v \in HasErrorCode THEN <<ERROR_CODE>> ELSE << >>)
  /\ IF v = 0 THEN division' \in Divisions ELSE division' = NoDivision
  /\ at' = "prefix"
  /\ keybuf' = NoKey                            \* taken by the program
  /\ eip' = EIP                                 \* where it has come to
  /\ UNCHANGED <<regs, cs, eflags, flags>>

-----------------------------------------------------------------------------
Pusha ==
  /\ Is(PUSHA) /\ Step
  /\ stack' = stack \o [i \in 1 .. 8 |-> regs[General[i]]]
  /\ UNCHANGED <<regs, frame, at, keyboard>>

(* All but esp, which popa discards.                                       *)
Popa ==
  /\ Is(POPA) /\ Step
  /\ regs' = [r \in Registers |->
                IF r \in {"ds", "es", "esp"} THEN regs[r]
                ELSE Top(8 - CHOOSE i \in 1 .. 8 : General[i] = r)]
  /\ stack' = Popped(8)
  /\ UNCHANGED <<frame, at, keyboard>>

Push(r) ==
  /\ Is(PUSH(r)) /\ Step
  /\ stack' = Append(stack, regs[r])
  /\ UNCHANGED <<regs, frame, at, keyboard>>

Pop(r) ==
  /\ Is(POP(r)) /\ Step
  /\ regs' = [regs EXCEPT ![r] = Top(0)]
  /\ stack' = Popped(1)
  /\ UNCHANGED <<frame, at, keyboard>>

Drop ==
  /\ Is(DROP) /\ Step
  /\ stack' = Popped(1)
  /\ UNCHANGED <<regs, frame, at, keyboard>>

(* Instructions that only overwrite registers.                             *)
Overwritten ==
  CASE Is(KERNEL) -> {"ebx", "ds", "es"}
    [] Is(CALL) -> {"eax", "ecx", "edx"}
    [] Is(EOI) -> {"eax", "edx"}
    [] OTHER -> {}

Overwrite ==
  /\ Overwritten # {} /\ Step
  /\ regs' = [r \in Registers |-> IF r \in Overwritten THEN 16 ELSE regs[r]]
  /\ UNCHANGED <<stack, frame, at, keyboard>>

(* 0x20(%esp): above the eight registers that pusha has pushed.            *)
TakeEip ==
  /\ Is(TAKE_EIP) /\ Step
  /\ regs' = [regs EXCEPT !["ebx"] = Top(8)]
  /\ UNCHANGED <<stack, frame, at, keyboard>>

GiveEip ==
  /\ Is(GIVE_EIP) /\ Step
  /\ stack' = [stack EXCEPT ![Len(stack) - 8] = regs["ebx"]]
  /\ UNCHANGED <<regs, frame, at, keyboard>>

Iret ==
  /\ Is(IRET)
  /\ eip' = Top(0) /\ cs' = Top(1) /\ eflags' = Top(2)
  /\ stack' = Popped(3)
  /\ pc' = 0
  /\ UNCHANGED <<regs, vector, division, at, keyboard>>

-----------------------------------------------------------------------------
(* _DE_fix: ebx runs over the bytes of the instruction.                    *)
DIV == 247
Byte(a) ==
  (division.prefix \o <<DIV, division.modrm, division.sib>>)[a - EIP + 1]

Advance(n, where) ==
  /\ regs' = [regs EXCEPT !["ebx"] = @ + n]
  /\ at' = where
  /\ IF where = "end" THEN Step ELSE UNCHANGED <<pc, vector, division>>
  /\ UNCHANGED <<stack, frame, keyboard>>

(* Mutant: the prefix is not stepped over.                                 *)
FixPrefix_Stays ==
  /\ Is(FIX) /\ at = "prefix"
  /\ IF Byte(regs["ebx"]) = 102 THEN Advance(0, "prefix")
     ELSE Advance(1, "modrm")

FixPrefix ==
  /\ Is(FIX) /\ at = "prefix"
  /\ IF Byte(regs["ebx"]) = 102 THEN Advance(1, "prefix")
     ELSE Advance(1, "modrm")

Mod(modrm) == modrm \div 64
Rm(modrm) == modrm % 8

(* Mutant: no displacement without a base.                                 *)
FixModRM_NoDisp32 ==
  LET b == Byte(regs["ebx"])
  IN  /\ Is(FIX) /\ at = "modrm"
      /\ \/ Mod(b) = 0 /\ Rm(b) = 4 /\ Advance(1, "sib")
         \/ Mod(b) = 0 /\ Rm(b) # 4 /\ Advance(1, "end")
         \/ Mod(b) = 1 /\ Advance(2, "end")
         \/ Mod(b) = 2 /\ Advance(5, "end")
         \/ Mod(b) = 3 /\ Advance(1, "end")

FixModRM ==
  LET b == Byte(regs["ebx"])
  IN  /\ Is(FIX) /\ at = "modrm"
      /\ \/ Mod(b) = 0 /\ Rm(b) = 5 /\ Advance(5, "end")
         \/ Mod(b) = 0 /\ Rm(b) = 4 /\ Advance(1, "sib")
         \/ Mod(b) = 0 /\ Rm(b) \notin {4, 5} /\ Advance(1, "end")
         \/ Mod(b) = 1 /\ Advance(2, "end")
         \/ Mod(b) = 2 /\ Advance(5, "end")
         \/ Mod(b) = 3 /\ Advance(1, "end")

FixSib ==
  /\ Is(FIX) /\ at = "sib"
  /\ IF Byte(regs["ebx"]) = 5 THEN Advance(5, "end") ELSE Advance(1, "end")

-----------------------------------------------------------------------------
(* ISR_FOR_PS2.  A character is the code of its key and the table it is    *)
(* looked up in.                                                           *)
Nothing == 255
Lower(key) == 256 + key
Upper(key) == 512 + key
Letters == (16 .. 25) \cup (30 .. 38) \cup (44 .. 50)
Signs == {41} \cup (2 .. 13) \cup {26, 27, 39, 40, 43} \cup (51 .. 53)
Keypad == {55, 71, 72, 73, 74, 75, 76, 77, 78, 79, 80, 81, 82, 83}
KeyTab == 15
KeySpace == 57
KeyCapsLk == 58
KeyEnter == 28
KeyBack == 14
KeyShiftD == {42, 54}
KeyShiftU == {170, 182}

PS2CLF(key) == IF key \in Letters THEN Lower(key) ELSE Nothing
PS2CLT(key) == IF key \in Letters THEN Upper(key) ELSE Nothing

(* Mutant: the range that is meant.                                        *)
InRange_AsMeant(low, key, high) == low <= key /\ key <= high

(* low <= key <= high in C: the first comparison yields 0 or 1, which is   *)
(* below every bound used here.                                            *)
InRange(low, key, high) == (IF low <= key THEN 1 ELSE 0) <= high

InLetterRanges(key) ==
  InRange(16, key, 25) \/ InRange(30, key, 38) \/ InRange(44, key, 50)

OtherKey(key) ==
  CASE key \in Signs ->
         IF KEY_SHIFT_FLAG = 0 THEN Lower(key) ELSE Upper(key)
    [] key \in Keypad -> IF KEY_SHIFT_FLAG = 0 THEN Lower(key) ELSE key
    [] key = KeySpace -> Lower(key)
    [] key \in {KeyTab, KeyEnter, KeyBack} -> key
    [] key \in KeyShiftD -> 42
    [] key \in KeyShiftU -> 170
    [] OTHER -> Nothing

Converted(key) ==
  CASE ~InLetterRanges(key) -> OtherKey(key)
    [] KEY_CAPSLOCK_FLAG = 0 -> PS2CLF(key)
    [] OTHER -> PS2CLT(key)

ChangeFlags(key) ==
  LET other == ~InLetterRanges(key)
  IN  /\ KEY_SHIFT_FLAG' = CASE other /\ key \in KeyShiftD -> 1
                             [] other /\ key \in KeyShiftU -> 0
                             [] OTHER -> KEY_SHIFT_FLAG
      /\ KEY_CAPSLOCK_FLAG' =
           IF other /\ key = KeyCapsLk THEN 1 - KEY_CAPSLOCK_FLAG
           ELSE KEY_CAPSLOCK_FLAG

CalledC == regs' = [regs EXCEPT !["eax"] = 16, !["ecx"] = 16, !["edx"] = 16]

ISR_FOR_PS2 ==
  \E key \in ScanCodes :
    /\ Is(KEY) /\ Step
    /\ ChangeFlags(key)
    /\ keybuf' = IF Converted(key) = Nothing THEN keybuf ELSE Converted(key)
    /\ CalledC /\ UNCHANGED <<stack, frame, at>>

-----------------------------------------------------------------------------
HandlerStep ==
  \/ Pusha \/ Popa \/ Drop \/ Overwrite
  \/ \E r \in {"ds", "es", "edi"} : Push(r)
  \/ \E r \in {"ds", "es"} : Pop(r)
  \/ TakeEip \/ FixPrefix \/ FixModRM \/ FixSib \/ GiveEip
  \/ ISR_FOR_PS2
  \/ Iret

Next == HandlerStep \/ \E v \in Vectors : Interrupt(v)

(* The processor goes on with the handler it is in.                        *)
Spec == Init /\ [][Next]_vars /\ WF_vars(HandlerStep)

-----------------------------------------------------------------------------
(* A handler is transparent: the program gets back its registers, its      *)
(* stack, its flags and, but for a division, its place.  SERVER_ISR is     *)
(* not, it pushes ds and es and pops neither; nor is default_ISR when the  *)
(* processor pushed an error code, which nothing takes off the stack.      *)
Unbalanced == {64} \cup (HasErrorCode \ {12, 13})
Transparent ==
  pc = 0 => (Intact /\ (vector # 0 => eip = EIP) <=> vector \notin Unbalanced)

(* The instruction that failed: prefixes, opcode, modrm and then the sib   *)
(* byte and the displacement that modrm asks for.                          *)
HasSib(d) == Mod(d.modrm) # 3 /\ Rm(d.modrm) = 4
Displacement(d) ==
  CASE Mod(d.modrm) = 1 -> 1
    [] Mod(d.modrm) = 2 -> 4
    [] Mod(d.modrm) = 0 /\ Rm(d.modrm) = 5 -> 4
    [] Mod(d.modrm) = 0 /\ HasSib(d) /\ d.sib % 8 = 5 -> 4
    [] OTHER -> 0
NextInstruction(d) ==
  EIP + Len(d.prefix) + 2 + (IF HasSib(d) THEN 1 ELSE 0) + Displacement(d)

(* The forms that _DE_fix knows: no prefix but 0x66; a sib byte with no    *)
(* displacement, or with no index but eax.                                 *)
KnownForm(d) ==
  /\ \A i \in DOMAIN d.prefix : d.prefix[i] = 102
  /\ HasSib(d) => Mod(d.modrm) = 0 /\ (d.sib % 8 = 5 => d.sib = 5)

(* After a divide error the program goes on behind the first byte of the   *)
(* division and not behind its end: at its end when _DE_fix knows the      *)
(* form, and inside the instruction, at whatever its last bytes encode,    *)
(* when it does not.                                                       *)
DivideResumes ==
  pc = 0 /\ vector = 0 =>
    /\ EIP < eip /\ eip <= NextInstruction(division)
    /\ eip = NextInstruction(division) <=> KnownForm(division)

(* Every key is looked up among the letters, as lower case: the shift and  *)
(* caps lock keys, the digits and the signs are never recognised.          *)
LowerCaseOnly ==
  /\ KEY_SHIFT_FLAG = 0 /\ KEY_CAPSLOCK_FLAG = 0
  /\ keybuf \in {NoKey} \cup {Lower(k) : k \in Letters}

(* Every handler comes to its iret: _DE_fix ends.                          *)
Returns == pc # 0 ~> pc = 0
=============================================================================
