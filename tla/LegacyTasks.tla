---------------------------- MODULE LegacyTasks ----------------------------
(***************************************************************************)
(* The task services of the legacy kernel (Sources/Boot/16T32.asm):        *)
(* interrupt 0x31 with bh = 1 creates a task, with bh = 0 returns the base *)
(* of the calling task's segments.                                         *)
(*                                                                         *)
(* A creation takes one entry of five tables from allocators that only     *)
(* ever advance, and ties them together by selectors: a task gate in the   *)
(* IDT names a TSS descriptor in the GDT, whose TSS names two segments of  *)
(* the shared LDT; the base is also kept in a table of its own.  The gate  *)
(* of interrupt 0x31 is an interrupt gate: a service runs to its end.      *)
(*                                                                         *)
(* Addresses and selectors are those of the code.  The program that sets   *)
(* the allocators up is not in the repository: LDT_FIRST and BASE_FIRST    *)
(* are what LOAD_BASE presumes, the other two starts are parameters.       *)
(***************************************************************************)
EXTENDS Integers, Sequences

CONSTANTS
  GdtStart,    \* first [0x2000]: TSS descriptors
  TssStart,    \* first [0x2002]: TSSs, 0x80 bytes each
  MaxTasks,    \* bound: tasks created (the code has no check)
  Programs     \* for each n, what the n-th creation may get in eax (base),
               \* esi (size of the code) and edi (size of the data)

GDT == 24576                                            \* 0x6000
GDT_SIZE == 1024
LDT == 7168                                             \* 0x1C00
LDT_SIZE == 1024
LDT_FIRST == LDT + 16                                   \* 0x1C10
IDT_FIRST == 27136                                      \* 0x6A00
IDT_END == 27648                                        \* 0x6C00
BASE_FIRST == 65536                                     \* 0x10000
WORD == 65536                                           \* 2^16

(* Room for every task in each table.                                      *)
ASSUME LayoutAssumption ==
  /\ MaxTasks \in Nat
  /\ LDT_FIRST + 16 * MaxTasks <= LDT + LDT_SIZE
  /\ IDT_FIRST + 8 * MaxTasks <= IDT_END
  /\ GdtStart \in Nat /\ GDT <= GdtStart
  /\ GdtStart + 8 * MaxTasks <= GDT + GDT_SIZE
  /\ TssStart \in Nat /\ TssStart + 128 * MaxTasks <= WORD

ASSUME ProgramAssumption ==
  Programs \in [1 .. MaxTasks -> SUBSET [base : Nat, code : Nat, data : Nat]]

Slots == 0 .. MaxTasks - 1
GdtSlots == {GdtStart + 8 * i : i \in Slots}
TssSlots == {TssStart + 128 * i : i \in Slots}
LdtSlots == {LDT_FIRST + 8 * i : i \in 0 .. 2 * MaxTasks - 1}
IdtSlots == {IDT_FIRST + 8 * i : i \in Slots}
BaseSlots == {BASE_FIRST + 4 * i : i \in Slots}

VARIABLES
  p_gdt, p_tss, p_ldt, p_idt, p_base,   \* [0x2000 2002 2010 2020 2028]
  gdt,       \* TSS descriptor: base of the TSS
  tss,       \* cs and ds of a TSS
  ldt,       \* base and limit of a segment
  idt,       \* task gate: selector of a TSS descriptor
  base,      \* base table
  created,   \* history: the programs, in order of creation
  loaded     \* history: the last LOAD_BASE, the calling task and its result

allocators == <<p_gdt, p_tss, p_ldt, p_idt, p_base>>
tables == <<gdt, tss, ldt, idt, base>>
vars == <<allocators, tables, created, loaded>>

EMPTY == 0
NoTss == [cs |-> 0, ds |-> 0]
NoSegment == [base |-> 0, limit |-> 0]
NoLoad == [task |-> 0, value |-> 0]

Init ==
  /\ p_gdt = GdtStart /\ p_tss = TssStart /\ p_ldt = LDT_FIRST
  /\ p_idt = IDT_FIRST /\ p_base = BASE_FIRST
  /\ gdt = [a \in GdtSlots |-> EMPTY]
  /\ tss = [a \in TssSlots |-> NoTss]
  /\ ldt = [a \in LdtSlots |-> NoSegment]
  /\ idt = [a \in IdtSlots |-> EMPTY]
  /\ base = [a \in BaseSlots |-> EMPTY]
  /\ created = << >>
  /\ loaded = NoLoad

-----------------------------------------------------------------------------
(* or cx,7 on a multiple of 8: an LDT selector of ring 3.                  *)
Selector(entry) == entry - LDT + 7

(* The entry a selector designates.                                        *)
LdtEntry(sel) == LDT + (sel - (sel % 8))

(* A limit is the low word of the size less one.                           *)
Segment(b, size) == [base |-> b, limit |-> (size - 1) % WORD]

ldt_creat(p) ==
  /\ ldt' = [ldt EXCEPT ![p_ldt] = Segment(p.base, p.code),
                        ![p_ldt + 8] = Segment(p.base, p.data)]
  /\ p_ldt' = p_ldt + 16

tss_creat(at, cs) == tss' = [tss EXCEPT ![at] = [cs |-> cs, ds |-> cs + 8]]

(* Mutants: the gate takes the selector of the next descriptor; two words  *)
(* are taken from the base table.                                          *)
creat_task_NextSelector(p) ==
  /\ base' = [base EXCEPT ![p_base] = p.base] /\ p_base' = p_base + 4
  /\ gdt' = [gdt EXCEPT ![p_gdt] = p_tss] /\ p_gdt' = p_gdt + 8
  /\ p_tss' = p_tss + 128
  /\ ldt_creat(p)
  /\ tss_creat(p_tss, Selector(p_ldt))
  /\ idt' = [idt EXCEPT ![p_idt] = (p_gdt + 8) - GDT] /\ p_idt' = p_idt + 8
  /\ created' = Append(created, p)
  /\ UNCHANGED loaded

creat_task_BaseTwice(p) ==
  /\ base' = [base EXCEPT ![p_base] = p.base] /\ p_base' = p_base + 8
  /\ gdt' = [gdt EXCEPT ![p_gdt] = p_tss] /\ p_gdt' = p_gdt + 8
  /\ p_tss' = p_tss + 128
  /\ ldt_creat(p)
  /\ tss_creat(p_tss, Selector(p_ldt))
  /\ idt' = [idt EXCEPT ![p_idt] = (p_gdt + 8) - (GDT + 8)]
  /\ p_idt' = p_idt + 8
  /\ created' = Append(created, p)
  /\ UNCHANGED loaded

(* _creat_task: the base, the TSS descriptor, the LDT segments, the TSS    *)
(* and the gate, in that order.  [0x2000] has advanced when the gate's     *)
(* selector is computed from it, whence 0x6008.                            *)
creat_task(p) ==
  /\ base' = [base EXCEPT ![p_base] = p.base] /\ p_base' = p_base + 4
  /\ gdt' = [gdt EXCEPT ![p_gdt] = p_tss] /\ p_gdt' = p_gdt + 8
  /\ p_tss' = p_tss + 128
  /\ ldt_creat(p)
  /\ tss_creat(p_tss, Selector(p_ldt))
  /\ idt' = [idt EXCEPT ![p_idt] = p_gdt' - (GDT + 8)]
  /\ p_idt' = p_idt + 8
  /\ created' = Append(created, p)
  /\ UNCHANGED loaded

(* The TSS that the gate of task t leads to.  Task t is the t-th created.  *)
GateOf(t) == idt[IDT_FIRST + 8 * (t - 1)]
TssOf(t) == tss[gdt[GDT + GateOf(t)]]

(* Mutant: the index of the base table is not made to start at zero.       *)
BaseAddress_FromOne(ds) == BASE_FIRST + 4 * (((ds % 256) - (ds % 8)) \div 16)

(* and ax,0xF8; shr eax,4; sub eax,1; shl eax,2; add eax,0x10000           *)
BaseAddress(ds) == BASE_FIRST + 4 * (((ds % 256) - (ds % 8)) \div 16 - 1)

(* Outside the table stands memory that the services never write.          *)
LOAD_BASE(t) ==
  LET at == BaseAddress(TssOf(t).ds)
  IN  /\ loaded' = [task |-> t,
                    value |-> IF at \in BaseSlots THEN base[at] ELSE EMPTY]
      /\ UNCHANGED <<allocators, tables, created>>

Next ==
  \/ /\ Len(created) < MaxTasks
     /\ \E p \in Programs[Len(created) + 1] : creat_task(p)
  \/ \E t \in 1 .. Len(created) : LOAD_BASE(t)

Spec == Init /\ [][Next]_vars

-----------------------------------------------------------------------------
(* The allocators stay inside their tables, one past the last at most.     *)
TypeOK ==
  /\ p_gdt \in GdtStart .. GdtStart + 8 * MaxTasks
  /\ p_tss \in TssStart .. TssStart + 128 * MaxTasks
  /\ p_ldt \in LDT_FIRST .. LDT + LDT_SIZE
  /\ p_idt \in IDT_FIRST .. IDT_END
  /\ p_base \in BASE_FIRST .. BASE_FIRST + 4 * MaxTasks
  /\ gdt \in [GdtSlots -> 0 .. WORD]
  /\ tss \in [TssSlots -> [cs : 0 .. LDT_SIZE, ds : 0 .. LDT_SIZE]]
  /\ ldt \in [LdtSlots -> [base : Nat, limit : 0 .. WORD - 1]]
  /\ idt \in [IdtSlots -> 0 .. GDT_SIZE]
  /\ base \in [BaseSlots -> Nat]
  /\ Len(created) <= MaxTasks
  /\ created \in Seq([base : Nat, code : Nat, data : Nat])
  /\ loaded \in [task : 0 .. Len(created), value : Nat]

(* However many tasks follow it, an interrupt through the gate of a task   *)
(* enters that task: from gate to TSS descriptor to TSS to the two         *)
(* segments of the LDT, every selector leads to its own program, and the   *)
(* two segments have the sizes it asked for.                               *)
Wired ==
  \A t \in 1 .. Len(created) :
    LET p == created[t]
    IN  /\ GDT + GateOf(t) \in GdtSlots /\ gdt[GDT + GateOf(t)] \in TssSlots
        /\ LdtEntry(TssOf(t).cs) \in LdtSlots
        /\ LdtEntry(TssOf(t).ds) \in LdtSlots
        /\ ldt[LdtEntry(TssOf(t).cs)] = Segment(p.base, p.code)
        /\ ldt[LdtEntry(TssOf(t).ds)] = Segment(p.base, p.data)

(* One of the first fifteen tasks gets its own base from LOAD_BASE.        *)
LoadsOwnBase ==
  loaded.task \in 1 .. 15 => loaded.value = created[loaded.task].base

(* "Discard low 3 bit": the selector less its privilege level and table    *)
(* indicator identifies the task, so every task gets its own base.         *)
EveryTaskLoadsItsBase ==
  loaded.task # 0 => loaded.value = created[loaded.task].base
=============================================================================
