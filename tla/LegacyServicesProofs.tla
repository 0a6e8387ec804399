------------------------ MODULE LegacyServicesProofs ------------------------
(***************************************************************************)
(* The services of the legacy kernel, for every value of the constants:    *)
(*                                                                         *)
(*   - task services: the wiring of the tasks, for every number of tasks   *)
(*     that fits the tables and every place of the GDT and TSS allocators' *)
(*     starts.  The inductive invariant gives every pointer and every      *)
(*     entry in closed form: the t-th task has the t-th slot of each table;*)
(*   - video services and clock: the screen, for every size of the page.   *)
(*     The inductive invariant follows the program of a call: at each      *)
(*     instruction, what it has loaded, what a tick has made of it, and    *)
(*     what its last service has left to do;                               *)
(*   - keyboard: the handler and the loop that polls it, for every set of  *)
(*     keys and every number of events.                                    *)
(*                                                                         *)
(* The three share no state; each theorem is about one of them.            *)
(***************************************************************************)
EXTENDS LegacyTasks, LegacyVideo, LegacyKeyboard,
        FiniteSetTheorems, SequenceTheorems, TLAPS

(* The task services.                                                      *)

tasks == Len(created)

GdtAt(t) == GdtStart + 8 * (t - 1)
TssAt(t) == TssStart + 128 * (t - 1)
IdtAt(t) == IDT_FIRST + 8 * (t - 1)
BaseAt(t) == BASE_FIRST + 4 * (t - 1)
CodeAt(t) == LDT + 16 * t
DataAt(t) == LDT + 16 * t + 8

Program == [base : Nat, code : Nat, data : Nat]

History == created \in Seq(Program) /\ tasks <= MaxTasks

Pointers ==
  /\ p_gdt = GdtAt(tasks + 1) /\ p_tss = TssAt(tasks + 1)
  /\ p_ldt = CodeAt(tasks + 1)
  /\ p_idt = IdtAt(tasks + 1) /\ p_base = BaseAt(tasks + 1)

Domains ==
  /\ DOMAIN gdt = GdtSlots /\ gdt = [a \in GdtSlots |-> gdt[a]]
  /\ DOMAIN tss = TssSlots /\ tss = [a \in TssSlots |-> tss[a]]
  /\ DOMAIN ldt = LdtSlots /\ ldt = [a \in LdtSlots |-> ldt[a]]
  /\ DOMAIN idt = IdtSlots /\ idt = [a \in IdtSlots |-> idt[a]]
  /\ DOMAIN base = BaseSlots /\ base = [a \in BaseSlots |-> base[a]]

Entry(t) ==
  /\ gdt[GdtAt(t)] = TssAt(t)
  /\ idt[IdtAt(t)] = GdtAt(t) - GDT
  /\ tss[TssAt(t)] = [cs |-> 16 * t + 7, ds |-> 16 * t + 15]
  /\ ldt[CodeAt(t)] = Segment(created[t].base, created[t].code)
  /\ ldt[DataAt(t)] = Segment(created[t].base, created[t].data)
  /\ base[BaseAt(t)] = created[t].base

Entries == \A t \in 1 .. tasks : Entry(t)

Result == loaded.task \in 0 .. tasks /\ LoadsOwnBase

TasksInv == History /\ Pointers /\ Domains /\ Entries /\ Result

(* Every task up to the bound has a slot in each table.                    *)
LEMMA InSlots ==
  ASSUME NEW t \in 1 .. MaxTasks
  PROVE  /\ GdtAt(t) \in GdtSlots /\ TssAt(t) \in TssSlots
         /\ IdtAt(t) \in IdtSlots /\ BaseAt(t) \in BaseSlots
         /\ CodeAt(t) \in LdtSlots /\ DataAt(t) \in LdtSlots
<1>1. MaxTasks \in Nat
  BY LayoutAssumption
<1>2. t - 1 \in Slots
  BY <1>1 DEF Slots
<1>3. 2 * (t - 1) \in 0 .. 2 * MaxTasks - 1
  BY <1>1
<1>4. 2 * (t - 1) + 1 \in 0 .. 2 * MaxTasks - 1
  BY <1>1
<1>5. CodeAt(t) = LDT_FIRST + 8 * (2 * (t - 1))
  BY <1>1 DEF CodeAt, LDT_FIRST, LDT
<1>6. DataAt(t) = LDT_FIRST + 8 * (2 * (t - 1) + 1)
  BY <1>1 DEF DataAt, LDT_FIRST, LDT
<1>7. CodeAt(t) \in LdtSlots
  BY <1>3, <1>5 DEF LdtSlots
<1>8. DataAt(t) \in LdtSlots
  BY <1>4, <1>6 DEF LdtSlots
<1> QED BY <1>2, <1>7, <1>8 DEF GdtAt, TssAt, IdtAt, BaseAt, GdtSlots, TssSlots,
             IdtSlots, BaseSlots

(* No task, every pointer at the start of its table.                       *)
LEMMA InitTasksInv == Init => TasksInv
<1> SUFFICES ASSUME Init PROVE TasksInv
  OBVIOUS
<1>1. created = << >> /\ tasks = 0
  BY DEF Init, tasks
<1>2. History
  BY <1>1, LayoutAssumption DEF History
<1>3. Pointers
  BY <1>1, LayoutAssumption DEF Init, Pointers, GdtAt, TssAt, IdtAt, BaseAt,
     CodeAt, LDT_FIRST, LDT, IDT_FIRST, BASE_FIRST
<1>4. Domains
  BY DEF Init, Domains
<1>5. Entries
  BY <1>1 DEF Entries
<1>6. Result
  BY <1>1 DEF Init, Result, LoadsOwnBase, NoLoad
<1> QED BY <1>2, <1>3, <1>4, <1>5, <1>6 DEF TasksInv

(* A creation fills the next slot of each table and leaves the others.     *)
LEMMA CreateTasksInv ==
  ASSUME TasksInv, tasks < MaxTasks,
         NEW p \in Programs[tasks + 1], creat_task(p)
  PROVE  TasksInv'
<1>1. tasks \in Nat /\ created \in Seq(Program) /\ MaxTasks \in Nat
  BY LayoutAssumption DEF TasksInv, History, tasks
<1>2. tasks + 1 \in 1 .. MaxTasks
  BY <1>1
<1>3. p \in Program
  BY <1>2, ProgramAssumption DEF Program
<1>4. /\ created' = Append(created, p) /\ tasks' = tasks + 1
      /\ created'[tasks + 1] = p
      /\ \A t \in 1 .. tasks : created'[t] = created[t]
  BY <1>1, <1>3 DEF creat_task, tasks
<1>5. History'
  BY <1>1, <1>2, <1>3, <1>4 DEF History
<1>6. Pointers'
  <2>1. GdtStart \in Nat /\ TssStart \in Nat
    BY LayoutAssumption
  <2>2. /\ p_gdt' = p_gdt + 8 /\ p_tss' = p_tss + 128 /\ p_ldt' = p_ldt + 16
        /\ p_idt' = p_idt + 8 /\ p_base' = p_base + 4
    BY <1>1 DEF TasksInv, Pointers, creat_task, ldt_creat, CodeAt, LDT
  <2>3. Pointers
    BY DEF TasksInv
  <2>4. tasks \in Nat /\ tasks' = tasks + 1
    BY <1>1, <1>4
  <2> QED BY <2>1, <2>2, <2>3, <2>4
          DEF Pointers, GdtAt, TssAt, IdtAt, BaseAt, CodeAt, LDT, IDT_FIRST,
              BASE_FIRST
<1>7. /\ gdt' = [gdt EXCEPT ![GdtAt(tasks + 1)] = TssAt(tasks + 1)]
      /\ base' = [base EXCEPT ![BaseAt(tasks + 1)] = p.base]
  BY DEF creat_task, TasksInv, Pointers
<1>8. idt' = [idt EXCEPT ![IdtAt(tasks + 1)] = GdtAt(tasks + 1) - GDT]
  <2>1. p_gdt' - (GDT + 8) = GdtAt(tasks + 1) - GDT
    BY <1>1, LayoutAssumption DEF creat_task, TasksInv, Pointers, GdtAt, GDT
  <2>2. /\ idt' = [idt EXCEPT ![p_idt] = p_gdt' - (GDT + 8)]
        /\ p_idt = IdtAt(tasks + 1)
    BY DEF creat_task, TasksInv, Pointers
  <2> QED BY <2>1, <2>2
<1>9. tss' = [tss EXCEPT ![TssAt(tasks + 1)] =
                [cs |-> 16 * (tasks + 1) + 7, ds |-> 16 * (tasks + 1) + 15]]
  <2>1. /\ Selector(p_ldt) = 16 * (tasks + 1) + 7
        /\ Selector(p_ldt) + 8 = 16 * (tasks + 1) + 15
    BY <1>1 DEF TasksInv, Pointers, Selector, CodeAt, LDT
  <2> QED BY <2>1 DEF creat_task, tss_creat, TasksInv, Pointers
<1>10. ldt' = [ldt EXCEPT ![CodeAt(tasks + 1)] = Segment(p.base, p.code),
                          ![DataAt(tasks + 1)] = Segment(p.base, p.data)]
  <2>1. p_ldt = CodeAt(tasks + 1) /\ p_ldt + 8 = DataAt(tasks + 1)
    BY <1>1 DEF TasksInv, Pointers, CodeAt, DataAt, LDT
  <2> QED BY <2>1 DEF creat_task, ldt_creat
<1>11. Domains'
  BY <1>7, <1>8, <1>9, <1>10 DEF Domains, TasksInv
<1>12. ASSUME NEW t \in 1 .. tasks + 1
       PROVE  Entry(t)'
  <2> /\ GdtStart \in Nat /\ TssStart \in Nat
    BY LayoutAssumption
  <2>1. t \in 1 .. MaxTasks
    BY <1>1, <1>2
  <2>2. /\ GdtAt(t) \in DOMAIN gdt /\ TssAt(t) \in DOMAIN tss
        /\ IdtAt(t) \in DOMAIN idt /\ BaseAt(t) \in DOMAIN base
        /\ CodeAt(t) \in DOMAIN ldt /\ DataAt(t) \in DOMAIN ldt
    BY <2>1, InSlots DEF TasksInv, Domains
  <2>3. CodeAt(t) # DataAt(tasks + 1) /\ CodeAt(tasks + 1) # DataAt(t)
    BY <1>1 DEF CodeAt, DataAt, LDT
  <2>4. CASE t = tasks + 1
    <3>1. gdt'[GdtAt(t)] = TssAt(t)
      BY <1>7, <2>2, <2>4
    <3>2. idt'[IdtAt(t)] = GdtAt(t) - GDT
      BY <1>8, <2>2, <2>4
    <3>3. tss'[TssAt(t)] = [cs |-> 16 * t + 7, ds |-> 16 * t + 15]
      BY <1>9, <2>2, <2>4
    <3>4. /\ ldt'[CodeAt(t)] = Segment(p.base, p.code)
          /\ ldt'[DataAt(t)] = Segment(p.base, p.data)
      BY <1>10, <2>2, <2>3, <2>4
    <3>5. base'[BaseAt(t)] = p.base
      BY <1>7, <2>2, <2>4
    <3> QED BY <1>4, <2>4, <3>1, <3>2, <3>3, <3>4, <3>5
            DEF Entry, GdtAt, TssAt, IdtAt, BaseAt, CodeAt, DataAt
  <2>5. CASE t # tasks + 1
    <3>1. t \in 1 .. tasks
      BY <1>1, <2>5
    <3>2. Entry(t) /\ created'[t] = created[t]
      BY <1>4, <3>1 DEF TasksInv, Entries
    <3>3. /\ GdtAt(t) # GdtAt(tasks + 1) /\ TssAt(t) # TssAt(tasks + 1)
          /\ IdtAt(t) # IdtAt(tasks + 1) /\ BaseAt(t) # BaseAt(tasks + 1)
          /\ CodeAt(t) # CodeAt(tasks + 1) /\ DataAt(t) # DataAt(tasks + 1)
      BY <1>1, <2>5 DEF GdtAt, TssAt, IdtAt, BaseAt, CodeAt, DataAt, LDT,
         IDT_FIRST, BASE_FIRST
    <3>4. gdt'[GdtAt(t)] = gdt[GdtAt(t)] /\ base'[BaseAt(t)] = base[BaseAt(t)]
      BY <1>7, <2>2, <3>3
    <3>5. idt'[IdtAt(t)] = idt[IdtAt(t)]
      BY <1>8, <2>2, <3>3
    <3>6. tss'[TssAt(t)] = tss[TssAt(t)]
      BY <1>9, <2>2, <3>3
    <3>7. ldt'[CodeAt(t)] = ldt[CodeAt(t)] /\ ldt'[DataAt(t)] = ldt[DataAt(t)]
      BY <1>10, <2>2, <2>3, <3>3
    <3> QED BY <3>2, <3>4, <3>5, <3>6, <3>7
            DEF Entry, GdtAt, TssAt, IdtAt, BaseAt, CodeAt, DataAt
  <2> QED BY <2>4, <2>5
<1>13. Entries'
  BY <1>4, <1>12 DEF Entries
<1>14. Result'
  <2>1. loaded' = loaded
    BY DEF creat_task
  <2>2. loaded.task \in 0 .. tasks /\ LoadsOwnBase
    BY DEF TasksInv, Result
  <2>3. loaded'.task \in 0 .. tasks'
    BY <1>1, <1>4, <2>1, <2>2
  <2>4. ASSUME loaded'.task \in 1 .. 15
        PROVE  loaded'.value = created'[loaded'.task].base
    <3>1. loaded.task \in 1 .. 15
      BY <2>1, <2>4
    <3>2. loaded.task \in 0 .. tasks
      BY <2>2
    <3>3. tasks \in Nat
      BY <1>1
    <3>4. loaded.task \in 1 .. tasks
      BY ONLY <3>1, <3>2, <3>3
    <3>5. loaded.value = created[loaded.task].base
      BY <2>2, <3>1 DEF LoadsOwnBase
    <3> QED BY <1>4, <2>1, <3>4, <3>5
  <2> QED BY <2>3, <2>4 DEF Result, LoadsOwnBase
<1> QED BY <1>5, <1>6, <1>11, <1>13, <1>14 DEF TasksInv

(* From the gate of a task to its TSS.                                     *)
LEMMA GateLeadsToTss ==
  ASSUME TasksInv, NEW t \in 1 .. tasks
  PROVE  /\ GDT + GateOf(t) = GdtAt(t)
         /\ TssOf(t) = [cs |-> 16 * t + 7, ds |-> 16 * t + 15]
<1>1. tasks \in Nat /\ GdtStart \in Nat
  BY LayoutAssumption DEF TasksInv, History, tasks
<1>2. Entry(t)
  BY DEF TasksInv, Entries
<1>3. GateOf(t) = GdtAt(t) - GDT
  BY <1>2 DEF Entry, GateOf, IdtAt
<1>4. GDT + GateOf(t) = GdtAt(t)
  BY <1>1, <1>3 DEF GdtAt, GDT
<1> QED BY <1>2, <1>4 DEF Entry, TssOf

(* LOAD_BASE loads the entry its gate leads to, and changes no table.      *)
LEMMA LoadTasksInv ==
  ASSUME TasksInv, NEW t \in 1 .. tasks, LOAD_BASE(t)
  PROVE  TasksInv'
<1>1. tasks \in Nat /\ tasks <= MaxTasks /\ MaxTasks \in Nat
  BY LayoutAssumption DEF TasksInv, History, tasks
<1>2. UNCHANGED <<allocators, tables, created>> /\ tasks' = tasks
  BY DEF LOAD_BASE, tasks
<1>3. TssOf(t).ds = 16 * t + 15
  BY GateLeadsToTss
<1>4. ASSUME t <= 15
      PROVE  loaded'.value = created[t].base
  <2>1. (16 * t + 15) % 256 = 16 * t + 15 /\ (16 * t + 15) % 8 = 7
    BY <1>1, <1>4
  <2>2. (16 * t + 8) \div 16 = t
    BY <1>1, <1>4
  <2>3. BaseAddress(TssOf(t).ds) = BaseAt(t)
    BY <1>1, <1>3, <2>1, <2>2 DEF BaseAddress, BaseAt
  <2>4. BaseAt(t) \in BaseSlots
    BY <1>1, InSlots
  <2>5. base[BaseAt(t)] = created[t].base
    BY DEF TasksInv, Entries, Entry
  <2> QED BY <2>3, <2>4, <2>5 DEF LOAD_BASE
<1>5. loaded'.task = t
  BY DEF LOAD_BASE
<1>6. Result'
  BY <1>1, <1>2, <1>4, <1>5 DEF Result, LoadsOwnBase
<1>7. History' /\ Pointers' /\ Domains' /\ Entries'
  BY <1>2
  DEF TasksInv, History, Pointers, Domains, Entries, Entry, GdtAt, TssAt,
      IdtAt, BaseAt, CodeAt, DataAt, allocators, tables
<1> QED BY <1>6, <1>7 DEF TasksInv

(* The invariant of the tables is inductive.                               *)
LEMMA NextTasksInv == TasksInv /\ [Next]_vars => TasksInv'
<1> SUFFICES ASSUME TasksInv, [Next]_vars PROVE TasksInv'
  OBVIOUS
<1>1. CASE UNCHANGED vars
  BY <1>1
  DEF vars, TasksInv, History, Pointers, Domains, Entries, Entry, Result,
      LoadsOwnBase, tasks, GdtAt, TssAt, IdtAt, BaseAt, CodeAt, DataAt,
      allocators, tables
<1>2. CASE Next
  BY <1>2, CreateTasksInv, LoadTasksInv DEF Next, tasks
<1> QED BY <1>1, <1>2

(* It says more than the wiring: where the slots are.                      *)
LEMMA TasksInvWired == TasksInv => Wired
<1> SUFFICES ASSUME TasksInv, NEW t \in 1 .. tasks
             PROVE  /\ GDT + GateOf(t) \in GdtSlots
                    /\ gdt[GDT + GateOf(t)] \in TssSlots
                    /\ LdtEntry(TssOf(t).cs) \in LdtSlots
                    /\ LdtEntry(TssOf(t).ds) \in LdtSlots
                    /\ ldt[LdtEntry(TssOf(t).cs)] =
                         Segment(created[t].base, created[t].code)
                    /\ ldt[LdtEntry(TssOf(t).ds)] =
                         Segment(created[t].base, created[t].data)
  BY DEF Wired, tasks
<1>1. tasks \in Nat /\ tasks <= MaxTasks /\ MaxTasks \in Nat
  BY LayoutAssumption DEF TasksInv, History, tasks
<1>2. Entry(t)
  BY DEF TasksInv, Entries
<1>3. /\ GDT + GateOf(t) = GdtAt(t)
      /\ TssOf(t).cs = 16 * t + 7 /\ TssOf(t).ds = 16 * t + 15
  BY GateLeadsToTss
<1>4. (16 * t + 7) % 8 = 7 /\ (16 * t + 15) % 8 = 7
  BY <1>1
<1>5. LdtEntry(TssOf(t).cs) = CodeAt(t) /\ LdtEntry(TssOf(t).ds) = DataAt(t)
  BY <1>1, <1>3, <1>4 DEF LdtEntry, CodeAt, DataAt, LDT
<1>6. t \in 1 .. MaxTasks
  BY <1>1
<1> QED BY <1>2, <1>3, <1>5, <1>6, InSlots DEF Entry

(* Whatever programs are created in whatever number the tables hold, every *)
(* gate leads to the program it was created for.                           *)
THEOREM TasksWired == Spec => []Wired
<1> QED BY InitTasksInv, NextTasksInv, TasksInvWired, PTL DEF Spec

(* The first fifteen tasks get their own base, wherever the tables start.  *)
THEOREM FirstTasksLoadOwnBase == Spec => []LoadsOwnBase
<1>1. TasksInv => LoadsOwnBase
  BY DEF TasksInv, Result
<1> QED BY <1>1, InitTasksInv, NextTasksInv, PTL DEF Spec

(* What the tables hold, slot by slot: a creation writes addresses and     *)
(* selectors that are inside their tables, a load reads an entry or 0.     *)
Typed ==
  /\ gdt \in [GdtSlots -> 0 .. WORD]
  /\ tss \in [TssSlots -> [cs : 0 .. LDT_SIZE, ds : 0 .. LDT_SIZE]]
  /\ ldt \in [LdtSlots -> [base : Nat, limit : 0 .. WORD - 1]]
  /\ idt \in [IdtSlots -> 0 .. GDT_SIZE]
  /\ base \in [BaseSlots -> Nat]
  /\ loaded \in [task : 0 .. tasks, value : Nat]

(* The types at the start.                                                 *)
LEMMA InitTyped == Init => Typed
<1> SUFFICES ASSUME Init PROVE Typed
  OBVIOUS
<1>1. tasks = 0
  BY DEF Init, tasks
<1>2. loaded \in [task : 0 .. tasks, value : Nat]
  BY <1>1 DEF Init, NoLoad
<1>3. gdt \in [GdtSlots -> 0 .. WORD] /\ idt \in [IdtSlots -> 0 .. GDT_SIZE]
  BY DEF Init, EMPTY, WORD, GDT_SIZE
<1>4. tss \in [TssSlots -> [cs : 0 .. LDT_SIZE, ds : 0 .. LDT_SIZE]]
  BY DEF Init, NoTss, LDT_SIZE
<1>5. ldt \in [LdtSlots -> [base : Nat, limit : 0 .. WORD - 1]]
  BY DEF Init, NoSegment, WORD
<1>6. base \in [BaseSlots -> Nat]
  BY DEF Init, EMPTY
<1> QED BY <1>2, <1>3, <1>4, <1>5, <1>6 DEF Typed

(* An interval by its ends.                                                *)
LEMMA InInterval ==
  ASSUME NEW low \in Int, NEW high \in Int, NEW x \in Int, low <= x, x <= high
  PROVE  x \in low .. high
OBVIOUS

(* A limit fits its word.                                                  *)
LEMMA SegmentType ==
  ASSUME NEW b \in Nat, NEW size \in Nat
  PROVE  Segment(b, size) \in [base : Nat, limit : 0 .. WORD - 1]
<1> DEFINE last == (size - 1) % WORD
<1>1. /\ (size - 1) % 65536 \in Int /\ 0 <= (size - 1) % 65536
      /\ (size - 1) % 65536 <= 65536 - 1
  OBVIOUS
<1>2. last \in Int /\ 0 <= last /\ last <= WORD - 1 /\ WORD - 1 \in Int
  BY <1>1 DEF WORD
<1>3. Segment(b, size) = [base |-> b, limit |-> last]
  BY DEF Segment
<1> HIDE DEF last
<1>4. last \in 0 .. WORD - 1
  BY <1>2, InInterval
<1> QED BY <1>3, <1>4

(* creat_task writes the slots of one task, with values of their type.     *)
LEMMA CreateTyped ==
  ASSUME TasksInv, Typed, tasks < MaxTasks,
         NEW p \in Programs[tasks + 1], creat_task(p)
  PROVE  Typed'
<1>1. tasks \in Nat /\ MaxTasks \in Nat /\ tasks + 1 <= MaxTasks
  BY LayoutAssumption DEF TasksInv, History, tasks
<1>2. p \in Program
  BY <1>1, ProgramAssumption DEF Program
<1>3. tasks' = tasks + 1 /\ loaded' = loaded
  BY <1>1, <1>2 DEF creat_task, tasks, TasksInv, History
<1>4. /\ gdt' = [gdt EXCEPT ![p_gdt] = p_tss]
      /\ base' = [base EXCEPT ![p_base] = p.base]
      /\ idt' = [idt EXCEPT ![p_idt] = p_gdt' - (GDT + 8)]
      /\ p_gdt' = p_gdt + 8
  BY DEF creat_task
<1>5. /\ p_tss = TssStart + 128 * tasks /\ p_gdt = GdtStart + 8 * tasks
      /\ p_ldt = LDT + 16 * (tasks + 1)
  BY <1>1 DEF TasksInv, Pointers, GdtAt, TssAt, CodeAt
<1>6. gdt' \in [GdtSlots -> 0 .. WORD]
  <2>1. TssStart \in Nat /\ TssStart + 128 * MaxTasks <= 65536
    BY LayoutAssumption DEF WORD
  <2>2. /\ p_tss \in Int /\ 0 <= p_tss /\ p_tss <= WORD /\ WORD \in Int
    BY <1>1, <1>5, <2>1 DEF WORD
  <2>3. p_tss \in 0 .. WORD
    BY <2>2, InInterval
  <2> QED BY <1>4, <2>3 DEF Typed
<1>7. idt' \in [IdtSlots -> 0 .. GDT_SIZE]
  <2>1. p_gdt' - (GDT + 8) \in 0 .. GDT_SIZE
    BY <1>1, <1>4, <1>5, LayoutAssumption DEF GDT, GDT_SIZE
  <2> QED BY <1>4, <2>1 DEF Typed
<1>8. tss' \in [TssSlots -> [cs : 0 .. LDT_SIZE, ds : 0 .. LDT_SIZE]]
  <2>1. /\ Selector(p_ldt) \in 0 .. LDT_SIZE
        /\ Selector(p_ldt) + 8 \in 0 .. LDT_SIZE
    BY <1>1, <1>5, LayoutAssumption DEF Selector, LDT, LDT_FIRST, LDT_SIZE
  <2>2. [cs |-> Selector(p_ldt), ds |-> Selector(p_ldt) + 8]
          \in [cs : 0 .. LDT_SIZE, ds : 0 .. LDT_SIZE]
    BY <2>1
  <2>3. tss' = [tss EXCEPT ![p_tss] =
                  [cs |-> Selector(p_ldt), ds |-> Selector(p_ldt) + 8]]
    BY DEF creat_task, tss_creat
  <2> QED BY <2>2, <2>3 DEF Typed
<1>9. ldt' \in [LdtSlots -> [base : Nat, limit : 0 .. WORD - 1]]
  <2>1. /\ Segment(p.base, p.code) \in [base : Nat, limit : 0 .. WORD - 1]
        /\ Segment(p.base, p.data) \in [base : Nat, limit : 0 .. WORD - 1]
    BY <1>2, SegmentType DEF Program
  <2>2. ldt' = [ldt EXCEPT ![p_ldt] = Segment(p.base, p.code),
                           ![p_ldt + 8] = Segment(p.base, p.data)]
    BY DEF creat_task, ldt_creat
  <2> QED BY <2>1, <2>2 DEF Typed
<1>10. base' \in [BaseSlots -> Nat]
  <2>1. p.base \in Nat
    BY <1>2 DEF Program
  <2> QED BY <1>4, <2>1 DEF Typed
<1>11. loaded' \in [task : 0 .. tasks', value : Nat]
  BY <1>1, <1>3 DEF Typed
<1> QED BY <1>6, <1>7, <1>8, <1>9, <1>10, <1>11 DEF Typed

(* LOAD_BASE changes the loaded task only.                                 *)
LEMMA LoadTyped ==
  ASSUME TasksInv, Typed, NEW t \in 1 .. tasks, LOAD_BASE(t)
  PROVE  Typed'
<1> DEFINE at == BaseAddress(TssOf(t).ds)
<1>1. tasks \in Nat /\ tasks' = tasks
  BY DEF LOAD_BASE, TasksInv, History, tasks
<1>2. /\ loaded' = [task |-> t,
                    value |-> IF at \in BaseSlots THEN base[at] ELSE EMPTY]
      /\ UNCHANGED tables
  BY DEF LOAD_BASE
<1> HIDE DEF at
<1>3. (IF at \in BaseSlots THEN base[at] ELSE EMPTY) \in Nat
  BY DEF Typed, EMPTY
<1>4. loaded' \in [task : 0 .. tasks, value : Nat]
  BY <1>1, <1>2, <1>3
<1> QED BY <1>1, <1>2, <1>4 DEF Typed, tables

(* The allocators stay inside their tables, and what the services write    *)
(* there fits: as long as no more than MaxTasks tasks are created.         *)
THEOREM TypeCorrect == Spec => []TypeOK
<1>1. TasksInv /\ Typed /\ [Next]_vars => Typed'
  <2> SUFFICES ASSUME TasksInv, Typed, [Next]_vars PROVE Typed'
    OBVIOUS
  <2>1. CASE UNCHANGED vars
    BY <2>1 DEF vars, tables, Typed, tasks
  <2>2. CASE Next
    BY <2>2, CreateTyped, LoadTyped DEF Next, tasks
  <2> QED BY <2>1, <2>2
<1>2. TasksInv /\ Typed => TypeOK
  <2> SUFFICES ASSUME TasksInv, Typed PROVE TypeOK
    OBVIOUS
  <2>1. /\ tasks \in Nat /\ tasks <= MaxTasks /\ MaxTasks \in Nat
        /\ created \in Seq([base : Nat, code : Nat, data : Nat])
    BY LayoutAssumption DEF TasksInv, History, Program, tasks
  <2>2. GdtStart \in Nat /\ TssStart \in Nat
    BY LayoutAssumption
  <2>3. /\ p_gdt = GdtStart + 8 * tasks /\ p_tss = TssStart + 128 * tasks
        /\ p_ldt = LDT + 16 * (tasks + 1) /\ p_idt = IDT_FIRST + 8 * tasks
        /\ p_base = BASE_FIRST + 4 * tasks
    BY <2>1 DEF TasksInv, Pointers, GdtAt, TssAt, CodeAt, IdtAt, BaseAt
  <2>4. /\ p_gdt \in GdtStart .. GdtStart + 8 * MaxTasks
        /\ p_tss \in TssStart .. TssStart + 128 * MaxTasks
        /\ p_base \in BASE_FIRST .. BASE_FIRST + 4 * MaxTasks
    BY <2>1, <2>2, <2>3 DEF BASE_FIRST
  <2>5. p_ldt \in LDT_FIRST .. LDT + LDT_SIZE /\ p_idt \in IDT_FIRST .. IDT_END
    BY <2>1, <2>3, LayoutAssumption
       DEF LDT, LDT_FIRST, LDT_SIZE, IDT_FIRST, IDT_END
  <2> QED BY <2>1, <2>4, <2>5 DEF TypeOK, Typed, tasks
<1> QED BY <1>1, <1>2, InitTasksInv, NextTasksInv, InitTyped, PTL DEF Spec

-----------------------------------------------------------------------------
(* The video services and the clock: what the variables hold.              *)
Attributes == Colors \cup {CLOCK_COLOR}

Types ==
  /\ vram = [c \in Cells |-> vram[c]]
  /\ cursor \in 0 .. TextEnd
  /\ line \in Seq(Characters \X Attributes)
  /\ start \in Int
  /\ color \in Attributes
  /\ time \in Times \cup {-1}
  /\ exact \in BOOLEAN /\ struck \in BOOLEAN /\ lost \in BOOLEAN

(* What is on the screen: n characters of the line from the cell first on, *)
(* nothing from a cell to the end of the text, the time below it.          *)
Shows(n, first) ==
  \A i \in 1 .. n : first + i > 0 => vram[first + i - 1] = line[i]
Spells(n, first) ==
  \A i \in 1 .. n : first + i > 0 => vram[first + i - 1][1] = line[i][1]
Cleared(first) ==
  \A c \in Cells : c >= first /\ c < TextEnd => vram[c][1] \in {NUL, SPACE}
Frame ==
  \A c \in Cells : c >= TextEnd =>
    vram[c][1] = IF c \in ClockCells /\ time # -1 THEN 48 + time ELSE SPACE

(* What a program has done and has yet to do to the screen.                *)
Done ==
  /\ cursor = start + Len(line)
  /\ exact => Shows(Len(line), start) /\ Cleared(cursor)
ToType ==
  /\ Len(line) > 0 /\ line[Len(line)][2] = color
  /\ cursor = start + Len(line) - 1 /\ cursor < TextEnd
  /\ exact => Shows(Len(line) - 1, start) /\ Cleared(cursor)
ToErase ==
  /\ cursor = start + Len(line) + 1 /\ cursor > 0
  /\ exact => Shows(Len(line), start) /\ Cleared(cursor)
ToColor ==
  /\ cursor = start + Len(line) /\ crt = cursor
  /\ \A i \in 1 .. Len(line) : line[i][2] = color
  /\ exact => Spells(Len(line), start) /\ Cleared(cursor)
ToScroll ==
  /\ cursor = start + COLS + Len(line) /\ cursor = TextEnd
  /\ exact => Shows(Len(line), start + COLS)
ToClear ==
  /\ cursor = start + Len(line) /\ cursor = TextEnd - COLS
  /\ exact => Shows(Len(line), start)

(* Where in its program a call is, and what it has loaded.  A tick since   *)
(* then has left 0 in ah and in ecx, and an address in edi.                *)
At(program, registers) == rest = program /\ ready = registers
Number(n) == ah = (IF struck THEN 0 ELSE n) /\ (struck => ecx = 0)

AH(n) == Load("ah", n)
AL == Load("al", color)
ECX == Load("ecx", line[Len(line)][1])
EDI == Load("edi", TEXT_ROWS - 1)
Glyph == exact => ecx = line[Len(line)][1]
Colour == exact => al = color

Resting == Done /\ crt = cursor /\ At(<< >>, {}) /\ ~struck
Moving ==
  /\ Done
  /\ \/ At(<<AH(128), INT>>, {}) /\ ~struck
     \/ At(<<INT>>, {"ah"}) /\ Number(128)
Typing ==
  /\ ToType
  /\ \/ At(<<ECX, AL, AH(1), INT, AH(128), INT>>, {}) /\ ~struck
     \/ At(<<AL, ECX, AH(1), INT, AH(128), INT>>, {}) /\ ~struck
     \/ At(<<AL, AH(1), INT, AH(128), INT>>, {"ecx"}) /\ ~struck /\ Glyph
     \/ At(<<ECX, AH(1), INT, AH(128), INT>>, {"al"}) /\ ~struck /\ Colour
     \/ /\ At(<<AH(1), INT, AH(128), INT>>, {"ecx", "al"})
        /\ ~struck /\ Glyph /\ Colour
     \/ /\ At(<<INT, AH(128), INT>>, {"ecx", "al", "ah"})
        /\ Number(1) /\ Glyph /\ Colour
Erasing ==
  /\ ToErase
  /\ \/ At(<<AL, AH(3), INT, AH(128), INT>>, {}) /\ ~struck
     \/ At(<<AH(3), INT, AH(128), INT>>, {"al"}) /\ ~struck
     \/ At(<<INT, AH(128), INT>>, {"al", "ah"}) /\ Number(3)
Coloring ==
  /\ ToColor
  /\ \/ At(<<AL, AH(5), INT>>, {}) /\ ~struck
     \/ At(<<AH(5), INT>>, {"al"}) /\ ~struck /\ Colour
     \/ At(<<INT>>, {"al", "ah"}) /\ Number(5) /\ Colour
Scrolling ==
  /\ ToScroll
  /\ \/ At(<<AH(2), INT, AL, EDI, AH(4), INT, AH(128), INT>>, {}) /\ ~struck
     \/ At(<<INT, AL, EDI, AH(4), INT, AH(128), INT>>, {"ah"}) /\ Number(2)
Clearing ==
  /\ ToClear
  /\ \/ At(<<AL, EDI, AH(4), INT, AH(128), INT>>, {}) /\ ~struck
     \/ At(<<EDI, AH(4), INT, AH(128), INT>>, {"al"}) /\ ~struck
     \/ /\ At(<<AH(4), INT, AH(128), INT>>, {"al", "edi"})
        /\ edi = IF struck THEN Address(cursor) ELSE TEXT_ROWS - 1
     \/ /\ At(<<INT, AH(128), INT>>, {"al", "edi", "ah"})
        /\ \/ ~struck /\ ah = 4 /\ edi = TEXT_ROWS - 1
           \/ struck /\ ah = 4 /\ edi = Address(cursor)
           \/ struck /\ ah = 0 /\ ecx = 0

Position ==
  Resting \/ Moving \/ Typing \/ Erasing \/ Coloring \/ Scrolling \/ Clearing

(* A tick between the load of a number and its interrupt has struck; until *)
(* printf or clean_line runs away for it, the program is at one of these.  *)
ScreenInv ==
  /\ Types
  /\ lost => struck
  /\ struck => ~exact
  /\ ~lost => Frame /\ Position

-----------------------------------------------------------------------------
(* The page in numbers: its cells, its text and the last text row.         *)
LEMMA Page ==
  /\ COLS \in Nat /\ COLS > 0 /\ TextEnd \in Nat /\ TextEnd >= COLS
  /\ (TEXT_ROWS - 1) * COLS = TextEnd - COLS
  /\ ((TEXT_ROWS - 1) + 1) * COLS = TextEnd
  /\ \A c : c \in Cells <=> c \in Nat /\ c < TextEnd + 2 * COLS
<1>1. COLS \in Nat /\ COLS > 0 /\ TEXT_ROWS \in Nat /\ TEXT_ROWS > 0
  BY ScreenAssumption
<1>2. TEXT_ROWS * COLS \in Nat /\ (TEXT_ROWS - 1) * COLS \in Nat
  BY <1>1
<1>3. (TEXT_ROWS - 1) * COLS = TEXT_ROWS * COLS - COLS
  BY <1>1
<1>4. (TEXT_ROWS + 2) * COLS = TEXT_ROWS * COLS + 2 * COLS
  BY <1>1
<1>5. (TEXT_ROWS - 1) + 1 = TEXT_ROWS
  BY <1>1
<1>6. \A c : c \in Cells <=> c \in Nat /\ c < TextEnd + 2 * COLS
  BY <1>1, <1>2, <1>4 DEF Cells, TextEnd, ROWS
<1> QED BY <1>1, <1>2, <1>3, <1>5, <1>6 DEF TextEnd

(* The clock is below the text.                                            *)
LEMMA ClockBelow ==
  ASSUME NEW c \in ClockCells
  PROVE  c >= TextEnd
<1>1. PICK i \in 0 .. CLOCK_LEN - 1 : c = (ROWS - 1) * COLS + CLOCK_COL + i
  BY DEF ClockCells
<1>2. /\ COLS \in Nat /\ TEXT_ROWS \in Nat
      /\ CLOCK_COL \in Nat /\ CLOCK_LEN \in Nat
      /\ TEXT_ROWS * COLS \in Nat
  BY ScreenAssumption
<1>3. (ROWS - 1) * COLS = TEXT_ROWS * COLS + COLS
  BY <1>2 DEF ROWS
<1> QED BY <1>1, <1>2, <1>3 DEF TextEnd

(* An address on the page is not the number of a row.                      *)
LEMMA NoRow ==
  ASSUME NEW c \in Nat
  PROVE  ~(Address(c) < ROWS)
BY ScreenAssumption DEF Address, ROWS

(* The last text row is one of the screen's.                               *)
LEMMA LastRow == TEXT_ROWS - 1 < ROWS
BY ScreenAssumption DEF ROWS

-----------------------------------------------------------------------------
(* The programs, written out.                                              *)
LEMMA Three ==
  ASSUME NEW S, NEW s \in Seq(S), Len(s) = 3 PROVE s = <<s[1], s[2], s[3]>>
OBVIOUS

LEMMA Four ==
  ASSUME NEW S, NEW s \in Seq(S), Len(s) = 4
  PROVE  s = <<s[1], s[2], s[3], s[4]>>
OBVIOUS

LEMMA Five ==
  ASSUME NEW S, NEW s \in Seq(S), Len(s) = 5
  PROVE  s = <<s[1], s[2], s[3], s[4], s[5]>>
OBVIOUS

LEMMA Six ==
  ASSUME NEW S, NEW s \in Seq(S), Len(s) = 6
  PROVE  s = <<s[1], s[2], s[3], s[4], s[5], s[6]>>
OBVIOUS

LEMMA Eight ==
  ASSUME NEW S, NEW s \in Seq(S), Len(s) = 8
  PROVE  s = <<s[1], s[2], s[3], s[4], s[5], s[6], s[7], s[8]>>
OBVIOUS

(* Programs put together, written out.                                     *)
LEMMA OneTwo ==
  ASSUME NEW a, NEW b, NEW c
  PROVE  <<a>> \o <<b, c>> = <<a, b, c>>
<1> DEFINE S == {a, b, c}
           s == <<a>> \o <<b, c>>
<1>1. <<a>> \in Seq(S) /\ <<b, c>> \in Seq(S)
  OBVIOUS
<1>2. s \in Seq(S) /\ Len(s) = 3
  BY <1>1
<1>3. s[1] = a /\ s[2] = b /\ s[3] = c
  BY <1>1
<1> HIDE DEF s, S
<1>4. s = <<s[1], s[2], s[3]>>
  BY <1>2, Three
<1> QED BY <1>3, <1>4 DEF s

LEMMA TwoTwo ==
  ASSUME NEW a, NEW b, NEW c, NEW d
  PROVE  <<a, b>> \o <<c, d>> = <<a, b, c, d>>
<1> DEFINE S == {a, b, c, d}
           s == <<a, b>> \o <<c, d>>
<1>1. <<a, b>> \in Seq(S) /\ <<c, d>> \in Seq(S)
  OBVIOUS
<1>2. s \in Seq(S) /\ Len(s) = 4
  BY <1>1
<1>3. s[1] = a /\ s[2] = b /\ s[3] = c /\ s[4] = d
  BY <1>1
<1> HIDE DEF s, S
<1>4. s = <<s[1], s[2], s[3], s[4]>>
  BY <1>2, Four
<1> QED BY <1>3, <1>4 DEF s

LEMMA ThreeTwo ==
  ASSUME NEW a, NEW b, NEW c, NEW d, NEW e
  PROVE  <<a, b, c>> \o <<d, e>> = <<a, b, c, d, e>>
<1> DEFINE S == {a, b, c, d, e}
           s == <<a, b, c>> \o <<d, e>>
<1>1. <<a, b, c>> \in Seq(S) /\ <<d, e>> \in Seq(S)
  OBVIOUS
<1>2. s \in Seq(S) /\ Len(s) = 5
  BY <1>1
<1>3. s[1] = a /\ s[2] = b /\ s[3] = c /\ s[4] = d /\ s[5] = e
  BY <1>1
<1> HIDE DEF s, S
<1>4. s = <<s[1], s[2], s[3], s[4], s[5]>>
  BY <1>2, Five
<1> QED BY <1>3, <1>4 DEF s

LEMMA FourTwo ==
  ASSUME NEW a, NEW b, NEW c, NEW d, NEW e, NEW f
  PROVE  <<a, b, c, d>> \o <<e, f>> = <<a, b, c, d, e, f>>
<1> DEFINE S == {a, b, c, d, e, f}
           s == <<a, b, c, d>> \o <<e, f>>
<1>1. <<a, b, c, d>> \in Seq(S) /\ <<e, f>> \in Seq(S)
  OBVIOUS
<1>2. s \in Seq(S) /\ Len(s) = 6
  BY <1>1
<1>3. s[1] = a /\ s[2] = b /\ s[3] = c /\ s[4] = d /\ s[5] = e /\ s[6] = f
  BY <1>1
<1> HIDE DEF s, S
<1>4. s = <<s[1], s[2], s[3], s[4], s[5], s[6]>>
  BY <1>2, Six
<1> QED BY <1>3, <1>4 DEF s

LEMMA SixTwo ==
  ASSUME NEW a, NEW b, NEW c, NEW d, NEW e, NEW f, NEW g, NEW h
  PROVE  <<a, b, c, d, e, f>> \o <<g, h>> = <<a, b, c, d, e, f, g, h>>
<1> DEFINE S == {a, b, c, d, e, f, g, h}
           s == <<a, b, c, d, e, f>> \o <<g, h>>
<1>1. <<a, b, c, d, e, f>> \in Seq(S) /\ <<g, h>> \in Seq(S)
  OBVIOUS
<1>2. s \in Seq(S) /\ Len(s) = 8
  BY <1>1
<1>3. /\ s[1] = a /\ s[2] = b /\ s[3] = c /\ s[4] = d
      /\ s[5] = e /\ s[6] = f /\ s[7] = g /\ s[8] = h
  BY <1>1
<1> HIDE DEF s, S
<1>4. s = <<s[1], s[2], s[3], s[4], s[5], s[6], s[7], s[8]>>
  BY <1>2, Eight
<1> QED BY <1>3, <1>4 DEF s

(* back_space: clean_char, then set_cursor.                                *)
LEMMA BackSpaceProgram ==
  back_space = <<AL, AH(3), INT, AH(128), INT>>
<1>1. <<AL>> \o <<AH(3), INT>> = <<AL, AH(3), INT>>
  BY OneTwo
<1>2. <<AL, AH(3), INT>> \o <<AH(128), INT>> = <<AL, AH(3), INT, AH(128), INT>>
  BY ThreeTwo
<1>3. back_space = (<<AL>> \o <<AH(3), INT>>) \o <<AH(128), INT>>
  BY DEF back_space, Service, MOVE_CURSOR, AL, AH
<1> QED BY <1>1, <1>2, <1>3

(* A colour is set by one service.                                         *)
LEMMA SetColorProgram ==
  ASSUME NEW a
  PROVE  <<Load("al", a)>> \o Service(5) = <<Load("al", a), AH(5), INT>>
BY OneTwo DEF Service, AH

(* test_scolling: scrolling, clean_line, then set_cursor.                  *)
LEMMA ScrollProgram ==
  test_scolling = <<AH(2), INT, AL, EDI, AH(4), INT, AH(128), INT>>
<1>1. <<AH(2), INT>> \o <<AL, EDI>> = <<AH(2), INT, AL, EDI>>
  BY TwoTwo
<1>2. <<AH(2), INT, AL, EDI>> \o <<AH(4), INT>>
        = <<AH(2), INT, AL, EDI, AH(4), INT>>
  BY FourTwo
<1>3. <<AH(2), INT, AL, EDI, AH(4), INT>> \o <<AH(128), INT>>
        = <<AH(2), INT, AL, EDI, AH(4), INT, AH(128), INT>>
  BY SixTwo
<1>4. test_scolling
        = ((<<AH(2), INT>> \o <<AL, EDI>>) \o <<AH(4), INT>>)
            \o <<AH(128), INT>>
  BY DEF test_scolling, Service, MOVE_CURSOR, AL, AH, EDI
<1> QED BY <1>1, <1>2, <1>3, <1>4

(* type: one_char, its two operands in either order, then set_cursor.      *)
LEMMA TypeProgram ==
  ASSUME NEW s, NEW program \in type(s)
  PROVE  \/ program = <<Load("ecx", s), AL, AH(1), INT, AH(128), INT>>
         \/ program = <<AL, Load("ecx", s), AH(1), INT, AH(128), INT>>
<1> DEFINE S == {Load("ecx", s), Load("al", color)}
<1>1. PICK operands \in SetToSeqs(S) :
        program = operands \o Service(1) \o MOVE_CURSOR
  BY DEF type
<1>2. Load("ecx", s) # Load("al", color)
  BY DEF Load
<1>3. Cardinality(S) = 2
  <2>1. /\ IsFiniteSet({Load("ecx", s)}) /\ Cardinality({Load("ecx", s)}) = 1
        /\ Load("al", color) \notin {Load("ecx", s)}
    BY <1>2, FS_Singleton
  <2>2. Cardinality({Load("ecx", s)} \cup {Load("al", color)}) = 1 + 1
    BY <2>1, FS_AddElement
  <2>3. S = {Load("ecx", s)} \cup {Load("al", color)}
    OBVIOUS
  <2> QED BY <2>2, <2>3
<1>4. /\ operands \in [1 .. 2 -> S]
      /\ \A i, j \in 1 .. 2 : i # j => operands[i] # operands[j]
  BY <1>3 DEF SetToSeqs
<1>5. operands[1] \in S /\ operands[2] \in S /\ operands[1] # operands[2]
  <2>1. 1 \in 1 .. 2 /\ 2 \in 1 .. 2
    OBVIOUS
  <2> HIDE DEF S
  <2> QED BY <1>4, <2>1
<1>6. operands = <<operands[1], operands[2]>>
  BY <1>4
<1>7. \/ operands = <<Load("ecx", s), AL>>
      \/ operands = <<AL, Load("ecx", s)>>
  <2>1. \/ operands[1] = Load("ecx", s) /\ operands[2] = AL
        \/ operands[1] = AL /\ operands[2] = Load("ecx", s)
    BY <1>5, Zenon DEF AL
  <2> QED BY <1>6, <2>1, Zenon
<1>8. ASSUME NEW a, NEW b
      PROVE  (<<a, b>> \o <<AH(1), INT>>) \o <<AH(128), INT>>
               = <<a, b, AH(1), INT, AH(128), INT>>
  <2>1. <<a, b>> \o <<AH(1), INT>> = <<a, b, AH(1), INT>>
    BY TwoTwo
  <2>2. <<a, b, AH(1), INT>> \o <<AH(128), INT>>
          = <<a, b, AH(1), INT, AH(128), INT>>
    BY FourTwo
  <2> QED BY <2>1, <2>2
<1>9. program = (operands \o <<AH(1), INT>>) \o <<AH(128), INT>>
  BY <1>1 DEF Service, MOVE_CURSOR, AH
<1>10. CASE operands = <<Load("ecx", s), AL>>
  BY <1>8, <1>9, <1>10
<1>11. CASE operands = <<AL, Load("ecx", s)>>
  BY <1>8, <1>9, <1>11
<1> QED BY <1>7, <1>10, <1>11

-----------------------------------------------------------------------------
(* What the types say of the numbers.                                      *)
LEMMA TypesAre ==
  ASSUME Types
  PROVE  /\ cursor \in Nat /\ cursor <= TextEnd
         /\ Len(line) \in Nat /\ line \in Seq(Characters \X Attributes)
         /\ start \in Int
BY Page DEF Types

(* Between two calls the program is at rest.                               *)
LEMMA AtRest ==
  ASSUME Position, rest = << >>
  PROVE  Resting
BY DEF Position, Moving, Typing, Erasing, Coloring, Scrolling, Clearing, At

(* What the start of a call leaves alone.                                  *)
LEMMA BeginKeeps ==
  ASSUME NEW program, Begin(program)
  PROVE  /\ rest = << >> /\ rest' = program /\ ready' = ready
         /\ vram' = vram /\ cursor' = cursor /\ crt' = crt
         /\ ah' = ah /\ al' = al /\ ecx' = ecx /\ edi' = edi
         /\ time' = time /\ exact' = exact /\ struck' = struck /\ lost' = lost
         /\ Frame' = Frame
<1>1. /\ rest = << >> /\ rest' = program /\ ready' = ready
      /\ vram' = vram /\ cursor' = cursor /\ crt' = crt
      /\ ah' = ah /\ al' = al /\ ecx' = ecx /\ edi' = edi
      /\ time' = time /\ exact' = exact /\ struck' = struck /\ lost' = lost
  BY DEF Begin, screen, regs
<1> QED BY <1>1 DEF Frame

(* A key starts the program of one_char.                                   *)
LEMMA TypeScreenInv ==
  ASSUME ScreenInv, Type
  PROVE  ScreenInv'
<1>1. PICK s \in Characters :
        /\ \E program \in type(s) : Begin(program)
        /\ line' = Append(line, <<s, color>>)
  BY DEF Type
<1> PICK program \in type(s) : Begin(program)
  BY <1>1
<1>2. cursor < TextEnd /\ color' = color /\ start' = start
  BY DEF Type
<1>3. /\ rest = << >> /\ rest' = program /\ ready' = ready
      /\ vram' = vram /\ cursor' = cursor /\ crt' = crt
      /\ time' = time /\ exact' = exact /\ struck' = struck /\ lost' = lost
      /\ Frame' = Frame
  BY <1>1, BeginKeeps
<1>4. Types /\ Len(line) \in Nat /\ line \in Seq(Characters \X Attributes)
      /\ color \in Attributes /\ cursor \in Nat /\ start \in Int
  BY TypesAre DEF ScreenInv, Types
<1>5. /\ line' \in Seq(Characters \X Attributes)
      /\ Len(line') = Len(line) + 1
      /\ line'[Len(line')] = <<s, color>>
      /\ \A i \in 1 .. Len(line) : line'[i] = line[i]
  BY <1>1, <1>4
<1>6. Types'
  BY <1>2, <1>3, <1>4, <1>5 DEF Types
<1>7. ASSUME ~lost
      PROVE  Typing'
  <2>1. Resting
    BY <1>3, <1>7, AtRest DEF ScreenInv
  <2>2. ToType'
    <3>1. /\ Len(line') > 0 /\ line'[Len(line')][2] = color'
          /\ cursor' = start' + Len(line') - 1 /\ cursor' < TextEnd
      BY <1>2, <1>3, <1>4, <1>5, <2>1 DEF Resting, Done
    <3>2. Len(line') - 1 = Len(line)
      BY <1>4, <1>5
    <3>3. exact => Shows(Len(line) - 1, start)' /\ Cleared(cursor)'
      BY <1>2, <1>3, <1>5, <2>1, <3>2 DEF Resting, Done, Shows, Cleared
    <3> QED BY <1>3, <3>1, <3>2, <3>3 DEF ToType
  <2>3. AL' = AL /\ ECX' = Load("ecx", s)
    BY <1>2, <1>5 DEF AL, ECX
  <2>4. \/ program = <<Load("ecx", s), AL, AH(1), INT, AH(128), INT>>
        \/ program = <<AL, Load("ecx", s), AH(1), INT, AH(128), INT>>
    BY <1>1, TypeProgram
  <2>5. ready' = {} /\ ~struck'
    BY <1>3, <2>1 DEF Resting, At
  <2> QED BY <1>3, <2>2, <2>3, <2>4, <2>5 DEF Typing, At
<1> QED BY <1>3, <1>6, <1>7 DEF ScreenInv, Position

(* A backspace starts the program of clean_char.                           *)
LEMMA EraseScreenInv ==
  ASSUME ScreenInv, Erase
  PROVE  ScreenInv'
<1>1. Begin(back_space)
  BY DEF Erase
<1>2. /\ line # << >> /\ cursor > 0 /\ line' = Front(line)
      /\ color' = color /\ start' = start
  BY DEF Erase
<1>3. /\ rest = << >> /\ rest' = back_space /\ ready' = ready
      /\ vram' = vram /\ cursor' = cursor /\ crt' = crt
      /\ time' = time /\ exact' = exact /\ struck' = struck /\ lost' = lost
      /\ Frame' = Frame
  BY <1>1, BeginKeeps
<1>4. Types /\ Len(line) \in Nat /\ line \in Seq(Characters \X Attributes)
      /\ cursor \in Nat /\ start \in Int
  BY TypesAre DEF ScreenInv
<1>5. /\ line' \in Seq(Characters \X Attributes)
      /\ Len(line') = Len(line) - 1
      /\ \A i \in 1 .. Len(line') : line'[i] = line[i]
  <2>1. line' = SubSeq(line, 1, Len(line) - 1) /\ Len(line) - 1 \in Nat
    BY <1>2, <1>4 DEF Front
  <2> DEFINE n == Len(line) - 1
             front == SubSeq(line, 1, n)
  <2>2. n \in Nat /\ \A i \in 1 .. n : line[i] \in Characters \X Attributes
    BY <1>4, <2>1
  <2> HIDE DEF n
  <2>3. /\ front \in Seq(Characters \X Attributes)
        /\ Len(front) = IF 1 <= n THEN n - 1 + 1 ELSE 0
        /\ \A i \in 1 .. n - 1 + 1 : front[i] = line[1 + i - 1]
    BY <2>2, SubSeqProperties
  <2>4. Len(front) = n /\ n - 1 + 1 = n /\ \A i \in 1 .. n : 1 + i - 1 = i
    BY <2>2, <2>3
  <2>5. line' = front
    BY <2>1 DEF n
  <2> HIDE DEF front
  <2> QED BY <2>3, <2>4, <2>5 DEF n
<1>6. Types'
  BY <1>2, <1>3, <1>4, <1>5 DEF Types
<1>7. ASSUME ~lost
      PROVE  Erasing'
  <2>1. Resting
    BY <1>3, <1>7, AtRest DEF ScreenInv
  <2>2. ToErase'
    <3>1. cursor' = start' + Len(line') + 1 /\ cursor' > 0
      BY <1>2, <1>3, <1>4, <1>5, <2>1 DEF Resting, Done
    <3>2. 1 .. Len(line') \subseteq 1 .. Len(line)
      BY <1>4, <1>5
    <3>3. exact => Shows(Len(line), start)' /\ Cleared(cursor)'
      BY <1>2, <1>3, <1>5, <2>1, <3>2 DEF Resting, Done, Shows, Cleared
    <3> QED BY <1>3, <3>1, <3>3 DEF ToErase
  <2>3. AL' = AL
    BY <1>2 DEF AL
  <2>4. ready' = {} /\ ~struck'
    BY <1>3, <2>1 DEF Resting, At
  <2> QED BY <1>3, <2>2, <2>3, <2>4, BackSpaceProgram DEF Erasing, At
<1> QED BY <1>3, <1>6, <1>7 DEF ScreenInv, Position

(* A command for a colour starts the program of set_color.                 *)
LEMMA SetColorScreenInv ==
  ASSUME ScreenInv, SetColor
  PROVE  ScreenInv'
<1>1. PICK attribute \in Colors :
        /\ Begin(<<Load("al", attribute)>> \o Service(5))
        /\ color' = attribute
        /\ line' = [i \in DOMAIN line |-> <<line[i][1], attribute>>]
        /\ start' = start
  BY DEF SetColor
<1>2. <<Load("al", attribute)>> \o Service(5)
        = <<Load("al", attribute), AH(5), INT>>
  BY SetColorProgram
<1>3. /\ rest = << >> /\ rest' = <<Load("al", attribute), AH(5), INT>>
      /\ ready' = ready
      /\ vram' = vram /\ cursor' = cursor /\ crt' = crt
      /\ time' = time /\ exact' = exact /\ struck' = struck /\ lost' = lost
      /\ Frame' = Frame
  BY <1>1, <1>2, BeginKeeps
<1>4. Types /\ Len(line) \in Nat /\ line \in Seq(Characters \X Attributes)
      /\ cursor \in Nat /\ start \in Int
  BY TypesAre DEF ScreenInv
<1>5. /\ line' \in Seq(Characters \X Attributes)
      /\ Len(line') = Len(line)
      /\ \A i \in 1 .. Len(line) : line'[i] = <<line[i][1], attribute>>
  <2>1. attribute \in Attributes
    BY DEF Attributes
  <2>2. DOMAIN line = 1 .. Len(line)
    BY <1>4
  <2>3. \A i \in 1 .. Len(line) : line[i] \in Characters \X Attributes
    BY <1>4
  <2>4. line' = [i \in 1 .. Len(line) |-> <<line[i][1], attribute>>]
    BY <1>1, <2>2
  <2>5. \A i \in 1 .. Len(line) :
          <<line[i][1], attribute>> \in Characters \X Attributes
    BY <2>1, <2>3
  <2> QED BY <1>4, <2>4, <2>5
<1>6. Types'
  BY <1>1, <1>3, <1>4, <1>5 DEF Types, Attributes
<1>7. ASSUME ~lost
      PROVE  Coloring'
  <2>1. Resting
    BY <1>3, <1>7, AtRest DEF ScreenInv
  <2>2. ToColor'
    <3>1. cursor' = start' + Len(line') /\ crt' = cursor'
      BY <1>1, <1>3, <1>5, <2>1 DEF Resting, Done
    <3>2. \A i \in 1 .. Len(line') : line'[i][2] = color'
      BY <1>1, <1>5
    <3>3. exact => Shows(Len(line), start) /\ Cleared(cursor)
      BY <2>1 DEF Resting, Done
    <3>4. exact => Spells(Len(line), start)' /\ Cleared(cursor)'
      BY <1>1, <1>3, <1>5, <3>3 DEF Shows, Spells, Cleared
    <3> QED BY <1>3, <3>1, <3>2, <3>4 DEF ToColor
  <2>3. AL' = Load("al", attribute)
    BY <1>1 DEF AL
  <2>4. ready' = {} /\ ~struck'
    BY <1>3, <2>1 DEF Resting, At
  <2> QED BY <1>3, <2>2, <2>3, <2>4 DEF Coloring, At
<1> QED BY <1>3, <1>6, <1>7 DEF ScreenInv, Position

(* A cursor past the text starts the program of scrolling.                 *)
LEMMA ScrollScreenInv ==
  ASSUME ScreenInv, Scroll
  PROVE  ScreenInv'
<1>1. /\ Begin(test_scolling) /\ cursor = TextEnd
      /\ start' = start - COLS /\ color' = color /\ line' = line
  BY DEF Scroll
<1>2. /\ rest = << >> /\ rest' = test_scolling /\ ready' = ready
      /\ vram' = vram /\ cursor' = cursor /\ crt' = crt
      /\ time' = time /\ exact' = exact /\ struck' = struck /\ lost' = lost
      /\ Frame' = Frame
  BY <1>1, BeginKeeps
<1>3. Types /\ Len(line) \in Nat /\ start \in Int /\ COLS \in Nat
  BY TypesAre, Page DEF ScreenInv
<1>4. start' \in Int /\ start' + COLS = start
  BY <1>1, <1>3
<1>5. Types'
  BY <1>1, <1>2, <1>3, <1>4 DEF Types
<1>6. ASSUME ~lost
      PROVE  Scrolling'
  <2>1. Resting
    BY <1>2, <1>6, AtRest DEF ScreenInv
  <2>2. cursor = start + Len(line) /\ (exact => Shows(Len(line), start))
    BY <2>1 DEF Resting, Done
  <2>3. ToScroll'
    <3>1. cursor' = start' + COLS + Len(line') /\ cursor' = TextEnd
      BY <1>1, <1>2, <1>3, <1>4, <2>2
    <3>2. exact' => Shows(Len(line), start + COLS)'
      BY <1>1, <1>2, <1>4, <2>2 DEF Shows
    <3> QED BY <3>1, <3>2 DEF ToScroll
  <2>4. AL' = AL
    BY <1>1 DEF AL
  <2>5. ready' = {} /\ ~struck'
    BY <1>2, <2>1 DEF Resting, At
  <2> QED BY <1>2, <2>3, <2>4, <2>5, ScrollProgram DEF Scrolling, At
<1> QED BY <1>2, <1>5, <1>6 DEF ScreenInv, Position

-----------------------------------------------------------------------------
(* A step that leaves the text of the page and the cursor alone leaves all *)
(* that is said of them alone.                                             *)
TextKept ==
  /\ \A c \in Cells : c < TextEnd => vram'[c] = vram[c]
  /\ cursor' = cursor /\ crt' = crt /\ line' = line /\ start' = start
  /\ color' = color

(* What such a step leaves shown is what was.                              *)
LEMMA ShowsKept ==
  ASSUME TextKept, NEW n \in Nat, NEW first \in Int, first + n <= TextEnd
  PROVE  /\ Shows(n, first) =>
              \A i \in 1 .. n : first + i > 0 => vram'[first + i - 1] = line[i]
         /\ Spells(n, first) =>
              \A i \in 1 .. n :
                first + i > 0 => vram'[first + i - 1][1] = line[i][1]
<1>1. ASSUME NEW i \in 1 .. n, first + i > 0
      PROVE  vram'[first + i - 1] = vram[first + i - 1]
  <2>1. first + i - 1 \in Nat /\ first + i - 1 < TextEnd
    BY <1>1, Page
  <2>2. first + i - 1 \in Cells
    BY <2>1, Page
  <2> QED BY <2>1, <2>2 DEF TextKept
<1>2. Shows(n, first) =>
        \A i \in 1 .. n : first + i > 0 => vram'[first + i - 1] = line[i]
  BY <1>1 DEF Shows
<1>3. Spells(n, first) =>
        \A i \in 1 .. n :
          first + i > 0 => vram'[first + i - 1][1] = line[i][1]
  BY <1>1 DEF Spells
<1> QED BY <1>2, <1>3

(* So the work done and to be done is the same after it.                   *)
LEMMA ScreenKept ==
  ASSUME Types, TextKept, exact' => exact
  PROVE  /\ Done => Done'
         /\ ToType => ToType'
         /\ ToErase => ToErase'
         /\ ToColor => ToColor'
         /\ ToScroll => ToScroll'
         /\ ToClear => ToClear'
<1>1. /\ cursor \in Nat /\ cursor <= TextEnd
      /\ Len(line) \in Nat /\ start \in Int
      /\ COLS \in Nat /\ TextEnd \in Nat
  BY TypesAre, Page
<1>2. /\ cursor' = cursor /\ crt' = crt /\ line' = line /\ start' = start
      /\ color' = color
  BY DEF TextKept
<1>3. Cleared(cursor) => Cleared(cursor)'
  BY <1>2 DEF Cleared, TextKept
<1>4. Done => Done'
  <2> SUFFICES ASSUME Done PROVE Done'
    OBVIOUS
  <2>1. start + Len(line) <= TextEnd
    BY <1>1 DEF Done
  <2>2. Shows(Len(line), start) => Shows(Len(line), start)'
    BY <1>1, <1>2, <2>1, ShowsKept DEF Shows
  <2> QED BY <1>2, <1>3, <2>2 DEF Done
<1>5. ToType => ToType'
  <2> SUFFICES ASSUME ToType PROVE ToType'
    OBVIOUS
  <2>1. Len(line) - 1 \in Nat /\ start + (Len(line) - 1) <= TextEnd
    BY <1>1 DEF ToType
  <2>2. Shows(Len(line) - 1, start) => Shows(Len(line) - 1, start)'
    BY <1>1, <1>2, <2>1, ShowsKept DEF Shows
  <2> QED BY <1>2, <1>3, <2>2 DEF ToType
<1>6. ToErase => ToErase'
  <2> SUFFICES ASSUME ToErase PROVE ToErase'
    OBVIOUS
  <2>1. start + Len(line) <= TextEnd
    BY <1>1 DEF ToErase
  <2>2. Shows(Len(line), start) => Shows(Len(line), start)'
    BY <1>1, <1>2, <2>1, ShowsKept DEF Shows
  <2> QED BY <1>2, <1>3, <2>2 DEF ToErase
<1>7. ToColor => ToColor'
  <2> SUFFICES ASSUME ToColor PROVE ToColor'
    OBVIOUS
  <2>1. start + Len(line) <= TextEnd
    BY <1>1 DEF ToColor
  <2>2. Spells(Len(line), start) => Spells(Len(line), start)'
    BY <1>1, <1>2, <2>1, ShowsKept DEF Spells
  <2> QED BY <1>2, <1>3, <2>2 DEF ToColor
<1>8. ToScroll => ToScroll'
  <2> SUFFICES ASSUME ToScroll PROVE ToScroll'
    OBVIOUS
  <2>1. start + COLS \in Int /\ (start + COLS) + Len(line) <= TextEnd
    BY <1>1 DEF ToScroll
  <2>2. Shows(Len(line), start + COLS) => Shows(Len(line), start + COLS)'
    BY <1>1, <1>2, <2>1, ShowsKept DEF Shows
  <2> QED BY <1>2, <2>2 DEF ToScroll
<1>9. ToClear => ToClear'
  <2> SUFFICES ASSUME ToClear PROVE ToClear'
    OBVIOUS
  <2>1. start + Len(line) <= TextEnd
    BY <1>1 DEF ToClear
  <2>2. Shows(Len(line), start) => Shows(Len(line), start)'
    BY <1>1, <1>2, <2>1, ShowsKept DEF Shows
  <2> QED BY <1>2, <2>2 DEF ToClear
<1> QED BY <1>4, <1>5, <1>6, <1>7, <1>8, <1>9

-----------------------------------------------------------------------------
(* The clock.                                                              *)
LEMMA TickKeeps ==
  ASSUME Types, RTC
  PROVE  /\ TextKept /\ vram' = [c \in Cells |-> vram'[c]]
         /\ rest' = rest /\ ready' = ready /\ ~lost /\ ~lost'
         /\ exact' = (exact /\ ready = {})
<1>1. /\ rest' = rest /\ ready' = ready /\ ~lost /\ ~lost'
      /\ exact' = (exact /\ ready = {})
      /\ color' = color /\ line' = line /\ start' = start
  BY DEF RTC
<1>2. cursor' = cursor /\ crt' = crt
  BY DEF RTC, read_time, rtc_exit, screen
<1>3. /\ \A c \in Cells : c < TextEnd => vram'[c] = vram[c]
      /\ vram' = [c \in Cells |-> vram'[c]]
  <2>1. CASE \E t \in Times : read_time(t)
    <3>1. PICK t \in Times : read_time(t)
      BY <2>1
    <3>2. ASSUME NEW c \in Cells, c < TextEnd
          PROVE  vram'[c] = vram[c]
      <4>1. c \notin ClockCells
        BY <3>2, ClockBelow, Page
      <4> QED BY <3>1, <4>1 DEF read_time
    <3>3. vram' = [c \in Cells |-> vram'[c]]
      BY <3>1 DEF read_time
    <3> QED BY <3>2, <3>3
  <2>2. CASE rtc_exit
    <3>1. vram' = vram /\ vram = [c \in Cells |-> vram[c]]
      BY <2>2 DEF rtc_exit, screen, Types
    <3> HIDE <2>2
    <3>2. vram' = [c \in Cells |-> vram'[c]]
      BY <3>1, Zenon
    <3> QED BY <3>1, <3>2
  <2> QED BY <2>1, <2>2 DEF RTC
<1> QED BY <1>1, <1>2, <1>3 DEF TextKept

(* What it does to the registers, and to the record of it.                 *)
LEMMA TickStrikes ==
  ASSUME Types, RTC
  PROVE  /\ struck' \in BOOLEAN
         /\ struck => struck'
         /\ struck' => struck \/ ready \cap {"ah", "edi"} # {}
         /\ \/ /\ ah' = 0 /\ ecx' = 0 /\ edi' = Address(cursor)
               /\ ready \cap {"ah", "edi"} # {} => struck'
            \/ /\ ah' = ah /\ ecx' = ecx /\ edi' = edi
               /\ struck' => struck
<1> DEFINE hit == ready \cap {"ah", "edi"} # {}
<1>1. CASE \E t \in Times : read_time(t) /\ struck' = (struck \/ hit)
  <2>1. ah' = 0 /\ ecx' = 0 /\ edi' = Address(cursor)
    BY <1>1 DEF read_time
  <2>2. struck' = (struck \/ hit) /\ struck \in BOOLEAN
    BY <1>1 DEF Types
  <2> HIDE DEF hit
  <2>3. /\ struck' \in BOOLEAN /\ (struck => struck')
        /\ (struck' => struck \/ hit) /\ (hit => struck')
    BY <2>2, Zenon
  <2> QED BY <2>1, <2>3, Zenon DEF hit
<1>2. CASE rtc_exit /\ struck' = struck
  <2>1. ah' = ah /\ ecx' = ecx /\ edi' = edi
    BY <1>2 DEF rtc_exit
  <2>2. struck' = struck /\ struck \in BOOLEAN
    BY <1>2 DEF Types
  <2> QED BY <2>1, <2>2, Zenon
<1> QED BY <1>1, <1>2, Zenon DEF RTC

(* It writes the clock's cells, and no other below the text.               *)
LEMMA TickFrame ==
  ASSUME Types, Frame, RTC
  PROVE  Frame' /\ time' \in Times \cup {-1}
<1>1. CASE \E t \in Times : read_time(t) /\ time' = t
  <2>1. PICK t \in Times : read_time(t) /\ time' = t
    BY <1>1
  <2>2. t \in Int /\ t # -1
    BY CharactersAssumption
  <2>3. ASSUME NEW c \in Cells, c >= TextEnd
        PROVE  vram'[c][1] = IF c \in ClockCells /\ time' # -1
                             THEN 48 + time' ELSE SPACE
    <3>1. CASE c \in ClockCells
      BY <2>1, <2>2, <3>1 DEF read_time
    <3>2. CASE c \notin ClockCells
      BY <2>1, <2>3, <3>2 DEF read_time, Frame
    <3> QED BY <3>1, <3>2
  <2> QED BY <2>1, <2>3 DEF Frame
<1>2. CASE rtc_exit /\ time' = time
  BY <1>2 DEF rtc_exit, screen, Frame, Types
<1> QED BY <1>1, <1>2 DEF RTC

(* It leaves a program where it was, with 0 for a number it had loaded.    *)
LEMMA TickPosition ==
  ASSUME Types, Position, RTC
  PROVE  Position'
<1>1. /\ TextKept /\ rest' = rest /\ ready' = ready
      /\ exact' = (exact /\ ready = {})
  BY TickKeeps
<1>2. /\ Done => Done'
      /\ ToType => ToType'
      /\ ToErase => ToErase'
      /\ ToColor => ToColor'
      /\ ToScroll => ToScroll'
      /\ ToClear => ToClear'
  BY <1>1, ScreenKept
<1>3. /\ AL' = AL /\ ECX' = ECX /\ cursor' = cursor /\ crt' = crt
      /\ \A p, r : At(p, r)' <=> At(p, r)
  BY <1>1 DEF TextKept, AL, ECX, At
<1>4. ready # {} => ~exact'
  BY <1>1
<1>5. ready \cap {"ah", "edi"} = {} => struck' = struck
  BY TickStrikes DEF Types
<1>6. ASSUME NEW n, Number(n), "ah" \in ready
      PROVE  Number(n)'
  BY <1>6, TickStrikes DEF Number, Types
<1>7. CASE Resting
  <2>1. ~struck'
    BY <1>5, <1>7 DEF Resting, At
  <2> QED BY <1>2, <1>3, <1>7, <2>1 DEF Resting, Position
<1>8. CASE Moving
  <2>1. CASE At(<<AH(128), INT>>, {}) /\ ~struck
    <3>1. ~struck'
      BY <1>5, <2>1 DEF At
    <3> QED BY <1>2, <1>3, <1>8, <2>1, <3>1 DEF Moving, Position
  <2>2. CASE At(<<INT>>, {"ah"}) /\ Number(128)
    <3>1. Number(128)'
      BY <1>6, <2>2 DEF At
    <3> QED BY <1>2, <1>3, <1>8, <2>2, <3>1 DEF Moving, Position
  <2> QED BY <1>8, <2>1, <2>2 DEF Moving
<1>9. CASE Typing
  <2>1. ready # {} => Glyph' /\ Colour'
    BY <1>4 DEF Glyph, Colour
  <2>2. CASE /\ ready \cap {"ah", "edi"} = {} /\ ~struck
             /\ \/ At(<<ECX, AL, AH(1), INT, AH(128), INT>>, {})
                \/ At(<<AL, ECX, AH(1), INT, AH(128), INT>>, {})
    <3>1. ~struck'
      BY <1>5, <2>2
    <3> QED BY <1>2, <1>3, <1>9, <2>2, <3>1 DEF Typing, Position
  <2>3. CASE /\ ready \cap {"ah", "edi"} = {} /\ ready # {} /\ ~struck
             /\ \/ At(<<AL, AH(1), INT, AH(128), INT>>, {"ecx"})
                \/ At(<<ECX, AH(1), INT, AH(128), INT>>, {"al"})
                \/ At(<<AH(1), INT, AH(128), INT>>, {"ecx", "al"})
    <3>1. ~struck' /\ Glyph' /\ Colour'
      BY <1>5, <2>1, <2>3
    <3> QED BY <1>2, <1>3, <1>9, <2>3, <3>1 DEF Typing, Position
  <2>4. CASE At(<<INT, AH(128), INT>>, {"ecx", "al", "ah"}) /\ Number(1)
    <3>1. Number(1)' /\ Glyph' /\ Colour'
      BY <1>6, <2>1, <2>4 DEF At
    <3> QED BY <1>2, <1>3, <1>9, <2>4, <3>1 DEF Typing, Position
  <2> QED BY <1>9, <2>2, <2>3, <2>4 DEF Typing, At
<1>10. CASE Erasing
  <2>1. CASE /\ ready \cap {"ah", "edi"} = {} /\ ~struck
             /\ \/ At(<<AL, AH(3), INT, AH(128), INT>>, {})
                \/ At(<<AH(3), INT, AH(128), INT>>, {"al"})
    <3>1. ~struck'
      BY <1>5, <2>1
    <3> QED BY <1>2, <1>3, <1>10, <2>1, <3>1 DEF Erasing, Position
  <2>2. CASE At(<<INT, AH(128), INT>>, {"al", "ah"}) /\ Number(3)
    <3>1. Number(3)'
      BY <1>6, <2>2 DEF At
    <3> QED BY <1>2, <1>3, <1>10, <2>2, <3>1 DEF Erasing, Position
  <2> QED BY <1>10, <2>1, <2>2 DEF Erasing, At
<1>11. CASE Coloring
  <2>1. ready # {} => Colour'
    BY <1>4 DEF Colour
  <2>2. CASE At(<<AL, AH(5), INT>>, {}) /\ ~struck
    <3>1. ~struck'
      BY <1>5, <2>2 DEF At
    <3> QED BY <1>2, <1>3, <1>11, <2>2, <3>1 DEF Coloring, Position
  <2>3. CASE At(<<AH(5), INT>>, {"al"}) /\ ~struck
    <3>1. ~struck' /\ Colour'
      BY <1>5, <2>1, <2>3 DEF At
    <3> QED BY <1>2, <1>3, <1>11, <2>3, <3>1 DEF Coloring, Position
  <2>4. CASE At(<<INT>>, {"al", "ah"}) /\ Number(5)
    <3>1. Number(5)' /\ Colour'
      BY <1>6, <2>1, <2>4 DEF At
    <3> QED BY <1>2, <1>3, <1>11, <2>4, <3>1 DEF Coloring, Position
  <2> QED BY <1>11, <2>2, <2>3, <2>4 DEF Coloring
<1>12. CASE Scrolling
  <2>1. EDI' = EDI
    BY DEF EDI
  <2>2. CASE /\ At(<<AH(2), INT, AL, EDI, AH(4), INT, AH(128), INT>>, {})
             /\ ~struck
    <3>1. ~struck'
      BY <1>5, <2>2 DEF At
    <3> QED BY <1>2, <1>3, <1>12, <2>1, <2>2, <3>1 DEF Scrolling, Position
  <2>3. CASE /\ At(<<INT, AL, EDI, AH(4), INT, AH(128), INT>>, {"ah"})
             /\ Number(2)
    <3>1. Number(2)'
      BY <1>6, <2>3 DEF At
    <3> QED BY <1>2, <1>3, <1>12, <2>1, <2>3, <3>1 DEF Scrolling, Position
  <2> QED BY <1>12, <2>2, <2>3 DEF Scrolling
<1>13. CASE Clearing
  <2>1. EDI' = EDI /\ Address(cursor)' = Address(cursor)
    BY <1>3 DEF EDI, Address
  <2>2. CASE /\ ready \cap {"ah", "edi"} = {} /\ ~struck
             /\ \/ At(<<AL, EDI, AH(4), INT, AH(128), INT>>, {})
                \/ At(<<EDI, AH(4), INT, AH(128), INT>>, {"al"})
    <3>1. ~struck'
      BY <1>5, <2>2
    <3> QED BY <1>2, <1>3, <1>13, <2>1, <2>2, <3>1 DEF Clearing, Position
  <2>3. CASE /\ At(<<AH(4), INT, AH(128), INT>>, {"al", "edi"})
             /\ edi = IF struck THEN Address(cursor) ELSE TEXT_ROWS - 1
    <3>1. "edi" \in ready
      BY <2>3 DEF At
    <3>2. edi' = IF struck' THEN Address(cursor)' ELSE TEXT_ROWS - 1
      BY <2>1, <2>3, <3>1, TickStrikes DEF Types
    <3> QED BY <1>2, <1>3, <1>13, <2>3, <3>2 DEF Clearing, Position
  <2>4. CASE /\ At(<<INT, AH(128), INT>>, {"al", "edi", "ah"})
             /\ \/ ~struck /\ ah = 4 /\ edi = TEXT_ROWS - 1
                \/ struck /\ ah = 4 /\ edi = Address(cursor)
                \/ struck /\ ah = 0 /\ ecx = 0
    <3>1. "edi" \in ready
      BY <2>4 DEF At
    <3>2. \/ ~struck' /\ ah' = 4 /\ edi' = TEXT_ROWS - 1
          \/ struck' /\ ah' = 4 /\ edi' = Address(cursor)'
          \/ struck' /\ ah' = 0 /\ ecx' = 0
      BY <2>1, <2>4, <3>1, TickStrikes DEF Types
    <3> QED BY <1>2, <1>3, <1>13, <2>4, <3>2 DEF Clearing, Position
  <2> QED BY <1>13, <2>2, <2>3, <2>4 DEF Clearing, At
<1> QED BY <1>7, <1>8, <1>9, <1>10, <1>11, <1>12, <1>13 DEF Position

(* A tick at any instruction keeps the invariant of the screen.            *)
LEMMA RTCScreenInv ==
  ASSUME ScreenInv, RTC
  PROVE  ScreenInv'
<1>1. Types /\ ~lost /\ Frame /\ Position
  BY TickKeeps DEF ScreenInv
<1>2. /\ TextKept /\ vram' = [c \in Cells |-> vram'[c]] /\ ~lost'
      /\ exact' = (exact /\ ready = {})
  BY <1>1, TickKeeps
<1>3. Frame' /\ time' \in Times \cup {-1}
  BY <1>1, TickFrame
<1>4. Position'
  BY <1>1, TickPosition
<1>5. struck' \in BOOLEAN /\ (struck' => struck \/ ready # {})
  BY <1>1, TickStrikes DEF Types
<1>6. Types'
  <2>1. exact' \in BOOLEAN
    BY <1>2, Zenon
  <2>2. lost' = lost
    BY DEF RTC
  <2>3. /\ cursor' \in 0 .. TextEnd /\ line' \in Seq(Characters \X Attributes)
        /\ start' \in Int /\ color' \in Attributes /\ lost' \in BOOLEAN
    BY <1>1, <1>2, <2>2 DEF Types, TextKept
  <2> QED BY <1>2, <1>3, <1>5, <2>1, <2>3 DEF Types
<1>7. struck' => ~exact'
  BY <1>2, <1>5 DEF ScreenInv
<1> QED BY <1>2, <1>3, <1>4, <1>6, <1>7 DEF ScreenInv

-----------------------------------------------------------------------------
(* The program's instructions.                                             *)
LEMMA LoadStep ==
  ASSUME Instruction, Head(rest)[1] # "int"
  PROVE  /\ rest' = Tail(rest) /\ ready' = ready \cup {Head(rest)[1]}
         /\ ah' = (IF Head(rest)[1] = "ah" THEN Head(rest)[2] ELSE ah)
         /\ al' = (IF Head(rest)[1] = "al" THEN Head(rest)[2] ELSE al)
         /\ ecx' = (IF Head(rest)[1] = "ecx" THEN Head(rest)[2] ELSE ecx)
         /\ edi' = (IF Head(rest)[1] = "edi" THEN Head(rest)[2] ELSE edi)
         /\ vram' = vram /\ cursor' = cursor /\ crt' = crt /\ lost' = lost
         /\ color' = color /\ line' = line /\ start' = start /\ time' = time
         /\ exact' = exact /\ struck' = struck
BY DEF Instruction, screen, past

(* That leaves the screen alone.                                           *)
LEMMA LoadKeeps ==
  ASSUME Types, Instruction, Head(rest)[1] # "int"
  PROVE  /\ TextKept /\ Types' /\ Frame' = Frame
         /\ Done => Done'
         /\ ToType => ToType'
         /\ ToErase => ToErase'
         /\ ToColor => ToColor'
         /\ ToScroll => ToScroll'
         /\ ToClear => ToClear'
         /\ AL' = AL /\ ECX' = ECX
<1>1. /\ vram' = vram /\ cursor' = cursor /\ crt' = crt /\ lost' = lost
      /\ color' = color /\ line' = line /\ start' = start /\ time' = time
      /\ exact' = exact /\ struck' = struck
  BY LoadStep
<1>2. TextKept /\ Frame' = Frame /\ AL' = AL /\ ECX' = ECX
  BY <1>1 DEF TextKept, Frame, AL, ECX
<1>3. Types'
  BY <1>1 DEF Types
<1> QED BY <1>1, <1>2, <1>3, ScreenKept

(* The interrupt runs the service whose number is in ah.                   *)
LEMMA IntStep ==
  ASSUME Instruction, Head(rest)[1] = "int"
  PROVE  /\ VIDEO /\ rest' = Tail(rest) /\ ready' = {} /\ ah' = ah
         /\ color' = color /\ line' = line /\ start' = start /\ time' = time
         /\ exact' = exact /\ struck' = struck
BY DEF Instruction, past

(* The clock has left 0 where a program put a number: printf runs away.    *)
LEMMA PrintfRuns ==
  ASSUME Types, Instruction, Head(rest)[1] = "int", ah = 0
  PROVE  Types' /\ lost'
<1>1. /\ VIDEO
      /\ color' = color /\ line' = line /\ start' = start /\ time' = time
      /\ exact' = exact /\ struck' = struck
  BY IntStep
<1>2. printf
  BY <1>1 DEF VIDEO
<1>3. vram' = vram /\ cursor' = cursor /\ lost' = TRUE
  BY <1>2 DEF printf, screen
<1> QED BY <1>1, <1>3 DEF Types

(* It has left an address where a program put a row.                       *)
LEMMA ClearRuns ==
  ASSUME Types, Instruction, Head(rest)[1] = "int", ah = 4,
         edi = Address(cursor)
  PROVE  Types' /\ lost'
<1>1. /\ VIDEO
      /\ color' = color /\ line' = line /\ start' = start /\ time' = time
      /\ exact' = exact /\ struck' = struck
  BY IntStep
<1>2. clean_line
  BY <1>1 DEF VIDEO
<1>3. ~(edi < ROWS)
  BY TypesAre, NoRow
<1>4. vram' = vram /\ cursor' = cursor /\ lost' = TRUE
  BY <1>2, <1>3 DEF clean_line
<1> QED BY <1>1, <1>4 DEF Types

-----------------------------------------------------------------------------
(* The services, on a page as the program expects it.                      *)
LEMMA CursorSet ==
  ASSUME Types, Frame, Done, Instruction, Head(rest)[1] = "int", ah = 128
  PROVE  Types' /\ Frame' /\ Done' /\ crt' = cursor' /\ lost' = lost
<1>1. /\ VIDEO
      /\ color' = color /\ line' = line /\ start' = start /\ time' = time
      /\ exact' = exact /\ struck' = struck
  BY IntStep
<1>2. set_cursor
  BY <1>1 DEF VIDEO
<1>3. vram' = vram /\ cursor' = cursor /\ crt' = cursor /\ lost' = lost
  BY <1>2 DEF set_cursor
<1>4. Types'
  BY <1>1, <1>3 DEF Types
<1>5. Frame' /\ Done'
  BY <1>1, <1>3 DEF Frame, Done, Shows, Cleared
<1> QED BY <1>3, <1>4, <1>5

(* one_char shows the character and moves the cursor past it.              *)
LEMMA CharTyped ==
  ASSUME Types, Frame, ToType, Instruction, Head(rest)[1] = "int", ah = 1,
         Glyph, Colour
  PROVE  Types' /\ Frame' /\ Done' /\ lost' = lost
<1>1. /\ VIDEO
      /\ color' = color /\ line' = line /\ start' = start /\ time' = time
      /\ exact' = exact /\ struck' = struck
  BY IntStep
<1>2. one_char
  BY <1>1 DEF VIDEO
<1>3. /\ vram' = [vram EXCEPT ![cursor] = <<ecx, al>>]
      /\ cursor' = cursor + 1 /\ lost' = lost
  BY <1>2 DEF one_char
<1>4. /\ cursor \in Nat /\ Len(line) \in Nat /\ start \in Int
      /\ line \in Seq(Characters \X Attributes)
      /\ vram = [c \in Cells |-> vram[c]]
  BY TypesAre DEF Types
<1>5. /\ Len(line) > 0 /\ line[Len(line)][2] = color
      /\ cursor = start + Len(line) - 1 /\ cursor < TextEnd
      /\ exact => Shows(Len(line) - 1, start) /\ Cleared(cursor)
  BY DEF ToType
<1>6. cursor \in Cells
  BY <1>4, <1>5, Page
<1>7. /\ vram'[cursor] = <<ecx, al>>
      /\ \A c \in Cells : c # cursor => vram'[c] = vram[c]
      /\ vram' = [c \in Cells |-> vram'[c]]
  <2>1. vram' = [c \in Cells |-> IF c = cursor THEN <<ecx, al>> ELSE vram[c]]
    BY <1>3, <1>4, <1>6
  <2> QED BY <1>6, <2>1
<1>8. Types'
  <2>1. cursor' \in 0 .. TextEnd
    BY <1>3, <1>4, <1>5, Page
  <2> QED BY <1>1, <1>3, <1>7, <2>1 DEF Types
<1>9. Frame'
  <2>1. \A c \in Cells : c >= TextEnd => vram'[c] = vram[c]
    BY <1>4, <1>5, <1>7, Page
  <2> QED BY <1>1, <2>1 DEF Frame
<1>10. ASSUME exact
       PROVE  Shows(Len(line), start)' /\ Cleared(cursor)'
  <2>1. <<ecx, al>> = line[Len(line)]
    <3>1. line[Len(line)] \in Characters \X Attributes
      BY <1>4, <1>5
    <3> QED BY <1>5, <1>10, <3>1 DEF Glyph, Colour
  <2>2. ASSUME NEW i \in 1 .. Len(line), start + i > 0
        PROVE  vram'[start + i - 1] = line[i]
    <3>1. CASE i = Len(line)
      BY <1>5, <1>7, <2>1, <3>1
    <3>2. CASE i # Len(line)
      <4>1. /\ i \in 1 .. Len(line) - 1 /\ start + i - 1 \in Nat
            /\ start + i - 1 < cursor
        BY <1>4, <1>5, <2>2, <3>2
      <4>2. start + i - 1 \in Cells
        BY <1>4, <1>5, <4>1, Page
      <4>3. start + i - 1 # cursor
        BY <1>4, <4>1
      <4> QED BY <1>5, <1>7, <1>10, <2>2, <4>1, <4>2, <4>3 DEF Shows
    <3> QED BY <3>1, <3>2
  <2>3. Cleared(cursor)'
    BY <1>3, <1>4, <1>5, <1>7, <1>10, Page DEF Cleared
  <2> QED BY <1>1, <2>2, <2>3 DEF Shows
<1>11. Done'
  BY <1>1, <1>3, <1>4, <1>5, <1>10 DEF Done
<1> QED BY <1>3, <1>8, <1>9, <1>11

(* clean_char moves the cursor back and clears the cell.                   *)
LEMMA CharErased ==
  ASSUME Types, Frame, ToErase, Instruction, Head(rest)[1] = "int", ah = 3
  PROVE  Types' /\ Frame' /\ Done' /\ lost' = lost
<1>1. /\ VIDEO
      /\ color' = color /\ line' = line /\ start' = start /\ time' = time
      /\ exact' = exact /\ struck' = struck
  BY IntStep
<1>2. clean_char
  BY <1>1 DEF VIDEO
<1>3. /\ vram' = [vram EXCEPT ![cursor - 1] = <<SPACE, al>>]
      /\ cursor' = cursor - 1 /\ lost' = lost
  BY <1>2 DEF clean_char
<1>4. /\ cursor \in Nat /\ cursor <= TextEnd /\ Len(line) \in Nat
      /\ start \in Int /\ vram = [c \in Cells |-> vram[c]]
  BY TypesAre DEF Types
<1>5. /\ cursor = start + Len(line) + 1 /\ cursor > 0
      /\ exact => Shows(Len(line), start) /\ Cleared(cursor)
  BY DEF ToErase
<1>6. cursor - 1 \in Cells /\ cursor - 1 < TextEnd /\ cursor - 1 \in Nat
  BY <1>4, <1>5, Page
<1>7. /\ vram'[cursor - 1] = <<SPACE, al>>
      /\ \A c \in Cells : c # cursor - 1 => vram'[c] = vram[c]
      /\ vram' = [c \in Cells |-> vram'[c]]
  <2>1. vram' = [c \in Cells |->
                   IF c = cursor - 1 THEN <<SPACE, al>> ELSE vram[c]]
    BY <1>3, <1>4, <1>6
  <2> QED BY <1>6, <2>1
<1>8. Types'
  <2>1. cursor' \in 0 .. TextEnd
    BY <1>3, <1>4, <1>5, Page
  <2> QED BY <1>1, <1>3, <1>7, <2>1 DEF Types
<1>9. Frame'
  <2>1. \A c \in Cells : c >= TextEnd => vram'[c] = vram[c]
    BY <1>6, <1>7, Page
  <2> QED BY <1>1, <2>1 DEF Frame
<1>10. ASSUME exact
       PROVE  Shows(Len(line), start)' /\ Cleared(cursor)'
  <2>1. ASSUME NEW i \in 1 .. Len(line), start + i > 0
        PROVE  vram'[start + i - 1] = line[i]
    <3>1. start + i - 1 \in Nat /\ start + i - 1 < cursor - 1
      BY <1>4, <1>5, <2>1
    <3>2. start + i - 1 \in Cells /\ start + i - 1 # cursor - 1
      BY <1>6, <3>1, Page
    <3> QED BY <1>5, <1>7, <1>10, <2>1, <3>2 DEF Shows
  <2>2. ASSUME NEW c \in Cells, c >= cursor - 1, c < TextEnd
        PROVE  vram'[c][1] \in {NUL, SPACE}
    <3>1. CASE c = cursor - 1
      BY <1>7, <3>1
    <3>2. CASE c # cursor - 1
      <4>1. c >= cursor
        BY <1>4, <2>2, <3>2, Page
      <4> QED BY <1>5, <1>7, <1>10, <2>2, <3>2, <4>1 DEF Cleared
    <3> QED BY <3>1, <3>2
  <2> QED BY <1>1, <1>3, <2>1, <2>2 DEF Shows, Cleared
<1>11. Done'
  BY <1>1, <1>3, <1>4, <1>5, <1>10 DEF Done
<1> QED BY <1>3, <1>8, <1>9, <1>11

(* set_color takes the colour and moves nothing.                           *)
LEMMA ColorSet ==
  ASSUME Types, Frame, ToColor, Instruction, Head(rest)[1] = "int", ah = 5,
         Colour
  PROVE  Types' /\ Frame' /\ Done' /\ crt' = cursor' /\ lost' = lost
<1>1. /\ VIDEO
      /\ color' = color /\ line' = line /\ start' = start /\ time' = time
      /\ exact' = exact /\ struck' = struck
  BY IntStep
<1>2. set_color
  BY <1>1 DEF VIDEO
<1>3. /\ vram' = [c \in Cells |-> <<vram[c][1], al>>]
      /\ cursor' = cursor /\ crt' = crt /\ lost' = lost
  BY <1>2 DEF set_color
<1>4. /\ cursor \in Nat /\ cursor <= TextEnd /\ Len(line) \in Nat
      /\ start \in Int /\ line \in Seq(Characters \X Attributes)
  BY TypesAre
<1>5. /\ cursor = start + Len(line) /\ crt = cursor
      /\ \A i \in 1 .. Len(line) : line[i][2] = color
      /\ exact => Spells(Len(line), start) /\ Cleared(cursor)
  BY DEF ToColor
<1>6. /\ \A c \in Cells : vram'[c] = <<vram[c][1], al>>
      /\ \A c \in Cells : vram'[c][1] = vram[c][1]
      /\ vram' = [c \in Cells |-> vram'[c]]
  BY <1>3
<1>7. Types'
  BY <1>1, <1>3, <1>6 DEF Types
<1>8. Frame'
  BY <1>1, <1>6 DEF Frame
<1>9. ASSUME exact
      PROVE  Shows(Len(line), start)' /\ Cleared(cursor)'
  <2>1. ASSUME NEW i \in 1 .. Len(line), start + i > 0
        PROVE  vram'[start + i - 1] = line[i]
    <3>1. start + i - 1 \in Nat /\ start + i - 1 < TextEnd
      BY <1>4, <1>5, <2>1, Page
    <3>2. start + i - 1 \in Cells
      BY <3>1, Page
    <3>3. line[i] = <<line[i][1], line[i][2]>>
      <4>1. line[i] \in Characters \X Attributes
        BY <1>4
      <4> QED BY <4>1
    <3>4. vram[start + i - 1][1] = line[i][1]
      BY <1>5, <1>9, <2>1 DEF Spells
    <3>5. line[i][2] = al
      BY <1>5, <1>9 DEF Colour
    <3> QED BY <1>6, <3>2, <3>3, <3>4, <3>5
  <2>2. Cleared(cursor)'
    BY <1>3, <1>5, <1>6, <1>9 DEF Cleared
  <2> QED BY <1>1, <2>1, <2>2 DEF Shows
<1>10. Done'
  BY <1>1, <1>3, <1>5, <1>9 DEF Done
<1> QED BY <1>3, <1>5, <1>7, <1>8, <1>10

(* scrolling takes the text up by a row.                                   *)
LEMMA TextScrolled ==
  ASSUME Types, Frame, ToScroll, Instruction, Head(rest)[1] = "int", ah = 2
  PROVE  Types' /\ Frame' /\ ToClear' /\ lost' = lost
<1>1. /\ VIDEO
      /\ color' = color /\ line' = line /\ start' = start /\ time' = time
      /\ exact' = exact /\ struck' = struck
  BY IntStep
<1>2. scrolling
  BY <1>1 DEF VIDEO
<1>3. /\ vram' = [c \in Cells |->
                    IF c < TextEnd - COLS THEN vram[c + COLS] ELSE vram[c]]
      /\ cursor' = cursor - COLS /\ lost' = lost
  BY <1>2 DEF scrolling
<1>4. /\ Len(line) \in Nat /\ start \in Int
      /\ COLS \in Nat /\ COLS > 0 /\ TextEnd \in Nat /\ TextEnd >= COLS
  BY TypesAre, Page
<1>5. /\ cursor = start + COLS + Len(line) /\ cursor = TextEnd
      /\ exact => Shows(Len(line), start + COLS)
  BY DEF ToScroll
<1>6. cursor' = TextEnd - COLS /\ cursor' = start + Len(line)
      /\ cursor' \in 0 .. TextEnd
  BY <1>3, <1>4, <1>5
<1>7. vram' = [c \in Cells |-> vram'[c]]
  BY <1>3
<1>8. Types'
  BY <1>1, <1>3, <1>6, <1>7 DEF Types
<1>9. Frame'
  <2>1. \A c \in Cells : c >= TextEnd => vram'[c] = vram[c]
    BY <1>3, <1>4, Page
  <2> QED BY <1>1, <2>1 DEF Frame
<1>10. ASSUME exact, NEW i \in 1 .. Len(line), start + i > 0
       PROVE  vram'[start + i - 1] = line[i]
  <2>1. /\ start + i - 1 \in Nat /\ start + i - 1 < TextEnd - COLS
        /\ start + i - 1 + COLS = start + COLS + i - 1
        /\ start + COLS + i > 0
    BY <1>4, <1>5, <1>10
  <2>2. start + i - 1 \in Cells
    BY <1>4, <2>1, Page
  <2>3. vram'[start + i - 1] = vram[start + i - 1 + COLS]
    BY <1>3, <2>1, <2>2
  <2>4. vram[start + COLS + i - 1] = line[i]
    BY <1>5, <1>10, <2>1 DEF Shows
  <2> QED BY <2>1, <2>3, <2>4
<1>11. ToClear'
  BY <1>1, <1>6, <1>10 DEF ToClear, Shows
<1> QED BY <1>3, <1>8, <1>9, <1>11

(* clean_line clears the row scrolling has left twice.                     *)
LEMMA RowCleared ==
  ASSUME Types, Frame, ToClear, Instruction, Head(rest)[1] = "int", ah = 4,
         edi = TEXT_ROWS - 1
  PROVE  Types' /\ Frame' /\ Done' /\ lost' = lost
<1>1. /\ VIDEO
      /\ color' = color /\ line' = line /\ start' = start /\ time' = time
      /\ exact' = exact /\ struck' = struck
  BY IntStep
<1>2. clean_line
  BY <1>1 DEF VIDEO
<1>3. /\ vram' = [c \in Cells |->
                    IF c \in TextEnd - COLS .. TextEnd - 1
                    THEN <<NUL, al>> ELSE vram[c]]
      /\ cursor' = cursor /\ lost' = lost
  <2>1. edi < ROWS
    BY LastRow
  <2>2. vram' = [c \in Cells |->
                   IF c \in edi * COLS .. (edi + 1) * COLS - 1
                   THEN <<NUL, al>> ELSE vram[c]]
    BY <1>2, <2>1 DEF clean_line
  <2>3. edi * COLS = TextEnd - COLS /\ (edi + 1) * COLS = TextEnd
    BY Page
  <2>4. cursor' = cursor /\ lost' = lost
    BY <1>2, <2>1 DEF clean_line
  <2> QED BY <2>2, <2>3, <2>4
<1>4. /\ Len(line) \in Nat /\ start \in Int
      /\ COLS \in Nat /\ COLS > 0 /\ TextEnd \in Nat /\ TextEnd >= COLS
  BY TypesAre, Page
<1>5. /\ cursor = start + Len(line) /\ cursor = TextEnd - COLS
      /\ exact => Shows(Len(line), start)
  BY DEF ToClear
<1>6. vram' = [c \in Cells |-> vram'[c]]
  BY <1>3
<1>7. Types'
  BY <1>1, <1>3, <1>6 DEF Types
<1>8. Frame'
  <2>1. \A c \in Cells : c >= TextEnd => vram'[c] = vram[c]
    BY <1>3, <1>4, Page
  <2> QED BY <1>1, <2>1 DEF Frame
<1>9. ASSUME exact, NEW i \in 1 .. Len(line), start + i > 0
      PROVE  vram'[start + i - 1] = line[i]
  <2>1. start + i - 1 \in Nat /\ start + i - 1 < TextEnd - COLS
    BY <1>4, <1>5, <1>9
  <2>2. /\ start + i - 1 \in Cells
        /\ start + i - 1 \notin TextEnd - COLS .. TextEnd - 1
    BY <1>4, <2>1, Page
  <2>3. vram'[start + i - 1] = vram[start + i - 1]
    BY <1>3, <2>2
  <2> QED BY <1>5, <1>9, <2>3 DEF Shows
<1>10. Cleared(cursor)'
  <2>1. ASSUME NEW c \in Cells, c >= TextEnd - COLS, c < TextEnd
        PROVE  vram'[c] = <<NUL, al>>
    <3>1. c \in TextEnd - COLS .. TextEnd - 1
      BY <1>4, <2>1, Page
    <3> QED BY <1>3, <3>1
  <2> QED BY <1>3, <1>5, <2>1 DEF Cleared
<1>11. Done'
  BY <1>1, <1>3, <1>5, <1>9, <1>10 DEF Done, Shows
<1> QED BY <1>3, <1>7, <1>8, <1>11

-----------------------------------------------------------------------------
(* One instruction, from each point of each program.                       *)
Goes == Types' /\ (lost' => struck) /\ (~lost' => Frame' /\ Position')

(* On the way to set_cursor.                                               *)
LEMMA MovingStep ==
  ASSUME Types, Frame, Moving, ~lost, Instruction
  PROVE  Goes
<1>1. CASE At(<<AH(128), INT>>, {}) /\ ~struck
  <2>1. Head(rest)[1] = "ah" /\ Head(rest)[2] = 128 /\ Tail(rest) = <<INT>>
    BY <1>1 DEF At, AH, Load
  <2>2. rest' = <<INT>> /\ ready' = {"ah"} /\ ah' = 128 /\ struck' = struck
        /\ lost' = lost
    BY <1>1, <2>1, LoadStep DEF At
  <2>3. Types' /\ Frame' = Frame /\ Done'
    BY <2>1, LoadKeeps DEF Moving
  <2>4. Moving'
    BY <1>1, <2>2, <2>3 DEF Moving, At, Number
  <2> QED BY <2>2, <2>3, <2>4 DEF Goes, Position
<1>2. CASE At(<<INT>>, {"ah"}) /\ Number(128)
  <2>1. Head(rest)[1] = "int" /\ Tail(rest) = << >>
    BY <1>2 DEF At, INT
  <2>2. CASE struck
    <3>1. ah = 0
      BY <1>2, <2>2 DEF Number
    <3> QED BY <2>1, <2>2, <3>1, PrintfRuns DEF Goes
  <2>3. CASE ~struck
    <3>1. ah = 128
      BY <1>2, <2>3 DEF Number
    <3>2. Types' /\ Frame' /\ Done' /\ crt' = cursor' /\ lost' = lost
      BY <2>1, <3>1, CursorSet DEF Moving
    <3>3. rest' = << >> /\ ready' = {} /\ struck' = struck
      BY <2>1, IntStep
    <3>4. Resting'
      BY <2>3, <3>2, <3>3 DEF Resting, At
    <3> QED BY <3>2, <3>4 DEF Goes, Position
  <2> QED BY <2>2, <2>3
<1> QED BY <1>1, <1>2 DEF Moving

(* What a service that leaves the page as it should be leads to.           *)
LEMMA ThenMoves ==
  ASSUME Types', Frame', Done', lost' = lost, ~lost, ~struck,
         rest = <<INT, AH(128), INT>>, Instruction
  PROVE  Goes
<1>1. Head(rest)[1] = "int" /\ Tail(rest) = <<AH(128), INT>>
  BY DEF INT
<1>2. rest' = <<AH(128), INT>> /\ ready' = {} /\ struck' = struck
  BY <1>1, IntStep
<1>3. Moving'
  BY <1>2 DEF Moving, At, AH
<1> QED BY <1>3 DEF Goes, Position

(* On the way to one_char.                                                 *)
LEMMA TypingStep ==
  ASSUME Types, Frame, Typing, ~lost, Instruction
  PROVE  Goes
<1>1. CASE At(<<ECX, AL, AH(1), INT, AH(128), INT>>, {}) /\ ~struck
  <2>1. /\ Head(rest)[1] = "ecx" /\ Head(rest)[2] = line[Len(line)][1]
        /\ Tail(rest) = <<AL, AH(1), INT, AH(128), INT>>
    BY <1>1 DEF At, ECX, Load
  <2>2. /\ rest' = Tail(rest) /\ ready' = {"ecx"} /\ struck' = struck
        /\ ecx' = line[Len(line)][1] /\ line' = line /\ lost' = lost
    BY <1>1, <2>1, LoadStep DEF At
  <2>3. Types' /\ Frame' = Frame /\ ToType' /\ AL' = AL
    BY <2>1, LoadKeeps DEF Typing
  <2>4. Typing'
    BY <1>1, <2>1, <2>2, <2>3 DEF Typing, At, Glyph, AH
  <2> QED BY <2>2, <2>3, <2>4 DEF Goes, Position
<1>2. CASE At(<<AL, ECX, AH(1), INT, AH(128), INT>>, {}) /\ ~struck
  <2>1. /\ Head(rest)[1] = "al" /\ Head(rest)[2] = color
        /\ Tail(rest) = <<ECX, AH(1), INT, AH(128), INT>>
    BY <1>2 DEF At, AL, Load
  <2>2. /\ rest' = Tail(rest) /\ ready' = {"al"} /\ struck' = struck
        /\ al' = color /\ color' = color /\ lost' = lost
    BY <1>2, <2>1, LoadStep DEF At
  <2>3. Types' /\ Frame' = Frame /\ ToType' /\ ECX' = ECX
    BY <2>1, LoadKeeps DEF Typing
  <2>4. Typing'
    BY <1>2, <2>1, <2>2, <2>3 DEF Typing, At, Colour, AH
  <2> QED BY <2>2, <2>3, <2>4 DEF Goes, Position
<1>3. CASE At(<<AL, AH(1), INT, AH(128), INT>>, {"ecx"}) /\ ~struck /\ Glyph
  <2>1. /\ Head(rest)[1] = "al" /\ Head(rest)[2] = color
        /\ Tail(rest) = <<AH(1), INT, AH(128), INT>>
    BY <1>3 DEF At, AL, Load
  <2>2. /\ rest' = Tail(rest) /\ ready' = {"ecx", "al"} /\ struck' = struck
        /\ al' = color /\ color' = color /\ line' = line /\ ecx' = ecx
        /\ exact' = exact /\ lost' = lost
    BY <1>3, <2>1, LoadStep DEF At
  <2>3. Types' /\ Frame' = Frame /\ ToType'
    BY <2>1, LoadKeeps DEF Typing
  <2>4. Typing'
    BY <1>3, <2>1, <2>2, <2>3 DEF Typing, At, Glyph, Colour, AH
  <2> QED BY <2>2, <2>3, <2>4 DEF Goes, Position
<1>4. CASE At(<<ECX, AH(1), INT, AH(128), INT>>, {"al"}) /\ ~struck /\ Colour
  <2>1. /\ Head(rest)[1] = "ecx" /\ Head(rest)[2] = line[Len(line)][1]
        /\ Tail(rest) = <<AH(1), INT, AH(128), INT>>
    BY <1>4 DEF At, ECX, Load
  <2>2. /\ rest' = Tail(rest) /\ ready' = {"ecx", "al"} /\ struck' = struck
        /\ ecx' = line[Len(line)][1] /\ line' = line /\ color' = color
        /\ al' = al /\ exact' = exact /\ lost' = lost
    BY <1>4, <2>1, LoadStep DEF At
  <2>3. Types' /\ Frame' = Frame /\ ToType'
    BY <2>1, LoadKeeps DEF Typing
  <2>4. Typing'
    BY <1>4, <2>1, <2>2, <2>3 DEF Typing, At, Glyph, Colour, AH
  <2> QED BY <2>2, <2>3, <2>4 DEF Goes, Position
<1>5. CASE /\ At(<<AH(1), INT, AH(128), INT>>, {"ecx", "al"})
           /\ ~struck /\ Glyph /\ Colour
  <2>1. /\ Head(rest)[1] = "ah" /\ Head(rest)[2] = 1
        /\ Tail(rest) = <<INT, AH(128), INT>>
    BY <1>5 DEF At, AH, Load
  <2>2. /\ rest' = Tail(rest) /\ ready' = {"ecx", "al", "ah"}
        /\ struck' = struck /\ ah' = 1
        /\ al' = al /\ color' = color /\ line' = line /\ ecx' = ecx
        /\ exact' = exact /\ lost' = lost
    BY <1>5, <2>1, LoadStep DEF At
  <2>3. Types' /\ Frame' = Frame /\ ToType'
    BY <2>1, LoadKeeps DEF Typing
  <2>4. Typing'
    BY <1>5, <2>1, <2>2, <2>3 DEF Typing, At, Glyph, Colour, Number, AH
  <2> QED BY <2>2, <2>3, <2>4 DEF Goes, Position
<1>6. CASE /\ At(<<INT, AH(128), INT>>, {"ecx", "al", "ah"})
           /\ Number(1) /\ Glyph /\ Colour
  <2>1. Head(rest)[1] = "int" /\ rest = <<INT, AH(128), INT>>
    BY <1>6 DEF At, INT
  <2>2. CASE struck
    <3>1. ah = 0
      BY <1>6, <2>2 DEF Number
    <3> QED BY <2>1, <2>2, <3>1, PrintfRuns DEF Goes
  <2>3. CASE ~struck
    <3>1. ah = 1
      BY <1>6, <2>3 DEF Number
    <3>2. Types' /\ Frame' /\ Done' /\ lost' = lost
      BY <1>6, <2>1, <3>1, CharTyped DEF Typing
    <3> QED BY <2>1, <2>3, <3>2, ThenMoves
  <2> QED BY <2>2, <2>3
<1> QED BY <1>1, <1>2, <1>3, <1>4, <1>5, <1>6 DEF Typing

(* On the way to clean_char.                                               *)
LEMMA ErasingStep ==
  ASSUME Types, Frame, Erasing, ~lost, Instruction
  PROVE  Goes
<1>1. CASE At(<<AL, AH(3), INT, AH(128), INT>>, {}) /\ ~struck
  <2>1. /\ Head(rest)[1] = "al"
        /\ Tail(rest) = <<AH(3), INT, AH(128), INT>>
    BY <1>1 DEF At, AL, Load
  <2>2. /\ rest' = Tail(rest) /\ ready' = {"al"} /\ struck' = struck
        /\ lost' = lost
    BY <1>1, <2>1, LoadStep DEF At
  <2>3. Types' /\ Frame' = Frame /\ ToErase'
    BY <2>1, LoadKeeps DEF Erasing
  <2>4. Erasing'
    BY <1>1, <2>1, <2>2, <2>3 DEF Erasing, At, AH
  <2> QED BY <2>2, <2>3, <2>4 DEF Goes, Position
<1>2. CASE At(<<AH(3), INT, AH(128), INT>>, {"al"}) /\ ~struck
  <2>1. /\ Head(rest)[1] = "ah" /\ Head(rest)[2] = 3
        /\ Tail(rest) = <<INT, AH(128), INT>>
    BY <1>2 DEF At, AH, Load
  <2>2. /\ rest' = Tail(rest) /\ ready' = {"al", "ah"} /\ struck' = struck
        /\ ah' = 3 /\ lost' = lost
    BY <1>2, <2>1, LoadStep DEF At
  <2>3. Types' /\ Frame' = Frame /\ ToErase'
    BY <2>1, LoadKeeps DEF Erasing
  <2>4. Erasing'
    BY <1>2, <2>1, <2>2, <2>3 DEF Erasing, At, Number, AH
  <2> QED BY <2>2, <2>3, <2>4 DEF Goes, Position
<1>3. CASE At(<<INT, AH(128), INT>>, {"al", "ah"}) /\ Number(3)
  <2>1. Head(rest)[1] = "int" /\ rest = <<INT, AH(128), INT>>
    BY <1>3 DEF At, INT
  <2>2. CASE struck
    <3>1. ah = 0
      BY <1>3, <2>2 DEF Number
    <3> QED BY <2>1, <2>2, <3>1, PrintfRuns DEF Goes
  <2>3. CASE ~struck
    <3>1. ah = 3
      BY <1>3, <2>3 DEF Number
    <3>2. Types' /\ Frame' /\ Done' /\ lost' = lost
      BY <2>1, <3>1, CharErased DEF Erasing
    <3> QED BY <2>1, <2>3, <3>2, ThenMoves
  <2> QED BY <2>2, <2>3
<1> QED BY <1>1, <1>2, <1>3 DEF Erasing

(* On the way to set_color.                                                *)
LEMMA ColoringStep ==
  ASSUME Types, Frame, Coloring, ~lost, Instruction
  PROVE  Goes
<1>1. CASE At(<<AL, AH(5), INT>>, {}) /\ ~struck
  <2>1. /\ Head(rest)[1] = "al" /\ Head(rest)[2] = color
        /\ Tail(rest) = <<AH(5), INT>>
    BY <1>1 DEF At, AL, Load
  <2>2. /\ rest' = Tail(rest) /\ ready' = {"al"} /\ struck' = struck
        /\ al' = color /\ color' = color /\ lost' = lost
    BY <1>1, <2>1, LoadStep DEF At
  <2>3. Types' /\ Frame' = Frame /\ ToColor'
    BY <2>1, LoadKeeps DEF Coloring
  <2>4. Coloring'
    BY <1>1, <2>1, <2>2, <2>3 DEF Coloring, At, Colour, AH
  <2> QED BY <2>2, <2>3, <2>4 DEF Goes, Position
<1>2. CASE At(<<AH(5), INT>>, {"al"}) /\ ~struck /\ Colour
  <2>1. /\ Head(rest)[1] = "ah" /\ Head(rest)[2] = 5 /\ Tail(rest) = <<INT>>
    BY <1>2 DEF At, AH, Load
  <2>2. /\ rest' = Tail(rest) /\ ready' = {"al", "ah"} /\ struck' = struck
        /\ ah' = 5 /\ al' = al /\ color' = color /\ exact' = exact
        /\ lost' = lost
    BY <1>2, <2>1, LoadStep DEF At
  <2>3. Types' /\ Frame' = Frame /\ ToColor'
    BY <2>1, LoadKeeps DEF Coloring
  <2>4. Coloring'
    BY <1>2, <2>1, <2>2, <2>3 DEF Coloring, At, Colour, Number
  <2> QED BY <2>2, <2>3, <2>4 DEF Goes, Position
<1>3. CASE At(<<INT>>, {"al", "ah"}) /\ Number(5) /\ Colour
  <2>1. Head(rest)[1] = "int" /\ Tail(rest) = << >>
    BY <1>3 DEF At, INT
  <2>2. CASE struck
    <3>1. ah = 0
      BY <1>3, <2>2 DEF Number
    <3> QED BY <2>1, <2>2, <3>1, PrintfRuns DEF Goes
  <2>3. CASE ~struck
    <3>1. ah = 5
      BY <1>3, <2>3 DEF Number
    <3>2. Types' /\ Frame' /\ Done' /\ crt' = cursor' /\ lost' = lost
      BY <1>3, <2>1, <3>1, ColorSet DEF Coloring
    <3>3. rest' = << >> /\ ready' = {} /\ struck' = struck
      BY <2>1, IntStep
    <3>4. Resting'
      BY <2>3, <3>2, <3>3 DEF Resting, At
    <3> QED BY <3>2, <3>4 DEF Goes, Position
  <2> QED BY <2>2, <2>3
<1> QED BY <1>1, <1>2, <1>3 DEF Coloring

(* On the way to scrolling.                                                *)
LEMMA ScrollingStep ==
  ASSUME Types, Frame, Scrolling, ~lost, Instruction
  PROVE  Goes
<1>1. CASE /\ At(<<AH(2), INT, AL, EDI, AH(4), INT, AH(128), INT>>, {})
           /\ ~struck
  <2>1. /\ Head(rest)[1] = "ah" /\ Head(rest)[2] = 2
        /\ Tail(rest) = <<INT, AL, EDI, AH(4), INT, AH(128), INT>>
    BY <1>1 DEF At, AH, Load
  <2>2. /\ rest' = Tail(rest) /\ ready' = {"ah"} /\ struck' = struck
        /\ ah' = 2 /\ lost' = lost
    BY <1>1, <2>1, LoadStep DEF At
  <2>3. Types' /\ Frame' = Frame /\ ToScroll' /\ AL' = AL
    BY <2>1, LoadKeeps DEF Scrolling
  <2>4. Scrolling'
    BY <1>1, <2>1, <2>2, <2>3 DEF Scrolling, At, Number, AH, EDI
  <2> QED BY <2>2, <2>3, <2>4 DEF Goes, Position
<1>2. CASE At(<<INT, AL, EDI, AH(4), INT, AH(128), INT>>, {"ah"}) /\ Number(2)
  <2>1. /\ Head(rest)[1] = "int"
        /\ Tail(rest) = <<AL, EDI, AH(4), INT, AH(128), INT>>
    BY <1>2 DEF At, INT
  <2>2. CASE struck
    <3>1. ah = 0
      BY <1>2, <2>2 DEF Number
    <3> QED BY <2>1, <2>2, <3>1, PrintfRuns DEF Goes
  <2>3. CASE ~struck
    <3>1. ah = 2
      BY <1>2, <2>3 DEF Number
    <3>2. Types' /\ Frame' /\ ToClear' /\ lost' = lost
      BY <2>1, <3>1, TextScrolled DEF Scrolling
    <3>3. /\ rest' = <<AL, EDI, AH(4), INT, AH(128), INT>> /\ ready' = {}
          /\ struck' = struck /\ color' = color
      BY <2>1, IntStep
    <3>4. AL' = AL
      BY <3>3 DEF AL
    <3>5. Clearing'
      BY <2>3, <3>2, <3>3, <3>4 DEF Clearing, At, AH, EDI
    <3> QED BY <3>2, <3>5 DEF Goes, Position
  <2> QED BY <2>2, <2>3
<1> QED BY <1>1, <1>2 DEF Scrolling

(* On the way from scrolling to clean_line.                                *)
LEMMA ClearingStep ==
  ASSUME Types, Frame, Clearing, ~lost, Instruction
  PROVE  Goes
<1>1. CASE At(<<AL, EDI, AH(4), INT, AH(128), INT>>, {}) /\ ~struck
  <2>1. /\ Head(rest)[1] = "al"
        /\ Tail(rest) = <<EDI, AH(4), INT, AH(128), INT>>
    BY <1>1 DEF At, AL, Load
  <2>2. /\ rest' = Tail(rest) /\ ready' = {"al"} /\ struck' = struck
        /\ lost' = lost
    BY <1>1, <2>1, LoadStep DEF At
  <2>3. Types' /\ Frame' = Frame /\ ToClear'
    BY <2>1, LoadKeeps DEF Clearing
  <2>4. Clearing'
    BY <1>1, <2>1, <2>2, <2>3 DEF Clearing, At, AH, EDI
  <2> QED BY <2>2, <2>3, <2>4 DEF Goes, Position
<1>2. CASE At(<<EDI, AH(4), INT, AH(128), INT>>, {"al"}) /\ ~struck
  <2>1. /\ Head(rest)[1] = "edi" /\ Head(rest)[2] = TEXT_ROWS - 1
        /\ Tail(rest) = <<AH(4), INT, AH(128), INT>>
    BY <1>2 DEF At, EDI, Load
  <2>2. /\ rest' = Tail(rest) /\ ready' = {"al", "edi"} /\ struck' = struck
        /\ edi' = TEXT_ROWS - 1 /\ lost' = lost
    BY <1>2, <2>1, LoadStep DEF At
  <2>3. Types' /\ Frame' = Frame /\ ToClear'
    BY <2>1, LoadKeeps DEF Clearing
  <2>4. Clearing'
    BY <1>2, <2>1, <2>2, <2>3 DEF Clearing, At, AH
  <2> QED BY <2>2, <2>3, <2>4 DEF Goes, Position
<1>3. CASE /\ At(<<AH(4), INT, AH(128), INT>>, {"al", "edi"})
           /\ edi = IF struck THEN Address(cursor) ELSE TEXT_ROWS - 1
  <2>1. /\ Head(rest)[1] = "ah" /\ Head(rest)[2] = 4
        /\ Tail(rest) = <<INT, AH(128), INT>>
    BY <1>3 DEF At, AH, Load
  <2>2. /\ rest' = Tail(rest) /\ ready' = {"al", "edi", "ah"}
        /\ struck' = struck /\ ah' = 4 /\ edi' = edi /\ cursor' = cursor
        /\ lost' = lost
    BY <1>3, <2>1, LoadStep DEF At
  <2>3. Types' /\ Frame' = Frame /\ ToClear'
    BY <2>1, LoadKeeps DEF Clearing
  <2>4. Address(cursor)' = Address(cursor)
    BY <2>2 DEF Address
  <2>5. Clearing'
    BY <1>3, <2>1, <2>2, <2>3, <2>4 DEF Clearing, At, AH
  <2> QED BY <2>2, <2>3, <2>5 DEF Goes, Position
<1>4. CASE /\ At(<<INT, AH(128), INT>>, {"al", "edi", "ah"})
           /\ \/ ~struck /\ ah = 4 /\ edi = TEXT_ROWS - 1
              \/ struck /\ ah = 4 /\ edi = Address(cursor)
              \/ struck /\ ah = 0 /\ ecx = 0
  <2>1. Head(rest)[1] = "int" /\ rest = <<INT, AH(128), INT>>
    BY <1>4 DEF At, INT
  <2>2. CASE struck
    <3>1. Types' /\ lost'
      BY <1>4, <2>1, <2>2, PrintfRuns, ClearRuns
    <3> QED BY <2>2, <3>1 DEF Goes
  <2>3. CASE ~struck
    <3>1. Types' /\ Frame' /\ Done' /\ lost' = lost
      BY <1>4, <2>1, <2>3, RowCleared DEF Clearing
    <3> QED BY <2>1, <2>3, <3>1, ThenMoves
  <2> QED BY <2>2, <2>3
<1> QED BY <1>1, <1>2, <1>3, <1>4 DEF Clearing

(* So an instruction keeps the invariant, wherever the program is.         *)
LEMMA InstructionScreenInv ==
  ASSUME ScreenInv, Instruction
  PROVE  ScreenInv'
<1>1. ~lost /\ rest # << >>
  BY DEF Instruction
<1>2. Types /\ Frame /\ Position
  BY <1>1 DEF ScreenInv
<1>3. ~Resting
  BY <1>1 DEF Resting, At
<1>4. Goes
  BY <1>1, <1>2, <1>3, MovingStep, TypingStep, ErasingStep, ColoringStep,
     ScrollingStep, ClearingStep DEF Position
<1>5. struck' = struck /\ exact' = exact
  BY DEF Instruction, past
<1> QED BY <1>4, <1>5 DEF ScreenInv, Goes

(* An empty page, and no call.                                             *)
LEMMA InitScreenInv == VideoInit => ScreenInv
<1> SUFFICES ASSUME VideoInit PROVE ScreenInv
  OBVIOUS
<1>1. /\ vram = [c \in Cells |-> Blank] /\ cursor \in 0 .. TextEnd - 1
      /\ crt = cursor /\ rest = << >> /\ ready = {} /\ color = CLOCK_COLOR
      /\ line = << >> /\ start = cursor /\ time = -1
      /\ exact = TRUE /\ struck = FALSE /\ lost = FALSE
  BY DEF VideoInit
<1>2. cursor \in Int /\ cursor \in 0 .. TextEnd
  BY <1>1, Page
<1>3. Types
  <2>1. vram = [c \in Cells |-> vram[c]]
    BY <1>1
  <2>2. line \in Seq(Characters \X Attributes)
    BY <1>1
  <2>3. color \in Attributes
    BY <1>1 DEF Attributes
  <2>4. start \in Int /\ time \in Times \cup {-1}
    BY <1>1, <1>2
  <2> QED BY <1>1, <1>2, <2>1, <2>2, <2>3, <2>4 DEF Types
<1>4. \A c \in Cells : vram[c][1] = SPACE
  BY <1>1 DEF Blank
<1>5. Frame
  BY <1>1, <1>4 DEF Frame
<1>6. Resting
  <2>1. Len(line) = 0
    BY <1>1
  <2> QED BY <1>1, <1>2, <1>4, <2>1 DEF Resting, Done, Shows, Cleared, At
<1> QED BY <1>1, <1>3, <1>5, <1>6 DEF ScreenInv, Position

(* The invariant of the screen is inductive.                               *)
LEMMA NextScreenInv == ScreenInv /\ [VideoNext]_videoVars => ScreenInv'
<1> SUFFICES ASSUME ScreenInv, [VideoNext]_videoVars PROVE ScreenInv'
  OBVIOUS
<1>1. CASE UNCHANGED videoVars
  <2>1. /\ vram' = vram /\ cursor' = cursor /\ crt' = crt
        /\ ah' = ah /\ al' = al /\ ecx' = ecx /\ edi' = edi
        /\ rest' = rest /\ ready' = ready /\ color' = color
        /\ line' = line /\ start' = start /\ time' = time
        /\ exact' = exact /\ struck' = struck /\ lost' = lost
    BY <1>1 DEF videoVars, screen, regs, past
  <2>2. Types' = Types /\ Frame' = Frame
    BY <2>1 DEF Types, Frame
  <2>3. /\ Resting' = Resting /\ Moving' = Moving /\ Erasing' = Erasing
        /\ Scrolling' = Scrolling /\ Clearing' = Clearing
    BY <2>1 DEF Resting, Moving, Erasing, Scrolling, Clearing, Done, ToErase,
                ToScroll, ToClear, Shows, Cleared, At, Number, AL, EDI, Address
  <2>4. Typing' = Typing /\ Coloring' = Coloring
    BY <2>1 DEF Typing, Coloring, ToType, ToColor, Shows, Spells, Cleared, At,
                Number, AL, ECX, Glyph, Colour
  <2> QED BY <2>1, <2>2, <2>3, <2>4 DEF ScreenInv, Position
<1> QED BY <1>1, TypeScreenInv, EraseScreenInv, SetColorScreenInv,
           ScrollScreenInv,
           InstructionScreenInv, RTCScreenInv DEF VideoNext

(* The invariant of the screen: at every instruction of every call, what   *)
(* the program has loaded and what its last service has left to do.        *)
THEOREM VideoInvariant == VideoSpec => []ScreenInv
BY InitScreenInv, NextScreenInv, PTL DEF VideoSpec

(* A tick that finds no register loaded does no harm, on a page of any     *)
(* size and after any number of calls.                                     *)
THEOREM ScreenStaysInOrder == VideoSpec => []ScreenInOrder
<1>1. ScreenInv => ScreenInOrder
  <2> SUFFICES ASSUME ScreenInv, exact, rest = << >> PROVE ScreenInOrder
    BY DEF ScreenInOrder
  <2>1. Types /\ Frame /\ Position
    BY DEF ScreenInv
  <2>2. Resting
    BY <2>1, AtRest
  <2>3. crt = cursor /\ cursor = start + Len(line)
        /\ Shows(Len(line), start) /\ Cleared(cursor)
    BY <2>2 DEF Resting, Done
  <2>4. /\ cursor \in Nat /\ Len(line) \in Nat /\ TextEnd \in Nat
        /\ COLS \in Nat /\ DOMAIN line = 1 .. Len(line)
    BY <2>1, TypesAre, Page
  <2>5. \A i \in DOMAIN line :
          start + i > 0 => vram[start + i - 1] = line[i]
    BY <2>3, <2>4 DEF Shows
  <2>6. ASSUME NEW c \in start + Len(line) .. TextEnd - 1
        PROVE  vram[c][1] \in {NUL, SPACE}
    <3>1. c \in Nat /\ c >= cursor /\ c < TextEnd
      BY <2>3, <2>4
    <3>2. c \in Cells
      BY <2>4, <3>1, Page
    <3> QED BY <2>3, <3>1, <3>2 DEF Cleared
  <2> QED BY <2>1, <2>3, <2>5, <2>6 DEF ScreenInOrder, Frame
<1> QED BY <1>1, VideoInvariant, PTL

(* The ticks that run over the memory are those between the number of a    *)
(* service, or the row to be cleared, and the interrupt, and each does.    *)
THEOREM ClockAlwaysStrikes == VideoSpec => []ClockStrikes
<1>1. ScreenInv => ClockStrikes
  <2> SUFFICES ASSUME ScreenInv PROVE ClockStrikes
    OBVIOUS
  <2>1. struck => lost \/ ready # {}
    BY DEF ScreenInv, Position, Resting, Moving, Typing, Erasing, Coloring,
           Scrolling, Clearing, At
  <2>2. lost => struck
    BY DEF ScreenInv
  <2>3. ~struck /\ rest = << >> => cursor = start + Len(line) /\ crt = cursor
    BY AtRest DEF ScreenInv, Resting, Done
  <2> QED BY <2>1, <2>2, <2>3 DEF ClockStrikes
<1> QED BY <1>1, VideoInvariant, PTL

-----------------------------------------------------------------------------
(* The keyboard.                                                           *)

(* A user who has kept to one modifier at a time: KSR is in step, no two   *)
(* shifts are held, and none with caps lock on.                            *)
OneModifier ==
  /\ InStep
  /\ \A s, t \in HeldShifts : s = t
  /\ HeldShifts = {} \/ ~caps

(* Until a line reaches the last column the two counts are one.            *)
CountsAgree ==
  ~wrapped => line_char_num = cmd_char_num /\ line_char_num < Columns

KeyboardInv ==
  /\ KeyboardTypeOK /\ CountsAgree /\ NeverTwice
  /\ Delivered /\ (benign => OneModifier)

(* What one run of the handler does to registers and bit.                  *)
LEMMA HandlerEffect ==
  ASSUME KeyboardTypeOK, NEW code \in Bytes, convert(code)
  PROVE  /\ KSR' \in {0, 1} /\ eax' \in {0, 1} /\ cl' \in Bytes
         /\ eax' = 1 => code.form = "make" /\ code.key \in CharKeys
<1>1. CASE KSR = 1
  <2>1. shift_ture(code)
    BY <1>1 DEF convert
  <2> QED BY <2>1 DEF shift_ture, Character, SetBit, force_ret, Lower, Upper,
                      Bytes, KeyboardTypeOK, CharKeys, Keys
<1>2. CASE KSR # 1
  <2>1. shift_false(code)
    BY <1>2 DEF convert
  <2> QED BY <2>1 DEF shift_false, Character, SetBit, force_ret, Lower,
                      Bytes, KeyboardTypeOK, CharKeys, Keys
<1> QED BY <1>1, <1>2

LEMMA Codes == \A k \in Keys : Make(k) \in Bytes /\ Break(k) \in Bytes
BY DEF Make, Break, Bytes

(* What the handler makes of a key that goes down.                         *)
LEMMA MakeEffect ==
  ASSUME KeyboardTypeOK, NEW k \in Keys, convert(Make(k))
  PROVE  /\ k \in TwoForms =>
              cl' = (IF KSR = 1 THEN Upper(k) ELSE Lower(k)) /\ eax' = 1
         /\ k = Enter => cl' = Lower(k) /\ eax' = 1
         /\ k \in OneForm /\ KSR = 0 => cl' = Lower(k) /\ eax' = 1
         /\ k \notin CharKeys => eax' = 0
         /\ KSR' = IF k \in Shifts THEN 1
                   ELSE IF k = CapsLock THEN 1 - KSR ELSE KSR
<1>1. Make(k).key = k /\ Make(k).form = "make"
  BY DEF Make
<1>2. CASE KSR = 1
  <2>1. shift_ture(Make(k))
    BY <1>2 DEF convert
  <2> QED BY <1>1, <1>2, <2>1, KeysAssumption DEF shift_ture, Character,
             SetBit, force_ret, CharKeys
<1>3. CASE KSR = 0
  <2>1. shift_false(Make(k))
    BY <1>3 DEF convert
  <2> QED BY <1>1, <1>3, <2>1, KeysAssumption DEF shift_false, Character,
             SetBit, force_ret, CharKeys
<1> QED BY <1>2, <1>3 DEF KeyboardTypeOK

(* And of one that comes up.                                               *)
LEMMA BreakEffect ==
  ASSUME KeyboardTypeOK, NEW k \in Keys, convert(Break(k))
  PROVE  /\ eax' = 0
         /\ KSR' = IF k \in Shifts THEN 0 ELSE KSR
<1>1. Break(k).key = k /\ Break(k).form = "break"
  BY DEF Break
<1>2. CASE KSR = 1
  <2>1. shift_ture(Break(k))
    BY <1>2 DEF convert
  <2> QED BY <1>1, <1>2, <2>1 DEF shift_ture, Character, SetBit, force_ret
<1>3. CASE KSR = 0
  <2>1. shift_false(Break(k))
    BY <1>3 DEF convert
  <2> QED BY <1>1, <1>3, <2>1 DEF shift_false, Character, SetBit, force_ret
<1> QED BY <1>2, <1>3 DEF KeyboardTypeOK

-----------------------------------------------------------------------------
(* KSR after an event that keeps to one modifier.                          *)
LEMMA PressStaysInStep ==
  ASSUME KeyboardTypeOK, InStep, NEW k \in Keys, Press(k), OneAtATime(k)
  PROVE  InStep'
<1>1. KSR' = IF k \in Shifts THEN 1 ELSE IF k = CapsLock THEN 1 - KSR ELSE KSR
  BY MakeEffect DEF Press
<1>2. /\ down' = down \cup {k}
      /\ caps' = IF k = CapsLock /\ k \notin down THEN ~caps ELSE caps
  BY DEF Press
<1>3. CASE k \in Shifts
  BY <1>1, <1>2, <1>3 DEF InStep, HeldShifts
<1>4. CASE k = CapsLock
  <2>1. HeldShifts = {} /\ HeldShifts' = {} /\ caps' = ~caps
    BY <1>2, <1>4, KeysAssumption DEF OneAtATime, HeldShifts
  <2>2. KSR' = 1 - KSR /\ KSR \in {0, 1}
    BY <1>1, <1>4, KeysAssumption DEF KeyboardTypeOK
  <2>3. KSR = 1 <=> caps
    BY <2>1 DEF InStep
  <2>4. KSR' = 1 <=> KSR # 1
    BY <2>2
  <2>5. KSR' = 1 <=> caps'
    BY <2>1, <2>3, <2>4, Zenon
  <2> QED BY <2>1, <2>5, Zenon DEF InStep
<1>5. CASE k \notin Shifts \cup {CapsLock}
  <2>1. HeldShifts' = HeldShifts /\ caps' = caps /\ KSR' = KSR
    BY <1>1, <1>2, <1>5 DEF HeldShifts
  <2> QED BY <2>1 DEF InStep
<1> QED BY <1>3, <1>4, <1>5

LEMMA ReleaseStaysInStep ==
  ASSUME KeyboardTypeOK, InStep, NEW k \in Keys, Release(k),
         k \in Shifts => HeldShifts \subseteq {k} /\ ~caps
  PROVE  InStep'
<1>1. KSR' = IF k \in Shifts THEN 0 ELSE KSR
  BY BreakEffect DEF Release
<1>2. down' = down \ {k} /\ caps' = caps
  BY DEF Release
<1>3. CASE k \in Shifts
  <2>1. HeldShifts' = {}
    BY <1>2, <1>3 DEF HeldShifts
  <2> QED BY <1>1, <1>2, <1>3, <2>1 DEF InStep
<1>4. CASE k \notin Shifts
  <2>1. HeldShifts' = HeldShifts
    BY <1>2, <1>4 DEF HeldShifts
  <2> QED BY <1>1, <1>2, <1>4, <2>1 DEF InStep
<1> QED BY <1>3, <1>4

-----------------------------------------------------------------------------
(* Types and the count of keys do not depend on what the keys are.         *)
LEMMA PressTypes ==
  ASSUME KeyboardTypeOK, NeverTwice, NEW k \in Keys, Press(k)
  PROVE  KeyboardTypeOK' /\ NeverTwice'
<1>1. /\ KSR' \in {0, 1} /\ eax' \in {0, 1} /\ cl' \in Bytes
      /\ eax' = 1 => k \in CharKeys
  BY HandlerEffect, Codes DEF Press, Make
<1>2. Meant(k) \in Bytes
  BY DEF Meant, Lower, Upper, Bytes
<1>3. KeyboardTypeOK'
  <2>1. down' \subseteq Keys /\ caps' \in BOOLEAN
    BY DEF Press, KeyboardTypeOK
  <2>2. benign' \in BOOLEAN
    BY DEF Press, KeyboardTypeOK
  <2>3. typed' \in Seq(Bytes) /\ UNCHANGED <<key_status, shell, handled>>
    BY <1>2 DEF Press, KeyboardTypeOK
  <2>4. events' \in 0 .. MaxEvents
    BY MaxEventsAssumption DEF Press, KeyboardTypeOK
  <2> QED BY <1>1, <2>1, <2>2, <2>3, <2>4 DEF KeyboardTypeOK, shell
<1>4. Len(typed) \in Nat /\ Len(handled) \in Nat /\ excused \in Nat
  BY DEF KeyboardTypeOK
<1>5. /\ handled' = handled /\ key_status' = key_status
      /\ excused' = excused
  BY DEF Press, shell
<1>6. CASE k \in CharKeys
  <2>1. Len(typed') = Len(typed) + 1
    BY <1>2, <1>6 DEF Press, KeyboardTypeOK
  <2> QED BY <1>3, <1>4, <1>5, <2>1 DEF NeverTwice, Unread
<1>7. CASE k \notin CharKeys
  <2>1. typed' = typed /\ eax' # 1
    BY <1>1, <1>7 DEF Press
  <2> QED BY <1>3, <1>4, <1>5, <2>1 DEF NeverTwice, Unread
<1> QED BY <1>6, <1>7

LEMMA ReleaseTypes ==
  ASSUME KeyboardTypeOK, NeverTwice, NEW k \in Keys, Release(k)
  PROVE  KeyboardTypeOK' /\ NeverTwice'
<1>1. KSR' \in {0, 1} /\ eax' = 0 /\ cl' \in Bytes
  BY HandlerEffect, BreakEffect, Codes DEF Release
<1>2. KeyboardTypeOK'
  BY <1>1, MaxEventsAssumption DEF Release, KeyboardTypeOK, shell
<1>3. Len(typed) \in Nat /\ Len(handled) \in Nat /\ excused \in Nat
  BY DEF KeyboardTypeOK
<1>4. /\ typed' = typed /\ handled' = handled /\ key_status' = key_status
      /\ excused' = excused
  BY DEF Release, shell
<1> QED BY <1>1, <1>2, <1>3, <1>4 DEF NeverTwice, Unread

-----------------------------------------------------------------------------
(* A press that is Benign puts into cl what the user means.                *)
LEMMA PressDelivers ==
  ASSUME KeyboardInv, NEW k \in Keys, Press(k), benign'
  PROVE  Delivered' /\ OneModifier'
<1>1. benign /\ Benign(k) /\ KeyboardTypeOK /\ OneModifier
  BY DEF Press, KeyboardInv
<1>2. ~Unread /\ typed = handled /\ OneAtATime(k)
  BY <1>1 DEF Benign, KeyboardInv, Delivered
<1>3. InStep'
  BY <1>1, <1>2, PressStaysInStep DEF OneModifier
<1>4. OneModifier'
  <2>1. /\ down' = down \cup {k}
        /\ caps' = IF k = CapsLock /\ k \notin down THEN ~caps ELSE caps
    BY DEF Press
  <2>2. CASE k \in Shifts
    <3>1. HeldShifts' = {k} /\ k # CapsLock
      BY <1>2, <2>1, <2>2, KeysAssumption DEF OneAtATime, HeldShifts
    <3> QED BY <1>2, <1>3, <2>1, <2>2, <3>1 DEF OneModifier, OneAtATime
  <2>3. CASE k \notin Shifts
    <3>1. HeldShifts' = HeldShifts
      BY <2>1, <2>3 DEF HeldShifts
    <3>2. k = CapsLock => HeldShifts = {}
      BY <1>2 DEF OneAtATime
    <3> QED BY <1>1, <1>3, <2>1, <3>1, <3>2 DEF OneModifier
  <2> QED BY <2>2, <2>3
<1>5. handled' = handled /\ key_status' # 1
  BY <1>2 DEF Press, Unread
<1>6. CASE k \in CharKeys
  <2>1. KSR = 1 <=> HeldShifts # {} \/ caps
    BY <1>1 DEF OneModifier, InStep
  <2>2. KSR \in {0, 1}
    BY <1>1 DEF KeyboardTypeOK
  <2>3. cl' = Meant(k) /\ eax' = 1
    <3>1. convert(Make(k))
      BY DEF Press
    <3>2. CASE k \in TwoForms
      BY <1>1, <2>1, <3>1, <3>2, MakeEffect DEF Meant
    <3>3. CASE k = Enter
      BY <1>1, <3>1, <3>3, MakeEffect, KeysAssumption DEF Meant
    <3>4. CASE k \in OneForm
      <4>1. KSR = 0
        BY <1>1, <2>1, <2>2, <3>4 DEF Benign
      <4> QED BY <1>1, <3>1, <3>4, <4>1, MakeEffect, KeysAssumption DEF Meant
    <3> QED BY <1>6, <3>2, <3>3, <3>4 DEF CharKeys
  <2>4. typed' = Append(typed, Meant(k))
    BY <1>6 DEF Press
  <2> QED BY <1>2, <1>4, <1>5, <2>3, <2>4 DEF Delivered, Unread
<1>7. CASE k \notin CharKeys
  <2>1. eax' = 0
    BY <1>1, <1>7, MakeEffect DEF Press
  <2>2. typed' = typed
    BY <1>7 DEF Press
  <2> QED BY <1>2, <1>4, <1>5, <2>1, <2>2 DEF Delivered, Unread
<1> QED BY <1>6, <1>7

LEMMA ReleaseDelivers ==
  ASSUME KeyboardInv, NEW k \in Keys, Release(k), benign'
  PROVE  Delivered' /\ OneModifier'
<1>1. benign /\ ~Unread /\ KeyboardTypeOK /\ OneModifier
  BY DEF Release, KeyboardInv
<1>2. typed = handled
  BY <1>1 DEF KeyboardInv, Delivered
<1>3. k \in down /\ down' = down \ {k} /\ caps' = caps
  BY DEF Release
<1>4. k \in Shifts => HeldShifts \subseteq {k} /\ ~caps
  BY <1>1, <1>3 DEF OneModifier, HeldShifts
<1>5. InStep'
  BY <1>1, <1>4, ReleaseStaysInStep DEF OneModifier
<1>6. HeldShifts' \subseteq HeldShifts
  BY <1>3 DEF HeldShifts
<1>7. OneModifier'
  BY <1>1, <1>3, <1>5, <1>6 DEF OneModifier
<1>8. eax' = 0 /\ key_status' # 1 /\ typed' = typed /\ handled' = handled
  BY <1>1, BreakEffect DEF Release, Unread
<1> QED BY <1>2, <1>7, <1>8 DEF Delivered, Unread

-----------------------------------------------------------------------------
(* The shell's steps.                                                      *)
LEMMA PollKeyboardInv ==
  ASSUME KeyboardInv, Poll
  PROVE  KeyboardInv'
<1>1. /\ UNCHANGED <<KSR, eax, cl, down, caps, typed, handled, benign, events>>
      /\ UNCHANGED <<cmd_char_num, line_char_num, text_color, wrapped, excused>>
  BY DEF Poll, driver, shell, user
<1>2. key_status # 1 /\ key_status' = eax
  BY DEF Poll
<1>3. KeyboardTypeOK'
  BY <1>1, <1>2 DEF KeyboardInv, KeyboardTypeOK
<1>4. Unread' <=> Unread
  BY <1>1, <1>2 DEF Unread
<1>5. OneModifier' <=> OneModifier
  BY <1>1 DEF OneModifier, InStep, HeldShifts
<1> QED BY <1>1, <1>3, <1>4, <1>5
       DEF KeyboardInv, NeverTwice, Delivered, CountsAgree

(* What each way of have_key leaves behind: eax is 1 only where excused    *)
(* says so, and then benign no longer holds.                               *)
LEMMA have_keyEffect ==
  ASSUME KeyboardInv, have_key
  PROVE  /\ eax' \in Nat /\ cl' \in Bytes
         /\ cmd_char_num' \in PROMPT .. PROMPT + ROOM
         /\ line_char_num' \in 0 .. UINT - 1
         /\ text_color' \in TextColors \cup {7} /\ wrapped' \in BOOLEAN
         /\ excused' \in {excused, excused + 1} /\ benign' \in BOOLEAN
         /\ CountsAgree' /\ (benign' => benign)
         /\ eax' = 1 => excused' = excused + 1 /\ ~benign'
<1>1. KeyboardTypeOK /\ CountsAgree
  BY DEF KeyboardInv
<1>2. /\ cmd_char_num \in Nat /\ cmd_char_num >= 17 /\ cmd_char_num <= 143
      /\ line_char_num \in Nat /\ line_char_num < UINT /\ excused \in Nat
  BY <1>1, ColumnsAssumption DEF KeyboardTypeOK, PROMPT, ROOM
<1>3. /\ Columns \in Nat /\ UINT \in Nat /\ 17 < Columns /\ Columns < UINT
  BY ColumnsAssumption DEF PROMPT
<1>4. CASE enter
  <2>1. text_color' \in TextColors \cup {7} /\ text_color' \in Nat
    BY <1>1, <1>4, TextColorsAssumption DEF enter, KeyboardTypeOK
  <2>2. cl' \in Bytes
    BY <1>4 DEF enter, Printed, Bytes, Keys, CharKeys
  <2>3. /\ cmd_char_num' = 17 /\ line_char_num' = 17 /\ wrapped' = FALSE
        /\ eax' = text_color'
        /\ excused' = IF text_color' = 1 THEN excused + 1 ELSE excused
        /\ benign' = (benign /\ text_color' # 1)
    BY <1>4 DEF enter, PROMPT
  <2>4. benign \in BOOLEAN
    BY <1>1 DEF KeyboardTypeOK
  <2>5. benign' \in BOOLEAN /\ (benign' => benign /\ text_color' # 1)
    BY <2>3, <2>4, Zenon
  <2>6. /\ eax' \in Nat /\ cmd_char_num' \in PROMPT .. PROMPT + ROOM
        /\ line_char_num' \in 0 .. UINT - 1 /\ wrapped' \in BOOLEAN
        /\ excused' \in {excused, excused + 1} /\ CountsAgree'
        /\ eax' = 1 => text_color' = 1 /\ excused' = excused + 1
    <3>1. excused' \in {excused, excused + 1} /\ eax' \in Nat
      BY <1>2, <2>1, <2>3
    <3>2. eax' = 1 => text_color' = 1 /\ excused' = excused + 1
      BY <2>3
    <3>3. CountsAgree' /\ wrapped' \in BOOLEAN
      BY <1>3, <2>3 DEF CountsAgree
    <3>4. /\ cmd_char_num' \in PROMPT .. PROMPT + ROOM
          /\ line_char_num' \in 0 .. UINT - 1
      BY <1>3, <2>3 DEF PROMPT, ROOM
    <3> QED BY <3>1, <3>2, <3>3, <3>4
  <2> QED BY <2>1, <2>2, <2>5, <2>6, Zenon
<1>5. CASE nothing_to_erase
  <2>1. /\ eax' = cmd_char_num /\ UNCHANGED cl /\ UNCHANGED benign
        /\ UNCHANGED <<cmd_char_num, line_char_num, text_color, wrapped,
                       excused>>
    BY <1>5 DEF nothing_to_erase, shell
  <2> QED BY <1>1, <1>2, <2>1 DEF KeyboardTypeOK, CountsAgree
<1>6. CASE erase
  <2>1. /\ cmd_char_num > 17 /\ cmd_char_num' = cmd_char_num - 1
        /\ line_char_num' = IF line_char_num = 1 THEN Columns - 1
                            ELSE Less(line_char_num)
        /\ eax' = line_char_num'
        /\ excused' = IF wrapped THEN excused + 1 ELSE excused
        /\ benign' = (benign /\ ~wrapped)
        /\ cl' = cl /\ text_color' = text_color /\ wrapped' = wrapped
    BY <1>6 DEF erase, PROMPT
  <2>2. line_char_num' \in Nat /\ line_char_num' < UINT
    BY <1>2, <1>3, <2>1 DEF Less
  <2>3. benign \in BOOLEAN /\ wrapped \in BOOLEAN
    BY <1>1 DEF KeyboardTypeOK
  <2>4. benign' \in BOOLEAN /\ (benign' => benign /\ ~wrapped)
    BY <2>1, <2>3, Zenon
  <2>5. ASSUME ~wrapped
        PROVE  /\ line_char_num' = cmd_char_num' /\ line_char_num' >= 17
               /\ line_char_num' < Columns
    <3>1. /\ line_char_num = cmd_char_num /\ line_char_num > 17
          /\ line_char_num < Columns
      BY <1>1, <2>1, <2>5 DEF CountsAgree
    <3>2. Less(line_char_num) = line_char_num - 1
      BY <1>2, <3>1 DEF Less
    <3> QED BY <1>2, <1>3, <2>1, <3>1, <3>2
  <2>6. eax' = 1 => wrapped
    BY <2>1, <2>5
  <2>7. /\ eax' \in Nat /\ cmd_char_num' \in PROMPT .. PROMPT + ROOM
        /\ line_char_num' \in 0 .. UINT - 1 /\ wrapped' \in BOOLEAN
        /\ excused' \in {excused, excused + 1} /\ CountsAgree'
        /\ eax' = 1 => wrapped /\ excused' = excused + 1
    BY <1>2, <1>3, <2>1, <2>2, <2>3, <2>5, <2>6 DEF PROMPT, ROOM, CountsAgree
  <2>8. cl' \in Bytes /\ text_color' \in TextColors \cup {7}
    BY <1>1, <2>1 DEF KeyboardTypeOK
  <2> QED BY <2>4, <2>7, <2>8, Zenon
<1>7. CASE character
  <2> DEFINE column == More(line_char_num)
  <2>1. /\ cmd_char_num - 17 < 126 /\ cmd_char_num' = cmd_char_num + 1
        /\ line_char_num' = IF column >= Columns THEN 0 ELSE column
        /\ wrapped' = (wrapped \/ column >= Columns)
        /\ eax' = 32 /\ cl' = cl /\ text_color' = text_color
        /\ excused' = excused /\ benign' = benign
    BY <1>7 DEF character, CODE, PROMPT, ROOM
  <2>2. column \in Nat /\ column < UINT
    BY <1>2, <1>3 DEF More
  <2>3. line_char_num' \in Nat /\ line_char_num' < UINT
    BY <1>3, <2>1, <2>2
  <2>4. wrapped \in BOOLEAN /\ benign \in BOOLEAN
    BY <1>1 DEF KeyboardTypeOK
  <2> DEFINE reached == column >= Columns
  <2>5. reached \in BOOLEAN
    OBVIOUS
  <2>6. wrapped' \in BOOLEAN /\ (~wrapped' => ~wrapped /\ ~reached)
    <3>1. wrapped' = (wrapped \/ reached)
      BY <2>1
    <3> HIDE DEF reached
    <3> QED BY <2>4, <2>5, <3>1, Zenon
  <2>7. CountsAgree'
    <3> SUFFICES ASSUME ~wrapped' 
                 PROVE  line_char_num' = cmd_char_num' /\ line_char_num' < Columns
      BY DEF CountsAgree
    <3>1. ~wrapped /\ ~(column >= Columns)
      BY <2>6
    <3>2. /\ line_char_num = cmd_char_num /\ line_char_num' = column
          /\ line_char_num < Columns /\ column < Columns
      BY <1>1, <1>3, <2>1, <2>2, <3>1 DEF CountsAgree
    <3>3. column = line_char_num + 1
      BY <1>2, <1>3, <3>2 DEF More
    <3> QED BY <1>2, <2>1, <3>2, <3>3
  <2> HIDE DEF column
  <2>8. /\ eax' \in Nat /\ cmd_char_num' \in PROMPT .. PROMPT + ROOM
        /\ line_char_num' \in 0 .. UINT - 1 /\ eax' # 1
        /\ excused' \in {excused, excused + 1}
    <3>1. excused' \in {excused, excused + 1} /\ eax' \in Nat /\ eax' # 1
      BY <1>2, <2>1
    <3>2. /\ cmd_char_num' \in PROMPT .. PROMPT + ROOM
          /\ line_char_num' \in 0 .. UINT - 1
      <4>1. cmd_char_num - 17 < 126 /\ cmd_char_num' = cmd_char_num + 1
        BY <2>1
      <4> QED BY <1>2, <1>3, <2>3, <4>1 DEF PROMPT, ROOM
    <3> QED BY <3>1, <3>2
  <2>9. cl' \in Bytes /\ text_color' \in TextColors \cup {7}
    BY <1>1, <2>1 DEF KeyboardTypeOK
  <2>10. benign' \in BOOLEAN /\ (benign' => benign)
    BY <2>1, <2>4, Zenon
  <2> QED BY <2>6, <2>7, <2>8, <2>9, <2>10, Zenon
<1> QED BY <1>4, <1>5, <1>6, <1>7 DEF have_key

LEMMA have_keyKeyboardInv ==
  ASSUME KeyboardInv, have_key
  PROVE  KeyboardInv'
<1>1. UNCHANGED <<KSR, down, caps, typed, events>>
  BY DEF have_key, Take, user
<1>2. Unread /\ key_status' = 0 /\ (Unread' <=> eax' = 1)
  BY DEF have_key, Take, Unread
<1>3. handled' = Append(handled, cl) /\ cl \in Bytes /\ handled \in Seq(Bytes)
  BY DEF have_key, Take, KeyboardInv, KeyboardTypeOK
<1>4. KeyboardTypeOK'
  <2>1. excused' \in Nat
    BY have_keyEffect DEF KeyboardInv, KeyboardTypeOK
  <2> QED BY <1>1, <1>2, <1>3, <2>1, have_keyEffect
          DEF KeyboardInv, KeyboardTypeOK
<1>5. NeverTwice'
  <2>1. Len(handled') = Len(handled) + 1
    BY <1>3
  <2>2. Len(handled) + 1 <= Len(typed) + excused
    BY <1>2 DEF KeyboardInv, NeverTwice
  <2>3. Len(handled) \in Nat /\ Len(typed) \in Nat /\ excused \in Nat
    BY <1>3 DEF KeyboardInv, KeyboardTypeOK
  <2>4. CASE eax' = 1
    BY <1>1, <1>2, <2>1, <2>2, <2>3, <2>4, have_keyEffect DEF NeverTwice
  <2>5. CASE eax' # 1
    <3>1. ~Unread'
      BY <1>2, <2>5
    <3> QED BY <1>1, <2>1, <2>2, <2>3, <3>1, have_keyEffect DEF NeverTwice
  <2> QED BY <2>4, <2>5
<1>6. OneModifier' <=> OneModifier
  BY <1>1 DEF OneModifier, InStep, HeldShifts
<1>7. Delivered' /\ (benign' => OneModifier')
  <2>1. benign' => benign /\ ~Unread'
    BY <1>2, have_keyEffect
  <2> QED BY <1>1, <1>2, <1>3, <1>6, <2>1 DEF KeyboardInv, Delivered
<1> QED BY <1>4, <1>5, <1>7, have_keyEffect DEF KeyboardInv

(* KeyboardInv is an invariant.                                            *)
THEOREM KeyboardInvariant == KeyboardSpec => []KeyboardInv
<1>1. KeyboardInit => KeyboardInv
  <2> SUFFICES ASSUME KeyboardInit PROVE KeyboardInv
    OBVIOUS
  <2>1. HeldShifts = {} /\ ~Unread /\ CountsAgree
    BY ColumnsAssumption DEF KeyboardInit, HeldShifts, Unread, CountsAgree
  <2>2. KeyboardTypeOK
    <3>1. cl \in Bytes
      BY DEF KeyboardInit, Printed, Bytes, Keys, CharKeys
    <3>2. typed \in Seq(Bytes) /\ handled \in Seq(Bytes)
      BY DEF KeyboardInit
    <3>3. 0 \in 0 .. MaxEvents
      BY MaxEventsAssumption
    <3>4. PROMPT \in PROMPT .. PROMPT + ROOM /\ PROMPT \in 0 .. UINT - 1
      BY ColumnsAssumption DEF PROMPT, ROOM
    <3> QED BY <3>1, <3>2, <3>3, <3>4 DEF KeyboardInit, KeyboardTypeOK
  <2>3. NeverTwice
    BY <2>1 DEF KeyboardInit, NeverTwice
  <2>4. Delivered
    BY <2>1 DEF KeyboardInit, Delivered
  <2>5. OneModifier
    BY <2>1 DEF KeyboardInit, OneModifier, InStep
  <2> QED BY <2>1, <2>2, <2>3, <2>4, <2>5 DEF KeyboardInv
<1>2. KeyboardInv /\ [KeyboardNext]_keyboardVars => KeyboardInv'
  <2> SUFFICES ASSUME KeyboardInv, [KeyboardNext]_keyboardVars
           PROVE KeyboardInv'
    OBVIOUS
  <2>1. ASSUME NEW k \in Keys, Press(k) PROVE KeyboardInv'
    <3>1. KeyboardTypeOK' /\ NeverTwice'
      BY <2>1, PressTypes DEF KeyboardInv
    <3>2. benign' => Delivered' /\ OneModifier'
      BY <2>1, PressDelivers
    <3>3. CountsAgree'
      BY <2>1 DEF Press, shell, KeyboardInv, CountsAgree
    <3> QED BY <3>1, <3>2, <3>3 DEF KeyboardInv, Delivered
  <2>2. ASSUME NEW k \in Keys, Release(k) PROVE KeyboardInv'
    <3>1. KeyboardTypeOK' /\ NeverTwice'
      BY <2>2, ReleaseTypes DEF KeyboardInv
    <3>2. benign' => Delivered' /\ OneModifier'
      BY <2>2, ReleaseDelivers
    <3>3. CountsAgree'
      BY <2>2 DEF Release, shell, KeyboardInv, CountsAgree
    <3> QED BY <3>1, <3>2, <3>3 DEF KeyboardInv, Delivered
  <2>3. CASE Poll
    BY <2>3, PollKeyboardInv
  <2>4. CASE have_key
    BY <2>4, have_keyKeyboardInv
  <2>5. CASE UNCHANGED keyboardVars
    BY <2>5 DEF keyboardVars, driver, shell, user, KeyboardInv,
                KeyboardTypeOK, NeverTwice, Delivered, CountsAgree, Unread, OneModifier, InStep, HeldShifts
  <2> QED BY <2>1, <2>2, <2>3, <2>4, <2>5 DEF KeyboardNext
<1> QED BY <1>1, <1>2, PTL DEF KeyboardSpec

(* Registers, bit, counts and histories have their types, whatever the     *)
(* keys are.                                                               *)
THEOREM KeyboardTypeCorrect == KeyboardSpec => []KeyboardTypeOK
<1>1. KeyboardInv => KeyboardTypeOK
  BY DEF KeyboardInv
<1> QED BY <1>1, KeyboardInvariant, PTL

(* The shell acts on no more keys than were pressed, however the           *)
(* interrupts fall, but for one more after each Enter in color 1 and each  *)
(* Backspace in a line that has reached the last column.                   *)
THEOREM PressesHandledOnce == KeyboardSpec => []NeverTwice
<1>1. KeyboardInv => NeverTwice
  BY DEF KeyboardInv
<1> QED BY <1>1, KeyboardInvariant, PTL

(* What an unhurried user with one modifier at a time types is what the    *)
(* shell gets, as long as the color is not 1 and nothing is erased in a    *)
(* line that has reached the last column.                                  *)
THEOREM TypingDelivered == KeyboardSpec => []Delivered
<1>1. KeyboardInv => Delivered
  BY DEF KeyboardInv
<1> QED BY <1>1, KeyboardInvariant, PTL

(* No event that keeps to one modifier takes KSR out of step.              *)
THEOREM OneModifierStaysInStep == KeyboardSpec => StaysInStep
<1>1. ASSUME KeyboardInv, InStep, NEW k \in Keys, OneAtATime(k),
             Press(k) \/ Release(k)
      PROVE  InStep'
  <2>1. CASE Press(k)
    BY <1>1, <2>1, PressStaysInStep DEF KeyboardInv
  <2>2. CASE Release(k)
    BY <1>1, <2>2, ReleaseStaysInStep DEF KeyboardInv, OneAtATime
  <2> QED BY <1>1, <2>1, <2>2
<1>2. KeyboardInv => [InStep
                 /\ (\E k \in Keys : OneAtATime(k) /\ (Press(k) \/ Release(k)))
                 => InStep']_keyboardVars
  BY <1>1
<1> QED BY <1>2, KeyboardInvariant, PTL DEF StaysInStep

(* The last shift to come up resynchronises KSR, whatever went before.     *)
THEOREM LastShiftResynchronises == KeyboardSpec => ShiftResynchronises
<1>1. ASSUME KeyboardInv, [KeyboardNext]_keyboardVars,
             HeldShifts # {}, HeldShifts' = {}, ~caps
      PROVE  InStep'
  <2>1. ASSUME NEW k \in Keys, Press(k) PROVE FALSE
    BY <1>1, <2>1 DEF Press, HeldShifts
  <2>2. ASSUME NEW k \in Keys, Release(k) PROVE InStep'
    <3>1. k \in Shifts
      BY <1>1, <2>2 DEF Release, HeldShifts
    <3>2. KSR' = 0
      BY <1>1, <2>2, <3>1, BreakEffect DEF Release, KeyboardInv
    <3> QED BY <1>1, <2>2, <3>2 DEF InStep, Release
  <2>3. CASE Poll
    BY <1>1, <2>3 DEF Poll, user, HeldShifts
  <2>4. CASE have_key
    BY <1>1, <2>4 DEF have_key, Take, user, HeldShifts
  <2>5. CASE UNCHANGED keyboardVars
    BY <1>1, <2>5 DEF keyboardVars, user, HeldShifts
  <2> QED BY <1>1, <2>1, <2>2, <2>3, <2>4, <2>5 DEF KeyboardNext
<1>2. KeyboardInv /\ [KeyboardNext]_keyboardVars
        => [HeldShifts # {} /\ HeldShifts' = {} /\ ~caps
              => InStep']_keyboardVars
  BY <1>1
<1> QED BY <1>2, KeyboardInvariant, PTL DEF KeyboardSpec, ShiftResynchronises
=============================================================================
