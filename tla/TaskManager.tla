---------------------------- MODULE TaskManager ----------------------------
(***************************************************************************)
(* The tables of the kernel in low memory: how the entry code and the      *)
(* start-up lay them out (Sources/init, Include/asm/descriptor.h and       *)
(* paging.h), and what creat_task (Include/asm/task.h) does to them.       *)
(*                                                                         *)
(* Memory is a function from the addresses of the words that are not 0 to  *)
(* words; the two bitmaps are the sets of their one bits.  creat_task      *)
(* stores through the page tables, as they stand at the moment of each     *)
(* store.  Its data for a task, a packed structure, is a record.           *)
(*                                                                         *)
(* Nothing in the repository calls creat_task.  Before the calls, other    *)
(* code may have marked the end of either map as used, as a kernel does    *)
(* with the memory a machine lacks.                                        *)
(*                                                                         *)
(* The number of a page times 8 is where creat_task takes the page to be,  *)
(* so that a table it fills in may lie among the kernel's own.  Stores     *)
(* below the data of the tasks, where the descriptor tables are, are       *)
(* followed.  A store further up runs over data, maps, kernel or stack,    *)
(* and there the behaviour ends, astray.                                   *)
(***************************************************************************)
EXTENDS Integers, FiniteSets

CONSTANTS
  Limits,        \* where the pages, and where the task numbers, that are
                 \* marked used beforehand may begin: pairs
  Offset,        \* of each handler
  Dirt           \* words that the boot may have left other than 0

MAP_BITS == 32768 * 32
LOW_PAGES == 1024             \* of the low 4MB

(* A word is <<high, low>>, 16 bits each.                                  *)
MAX16 == 65535
Word == (0 .. MAX16) \X (0 .. MAX16)
ZERO == <<0, 0>>
ONES == <<65535, 65535>>

KERNEL_PD_PHY_ADDR == 0
KERNEL_PT_PHY_ADDR == \h1000
GDT_BASE == \h2000
GDT_LIMIT == \h1FFF
IDT_BASE == \h4000
IDT_LIMIT == \h7FF
TASK_DATA_BASE == \h5000
TASK_LDT_BASE == \h15000
MEM_MAP_BASE == \h20000
TEMP_PT_BASE == \h48000
TASK_MAP_BASE == \h49000

PAGE_SIZE == 4096
MB4 == \h400000

ASSUME LimitsAssumption ==
  Limits \subseteq (LOW_PAGES .. MAP_BITS) \X (0 .. MAP_BITS)

Handlers == {"default_ISR", "DE_ISR", "SS_ISR", "GP_ISR", "PS2_ISR",
             "SERVER_ISR", "VIDEO_ISR", "DEVICE_ISR"}
ASSUME OffsetAssumption == Offset \in [Handlers -> 0 .. MB4]
ASSUME DirtAssumption == Dirt \subseteq {a \in Nat : a % 4 = 0}

(* Functions as the module TLC writes them, with definitions that a proof  *)
(* can expand.                                                             *)
d :> e == [x \in {d} |-> e]
f @@ g ==
  [x \in (DOMAIN f) \cup (DOMAIN g) |-> IF x \in DOMAIN f THEN f[x] ELSE g[x]]

VARIABLES
  mem,
  pages, numbers,               \* the memory map and the task map
  page_limit, task_limit,       \* marked used from here on by other code
  pc, step,                     \* step counts the stores of creat_task
  task_num, pd_base, code_pt_base, task_code_base,
  data                          \* of the tasks created

maps == <<pages, numbers, page_limit, task_limit>>
locals == <<task_num, pd_base, code_pt_base, task_code_base>>
vars == <<mem, maps, pc, step, locals, data>>

MapBits(base, dirty) ==
  UNION {(8 * (a - base)) .. (8 * (a - base) + 31) :
           a \in {d \in dirty : base <= d /\ d < base + MAP_BITS \div 8}}

Init ==
  /\ \E dirty \in SUBSET Dirt :
       /\ mem = [a \in dirty |-> ONES]
       /\ pages = MapBits(MEM_MAP_BASE, dirty)
       /\ numbers = MapBits(TASK_MAP_BASE, dirty)
  /\ page_limit = MAP_BITS /\ task_limit = MAP_BITS
  /\ pc = "clear" /\ step = 0
  /\ task_num = 0 /\ pd_base = 0 /\ code_pt_base = 0 /\ task_code_base = 0
  /\ data = << >>

Read(a) == IF a \in DOMAIN mem THEN mem[a] ELSE ZERO

-----------------------------------------------------------------------------
(* The writers of entries: the words they write.                           *)
Nothing == << >>
Address(word) == word[1] * 65536 + word[2]

P_USER == 1
P_SYSTEM == 0
P_READ_WRITE == 1
P_ONLY_READ == 0

(* Present, as in every call.                                              *)
Entry(base, US, RW) ==
  <<base \div 65536,
    (base % 65536) - (base % PAGE_SIZE) + 4 * US + 2 * RW + 1>>

PDE_SET(num, pd, pt, US, RW) ==
  IF num > 1023 THEN Nothing ELSE (pd + 4 * num) :> Entry(pt, US, RW)
PTE_SET(num, pt, page, US, RW) ==
  IF num > 1023 THEN Nothing ELSE (pt + 4 * num) :> Entry(page, US, RW)

GD_CODE == 10
GD_DATA == 2
GD_LDT == 2
GD_ATSS == 9

DescriptorLow(base, limit) == <<base % 65536, limit % 65536>>
DescriptorHigh(base, limit, G, S, type, dpl) ==
  <<(base \div \h1000000) * 256 + 128 * G + 64 + limit \div 65536,
    32768 + 8192 * dpl + 4096 * S + 256 * type + ((base \div 65536) % 256)>>

set_gd(num, base, limit, G, S, type, dpl) ==
  IF num > GDT_LIMIT THEN Nothing
  ELSE (GDT_BASE + 8 * num) :> DescriptorLow(base, limit)
    @@ (GDT_BASE + 8 * num + 4) :> DescriptorHigh(base, limit, G, S, type, dpl)

(* An interrupt gate of the kernel; the offset is that of the handler.     *)
GateLow(offset) == <<8, offset % 65536>>
GateHigh(offset, dpl) == <<offset \div 65536, 32768 + 8192 * dpl + 256 * 14>>

set_id(num, offset, dpl) ==
  IF num > IDT_LIMIT THEN Nothing
  ELSE (IDT_BASE + 8 * num) :> GateLow(offset)
    @@ (IDT_BASE + 8 * num + 4) :> GateHigh(offset, dpl)

-----------------------------------------------------------------------------
(* Start-up, with paging off.                                              *)
Goto(here, there) ==
  pc = here /\ pc' = there /\ UNCHANGED <<step, locals, data>>

(* Mutant: the first clear counts bytes where it stores words.             *)
Cleared_Bytes(a) == a < \h10000 \/ (\h48000 <= a /\ a < \h90000)

Cleared(a) == a < \h40000 \/ (\h48000 <= a /\ a < \h90000)

clear_section ==
  /\ Goto("clear", "descriptors")
  /\ mem' = [a \in {d \in DOMAIN mem : ~Cleared(d)} |-> mem[a]]
  /\ pages' = {i \in pages : ~Cleared(MEM_MAP_BASE + i \div 8)}
  /\ numbers' = {i \in numbers : ~Cleared(TASK_MAP_BASE + i \div 8)}
  /\ UNCHANGED <<page_limit, task_limit>>

(* The gates of idt_init: the default for all, then its own for some.      *)
KernelGates == 0 :> "DE_ISR" @@ 12 :> "SS_ISR" @@ 13 :> "GP_ISR"
UserGates == 33 :> "PS2_ISR" @@ 64 :> "SERVER_ISR" @@ 65 :> "VIDEO_ISR"
               @@ 66 :> "DEVICE_ISR"

(* Mutant: the default goes in last.                                       *)
Gate_DefaultLast(v) == set_id(v, Offset["default_ISR"], 0)

Gate(v) ==
  CASE v \in DOMAIN KernelGates -> set_id(v, Offset[KernelGates[v]], 0)
    [] v \in DOMAIN UserGates -> set_id(v, Offset[UserGates[v]], 3)
    [] OTHER -> set_id(v, Offset["default_ISR"], 0)

KernelSegments ==
  set_gd(0, 0, 0, 0, 0, 0, 0)
    @@ set_gd(1, 0, \hFFFFF, 1, 1, GD_CODE, 0)
    @@ set_gd(2, 0, \hFFFFF, 1, 1, GD_DATA, 0)
    @@ set_gd(3, 0, 0, 0, 0, 0, 0)

Words(base, n) == {base + 4 * k : k \in 0 .. n - 1}

descriptor_init ==
  /\ Goto("descriptors", "paging")
  /\ mem' = KernelSegments
         @@ [a \in Words(IDT_BASE, 512) |-> Gate((a - IDT_BASE) \div 8)[a]]
         @@ mem
  /\ UNCHANGED maps

Index(a, table) == (a - table) \div 4

(* Mutant: the entries above 4MB get the kernel's page table as well.      *)
KernelPDE_Repeats(a) ==
  PDE_SET(Index(a, KERNEL_PD_PHY_ADDR), KERNEL_PD_PHY_ADDR, KERNEL_PT_PHY_ADDR,
          P_SYSTEM, P_READ_WRITE)[a]

KernelPDE(a) ==
  LET i == Index(a, KERNEL_PD_PHY_ADDR)
      table == IF i = 0 THEN KERNEL_PT_PHY_ADDR ELSE TEMP_PT_BASE
  IN  PDE_SET(i, KERNEL_PD_PHY_ADDR, table, P_SYSTEM, P_READ_WRITE)[a]

KernelPTE(a) ==
  LET i == Index(a, KERNEL_PT_PHY_ADDR)
  IN  PTE_SET(i, KERNEL_PT_PHY_ADDR, i * PAGE_SIZE, P_SYSTEM, P_READ_WRITE)[a]

paging_init ==
  /\ Goto("paging", "map")
  /\ mem' = [a \in Words(KERNEL_PD_PHY_ADDR, 1023) |-> KernelPDE(a)]
         @@ [a \in Words(KERNEL_PT_PHY_ADDR, 1024) |-> KernelPTE(a)]
         @@ mem
  /\ UNCHANGED maps

(* A bit of a map is written by inverting it.                              *)
Inverted(map, bits) == (map \ bits) \cup (bits \ map)

Low == 0 .. LOW_PAGES - 1

mem_map_init ==
  /\ Goto("map", "reserve")
  /\ pages' = Inverted(pages, Low)
  /\ UNCHANGED <<mem, numbers, page_limit, task_limit>>

Reserve ==
  /\ Goto("reserve", "idle")
  /\ \E limits \in Limits : page_limit' = limits[1] /\ task_limit' = limits[2]
  /\ UNCHANGED <<mem, pages, numbers>>

-----------------------------------------------------------------------------
(* The processor: where a virtual address leads.                           *)
Present(entry) == entry[2] % 2 = 1
Frame(entry) == Address(entry) - (entry[2] % PAGE_SIZE)
PdeOf(a) == Read(KERNEL_PD_PHY_ADDR + 4 * (a \div MB4))
PteOf(a) == Read(Frame(PdeOf(a)) + 4 * ((a \div PAGE_SIZE) % 1024))
Mapped(a) == Present(PdeOf(a)) /\ Present(PteOf(a))
Physical(a) == Frame(PteOf(a)) + (a % PAGE_SIZE)

(* A store to a page that is not mapped ends the kernel: the handler of    *)
(* the page fault does not come back (Interrupts).                         *)
Store(words, there) ==
  IF \A a \in DOMAIN words : Mapped(a)
  THEN /\ mem' = [b \in {Physical(a) : a \in DOMAIN words} |->
                    words[CHOOSE a \in DOMAIN words : Physical(a) = b]] @@ mem
       /\ pc' = there
  ELSE UNCHANGED mem /\ pc' = "fault"

NONE == -1

(* get_available_page and get_available_task_num return the last bit that  *)
(* is 0, which is at most as far below the limit as there are ones.        *)
(* Mutant: the first.                                                      *)
LastFree_First(limit, map) ==
  LET free == {i \in 0 .. Cardinality(map) : i < limit /\ i \notin map}
  IN  IF free = {} THEN NONE ELSE CHOOSE i \in free : \A j \in free : i <= j

LastFree(limit, map) ==
  LET free == {i \in limit - 1 - Cardinality(map) .. limit - 1 :
                 i >= 0 /\ i \notin map}
  IN  IF free = {} THEN NONE ELSE CHOOSE i \in free : \A j \in free : j <= i

get_available_task_num == LastFree(task_limit, numbers)
get_available_page == LastFree(page_limit, pages)

task_num_write(i) == numbers' = Inverted(numbers, {i})

(* Mutant: the page is marked after its number has been shifted.           *)
mem_map_write_Shifted(i) == pages' = Inverted(pages, {i * 8})

mem_map_write(i) == pages' = Inverted(pages, {i})

(* creat_task, from one allocation to the next.                            *)
NoNumber ==
  /\ pc = "idle" /\ get_available_task_num = NONE
  /\ UNCHANGED vars

TakeNumber ==
  /\ pc = "idle" /\ get_available_task_num # NONE
  /\ task_num' = get_available_task_num
  /\ task_num_write(get_available_task_num)
  /\ pc' = "pd"
  /\ UNCHANGED <<mem, pages, page_limit, task_limit, step, pd_base,
                 code_pt_base, task_code_base, data>>

(* Mutant: the number is kept.                                             *)
NoPage_KeepsNumber(here) ==
  /\ pc = here /\ get_available_page = NONE
  /\ pc' = "idle"
  /\ UNCHANGED <<mem, maps, step, locals, data>>

NoPage(here) ==
  /\ pc = here /\ get_available_page = NONE
  /\ task_num_write(task_num)
  /\ pc' = "idle"
  /\ UNCHANGED <<mem, pages, page_limit, task_limit, step, locals, data>>

TakePage(here) ==
  /\ pc = here /\ get_available_page # NONE
  /\ mem_map_write(get_available_page)
  /\ UNCHANGED <<numbers, page_limit, task_limit, task_num, data>>

TakePd ==
  /\ TakePage("pd")
  /\ pd_base' = get_available_page * 8
  /\ Store(PTE_SET((pd_base' % MB4) \div 8, TEMP_PT_BASE, pd_base',
                   P_SYSTEM, P_READ_WRITE), "code_pt")
  /\ UNCHANGED <<step, code_pt_base, task_code_base>>

TakeCodePt ==
  /\ TakePage("code_pt")
  /\ code_pt_base' = get_available_page * 8
  /\ Store(PDE_SET(0, KERNEL_PT_PHY_ADDR, pd_base, P_SYSTEM, P_READ_WRITE),
           "code")
  /\ UNCHANGED <<step, pd_base, task_code_base>>

TakeCode ==
  /\ TakePage("code")
  /\ task_code_base' = get_available_page * 8
  /\ step' = 1 /\ pc' = "store"
  /\ UNCHANGED <<mem, pd_base, code_pt_base>>

(* The descriptors of the task's code and data.  Mutant: in its own LDT.   *)
TaskLDT_Own == TASK_LDT_BASE + 32 * task_num

TaskLDT == TASK_LDT_BASE

LDT_CODE_DATA ==
  (TaskLDT + 8) :> <<task_code_base % 65536, 65535>>
    @@ (TaskLDT + 12) :> <<(task_code_base \div \h1000000) * 256 + \hCF,
                           \hFA00 + ((task_code_base \div 65536) % 256)>>
    @@ (TaskLDT + 16) :> <<0, 65535>>
    @@ (TaskLDT + 20) :> <<\hCF, \hF200>>

TaskData(n) == TASK_DATA_BASE + 128 * n

Stores == <<
  PDE_SET(task_code_base \div MB4, code_pt_base, pd_base, P_USER, P_ONLY_READ),
  PTE_SET((code_pt_base % MB4) \div 8, TEMP_PT_BASE, code_pt_base,
          P_SYSTEM, P_READ_WRITE),
  PTE_SET((task_code_base % MB4) \div 8, code_pt_base, task_code_base,
          P_USER, P_ONLY_READ),
  PTE_SET((task_code_base % MB4) \div 8, TEMP_PT_BASE, task_code_base,
          P_SYSTEM, P_READ_WRITE),
  set_gd(4 + task_num * 2, TASK_LDT_BASE + 32 * task_num, 31, 0, 0, GD_LDT, 0),
  set_gd(5 + task_num * 2, TaskData(task_num) + 7, \h67, 0, 0, GD_ATSS, 0),
  LDT_CODE_DATA>>

(* The store goes through code_pt_base to where no table is followed.      *)
Overruns ==
  /\ step \in {1, 3}
  /\ \E a \in DOMAIN Stores[step] : Mapped(a) /\ a >= TASK_DATA_BASE

StoreNext ==
  /\ pc = "store" /\ ~Overruns
  /\ Store(Stores[step],
           CASE step = 4 -> "data" [] step = 7 -> "idle" [] OTHER -> "store")
  /\ step' = (step + 1) % 8
  /\ UNCHANGED <<maps, locals, data>>

StoreAstray ==
  /\ pc = "store" /\ Overruns
  /\ pc' = "astray"
  /\ UNCHANGED <<mem, maps, step, locals, data>>

(* The state, base and state segment of the task; from number 512 on they  *)
(* lie among the LDTs and further up.                                      *)
WriteData ==
  /\ pc = "data"
  /\ IF Mapped(TaskData(task_num)) /\ TaskData(task_num) < TASK_LDT_BASE
     THEN /\ data' = [n \in DOMAIN data \cup {task_num} |->
                       IF n = task_num
                       THEN [TaskBaseAddr |-> task_code_base, CR3 |-> pd_base,
                             LDT_Segment_Selector |-> 8 * (4 + 2 * task_num)]
                       ELSE data[n]]
          /\ pc' = "store"
     ELSE /\ pc' = IF Mapped(TaskData(task_num)) THEN "astray" ELSE "fault"
          /\ UNCHANGED data
  /\ UNCHANGED <<mem, maps, step, locals>>

Next ==
  \/ clear_section \/ descriptor_init \/ paging_init \/ mem_map_init \/ Reserve
  \/ NoNumber \/ TakeNumber
  \/ NoPage("pd") \/ NoPage("code_pt") \/ NoPage("code")
  \/ TakePd \/ TakeCodePt \/ TakeCode \/ StoreNext \/ StoreAstray \/ WriteData

Spec == Init /\ [][Next]_vars

-----------------------------------------------------------------------------
Started == pc \notin {"clear", "descriptors", "paging", "map", "reserve"}

(* Words have 32 bits; once the machine runs, the bits set in the maps     *)
(* are those of pages and tasks below the limits.                          *)
TypeOK ==
  /\ \A a \in DOMAIN mem : a % 4 = 0 /\ mem[a] \in Word
  /\ pc \in {"clear", "descriptors", "paging", "map", "reserve", "idle", "pd",
             "code_pt", "code", "store", "data", "fault", "astray"}
  /\ step \in 0 .. 8
  /\ Started => /\ \A i \in pages : 0 <= i /\ i < page_limit
                /\ \A n \in numbers : 0 <= n /\ n < task_limit
  /\ \A n \in DOMAIN data : n \in numbers

(* From start-up on the pages of the low 4MB lead to themselves, but for   *)
(* page 0 once a call has taken its second page, which enters the new      *)
(* page directory into the kernel's page table instead of the other way    *)
(* round; and 4MB and its multiples stay unmapped, as creat_task finds no  *)
(* room for its pages in the table that is to map them, until it has taken *)
(* the page that it takes to be at 4MB.                                    *)
MB4_MAX == 511                \* as far as an integer of TLC reaches
KernelMapped ==
  Started =>
    /\ \A p \in 1 .. LOW_PAGES - 1 :
         Mapped(p * PAGE_SIZE) /\ Physical(p * PAGE_SIZE) = p * PAGE_SIZE
    /\ Mapped(0)
    /\ pages = Low => Physical(0) = 0
    /\ \A i \in 1 .. MB4_MAX : Mapped(i * MB4) => MB4 \div 8 \in pages

(* Every vector has its handler, whatever creat_task has stored, unless    *)
(* the page whose table would lie over its gate has been taken, or a task  *)
(* has been created whose descriptors, behind the end of their table, do;  *)
(* and the handlers' segment stays a code segment of ring 0 that begins    *)
(* at 0.                                                                   *)
HandlerOf(v) ==
  CASE v \in DOMAIN KernelGates -> KernelGates[v]
    [] v \in DOMAIN UserGates -> UserGates[v]
    [] OTHER -> "default_ISR"
VECTORS == 256
WrittenOver(v) ==
  \/ IDT_BASE \div 8 + v \in pages
  \/ ((IDT_BASE - GDT_BASE) \div 8 + v - 4) \div 2 \in DOMAIN data
GatesLead ==
  Started =>
    /\ \A v \in 0 .. VECTORS - 1 : ~WrittenOver(v) =>
         LET low == Read(IDT_BASE + 8 * v)
             high == Read(IDT_BASE + 8 * v + 4)
         IN  /\ high[1] * 65536 + low[2] = Offset[HandlerOf(v)]
             /\ low[1] = 8
             /\ high[2] \div 32768 = 1
             /\ (high[2] \div 8192) % 4 =
                  IF v \in DOMAIN UserGates THEN 3 ELSE 0
    /\ LET low == Read(GDT_BASE + 8)
           high == Read(GDT_BASE + 12)
       IN  /\ low[1] = 0 /\ high[2] % 256 = 0 /\ high[1] \div 256 = 0
           /\ high[2] \div 256 = 128 + 16 + GD_CODE

(* The kernel's pages are never given to a task, although a bit that the   *)
(* boot left set would be inverted to free.                                *)
LowNeverTaken == Started => Low \subseteq pages

(* Between calls the numbers in use are those of the tasks created: a      *)
(* call that failed has given its number back.  Its pages it has not, but  *)
(* in all calls together no more than two are lost this way.               *)
FailuresAccounted ==
  pc = "idle" =>
    /\ numbers = DOMAIN data
    /\ Cardinality(pages \ Low) - 3 * Cardinality(DOMAIN data) \in 0 .. 2

(* Every task's segments are written into the table of task 0: no other    *)
(* task has a code segment in its own table.                               *)
OnlyTask0HasCode ==
  pc = "idle" =>
    \A n \in DOMAIN data :
      LET low == Read(TASK_LDT_BASE + 32 * n + 8)
          high == Read(TASK_LDT_BASE + 32 * n + 12)
      IN  /\ n = 0 => /\ high[2] \div 32768 = 1
                      /\ (high[2] % 256) * 65536 + low[1]
                           = data[n].TaskBaseAddr
          /\ n # 0 => low = ZERO /\ high = ZERO

(* The first page table lies above the descriptor tables; the data of the  *)
(* first task lies above the data of tasks.                                *)
PagesTooFar == 8 * (page_limit - 2) >= TASK_DATA_BASE
NumbersTooFar == TaskData(task_limit - 1) >= TASK_LDT_BASE

(* With maps like these, those of the code with their 2^20 pages and       *)
(* numbers among them, no task is ever created: the first call that finds  *)
(* its number and pages stores where nothing is mapped, or runs over what  *)
(* lies there.                                                             *)
FirstCallFails ==
  Started /\ (PagesTooFar \/ NumbersTooFar) =>
    DOMAIN data = {} /\ (pc = "idle" => numbers = {})
=============================================================================
