--------------------------- MODULE PciEnumeration ---------------------------
(***************************************************************************)
(* device_init: PCI_Enumeration (device/PCI.h) scans every bus, device and *)
(* function, records what it finds in device[], and files the index under  *)
(* one of seven class tables; then the ENU functions (device/ISA.h,        *)
(* IDE.h, SATA.h, USB.h, SDHOST.h, IEEE1394.h) walk six of the tables.     *)
(*                                                                         *)
(* A table of n entries is written while its count is <= n, so the         *)
(* (n+1)st device of a class lands in the word behind the table.  The      *)
(* tables are modelled as the words of one memory, in the order the        *)
(* compiler lays them out:                                                 *)
(*   ISA IDE IEEE1394 SD padding USB SATA PCI num_string                   *)
(***************************************************************************)
EXTENDS Integers, Sequences, FiniteSets

CONSTANTS
  Slots,      \* functions on all buses (256 * 32 * 8)
  DeviceMax,  \* PCIE_DEVICE_MAX (1024)
  Size,       \* words of each table (4, 4, 4, 4, 8, 8, 16), of the padding
              \* behind SD_device (5) and of num_string (3)
  SDLoop      \* iterations of the SD host walk (8, over a table of 4)

Classes == {"ISA", "IDE", "IEEE1394", "SD", "USB", "SATA", "PCI"}
Areas == Classes \cup {"padding", "num_string"}

ASSUME LayoutAssumption ==
  /\ Slots \in Nat
  /\ DeviceMax \in Nat \ {0}
  /\ Size \in [Areas -> Nat \ {0}]
  /\ SDLoop \in Size["SD"] .. Size["SD"] + Size["padding"]

EMPTY == -1                                   \* 0xFFFFFFFF

(* What lies behind a table.                                               *)
Behind == [c \in Classes |->
  CASE c = "ISA" -> "IDE"      [] c = "IDE" -> "IEEE1394"
    [] c = "IEEE1394" -> "SD"  [] c = "SD" -> "padding"
    [] c = "USB" -> "SATA"     [] c = "SATA" -> "PCI"
    [] c = "PCI" -> "num_string"]

(* The memory word that entry i of table c designates.                     *)
Word(c, i) == IF i < Size[c] THEN <<c, i>> ELSE <<Behind[c], i - Size[c]>>
Words == UNION {{<<a, i>> : i \in 0 .. Size[a] - 1} : a \in Areas}

VARIABLES
  phase,         \* "scan", then the ENU functions in their order, then "done"
  slot,          \* the function the scan looks at next
  ans,           \* devices found
  device,        \* device[]: where each is and of what class
  device_count,  \* per class
  mem,           \* the words of the tables
  report         \* per class: entry number -> device index, as printed

vars == <<phase, slot, ans, device, device_count, mem, report>>

-----------------------------------------------------------------------------
Order == <<"ISA", "IDE", "SATA", "USB", "SD", "IEEE1394">>   \* device_init
Walked == {Order[n] : n \in 1 .. Len(Order)}
Phases == {"scan", "done"} \cup Walked

(* The phase that follows the walk of c.                                   *)
After(c) ==
  LET n == CHOOSE m \in 1 .. Len(Order) : Order[m] = c
  IN  IF n = Len(Order) THEN "done" ELSE Order[n + 1]

(* Mutant: the counts start at one.                                        *)
Init_CountFromOne ==
  /\ phase = "scan" /\ slot = 0 /\ ans = 0
  /\ device = << >>
  /\ device_count = [c \in Classes |-> 1]
  /\ mem = [w \in Words |-> IF w[1] \in Classes THEN EMPTY ELSE 0]
  /\ report = [c \in Classes |-> << >>]

Init ==
  /\ phase = "scan" /\ slot = 0 /\ ans = 0
  /\ device = << >>
  /\ device_count = [c \in Classes |-> 0]
  /\ mem = [w \in Words |-> IF w[1] \in Classes THEN EMPTY ELSE 0]
  /\ report = [c \in Classes |-> << >>]

(* Mutants: the count is not advanced; the index of the next device is     *)
(* stored; IDE controllers are filed in SATA_device by the IDE count.      *)
File_CountStays(c) ==
  /\ device_count[c] <= Size[c]
  /\ mem' = [mem EXCEPT ![Word(c, device_count[c])] = ans]
  /\ UNCHANGED device_count

File_NextIndex(c) ==
  /\ device_count[c] <= Size[c]
  /\ mem' = [mem EXCEPT ![Word(c, device_count[c])] = ans + 1]
  /\ device_count' = [device_count EXCEPT ![c] = @ + 1]

File_WrongTable(c) ==
  /\ device_count[c] <= Size[c]
  /\ mem' = [mem EXCEPT ![Word(IF c = "IDE" THEN "SATA" ELSE c,
                               device_count[c])] = ans]
  /\ device_count' = [device_count EXCEPT ![c] = @ + 1]

(* if(device_count[c] <= n){ T[device_count[c]] = ans; device_count[c]++; } *)
File(c) ==
  /\ device_count[c] <= Size[c]
  /\ mem' = [mem EXCEPT ![Word(c, device_count[c])] = ans]
  /\ device_count' = [device_count EXCEPT ![c] = @ + 1]

(* Mutant: the scan goes on behind the last slot.                          *)
Absent_NoEnd ==
  /\ phase = "scan"
  /\ slot' = slot + 1
  /\ UNCHANGED <<phase, ans, device, device_count, mem, report>>

(* Vendor 0xFFFF: nothing there.                                           *)
Absent ==
  /\ phase = "scan" /\ slot < Slots
  /\ slot' = slot + 1
  /\ UNCHANGED <<phase, ans, device, device_count, mem, report>>

(* conf_bar returns 0 before it touches the hardware: its first test       *)
(* assigns continue_flag.  Conf_Base0 is never assigned and stays 0.       *)
conf_bar == 0

Found(kind) ==
  /\ phase = "scan" /\ slot < Slots /\ ans < DeviceMax
  /\ device' = Append(device, [at |-> slot, class |-> kind, base |-> conf_bar])
  /\ \/ kind \in Classes /\ File(kind)
     \/ /\ kind \in Classes => device_count[kind] > Size[kind]
        /\ UNCHANGED <<device_count, mem>>
  /\ ans' = ans + 1
  /\ slot' = slot + 1
  /\ UNCHANGED <<phase, report>>

(* A device when device[] is full ends the scan, as does the last slot.    *)
ScanEnds ==
  /\ phase = "scan"
  /\ slot = Slots \/ ans >= DeviceMax
  /\ phase' = Order[1]
  /\ UNCHANGED <<slot, ans, device, device_count, mem, report>>

(* PCI_<c>_ENU: the entries up to the first empty one.  SDHOST.h walks     *)
(* past the end of its table.                                              *)
Loop(c) == IF c = "SD" THEN SDLoop ELSE Size[c]

Seen(c) ==
  {i \in 0 .. Loop(c) - 1 : \A j \in 0 .. i : mem[Word(c, j)] # EMPTY}

ENU(c) ==
  /\ phase = c
  /\ report' = [report EXCEPT ![c] = [i \in Seen(c) |-> mem[Word(c, i)]]]
  /\ phase' = After(c)
  /\ UNCHANGED <<slot, ans, device, device_count, mem>>

Next ==
  \/ Absent
  \/ \E kind \in Classes \cup {"other"} : Found(kind)
  \/ ScanEnds
  \/ \E c \in Walked : ENU(c)

Spec == Init /\ [][Next]_vars

-----------------------------------------------------------------------------
(* The scan stays in its slots, device[] in its bound, and every walk in    *)
(* the words behind which the layout is known.                             *)
TypeOK ==
  /\ phase \in Phases
  /\ slot \in 0 .. Slots
  /\ ans \in 0 .. DeviceMax
  /\ device \in Seq([at : 0 .. Slots - 1, class : Classes \cup {"other"},
                     base : {0}])
  /\ Len(device) = ans
  /\ device_count \in [Classes -> Nat]
  /\ mem \in [Words -> Int]
  /\ DOMAIN report = Classes
  /\ \A c \in Classes :
       /\ DOMAIN report[c] \subseteq 0 .. Loop(c) - 1
       /\ \A i \in DOMAIN report[c] : report[c][i] \in Int

ClassOf(d) == device[d + 1].class

(* The devices of class c, in the order they were found.                   *)
DevicesOf(c) == {d \in 0 .. ans - 1 : ClassOf(d) = c}
Rank(d) == Cardinality({e \in DevicesOf(ClassOf(d)) : e < d})
Overflows(c) == Cardinality(DevicesOf(c)) > Size[c]

(* Every index an ENU function uses to read device[] is one the scan has   *)
(* filled in, even where the index comes from a word that an overflowing   *)
(* neighbour wrote or from the padding behind SD_device.                   *)
NoWildDevice ==
  \A c \in Classes : \A i \in DOMAIN report[c] : report[c][i] \in 0 .. ans - 1

(* The one word an overflow damages is entry 0 of the table behind: all    *)
(* other entries hold devices of their own class, and entry 0 one of its   *)
(* own class or of the class laid out before it.                           *)
DamageConfined ==
  \A w \in Words :
    w[1] \in Classes /\ mem[w] # EMPTY =>
      /\ mem[w] \in 0 .. ans - 1
      /\ \/ ClassOf(mem[w]) = w[1]
         \/ /\ w[2] = 0
            /\ ClassOf(mem[w]) \in Classes
            /\ Behind[ClassOf(mem[w])] = w[1]

(* If the table laid out before a class's did not overflow, its walk       *)
(* reports the devices of the class in the order they were found, up to    *)
(* the size of the table.  The SD host walk needs a table that is not full.*)
ReportsExact ==
  \A c \in Walked :
    /\ phase = After(c)
    /\ \A b \in Classes : Behind[b] = c => ~Overflows(b)
    /\ c = "SD" => Cardinality(DevicesOf(c)) < Size[c]
    => /\ DOMAIN report[c] = 0 .. (IF Overflows(c) THEN Size[c]
                                 ELSE Cardinality(DevicesOf(c))) - 1
       /\ \A i \in DOMAIN report[c] :
            report[c][i] \in DevicesOf(c) /\ Rank(report[c][i]) = i

(* "Not Found Any ..." is printed only when the scan found no such device, *)
(* whatever the other tables hold.                                         *)
NotFoundIsTrue ==
  \A c \in Walked :
    phase = After(c) /\ report[c] = << >> => DevicesOf(c) = {}
=============================================================================
