------------------------ MODULE PciEnumerationProofs ------------------------
(***************************************************************************)
(* For every table size and every bus: an overflow damages one word, and   *)
(* the walks never read device[] outside what the scan has filled in.      *)
(***************************************************************************)
EXTENDS PciEnumeration, FiniteSetTheorems, TLAPS

(* A count passes its table's size by one at most.                         *)
CountInv == \A c \in Classes : device_count[c] <= Size[c] + 1

(* The padding holds zeros or a device: a walk that strays into it after   *)
(* it has passed a used entry 0 still finds a device.                      *)
PaddingInv ==
  \A w \in Words : w[1] = "padding" => mem[w] = 0 \/ mem[w] \in 0 .. ans - 1

IInv == TypeOK /\ CountInv /\ PaddingInv /\ DamageConfined /\ NoWildDevice

Dev == [at : 0 .. Slots - 1, class : Classes \cup {"other"}, base : {0}]

-----------------------------------------------------------------------------
LEMMA SizeType ==
  ASSUME NEW a \in Areas
  PROVE  Size[a] \in Nat /\ Size[a] > 0
BY LayoutAssumption

LEMMA BehindType ==
  ASSUME NEW c \in Classes
  PROVE  Behind[c] \in Areas
BY DEF Behind, Areas, Classes

LEMMA WordsMember ==
  ASSUME NEW w \in Words
  PROVE  w[1] \in Areas /\ w[2] \in Nat /\ w[2] < Size[w[1]] /\ w = <<w[1], w[2]>>
BY SizeType DEF Words

(* The word that an entry up to one past the end designates.               *)
LEMMA WordType ==
  ASSUME NEW c \in Classes, NEW i \in 0 .. Size[c]
  PROVE  /\ Word(c, i) \in Words
         /\ Word(c, i) = <<c, i>> \/ Word(c, i) = <<Behind[c], 0>>
<1>1. c \in Areas /\ Size[c] \in Nat
  BY SizeType DEF Areas
<1>2. CASE i < Size[c]
  BY <1>1, <1>2 DEF Word, Words
<1>3. CASE i = Size[c]
  <2>1. Word(c, i) = <<Behind[c], 0>>
    BY <1>1, <1>3 DEF Word
  <2>2. <<Behind[c], 0>> \in Words
    <3>1. Behind[c] \in Areas /\ 0 \in 0 .. Size[Behind[c]] - 1
      BY BehindType, SizeType
    <3> QED BY <3>1 DEF Words
  <2> QED BY <2>1, <2>2
<1> QED BY <1>1, <1>2, <1>3

(* The words a walk reads.                                                 *)
LEMMA WalkedWords ==
  ASSUME NEW c \in Walked, NEW i \in 0 .. Loop(c) - 1
  PROVE  /\ Word(c, i) \in Words /\ i \in Nat
         /\ Word(c, i)[1] = c \/ (c = "SD" /\ Word(c, i)[1] = "padding")
<1>1. c \in Classes /\ c \in Areas /\ Size[c] \in Nat
  BY SizeType DEF Walked, Order, Classes, Areas
<1>2. CASE i < Size[c]
  <2>1. Word(c, i) = <<c, i>> /\ i \in 0 .. Size[c] - 1
    BY <1>1, <1>2, LayoutAssumption DEF Word, Loop, Areas, Classes
  <2> QED BY <1>1, <2>1 DEF Words
<1>3. CASE ~(i < Size[c])
  <2>1. c = "SD" /\ i \in Nat
    BY <1>1, <1>3, LayoutAssumption DEF Loop, Areas, Classes
  <2>2. Word(c, i) = <<"padding", i - Size["SD"]>>
    BY <1>3, <2>1 DEF Word, Behind, Classes
  <2>3. i - Size["SD"] \in 0 .. Size["padding"] - 1
    BY <1>1, <1>3, <2>1, LayoutAssumption DEF Loop, Areas, Classes
  <2>4. "padding" \in Areas
    BY DEF Areas
  <2> QED BY <2>1, <2>2, <2>3, <2>4 DEF Words
<1> QED BY <1>2, <1>3

LEMMA AfterType ==
  ASSUME NEW c \in Walked
  PROVE  After(c) \in Phases
<1> DEFINE n == CHOOSE m \in 1 .. Len(Order) : Order[m] = c
<1>1. Len(Order) = 6
  BY DEF Order
<1>2. \E m \in 1 .. Len(Order) : Order[m] = c
  BY DEF Walked
<1>3. n \in 1 .. Len(Order)
  BY <1>2
<1>4. n # Len(Order) => n + 1 \in 1 .. Len(Order)
  BY <1>1, <1>3
<1> HIDE DEF n
<1>5. n # Len(Order) => Order[n + 1] \in Walked
  BY <1>4 DEF Walked
<1> QED BY <1>5 DEF After, Phases, n

LEMMA InitIInv == Init => IInv
<1> SUFFICES ASSUME Init PROVE IInv
  OBVIOUS
<1>1. TypeOK
  BY LayoutAssumption DEF Init, TypeOK, Phases, EMPTY
<1>2. CountInv
  BY SizeType DEF Init, CountInv, Areas
<1>3. PaddingInv /\ DamageConfined
  BY DEF Init, PaddingInv, DamageConfined, Classes
<1>4. NoWildDevice
  BY DEF Init, NoWildDevice
<1> QED BY <1>1, <1>2, <1>3, <1>4 DEF IInv

-----------------------------------------------------------------------------
(* One more device in device[] leaves the others, and what is said of      *)
(* them, as they were.                                                     *)
LEMMA MoreDevices ==
  ASSUME IInv, NEW e \in Dev, device' = Append(device, e), ans' = ans + 1
  PROVE  /\ device' \in Seq(Dev) /\ Len(device') = ans' /\ ans \in Nat
         /\ device'[ans + 1].class = e.class
         /\ \A d \in 0 .. ans - 1 : d \in 0 .. ans' - 1 /\ device'[d + 1].class = ClassOf(d)
<1>1. device \in Seq(Dev) /\ Len(device) = ans /\ ans \in Nat
  BY LayoutAssumption DEF IInv, TypeOK, Dev
<1>2. device' \in Seq(Dev) /\ Len(device') = ans'
  BY <1>1
<1>3. device'[ans + 1] = e
  BY <1>1
<1>4. ASSUME NEW d \in 0 .. ans - 1
      PROVE  d \in 0 .. ans' - 1 /\ device'[d + 1] = device[d + 1]
  BY <1>1
<1> QED BY <1>1, <1>2, <1>3, <1>4 DEF ClassOf

(* The reports stay within device[] when it grows.                         *)
LEMMA WildMonotone ==
  ASSUME IInv, ans' = ans \/ ans' = ans + 1, report' = report
  PROVE  NoWildDevice'
<1>1. ans \in Nat
  BY LayoutAssumption DEF IInv, TypeOK
<1> QED BY <1>1 DEF IInv, NoWildDevice

LEMMA FoundIInv ==
  ASSUME IInv, NEW kind \in Classes \cup {"other"}, Found(kind)
  PROVE  IInv'
<1> DEFINE e == [at |-> slot, class |-> kind, base |-> conf_bar]
<1>1. e \in Dev
  <2>1. slot \in 0 .. Slots - 1
    BY LayoutAssumption DEF IInv, TypeOK, Found
  <2> QED BY <2>1 DEF Dev, conf_bar
<1>2. device' = Append(device, e) /\ ans' = ans + 1 /\ report' = report
      /\ phase' = phase /\ slot' = slot + 1 /\ slot < Slots /\ ans < DeviceMax
  BY DEF Found
<1> HIDE DEF e
<1>3. /\ device' \in Seq(Dev) /\ Len(device') = ans' /\ ans \in Nat
      /\ device'[ans + 1].class = e.class
      /\ \A d \in 0 .. ans - 1 : d \in 0 .. ans' - 1 /\ device'[d + 1].class = ClassOf(d)
  BY <1>1, <1>2, MoreDevices
<1>4. NoWildDevice'
  BY <1>2, WildMonotone
<1>5. slot' \in 0 .. Slots /\ ans' \in 0 .. DeviceMax /\ ans \in 0 .. ans' - 1
  BY <1>2, <1>3, LayoutAssumption DEF IInv, TypeOK
<1>6. CASE UNCHANGED <<device_count, mem>>
  <2>1. TypeOK'
    BY <1>2, <1>3, <1>5, <1>6 DEF IInv, TypeOK, Dev, Loop
  <2>2. CountInv' /\ PaddingInv'
    BY <1>2, <1>3, <1>6 DEF IInv, CountInv, PaddingInv
  <2>3. DamageConfined'
    BY <1>3, <1>6 DEF IInv, DamageConfined, ClassOf
  <2> QED BY <1>4, <2>1, <2>2, <2>3 DEF IInv
<1>7. CASE kind \in Classes /\ File(kind)
  <2> DEFINE at == Word(kind, device_count[kind])
  <2>1. device_count[kind] \in 0 .. Size[kind] /\ Size[kind] \in Nat
    BY <1>7, SizeType DEF File, IInv, TypeOK, Areas
  <2>2. /\ at \in Words
        /\ at = <<kind, device_count[kind]>> \/ at = <<Behind[kind], 0>>
    BY <1>7, <2>1, WordType
  <2>3. /\ mem' = [mem EXCEPT ![at] = ans]
        /\ device_count' = [device_count EXCEPT ![kind] = @ + 1]
    BY <1>7 DEF File
  <2> HIDE DEF at
  <2>4. mem' \in [Words -> Int] /\ mem'[at] = ans
        /\ \A w \in Words : w # at => mem'[w] = mem[w]
    BY <1>3, <2>2, <2>3 DEF IInv, TypeOK
  <2>5. TypeOK'
    <3>1. device_count' \in [Classes -> Nat]
      <4>1. device_count \in [Classes -> Nat] /\ device_count[kind] + 1 \in Nat
        BY <2>1 DEF IInv, TypeOK
      <4> QED BY <2>3, <4>1
    <3> QED BY <1>2, <1>3, <1>5, <2>4, <3>1 DEF IInv, TypeOK, Dev, Loop
  <2>6. CountInv'
    BY <2>1, <2>3, SizeType DEF IInv, TypeOK, CountInv, Areas
  <2>7. PaddingInv'
    BY <1>2, <1>3, <1>5, <2>4 DEF IInv, PaddingInv
  <2>8. DamageConfined'
    <3>1. ASSUME NEW w \in Words, w[1] \in Classes, mem'[w] # EMPTY, w # at
          PROVE  /\ mem'[w] \in 0 .. ans' - 1
                 /\ \/ device'[mem'[w] + 1].class = w[1]
                    \/ /\ w[2] = 0
                       /\ device'[mem'[w] + 1].class \in Classes
                       /\ Behind[device'[mem'[w] + 1].class] = w[1]
      <4>1. mem'[w] = mem[w]
        BY <3>1, <2>4
      <4>2. /\ mem[w] \in 0 .. ans - 1
            /\ \/ ClassOf(mem[w]) = w[1]
               \/ /\ w[2] = 0
                  /\ ClassOf(mem[w]) \in Classes
                  /\ Behind[ClassOf(mem[w])] = w[1]
        BY <3>1, <4>1 DEF IInv, DamageConfined
      <4>3. mem[w] \in 0 .. ans' - 1 /\ device'[mem[w] + 1].class = ClassOf(mem[w])
        BY <1>3, <4>2
      <4> QED BY <4>1, <4>2, <4>3
    <3>2. /\ mem'[at] \in 0 .. ans' - 1
          /\ \/ device'[mem'[at] + 1].class = at[1]
             \/ /\ at[2] = 0
                /\ device'[mem'[at] + 1].class \in Classes
                /\ Behind[device'[mem'[at] + 1].class] = at[1]
      <4>1. e.class = kind
        BY DEF e
      <4>2. device'[mem'[at] + 1].class = kind
        BY <1>3, <2>4, <4>1 DEF ClassOf
      <4>3. CASE at = <<kind, device_count[kind]>>
        BY <1>5, <2>4, <4>2, <4>3
      <4>4. CASE at = <<Behind[kind], 0>>
        <5>1. at[1] = Behind[kind] /\ at[2] = 0
          BY <4>4
        <5> QED BY <1>5, <1>7, <2>4, <4>2, <5>1
      <4> QED BY <2>2, <4>3, <4>4
    <3> QED BY <3>1, <3>2 DEF DamageConfined, ClassOf
  <2> QED BY <1>4, <2>5, <2>6, <2>7, <2>8 DEF IInv
<1> QED BY <1>6, <1>7 DEF Found

LEMMA ENUIInv ==
  ASSUME IInv, NEW c \in Walked, ENU(c)
  PROVE  IInv'
<1>1. c \in Classes /\ ans \in Nat
  BY LayoutAssumption DEF Walked, Order, Classes, IInv, TypeOK
<1>2. /\ report' = [report EXCEPT ![c] = [i \in Seen(c) |-> mem[Word(c, i)]]]
      /\ UNCHANGED <<slot, ans, device, device_count, mem>>
      /\ phase' \in Phases
  BY AfterType DEF ENU
<1>3. Seen(c) \subseteq 0 .. Loop(c) - 1
  BY DEF Seen
<1>4. ASSUME NEW i \in Seen(c)
      PROVE  mem[Word(c, i)] \in 0 .. ans - 1
  <2>1. /\ Word(c, i) \in Words /\ i \in Nat
        /\ Word(c, i)[1] = c \/ (c = "SD" /\ Word(c, i)[1] = "padding")
    BY <1>3, WalkedWords
  <2>2. mem[Word(c, i)] # EMPTY /\ mem[Word(c, 0)] # EMPTY
    BY <2>1 DEF Seen
  <2>3. CASE Word(c, i)[1] = c
    BY <1>1, <2>1, <2>2, <2>3 DEF IInv, DamageConfined
  <2>4. CASE c = "SD" /\ Word(c, i)[1] = "padding"
    <3>1. Word(c, 0) = <<c, 0>> /\ <<c, 0>> \in Words
      BY <1>1, SizeType DEF Word, Words, Areas
    <3>2. mem[Word(c, 0)] \in 0 .. ans - 1
      BY <1>1, <2>2, <3>1 DEF IInv, DamageConfined
    <3>3. 0 \in 0 .. ans - 1
      BY <1>1, <3>2
    <3> QED BY <2>1, <2>4, <3>3 DEF IInv, PaddingInv
  <2> QED BY <2>1, <2>3, <2>4
<1>5. NoWildDevice'
  BY <1>1, <1>2, <1>4 DEF IInv, TypeOK, NoWildDevice
<1>6. TypeOK'
  BY <1>1, <1>2, <1>3, <1>4 DEF IInv, TypeOK, Loop
<1>7. CountInv' /\ PaddingInv' /\ DamageConfined'
  BY <1>2 DEF IInv, CountInv, PaddingInv, DamageConfined, ClassOf
<1> QED BY <1>5, <1>6, <1>7 DEF IInv

LEMMA NextIInv == IInv /\ [Next]_vars => IInv'
<1> SUFFICES ASSUME IInv, [Next]_vars PROVE IInv'
  OBVIOUS
<1>1. ASSUME UNCHANGED <<ans, device, device_count, mem, report>>,
             phase' \in Phases, slot' \in 0 .. Slots
      PROVE  IInv'
  BY <1>1 DEF IInv, TypeOK, CountInv, PaddingInv, DamageConfined,
     NoWildDevice, ClassOf, Loop
<1>2. CASE Absent
  <2>1. slot' \in 0 .. Slots
    BY <1>2, LayoutAssumption DEF Absent, IInv, TypeOK
  <2> QED BY <1>1, <1>2, <2>1 DEF Absent, IInv, TypeOK
<1>3. CASE ScanEnds
  <2>1. phase' \in Phases
    BY <1>3 DEF ScanEnds, Phases, Walked, Order
  <2> QED BY <1>1, <1>3, <2>1 DEF ScanEnds, IInv, TypeOK
<1>4. CASE UNCHANGED vars
  BY <1>1, <1>4 DEF vars, IInv, TypeOK
<1> QED BY <1>2, <1>3, <1>4, FoundIInv, ENUIInv DEF Next

(* The types, the layout of the tables and what they hold, at every step.  *)
THEOREM PciInvariant == Spec => []IInv
BY InitIInv, NextIInv, PTL DEF Spec

(* The walks only ever read devices that the scan has recorded.            *)
THEOREM NeverWild == Spec => []NoWildDevice
<1>1. IInv => NoWildDevice
  BY DEF IInv
<1> QED BY <1>1, PciInvariant, PTL

(* An overflowing table damages entry 0 of the table behind it only.       *)
THEOREM OverflowConfined == Spec => []DamageConfined
<1>1. IInv => DamageConfined
  BY DEF IInv
<1> QED BY <1>1, PciInvariant, PTL

(* device_init: every table entry and every report has its type.           *)
THEOREM TypeCorrect == Spec => []TypeOK
<1>1. IInv => TypeOK
  BY DEF IInv
<1> QED BY <1>1, PciInvariant, PTL
-----------------------------------------------------------------------------
(* What the tables hold, entry by entry.  A count is the number of devices *)
(* of its class until the table has overflowed; an entry below the count   *)
(* is in use, and the table holds the devices of its class in the order    *)
(* they were found, unless the table laid out before it has overflowed.    *)
Counted ==
  \A c \in Classes :
    device_count[c] = IF Overflows(c) THEN Size[c] + 1
                      ELSE Cardinality(DevicesOf(c))

Undamaged(c) == \A b \in Classes : Behind[b] = c => ~Overflows(b)

Filed ==
  \A c \in Classes : \A i \in 0 .. Size[c] - 1 :
    /\ i < device_count[c] => mem[<<c, i>>] # EMPTY
    /\ Undamaged(c) =>
         IF i < device_count[c]
         THEN mem[<<c, i>>] \in DevicesOf(c) /\ Rank(mem[<<c, i>>]) = i
         ELSE mem[<<c, i>>] = EMPTY

(* A report is what the walk before this phase has read.                   *)
Reported ==
  \A c \in Walked :
    phase = After(c) => report[c] = [i \in Seen(c) |-> mem[Word(c, i)]]

TablesInv == Counted /\ Filed /\ Reported

LEMMA DevicesFinite ==
  ASSUME IInv, NEW c
  PROVE  IsFiniteSet(DevicesOf(c)) /\ Cardinality(DevicesOf(c)) \in Nat
<1>1. ans \in Nat
  BY LayoutAssumption DEF IInv, TypeOK
<1>2. IsFiniteSet(0 .. ans - 1)
  BY <1>1, FS_Interval
<1>3. DevicesOf(c) \in SUBSET (0 .. ans - 1)
  BY DEF DevicesOf
<1> QED BY <1>2, <1>3, FS_Subset, FS_CardinalityType

(* The walks follow each other, the first after the scan.                  *)
LEMMA AfterIs ==
  /\ After("ISA") = "IDE" /\ After("IDE") = "SATA" /\ After("SATA") = "USB"
  /\ After("USB") = "SD" /\ After("SD") = "IEEE1394"
  /\ After("IEEE1394") = "done"
<1> DEFINE n(c) == CHOOSE m \in 1 .. Len(Order) : Order[m] = c
<1>1. Len(Order) = 6
  BY DEF Order
<1>2. /\ Order[1] = "ISA" /\ Order[2] = "IDE" /\ Order[3] = "SATA"
      /\ Order[4] = "USB" /\ Order[5] = "SD" /\ Order[6] = "IEEE1394"
  BY DEF Order
<1>3. \A m \in 1 .. Len(Order) : m = 1 \/ m = 2 \/ m = 3 \/ m = 4 \/ m = 5 \/ m = 6
  BY <1>1
<1>4. n("ISA") = 1
  BY <1>1, <1>2, <1>3
<1>5. n("IDE") = 2
  BY <1>1, <1>2, <1>3
<1>6. n("SATA") = 3
  BY <1>1, <1>2, <1>3
<1>7. n("USB") = 4
  BY <1>1, <1>2, <1>3
<1>8. n("SD") = 5
  BY <1>1, <1>2, <1>3
<1>9. n("IEEE1394") = 6
  BY <1>1, <1>2, <1>3
<1>10. \A c : After(c) = IF n(c) = Len(Order) THEN "done" ELSE Order[n(c) + 1]
  BY DEF After
<1> HIDE DEF n
<1> QED BY <1>1, <1>2, <1>4, <1>5, <1>6, <1>7, <1>8, <1>9, <1>10

LEMMA WalkedIs == Walked = {"ISA", "IDE", "SATA", "USB", "SD", "IEEE1394"}
<1>1. Len(Order) = 6
  BY DEF Order
<1>2. /\ Order[1] = "ISA" /\ Order[2] = "IDE" /\ Order[3] = "SATA"
      /\ Order[4] = "USB" /\ Order[5] = "SD" /\ Order[6] = "IEEE1394"
  BY DEF Order
<1>3. 1 .. 6 = {1, 2, 3, 4, 5, 6}
  OBVIOUS
<1> QED BY <1>1, <1>2, <1>3 DEF Walked

LEMMA AfterDistinct ==
  /\ \A c \in Walked : After(c) # "scan" /\ After(c) # Order[1]
  /\ \A b, c \in Walked : After(b) = After(c) => b = c
<1>1. Order[1] = "ISA"
  BY DEF Order
<1> QED BY <1>1, AfterIs, WalkedIs

-----------------------------------------------------------------------------
(* A device found joins the devices of its class, behind the others.       *)
LEMMA DevicesGrow ==
  ASSUME IInv, NEW kind \in Classes \cup {"other"}, Found(kind)
  PROVE  /\ \A c : DevicesOf(c)' = IF c = kind THEN DevicesOf(c) \cup {ans}
                                  ELSE DevicesOf(c)
         /\ \A c : \A d \in DevicesOf(c) :
              d \in Nat /\ d < ans /\ ClassOf(d)' = c /\ ClassOf(d) = c
         /\ \A d : d = ans => ClassOf(d)' = kind
         /\ ans \in Nat
<1> DEFINE e == [at |-> slot, class |-> kind, base |-> conf_bar]
<1>1. e \in Dev
  <2>1. slot \in 0 .. Slots - 1
    BY LayoutAssumption DEF IInv, TypeOK, Found
  <2> QED BY <2>1 DEF Dev, conf_bar
<1>2. device' = Append(device, e) /\ ans' = ans + 1 /\ e.class = kind
  BY DEF Found
<1> HIDE DEF e
<1>3. /\ Len(device') = ans' /\ ans \in Nat
      /\ device'[ans + 1].class = kind
      /\ \A d \in 0 .. ans - 1 : d \in 0 .. ans' - 1 /\ device'[d + 1].class = ClassOf(d)
  BY <1>1, <1>2, MoreDevices
<1>4. 0 .. ans' - 1 = (0 .. ans - 1) \cup {ans} /\ ans \notin 0 .. ans - 1
  BY <1>2, <1>3
<1>5. \A c : DevicesOf(c)' = {d \in 0 .. ans' - 1 : device'[d + 1].class = c}
  BY DEF DevicesOf, ClassOf
<1>6. \A c : DevicesOf(c)' = IF c = kind THEN DevicesOf(c) \cup {ans}
                             ELSE DevicesOf(c)
  <2> TAKE c
  <2>1. DevicesOf(c) = {d \in 0 .. ans - 1 : device'[d + 1].class = c}
    BY <1>3 DEF DevicesOf
  <2> QED BY <1>3, <1>4, <1>5, <2>1
<1>7. \A c : \A d \in DevicesOf(c) :
         d \in Nat /\ d < ans /\ ClassOf(d)' = c /\ ClassOf(d) = c
  <2> TAKE c
  <2> TAKE d \in DevicesOf(c)
  <2>1. d \in 0 .. ans - 1 /\ ClassOf(d) = c
    BY DEF DevicesOf
  <2>2. ClassOf(d)' = device'[d + 1].class
    BY DEF ClassOf
  <2> QED BY <1>3, <2>1, <2>2
<1>8. \A d : d = ans => ClassOf(d)' = kind
  BY <1>3 DEF ClassOf
<1> QED BY <1>3, <1>6, <1>7, <1>8

LEMMA RanksStay ==
  ASSUME IInv, NEW kind \in Classes \cup {"other"}, Found(kind)
  PROVE  /\ \A c : \A d \in DevicesOf(c) : Rank(d)' = Rank(d)
         /\ \A d : d = ans => Rank(d)' = Cardinality(DevicesOf(kind))
<1>1. ASSUME NEW c, NEW d \in DevicesOf(c)
      PROVE  Rank(d)' = Rank(d)
  <2>1. d \in Nat /\ d < ans /\ ClassOf(d)' = c /\ ClassOf(d) = c /\ ans \in Nat
    BY DevicesGrow
  <2>2. {e \in DevicesOf(c)' : e < d} = {e \in DevicesOf(c) : e < d}
    BY <2>1, DevicesGrow
  <2>3. Rank(d)' = Cardinality({e \in DevicesOf(c)' : e < d})
    BY <2>1 DEF Rank
  <2>4. Rank(d) = Cardinality({e \in DevicesOf(c) : e < d})
    BY <2>1 DEF Rank
  <2> QED BY <2>2, <2>3, <2>4
<1>2. ASSUME NEW d, d = ans
      PROVE  Rank(d)' = Cardinality(DevicesOf(kind))
  <2>1. ans \in Nat /\ ClassOf(d)' = kind
        /\ DevicesOf(kind)' = DevicesOf(kind) \cup {ans}
        /\ \A e \in DevicesOf(kind) : e \in Nat /\ e < ans
    BY <1>2, DevicesGrow
  <2>2. {e \in DevicesOf(kind)' : e < d} = DevicesOf(kind)
    BY <1>2, <2>1
  <2>3. Rank(d)' = Cardinality({e \in DevicesOf(kind)' : e < d})
    BY <2>1 DEF Rank
  <2> QED BY <2>2, <2>3
<1> QED BY <1>1, <1>2

(* An overflow is for good.                                                *)
LEMMA CardinalitiesGrow ==
  ASSUME IInv, NEW kind \in Classes \cup {"other"}, Found(kind)
  PROVE  /\ \A c : Cardinality(DevicesOf(c))' =
                     IF c = kind THEN Cardinality(DevicesOf(c)) + 1
                     ELSE Cardinality(DevicesOf(c))
         /\ \A c \in Classes : Overflows(c) => Overflows(c)'
         /\ \A c \in Classes : c # kind => (Overflows(c)' <=> Overflows(c))
<1>1. ASSUME NEW c
      PROVE  Cardinality(DevicesOf(c)') =
               IF c = kind THEN Cardinality(DevicesOf(c)) + 1
               ELSE Cardinality(DevicesOf(c))
  <2>1. /\ DevicesOf(c)' = IF c = kind THEN DevicesOf(c) \cup {ans}
                           ELSE DevicesOf(c)
        /\ ans \in Nat /\ \A d \in DevicesOf(c) : d \in Nat /\ d < ans
    BY DevicesGrow
  <2>2. ans \notin DevicesOf(c)
    BY <2>1
  <2>3. IsFiniteSet(DevicesOf(c))
    BY DevicesFinite
  <2> QED BY <2>1, <2>2, <2>3, FS_AddElement
<1>2. \A c \in Classes : Size[c] \in Nat
  BY SizeType DEF Areas
<1>3. \A c : Cardinality(DevicesOf(c)) \in Nat
  BY DevicesFinite
<1> QED BY <1>1, <1>2, <1>3 DEF Overflows

LEMMA InitTables == Init => TablesInv
<1> SUFFICES ASSUME Init PROVE TablesInv
  OBVIOUS
<1>1. \A c : DevicesOf(c) = {}
  BY DEF Init, DevicesOf
<1>2. \A c : Cardinality(DevicesOf(c)) = 0
  BY <1>1, FS_EmptySet
<1>3. \A c \in Classes : Size[c] \in Nat /\ ~Overflows(c)
  BY <1>2, SizeType DEF Overflows, Areas
<1>4. Counted
  BY <1>2, <1>3 DEF Counted, Init
<1>5. \A c \in Classes : \A i \in 0 .. Size[c] - 1 :
        <<c, i>> \in Words /\ i \in Nat
  BY <1>3 DEF Words, Areas
<1>6. Filed
  <2> SUFFICES ASSUME NEW c \in Classes, NEW i \in 0 .. Size[c] - 1
               PROVE  /\ i < device_count[c] => mem[<<c, i>>] # EMPTY
                      /\ Undamaged(c) =>
                           IF i < device_count[c]
                           THEN /\ mem[<<c, i>>] \in DevicesOf(c)
                                /\ Rank(mem[<<c, i>>]) = i
                           ELSE mem[<<c, i>>] = EMPTY
    BY DEF Filed
  <2>1. <<c, i>>[1] \in Classes
    OBVIOUS
  <2>2. device_count[c] = 0 /\ mem[<<c, i>>] = EMPTY
    BY <1>5, <2>1 DEF Init
  <2>3. ~(i < device_count[c])
    BY <1>5, <2>2
  <2> QED BY <2>2, <2>3
<1>7. Reported
  BY AfterDistinct DEF Reported, Init
<1> QED BY <1>4, <1>6, <1>7 DEF TablesInv

LEMMA FoundCounted ==
  ASSUME IInv, TablesInv, NEW kind \in Classes \cup {"other"}, Found(kind)
  PROVE  Counted'
<1> SUFFICES ASSUME NEW c \in Classes
             PROVE  device_count'[c] = IF Overflows(c)' THEN Size[c] + 1
                                       ELSE Cardinality(DevicesOf(c))'
  BY DEF Counted
<1>1. /\ Size[c] \in Nat /\ Cardinality(DevicesOf(c)) \in Nat
      /\ device_count \in [Classes -> Nat]
      /\ device_count[c] = IF Overflows(c) THEN Size[c] + 1
                           ELSE Cardinality(DevicesOf(c))
  BY SizeType, DevicesFinite DEF TablesInv, Counted, Areas, IInv, TypeOK
<1>2. CASE c # kind
  <2>1. device_count'[c] = device_count[c]
    BY <1>1, <1>2 DEF Found, File
  <2> QED BY <1>1, <1>2, <2>1, CardinalitiesGrow
<1>3. CASE c = kind
  <2>1. Cardinality(DevicesOf(c))' = Cardinality(DevicesOf(c)) + 1
    BY <1>3, CardinalitiesGrow
  <2>2. CASE File(kind)
    <3>1. device_count'[c] = device_count[c] + 1 /\ device_count[c] <= Size[c]
      BY <1>1, <1>3, <2>2 DEF File
    <3> QED BY <1>1, <2>1, <3>1 DEF Overflows
  <2>3. CASE device_count[kind] > Size[kind] /\ UNCHANGED <<device_count, mem>>
    BY <1>1, <1>3, <2>1, <2>3 DEF Overflows
  <2> QED BY <1>3, <2>2, <2>3 DEF Found
<1> QED BY <1>2, <1>3

(* An entry that was right stays right.                                    *)
LEMMA EntryStays ==
  ASSUME IInv, TablesInv, NEW kind \in Classes \cup {"other"}, Found(kind),
         NEW c \in Classes, NEW i \in 0 .. Size[c] - 1,
         mem'[<<c, i>>] = mem[<<c, i>>],
         i < device_count'[c] <=> i < device_count[c]
  PROVE  /\ i < device_count'[c] => mem'[<<c, i>>] # EMPTY
         /\ Undamaged(c)' =>
              IF i < device_count'[c]
              THEN mem'[<<c, i>>] \in DevicesOf(c)' /\ Rank(mem[<<c, i>>])' = i
              ELSE mem'[<<c, i>>] = EMPTY
<1>1. Undamaged(c)' => Undamaged(c)
  BY CardinalitiesGrow DEF Undamaged
<1>2. DevicesOf(c) \subseteq DevicesOf(c)'
  BY DevicesGrow
<1>3. \A d \in DevicesOf(c) : Rank(d)' = Rank(d)
  BY RanksStay
<1>4. /\ i < device_count[c] => mem[<<c, i>>] # EMPTY
      /\ Undamaged(c) =>
           IF i < device_count[c]
           THEN mem[<<c, i>>] \in DevicesOf(c) /\ Rank(mem[<<c, i>>]) = i
           ELSE mem[<<c, i>>] = EMPTY
  BY DEF TablesInv, Filed
<1> QED BY <1>1, <1>2, <1>3, <1>4

LEMMA FoundFiled ==
  ASSUME IInv, TablesInv, NEW kind \in Classes \cup {"other"}, Found(kind)
  PROVE  Filed'
<1> SUFFICES ASSUME NEW c \in Classes, NEW i \in 0 .. Size[c] - 1
             PROVE  /\ i < device_count'[c] => mem'[<<c, i>>] # EMPTY
                    /\ Undamaged(c)' =>
                         IF i < device_count'[c]
                         THEN /\ mem'[<<c, i>>] \in DevicesOf(c)'
                              /\ Rank(mem[<<c, i>>])' = i
                         ELSE mem'[<<c, i>>] = EMPTY
  BY DEF Filed
<1>1. /\ Size[c] \in Nat /\ i \in Nat /\ i < Size[c] /\ <<c, i>> \in Words
      /\ ans \in Nat /\ device_count \in [Classes -> Nat]
      /\ mem \in [Words -> Int]
  BY SizeType, LayoutAssumption DEF Areas, Words, IInv, TypeOK
<1>2. CASE UNCHANGED <<device_count, mem>>
  BY <1>2, EntryStays
<1>3. CASE kind \in Classes /\ File(kind)
  <2> DEFINE at == Word(kind, device_count[kind])
  <2>1. /\ device_count[kind] \in 0 .. Size[kind] /\ Size[kind] \in Nat
        /\ at \in Words
    BY <1>1, <1>3, SizeType, WordType DEF File, Areas
  <2>2. /\ mem' = [mem EXCEPT ![at] = ans]
        /\ device_count' = [device_count EXCEPT ![kind] = @ + 1]
    BY <1>3 DEF File
  <2>3. at = IF device_count[kind] < Size[kind] THEN <<kind, device_count[kind]>>
             ELSE <<Behind[kind], 0>>
    BY <2>1 DEF Word
  <2> HIDE DEF at
  <2>4. /\ mem'[at] = ans /\ \A w \in Words : w # at => mem'[w] = mem[w]
        /\ device_count'[c] = IF c = kind THEN device_count[c] + 1
                              ELSE device_count[c]
    BY <1>1, <2>1, <2>2
  <2>5. CASE <<c, i>> # at
    <3>1. mem'[<<c, i>>] = mem[<<c, i>>]
      BY <1>1, <2>4, <2>5
    <3>2. i < device_count'[c] <=> i < device_count[c]
      BY <1>1, <2>1, <2>3, <2>4, <2>5
    <3> QED BY <3>1, <3>2, EntryStays
  <2>6. CASE <<c, i>> = at /\ device_count[kind] < Size[kind]
    <3>1. c = kind /\ i = device_count[kind] /\ mem'[<<c, i>>] = ans
      BY <2>3, <2>4, <2>6
    <3>2. ~Overflows(kind) => i = Cardinality(DevicesOf(kind))
      BY <1>3, <3>1 DEF TablesInv, Counted
    <3>3. ~Overflows(kind)
      BY <1>3, <2>1, <2>6 DEF TablesInv, Counted
    <3>4. ans \in DevicesOf(c)'
      BY <3>1, DevicesGrow
    <3>5. Rank(mem[<<c, i>>])' = i
      <4>1. \A d : d = ans => Rank(d)' = i
        BY <3>1, <3>2, <3>3, RanksStay
      <4> QED BY <3>1, <4>1
    <3> QED BY <1>1, <2>4, <3>1, <3>4, <3>5 DEF EMPTY
  <2>7. CASE <<c, i>> = at /\ ~(device_count[kind] < Size[kind])
    <3>1. c = Behind[kind] /\ mem'[<<c, i>>] = ans /\ device_count[kind] = Size[kind]
      BY <2>1, <2>3, <2>4, <2>7
    <3>2. Overflows(kind)'
      <4>1. Cardinality(DevicesOf(kind)) >= Size[kind]
        BY <1>3, <2>1, <3>1 DEF TablesInv, Counted, Overflows
      <4>2. Cardinality(DevicesOf(kind))' = Cardinality(DevicesOf(kind)) + 1
        BY CardinalitiesGrow
      <4>3. Cardinality(DevicesOf(kind)) \in Nat
        BY DevicesFinite
      <4> QED BY <2>1, <4>1, <4>2, <4>3 DEF Overflows
    <3>3. ~Undamaged(c)'
      BY <1>3, <3>1, <3>2 DEF Undamaged
    <3> QED BY <1>1, <3>1, <3>3 DEF EMPTY
  <2> QED BY <2>5, <2>6, <2>7
<1> QED BY <1>2, <1>3 DEF Found

(* A step that leaves the tables and device[] alone.                       *)
LEMMA TablesStay ==
  ASSUME TablesInv, UNCHANGED <<ans, device, device_count, mem>>
  PROVE  Counted' /\ Filed'
<1>1. /\ \A c : DevicesOf(c)' = DevicesOf(c)
      /\ \A d : ClassOf(d)' = ClassOf(d)
  BY DEF DevicesOf, ClassOf
<1>2. \A d : Rank(d)' = Rank(d)
  BY <1>1 DEF Rank
<1>3. \A c : (Overflows(c)' <=> Overflows(c)) /\ (Undamaged(c)' <=> Undamaged(c))
  BY <1>1 DEF Overflows, Undamaged
<1>4. Counted'
  BY <1>1, <1>3 DEF TablesInv, Counted
<1>5. ASSUME NEW c \in Classes, NEW i \in 0 .. Size[c] - 1
      PROVE  /\ i < device_count'[c] => mem'[<<c, i>>] # EMPTY
             /\ Undamaged(c)' =>
                  IF i < device_count'[c]
                  THEN /\ mem'[<<c, i>>] \in DevicesOf(c)'
                       /\ Rank(mem[<<c, i>>])' = i
                  ELSE mem'[<<c, i>>] = EMPTY
  <2>1. /\ i < device_count[c] => mem[<<c, i>>] # EMPTY
        /\ Undamaged(c) =>
             IF i < device_count[c]
             THEN mem[<<c, i>>] \in DevicesOf(c) /\ Rank(mem[<<c, i>>]) = i
             ELSE mem[<<c, i>>] = EMPTY
    BY DEF TablesInv, Filed
  <2>2. mem'[<<c, i>>] = mem[<<c, i>>] /\ device_count'[c] = device_count[c]
    OBVIOUS
  <2>3. Rank(mem[<<c, i>>])' = Rank(mem[<<c, i>>])
    BY <1>2, <2>2
  <2> QED BY <1>1, <1>3, <2>1, <2>2, <2>3
<1>6. Filed'
  BY <1>5 DEF Filed
<1> QED BY <1>4, <1>6

(* What a walk read is what a later look at the tables would find: nothing *)
(* is filed after the scan.                                                *)
LEMMA ENUTables ==
  ASSUME IInv, TablesInv, NEW c \in Walked, ENU(c)
  PROVE  TablesInv'
<1>1. UNCHANGED <<slot, ans, device, device_count, mem>>
  BY DEF ENU
<1>2. Counted' /\ Filed'
  BY <1>1, TablesStay
<1>3. Reported'
  <2> SUFFICES ASSUME NEW b \in Walked, phase' = After(b)
               PROVE  report'[b] = [i \in Seen(b)' |-> mem'[Word(b, i)]]
    BY DEF Reported
  <2>1. b = c
    BY AfterDistinct DEF ENU
  <2>2. Seen(b)' = Seen(b)
    BY <1>1 DEF Seen
  <2>3. c \in DOMAIN report
    BY DEF IInv, TypeOK, Walked, Order, Classes
  <2> QED BY <1>1, <2>1, <2>2, <2>3 DEF ENU
<1> QED BY <1>2, <1>3 DEF TablesInv

LEMMA NextTables == IInv /\ TablesInv /\ [Next]_vars => TablesInv'
<1> SUFFICES ASSUME IInv, TablesInv, [Next]_vars PROVE TablesInv'
  OBVIOUS
<1>1. ASSUME UNCHANGED <<ans, device, device_count, mem, report>>,
             phase' \in {phase, "scan", Order[1]}
      PROVE  TablesInv'
  <2>1. Counted' /\ Filed'
    BY <1>1, TablesStay
  <2>2. \A c : Seen(c)' = Seen(c)
    BY <1>1 DEF Seen
  <2>3. Reported'
    BY <1>1, <2>2, AfterDistinct DEF TablesInv, Reported
  <2> QED BY <2>1, <2>3 DEF TablesInv
<1>2. CASE Absent
  BY <1>1, <1>2 DEF Absent
<1>3. ASSUME NEW kind \in Classes \cup {"other"}, Found(kind)
      PROVE  TablesInv'
  <2>1. Reported'
    BY <1>3, AfterDistinct DEF Found, Reported
  <2> QED BY <1>3, <2>1, FoundCounted, FoundFiled DEF TablesInv
<1>4. CASE ScanEnds
  BY <1>1, <1>4 DEF ScanEnds
<1>5. CASE UNCHANGED vars
  BY <1>1, <1>5 DEF vars
<1> QED BY <1>2, <1>3, <1>4, <1>5, ENUTables DEF Next

(* A count is the number of the class's devices found, and each has an     *)
(* entry of its table.                                                     *)
THEOREM TablesInvariant == Spec => [](IInv /\ TablesInv)
BY InitIInv, NextIInv, InitTables, NextTables, PTL DEF Spec

(* "Not Found Any ..." is never printed of a class the scan has found.     *)
THEOREM NotFoundTrue == Spec => []NotFoundIsTrue
<1>1. IInv /\ TablesInv => NotFoundIsTrue
  <2> SUFFICES ASSUME IInv, TablesInv, NEW c \in Walked,
                      phase = After(c), report[c] = << >>
               PROVE  DevicesOf(c) = {}
    BY DEF NotFoundIsTrue
  <2>1. c \in Classes /\ Size[c] \in Nat /\ Size[c] > 0 /\ 0 < Loop(c)
    BY SizeType, LayoutAssumption DEF Walked, Order, Classes, Areas, Loop
  <2>2. Seen(c) = {}
    <3>1. << >> = [i \in Seen(c) |-> mem[Word(c, i)]]
      BY DEF TablesInv, Reported
    <3>2. DOMAIN << >> = Seen(c)
      BY <3>1
    <3>3. DOMAIN << >> = {}
      OBVIOUS
    <3> QED BY <3>2, <3>3
  <2>3. mem[<<c, 0>>] = EMPTY
    <3>1. Loop(c) \in Int
      BY <2>1, LayoutAssumption DEF Loop, Areas
    <3>2. 0 \in 0 .. Loop(c) - 1 /\ 0 .. 0 = {0}
      BY <2>1, <3>1
    <3>3. Word(c, 0) = <<c, 0>>
      BY <2>1 DEF Word
    <3> QED BY <2>2, <3>2, <3>3 DEF Seen
  <2>4. device_count[c] \in Nat /\ ~(0 < device_count[c])
    BY <2>1, <2>3 DEF TablesInv, Filed, IInv, TypeOK
  <2>5. Cardinality(DevicesOf(c)) = 0
    BY <2>1, <2>4 DEF TablesInv, Counted
  <2> QED BY <2>5, DevicesFinite, FS_EmptySet
<1> QED BY <1>1, TablesInvariant, PTL

(* A walk reports the devices of its class, all that its table holds, in   *)
(* the order they were found, unless another table overflowed into it.     *)
THEOREM ReportedExactly == Spec => []ReportsExact
<1>1. IInv /\ TablesInv => ReportsExact
  <2> SUFFICES ASSUME IInv, TablesInv, NEW c \in Walked,
                      phase = After(c), Undamaged(c),
                      c = "SD" => Cardinality(DevicesOf(c)) < Size[c]
               PROVE  /\ DOMAIN report[c] =
                           0 .. (IF Overflows(c) THEN Size[c]
                                 ELSE Cardinality(DevicesOf(c))) - 1
                      /\ \A i \in DOMAIN report[c] :
                           /\ report[c][i] \in DevicesOf(c)
                           /\ Rank(report[c][i]) = i
    BY DEF ReportsExact, Undamaged
  <2> DEFINE n == IF Overflows(c) THEN Size[c] ELSE Cardinality(DevicesOf(c))
  <2>1. c \in Classes /\ Size[c] \in Nat /\ Cardinality(DevicesOf(c)) \in Nat
    BY SizeType, DevicesFinite DEF Walked, Order, Classes, Areas
  <2>2. /\ Loop(c) \in Nat /\ Size[c] <= Loop(c)
        /\ n \in 0 .. Size[c]
        /\ n = Size[c] => Loop(c) = Size[c]
    BY <2>1, LayoutAssumption DEF Loop, Overflows, Areas
  <2>3. \A i \in 0 .. Size[c] - 1 :
          /\ Word(c, i) = <<c, i>>
          /\ i < device_count[c] <=> i < n
    BY <2>1 DEF Word, TablesInv, Counted, Overflows
  <2>4. \A i \in 0 .. Size[c] - 1 :
          IF i < n
          THEN /\ mem[Word(c, i)] \in DevicesOf(c) /\ Rank(mem[Word(c, i)]) = i
               /\ mem[Word(c, i)] # EMPTY
          ELSE mem[Word(c, i)] = EMPTY
    BY <2>1, <2>3 DEF TablesInv, Filed
  <2> HIDE DEF n
  <2>5. Seen(c) = 0 .. n - 1
    <3>1. ASSUME NEW i \in 0 .. n - 1 PROVE i \in Seen(c)
      <4>1. i \in 0 .. Loop(c) - 1
        BY <2>1, <2>2
      <4>2. \A j \in 0 .. i : j \in 0 .. Size[c] - 1 /\ j < n
        BY <2>1, <2>2
      <4> QED BY <2>4, <4>1, <4>2 DEF Seen
    <3>2. ASSUME NEW i \in Seen(c) PROVE i \in 0 .. n - 1
      <4>1. i \in 0 .. Loop(c) - 1 /\ \A j \in 0 .. i : mem[Word(c, j)] # EMPTY
        BY DEF Seen
      <4>2. CASE n < Size[c]
        <5>1. n \in 0 .. Size[c] - 1 /\ ~(n < n) /\ mem[Word(c, n)] = EMPTY
          BY <2>1, <2>2, <2>4, <4>2
        <5>2. n \notin 0 .. i
          BY <4>1, <5>1
        <5> QED BY <2>2, <4>1, <5>2
      <4>3. CASE n = Size[c]
        BY <2>2, <4>1, <4>3
      <4> QED BY <2>1, <2>2, <4>2, <4>3
    <3> QED BY <3>1, <3>2
  <2>6. report[c] = [i \in Seen(c) |-> mem[Word(c, i)]]
    BY DEF TablesInv, Reported
  <2>7. \A i \in Seen(c) : i \in 0 .. Size[c] - 1 /\ i < n
    BY <2>1, <2>2, <2>5
  <2>8. DOMAIN report[c] = 0 .. n - 1 /\ \A i \in DOMAIN report[c] :
          report[c][i] \in DevicesOf(c) /\ Rank(report[c][i]) = i
    BY <2>4, <2>5, <2>6, <2>7
  <2> QED BY <2>8 DEF n
<1> QED BY <1>1, TablesInvariant, PTL
=============================================================================
