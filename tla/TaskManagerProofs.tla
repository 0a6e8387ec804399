------------------------- MODULE TaskManagerProofs -------------------------
(***************************************************************************)
(* What creat_task keeps and loses, for any limits up to the size of the   *)
(* maps, any dirt and any number of calls, until a store faults or goes    *)
(* astray.                                                                 *)
(***************************************************************************)
EXTENDS TaskManager, TLAPS, FiniteSetTheorems, WellFoundedInduction

(* A call holds a number from TakeNumber to the entry of the task's data.  *)
HoldsNumber ==
  pc \in {"pd", "code_pt", "code", "data"} \/ (pc = "store" /\ step <= 4)

(* The pages a call has taken for a task that is not yet entered.          *)
PagesHeld ==
  CASE pc = "code_pt" -> 1
    [] pc = "code" -> 2
    [] pc = "data" \/ (pc = "store" /\ step <= 4) -> 3
    [] OTHER -> 0

Lost == Cardinality(pages \ Low) - 3 * Cardinality(DOMAIN data) - PagesHeld

Control ==
  /\ pc \in {"clear", "descriptors", "paging", "map", "reserve", "idle", "pd",
             "code_pt", "code", "store", "data", "fault", "astray"}
  /\ pc = "store" => step \in 1 .. 7
  /\ pc = "data" => step = 5
  /\ page_limit \in Nat /\ task_limit \in Nat

(* Before the calls the maps are what start-up has made of them.           *)
StartUp ==
  /\ ~Started => DOMAIN data = {}
  /\ pc = "clear" => pages \cup numbers \subseteq 0 .. MAP_BITS - 1
  /\ pc \in {"descriptors", "paging", "map"} => pages = {}
  /\ pc = "reserve" => pages = Low
  /\ pc \in {"descriptors", "paging", "map", "reserve"} => numbers = {}

Finite ==
  Started => /\ IsFiniteSet(pages) /\ IsFiniteSet(numbers)
             /\ IsFiniteSet(DOMAIN data)

NumbersInUse ==
  /\ pc = "idle" \/ (pc = "store" /\ step > 4) => numbers = DOMAIN data
  /\ HoldsNumber => /\ task_num \notin DOMAIN data
                    /\ numbers = DOMAIN data \cup {task_num}

(* Pages are lost only when there is none left, so that no later call gets *)
(* far enough to lose more.                                                *)
PagesLost ==
  Started /\ pc \notin {"fault", "astray"} =>
    /\ Lost \in 0 .. 2
    /\ Lost > 0 => pc \in {"idle", "pd"} /\ get_available_page = NONE

IInv ==
  /\ Control /\ StartUp /\ Finite /\ NumbersInUse /\ PagesLost
  /\ LowNeverTaken

-----------------------------------------------------------------------------
(* What a scan of a map returns is the last bit that is 0, and at most as  *)
(* far below the limit as there are ones.                                  *)
Window(limit, map) ==
  {i \in limit - 1 - Cardinality(map) .. limit - 1 : i >= 0 /\ i \notin map}

LEMMA LastOfWindow ==
  ASSUME NEW limit \in Nat, NEW map, IsFiniteSet(map), Window(limit, map) # {}
  PROVE  /\ LastFree(limit, map) \in Nat \ map
         /\ LastFree(limit, map) < limit
         /\ limit - 1 - Cardinality(map) <= LastFree(limit, map)
         /\ \A m \in Nat : LastFree(limit, map) < m /\ m < limit => m \in map
<1> DEFINE free == Window(limit, map)
           above == {limit - i : i \in free}
<1>1. Cardinality(map) \in Nat
  BY FS_CardinalityType
<1>2. free \subseteq Nat /\ \A i \in free : i < limit
  BY <1>1 DEF Window
<1>3. LastFree(limit, map) = CHOOSE i \in free : \A j \in free : j <= i
  BY DEF LastFree, Window
<1>4. above \subseteq Nat /\ above # {}
  BY <1>2
<1>5. \E x \in above : \A y \in above : ~(y < x)
  <2> HIDE DEF above
  <2>1. \E x \in above : \A y \in above : ~(<<y, x>> \in OpToRel(<, Nat))
    BY <1>4, WFMin, NatLessThanWellFounded, Zenon
  <2>2. \A x, y \in Nat : y < x => <<y, x>> \in OpToRel(<, Nat)
    BY Zenon DEF OpToRel
  <2> QED BY <1>4, <2>1, <2>2, Zenon
<1>6. PICK i \in free : \A j \in free : ~(limit - j < limit - i)
  BY <1>5
<1>7. \A j \in free : j <= i
  BY <1>2, <1>6
<1> HIDE DEF free
<1>8. /\ LastFree(limit, map) \in free
      /\ \A j \in free : j <= LastFree(limit, map)
  BY <1>3, <1>7
<1>9. \A m \in Nat : /\ limit - 1 - Cardinality(map) <= m /\ m < limit
                     /\ m \notin map
                     => m \in free
  BY <1>1 DEF free, Window
<1>10. /\ LastFree(limit, map) \in Nat \ map
       /\ LastFree(limit, map) < limit
       /\ limit - 1 - Cardinality(map) <= LastFree(limit, map)
  BY <1>1, <1>8 DEF free, Window
<1> QED BY <1>1, <1>8, <1>9, <1>10

LEMMA LastFreeFacts ==
  ASSUME NEW limit \in Nat, NEW map, IsFiniteSet(map),
         LastFree(limit, map) # NONE
  PROVE  /\ LastFree(limit, map) \in Nat \ map
         /\ LastFree(limit, map) < limit
         /\ limit - 1 - Cardinality(map) <= LastFree(limit, map)
         /\ \A m \in Nat : LastFree(limit, map) < m /\ m < limit => m \in map
<1>1. Window(limit, map) # {}
  BY DEF LastFree, Window
<1> QED BY <1>1, LastOfWindow

(* A bit of the window that is 0 is found, or one above it.                *)
LEMMA LastFreeFinds ==
  ASSUME NEW limit \in Nat, NEW map, IsFiniteSet(map), NEW m \in Nat \ map,
         m < limit, limit - 1 - Cardinality(map) <= m
  PROVE  LastFree(limit, map) # NONE /\ m <= LastFree(limit, map)
<1>1. Window(limit, map) # {}
  BY FS_CardinalityType DEF Window
<1>2. /\ LastFree(limit, map) \in Nat
      /\ \A i \in Nat : LastFree(limit, map) < i /\ i < limit => i \in map
  BY <1>1, LastOfWindow
<1> QED BY <1>2 DEF NONE

(* To invert a bit that is 0 is to set it, and the other way round.        *)
LEMMA InvertFree ==
  ASSUME NEW map, NEW i, i \notin map
  PROVE  Inverted(map, {i}) = map \cup {i}
BY DEF Inverted

(* Inverting a set bit clears it.                                          *)
LEMMA InvertUsed ==
  ASSUME NEW map, NEW i, i \in map
  PROVE  Inverted(map, {i}) = map \ {i}
BY DEF Inverted

(* The pages below 4MB are finitely many.                                  *)
LEMMA LowFinite == IsFiniteSet(Low)
<1>1. LOW_PAGES \in Nat
  BY DEF LOW_PAGES
<1> QED BY <1>1, FS_Interval DEF Low

(* A page taken is one more above the low 4MB.                             *)
LEMMA OneMorePage ==
  ASSUME NEW map, IsFiniteSet(map), Low \subseteq map, NEW p, p \notin map
  PROVE  /\ IsFiniteSet(map \cup {p})
         /\ Cardinality(map \ Low) \in Nat
         /\ Cardinality((map \cup {p}) \ Low) = Cardinality(map \ Low) + 1
<1>1. (map \cup {p}) \ Low = (map \ Low) \cup {p} /\ p \notin map \ Low
  OBVIOUS
<1>2. IsFiniteSet(map \ Low)
  BY FS_Difference
<1> QED BY <1>1, <1>2, FS_AddElement, FS_CardinalityType

(* The size of a map.                                                      *)
LEMMA MapBitsAre == MAP_BITS \in Nat /\ MAP_BITS = 16 * 65536
BY DEF MAP_BITS

(* The limits are numbers up to the size of a map.                         *)
LEMMA LimitsAre ==
  ASSUME NEW limits \in Limits
  PROVE  /\ limits[1] \in Nat /\ 1024 <= limits[1] /\ limits[1] <= MAP_BITS
         /\ limits[2] \in Nat /\ limits[2] <= MAP_BITS
<1>1. LOW_PAGES = 1024 /\ LOW_PAGES \in Int /\ MAP_BITS \in Int
  BY MapBitsAre DEF LOW_PAGES
<1>2. limits \in (LOW_PAGES .. MAP_BITS) \X (0 .. MAP_BITS)
  BY LimitsAssumption
<1>3. limits[1] \in LOW_PAGES .. MAP_BITS /\ limits[2] \in 0 .. MAP_BITS
  BY <1>2
<1> QED BY <1>1, <1>3

(* A store goes on or ends the kernel.                                     *)
LEMMA StoreLeads ==
  ASSUME NEW words, NEW there, Store(words, there)
  PROVE  pc' \in {there, "fault"}
BY DEF Store

-----------------------------------------------------------------------------
(* The words that the boot leaves give bits of the maps only.              *)
LEMMA MapBitsInMap ==
  ASSUME NEW base \in Nat, base % 4 = 0, NEW dirty \in SUBSET Dirt
  PROVE  MapBits(base, dirty) \subseteq 0 .. MAP_BITS - 1
<1>1. PICK q \in Nat : MAP_BITS = 32 * q /\ MAP_BITS \div 8 = 4 * q
  <2>1. MAP_BITS = 32 * 32768 /\ MAP_BITS \div 8 = 4 * 32768
    BY DEF MAP_BITS
  <2> QED BY <2>1
<1>2. \A a \in dirty : a \in Nat /\ a % 4 = 0
  BY DirtAssumption
<1>3. ASSUME NEW a \in dirty, base <= a, a < base + 4 * q,
             NEW i \in (8 * (a - base)) .. (8 * (a - base) + 31)
      PROVE  i \in 0 .. 32 * q - 1
  <2>1. PICK m \in Nat : base = 4 * m
    OBVIOUS
  <2>2. PICK n \in Nat : a = 4 * n
    BY <1>2
  <2> QED BY <2>1, <2>2, <1>3
<1> QED BY <1>1, <1>3 DEF MapBits

LEMMA InitIInv == Init => IInv
<1> SUFFICES ASSUME Init PROVE IInv
  OBVIOUS
<1>1. MEM_MAP_BASE \in Nat /\ TASK_MAP_BASE \in Nat
      /\ MEM_MAP_BASE % 4 = 0 /\ TASK_MAP_BASE % 4 = 0
  BY DEF MEM_MAP_BASE, TASK_MAP_BASE
<1>2. pages \cup numbers \subseteq 0 .. MAP_BITS - 1
  BY <1>1, MapBitsInMap DEF Init
<1>3. DOMAIN data = {}
  BY DEF Init
<1>4. MAP_BITS \in Nat
  BY DEF MAP_BITS
<1>5. pc = "clear" /\ page_limit \in Nat /\ task_limit \in Nat
  BY <1>4 DEF Init
<1> QED BY <1>2, <1>3, <1>5
        DEF IInv, Control, StartUp, Finite, NumbersInUse, PagesLost,
            LowNeverTaken, Started, HoldsNumber

-----------------------------------------------------------------------------
(* Start-up.                                                               *)
LEMMA MapSize ==
  MAP_BITS \in Nat /\ \A i \in Int : i < MAP_BITS => i \div 8 < 131072
BY DEF MAP_BITS

LEMMA ClearsMaps ==
  ASSUME pages \cup numbers \subseteq 0 .. MAP_BITS - 1, clear_section
  PROVE  pages' = {} /\ numbers' = {}
<1>1. MAP_BITS \in Nat
  BY MapSize
<1>2. \A i \in pages \cup numbers : i \in Int /\ 0 <= i /\ i < MAP_BITS
  BY <1>1
<1>3. ASSUME NEW i \in Int, 0 <= i, i < MAP_BITS
      PROVE  /\ Cleared(MEM_MAP_BASE + i \div 8)
             /\ Cleared(TASK_MAP_BASE + i \div 8)
  <2>1. i \div 8 \in Int /\ 0 <= i \div 8 /\ i \div 8 < 131072
    BY <1>3, MapSize
  <2> QED BY <2>1 DEF Cleared, MEM_MAP_BASE, TASK_MAP_BASE
<1> QED BY <1>2, <1>3 DEF clear_section

LEMMA ClearSectionIInv == IInv /\ clear_section => IInv'
<1> SUFFICES ASSUME IInv, clear_section PROVE IInv'
  OBVIOUS
<1>1. pages \cup numbers \subseteq 0 .. MAP_BITS - 1
  BY DEF IInv, StartUp, clear_section, Goto
<1>2. pages' = {} /\ numbers' = {}
  BY <1>1, ClearsMaps
<1>3. pc' = "descriptors" /\ data' = data /\ ~Started
  BY DEF clear_section, Goto, Started
<1>4. page_limit' \in Nat /\ task_limit' \in Nat
  BY DEF IInv, Control, clear_section
<1> QED BY <1>2, <1>3, <1>4
        DEF IInv, Control, StartUp, Finite, NumbersInUse, PagesLost,
            LowNeverTaken, Started, HoldsNumber

LEMMA DescriptorInitIInv == IInv /\ descriptor_init => IInv'
<1> SUFFICES ASSUME IInv, descriptor_init PROVE IInv'
  OBVIOUS
<1>1. pc = "descriptors" /\ pc' = "paging" /\ data' = data /\ UNCHANGED maps
  BY DEF descriptor_init, Goto
<1> QED BY <1>1
        DEF IInv, Control, StartUp, Finite, NumbersInUse, PagesLost,
            LowNeverTaken, Started, HoldsNumber, maps

LEMMA PagingInitIInv == IInv /\ paging_init => IInv'
<1> SUFFICES ASSUME IInv, paging_init PROVE IInv'
  OBVIOUS
<1>1. pc = "paging" /\ pc' = "map" /\ data' = data /\ UNCHANGED maps
  BY DEF paging_init, Goto
<1> QED BY <1>1
        DEF IInv, Control, StartUp, Finite, NumbersInUse, PagesLost,
            LowNeverTaken, Started, HoldsNumber, maps

LEMMA MemMapInitIInv == IInv /\ mem_map_init => IInv'
<1> SUFFICES ASSUME IInv, mem_map_init PROVE IInv'
  OBVIOUS
<1>1. pc = "map" /\ pc' = "reserve" /\ data' = data
  BY DEF mem_map_init, Goto
<1>2. pages' = Low /\ numbers' = {}
  BY <1>1 DEF mem_map_init, Inverted, IInv, StartUp
<1>3. page_limit' \in Nat /\ task_limit' \in Nat
  BY DEF IInv, Control, mem_map_init
<1> QED BY <1>1, <1>2, <1>3
        DEF IInv, Control, StartUp, Finite, NumbersInUse, PagesLost,
            LowNeverTaken, Started, HoldsNumber

LEMMA ReserveIInv == IInv /\ Reserve => IInv'
<1> SUFFICES ASSUME IInv, Reserve PROVE IInv'
  OBVIOUS
<1>1. pc = "reserve" /\ pc' = "idle" /\ data' = data
  BY DEF Reserve, Goto
<1>2. pages' = Low /\ numbers' = {} /\ DOMAIN data' = {}
  BY <1>1 DEF Reserve, IInv, StartUp, Started
<1>3. page_limit' \in Nat /\ task_limit' \in Nat
  BY LimitsAre DEF Reserve
<1>4. Lost' = 0
  <2>1. Low \ Low = {} /\ PagesHeld' = 0
    BY <1>1 DEF PagesHeld
  <2> QED BY <2>1, <1>2, FS_EmptySet DEF Lost
<1>5. IsFiniteSet(pages') /\ IsFiniteSet(numbers') /\ IsFiniteSet(DOMAIN data')
  BY <1>2, LowFinite, FS_EmptySet
<1> QED BY <1>1, <1>2, <1>3, <1>4, <1>5
        DEF IInv, Control, StartUp, Finite, NumbersInUse, PagesLost,
            LowNeverTaken, Started, HoldsNumber

-----------------------------------------------------------------------------
(* Calls.                                                                  *)
LEMMA StutterIInv == IInv /\ UNCHANGED vars => IInv'
BY DEF vars, maps, locals, IInv, Control, StartUp, Finite, NumbersInUse,
       PagesLost, LowNeverTaken, Started, HoldsNumber, Lost, PagesHeld,
       get_available_page

LEMMA TakeNumberIInv == IInv /\ TakeNumber => IInv'
<1> SUFFICES ASSUME IInv, TakeNumber PROVE IInv'
  OBVIOUS
<1>1. pc = "idle" /\ pc' = "pd"
  BY DEF TakeNumber
<1>2. /\ pages' = pages /\ page_limit' = page_limit /\ task_limit' = task_limit
      /\ data' = data
  BY DEF TakeNumber
<1>3. IsFiniteSet(pages) /\ IsFiniteSet(numbers) /\ IsFiniteSet(DOMAIN data)
  BY <1>1 DEF IInv, Finite, Started
<1>4. page_limit \in Nat /\ task_limit \in Nat /\ numbers = DOMAIN data
  BY <1>1 DEF IInv, Control, NumbersInUse
<1>5. task_num' \notin numbers /\ numbers' = numbers \cup {task_num'}
  <2>1. get_available_task_num \in Nat \ numbers
    BY <1>3, <1>4, LastFreeFacts DEF TakeNumber, get_available_task_num
  <2> QED BY <2>1, InvertFree DEF TakeNumber, task_num_write
<1>6. IsFiniteSet(numbers')
  BY <1>3, <1>5, FS_AddElement
<1>7. Lost' = Lost /\ get_available_page' = get_available_page
  BY <1>1, <1>2 DEF Lost, PagesHeld, get_available_page
<1> QED BY <1>1, <1>2, <1>3, <1>4, <1>5, <1>6, <1>7
        DEF IInv, Control, StartUp, Finite, NumbersInUse, PagesLost,
            LowNeverTaken, Started, HoldsNumber

(* A call that runs out of pages gives its number back.                    *)
LEMMA NoPageIInv ==
  ASSUME NEW here \in {"pd", "code_pt", "code"}, IInv, NoPage(here)
  PROVE  IInv'
<1>1. pc = here /\ pc' = "idle" /\ get_available_page = NONE
  BY DEF NoPage
<1>2. /\ pages' = pages /\ page_limit' = page_limit /\ task_limit' = task_limit
      /\ data' = data
  BY DEF NoPage, locals
<1>3. IsFiniteSet(pages) /\ IsFiniteSet(numbers) /\ IsFiniteSet(DOMAIN data)
  BY <1>1 DEF IInv, Finite, Started
<1>4. page_limit \in Nat /\ task_limit \in Nat
  BY DEF IInv, Control
<1>5. task_num \notin DOMAIN data /\ numbers = DOMAIN data \cup {task_num}
  BY <1>1 DEF IInv, NumbersInUse, HoldsNumber
<1>6. numbers' = DOMAIN data
  BY <1>5, InvertUsed DEF NoPage, task_num_write
<1>7. get_available_page' = NONE
  BY <1>1, <1>2 DEF get_available_page
<1>8. Lost' \in 0 .. 2
  <2>1. /\ Lost \in 0 .. 2
        /\ Lost > 0 => pc = "pd"
        /\ PagesHeld = CASE pc = "code_pt" -> 1 [] pc = "code" -> 2
                          [] OTHER -> 0
        /\ PagesHeld' = 0
    BY <1>1 DEF IInv, PagesLost, Started, PagesHeld
  <2>2. Cardinality(pages \ Low) \in Nat /\ Cardinality(DOMAIN data) \in Nat
    BY <1>3, FS_CardinalityType, FS_Difference
  <2>3. Lost' = Lost + PagesHeld
    BY <1>2, <2>1, <2>2 DEF Lost
  <2> QED BY <1>1, <2>1, <2>3
<1> QED BY <1>1, <1>2, <1>3, <1>4, <1>6, <1>7, <1>8
        DEF IInv, Control, StartUp, Finite, NumbersInUse, PagesLost,
            LowNeverTaken, Started, HoldsNumber

(* What taking a page does to the counts.                                  *)
LEMMA TakesPage ==
  ASSUME NEW here \in {"pd", "code_pt", "code"}, IInv, TakePage(here)
  PROVE  /\ IsFiniteSet(pages') /\ Low \subseteq pages'
         /\ Cardinality(pages \ Low) \in Nat /\ Cardinality(DOMAIN data) \in Nat
         /\ Cardinality(pages' \ Low) = Cardinality(pages \ Low) + 1
         /\ Lost = 0
         /\ pc = here
<1>1. pc = here /\ get_available_page # NONE
  BY DEF TakePage
<1>2. /\ IsFiniteSet(pages) /\ Low \subseteq pages /\ IsFiniteSet(DOMAIN data)
      /\ page_limit \in Nat
  BY <1>1 DEF IInv, Finite, Started, LowNeverTaken, Control
<1>3. get_available_page \in Nat \ pages
  BY <1>1, <1>2, LastFreeFacts DEF get_available_page
<1>4. pages' = pages \cup {get_available_page}
  BY <1>3, InvertFree DEF TakePage, mem_map_write
<1>5. Lost = 0
  BY <1>1 DEF IInv, PagesLost, Started
<1>6. Cardinality(DOMAIN data) \in Nat
  BY <1>2, FS_CardinalityType
<1>7. /\ IsFiniteSet(pages') /\ Cardinality(pages \ Low) \in Nat
      /\ Cardinality(pages' \ Low) = Cardinality(pages \ Low) + 1
  BY <1>2, <1>3, <1>4, OneMorePage
<1> QED BY <1>1, <1>2, <1>4, <1>5, <1>6, <1>7

(* A call that has taken its page goes on, or the kernel ends.             *)
LEMMA TakePageIInv ==
  ASSUME NEW here \in {"pd", "code_pt", "code"}, IInv, TakePage(here),
         \/ pc' = "fault"
         \/ here = "pd" /\ pc' = "code_pt"
         \/ here = "code_pt" /\ pc' = "code"
         \/ here = "code" /\ pc' = "store" /\ step' = 1
  PROVE  IInv'
<1>1. /\ IsFiniteSet(pages') /\ Low \subseteq pages'
      /\ Cardinality(pages \ Low) \in Nat /\ Cardinality(DOMAIN data) \in Nat
      /\ Cardinality(pages' \ Low) = Cardinality(pages \ Low) + 1
      /\ Lost = 0
      /\ pc = here
  BY TakesPage
<1>2. /\ page_limit' = page_limit /\ task_limit' = task_limit
      /\ numbers' = numbers /\ task_num' = task_num /\ data' = data
  BY DEF TakePage
<1>3. /\ page_limit \in Nat /\ task_limit \in Nat
      /\ IsFiniteSet(numbers) /\ IsFiniteSet(DOMAIN data)
  BY <1>1 DEF IInv, Control, Finite, Started
<1>4. task_num \notin DOMAIN data /\ numbers = DOMAIN data \cup {task_num}
  BY <1>1 DEF IInv, NumbersInUse, HoldsNumber
<1>5. pc' # "fault" => Lost' = 0
  <2>1. PagesHeld = CASE here = "code_pt" -> 1 [] here = "code" -> 2
                      [] OTHER -> 0
    BY <1>1 DEF PagesHeld
  <2>2. pc' # "fault" => PagesHeld' = PagesHeld + 1
    BY <1>1, <2>1 DEF PagesHeld
  <2> QED BY <1>1, <1>2, <2>1, <2>2 DEF Lost
<1> QED BY <1>1, <1>2, <1>3, <1>4, <1>5
        DEF IInv, Control, StartUp, Finite, NumbersInUse, PagesLost,
            LowNeverTaken, Started, HoldsNumber

LEMMA TakePdIInv == IInv /\ TakePd => IInv'
<1> SUFFICES ASSUME IInv, TakePd PROVE IInv'
  OBVIOUS
<1>1. TakePage("pd") /\ pc' \in {"code_pt", "fault"}
  BY StoreLeads DEF TakePd
<1> QED BY <1>1, TakePageIInv

LEMMA TakeCodePtIInv == IInv /\ TakeCodePt => IInv'
<1> SUFFICES ASSUME IInv, TakeCodePt PROVE IInv'
  OBVIOUS
<1>1. TakePage("code_pt") /\ pc' \in {"code", "fault"}
  BY StoreLeads DEF TakeCodePt
<1> QED BY <1>1, TakePageIInv

LEMMA TakeCodeIInv == IInv /\ TakeCode => IInv'
<1> SUFFICES ASSUME IInv, TakeCode PROVE IInv'
  OBVIOUS
<1>1. TakePage("code") /\ pc' = "store" /\ step' = 1
  BY DEF TakeCode
<1> QED BY <1>1, TakePageIInv

LEMMA StoreNextIInv == IInv /\ StoreNext => IInv'
<1> SUFFICES ASSUME IInv, StoreNext PROVE IInv'
  OBVIOUS
<1>1. pc = "store" /\ step \in 1 .. 7 /\ step' = (step + 1) % 8
  BY DEF StoreNext, IInv, Control
<1>2. /\ pages' = pages /\ page_limit' = page_limit /\ task_limit' = task_limit
      /\ numbers' = numbers /\ task_num' = task_num /\ data' = data
  BY DEF StoreNext, maps, locals
<1>3. \/ pc' = "fault"
      \/ step = 4 /\ pc' = "data" /\ step' = 5
      \/ step = 7 /\ pc' = "idle"
      \/ step \in {1, 2, 3, 5, 6} /\ pc' = "store" /\ step' = step + 1
  BY <1>1, StoreLeads DEF StoreNext
<1>4. pc' # "fault" => Lost' = Lost
  <2>1. pc' # "fault" => PagesHeld' = PagesHeld
    BY <1>1, <1>3 DEF PagesHeld
  <2> QED BY <1>2, <2>1 DEF Lost
<1>5. Lost = 0
  BY <1>1 DEF IInv, PagesLost, Started
<1> QED BY <1>1, <1>2, <1>3, <1>4, <1>5
        DEF IInv, Control, StartUp, Finite, NumbersInUse, PagesLost,
            LowNeverTaken, Started, HoldsNumber

(* A call that runs over memory ends the kernel.                           *)
LEMMA StoreAstrayIInv == IInv /\ StoreAstray => IInv'
<1> SUFFICES ASSUME IInv, StoreAstray PROVE IInv'
  OBVIOUS
<1>1. /\ pc = "store" /\ pc' = "astray"
      /\ pages' = pages /\ numbers' = numbers /\ page_limit' = page_limit
      /\ task_limit' = task_limit /\ data' = data
  BY DEF StoreAstray, maps
<1> QED BY <1>1
        DEF IInv, Control, StartUp, Finite, NumbersInUse, PagesLost,
            LowNeverTaken, Started, HoldsNumber

LEMMA WriteDataIInv == IInv /\ WriteData => IInv'
<1> SUFFICES ASSUME IInv, WriteData PROVE IInv'
  OBVIOUS
<1>1. pc = "data" /\ step' = 5
  BY DEF WriteData, IInv, Control
<1>2. /\ pages' = pages /\ page_limit' = page_limit /\ task_limit' = task_limit
      /\ numbers' = numbers /\ task_num' = task_num
  BY DEF WriteData, maps, locals
<1>3. /\ IsFiniteSet(pages) /\ IsFiniteSet(numbers) /\ IsFiniteSet(DOMAIN data)
      /\ task_num \notin DOMAIN data /\ numbers = DOMAIN data \cup {task_num}
      /\ page_limit \in Nat /\ task_limit \in Nat
  BY <1>1 DEF IInv, Finite, NumbersInUse, HoldsNumber, Started, Control
<1>4. CASE data' = data /\ pc' \in {"fault", "astray"}
  BY <1>1, <1>2, <1>3, <1>4
     DEF IInv, Control, StartUp, Finite, NumbersInUse, PagesLost,
         LowNeverTaken, Started, HoldsNumber
<1>5. CASE pc' = "store" /\ DOMAIN data' = DOMAIN data \cup {task_num}
  <2>1. /\ IsFiniteSet(DOMAIN data')
        /\ Cardinality(DOMAIN data') = Cardinality(DOMAIN data) + 1
    BY <1>3, <1>5, FS_AddElement
  <2>2. Cardinality(pages \ Low) \in Nat /\ Cardinality(DOMAIN data) \in Nat
    BY <1>3, FS_CardinalityType, FS_Difference
  <2>3. PagesHeld = 3 /\ PagesHeld' = 0
    BY <1>1, <1>5 DEF PagesHeld
  <2>4. Lost' = Lost /\ Lost = 0
    BY <1>1, <1>2, <2>1, <2>2, <2>3 DEF Lost, IInv, PagesLost, Started
  <2> QED BY <1>1, <1>2, <1>3, <1>5, <2>1, <2>4
          DEF IInv, Control, StartUp, Finite, NumbersInUse, PagesLost,
              LowNeverTaken, Started, HoldsNumber
<1> QED BY <1>4, <1>5 DEF WriteData

LEMMA NextIInv == IInv /\ [Next]_vars => IInv'
BY ClearSectionIInv, DescriptorInitIInv, PagingInitIInv, MemMapInitIInv,
   ReserveIInv, StutterIInv, TakeNumberIInv, NoPageIInv, TakePdIInv,
   TakeCodePtIInv, TakeCodeIInv, StoreNextIInv, StoreAstrayIInv, WriteDataIInv
   DEF Next, NoNumber

(* What the calls of creat_task hold, keep and lose is inductive.          *)
THEOREM TaskInvariant == Spec => []IInv
BY InitIInv, NextIInv, PTL DEF Spec

(* mem_map_init and creat_task: the pages of the kernel stay marked as     *)
(* used, whatever the boot has left and however calls succeed and fail, as *)
(* long as no store has gone astray, and so perhaps over the map.          *)
THEOREM KernelPagesKept == Spec => []LowNeverTaken
<1>1. IInv => LowNeverTaken
  BY DEF IInv
<1> QED BY <1>1, TaskInvariant, PTL

(* creat_task: whatever allocation fails, the numbers in use between calls *)
(* are those of the tasks created, and no more than two pages are lost in  *)
(* all calls together.                                                     *)
THEOREM LossesBounded == Spec => []FailuresAccounted
<1>1. IInv => FailuresAccounted
  <2> SUFFICES ASSUME IInv, pc = "idle" PROVE FailuresAccounted
    BY DEF FailuresAccounted
  <2>1. numbers = DOMAIN data
    BY DEF IInv, NumbersInUse
  <2>2. /\ Lost \in 0 .. 2 /\ PagesHeld = 0
        /\ IsFiniteSet(pages) /\ IsFiniteSet(DOMAIN data)
    BY DEF IInv, PagesLost, Finite, PagesHeld, Started
  <2>3. Cardinality(pages \ Low) \in Nat /\ Cardinality(DOMAIN data) \in Nat
    BY <2>2, FS_CardinalityType, FS_Difference
  <2> QED BY <2>1, <2>2, <2>3 DEF FailuresAccounted, Lost
<1> QED BY <1>1, TaskInvariant, PTL

-----------------------------------------------------------------------------
(* What is in memory, and where.                                           *)
PD_TOP == 1022
LDT_TOP == 511

Typed == \A a \in DOMAIN mem : a \in Nat /\ a % 4 = 0 /\ mem[a] \in Word

(* The table that is to map the pages of the tasks maps only pages taken   *)
(* from 4MB on, by their numbers times 8.                                  *)
TempHigh ==
  \A k \in Low : Present(Read(TEMP_PT_BASE + 4 * k)) => 8 * 65536 + k \in pages

LdtsEmpty ==
  \A n \in 1 .. LDT_TOP : /\ Read(TASK_LDT_BASE + 32 * n + 8) = ZERO
                          /\ Read(TASK_LDT_BASE + 32 * n + 12) = ZERO

GatesSet ==
  \A v \in 0 .. VECTORS - 1 : ~WrittenOver(v) =>
    /\ Read(IDT_BASE + 8 * v) = Gate(v)[IDT_BASE + 8 * v]
    /\ Read(IDT_BASE + 8 * v + 4) = Gate(v)[IDT_BASE + 8 * v + 4]

KernelCode ==
  /\ Read(GDT_BASE + 8)[1] = 0
  /\ Read(GDT_BASE + 12) = <<\hCF, 32768 + 4096 + 256 * GD_CODE>>

Tables ==
  /\ Read(0) = Entry(KERNEL_PT_PHY_ADDR, P_SYSTEM, P_READ_WRITE)
  /\ \A i \in 1 .. PD_TOP :
       Read(4 * i) = Entry(TEMP_PT_BASE, P_SYSTEM, P_READ_WRITE)
  /\ \A p \in Low \ {0} : Read(KERNEL_PT_PHY_ADDR + 4 * p)
                            = Entry(PAGE_SIZE * p, P_SYSTEM, P_READ_WRITE)
  /\ Present(Read(KERNEL_PT_PHY_ADDR))
  /\ pages \subseteq Low =>
       Read(KERNEL_PT_PHY_ADDR) = Entry(0, P_SYSTEM, P_READ_WRITE)

Memory ==
  /\ Typed
  /\ pc # "clear" => TempHigh /\ LdtsEmpty
  /\ pc \notin {"clear", "descriptors"} => GatesSet /\ KernelCode
  /\ pc \notin {"clear", "descriptors", "paging"} => Tables

(* Numbers are taken from the top down.                                    *)
Filled(map, limit) ==
  \A n \in map : \A m \in Nat : n <= m /\ m < limit => m \in map

Bits ==
  /\ step \in 0 .. 8
  /\ DOMAIN data \subseteq numbers
  /\ Started =>
       /\ 1024 <= page_limit /\ page_limit <= MAP_BITS
       /\ task_limit <= MAP_BITS
       /\ \A i \in pages : i \in Nat /\ i < page_limit
       /\ \A n \in numbers : n \in Nat /\ n < task_limit
       /\ Filled(numbers, task_limit) /\ Filled(DOMAIN data, task_limit)

(* A page of creat_task, by its number times 8.                            *)
Taken(base, limit) ==
  base \in Nat /\ base % 8 = 0 /\ 8192 <= base /\ base < 8 * limit

Calls ==
  /\ pc \in {"code_pt", "code", "store", "data"} => Taken(pd_base, page_limit)
  /\ pc \in {"code", "store", "data"} =>
       Taken(code_pt_base, page_limit) /\ code_pt_base \div 8 \in pages
  /\ pc \in {"store", "data"} => Taken(task_code_base, page_limit)
  /\ HoldsNumber /\ NumbersTooFar => task_num = task_limit - 1
  /\ pc = "store" /\ step > 4 =>
       /\ task_num \in DOMAIN data
       /\ data[task_num].TaskBaseAddr = task_code_base

(* With many pages the first call that finds a number takes the last ones, *)
(* and gets no further than the first store.                               *)
FirstPages ==
  Started /\ PagesTooFar =>
    /\ pc \in {"idle", "pd"} => pages = Low
    /\ pc = "code_pt" => pages = Low \cup {page_limit - 1}
    /\ pc = "code" => pages = Low \cup {page_limit - 1, page_limit - 2}
    /\ pc \in {"code", "store"} => code_pt_base = 8 * (page_limit - 2)
    /\ pc = "store" => step = 1
    /\ pc # "data"

(* Such maps lead to no task; task 0 is the last.                          *)
NoTasks == Started /\ (PagesTooFar \/ NumbersTooFar) => DOMAIN data = {}

LdtOfTask0 ==
  /\ data[0].TaskBaseAddr \in Nat /\ data[0].TaskBaseAddr < 65536
  /\ Read(TASK_LDT_BASE + 8)[1] = data[0].TaskBaseAddr
  /\ Read(TASK_LDT_BASE + 12) = <<\hCF, \hFA00>>

Created ==
  /\ NoTasks
  /\ 0 \in DOMAIN data =>
       \/ pc \in {"idle", "fault", "astray"}
       \/ pc = "store" /\ step > 4 /\ task_num = 0
  /\ 0 \in DOMAIN data /\ pc = "idle" => LdtOfTask0

MInv == Memory /\ Bits /\ Calls /\ FirstPages /\ Created

(* Two half words make a word.                                             *)
LEMMA InWord ==
  ASSUME NEW x \in Int, NEW y \in Int,
         0 <= x, x <= 65535, 0 <= y, y <= 65535
  PROVE  <<x, y>> \in Word
<1>1. MAX16 \in Int /\ x <= MAX16 /\ y <= MAX16
  BY DEF MAX16
<1>2. x \in 0 .. MAX16 /\ y \in 0 .. MAX16
  BY <1>1
<1> QED BY <1>2 DEF Word

(* The pages below 4MB are the first 1024.                                 *)
LEMMA InLow ==
  /\ \A k \in Int : k \in Low <=> 0 <= k /\ k < 1024
  /\ Low \subseteq Nat
<1>1. LOW_PAGES \in Int /\ LOW_PAGES = 1024
  BY DEF LOW_PAGES
<1>2. \A k \in Int : k \in 0 .. LOW_PAGES - 1 <=> 0 <= k /\ k < LOW_PAGES
  BY <1>1
<1> QED BY <1>1, <1>2 DEF Low

(* Where an entry leads.                                                   *)
LEMMA EntryLeads ==
  ASSUME NEW p \in Nat, p < 16 * 65536, NEW r \in Nat, r < 4096,
         NEW U \in {0, 1}, NEW W \in {0, 1},
         NEW e, e = Entry(4096 * p + r, U, W)
  PROVE  Present(e) /\ Frame(e) = 4096 * p /\ e \in Word
<1>1. PICK h \in Nat, l \in 0 .. 15 : p = 16 * h + l
  <2>1. /\ p = 16 * (p \div 16) + (p % 16)
        /\ p \div 16 \in Nat /\ p % 16 \in 0 .. 15
    OBVIOUS
  <2> QED BY <2>1
<1> DEFINE b == 4096 * p + r
<1>2. b = 65536 * h + 4096 * l + r /\ h <= 65535
  BY <1>1
<1>3. b \div 65536 = h /\ b % 65536 = 4096 * l + r /\ b % 4096 = r
  BY <1>1, <1>2
<1>4. Entry(b, U, W) = <<h, 4096 * l + 4 * U + 2 * W + 1>>
  BY <1>1, <1>3 DEF Entry, PAGE_SIZE
<1>5. e \in Word
  BY <1>1, <1>2, <1>4, InWord
<1> HIDE DEF b
<1>6. e = <<h, 4096 * l + 4 * U + 2 * W + 1>>
  BY <1>4 DEF b
<1>7. Address(e) = 4096 * p + 4 * U + 2 * W + 1
  BY <1>1, <1>6 DEF Address
<1>8. e[2] % 4096 = 4 * U + 2 * W + 1 /\ e[2] % 2 = 1
  BY <1>1, <1>6
<1>9. Frame(e) = 4096 * p
  BY <1>7, <1>8 DEF Frame, PAGE_SIZE
<1> QED BY <1>5, <1>8, <1>9 DEF Present

(* The low 4MB lead to themselves but for page 0.                          *)
LEMMA LowMapped ==
  ASSUME Tables, NEW a \in Nat, 4096 <= a, a < MB4
  PROVE  Mapped(a) /\ Physical(a) = a
<1> DEFINE p == a \div 4096
<1>1. p \in Nat /\ 1 <= p /\ p < 1024 /\ a = 4096 * p + (a % 4096)
  BY DEF MB4
<1>2. a \div MB4 = 0
  BY DEF MB4
<1>3. PdeOf(a) = Entry(KERNEL_PT_PHY_ADDR, P_SYSTEM, P_READ_WRITE)
  BY <1>2 DEF PdeOf, KERNEL_PD_PHY_ADDR, Tables
<1>4. Present(PdeOf(a)) /\ Frame(PdeOf(a)) = 4096
  BY <1>3, EntryLeads DEF KERNEL_PT_PHY_ADDR, P_SYSTEM, P_READ_WRITE
<1> HIDE DEF p
<1>5. PteOf(a) = Read(4096 + 4 * p)
  <2>1. (a \div PAGE_SIZE) % 1024 = p
    BY <1>1 DEF p, PAGE_SIZE
  <2> QED BY <1>4, <2>1 DEF PteOf
<1>6. p \in Low \ {0}
  BY <1>1, InLow
<1>7. PteOf(a) = Entry(4096 * p, P_SYSTEM, P_READ_WRITE)
  BY <1>5, <1>6 DEF Tables, KERNEL_PT_PHY_ADDR, PAGE_SIZE
<1>8. Present(PteOf(a)) /\ Frame(PteOf(a)) = 4096 * p
  BY <1>1, <1>7, EntryLeads DEF P_SYSTEM, P_READ_WRITE
<1> QED BY <1>1, <1>4, <1>8 DEF Mapped, Physical, PAGE_SIZE

(* Above them a page is mapped only by an entry for a page that was taken. *)
LEMMA HighMapped ==
  ASSUME Tables, TempHigh, NEW a \in Nat, MB4 <= a, a < MB4 * 1023, Mapped(a)
  PROVE  8 * 65536 + ((a \div PAGE_SIZE) % 1024) \in pages
<1> DEFINE i == a \div MB4
           k == (a \div PAGE_SIZE) % 1024
<1>1. i \in 1 .. PD_TOP
  BY DEF MB4, PD_TOP
<1>2. k \in Low
  BY InLow DEF PAGE_SIZE
<1> HIDE DEF i, k
<1>3. PdeOf(a) = Entry(TEMP_PT_BASE, P_SYSTEM, P_READ_WRITE)
  BY <1>1 DEF PdeOf, KERNEL_PD_PHY_ADDR, Tables, i
<1>4. Frame(PdeOf(a)) = TEMP_PT_BASE
  BY <1>3, EntryLeads DEF TEMP_PT_BASE, P_SYSTEM, P_READ_WRITE
<1>5. PteOf(a) = Read(TEMP_PT_BASE + 4 * k)
  BY <1>4 DEF PteOf, k
<1>6. 8 * 65536 + k \in pages
  BY <1>2, <1>5 DEF Mapped, TempHigh
<1> QED BY <1>6 DEF k

(* Page 0 is mapped, at first to itself.                                   *)
LEMMA PageZeroMapped ==
  ASSUME Tables
  PROVE  Mapped(0) /\ (pages = Low => Physical(0) = 0)
<1>1. PdeOf(0) = Entry(KERNEL_PT_PHY_ADDR, P_SYSTEM, P_READ_WRITE)
  BY DEF PdeOf, KERNEL_PD_PHY_ADDR, Tables, MB4
<1>2. Present(PdeOf(0)) /\ Frame(PdeOf(0)) = 4096
  BY <1>1, EntryLeads DEF KERNEL_PT_PHY_ADDR, P_SYSTEM, P_READ_WRITE
<1>3. PteOf(0) = Read(KERNEL_PT_PHY_ADDR)
  BY <1>2 DEF PteOf, PAGE_SIZE, KERNEL_PT_PHY_ADDR
<1>4. pages = Low => Frame(PteOf(0)) = 0
  BY <1>3, EntryLeads DEF Tables, P_SYSTEM, P_READ_WRITE
<1> QED BY <1>2, <1>3, <1>4 DEF Mapped, Physical, Tables, PAGE_SIZE

(* A store where the low 4MB lead to themselves writes what it says.       *)
InLow4MB(words) == \A a \in DOMAIN words : a \in Nat /\ 4096 <= a /\ a < MB4

Written(words) ==
  /\ DOMAIN mem' = DOMAIN words \cup DOMAIN mem
  /\ \A a \in DOMAIN mem' :
       mem'[a] = IF a \in DOMAIN words THEN words[a] ELSE mem[a]

LEMMA StoreWrites ==
  ASSUME NEW words, NEW there, Store(words, there), Tables, InLow4MB(words)
  PROVE  Written(words) /\ pc' = there
<1> USE DEF InLow4MB, Written
<1>1. \A a \in DOMAIN words : Mapped(a) /\ Physical(a) = a
  BY LowMapped
<1>2. {Physical(a) : a \in DOMAIN words} = DOMAIN words
  BY <1>1
<1> DEFINE new == [b \in {Physical(a) : a \in DOMAIN words} |->
                     words[CHOOSE a \in DOMAIN words : Physical(a) = b]]
<1>3. \A b \in DOMAIN words :
        (CHOOSE a \in DOMAIN words : Physical(a) = b) = b
  BY <1>1
<1>4. DOMAIN new = DOMAIN words /\ \A b \in DOMAIN words : new[b] = words[b]
  BY <1>2, <1>3
<1>5. mem' = new @@ mem /\ pc' = there
  BY <1>1 DEF Store
<1> HIDE DEF new
<1> QED BY <1>4, <1>5 DEF @@

-----------------------------------------------------------------------------
(* What creat_task stores disturbs none of the tables, but for the gates   *)
(* that are written over and the entries of pages that are taken.          *)
Whole ==
  Typed /\ TempHigh /\ LdtsEmpty /\ GatesSet /\ KernelCode /\ Tables

(* Over the gates or behind them.                                          *)
OverGates(a) ==
  \/ 18432 <= a /\ a < TASK_DATA_BASE
  \/ /\ IDT_BASE <= a /\ a < 18432
     /\ \/ a \div 8 \in pages'
        \/ ((a - GDT_BASE) \div 8 - 4) \div 2 \in DOMAIN data'

Harmless(a, w) ==
  /\ a \in Nat /\ a % 4 = 0 /\ w \in Word
  /\ \/ a = KERNEL_PT_PHY_ADDR /\ Present(w)
     \/ /\ GDT_BASE <= a /\ a < IDT_BASE /\ a # GDT_BASE + 12
        /\ a = GDT_BASE + 8 => w[1] = 0
     \/ OverGates(a)
     \/ TASK_LDT_BASE + 8 <= a /\ a < TASK_LDT_BASE + 32
     \/ /\ TEMP_PT_BASE <= a /\ a < TEMP_PT_BASE + 4096
        /\ 8 * 65536 + (a - TEMP_PT_BASE) \div 4 \in pages'

(* Where a harmless store may land, in numbers.                            *)
LEMMA HarmlessPlaces ==
  ASSUME NEW a, NEW w, Harmless(a, w)
  PROVE  /\ a \in Nat /\ 4096 <= a /\ a < MB4 /\ a % 4 = 0 /\ w \in Word
         /\ a = 4096 => Present(w)
         /\ a = GDT_BASE + 8 => w[1] = 0
         /\ a # GDT_BASE + 12
         /\ \/ a = 4096 \/ (8192 <= a /\ a < 20480)
            \/ (86024 <= a /\ a < 86048) \/ (294912 <= a /\ a < 299008)
         /\ 294912 <= a => 8 * 65536 + (a - 294912) \div 4 \in pages'
         /\ 16384 <= a /\ a < 18432 =>
              \/ a \div 8 \in pages'
              \/ ((a - 8192) \div 8 - 4) \div 2 \in DOMAIN data'
BY DEF Harmless, OverGates, KERNEL_PT_PHY_ADDR, GDT_BASE, IDT_BASE,
       TASK_DATA_BASE, TASK_LDT_BASE, TEMP_PT_BASE, MB4

(* More taken is more written over.                                        *)
LEMMA OverStays ==
  ASSUME pages \subseteq pages', DOMAIN data \subseteq DOMAIN data'
  PROVE  \A v : WrittenOver(v) => WrittenOver(v)'
BY DEF WrittenOver

(* A store of harmless words keeps every table, and writes those words only. *)
LEMMA HarmlessStore ==
  ASSUME Whole, NEW words, NEW there, Store(words, there),
         pages \subseteq pages', DOMAIN data \subseteq DOMAIN data',
         \A a \in DOMAIN words : Harmless(a, words[a]),
         pages' \subseteq Low =>
           pages \subseteq Low /\ KERNEL_PT_PHY_ADDR \notin DOMAIN words
  PROVE  /\ Whole' /\ pc' = there
         /\ \A a \in DOMAIN words : Read(a)' = words[a]
         /\ \A a : a \notin DOMAIN words => Read(a)' = Read(a)
<1> USE DEF Whole
<1>1. \A a \in DOMAIN words :
        /\ a \in Nat /\ 4096 <= a /\ a < MB4 /\ a % 4 = 0 /\ words[a] \in Word
        /\ a = 4096 => Present(words[a])
        /\ a = GDT_BASE + 8 => words[a][1] = 0
        /\ a # GDT_BASE + 12
        /\ \/ a = 4096 \/ (8192 <= a /\ a < 20480)
           \/ (86024 <= a /\ a < 86048) \/ (294912 <= a /\ a < 299008)
        /\ 294912 <= a => 8 * 65536 + (a - 294912) \div 4 \in pages'
        /\ 16384 <= a /\ a < 18432 =>
             \/ a \div 8 \in pages'
             \/ ((a - 8192) \div 8 - 4) \div 2 \in DOMAIN data'
  BY HarmlessPlaces
<1>2. Written(words) /\ pc' = there
  <2>1. InLow4MB(words) /\ Tables
    BY <1>1 DEF InLow4MB
  <2> QED BY <2>1, StoreWrites
<1>3. \A a \in DOMAIN words : Read(a)' = words[a]
  BY <1>2 DEF Read, Written
<1>4. \A a : a \notin DOMAIN words => Read(a)' = Read(a)
  BY <1>2 DEF Read, Written
<1>5. Typed'
  BY <1>1, <1>2 DEF Typed, Written
<1>6. TempHigh'
  <2> SUFFICES ASSUME NEW k \in Low, Present(Read(TEMP_PT_BASE + 4 * k)')
               PROVE  8 * 65536 + k \in pages'
    BY DEF TempHigh, Present
  <2>1. CASE TEMP_PT_BASE + 4 * k \in DOMAIN words
    BY <1>1, <2>1, InLow DEF TEMP_PT_BASE
  <2>2. CASE TEMP_PT_BASE + 4 * k \notin DOMAIN words
    <3>1. Present(Read(TEMP_PT_BASE + 4 * k))
      BY <1>4, <2>2
    <3> QED BY <3>1 DEF TempHigh
  <2> QED BY <2>1, <2>2
<1>7. LdtsEmpty'
  <2> SUFFICES ASSUME NEW n \in 1 .. LDT_TOP
               PROVE  /\ Read(TASK_LDT_BASE + 32 * n + 8)' = ZERO
                      /\ Read(TASK_LDT_BASE + 32 * n + 12)' = ZERO
    BY DEF LdtsEmpty
  <2>1. n \in Nat /\ 1 <= n /\ n <= 511
    BY DEF LDT_TOP
  <2>2. /\ TASK_LDT_BASE + 32 * n + 8 \notin DOMAIN words
        /\ TASK_LDT_BASE + 32 * n + 12 \notin DOMAIN words
    BY <1>1, <2>1 DEF TASK_LDT_BASE
  <2> QED BY <1>4, <2>2 DEF LdtsEmpty
<1>8. GatesSet'
  <2> SUFFICES ASSUME NEW v \in 0 .. VECTORS - 1, ~WrittenOver(v)'
               PROVE  /\ Read(IDT_BASE + 8 * v)' = Gate(v)[IDT_BASE + 8 * v]
                      /\ Read(IDT_BASE + 8 * v + 4)'
                           = Gate(v)[IDT_BASE + 8 * v + 4]
    BY DEF GatesSet
  <2>1. v \in Nat /\ v < 256
    BY DEF VECTORS
  <2>2. ~WrittenOver(v)
    BY OverStays
  <2>3. 2048 + v \notin pages' /\ (1020 + v) \div 2 \notin DOMAIN data'
    BY <2>1 DEF WrittenOver, IDT_BASE, GDT_BASE
  <2>4. ASSUME NEW a \in Nat, a = 16384 + 8 * v \/ a = 16384 + 8 * v + 4
        PROVE  a \notin DOMAIN words
    <3>1. /\ a \div 8 = 2048 + v /\ 16384 <= a /\ a < 18432
          /\ ((a - 8192) \div 8 - 4) \div 2 = (1020 + v) \div 2
      BY <2>1, <2>4
    <3> QED BY <1>1, <2>3, <3>1
  <2>5. /\ IDT_BASE + 8 * v \notin DOMAIN words
        /\ IDT_BASE + 8 * v + 4 \notin DOMAIN words
    BY <2>1, <2>4 DEF IDT_BASE
  <2> QED BY <1>4, <2>2, <2>5 DEF GatesSet
<1>9. KernelCode'
  <2>1. GDT_BASE + 12 \notin DOMAIN words
    BY <1>1
  <2>2. Read(GDT_BASE + 8)'[1] = 0
    BY <1>1, <1>3, <1>4 DEF KernelCode
  <2> QED BY <1>4, <2>1, <2>2 DEF KernelCode
<1>10. Tables'
  <2>1. Read(0)' = Read(0)
    BY <1>1, <1>4
  <2>2. \A i \in 1 .. PD_TOP : Read(4 * i)' = Read(4 * i)
    BY <1>1, <1>4 DEF PD_TOP
  <2>3. \A p \in Low \ {0} : Read(KERNEL_PT_PHY_ADDR + 4 * p)'
                               = Read(KERNEL_PT_PHY_ADDR + 4 * p)
    BY <1>1, <1>4, InLow DEF KERNEL_PT_PHY_ADDR
  <2>4. Present(Read(KERNEL_PT_PHY_ADDR)')
    BY <1>1, <1>3, <1>4 DEF Tables, KERNEL_PT_PHY_ADDR
  <2>5. pages' \subseteq Low => Read(KERNEL_PT_PHY_ADDR)'
                          = Entry(0, P_SYSTEM, P_READ_WRITE)
    BY <1>4 DEF Tables
  <2> QED BY <2>1, <2>2, <2>3, <2>4, <2>5 DEF Tables, Present
<1> QED BY <1>2, <1>3, <1>4, <1>5, <1>6, <1>7, <1>8, <1>9, <1>10

-----------------------------------------------------------------------------
(* The descriptors and gates that are written.                             *)
LEMMA DescriptorIsWords ==
  ASSUME NEW base \in Nat, base < \h1000000,
         NEW limit \in Nat, limit <= \hFFFFF, NEW G \in {0, 1},
         NEW S \in {0, 1}, NEW type \in Nat, type <= 15
  PROVE  /\ DescriptorLow(base, limit) \in Word
         /\ DescriptorHigh(base, limit, G, S, type, 0) \in Word
<1> DEFINE b == base \div \h1000000
           l == limit \div 65536
           c == (base \div 65536) % 256
           g == 128 * G
           s == 4096 * S
           t == 256 * type
<1>1. /\ base % 65536 \in Int /\ 0 <= base % 65536 /\ base % 65536 <= 65535
      /\ limit % 65536 \in Int /\ 0 <= limit % 65536 /\ limit % 65536 <= 65535
  OBVIOUS
<1>2. /\ b = 0 /\ l \in Nat /\ l <= 15 /\ c \in Nat /\ c <= 255
      /\ g \in Nat /\ g <= 128 /\ s \in Nat /\ s <= 4096
      /\ t \in Nat /\ t <= 3840
  OBVIOUS
<1>3. DescriptorLow(base, limit) \in Word
  BY <1>1, InWord DEF DescriptorLow
<1>4. DescriptorHigh(base, limit, G, S, type, 0)
        = <<b * 256 + g + 64 + l, 32768 + 8192 * 0 + s + t + c>>
  BY SMT DEF DescriptorHigh
<1> HIDE DEF b, l, c, g, s, t
<1>5. <<b * 256 + g + 64 + l, 32768 + 8192 * 0 + s + t + c>> \in Word
  BY <1>2, InWord, SMT
<1> QED BY <1>3, <1>4, <1>5

SystemDescriptor(gd, a, base, limit, G, S, type) ==
  /\ a \in Nat /\ DOMAIN gd = {a, a + 4}
  /\ gd[a] = DescriptorLow(base, limit)
  /\ gd[a + 4] = DescriptorHigh(base, limit, G, S, type, 0)
  /\ gd[a] \in Word /\ gd[a + 4] \in Word

(* set_gd stores the two words of one descriptor.                          *)
LEMMA set_gdWrites ==
  ASSUME NEW num \in Nat, num <= 1027,
         NEW base \in Nat, base < \h1000000,
         NEW limit \in Nat, limit <= \hFFFFF, NEW G \in {0, 1},
         NEW S \in {0, 1}, NEW type \in Nat, type <= 15
  PROVE  SystemDescriptor(set_gd(num, base, limit, G, S, type, 0),
                          GDT_BASE + 8 * num, base, limit, G, S, type)
<1> DEFINE a == GDT_BASE + 8 * num
           gd == set_gd(num, base, limit, G, S, type, 0)
           low == DescriptorLow(base, limit)
           high == DescriptorHigh(base, limit, G, S, type, 0)
<1>1. a \in Nat /\ ~(num > GDT_LIMIT)
  BY SMT DEF GDT_BASE, GDT_LIMIT
<1>2. low \in Word /\ high \in Word
  BY DescriptorIsWords, SMT
<1>3. gd = (a :> low @@ (a + 4) :> high)
  BY <1>1, SMT DEF set_gd
<1> HIDE DEF a, gd, low, high
<1>4. DOMAIN gd = {a, a + 4} /\ gd[a] = low /\ gd[a + 4] = high
  BY <1>1, <1>3, SMT DEF :>, @@
<1>5. SystemDescriptor(gd, a, base, limit, G, S, type)
  BY <1>1, <1>2, <1>4, SMT DEF SystemDescriptor, low, high
<1> QED BY <1>5, SMT DEF a, gd

(* The kernel's two segments, word by word.                                *)
LEMMA KernelSegmentsAre ==
  /\ \A a \in DOMAIN KernelSegments :
       /\ a \in Nat /\ 8192 <= a /\ a < 8192 + 32 /\ a % 4 = 0
       /\ KernelSegments[a] \in Word
  /\ GDT_BASE + 8 \in DOMAIN KernelSegments
  /\ GDT_BASE + 12 \in DOMAIN KernelSegments
  /\ KernelSegments[GDT_BASE + 8][1] = 0
  /\ KernelSegments[GDT_BASE + 12]
       = <<\hCF, 32768 + 4096 + 256 * GD_CODE>>
<1> DEFINE s0 == set_gd(0, 0, 0, 0, 0, 0, 0)
           s1 == set_gd(1, 0, \hFFFFF, 1, 1, GD_CODE, 0)
           s2 == set_gd(2, 0, \hFFFFF, 1, 1, GD_DATA, 0)
           s3 == set_gd(3, 0, 0, 0, 0, 0, 0)
<1> HIDE DEF s0, s1, s2, s3
<1>1. GD_CODE \in Nat /\ GD_CODE <= 15 /\ GD_DATA \in Nat /\ GD_DATA <= 15
  BY DEF GD_CODE, GD_DATA
<1>2. GDT_BASE = 8192
  BY DEF GDT_BASE
<1>3. SystemDescriptor(s0, GDT_BASE + 8 * 0, 0, 0, 0, 0, 0)
  BY set_gdWrites, SMT DEF s0
<1>4. SystemDescriptor(s1, GDT_BASE + 8 * 1, 0, \hFFFFF, 1, 1, GD_CODE)
  BY <1>1, set_gdWrites, SMT DEF s1
<1>5. DescriptorLow(0, \hFFFFF)[1] = 0
  BY SMT DEF DescriptorLow
<1>6. DescriptorHigh(0, \hFFFFF, 1, 1, GD_CODE, 0)
        = <<\hCF, 32768 + 4096 + 256 * GD_CODE>>
  BY <1>1, SMT DEF DescriptorHigh
<1>7. SystemDescriptor(s2, GDT_BASE + 8 * 2, 0, \hFFFFF, 1, 1, GD_DATA)
  BY <1>1, set_gdWrites, SMT DEF s2
<1>8. SystemDescriptor(s3, GDT_BASE + 8 * 3, 0, 0, 0, 0, 0)
  BY set_gdWrites, SMT DEF s3
<1>9. KernelSegments = ((s0 @@ s1) @@ s2) @@ s3
  BY SMT DEF KernelSegments, s0, s1, s2, s3
<1>10. /\ DOMAIN s0 = {8192, 8196} /\ s0[8192] \in Word /\ s0[8196] \in Word
       /\ DOMAIN s1 = {8200, 8204} /\ s1[8200] \in Word /\ s1[8204] \in Word
       /\ DOMAIN s2 = {8208, 8212} /\ s2[8208] \in Word /\ s2[8212] \in Word
       /\ DOMAIN s3 = {8216, 8220} /\ s3[8216] \in Word /\ s3[8220] \in Word
  BY <1>2, <1>3, <1>4, <1>7, <1>8, SMT DEF SystemDescriptor
<1>11. /\ DOMAIN KernelSegments = {8192, 8196, 8200, 8204,
                                   8208, 8212, 8216, 8220}
       /\ \A a \in DOMAIN KernelSegments : KernelSegments[a] \in Word
       /\ KernelSegments[8200] = s1[8200] /\ KernelSegments[8204] = s1[8204]
  BY <1>9, <1>10, SMT DEF @@
<1>12. s1[8200][1] = 0
  BY <1>2, <1>4, <1>5, SMT DEF SystemDescriptor
<1>13. s1[8204] = <<\hCF, 32768 + 4096 + 256 * GD_CODE>>
  BY <1>2, <1>4, <1>6, SMT DEF SystemDescriptor
<1> QED BY <1>2, <1>11, <1>12, <1>13, SMT

(* Every vector has one gate, for its handler.                             *)
Ring(v) == IF v \in DOMAIN UserGates THEN 3 ELSE 0

(* Which vectors are set by name, and to which handlers.                   *)
LEMMA GatesOf ==
  /\ DOMAIN KernelGates = {0, 12, 13} /\ DOMAIN UserGates = {33, 64, 65, 66}
  /\ \A v \in DOMAIN KernelGates : KernelGates[v] \in Handlers
  /\ \A v \in DOMAIN UserGates : UserGates[v] \in Handlers
BY DEF KernelGates, UserGates, Handlers, :>, @@

(* The two words of a gate.                                                *)
LEMMA GateIs ==
  ASSUME NEW v \in Nat
  PROVE  /\ HandlerOf(v) \in Handlers
         /\ Gate(v) = set_id(v, Offset[HandlerOf(v)], Ring(v))
<1>1. "default_ISR" \in Handlers
  BY DEF Handlers
<1>2. CASE v \in DOMAIN KernelGates
  <2>1. v \notin DOMAIN UserGates
    BY <1>2, GatesOf
  <2> QED BY <1>2, <2>1, GatesOf DEF HandlerOf, Gate, Ring
<1>3. CASE v \in DOMAIN UserGates
  <2>1. v \notin DOMAIN KernelGates
    BY <1>3, GatesOf
  <2> QED BY <1>3, <2>1, GatesOf DEF HandlerOf, Gate, Ring
<1>4. CASE v \notin DOMAIN KernelGates /\ v \notin DOMAIN UserGates
  BY <1>1, <1>4 DEF HandlerOf, Gate, Ring
<1> QED BY <1>2, <1>3, <1>4

(* Both halves of a gate are words.                                        *)
LEMMA GateWords ==
  ASSUME NEW v \in Nat, v < 256, NEW offset, offset = Offset[HandlerOf(v)]
  PROVE  /\ offset \in Nat /\ offset <= MB4
         /\ Gate(v)[IDT_BASE + 8 * v] = GateLow(offset)
         /\ Gate(v)[IDT_BASE + 8 * v + 4] = GateHigh(offset, Ring(v))
         /\ GateLow(offset) \in Word /\ GateHigh(offset, Ring(v)) \in Word
<1>1. MB4 \in Int
  BY DEF MB4
<1>2. offset \in Nat /\ offset <= MB4
  BY <1>1, GateIs, OffsetAssumption
<1>3. Ring(v) \in {0, 3}
  BY DEF Ring
<1>4. IDT_BASE + 8 * v \in Int /\ ~(v > IDT_LIMIT)
  BY DEF IDT_BASE, IDT_LIMIT
<1>5. Gate(v) = (IDT_BASE + 8 * v) :> GateLow(offset)
                  @@ (IDT_BASE + 8 * v + 4) :> GateHigh(offset, Ring(v))
  BY <1>4, GateIs, Zenon DEF set_id
<1>6. /\ Gate(v)[IDT_BASE + 8 * v] = GateLow(offset)
      /\ Gate(v)[IDT_BASE + 8 * v + 4] = GateHigh(offset, Ring(v))
  BY <1>4, <1>5 DEF :>, @@
<1>7. GateLow(offset) \in Word
  BY <1>2, InWord, SMT DEF GateLow
<1>8. GateHigh(offset, Ring(v)) \in Word
  <2>1. offset \div 65536 \in Nat /\ offset \div 65536 <= 64
    BY <1>2, SMT DEF MB4
  <2> QED BY <1>3, <2>1, InWord, SMT DEF GateHigh
<1> QED BY <1>2, <1>6, <1>7, <1>8

-----------------------------------------------------------------------------
(* Start-up fills the memory.                                              *)
LEMMA InitMInv == Init => MInv
<1> SUFFICES ASSUME Init PROVE MInv
  OBVIOUS
<1>1. PICK dirty \in SUBSET Dirt : mem = [a \in dirty |-> ONES]
  BY DEF Init
<1>2. ONES \in Word
  BY InWord DEF ONES
<1>3. Typed
  BY <1>1, <1>2, DirtAssumption DEF Typed
<1>4. pc = "clear" /\ step = 0 /\ DOMAIN data = {}
  BY DEF Init
<1> QED BY <1>3, <1>4
        DEF MInv, Memory, Bits, Calls, FirstPages, Created, NoTasks, Started,
            HoldsNumber

(* Start-up leaves data, and the numbers of creat_task, alone.             *)
LEMMA StartUpCalls ==
  ASSUME IInv, MInv, ~Started, ~Started', Goto(pc, pc')
  PROVE  /\ Calls' /\ FirstPages' /\ Created' /\ step' \in 0 .. 8
         /\ DOMAIN data' = {}
<1>1. DOMAIN data = {} /\ data' = data /\ step' = step
  BY DEF IInv, StartUp, Goto
<1> QED BY <1>1 DEF MInv, Bits, Calls, FirstPages, Created, NoTasks, Started,
                    HoldsNumber

LEMMA ClearSectionMInv == IInv /\ MInv /\ clear_section => MInv'
<1> SUFFICES ASSUME IInv, MInv, clear_section PROVE MInv'
  OBVIOUS
<1>1. pc = "clear" /\ pc' = "descriptors" /\ Goto(pc, pc')
  BY DEF clear_section, Goto
<1>2. /\ \A a \in DOMAIN mem' : a \in DOMAIN mem /\ mem'[a] = mem[a]
      /\ \A a : Cleared(a) => Read(a)' = ZERO
  BY DEF clear_section, Read
<1>3. Typed'
  BY <1>2 DEF MInv, Memory, Typed
<1>4. TempHigh'
  <2>1. \A k \in Low : Cleared(TEMP_PT_BASE + 4 * k)
    BY InLow DEF Cleared, TEMP_PT_BASE
  <2> QED BY <1>2, <2>1 DEF TempHigh, Present, ZERO
<1>5. LdtsEmpty'
  <2>1. \A n \in 1 .. LDT_TOP : /\ Cleared(TASK_LDT_BASE + 32 * n + 8)
                                /\ Cleared(TASK_LDT_BASE + 32 * n + 12)
    BY DEF Cleared, TASK_LDT_BASE, LDT_TOP
  <2> QED BY <1>2, <2>1 DEF LdtsEmpty
<1>6. Bits'
  BY <1>1, StartUpCalls DEF Bits, Started
<1>7. Calls' /\ FirstPages' /\ Created'
  BY <1>1, StartUpCalls DEF Started
<1> QED BY <1>1, <1>3, <1>4, <1>5, <1>6, <1>7 DEF MInv, Memory

(* The addresses of a table's words.                                       *)
LEMMA WordsAre ==
  ASSUME NEW base \in Nat, NEW n \in Nat
  PROVE  \A a : a \in Words(base, n) <=>
                  \E k \in Nat : k < n /\ a = base + 4 * k
BY DEF Words

LEMMA DescriptorInitMInv == IInv /\ MInv /\ descriptor_init => MInv'
<1> SUFFICES ASSUME IInv, MInv, descriptor_init PROVE MInv'
  OBVIOUS
<1>1. pc = "descriptors" /\ pc' = "paging" /\ Goto(pc, pc') /\ UNCHANGED maps
  BY DEF descriptor_init, Goto
<1> DEFINE idt == [a \in Words(IDT_BASE, 512) |->
                     Gate((a - IDT_BASE) \div 8)[a]]
<1>2. \A a : a \in DOMAIN idt <=>
               \E k \in Nat : k < 512 /\ a = IDT_BASE + 4 * k
  BY WordsAre DEF IDT_BASE
<1>3. ASSUME NEW k \in Nat, k < 512
      PROVE  /\ idt[IDT_BASE + 4 * k] = Gate(k \div 2)[IDT_BASE + 4 * k]
             /\ idt[IDT_BASE + 4 * k] \in Word
  <2> DEFINE v == k \div 2
             b == IDT_BASE + 4 * k
  <2>1. /\ v \in Nat /\ v < 256
        /\ b = IDT_BASE + 8 * v \/ b = IDT_BASE + 8 * v + 4
        /\ (b - IDT_BASE) \div 8 = v
    BY <1>3 DEF IDT_BASE
  <2>2. b \in DOMAIN idt
    BY <1>2, <1>3
  <2> HIDE DEF v, b
  <2>3. idt[b] = Gate(v)[b]
    BY <2>1, <2>2
  <2>4. Gate(v)[b] \in Word
    BY <2>1, GateWords
  <2> QED BY <2>3, <2>4 DEF v, b
<1>4. mem' = (KernelSegments @@ idt) @@ mem
  BY DEF descriptor_init
<1> HIDE DEF idt
<1>5. \A a \in DOMAIN KernelSegments : Read(a)' = KernelSegments[a]
  BY <1>4 DEF Read, @@
<1>6. ASSUME NEW a \in DOMAIN idt
      PROVE  /\ a \in Nat /\ a % 4 = 0 /\ 16384 <= a /\ a < 18432
             /\ idt[a] \in Word
  <2>1. PICK k \in Nat : k < 512 /\ a = IDT_BASE + 4 * k
    BY <1>2, <1>6
  <2>2. idt[a] \in Word
    BY <1>3, <2>1
  <2> QED BY <2>1, <2>2 DEF IDT_BASE
<1>7. \A a \in DOMAIN idt : Read(a)' = idt[a]
  <2>1. \A a \in DOMAIN idt : a \notin DOMAIN KernelSegments
    BY <1>6, KernelSegmentsAre
  <2> QED BY <1>4, <2>1 DEF Read, @@
<1>8. \A a : a \notin DOMAIN KernelSegments /\ a \notin DOMAIN idt =>
               Read(a)' = Read(a)
  BY <1>4 DEF Read, @@
<1>9. Typed'
  <2>1. \A a \in DOMAIN mem' :
          \/ a \in DOMAIN KernelSegments /\ mem'[a] = KernelSegments[a]
          \/ a \in DOMAIN idt /\ mem'[a] = idt[a]
          \/ a \in DOMAIN mem /\ mem'[a] = mem[a]
    BY <1>4 DEF @@
  <2>2. \A a \in DOMAIN KernelSegments :
          a \in Nat /\ a % 4 = 0 /\ KernelSegments[a] \in Word
    BY KernelSegmentsAre
  <2>3. Typed
    BY DEF MInv, Memory
  <2> QED BY <1>6, <2>1, <2>2, <2>3 DEF Typed
<1>10. \A a \in Nat : 18432 <= a => Read(a)' = Read(a)
  BY <1>6, <1>8, KernelSegmentsAre
<1>11. TempHigh'
  BY <1>1, <1>10, InLow
     DEF MInv, Memory, TempHigh, Present, TEMP_PT_BASE, maps
<1>12. LdtsEmpty'
  <2>1. \A n \in 1 .. LDT_TOP :
          /\ TASK_LDT_BASE + 32 * n + 8 \in Nat
          /\ 18432 <= TASK_LDT_BASE + 32 * n + 8
          /\ TASK_LDT_BASE + 32 * n + 12 \in Nat
          /\ 18432 <= TASK_LDT_BASE + 32 * n + 12
    BY DEF TASK_LDT_BASE, LDT_TOP
  <2>2. LdtsEmpty
    BY <1>1 DEF MInv, Memory
  <2> QED BY <1>10, <2>1, <2>2 DEF LdtsEmpty
<1>13. GatesSet'
  <2> SUFFICES ASSUME NEW v \in 0 .. VECTORS - 1
               PROVE  /\ Read(IDT_BASE + 8 * v)' = Gate(v)[IDT_BASE + 8 * v]
                      /\ Read(IDT_BASE + 8 * v + 4)'
                           = Gate(v)[IDT_BASE + 8 * v + 4]
    BY DEF GatesSet
  <2> DEFINE k == 2 * v
  <2>1. /\ k \in Nat /\ k + 1 \in Nat /\ k < 512 /\ k + 1 < 512
        /\ k \div 2 = v /\ (k + 1) \div 2 = v
        /\ IDT_BASE + 4 * k = IDT_BASE + 8 * v
        /\ IDT_BASE + 4 * (k + 1) = IDT_BASE + 8 * v + 4
    BY DEF VECTORS, IDT_BASE
  <2> HIDE DEF k
  <2>2. /\ idt[IDT_BASE + 4 * k] = Gate(v)[IDT_BASE + 8 * v]
        /\ idt[IDT_BASE + 4 * (k + 1)] = Gate(v)[IDT_BASE + 8 * v + 4]
        /\ IDT_BASE + 4 * k \in DOMAIN idt
        /\ IDT_BASE + 4 * (k + 1) \in DOMAIN idt
    BY <1>2, <1>3, <2>1
  <2> QED BY <1>7, <2>1, <2>2
<1>14. KernelCode'
  BY <1>5, KernelSegmentsAre DEF KernelCode
<1>15. Calls' /\ FirstPages' /\ Created' /\ Bits'
  BY <1>1, StartUpCalls DEF Started, Bits
<1> QED BY <1>1, <1>9, <1>11, <1>12, <1>13, <1>14, <1>15 DEF MInv, Memory

(* The entries that paging_init writes.                                    *)
LEMMA KernelEntry ==
  ASSUME NEW base \in Nat, base % 4096 = 0, base < MB4
  PROVE  /\ Present(Entry(base, P_SYSTEM, P_READ_WRITE))
         /\ Entry(base, P_SYSTEM, P_READ_WRITE) \in Word
<1>1. PICK p \in Nat : base = 4096 * p + 0 /\ p < 16 * 65536
  BY SMT DEF MB4
<1>2. P_SYSTEM \in {0, 1} /\ P_READ_WRITE \in {0, 1}
  BY DEF P_SYSTEM, P_READ_WRITE
<1> QED BY <1>1, <1>2, EntryLeads, SMT

(* Entry 0 leads to the kernel's table, the others to the temporary one.   *)
LEMMA KernelPDEIs ==
  ASSUME NEW k \in Nat, k < 1023, NEW a, a = KERNEL_PD_PHY_ADDR + 4 * k
  PROVE  KernelPDE(a) =
           Entry(IF k = 0 THEN KERNEL_PT_PHY_ADDR ELSE TEMP_PT_BASE,
                 P_SYSTEM, P_READ_WRITE)
<1>1. Index(a, KERNEL_PD_PHY_ADDR) = k /\ a \in Nat /\ ~(k > 1023)
  BY DEF Index, KERNEL_PD_PHY_ADDR
<1> DEFINE table == IF k = 0 THEN KERNEL_PT_PHY_ADDR ELSE TEMP_PT_BASE
<1>2. KernelPDE(a) = PDE_SET(k, KERNEL_PD_PHY_ADDR, table,
                             P_SYSTEM, P_READ_WRITE)[a]
  BY <1>1, Zenon DEF KernelPDE
<1> HIDE DEF table
<1>3. KernelPDE(a) = (a :> Entry(table, P_SYSTEM, P_READ_WRITE))[a]
  BY <1>1, <1>2, Zenon DEF PDE_SET
<1>4. KernelPDE(a) = Entry(table, P_SYSTEM, P_READ_WRITE)
  BY <1>3 DEF :>
<1> QED BY <1>4 DEF table

(* Every entry of the kernel's table leads to the page of its index.       *)
LEMMA KernelPTEIs ==
  ASSUME NEW k \in Nat, k < 1024, NEW a, a = KERNEL_PT_PHY_ADDR + 4 * k
  PROVE  KernelPTE(a) = Entry(PAGE_SIZE * k, P_SYSTEM, P_READ_WRITE)
<1>1. /\ Index(a, KERNEL_PT_PHY_ADDR) = k /\ a \in Nat /\ ~(k > 1023)
      /\ k * PAGE_SIZE = PAGE_SIZE * k
  BY DEF Index, KERNEL_PT_PHY_ADDR, PAGE_SIZE
<1>2. KernelPTE(a) = PTE_SET(k, KERNEL_PT_PHY_ADDR, PAGE_SIZE * k,
                             P_SYSTEM, P_READ_WRITE)[a]
  BY <1>1, Zenon DEF KernelPTE
<1>3. KernelPTE(a) = (a :> Entry(PAGE_SIZE * k, P_SYSTEM, P_READ_WRITE))[a]
  BY <1>1, <1>2, Zenon DEF PTE_SET
<1> QED BY <1>3 DEF :>

LEMMA PagingInitMInv == IInv /\ MInv /\ paging_init => MInv'
<1> SUFFICES ASSUME IInv, MInv, paging_init PROVE MInv'
  OBVIOUS
<1>1. pc = "paging" /\ pc' = "map" /\ Goto(pc, pc') /\ UNCHANGED maps
  BY DEF paging_init, Goto
<1>2. TempHigh /\ LdtsEmpty /\ GatesSet /\ KernelCode /\ Typed
  BY <1>1 DEF MInv, Memory
<1> DEFINE pd == [a \in Words(KERNEL_PD_PHY_ADDR, 1023) |-> KernelPDE(a)]
           pt == [a \in Words(KERNEL_PT_PHY_ADDR, 1024) |-> KernelPTE(a)]
<1>3. mem' = (pd @@ pt) @@ mem
  BY DEF paging_init
<1>4. \A a : a \in DOMAIN pd <=>
               \E k \in Nat : k < 1023 /\ a = KERNEL_PD_PHY_ADDR + 4 * k
  BY WordsAre DEF KERNEL_PD_PHY_ADDR
<1>5. \A a : a \in DOMAIN pt <=>
               \E k \in Nat : k < 1024 /\ a = KERNEL_PT_PHY_ADDR + 4 * k
  BY WordsAre DEF KERNEL_PT_PHY_ADDR
<1>6. /\ \A a \in DOMAIN pd : pd[a] = KernelPDE(a)
      /\ \A a \in DOMAIN pt : pt[a] = KernelPTE(a)
  OBVIOUS
<1> HIDE DEF pd, pt
<1>7. ASSUME NEW k \in Nat, k < 1023, NEW a, a = KERNEL_PD_PHY_ADDR + 4 * k
      PROVE  /\ a \in DOMAIN pd
             /\ pd[a] = Entry(IF k = 0 THEN KERNEL_PT_PHY_ADDR
                              ELSE TEMP_PT_BASE, P_SYSTEM, P_READ_WRITE)
  BY <1>4, <1>6, <1>7, KernelPDEIs
<1>8. ASSUME NEW k \in Nat, k < 1024, NEW a, a = KERNEL_PT_PHY_ADDR + 4 * k
      PROVE  /\ a \in DOMAIN pt
             /\ pt[a] = Entry(PAGE_SIZE * k, P_SYSTEM, P_READ_WRITE)
  BY <1>5, <1>6, <1>8, KernelPTEIs
<1>9. ASSUME NEW a \in DOMAIN pd
      PROVE  a \in Nat /\ a % 4 = 0 /\ a < 4096 /\ pd[a] \in Word
  <2>1. PICK k \in Nat : k < 1023 /\ a = KERNEL_PD_PHY_ADDR + 4 * k
    BY <1>4
  <2> DEFINE table == IF k = 0 THEN KERNEL_PT_PHY_ADDR ELSE TEMP_PT_BASE
  <2>2. pd[a] = Entry(table, P_SYSTEM, P_READ_WRITE)
    BY <1>7, <2>1
  <2>3. table \in Nat /\ table % 4096 = 0 /\ table < MB4
    BY DEF KERNEL_PT_PHY_ADDR, TEMP_PT_BASE, MB4
  <2> HIDE DEF table
  <2>4. pd[a] \in Word
    BY <2>2, <2>3, KernelEntry
  <2> QED BY <2>1, <2>4 DEF KERNEL_PD_PHY_ADDR
<1>10. ASSUME NEW a \in DOMAIN pt
       PROVE  a \in Nat /\ a % 4 = 0 /\ 4096 <= a /\ a < 8192 /\ pt[a] \in Word
  <2>1. PICK k \in Nat : k < 1024 /\ a = KERNEL_PT_PHY_ADDR + 4 * k
    BY <1>5
  <2>2. pt[a] = Entry(PAGE_SIZE * k, P_SYSTEM, P_READ_WRITE)
    BY <1>8, <2>1
  <2>3. /\ PAGE_SIZE * k \in Nat /\ (PAGE_SIZE * k) % 4096 = 0
        /\ PAGE_SIZE * k < MB4
    BY <2>1 DEF PAGE_SIZE, MB4
  <2>4. pt[a] \in Word
    BY <2>2, <2>3, KernelEntry
  <2> QED BY <2>1, <2>4 DEF KERNEL_PT_PHY_ADDR
<1>11. \A a \in DOMAIN pd : Read(a)' = pd[a]
  BY <1>3 DEF Read, @@
<1>12. \A a \in DOMAIN pt : Read(a)' = pt[a]
  <2>1. \A a \in DOMAIN pt : a \notin DOMAIN pd
    BY <1>9, <1>10
  <2> QED BY <1>3, <2>1 DEF Read, @@
<1>13. \A a : a \notin DOMAIN pd /\ a \notin DOMAIN pt => Read(a)' = Read(a)
  BY <1>3 DEF Read, @@
<1>14. \A a \in Nat : 8192 <= a => Read(a)' = Read(a)
  BY <1>9, <1>10, <1>13
<1>15. Typed'
  <2>1. \A a \in DOMAIN mem' :
          \/ a \in DOMAIN pd /\ mem'[a] = pd[a]
          \/ a \in DOMAIN pt /\ mem'[a] = pt[a]
          \/ a \in DOMAIN mem /\ mem'[a] = mem[a]
    BY <1>3 DEF @@
  <2> QED BY <1>2, <1>9, <1>10, <2>1 DEF Typed
<1>16. TempHigh'
  BY <1>1, <1>2, <1>14, InLow DEF TempHigh, Present, TEMP_PT_BASE, maps
<1>17. LdtsEmpty'
  <2>1. \A n \in 1 .. LDT_TOP :
          /\ TASK_LDT_BASE + 32 * n + 8 \in Nat
          /\ 8192 <= TASK_LDT_BASE + 32 * n + 8
          /\ TASK_LDT_BASE + 32 * n + 12 \in Nat
          /\ 8192 <= TASK_LDT_BASE + 32 * n + 12
    BY DEF TASK_LDT_BASE, LDT_TOP
  <2> QED BY <1>2, <1>14, <2>1 DEF LdtsEmpty
<1>18. GatesSet'
  <2>1. \A v \in 0 .. VECTORS - 1 :
          /\ IDT_BASE + 8 * v \in Nat /\ 8192 <= IDT_BASE + 8 * v
          /\ IDT_BASE + 8 * v + 4 \in Nat /\ 8192 <= IDT_BASE + 8 * v + 4
    BY DEF IDT_BASE, VECTORS
  <2>2. \A v : WrittenOver(v)' = WrittenOver(v)
    BY <1>1 DEF WrittenOver, Goto, maps
  <2> QED BY <1>2, <1>14, <2>1, <2>2 DEF GatesSet
<1>19. KernelCode'
  <2>1. /\ GDT_BASE + 8 \in Nat /\ 8192 <= GDT_BASE + 8
        /\ GDT_BASE + 12 \in Nat /\ 8192 <= GDT_BASE + 12
    BY DEF GDT_BASE
  <2> QED BY <1>2, <1>14, <2>1 DEF KernelCode
<1>20. Tables'
  <2>1. Read(0)' = Entry(KERNEL_PT_PHY_ADDR, P_SYSTEM, P_READ_WRITE)
    <3>1. 0 = KERNEL_PD_PHY_ADDR + 4 * 0
      BY DEF KERNEL_PD_PHY_ADDR
    <3> QED BY <1>7, <1>11, <3>1
  <2>2. ASSUME NEW i \in 1 .. PD_TOP
        PROVE  Read(4 * i)' = Entry(TEMP_PT_BASE, P_SYSTEM, P_READ_WRITE)
    <3>1. /\ i \in Nat /\ i < 1023 /\ i # 0
          /\ 4 * i = KERNEL_PD_PHY_ADDR + 4 * i
      BY DEF PD_TOP, KERNEL_PD_PHY_ADDR
    <3> QED BY <1>7, <1>11, <3>1
  <2>3. ASSUME NEW k \in Low
        PROVE  Read(KERNEL_PT_PHY_ADDR + 4 * k)'
                 = Entry(PAGE_SIZE * k, P_SYSTEM, P_READ_WRITE)
    <3>1. k \in Nat /\ k < 1024
      BY InLow
    <3> QED BY <1>8, <1>12, <3>1
  <2>4. Read(KERNEL_PT_PHY_ADDR)' = Entry(0, P_SYSTEM, P_READ_WRITE)
    <3>1. /\ 0 \in Low /\ KERNEL_PT_PHY_ADDR + 4 * 0 = KERNEL_PT_PHY_ADDR
          /\ PAGE_SIZE * 0 = 0
      BY InLow DEF KERNEL_PT_PHY_ADDR, PAGE_SIZE
    <3> QED BY <2>3, <3>1
  <2>5. Present(Entry(0, P_SYSTEM, P_READ_WRITE))
    <3>1. 0 % 4096 = 0 /\ 0 < MB4
      BY DEF MB4
    <3> QED BY <3>1, KernelEntry
  <2>6. Present(Read(KERNEL_PT_PHY_ADDR)')
    BY <2>4, <2>5
  <2> QED BY <2>1, <2>2, <2>3, <2>4, <2>6 DEF Tables, Present
<1>21. Calls' /\ FirstPages' /\ Created' /\ Bits'
  BY <1>1, StartUpCalls DEF Started, Bits
<1> QED BY <1>1, <1>15, <1>16, <1>17, <1>18, <1>19, <1>20, <1>21
        DEF MInv, Memory

LEMMA MemMapInitMInv == IInv /\ MInv /\ mem_map_init => MInv'
<1> SUFFICES ASSUME IInv, MInv, mem_map_init PROVE MInv'
  OBVIOUS
<1>1. pc = "map" /\ pc' = "reserve" /\ Goto(pc, pc') /\ mem' = mem
  BY DEF mem_map_init, Goto
<1>2. pages = {} /\ data' = data
  BY <1>1 DEF IInv, StartUp, Goto
<1>3. \A a : Read(a)' = Read(a)
  BY <1>1 DEF Read
<1>4. Typed' /\ TempHigh' /\ LdtsEmpty' /\ KernelCode'
  BY <1>1, <1>2, <1>3
     DEF MInv, Memory, Typed, TempHigh, Present, LdtsEmpty, KernelCode
<1>5. GatesSet'
  BY <1>1, <1>2, <1>3, OverStays DEF MInv, Memory, GatesSet
<1>6. Tables'
  BY <1>1, <1>2, <1>3 DEF MInv, Memory, Tables, Present
<1>7. Calls' /\ FirstPages' /\ Created' /\ Bits'
  BY <1>1, StartUpCalls DEF Started, Bits
<1> QED BY <1>4, <1>5, <1>6, <1>7 DEF MInv, Memory

(* What a limit beyond the tables is, in numbers.                          *)
LEMMA TooFar ==
  /\ page_limit \in Nat => (PagesTooFar <=> 2562 <= page_limit)
  /\ task_limit \in Nat => (NumbersTooFar <=> 513 <= task_limit)
BY DEF PagesTooFar, NumbersTooFar, TaskData, TASK_DATA_BASE, TASK_LDT_BASE

(* A step that leaves memory alone keeps what is said of it.               *)
LEMMA SameMemory ==
  ASSUME Whole, mem' = mem, pages' \subseteq Low => pages \subseteq Low,
         pages \subseteq pages', DOMAIN data \subseteq DOMAIN data'
  PROVE  Whole' /\ \A a : Read(a)' = Read(a)
<1>1. \A a : Read(a)' = Read(a)
  BY DEF Read
<1>2. Typed' /\ TempHigh' /\ LdtsEmpty' /\ KernelCode'
  BY <1>1 DEF Whole, Typed, TempHigh, Present, LdtsEmpty, KernelCode
<1>3. GatesSet'
  BY <1>1, OverStays DEF Whole, GatesSet
<1>4. Tables'
  BY <1>1 DEF Whole, Tables, Present
<1> QED BY <1>1, <1>2, <1>3, <1>4 DEF Whole

(* The tables are whole once paging is set up.                             *)
LEMMA WholeMemory ==
  /\ MInv /\ pc \notin {"clear", "descriptors", "paging"} => Whole
  /\ Whole => Memory
BY DEF MInv, Memory, Whole

LEMMA ReserveMInv == IInv /\ MInv /\ Reserve => MInv'
<1> SUFFICES ASSUME IInv, MInv, Reserve PROVE MInv'
  OBVIOUS
<1>1. /\ pc = "reserve" /\ pc' = "idle" /\ mem' = mem /\ pages' = pages
      /\ numbers' = numbers /\ data' = data /\ step' = step
      /\ page_limit' \in Nat /\ 1024 <= page_limit'
      /\ page_limit' <= MAP_BITS /\ task_limit' <= MAP_BITS
  BY LimitsAre DEF Reserve, Goto
<1>2. pages = Low /\ numbers = {} /\ DOMAIN data = {}
  BY <1>1 DEF IInv, StartUp, Started
<1>3. Memory'
  <2>1. Whole
    BY <1>1, WholeMemory
  <2>2. Whole'
    BY <1>1, <2>1, SameMemory
  <2> QED BY <2>2 DEF Memory, Whole
<1>4. \A i \in Low : i \in Nat /\ i < page_limit'
  BY <1>1, InLow
<1>5. Bits'
  BY <1>1, <1>2, <1>4 DEF Bits, Filled, MInv
<1>6. Calls' /\ FirstPages' /\ Created'
  BY <1>1, <1>2 DEF Calls, FirstPages, Created, NoTasks, HoldsNumber
<1> QED BY <1>3, <1>5, <1>6 DEF MInv

(* A step that changes nothing.                                            *)
LEMMA StutterMInv == MInv /\ UNCHANGED vars => MInv'
<1> SUFFICES ASSUME MInv, UNCHANGED vars PROVE MInv'
  OBVIOUS
<1>1. \A a : Read(a)' = Read(a)
  BY DEF vars, Read
<1>2. /\ mem' = mem /\ pages' = pages /\ numbers' = numbers
      /\ page_limit' = page_limit /\ task_limit' = task_limit
      /\ pc' = pc /\ step' = step /\ task_num' = task_num
      /\ pd_base' = pd_base /\ code_pt_base' = code_pt_base
      /\ task_code_base' = task_code_base /\ data' = data
  BY DEF vars, maps, locals
<1>3. /\ Typed' = Typed /\ TempHigh' = TempHigh /\ LdtsEmpty' = LdtsEmpty
      /\ GatesSet' = GatesSet /\ KernelCode' = KernelCode /\ Tables' = Tables
  BY <1>1, <1>2
     DEF Typed, TempHigh, LdtsEmpty, GatesSet, WrittenOver, KernelCode, Tables,
         Present
<1>4. Memory'
  BY <1>2, <1>3 DEF MInv, Memory
<1>5. Bits'
  BY <1>2 DEF MInv, Bits, Started, Filled
<1>6. PagesTooFar' = PagesTooFar /\ NumbersTooFar' = NumbersTooFar
  BY <1>2 DEF PagesTooFar, NumbersTooFar, TaskData
<1>7. Calls' /\ FirstPages'
  BY <1>2, <1>6 DEF MInv, Calls, FirstPages, Taken, HoldsNumber, Started
<1>8. Created'
  BY <1>1, <1>2, <1>6 DEF MInv, Created, NoTasks, LdtOfTask0, Started
<1> QED BY <1>4, <1>5, <1>7, <1>8 DEF MInv

(* The pages of the kernel are 1024.                                       *)
LEMMA LowSize == Cardinality(Low) = 1024
<1>1. LOW_PAGES = 1024
  BY DEF LOW_PAGES
<1>2. 0 \in Int /\ LOW_PAGES - 1 \in Int
  BY <1>1
<1>3. Cardinality(0 .. LOW_PAGES - 1) =
        IF 0 > LOW_PAGES - 1 THEN 0 ELSE LOW_PAGES - 1 - 0 + 1
  BY <1>2, FS_Interval
<1> QED BY <1>1, <1>3 DEF Low

(* The limits stay.                                                        *)
LEMMA SameLimits ==
  ASSUME page_limit' = page_limit, task_limit' = task_limit
  PROVE  PagesTooFar' = PagesTooFar /\ NumbersTooFar' = NumbersTooFar
BY DEF PagesTooFar, NumbersTooFar, TaskData

(* With many pages the first call finds the last ones.                     *)
LEMMA FarFinds ==
  ASSUME IInv, MInv, PagesTooFar, pc \in {"pd", "code_pt", "code"}
  PROVE  /\ get_available_page # NONE
         /\ pc = "pd" => page_limit - 1 <= get_available_page
         /\ pc = "code_pt" => page_limit - 2 <= get_available_page
<1>1. /\ IsFiniteSet(pages) /\ Low \subseteq pages /\ page_limit \in Nat
      /\ Started
  BY DEF IInv, Finite, Started, LowNeverTaken, Control
<1>2. 2562 <= page_limit
  BY <1>1, TooFar
<1>3. Cardinality(pages) \in Nat /\ 1024 <= Cardinality(pages)
  <2>1. Cardinality(Low) <= Cardinality(pages)
    BY <1>1, FS_Subset
  <2> QED BY <1>1, <2>1, LowSize, FS_CardinalityType
<1>4. ASSUME NEW m \in Nat, m \notin pages, m < page_limit, page_limit - 3 <= m
      PROVE  get_available_page # NONE /\ m <= get_available_page
  <2>1. page_limit - 1 - Cardinality(pages) <= m
    BY <1>1, <1>3, <1>4
  <2> QED BY <1>1, <1>4, <2>1, LastFreeFinds DEF get_available_page
<1>5. CASE pc = "pd"
  <2>1. page_limit - 1 \notin pages
    BY <1>1, <1>2, <1>5, InLow DEF MInv, FirstPages
  <2> QED BY <1>1, <1>2, <1>4, <1>5, <2>1
<1>6. CASE pc = "code_pt"
  <2>1. page_limit - 2 \notin pages
    BY <1>1, <1>2, <1>6, InLow DEF MInv, FirstPages
  <2> QED BY <1>1, <1>2, <1>4, <1>6, <2>1
<1>7. CASE pc = "code"
  <2>1. page_limit - 3 \notin pages
    BY <1>1, <1>2, <1>7, InLow DEF MInv, FirstPages
  <2> QED BY <1>1, <1>2, <1>4, <1>7, <2>1
<1> QED BY <1>5, <1>6, <1>7

-----------------------------------------------------------------------------
(* Calls keep the memory and the maps in order.                            *)
LEMMA TakeNumberMInv == IInv /\ MInv /\ TakeNumber => MInv'
<1> SUFFICES ASSUME IInv, MInv, TakeNumber PROVE MInv'
  OBVIOUS
<1> DEFINE n == get_available_task_num
<1>1. /\ pc = "idle" /\ pc' = "pd" /\ mem' = mem /\ pages' = pages
      /\ data' = data /\ step' = step /\ page_limit' = page_limit
      /\ task_limit' = task_limit /\ task_num' = n /\ n # NONE
  BY DEF TakeNumber
<1>2. /\ IsFiniteSet(numbers) /\ numbers = DOMAIN data
      /\ task_limit \in Nat
  BY <1>1 DEF IInv, Finite, NumbersInUse, Started, Control
<1>3. /\ n \in Nat \ numbers /\ n < task_limit
      /\ \A m \in Nat : n < m /\ m < task_limit => m \in numbers
  BY <1>1, <1>2, LastFreeFacts DEF get_available_task_num
<1> HIDE DEF n
<1>4. numbers' = numbers \cup {n}
  BY <1>3, InvertFree DEF TakeNumber, task_num_write, n
<1>5. Bits
  BY DEF MInv
<1>6. Started /\ Started'
  BY <1>1 DEF Started
<1>7. Filled(numbers', task_limit)
  BY <1>3, <1>4, <1>5, <1>6 DEF Filled, Bits
<1>8. Bits'
  BY <1>1, <1>2, <1>3, <1>4, <1>5, <1>6, <1>7 DEF Bits, Filled
<1>9. Memory'
  <2>1. Whole
    BY <1>1, WholeMemory
  <2>2. Whole'
    BY <1>1, <2>1, SameMemory
  <2> QED BY <2>2 DEF Memory, Whole
<1>10. 0 \notin DOMAIN data
  <2> SUFFICES ASSUME 0 \in DOMAIN data PROVE FALSE
    OBVIOUS
  <2>1. \A m \in Nat : 0 <= m /\ m < task_limit => m \in numbers
    BY <1>2, <1>5, <1>6 DEF Bits, Filled
  <2> QED BY <1>3, <2>1
<1>11. PagesTooFar' = PagesTooFar /\ NumbersTooFar' = NumbersTooFar
  BY <1>1, SameLimits
<1>12. Created'
  BY <1>1, <1>6, <1>10, <1>11 DEF MInv, Created, NoTasks
<1>13. NumbersTooFar => n = task_limit - 1
  <2> SUFFICES ASSUME NumbersTooFar, n # task_limit - 1 PROVE FALSE
    OBVIOUS
  <2>1. numbers = {}
    BY <1>2, <1>6 DEF MInv, Created, NoTasks
  <2>2. task_limit - 1 \in Nat /\ n < task_limit - 1
    BY <1>2, <1>3, TooFar
  <2> QED BY <1>2, <1>3, <2>1, <2>2
<1>14. Calls'
  BY <1>1, <1>11, <1>13 DEF Calls, HoldsNumber
<1>15. FirstPages'
  BY <1>1, <1>6, <1>11 DEF MInv, FirstPages
<1> QED BY <1>8, <1>9, <1>12, <1>14, <1>15 DEF MInv

(* A call that finds no page.                                              *)
LEMMA NoPageMInv ==
  ASSUME NEW here \in {"pd", "code_pt", "code"}, IInv, MInv, NoPage(here)
  PROVE  MInv'
<1>1. /\ pc = here /\ pc' = "idle" /\ mem' = mem /\ pages' = pages
      /\ data' = data /\ step' = step /\ page_limit' = page_limit
      /\ task_limit' = task_limit /\ get_available_page = NONE
  BY DEF NoPage, locals
<1>2. task_num \notin DOMAIN data /\ numbers = DOMAIN data \cup {task_num}
  BY <1>1 DEF IInv, NumbersInUse, HoldsNumber
<1>3. numbers' = DOMAIN data
  BY <1>2, InvertUsed DEF NoPage, task_num_write
<1>4. Started /\ Started'
  BY <1>1 DEF Started
<1>5. Bits'
  BY <1>1, <1>2, <1>3, <1>4 DEF MInv, Bits, Filled
<1>6. Memory'
  <2>1. Whole
    BY <1>1, WholeMemory
  <2>2. Whole'
    BY <1>1, <2>1, SameMemory
  <2> QED BY <2>2 DEF Memory, Whole
<1>7. 0 \notin DOMAIN data
  BY <1>1 DEF MInv, Created
<1>8. PagesTooFar' = PagesTooFar /\ NumbersTooFar' = NumbersTooFar
  BY <1>1, SameLimits
<1>9. Created'
  BY <1>1, <1>4, <1>7, <1>8 DEF MInv, Created, NoTasks
<1>10. Calls'
  BY <1>1 DEF Calls, HoldsNumber
<1>11. FirstPages'
  BY <1>1, <1>8, FarFinds DEF FirstPages
<1> QED BY <1>5, <1>6, <1>9, <1>10, <1>11 DEF MInv

(* What taking a page does to the maps.                                    *)
LEMMA TakesPageBits ==
  ASSUME NEW here \in {"pd", "code_pt", "code"}, IInv, MInv, TakePage(here),
         NEW there \in {"code_pt", "code", "store", "fault"}, pc' = there,
         step' \in 0 .. 8
  PROVE  /\ Bits' /\ Taken(get_available_page * 8, page_limit)
         /\ ~(pages' \subseteq Low)
         /\ pages' = pages \cup {get_available_page}
         /\ get_available_page \in Nat /\ get_available_page < page_limit
         /\ page_limit \in Nat /\ page_limit <= MAP_BITS
<1> DEFINE p == get_available_page
<1>1. /\ pc = here /\ p # NONE /\ numbers' = numbers
      /\ page_limit' = page_limit /\ task_limit' = task_limit
      /\ data' = data
  BY DEF TakePage
<1>2. /\ IsFiniteSet(pages) /\ Low \subseteq pages /\ page_limit \in Nat
  BY <1>1 DEF IInv, Finite, Started, LowNeverTaken, Control
<1>3. p \in Nat \ pages /\ p < page_limit
  BY <1>1, <1>2, LastFreeFacts DEF get_available_page
<1>4. pages' = pages \cup {p}
  BY <1>3, InvertFree DEF TakePage, mem_map_write
<1> HIDE DEF p
<1>5. 1024 <= p
  BY <1>2, <1>3, InLow
<1>6. Bits /\ Started /\ Started'
  BY <1>1 DEF MInv, Started
<1>7. Bits'
  BY <1>1, <1>3, <1>4, <1>6 DEF Bits, Filled
<1>8. ~(pages' \subseteq Low)
  BY <1>2, <1>3, <1>4
<1>9. Taken(p * 8, page_limit)
  BY <1>2, <1>3, <1>5 DEF Taken
<1>10. page_limit <= MAP_BITS
  BY <1>6 DEF Bits
<1> QED BY <1>2, <1>3, <1>4, <1>7, <1>8, <1>9, <1>10 DEF p

(* A page below 4MB has no entry in the table that is to map it.           *)
LEMMA NoEntry ==
  ASSUME NEW base, NEW limit \in Nat, Taken(base, limit), base < MB4,
         NEW table, NEW US, NEW RW
  PROVE  PTE_SET((base % MB4) \div 8, table, base, US, RW) = Nothing
<1>1. (base % MB4) \div 8 > 1023
  BY SMT DEF Taken, MB4
<1> QED BY <1>1, Zenon DEF PTE_SET

(* A call that stores nothing keeps the tables.                            *)
LEMMA NothingStored ==
  DOMAIN Nothing = {}
BY DEF Nothing

(* The entry of the new page directory.                                    *)
LEMMA TakenEntry ==
  ASSUME NEW base, NEW limit \in Nat, limit <= MAP_BITS, Taken(base, limit),
         NEW US \in {0, 1}, NEW RW \in {0, 1}
  PROVE  /\ Present(Entry(base, US, RW)) /\ Entry(base, US, RW) \in Word
         /\ base < 65536 => Entry(base, US, RW)[1] = 0
<1>1. PICK p \in Nat, r \in Nat : base = 4096 * p + r /\ p < 16 * 65536 /\ r < 4096
  <2>1. base \in Nat /\ base < 128 * 65536
    BY MapBitsAre, SMT DEF Taken
  <2>2. base = 4096 * (base \div 4096) + (base % 4096)
    BY <2>1, SMT
  <2> QED BY <2>1, <2>2, SMT
<1>2. Present(Entry(base, US, RW)) /\ Entry(base, US, RW) \in Word
  BY <1>1, EntryLeads, SMT
<1>3. base < 65536 => base \div 65536 = 0
  BY SMT DEF Taken
<1>4. Entry(base, US, RW)[1] = base \div 65536
  BY SMT DEF Entry
<1> QED BY <1>2, <1>3, <1>4, SMT

(* A store that disturbs no table, and not the entry of page 0.            *)
Apart(a, w) == Harmless(a, w) /\ a # KERNEL_PT_PHY_ADDR

(* The entry of a page taken goes where nothing but such pages is mapped.  *)
LEMMA TempEntryHarmless ==
  ASSUME NEW page \in Nat, page \in pages', page < MAP_BITS,
         NEW base, base = page * 8, Taken(base, MAP_BITS),
         NEW words, words = PTE_SET((base % MB4) \div 8, TEMP_PT_BASE, base,
                                    P_SYSTEM, P_READ_WRITE)
  PROVE  \A a \in DOMAIN words : Apart(a, words[a])
<1> DEFINE k == (base % MB4) \div 8
           e == Entry(base, P_SYSTEM, P_READ_WRITE)
<1>1. CASE k > 1023
  <2>1. words = Nothing
    BY <1>1, Zenon DEF PTE_SET
  <2> QED BY <2>1, NothingStored
<1>2. CASE ~(k > 1023)
  <2>1. k \in Nat /\ k <= 1023 /\ 8 * 65536 + k = page
    <3>1. MB4 = 64 * 65536
      BY SMT DEF MB4
    <3>2. base < 2 * MB4
      BY <3>1, MapBitsAre, SMT
    <3>3. MB4 <= base
      <4>1. base < MB4 => base % MB4 = base
        BY <3>1, SMT
      <4>2. base < MB4 => base \div 8 = page /\ page >= 1024
        BY SMT DEF Taken
      <4> QED BY <1>2, <3>1, <4>1, <4>2, SMT
    <3>4. base % MB4 = base - MB4
      BY <3>1, <3>2, <3>3, SMT
    <3>5. k = page - 8 * 65536
      BY <3>1, <3>4, SMT
    <3> QED BY <1>2, <3>1, <3>3, <3>5, SMT
  <2>2. e \in Word
    <3>1. MAP_BITS \in Nat /\ MAP_BITS <= MAP_BITS
      BY MapBitsAre, SMT
    <3>2. P_SYSTEM \in {0, 1} /\ P_READ_WRITE \in {0, 1}
      BY DEF P_SYSTEM, P_READ_WRITE
    <3> QED BY <3>1, <3>2, TakenEntry, SMT
  <2>3. words = (TEMP_PT_BASE + 4 * k) :> e
    BY <1>2, Zenon DEF PTE_SET
  <2> HIDE DEF e, k
  <2>4. DOMAIN words = {TEMP_PT_BASE + 4 * k} /\ words[TEMP_PT_BASE + 4 * k] = e
    BY <2>3 DEF :>
  <2> DEFINE a == TEMP_PT_BASE + 4 * k
  <2>5. /\ a \in Nat /\ a % 4 = 0 /\ TEMP_PT_BASE <= a
        /\ a < TEMP_PT_BASE + 4096 /\ (a - TEMP_PT_BASE) \div 4 = k
        /\ a # KERNEL_PT_PHY_ADDR
    BY <2>1 DEF TEMP_PT_BASE, KERNEL_PT_PHY_ADDR
  <2> HIDE DEF a
  <2>6. Apart(a, e)
    BY <2>1, <2>2, <2>5 DEF Apart, Harmless
  <2> QED BY <2>4, <2>6 DEF a
<1> QED BY <1>1, <1>2

(* A call that has taken its page and stored goes on.                      *)
LEMMA TakesPageMInv ==
  ASSUME NEW here \in {"pd", "code_pt", "code"}, IInv, MInv, TakePage(here),
         NEW there \in {"code_pt", "code", "store"}, pc' = there,
         step' \in 0 .. 8, there = "store" => step' = 1,
         Whole', Calls', FirstPages'
  PROVE  MInv'
<1>1. Bits'
  <2>1. there \in {"code_pt", "code", "store", "fault"}
    OBVIOUS
  <2> QED BY <2>1, TakesPageBits
<1>2. /\ pc = here /\ data' = data /\ page_limit' = page_limit
      /\ task_limit' = task_limit
  BY DEF TakePage
<1>3. 0 \notin DOMAIN data
  BY <1>2 DEF MInv, Created
<1>4. Started /\ PagesTooFar' = PagesTooFar /\ NumbersTooFar' = NumbersTooFar
  BY <1>2, SameLimits DEF Started
<1>5. Created'
  BY <1>2, <1>3, <1>4 DEF MInv, Created, NoTasks
<1>6. Memory'
  BY DEF Whole, Memory
<1> QED BY <1>1, <1>5, <1>6 DEF MInv

LEMMA TakePdMInv == IInv /\ MInv /\ TakePd => MInv'
<1> SUFFICES ASSUME IInv, MInv, TakePd PROVE MInv'
  OBVIOUS
<1> DEFINE p == get_available_page
<1>1. TakePage("pd") /\ pd_base' = p * 8 /\ step' = step
  BY DEF TakePd
<1>2. /\ pc = "pd" /\ page_limit' = page_limit /\ task_limit' = task_limit
      /\ task_num' = task_num /\ step \in 0 .. 8 /\ Whole /\ data' = data
  <2>1. pc = "pd"
    BY <1>1 DEF TakePage
  <2> QED BY <1>1, <2>1, WholeMemory DEF TakePage, MInv, Bits
<1>3. pc' \in {"code_pt", "fault"}
  BY StoreLeads DEF TakePd
<1>4. /\ Taken(p * 8, page_limit) /\ ~(pages' \subseteq Low)
      /\ pages' = pages \cup {p} /\ p \in Nat /\ p < page_limit
      /\ page_limit \in Nat /\ page_limit <= MAP_BITS
  BY <1>1, <1>2, <1>3, TakesPageBits
<1> HIDE DEF p
<1> DEFINE words == PTE_SET((p * 8 % MB4) \div 8, TEMP_PT_BASE, p * 8,
                            P_SYSTEM, P_READ_WRITE)
<1>5. Store(words, "code_pt")
  BY <1>1 DEF TakePd
<1>6. \A a \in DOMAIN words : Apart(a, words[a])
  <2>1. p \in pages' /\ p < MAP_BITS /\ Taken(p * 8, MAP_BITS)
    BY <1>4, MapBitsAre DEF Taken
  <2> QED BY <1>4, <2>1, TempEntryHarmless, Zenon
<1> HIDE DEF words
<1>7. Whole' /\ pc' = "code_pt"
  <2>1. pages \subseteq pages'
    BY <1>4
  <2> QED BY <1>2, <1>4, <1>5, <1>6, <2>1, HarmlessStore DEF Apart
<1>8. PagesTooFar' = PagesTooFar /\ NumbersTooFar' = NumbersTooFar
  BY <1>2, SameLimits
<1>9. Calls'
  BY <1>1, <1>2, <1>4, <1>7, <1>8 DEF MInv, Calls, HoldsNumber
<1>10. FirstPages'
  <2> SUFFICES ASSUME PagesTooFar PROVE pages' = Low \cup {page_limit - 1}
    BY <1>2, <1>7, <1>8 DEF FirstPages
  <2>1. pages = Low
    BY <1>2 DEF MInv, FirstPages, Started
  <2>2. page_limit - 1 <= p
    BY <1>2, FarFinds DEF p
  <2> QED BY <1>4, <2>1, <2>2
<1> QED BY <1>1, <1>2, <1>7, <1>9, <1>10, TakesPageMInv

LEMMA TakeCodePtMInv == IInv /\ MInv /\ TakeCodePt => MInv'
<1> SUFFICES ASSUME IInv, MInv, TakeCodePt PROVE MInv'
  OBVIOUS
<1> DEFINE p == get_available_page
<1>1. /\ TakePage("code_pt") /\ code_pt_base' = p * 8
      /\ step' = step /\ pd_base' = pd_base
  BY DEF TakeCodePt
<1>2. /\ pc = "code_pt" /\ page_limit' = page_limit
      /\ task_limit' = task_limit /\ task_num' = task_num /\ data' = data
      /\ step \in 0 .. 8 /\ Whole /\ Taken(pd_base, page_limit)
  <2>1. pc = "code_pt"
    BY <1>1 DEF TakePage
  <2> QED BY <1>1, <2>1, WholeMemory DEF TakePage, MInv, Bits, Calls
<1>3. pc' \in {"code", "fault"}
  BY StoreLeads DEF TakeCodePt
<1>4. /\ Taken(p * 8, page_limit) /\ ~(pages' \subseteq Low)
      /\ pages' = pages \cup {p} /\ p \in Nat /\ p < page_limit
      /\ page_limit \in Nat /\ page_limit <= MAP_BITS
  BY <1>1, <1>2, <1>3, TakesPageBits
<1> HIDE DEF p
<1> DEFINE e == Entry(pd_base, P_SYSTEM, P_READ_WRITE)
           words == (KERNEL_PT_PHY_ADDR + 4 * 0) :> e
<1>5. Store(words, "code")
  <2>1. ~(0 > 1023)
    OBVIOUS
  <2> QED BY <2>1, Zenon DEF TakeCodePt, PDE_SET
<1>6. Present(e) /\ e \in Word
  BY <1>2, <1>4, TakenEntry DEF P_SYSTEM, P_READ_WRITE
<1> HIDE DEF e
<1>7. \A a \in DOMAIN words : Harmless(a, words[a])
  BY <1>6 DEF Harmless, KERNEL_PT_PHY_ADDR, :>
<1> HIDE DEF words
<1>8. Whole' /\ pc' = "code"
  <2>1. pages \subseteq pages'
    BY <1>4
  <2> QED BY <1>2, <1>4, <1>5, <1>7, <2>1, HarmlessStore
<1>9. PagesTooFar' = PagesTooFar /\ NumbersTooFar' = NumbersTooFar
  BY <1>2, SameLimits
<1>10. Calls'
  <2>1. code_pt_base' \div 8 \in pages'
    BY <1>1, <1>4
  <2> QED BY <1>1, <1>2, <1>4, <1>8, <1>9, <2>1 DEF MInv, Calls, HoldsNumber
<1>11. FirstPages'
  <2> SUFFICES ASSUME PagesTooFar
               PROVE  /\ pages' = Low \cup {page_limit - 1, page_limit - 2}
                      /\ p = page_limit - 2
    BY <1>1, <1>2, <1>4, <1>8, <1>9 DEF FirstPages
  <2>1. pages = Low \cup {page_limit - 1}
    BY <1>2 DEF MInv, FirstPages, Started
  <2>2. page_limit - 2 <= p
    BY <1>2, FarFinds DEF p
  <2>3. p \notin pages
    <3>1. IsFiniteSet(pages) /\ p # NONE
      BY <1>1, <1>2 DEF IInv, Finite, Started, TakePage, p
    <3> QED BY <1>4, <3>1, LastFreeFacts DEF get_available_page, p
  <2> QED BY <1>4, <2>1, <2>2, <2>3
<1> QED BY <1>1, <1>2, <1>8, <1>10, <1>11, TakesPageMInv

LEMMA TakeCodeMInv == IInv /\ MInv /\ TakeCode => MInv'
<1> SUFFICES ASSUME IInv, MInv, TakeCode PROVE MInv'
  OBVIOUS
<1>1. /\ TakePage("code") /\ task_code_base' = get_available_page * 8
      /\ step' = 1 /\ pd_base' = pd_base /\ code_pt_base' = code_pt_base
      /\ mem' = mem /\ pc' = "store"
  BY DEF TakeCode
<1>2. /\ pc = "code" /\ page_limit' = page_limit /\ task_limit' = task_limit
      /\ task_num' = task_num /\ data' = data /\ Whole
      /\ Taken(pd_base, page_limit) /\ Taken(code_pt_base, page_limit)
      /\ code_pt_base \div 8 \in pages
  <2>1. pc = "code"
    BY <1>1 DEF TakePage
  <2> QED BY <1>1, <2>1, WholeMemory DEF TakePage, MInv, Calls
<1>3. /\ Taken(task_code_base', page_limit) /\ ~(pages' \subseteq Low)
      /\ pages \subseteq pages'
  BY <1>1, <1>2, TakesPageBits
<1>4. Whole'
  BY <1>1, <1>2, <1>3, SameMemory
<1>5. PagesTooFar' = PagesTooFar /\ NumbersTooFar' = NumbersTooFar
  BY <1>2, SameLimits
<1>6. Calls'
  BY <1>1, <1>2, <1>3, <1>5 DEF MInv, Calls, HoldsNumber
<1>7. FirstPages'
  BY <1>1, <1>2, <1>5 DEF MInv, FirstPages, Started
<1> QED BY <1>1, <1>2, <1>4, <1>6, <1>7, TakesPageMInv

(* The words of creat_task's stores, when it runs to their end.            *)
LEMMA LdtWords ==
  ASSUME NEW base \in Nat, base < 65536, task_code_base = base
  PROVE  /\ DOMAIN LDT_CODE_DATA = {86024, 86028, 86032, 86036}
         /\ \A a \in DOMAIN LDT_CODE_DATA : LDT_CODE_DATA[a] \in Word
         /\ LDT_CODE_DATA[86024] = <<base, 65535>>
         /\ LDT_CODE_DATA[86028] = <<\hCF, \hFA00>>
<1> DEFINE w1 == <<task_code_base % 65536, 65535>>
           w2 == <<(task_code_base \div \h1000000) * 256 + \hCF,
                   \hFA00 + ((task_code_base \div 65536) % 256)>>
           w3 == <<0, 65535>>
           w4 == <<\hCF, \hF200>>
<1>1. w1 = <<base, 65535>> /\ w2 = <<\hCF, \hFA00>>
  <2>1. /\ base % 65536 = base /\ base \div \h1000000 = 0
        /\ base \div 65536 = 0
    BY SMT
  <2> QED BY <2>1, SMT
<1>2. w1 \in Word /\ w2 \in Word /\ w3 \in Word /\ w4 \in Word
  BY <1>1, InWord, SMT
<1>3. LDT_CODE_DATA = (((86024 :> w1) @@ (86028 :> w2)) @@ (86032 :> w3))
                        @@ (86036 :> w4)
  BY SMT DEF LDT_CODE_DATA, TaskLDT, TASK_LDT_BASE
<1> HIDE DEF w1, w2, w3, w4
<1>4. /\ DOMAIN LDT_CODE_DATA = {86024, 86028, 86032, 86036}
      /\ \A a \in DOMAIN LDT_CODE_DATA : LDT_CODE_DATA[a] \in Word
      /\ LDT_CODE_DATA[86024] = w1 /\ LDT_CODE_DATA[86028] = w2
  BY <1>2, <1>3, SMT DEF :>, @@
<1> QED BY <1>1, <1>4, SMT

(* The descriptors a task gets disturb no table but, behind the end of     *)
(* theirs, the gates of the task's number.                                 *)
LEMMA SegmentHarmless ==
  ASSUME NEW num \in Nat, 4 <= num, num <= 1027,
         num >= 1024 => (num - 4) \div 2 \in DOMAIN data',
         NEW base \in Nat, base < \h1000000,
         NEW limit \in Nat, limit <= \hFFFFF, NEW G \in {0, 1},
         NEW S \in {0, 1}, NEW type \in Nat, type <= 15,
         NEW words, words = set_gd(num, base, limit, G, S, type, 0)
  PROVE  \A a \in DOMAIN words : Apart(a, words[a])
<1> DEFINE b == GDT_BASE + 8 * num
<1>1. /\ b \in Nat /\ 8192 + 32 <= b /\ b + 4 < 18432
      /\ b % 4 = 0 /\ (b + 4) % 4 = 0
      /\ (b - 8192) \div 8 = num /\ (b + 4 - 8192) \div 8 = num
      /\ b + 4 >= 16384 => num >= 1024 /\ b >= 16384
  BY SMT DEF GDT_BASE
<1>2. SystemDescriptor(words, b, base, limit, G, S, type)
  BY set_gdWrites, SMT
<1> HIDE DEF b
<1>3. DOMAIN words = {b, b + 4} /\ words[b] \in Word /\ words[b + 4] \in Word
  BY <1>2, SMT DEF SystemDescriptor
<1>4. ASSUME NEW a \in {b, b + 4}
      PROVE  /\ a \in Nat /\ a % 4 = 0 /\ 8192 + 32 <= a /\ a < 18432
             /\ a >= 16384 =>
                  ((a - GDT_BASE) \div 8 - 4) \div 2 \in DOMAIN data'
  BY <1>1 DEF GDT_BASE
<1>5. ASSUME NEW a \in {b, b + 4} PROVE Apart(a, words[a])
  <2>1. words[a] \in Word
    BY <1>3
  <2> QED BY <1>4, <2>1
          DEF Apart, Harmless, OverGates, KERNEL_PT_PHY_ADDR, GDT_BASE, IDT_BASE
<1> QED BY <1>3, <1>5

(* Each of the stores, when they get that far.                             *)
LEMMA StoreHarmless ==
  ASSUME IInv, MInv, pc = "store", ~PagesTooFar, ~Overruns,
         pages' = pages, data' = data
  PROVE  /\ \A a \in DOMAIN Stores[step] : Apart(a, Stores[step][a])
         /\ step = 7 =>
              /\ task_code_base \in Nat /\ task_code_base < 65536
              /\ Stores[step] = LDT_CODE_DATA
<1>1. step \in 1 .. 7 /\ page_limit \in Nat /\ page_limit < 2562 /\ Started
      /\ task_limit \in Nat
  BY TooFar DEF IInv, Control, Started
<1>2. /\ Taken(pd_base, page_limit) /\ Taken(code_pt_base, page_limit)
      /\ Taken(task_code_base, page_limit) /\ code_pt_base \div 8 \in pages
  BY DEF MInv, Calls
<1>3. /\ code_pt_base \in Nat /\ code_pt_base % 8 = 0
      /\ 8192 <= code_pt_base /\ code_pt_base < 20488
      /\ task_code_base \in Nat /\ task_code_base < 20488 /\ pd_base < 20488
  BY <1>1, <1>2, SMT DEF Taken
<1>4. CASE step = 1
  <2> DEFINE e == Entry(pd_base, P_USER, P_ONLY_READ)
  <2>1. Stores[1] = PDE_SET(task_code_base \div MB4, code_pt_base, pd_base,
                            P_USER, P_ONLY_READ)
    BY DEF Stores
  <2>2. /\ task_code_base \div MB4 = 0 /\ ~(0 > 1023)
        /\ code_pt_base + 4 * 0 = code_pt_base
    BY <1>3, SMT DEF MB4
  <2>3. Stores[1] = code_pt_base :> e
    BY <2>1, <2>2, SMT DEF PDE_SET
  <2>4. e \in Word /\ e[1] = 0
    <3>1. P_USER \in {0, 1} /\ P_ONLY_READ \in {0, 1}
      BY DEF P_USER, P_ONLY_READ
    <3>2. page_limit <= MAP_BITS /\ pd_base < 65536
      BY <1>1, <1>2, <1>3, MapBitsAre, SMT DEF Taken
    <3> QED BY <1>1, <1>2, <3>1, <3>2, TakenEntry, SMT
  <2> HIDE DEF e
  <2>5. DOMAIN Stores[1] = {code_pt_base} /\ Stores[1][code_pt_base] = e
    BY <2>3 DEF :>
  <2>6. code_pt_base < TASK_DATA_BASE
    <3>1. Tables
      BY <1>1, WholeMemory DEF Whole, Started
    <3>2. Mapped(code_pt_base)
      BY <1>3, <3>1, LowMapped DEF MB4
    <3> QED BY <1>3, <1>4, <2>5, <3>2 DEF Overruns, TASK_DATA_BASE
  <2>7. code_pt_base % 4 = 0 /\ code_pt_base # GDT_BASE + 12
        /\ code_pt_base # KERNEL_PT_PHY_ADDR
    BY <1>3, SMT DEF GDT_BASE, KERNEL_PT_PHY_ADDR
  <2>8. \/ GDT_BASE <= code_pt_base /\ code_pt_base < IDT_BASE
        \/ OverGates(code_pt_base)
    BY <1>2, <1>3, <2>6 DEF GDT_BASE, IDT_BASE, OverGates
  <2>9. Apart(code_pt_base, e)
    BY <1>3, <2>4, <2>7, <2>8 DEF Apart, Harmless
  <2> QED BY <1>4, <2>5, <2>9
<1>5. CASE step \in {2, 3, 4}
  <2>1. /\ Stores[2] = PTE_SET((code_pt_base % MB4) \div 8, TEMP_PT_BASE,
                               code_pt_base, P_SYSTEM, P_READ_WRITE)
        /\ Stores[3] = PTE_SET((task_code_base % MB4) \div 8, code_pt_base,
                               task_code_base, P_USER, P_ONLY_READ)
        /\ Stores[4] = PTE_SET((task_code_base % MB4) \div 8, TEMP_PT_BASE,
                               task_code_base, P_SYSTEM, P_READ_WRITE)
    BY DEF Stores
  <2>2. code_pt_base < MB4 /\ task_code_base < MB4
    BY <1>3 DEF MB4
  <2>3. Stores[2] = Nothing /\ Stores[3] = Nothing /\ Stores[4] = Nothing
    BY <1>1, <1>2, <2>1, <2>2, NoEntry
  <2>4. Stores[step] = Nothing
    BY <1>5, <2>3
  <2>5. step # 7
    BY <1>5
  <2> QED BY <2>4, <2>5, NothingStored
<1>6. ASSUME step > 4
      PROVE  task_num \in Nat /\ task_num <= 511 /\ task_num \in DOMAIN data'
  <2>1. task_num \in DOMAIN data
    BY <1>6 DEF MInv, Calls
  <2>2. task_limit < 513
    BY <1>1, <2>1, TooFar DEF MInv, Created, NoTasks
  <2>3. task_num \in Nat /\ task_num < task_limit
    BY <1>1, <2>1 DEF MInv, Bits
  <2> QED BY <1>1, <2>1, <2>2, <2>3
<1>7. CASE step = 5
  <2> DEFINE num == 4 + task_num * 2
             base == TASK_LDT_BASE + 32 * task_num
  <2>1. Stores[5] = set_gd(num, base, 31, 0, 0, GD_LDT, 0)
    BY DEF Stores
  <2>2. /\ num \in Nat /\ 4 <= num /\ num <= 1027
        /\ base \in Nat /\ base < \h1000000
        /\ GD_LDT \in Nat /\ GD_LDT <= 15
        /\ (num - 4) \div 2 = task_num
    BY <1>6, <1>7, SMT DEF TASK_LDT_BASE, GD_LDT
  <2>3. (num - 4) \div 2 \in DOMAIN data'
    BY <1>6, <1>7, <2>2
  <2> HIDE DEF num, base
  <2>4. \A a \in DOMAIN Stores[5] : Apart(a, Stores[5][a])
    BY <2>1, <2>2, <2>3, SegmentHarmless, SMT
  <2> QED BY <1>7, <2>4
<1>8. CASE step = 6
  <2> DEFINE num == 5 + task_num * 2
             base == TaskData(task_num) + 7
  <2>1. Stores[6] = set_gd(num, base, \h67, 0, 0, GD_ATSS, 0)
    BY DEF Stores
  <2>2. /\ num \in Nat /\ 4 <= num /\ num <= 1027
        /\ base \in Nat /\ base < \h1000000
        /\ GD_ATSS \in Nat /\ GD_ATSS <= 15
        /\ (num - 4) \div 2 = task_num
    BY <1>6, <1>8, SMT DEF TaskData, TASK_DATA_BASE, GD_ATSS
  <2>3. (num - 4) \div 2 \in DOMAIN data'
    BY <1>6, <1>8, <2>2
  <2> HIDE DEF num, base
  <2>4. \A a \in DOMAIN Stores[6] : Apart(a, Stores[6][a])
    BY <2>1, <2>2, <2>3, SegmentHarmless, SMT
  <2> QED BY <1>8, <2>4
<1>9. CASE step = 7
  <2>1. Stores[7] = LDT_CODE_DATA
    BY DEF Stores
  <2>2. /\ DOMAIN LDT_CODE_DATA = {86024, 86028, 86032, 86036}
        /\ \A a \in DOMAIN LDT_CODE_DATA : LDT_CODE_DATA[a] \in Word
    BY <1>3, LdtWords
  <2>3. \A a \in DOMAIN LDT_CODE_DATA : Apart(a, LDT_CODE_DATA[a])
    BY <2>2, SMT DEF Apart, Harmless, KERNEL_PT_PHY_ADDR, TASK_LDT_BASE
  <2> QED BY <1>3, <1>9, <2>1, <2>3
<1>10. step \in {1, 2, 3, 4, 5, 6, 7}
  BY <1>1
<1> QED BY <1>4, <1>5, <1>7, <1>8, <1>9, <1>10

(* With many pages the first store is above the tables, and leads nowhere  *)
(* where it does not run over what lies there.                             *)
LEMMA FarPagesFault ==
  ASSUME IInv, MInv, StoreNext, PagesTooFar
  PROVE  mem' = mem /\ pc' = "fault" /\ step' \in 0 .. 8
<1>1. pc = "store" /\ step = 1 /\ code_pt_base = 8 * (page_limit - 2)
      /\ page_limit \in Nat /\ page_limit <= MAP_BITS
  BY DEF StoreNext, MInv, FirstPages, Started, IInv, Control, Bits
<1>2. Taken(task_code_base, page_limit)
  BY <1>1 DEF MInv, Calls
<1> DEFINE k == task_code_base \div MB4
           a == code_pt_base + 4 * k
<1>3. k \in Nat /\ ~(k > 1023) /\ a >= TASK_DATA_BASE
  <2>1. k \in {0, 1}
    BY <1>1, <1>2, MapBitsAre, SMT DEF Taken, MB4
  <2>2. code_pt_base \in Int /\ code_pt_base >= TASK_DATA_BASE
    BY <1>1 DEF PagesTooFar, TASK_DATA_BASE
  <2> QED BY <2>1, <2>2 DEF TASK_DATA_BASE
<1>4. Stores[1] = PDE_SET(k, code_pt_base, pd_base, P_USER, P_ONLY_READ)
  BY DEF Stores
<1> HIDE DEF k
<1>5. Stores[1] = a :> Entry(pd_base, P_USER, P_ONLY_READ)
  BY <1>3, <1>4, SMT DEF PDE_SET
<1>6. a \in DOMAIN Stores[step]
  BY <1>1, <1>5, SMT DEF :>
<1> HIDE DEF a
<1>7. ~Mapped(a)
  BY <1>1, <1>3, <1>6, SMT DEF StoreNext, Overruns
<1>8. step' = 2
  BY <1>1, SMT DEF StoreNext
<1> QED BY <1>6, <1>7, <1>8 DEF StoreNext, Store

(* Nothing changes but that the kernel ends.                               *)
LEMMA EndMInv ==
  ASSUME MInv, pc \in {"store", "data"}, pc' \in {"fault", "astray"},
         step' \in 0 .. 8, mem' = mem, UNCHANGED <<maps, locals, data>>
  PROVE  MInv'
<1>1. /\ pages' = pages /\ numbers' = numbers /\ data' = data
      /\ page_limit' = page_limit /\ task_limit' = task_limit
  BY DEF maps
<1>2. Memory'
  <2>1. Whole
    BY WholeMemory
  <2>2. Whole'
    BY <1>1, <2>1, SameMemory
  <2> QED BY <2>2 DEF Whole, Memory
<1>3. Started /\ Started'
  BY DEF Started
<1>4. Bits'
  BY <1>1, <1>3 DEF MInv, Bits, Filled
<1>5. Calls' /\ FirstPages'
  BY DEF Calls, FirstPages, HoldsNumber
<1>6. PagesTooFar' = PagesTooFar /\ NumbersTooFar' = NumbersTooFar
  BY <1>1, SameLimits
<1>7. Created'
  BY <1>1, <1>3, <1>6 DEF MInv, Created, NoTasks
<1> QED BY <1>2, <1>4, <1>5, <1>7 DEF MInv

LEMMA StoreNextMInv == IInv /\ MInv /\ StoreNext => MInv'
<1> SUFFICES ASSUME IInv, MInv, StoreNext PROVE MInv'
  OBVIOUS
<1>1. pc = "store" /\ step \in 1 .. 7 /\ step' = (step + 1) % 8
  BY DEF StoreNext, IInv, Control
<1>2. UNCHANGED <<maps, locals, data>>
  BY DEF StoreNext
<1>3. CASE PagesTooFar
  BY <1>1, <1>2, <1>3, FarPagesFault, EndMInv
<1>4. CASE ~PagesTooFar
  <2> DEFINE there == CASE step = 4 -> "data" [] step = 7 -> "idle"
                        [] OTHER -> "store"
  <2>1. Store(Stores[step], there) /\ ~Overruns
    BY DEF StoreNext
  <2>2. /\ pages' = pages /\ numbers' = numbers /\ data' = data
        /\ page_limit' = page_limit /\ task_limit' = task_limit
        /\ task_num' = task_num /\ pd_base' = pd_base
        /\ code_pt_base' = code_pt_base /\ task_code_base' = task_code_base
    BY <1>2 DEF maps, locals
  <2>3. there \in {"data", "idle", "store"} /\ (step = 7 => there = "idle")
        /\ (there = "idle" => step = 7) /\ (there = "data" => step = 4)
        /\ (step = 4 => there = "data")
    BY <1>1
  <2> HIDE DEF there
  <2>4. Whole
    BY <1>1, WholeMemory
  <2>5. \A a \in DOMAIN Stores[step] :
          Harmless(a, Stores[step][a]) /\ a # KERNEL_PT_PHY_ADDR
    BY <1>1, <1>4, <2>1, <2>2, StoreHarmless DEF Apart
  <2>6. /\ Whole' /\ pc' = there
        /\ \A a \in DOMAIN Stores[step] : Read(a)' = Stores[step][a]
    BY <2>1, <2>2, <2>4, <2>5, HarmlessStore
  <2>7. Memory'
    BY <2>6 DEF Whole, Memory
  <2>8. step' \in 0 .. 8 /\ (step # 7 => step' = step + 1)
    BY <1>1
  <2>9. /\ Started /\ Started'
        /\ PagesTooFar' = PagesTooFar /\ NumbersTooFar' = NumbersTooFar
    BY <1>1, <2>2, <2>3, <2>6, SameLimits DEF Started
  <2>10. Bits'
    BY <2>2, <2>8, <2>9 DEF MInv, Bits, Filled
  <2>11. Calls'
    BY <1>1, <2>2, <2>3, <2>6, <2>8, <2>9 DEF MInv, Calls, HoldsNumber
  <2>12. FirstPages'
    BY <1>4, <2>9 DEF FirstPages
  <2>13. Created'
    <3>1. NoTasks'
      BY <2>2, <2>9 DEF MInv, Created, NoTasks
    <3>2. 0 \in DOMAIN data => step > 4 /\ task_num = 0
      BY <1>1 DEF MInv, Created
    <3>3. 0 \in DOMAIN data =>
            \/ pc' = "idle"
            \/ pc' = "store" /\ step' > 4 /\ task_num' = 0
      BY <1>1, <2>2, <2>3, <2>6, <2>8, <3>2
    <3>4. 0 \in DOMAIN data /\ pc' = "idle" => LdtOfTask0'
      <4> SUFFICES ASSUME 0 \in DOMAIN data, pc' = "idle" PROVE LdtOfTask0'
        OBVIOUS
      <4>1. step = 7
        BY <2>3, <2>6
      <4>2. /\ task_code_base \in Nat /\ task_code_base < 65536
            /\ Stores[step] = LDT_CODE_DATA
        BY <1>1, <1>4, <2>1, <2>2, <4>1, StoreHarmless
      <4>3. data[0].TaskBaseAddr = task_code_base
        BY <1>1, <3>2 DEF MInv, Calls
      <4>4. /\ DOMAIN LDT_CODE_DATA = {86024, 86028, 86032, 86036}
            /\ LDT_CODE_DATA[86024] = <<task_code_base, 65535>>
            /\ LDT_CODE_DATA[86028] = <<\hCF, \hFA00>>
        BY <4>2, LdtWords, SMT
      <4>5. TASK_LDT_BASE + 8 = 86024 /\ TASK_LDT_BASE + 12 = 86028
        BY SMT DEF TASK_LDT_BASE
      <4>6. /\ Read(86024)' = <<task_code_base, 65535>>
            /\ Read(86028)' = <<\hCF, \hFA00>>
        BY <2>6, <4>2, <4>4, SMT
      <4> QED BY <2>2, <4>2, <4>3, <4>5, <4>6, SMT DEF LdtOfTask0
    <3> QED BY <2>2, <3>1, <3>3, <3>4 DEF Created
  <2> QED BY <2>7, <2>10, <2>11, <2>12, <2>13 DEF MInv
<1> QED BY <1>3, <1>4

LEMMA StoreAstrayMInv == IInv /\ MInv /\ StoreAstray => MInv'
<1> SUFFICES ASSUME IInv, MInv, StoreAstray PROVE MInv'
  OBVIOUS
<1>1. pc = "store" /\ pc' = "astray" /\ step' \in 0 .. 8 /\ mem' = mem
  BY DEF StoreAstray, MInv, Bits
<1>2. UNCHANGED <<maps, locals, data>>
  BY DEF StoreAstray
<1> QED BY <1>1, <1>2, EndMInv

LEMMA WriteDataMInv == IInv /\ MInv /\ WriteData => MInv'
<1> SUFFICES ASSUME IInv, MInv, WriteData PROVE MInv'
  OBVIOUS
<1>1. pc = "data" /\ step = 5 /\ step' = step
  BY DEF WriteData, IInv, Control
<1>2. UNCHANGED <<mem, maps, locals>>
  BY DEF WriteData
<1>3. /\ mem' = mem /\ pages' = pages /\ numbers' = numbers
      /\ page_limit' = page_limit /\ task_limit' = task_limit
      /\ task_num' = task_num /\ pd_base' = pd_base
      /\ code_pt_base' = code_pt_base /\ task_code_base' = task_code_base
  BY <1>2 DEF maps, locals
<1>4. HoldsNumber
  BY <1>1 DEF HoldsNumber
<1>5. task_num \notin DOMAIN data /\ numbers = DOMAIN data \cup {task_num}
  BY <1>4 DEF IInv, NumbersInUse
<1>6. Whole /\ Bits /\ Started
  BY <1>1, WholeMemory DEF MInv, Started
<1> DEFINE entered ==
      Mapped(TaskData(task_num)) /\ TaskData(task_num) < TASK_LDT_BASE
<1>7. CASE ~entered
  <2>1. data' = data /\ pc' \in {"fault", "astray"}
    BY <1>7 DEF WriteData
  <2>2. UNCHANGED <<maps, locals, data>> /\ step' \in 0 .. 8
    BY <1>1, <1>2, <2>1
  <2> QED BY <1>1, <1>3, <2>1, <2>2, EndMInv
<1>8. CASE entered
  <2>1. /\ DOMAIN data' = DOMAIN data \cup {task_num}
        /\ data'[task_num].TaskBaseAddr = task_code_base
        /\ pc' = "store"
    BY <1>8 DEF WriteData
  <2>2. ~PagesTooFar
    BY <1>1, <1>6 DEF MInv, FirstPages
  <2>3. ~NumbersTooFar
    <3> SUFFICES ASSUME NumbersTooFar PROVE FALSE
      OBVIOUS
    <3>1. task_num = task_limit - 1 /\ task_limit \in Nat
      BY <1>4 DEF MInv, Calls, IInv, Control
    <3> QED BY <1>8, <3>1
            DEF NumbersTooFar, TaskData, TASK_DATA_BASE, TASK_LDT_BASE
  <2>4. Memory'
    <3>1. Whole'
      BY <1>3, <1>6, <2>1, SameMemory
    <3> QED BY <3>1 DEF Whole, Memory
  <2>5. /\ Started'
        /\ PagesTooFar' = PagesTooFar /\ NumbersTooFar' = NumbersTooFar
    BY <1>3, <2>1, SameLimits DEF Started
  <2>6. Bits'
    BY <1>1, <1>3, <1>5, <1>6, <2>1, <2>5 DEF Bits, Filled
  <2>7. Calls'
    BY <1>1, <1>3, <2>1, <2>3, <2>5 DEF MInv, Calls, HoldsNumber
  <2>8. FirstPages'
    BY <2>2, <2>5 DEF FirstPages
  <2>9. Created'
    <3>1. NoTasks'
      BY <2>2, <2>3, <2>5 DEF NoTasks
    <3>2. 0 \notin DOMAIN data
      BY <1>1 DEF MInv, Created
    <3> QED BY <1>1, <1>3, <2>1, <3>1, <3>2 DEF Created
  <2> QED BY <2>4, <2>6, <2>7, <2>8, <2>9 DEF MInv
<1> QED BY <1>7, <1>8

LEMMA NextMInv == IInv /\ MInv /\ [Next]_vars => MInv'
BY ClearSectionMInv, DescriptorInitMInv, PagingInitMInv, MemMapInitMInv,
   ReserveMInv, StutterMInv, TakeNumberMInv, NoPageMInv, TakePdMInv,
   TakeCodePtMInv, TakeCodeMInv, StoreNextMInv, StoreAstrayMInv, WriteDataMInv
   DEF Next, NoNumber

(* What the tables hold is inductive, given what the calls hold.           *)
THEOREM TablesInvariant == Spec => [](IInv /\ MInv)
<1>1. Init => IInv /\ MInv
  BY InitIInv, InitMInv
<1>2. IInv /\ MInv /\ [Next]_vars => (IInv /\ MInv)'
  BY NextIInv, NextMInv
<1> QED BY <1>1, <1>2, PTL DEF Spec

-----------------------------------------------------------------------------
(* Words have 32 bits, and no bit is set beyond what other code has left.  *)
THEOREM TypeCorrect == Spec => []TypeOK
<1>1. IInv /\ MInv => TypeOK
  <2> SUFFICES ASSUME IInv, MInv PROVE TypeOK
    OBVIOUS
  <2>1. Typed /\ Bits /\ Control
    BY DEF IInv, MInv, Memory
  <2> QED BY <2>1 DEF TypeOK, Typed, Bits, Control
<1> QED BY <1>1, TablesInvariant, PTL

(* paging_init and creat_task: the kernel stays mapped where it is, and    *)
(* nothing at 4MB or a multiple before the page there has been taken.      *)
THEOREM KernelStaysMapped == Spec => []KernelMapped
<1>1. IInv /\ MInv => KernelMapped
  <2> SUFFICES ASSUME MInv, Started PROVE KernelMapped
    BY DEF KernelMapped
  <2>1. Tables /\ TempHigh
    BY WholeMemory DEF Whole, Started
  <2>2. ASSUME NEW p \in 1 .. LOW_PAGES - 1
        PROVE  /\ Mapped(p * PAGE_SIZE)
               /\ Physical(p * PAGE_SIZE) = p * PAGE_SIZE
    <3>1. /\ p * PAGE_SIZE \in Nat /\ 4096 <= p * PAGE_SIZE
          /\ p * PAGE_SIZE < MB4
      BY SMT DEF LOW_PAGES, PAGE_SIZE, MB4
    <3> QED BY <2>1, <3>1, LowMapped
  <2>3. Mapped(0) /\ (pages = Low => Physical(0) = 0)
    BY <2>1, PageZeroMapped
  <2>4. ASSUME NEW i \in 1 .. MB4_MAX
        PROVE  Mapped(i * MB4) => MB4 \div 8 \in pages
    <3>1. /\ i * MB4 \in Nat /\ MB4 <= i * MB4 /\ i * MB4 < MB4 * 1023
          /\ ((i * MB4) \div PAGE_SIZE) % 1024 = 0 /\ MB4 \div 8 = 8 * 65536
      BY SMT DEF MB4, MB4_MAX, PAGE_SIZE
    <3> QED BY <2>1, <3>1, HighMapped
  <2> QED BY <2>2, <2>3, <2>4 DEF KernelMapped
<1> QED BY <1>1, TablesInvariant, PTL

(* idt_init and creat_task: every vector leads to its handler, in a code   *)
(* segment of ring 0 that begins at 0, but for the gates that creat_task   *)
(* has stored over.                                                        *)
THEOREM GatesStay == Spec => []GatesLead
<1>1. IInv /\ MInv => GatesLead
  <2> SUFFICES ASSUME MInv, Started PROVE GatesLead
    BY DEF GatesLead
  <2>1. GatesSet /\ KernelCode
    BY WholeMemory DEF Whole, Started
  <2>2. ASSUME NEW v \in 0 .. VECTORS - 1, ~WrittenOver(v)
        PROVE  LET low == Read(IDT_BASE + 8 * v)
                   high == Read(IDT_BASE + 8 * v + 4)
               IN  /\ high[1] * 65536 + low[2] = Offset[HandlerOf(v)]
                   /\ low[1] = 8
                   /\ high[2] \div 32768 = 1
                   /\ (high[2] \div 8192) % 4 =
                        IF v \in DOMAIN UserGates THEN 3 ELSE 0
    <3> DEFINE offset == Offset[HandlerOf(v)]
               ring == Ring(v)
               low == Read(IDT_BASE + 8 * v)
               high == Read(IDT_BASE + 8 * v + 4)
    <3>1. v \in Nat /\ v < 256
      BY DEF VECTORS
    <3>2. /\ offset \in Nat
          /\ low = GateLow(offset) /\ high = GateHigh(offset, ring)
      BY <2>1, <2>2, <3>1, GateWords DEF GatesSet
    <3>3. ring = IF v \in DOMAIN UserGates THEN 3 ELSE 0
      BY DEF Ring
    <3>4. ring \in {0, 3}
      BY DEF Ring
    <3> HIDE DEF offset, ring, low, high
    <3>5. low = <<8, offset % 65536>>
      BY <3>2 DEF GateLow
    <3>6. high = <<offset \div 65536, 32768 + 8192 * ring + 3584>>
      BY <3>2, <3>4, SMT DEF GateHigh
    <3>7. high[1] * 65536 + low[2] = offset
      BY <3>2, <3>5, <3>6, SMT
    <3>8. high[2] \div 32768 = 1 /\ (high[2] \div 8192) % 4 = ring
      BY <3>4, <3>6, SMT
    <3>9. low[1] = 8
      BY <3>5
    <3> QED BY <3>3, <3>7, <3>8, <3>9, SMT DEF offset, low, high
  <2>3. LET low == Read(GDT_BASE + 8)
            high == Read(GDT_BASE + 12)
        IN  /\ low[1] = 0 /\ high[2] % 256 = 0 /\ high[1] \div 256 = 0
            /\ high[2] \div 256 = 128 + 16 + GD_CODE
    BY <2>1, SMT DEF KernelCode, GD_CODE
  <2> QED BY <2>2, <2>3 DEF GatesLead
<1> QED BY <1>1, TablesInvariant, PTL

(* creat_task: only the table of task 0 has a code segment.                *)
THEOREM OneTableWithCode == Spec => []OnlyTask0HasCode
<1>1. IInv /\ MInv => OnlyTask0HasCode
  <2> SUFFICES ASSUME IInv, MInv, pc = "idle", NEW n \in DOMAIN data
               PROVE  LET low == Read(TASK_LDT_BASE + 32 * n + 8)
                          high == Read(TASK_LDT_BASE + 32 * n + 12)
                      IN  /\ n = 0 => /\ high[2] \div 32768 = 1
                                      /\ (high[2] % 256) * 65536 + low[1]
                                           = data[n].TaskBaseAddr
                          /\ n # 0 => low = ZERO /\ high = ZERO
    BY DEF OnlyTask0HasCode
  <2>1. Bits /\ Started /\ LdtsEmpty
    BY WholeMemory DEF MInv, Whole, Started
  <2>2. task_limit \in Nat /\ task_limit < 513
    BY <2>1, TooFar DEF IInv, Control, MInv, Created, NoTasks
  <2>3. n \in Nat /\ n <= 511
    BY <2>1, <2>2 DEF Bits
  <2>4. CASE n = 0
    <3>1. LdtOfTask0
      BY <2>4 DEF MInv, Created
    <3>2. /\ TASK_LDT_BASE + 32 * n + 8 = TASK_LDT_BASE + 8
          /\ TASK_LDT_BASE + 32 * n + 12 = TASK_LDT_BASE + 12
      BY <2>4, SMT DEF TASK_LDT_BASE
    <3> QED BY <2>4, <3>1, <3>2, SMT DEF LdtOfTask0
  <2>5. CASE n # 0
    <3>1. n \in 1 .. LDT_TOP
      BY <2>3, <2>5, SMT DEF LDT_TOP
    <3> QED BY <2>1, <2>5, <3>1 DEF LdtsEmpty
  <2> QED BY <2>4, <2>5
<1> QED BY <1>1, TablesInvariant, PTL

(* get_available_page and get_available_task_num: with maps that large,    *)
(* those of the code among them, no task is ever created.                  *)
THEOREM LargeMapsCreateNone == Spec => []FirstCallFails
<1>1. IInv /\ MInv => FirstCallFails
  <2> SUFFICES ASSUME IInv, MInv PROVE FirstCallFails
    OBVIOUS
  <2>1. pc = "idle" => numbers = DOMAIN data
    BY DEF IInv, NumbersInUse
  <2> QED BY <2>1 DEF FirstCallFails, MInv, Created, NoTasks
<1> QED BY <1>1, TablesInvariant, PTL
=============================================================================
