---------------------------- MODULE ConsoleProofs ----------------------------
(***************************************************************************)
(* Proofs about the console, for every page geometry and every set of      *)
(* strings short enough for the page.                                      *)
(***************************************************************************)
EXTENDS ConsoleImpl, WellFoundedInduction, TLAPS

(* The invariant of test_scolling's second loop: the rows still to come    *)
(* (final_vmx, test_vmy) and the start of the text (vmx, vmy) stay Len(str)*)
(* cells apart, however often the page scrolls under both.                 *)
WrapInv ==
  pc = "wrap" =>
    /\ vmy <= test_vmy
    /\ Offset(final_vmx, test_vmy) = Offset(vmx, vmy) + Len(str)

(* A println that is about to move to the next row stands on a text row.   *)
NewlineInv == pc \in {"write", "newline"} => vmy < ROWS

IInv == TypeOK /\ WrapInv /\ TextFits /\ NewlineInv

-----------------------------------------------------------------------------
LEMMA GeometryType == COLS \in Nat /\ COLS > 0 /\ COLS < 256
                      /\ ROWS \in Nat /\ ROWS > 0 /\ ROWS < 256
BY GeometryAssumption DEF UINT8

(* One row more is COLS cells more.                                        *)
LEMMA NextRow ==
  ASSUME NEW x \in Int, NEW y \in Int
  PROVE  Offset(x, y + 1) = Offset(x, y) + COLS
BY GeometryType DEF Offset

LEMMA PrevRow ==
  ASSUME NEW x \in Int, NEW y \in Int
  PROVE  Offset(x, y - 1) = Offset(x, y) - COLS
BY GeometryType DEF Offset

LEMMA OffsetType ==
  ASSUME NEW x \in Int, NEW y \in Int
  PROVE  Offset(x, y) \in Int
BY GeometryType DEF Offset

(* The rows lie one below the other.                                       *)
LEMMA RowOrder ==
  ASSUME NEW y \in Nat, NEW z \in Nat, y <= z
  PROVE  /\ y * COLS \in Nat
         /\ y * COLS <= z * COLS
<1>1. y * COLS \in Nat /\ (z - y) * COLS \in Nat
  BY GeometryType
<1>2. z * COLS = y * COLS + (z - y) * COLS
  BY GeometryType
<1> QED BY <1>1, <1>2, GeometryType

(* A cell named by a column and a row above limit lies before limit's row. *)
LEMMA OffsetBound ==
  ASSUME NEW x \in 0 .. COLS - 1, NEW y \in Nat, NEW limit \in Nat, y < limit
  PROVE  Offset(x, y) \in 0 .. limit * COLS - 1
<1>1. (y + 1) * COLS <= limit * COLS /\ y * COLS \in Nat /\ limit * COLS \in Nat
  BY RowOrder
<1>2. (y + 1) * COLS = y * COLS + COLS
  BY GeometryType
<1> QED BY <1>1, <1>2, GeometryType DEF Offset

LEMMA StrType ==
  ASSUME NEW s \in Strings \cup {<< >>}
  PROVE  Len(s) \in Nat /\ Len(s) <= MaxLen /\ s \in Seq(Chars)
<1>1. 0 <= MaxLen
  <2>1. 0 * COLS <= (ROWS - 1) * COLS
    BY RowOrder, GeometryType
  <2> QED BY <2>1, GeometryType DEF MaxLen
<1>2. CASE s \in Strings
  BY <1>2, TextAssumption
<1>3. CASE s = << >>
  BY <1>1, <1>3
<1> QED BY <1>2, <1>3

LEMMA Byte ==
  ASSUME NEW n \in 0 .. 255
  PROVE  n % UINT8 = n
BY DEF UINT8

(* The page stays a page of cells.                                         *)
LEMMA CellsOrder ==
  /\ (ROWS - 1) * COLS \in Nat /\ ROWS * COLS = (ROWS - 1) * COLS + COLS
  /\ (ROWS + 1) * COLS = ROWS * COLS + COLS
  /\ (ROWS + 2) * COLS = ROWS * COLS + COLS + COLS
<1>1. (ROWS - 1) * COLS \in Nat
  BY RowOrder, GeometryType
<1> QED BY <1>1, GeometryType

LEMMA ScrollType ==
  ASSUME NEW v \in [Cells -> Cell]
  PROVE  vm_scolling(v) \in [Cells -> Cell]
<1>1. ASSUME NEW k \in Cell, NEW c \in Chars
      PROVE  [k EXCEPT !.ch = c] \in Cell
  BY <1>1 DEF Cell
<1>2. ASSUME NEW p \in Cells
      PROVE  vm_scolling(v)[p] \in Cell
  <2>1. p \in Int /\ (p < (ROWS - 1) * COLS => p + COLS \in Cells)
    BY CellsOrder, GeometryType DEF Cells
  <2> QED BY <1>1, <2>1, TextAssumption DEF vm_scolling
<1> QED BY <1>2 DEF vm_scolling

LEMMA WriteType ==
  ASSUME NEW v \in [Cells -> Cell], NEW s \in Seq(Chars), NEW x \in Int,
         NEW y \in Int, NEW c \in Colors
  PROVE  video_isr_print_string(v, s, x, y, c) \in [Cells -> Cell]
<1>1. Offset(x, y) \in Int
  BY OffsetType
<1> DEFINE base == Offset(x, y)
<1>2. ASSUME NEW p \in Cells, p >= base /\ p < base + Len(s)
      PROVE  s[p - base + 1] \in Chars
  <2>1. p - base + 1 \in 1 .. Len(s)
    BY <1>1, <1>2, CellsOrder, GeometryType DEF Cells
  <2> QED BY <2>1
<1> QED BY <1>1, <1>2 DEF video_isr_print_string, Cell

LEMMA RowsInPage ==
  ASSUME NEW p \in Cells
  PROVE  p \in Int /\ p >= 0
BY CellsOrder, GeometryType DEF Cells

-----------------------------------------------------------------------------
(* The inductive step, action by action.                                   *)
LEMMA NoCallType ==
  /\ EmptyPage \in [Cells -> Cell]
  /\ Origin \in [x : 0 .. COLS - 1, y : 0 .. ROWS - 1]
  /\ NoCall \in [vram : [Cells -> Cell], x : 0 .. COLS - 1, y : 0 .. ROWS]
<1>1. EmptyPage \in [Cells -> Cell]
  BY TextAssumption DEF EmptyPage, Cell
<1>2. 0 \in 0 .. COLS - 1 /\ 0 \in 0 .. ROWS - 1 /\ 0 \in 0 .. ROWS
  BY GeometryType
<1>3. Origin \in [x : 0 .. COLS - 1, y : 0 .. ROWS - 1]
  BY <1>2 DEF Origin
<1>4. NoCall \in [vram : [Cells -> Cell], x : 0 .. COLS - 1, y : 0 .. ROWS]
  BY <1>1, <1>2 DEF NoCall
<1> QED BY <1>1, <1>3, <1>4

LEMMA InitIInv == Init => IInv
<1> SUFFICES ASSUME Init PROVE IInv
  OBVIOUS
<1>1. 0 \in 0 .. (ROWS + 1) * COLS - 1
  BY CellsOrder, GeometryType
<1>2. 0 \in 0 .. COLS - 1 /\ 0 \in 0 .. ROWS - 1 /\ 0 \in 0 .. ROWS
  BY GeometryType
<1>3. TypeOK
  BY <1>1, <1>2, NoCallType, TextAssumption DEF Init, TypeOK
<1> QED BY <1>3 DEF Init, IInv, WrapInv, TextFits, NewlineInv

LEMMA CallIInv ==
  ASSUME IInv, NEW s \in Strings, NEW nl \in BOOLEAN, Call(s, nl)
  PROVE  IInv'
BY DEF IInv, TypeOK, WrapInv, TextFits, NewlineInv, Call, screen, position,
       locals

LEMMA TopScrollIInv ==
  ASSUME IInv, TopScroll
  PROVE  IInv'
<1>1. vmy - 1 \in 0 .. 255 /\ vmy - 1 \in 0 .. ROWS
  BY GeometryType DEF TopScroll, IInv, TypeOK
<1>3. vmy' \in 0 .. ROWS
  BY <1>1, Byte DEF TopScroll
<1>2. vram' \in [Cells -> Cell]
  BY ScrollType DEF TopScroll, IInv, TypeOK
<1> QED BY <1>2, <1>3 DEF IInv, TypeOK, WrapInv, TextFits, NewlineInv,
              TopScroll, locals

LEMMA TopDoneIInv ==
  ASSUME IInv, TopDone
  PROVE  IInv'
<1>1. final_vmx' \in Nat /\ test_vmy' \in 0 .. ROWS - 1
  BY StrType, GeometryType DEF TopDone, IInv, TypeOK
<1>2. Offset(final_vmx', test_vmy') = Offset(vmx, vmy) + Len(str)
  BY StrType, GeometryType DEF TopDone, IInv, TypeOK, Offset
<1> QED BY <1>1, <1>2, GeometryType DEF IInv, TypeOK, WrapInv, TextFits,
              NewlineInv, TopDone, screen, position

(* A scroll inside the loop finds the start of the text below the top row: *)
(* otherwise the text would be longer than the page.                       *)
LEMMA RoomAbove ==
  ASSUME IInv, pc = "wrap", final_vmx >= COLS, test_vmy + 1 >= ROWS
  PROVE  vmy \in 1 .. ROWS - 1
<1>1. test_vmy = ROWS - 1 /\ vmy \in 0 .. ROWS - 1
  BY GeometryType DEF IInv, TypeOK, WrapInv
<1>2. SUFFICES ASSUME vmy = 0 PROVE FALSE
  BY <1>1, GeometryType
<1>3. Offset(final_vmx, ROWS - 1) = vmx + Len(str)
  BY <1>1, <1>2, GeometryType, StrType DEF IInv, TypeOK, WrapInv, Offset
<1>4. Offset(final_vmx, ROWS - 1) = (ROWS - 1) * COLS + final_vmx
  BY DEF Offset
<1>5. Len(str) \in Nat /\ Len(str) <= (ROWS - 1) * COLS
  BY StrType DEF IInv, TypeOK, MaxLen
<1> QED BY <1>3, <1>4, <1>5, CellsOrder, GeometryType DEF IInv, TypeOK

LEMMA WrapIInv ==
  ASSUME IInv, Wrap
  PROVE  IInv'
<1> USE DEF Wrap
<1>1. /\ final_vmx \in Nat /\ final_vmx - COLS \in Nat
      /\ test_vmy \in 0 .. ROWS - 1 /\ vmy \in 0 .. ROWS /\ vmy <= test_vmy
      /\ vmx \in 0 .. COLS - 1 /\ Len(str) \in Nat
  BY StrType, GeometryType DEF IInv, TypeOK, WrapInv
<1>2. Offset(final_vmx - COLS, test_vmy) = Offset(final_vmx, test_vmy) - COLS
  BY <1>1, GeometryType DEF Offset
<1>3. Offset(final_vmx - COLS, test_vmy + 1) = Offset(final_vmx, test_vmy)
  <2>1. final_vmx - COLS \in Int /\ final_vmx \in Int /\ test_vmy \in Int
    BY <1>1, GeometryType
  <2>2. Offset(final_vmx - COLS, test_vmy + 1)
          = Offset(final_vmx - COLS, test_vmy) + COLS
    BY <2>1, NextRow
  <2>3. Offset(final_vmx, test_vmy) \in Int
    BY <2>1, OffsetType
  <2> QED BY <1>2, <2>2, <2>3, GeometryType
<1>4. Offset(final_vmx, test_vmy) = Offset(vmx, vmy) + Len(str)
  BY DEF IInv, WrapInv
<1>5. CASE test_vmy + 1 >= ROWS
  <2>1. vmy \in 1 .. ROWS - 1
    BY <1>5, RoomAbove
  <2>2. vmy' = vmy - 1 /\ test_vmy' = test_vmy /\ final_vmx' = final_vmx - COLS
    BY <1>5, <2>1, Byte, GeometryType
  <2>3. vram' \in [Cells -> Cell]
    BY <1>5, ScrollType DEF IInv, TypeOK
  <2>4. Offset(vmx, vmy - 1) = Offset(vmx, vmy) - COLS
    BY <1>1, PrevRow
  <2>5. Offset(final_vmx', test_vmy') = Offset(vmx', vmy') + Len(str')
    <3>1. vmx \in Int /\ vmy \in Int
      BY <1>1, GeometryType
    <3>2. Offset(vmx, vmy) \in Int
      BY <3>1, OffsetType
    <3>3. vmx' = vmx /\ str' = str
      OBVIOUS
    <3>4. Offset(final_vmx', test_vmy') = Offset(vmx, vmy) + Len(str) - COLS
      BY <1>1, <1>2, <1>4, <2>2, <3>2, GeometryType
    <3>5. Offset(vmx', vmy') = Offset(vmx, vmy) - COLS
      BY <2>2, <2>4, <3>3
    <3> QED BY <1>1, <3>2, <3>3, <3>4, <3>5, GeometryType
  <2> QED BY <1>1, <2>1, <2>2, <2>3, <2>5, GeometryType DEF IInv, TypeOK,
                WrapInv, TextFits, NewlineInv
<1>6. CASE ~(test_vmy + 1 >= ROWS)
  <2>1. vmy' = vmy /\ test_vmy' = test_vmy + 1 /\ final_vmx' = final_vmx - COLS
        /\ vram' = vram
    BY <1>6
  <2>2. Offset(final_vmx', test_vmy') = Offset(vmx', vmy') + Len(str')
    BY <1>3, <1>4, <2>1
  <2> QED BY <1>1, <1>6, <2>1, <2>2, GeometryType DEF IInv, TypeOK, WrapInv,
                TextFits, NewlineInv
<1> QED BY <1>5, <1>6

LEMMA WrapDoneIInv ==
  ASSUME IInv, WrapDone
  PROVE  IInv'
<1>1. /\ final_vmx \in 0 .. COLS - 1 /\ test_vmy \in 0 .. ROWS - 1
      /\ vmy \in 0 .. ROWS - 1 /\ vmx \in 0 .. COLS - 1 /\ Len(str) \in Nat
  BY StrType, GeometryType DEF IInv, TypeOK, WrapInv, WrapDone
<1>2. final_vmx % UINT8 = final_vmx /\ test_vmy % UINT8 = test_vmy
  <2>1. final_vmx \in 0 .. 255 /\ test_vmy \in 0 .. 255
    BY <1>1, GeometryType
  <2> QED BY <2>1, Byte
<1>3. /\ vmx' = final_vmx /\ vmy' = test_vmy
      /\ cursor' = Offset(final_vmx, test_vmy)
      /\ video_memory_ptr' = [x |-> vmx, y |-> vmy]
  BY <1>2 DEF WrapDone, set_cursor
<1>4. Offset(final_vmx, test_vmy) = Offset(vmx, vmy) + Len(str)
  BY DEF IInv, WrapInv, WrapDone
<1>5. Offset(final_vmx, test_vmy) \in 0 .. ROWS * COLS - 1
  BY <1>1, OffsetBound, GeometryType
<1>6. cursor' \in 0 .. (ROWS + 1) * COLS - 1
  BY <1>3, <1>5, CellsOrder, GeometryType
<1>7. TypeOK'
  BY <1>1, <1>3, <1>6, GeometryType DEF IInv, TypeOK, WrapDone
<1>8. TextFits'
  <2>1. Offset(video_memory_ptr'.x, video_memory_ptr'.y) = Offset(vmx, vmy)
    BY <1>3
  <2>2. ROWS * COLS \in Int
    BY GeometryType
  <2> QED BY <1>3, <1>4, <1>5, <2>1, <2>2 DEF TextFits, WrapDone
<1> QED BY <1>1, <1>3, <1>7, <1>8, GeometryType DEF IInv, WrapInv, NewlineInv,
              WrapDone

LEMMA ReturnType ==
  ASSUME Return
  PROVE  /\ pc' = "idle" /\ str' \in Strings \cup {<< >>} /\ line' \in BOOLEAN
         /\ final_vmx' \in Nat /\ test_vmy' \in 0 .. ROWS - 1
         /\ video_memory_ptr' \in [x : 0 .. COLS - 1, y : 0 .. ROWS - 1]
         /\ before' \in [vram : [Cells -> Cell],
                         x : 0 .. COLS - 1, y : 0 .. ROWS]
<1>1. 0 \in 0 .. ROWS - 1
  BY GeometryType
<1> QED BY <1>1, NoCallType DEF Return

LEMMA WriteIInv ==
  ASSUME IInv, Write
  PROVE  IInv'
<1>1. vram' \in [Cells -> Cell]
  <2>1. video_memory_ptr.x \in Int /\ video_memory_ptr.y \in Int
    BY GeometryType DEF IInv, TypeOK
  <2> QED BY <2>1, WriteType, StrType DEF Write, IInv, TypeOK
<1>2. CASE line /\ pc' = "newline" /\ UNCHANGED <<str, line, locals, before>>
  BY <1>1, <1>2 DEF Write, IInv, TypeOK, WrapInv, TextFits, NewlineInv,
     position, locals
<1>3. CASE Return
  BY <1>1, <1>3, ReturnType DEF Write, IInv, TypeOK, WrapInv, TextFits,
     NewlineInv, position
<1> QED BY <1>2, <1>3 DEF Write

LEMMA NewlineIInv ==
  ASSUME IInv, Newline
  PROVE  IInv'
<1>1. vmy \in 0 .. ROWS - 1
  BY GeometryType DEF IInv, TypeOK, NewlineInv, Newline
<1>2. vmx' = 0 /\ vmy' = vmy + 1 /\ cursor' = Offset(0, vmy + 1)
  BY <1>1, Byte, GeometryType DEF Newline, set_cursor
<1>3. cursor' \in 0 .. (ROWS + 1) * COLS - 1
  BY <1>1, <1>2, OffsetBound, GeometryType
<1> QED BY <1>1, <1>2, <1>3, ReturnType, GeometryType DEF Newline, IInv,
              TypeOK, WrapInv, TextFits, NewlineInv

LEMMA SetColorIInv ==
  ASSUME IInv, NEW c \in Colors, SetColor(c)
  PROVE  IInv'
BY DEF SetColor, IInv, TypeOK, WrapInv, TextFits, NewlineInv, screen, position,
       locals

LEMMA DrawRuleIInv ==
  ASSUME IInv, DrawRule
  PROVE  IInv'
<1>1. [i \in 1 .. COLS |-> DASH] \in Seq(Chars)
  BY GeometryType, TextAssumption
<1>2. vram' \in [Cells -> Cell]
  <2>1. 0 \in Int /\ ROWS \in Int
    BY GeometryType
  <2>2. vram \in [Cells -> Cell] /\ color \in Colors
    BY DEF IInv, TypeOK
  <2>3. video_isr_print_string(vram, [i \in 1 .. COLS |-> DASH], 0, ROWS, color)
          \in [Cells -> Cell]
    BY <1>1, <2>1, <2>2, WriteType
  <2> QED BY <2>3 DEF DrawRule
<1> QED BY <1>2 DEF DrawRule, IInv, TypeOK, WrapInv, TextFits, NewlineInv,
              position, locals

LEMMA NextIInv == IInv /\ [Next]_vars => IInv'
<1> SUFFICES ASSUME IInv, [Next]_vars PROVE IInv'
  OBVIOUS
<1>1. CASE UNCHANGED vars
  BY <1>1 DEF vars, IInv, TypeOK, WrapInv, TextFits, NewlineInv
<1> QED BY <1>1, CallIInv, TopScrollIInv, TopDoneIInv, WrapIInv, WrapDoneIInv,
              WriteIInv, NewlineIInv, SetColorIInv, DrawRuleIInv
           DEF Next, Running

(* Every reachable state of the console satisfies the inductive invariant. *)
THEOREM ConsoleInvariant == Spec => []IInv
BY InitIInv, NextIInv, PTL DEF Spec

(* vmx and vmy stay on the page and never wrap below zero, for every       *)
(* geometry and every string of at most ROWS - 1 rows.                     *)
THEOREM TypeCorrect == Spec => []TypeOK
<1>1. IInv => TypeOK
  BY DEF IInv
<1> QED BY <1>1, ConsoleInvariant, PTL

(* printf and println never write past the text rows.                      *)
THEOREM TextAlwaysFits == Spec => []TextFits
<1>1. IInv => TextFits
  BY DEF IInv
<1> QED BY <1>1, ConsoleInvariant, PTL

-----------------------------------------------------------------------------
(* The rule and the status row.                                            *)
LEMMA RuleRow ==
  ASSUME NEW p \in Row(ROWS)
  PROVE  p \in Cells /\ p \in Int /\ p >= ROWS * COLS /\ p < (ROWS + 1) * COLS
BY CellsOrder, GeometryType DEF Row, Cells

LEMMA StatusRow ==
  ASSUME NEW p \in Row(ROWS + 1)
  PROVE  p \in Cells /\ p \in Int /\ p >= (ROWS + 1) * COLS
<1>1. (ROWS + 1) + 1 = ROWS + 2
  BY GeometryType
<1> QED BY <1>1, CellsOrder, GeometryType DEF Row, Cells

LEMMA ScrollKeepsFrame ==
  ASSUME NEW v \in [Cells -> Cell]
  PROVE  /\ \A p \in Row(ROWS) : vm_scolling(v)[p].ch = DASH
         /\ \A p \in Row(ROWS + 1) : vm_scolling(v)[p] = v[p]
<1>1. ASSUME NEW p \in Row(ROWS) PROVE vm_scolling(v)[p].ch = DASH
  <2>1. p \in Cells /\ ~(p < (ROWS - 1) * COLS) /\ ~(p < ROWS * COLS)
        /\ p < (ROWS + 1) * COLS
    BY RuleRow, CellsOrder, GeometryType
  <2>2. vm_scolling(v)[p] = [v[p] EXCEPT !.ch = DASH]
    BY <2>1 DEF vm_scolling
  <2>3. v[p] \in Cell
    BY <2>1
  <2> QED BY <2>2, <2>3 DEF Cell
<1>2. ASSUME NEW p \in Row(ROWS + 1) PROVE vm_scolling(v)[p] = v[p]
  <2>1. p \in Cells /\ ~(p < (ROWS - 1) * COLS) /\ ~(p < ROWS * COLS)
        /\ ~(p < (ROWS + 1) * COLS)
    BY StatusRow, CellsOrder, GeometryType
  <2> QED BY <2>1 DEF vm_scolling
<1> QED BY <1>1, <1>2

(* A write outside p leaves p alone.                                       *)
LEMMA WriteElsewhere ==
  ASSUME NEW v, NEW s, NEW x, NEW y, NEW c, NEW p \in Cells,
         ~(p >= Offset(x, y) /\ p < Offset(x, y) + Len(s))
  PROVE  video_isr_print_string(v, s, x, y, c)[p] = v[p]
BY DEF video_isr_print_string

LEMMA ScrollFrame ==
  ASSUME IInv, FrameIntact, vram' = vm_scolling(vram), ruled' = ruled
  PROVE  FrameIntact'
<1>1. vram \in [Cells -> Cell]
  BY DEF IInv, TypeOK
<1> QED BY <1>1, ScrollKeepsFrame DEF FrameIntact

LEMMA WriteFrame ==
  ASSUME IInv, FrameIntact, Write
  PROVE  FrameIntact'
<1> DEFINE x == video_memory_ptr.x
           y == video_memory_ptr.y
<1>1. /\ Offset(x, y) \in Int /\ Len(str) \in Nat
      /\ Offset(x, y) + Len(str) < ROWS * COLS
  <2>1. x \in Int /\ y \in Int
    BY GeometryType DEF IInv, TypeOK
  <2>2. Offset(x, y) \in Int
    BY <2>1, OffsetType
  <2> QED BY <2>2, StrType DEF IInv, TypeOK, TextFits, Write
<1>2. ASSUME NEW p \in Cells, p \in Int, p >= ROWS * COLS
      PROVE  vram'[p] = vram[p]
  <2>1. ~(p < Offset(x, y) + Len(str))
    BY <1>1, <1>2, CellsOrder, GeometryType
  <2> QED BY <2>1, WriteElsewhere DEF Write
<1>3. ASSUME NEW p \in Row(ROWS) PROVE vram'[p] = vram[p]
  BY <1>2, RuleRow
<1>4. ASSUME NEW p \in Row(ROWS + 1) PROVE vram'[p] = vram[p]
  <2>1. p \in Cells /\ p \in Int /\ p >= ROWS * COLS
    BY StatusRow, CellsOrder, GeometryType
  <2> QED BY <2>1, <1>2
<1>5. ruled' = ruled
  BY DEF Write
<1> QED BY <1>3, <1>4, <1>5 DEF FrameIntact

LEMMA DrawRuleFrame ==
  ASSUME IInv, FrameIntact, DrawRule
  PROVE  FrameIntact'
<1> DEFINE s == [i \in 1 .. COLS |-> DASH]
<1>1. Len(s) = COLS
  BY GeometryType
<1>2. Offset(0, ROWS) = ROWS * COLS /\ ROWS * COLS \in Int
  BY GeometryType DEF Offset
<1>3. ASSUME NEW p \in Row(ROWS) PROVE vram'[p].ch = DASH
  <2>1. p \in Cells /\ p \in Int /\ p >= ROWS * COLS /\ p < ROWS * COLS + COLS
    BY RuleRow, CellsOrder, GeometryType
  <2>2. p - ROWS * COLS + 1 \in 1 .. COLS
    BY <1>2, <2>1, GeometryType
  <2>3. vram'[p] = [ch |-> s[p - ROWS * COLS + 1], attr |-> color]
    BY <1>1, <1>2, <2>1 DEF DrawRule, video_isr_print_string
  <2> QED BY <2>2, <2>3
<1>4. ASSUME NEW p \in Row(ROWS + 1) PROVE vram'[p] = vram[p]
  <2>1. p \in Cells /\ ~(p < ROWS * COLS + COLS)
    BY StatusRow, CellsOrder, GeometryType
  <2>2. ~(p >= Offset(0, ROWS) /\ p < Offset(0, ROWS) + Len(s))
    BY <1>1, <1>2, <2>1
  <2>3. vram' = video_isr_print_string(vram, s, 0, ROWS, color)
    BY DEF DrawRule
  <2> HIDE DEF s
  <2> QED BY <2>1, <2>2, <2>3, WriteElsewhere
<1>5. FrameIntact => \A p \in Row(ROWS + 1) :
                       vram[p] = [ch |-> BLANK, attr |-> NORMAL]
  BY DEF FrameIntact
<1>6. \A p \in Row(ROWS + 1) : vram'[p] = [ch |-> BLANK, attr |-> NORMAL]
  BY <1>4, <1>5
<1> QED BY <1>3, <1>6 DEF FrameIntact

LEMMA InitFrame == Init => FrameIntact
<1> SUFFICES ASSUME Init PROVE FrameIntact
  OBVIOUS
<1>1. ASSUME NEW p \in Row(ROWS + 1)
      PROVE  vram[p] = [ch |-> BLANK, attr |-> NORMAL]
  BY StatusRow DEF Init, EmptyPage
<1> QED BY <1>1 DEF Init, FrameIntact

LEMMA NextFrame == IInv /\ FrameIntact /\ [Next]_vars => FrameIntact'
<1> SUFFICES ASSUME IInv, FrameIntact, [Next]_vars PROVE FrameIntact'
  OBVIOUS
<1>1. ASSUME vram' = vram, ruled' = ruled PROVE FrameIntact'
  BY <1>1 DEF FrameIntact
<1>2. ASSUME NEW s \in Strings, NEW nl \in BOOLEAN, Call(s, nl)
      PROVE  FrameIntact'
  BY <1>1, <1>2 DEF Call, screen
<1>3. CASE TopScroll
  BY <1>3, ScrollFrame DEF TopScroll
<1>4. CASE TopDone
  BY <1>1, <1>4 DEF TopDone, screen
<1>5. CASE Wrap
  BY <1>1, <1>5, ScrollFrame DEF Wrap
<1>6. CASE WrapDone
  BY <1>1, <1>6 DEF WrapDone
<1>7. CASE Write
  BY <1>7, WriteFrame
<1>8. CASE Newline
  BY <1>1, <1>8 DEF Newline
<1>9. ASSUME NEW c \in Colors, SetColor(c) PROVE FrameIntact'
  BY <1>1, <1>9 DEF SetColor, screen
<1>10. CASE DrawRule
  BY <1>10, DrawRuleFrame
<1>11. CASE UNCHANGED vars
  BY <1>1, <1>11 DEF vars
<1> QED BY <1>2, <1>3, <1>4, <1>5, <1>6, <1>7, <1>8, <1>9, <1>10, <1>11
           DEF Next, Running

(* No print and no scroll damages the rule or the status row.              *)
THEOREM FrameSafe == Spec => []FrameIntact
BY ConsoleInvariant, InitFrame, NextFrame, PTL DEF Spec

-----------------------------------------------------------------------------
(* The refinement.  First the terminal: what its page is after n of the    *)
(* characters of a text.  The induction is over the least n at which it    *)
(* would not be so.                                                        *)
LEMMA LeastExists ==
  ASSUME NEW S \in SUBSET Nat, S # {}
  PROVE  \E i \in S : \A j \in S : i <= j
<1>1. \E i \in S : \A j \in S : ~(<<j, i>> \in OpToRel(<, Nat))
  BY WFMin, NatLessThanWellFounded, Zenon
<1>2. \A i, j \in Nat : j < i => <<j, i>> \in OpToRel(<, Nat)
  BY Zenon DEF OpToRel
<1>3. \E i \in S : \A j \in S : ~(j < i)
  BY <1>1, <1>2, Zenon
<1> QED BY <1>3

IsTyping(page, m, t, s, attr) ==
  page = [n \in 0 .. m |->
            IF n = 0 THEN t
            ELSE Teletype!PutGlyph(page[n - 1], Teletype!Glyph(s[n], attr))]

(* The recursion that defines Typing has a solution, at every length.      *)
LEMMA TypingExists ==
  ASSUME NEW t, NEW s, NEW attr, NEW m \in Nat
  PROVE  \E page : IsTyping(page, m, t, s, attr)
<1> DEFINE S == {n \in Nat : ~ \E page : IsTyping(page, n, t, s, attr)}
<1>1. SUFFICES ASSUME S # {} PROVE FALSE
  OBVIOUS
<1>2. PICK n \in S : \A j \in S : n <= j
  BY <1>1, LeastExists
<1>3. CASE n = 0
  <2> DEFINE page == [i \in 0 .. 0 |-> t]
  <2>1. IsTyping(page, 0, t, s, attr)
    BY DEF IsTyping
  <2> QED BY <1>2, <1>3, <2>1
<1>4. CASE n # 0
  <2>1. n - 1 \in Nat /\ n \in Nat
    BY <1>4
  <2>2. n - 1 \notin S
    BY <1>2, <2>1
  <2>3. PICK page : IsTyping(page, n - 1, t, s, attr)
    BY <2>1, <2>2
  <2> DEFINE put(p, i) == Teletype!PutGlyph(p, Teletype!Glyph(s[i], attr))
             longer == [i \in 0 .. n |->
                          IF i < n THEN page[i] ELSE put(page[n - 1], n)]
  <2> HIDE DEF put
  <2>4. page = [i \in 0 .. n - 1 |->
                  IF i = 0 THEN t ELSE put(page[i - 1], i)]
    BY <2>3 DEF IsTyping, put
  <2>5. ASSUME NEW i \in 0 .. n
        PROVE  longer[i] = IF i = 0 THEN t ELSE put(longer[i - 1], i)
    <3>1. CASE i = 0
      BY <1>4, <2>1, <2>4, <3>1
    <3>2. CASE i # 0 /\ i < n
      <4>1. i - 1 \in 0 .. n /\ i - 1 < n /\ i \in 0 .. n - 1
        BY <3>2, <2>1
      <4> QED BY <2>4, <3>2, <4>1
    <3>3. CASE i = n
      <4>1. n - 1 \in 0 .. n /\ n - 1 < n /\ ~(n < n)
        BY <2>1
      <4> QED BY <1>4, <3>3, <4>1
    <3> QED BY <3>1, <3>2, <3>3, <2>1
  <2>6. longer = [i \in 0 .. n |->
                    IF i = 0 THEN t ELSE put(longer[i - 1], i)]
    BY <2>5
  <2>7. IsTyping(longer, n, t, s, attr)
    BY <2>6 DEF IsTyping, put
  <2> QED BY <1>2, <2>7
<1> QED BY <1>3, <1>4

(* Typing begins with the page it is given and adds one character at a     *)
(* time.                                                                   *)
LEMMA TypingSteps ==
  ASSUME NEW t, NEW s, NEW attr, Len(s) \in Nat
  PROVE  /\ Teletype!Typing(t, s, attr)[0] = t
         /\ \A n \in 1 .. Len(s) :
              Teletype!Typing(t, s, attr)[n]
                = Teletype!PutGlyph(Teletype!Typing(t, s, attr)[n - 1],
                                    Teletype!Glyph(s[n], attr))
<1> DEFINE page == Teletype!Typing(t, s, attr)
<1>1. page = CHOOSE p : IsTyping(p, Len(s), t, s, attr)
  BY DEF Teletype!Typing, IsTyping
<1>2. IsTyping(page, Len(s), t, s, attr)
  BY <1>1, TypingExists
<1> HIDE DEF page
<1>3. page[0] = t
  BY <1>2 DEF IsTyping
<1>4. \A n \in 1 .. Len(s) :
        page[n] = Teletype!PutGlyph(page[n - 1], Teletype!Glyph(s[n], attr))
  BY <1>2 DEF IsTyping
<1> QED BY <1>3, <1>4 DEF page

-----------------------------------------------------------------------------
(* A page of the terminal, and where the character q cells behind its      *)
(* first cell ends up when n characters of s are typed on an endless page. *)
Sheet == [text : [Text -> Chars \X Colors],
          x : 0 .. COLS - 1, y : 0 .. ROWS - 1]

CellAt(t, s, attr, n, q) ==
  IF q >= Offset(t.x, t.y) /\ q < Offset(t.x, t.y) + n
  THEN Teletype!Glyph(s[q - Offset(t.x, t.y) + 1], attr)
  ELSE IF q \in Text THEN t.text[q] ELSE Teletype!Blank

(* u is that endless page, scrolled by k rows and no further than needed.  *)
Scrolled(u, t, s, attr, n, k) ==
  /\ u \in Sheet
  /\ Offset(u.x, u.y) + k * COLS = Offset(t.x, t.y) + n
  /\ k > 0 => u.y = ROWS - 1
  /\ \A p \in Text : u.text[p] = CellAt(t, s, attr, n, p + k * COLS)

(* Rows and cells as integers.                                             *)
LEMMA Rows ==
  ASSUME NEW k \in Nat
  PROVE  k * COLS \in Nat /\ (k + 1) * COLS = k * COLS + COLS
<1>1. k * COLS \in Nat
  BY RowOrder, GeometryType
<1> QED BY <1>1, GeometryType

(* The cursor of a page is on the page.                                    *)
LEMMA SheetIs ==
  ASSUME NEW u \in Sheet
  PROVE  /\ u.x \in Nat /\ u.x < COLS /\ u.y \in Nat /\ u.y < ROWS
         /\ Offset(u.x, u.y) \in Text
         /\ u.text \in [Text -> Chars \X Colors]
<1>1. u.x \in 0 .. COLS - 1 /\ u.y \in 0 .. ROWS - 1
      /\ u.text \in [Text -> Chars \X Colors]
  BY DEF Sheet
<1>2. u.y \in Nat /\ u.y < ROWS /\ u.x \in Nat /\ u.x < COLS
  BY <1>1, GeometryType
<1> QED BY <1>1, <1>2, OffsetBound, GeometryType DEF Text

LEMMA GlyphType ==
  ASSUME NEW c \in Chars, NEW attr \in Colors
  PROVE  /\ Teletype!Glyph(c, attr) \in Chars \X Colors
         /\ Teletype!Blank \in Chars \X Colors
BY TextAssumption DEF Teletype!Glyph, Teletype!Blank

(* A character in a row, at the end of a row, at the end of the page.      *)
LEMMA PutInRow ==
  ASSUME NEW u \in Sheet, NEW g \in Chars \X Colors, u.x + 1 < COLS
  PROVE  Teletype!PutGlyph(u, g)
           = [text |-> [u.text EXCEPT ![Offset(u.x, u.y)] = g],
              x |-> u.x + 1, y |-> u.y]
BY DEF Teletype!PutGlyph, Teletype!Advance, Sheet, Offset

LEMMA PutAtRowEnd ==
  ASSUME NEW u \in Sheet, NEW g \in Chars \X Colors,
         ~(u.x + 1 < COLS), u.y + 1 < ROWS
  PROVE  Teletype!PutGlyph(u, g)
           = [text |-> [u.text EXCEPT ![Offset(u.x, u.y)] = g],
              x |-> 0, y |-> u.y + 1]
<1>1. u.y + 1 # ROWS
  BY SheetIs, GeometryType
<1> QED BY <1>1 DEF Teletype!PutGlyph, Teletype!Advance, Teletype!Settle,
                    Sheet, Offset

LEMMA PutAtPageEnd ==
  ASSUME NEW u \in Sheet, NEW g \in Chars \X Colors,
         ~(u.x + 1 < COLS), ~(u.y + 1 < ROWS)
  PROVE  Teletype!PutGlyph(u, g)
           = [text |-> [p \in Text |->
                          IF p + COLS \in Text
                          THEN [u.text EXCEPT ![Offset(u.x, u.y)] = g][p + COLS]
                          ELSE Teletype!Blank],
              x |-> 0, y |-> u.y]
<1>1. u.y + 1 = ROWS /\ ROWS - 1 = u.y
  BY SheetIs, GeometryType
<1> QED BY <1>1, SheetIs, GeometryType
        DEF Teletype!PutGlyph, Teletype!Advance, Teletype!Settle,
            Teletype!Scroll, Teletype!Text, Text, Sheet, Offset

(* A page from its parts.                                                  *)
LEMMA SheetMade ==
  ASSUME NEW f \in [Text -> Chars \X Colors], NEW x \in Nat, NEW y \in Nat,
         x < COLS, y < ROWS
  PROVE  [text |-> f, x |-> x, y |-> y] \in Sheet
<1>1. x \in 0 .. COLS - 1 /\ y \in 0 .. ROWS - 1
  BY GeometryType
<1> QED BY <1>1 DEF Sheet

(* One more character.                                                     *)
LEMMA PutScrolls ==
  ASSUME NEW t \in Sheet, NEW s \in Seq(Chars), NEW attr \in Colors,
         NEW n \in Nat, n + 1 <= Len(s), NEW k \in Nat, NEW u,
         Scrolled(u, t, s, attr, n, k)
  PROVE  LET v == Teletype!PutGlyph(u, Teletype!Glyph(s[n + 1], attr))
         IN  \E j \in Nat : Scrolled(v, t, s, attr, n + 1, j)
<1> DEFINE g == Teletype!Glyph(s[n + 1], attr)
           o == Offset(u.x, u.y)
           b == Offset(t.x, t.y)
           d == k * COLS
<1>0. SUFFICES ASSUME NEW v, v = Teletype!PutGlyph(u, g),
                      NEW w, w = [u.text EXCEPT ![o] = g]
               PROVE  \E j \in Nat : Scrolled(v, t, s, attr, n + 1, j)
  OBVIOUS
<1>1. n + 1 \in 1 .. Len(s) /\ s[n + 1] \in Chars
  <2>1. Len(s) \in Nat
    OBVIOUS
  <2>2. n + 1 \in 1 .. Len(s)
    BY <2>1
  <2> QED BY <2>2
<1>2. g \in Chars \X Colors /\ Teletype!Blank \in Chars \X Colors
  BY <1>1, GlyphType
<1>3. /\ u \in Sheet /\ d \in Nat /\ o + d = b + n
      /\ k > 0 => u.y = ROWS - 1
      /\ \A p \in Text : u.text[p] = CellAt(t, s, attr, n, p + d)
  BY Rows DEF Scrolled
<1>4. /\ u.x \in Nat /\ u.x < COLS /\ u.y \in Nat /\ u.y < ROWS
      /\ o \in Text /\ u.text \in [Text -> Chars \X Colors]
      /\ t.x \in Nat /\ t.y \in Nat /\ b \in Text
  BY <1>3, SheetIs
<1>5. w \in [Text -> Chars \X Colors]
  BY <1>0, <1>2, <1>4
<1>6. ROWS * COLS \in Nat /\ Text = 0 .. ROWS * COLS - 1 /\ Text \subseteq Nat
  BY Rows, GeometryType DEF Text
<1>10. u.x \in Nat /\ u.x < COLS /\ u.y \in Nat /\ u.y < ROWS
  BY <1>4
<1>11. /\ o \in Nat /\ b \in Nat /\ d \in Nat /\ o + d = b + n
  BY <1>3, <1>4, <1>6
<1> HIDE DEF g, o, b, d
<1>7. ASSUME NEW p \in Text
      PROVE  w[p] = CellAt(t, s, attr, n + 1, p + d)
  <2>1. p \in Nat /\ o \in Nat /\ b \in Nat
    BY <1>4, <1>6
  <2>2. CASE p = o
    <3>1. p + d = b + n /\ b + n >= b /\ b + n < b + (n + 1)
          /\ (b + n) - b + 1 = n + 1
      BY <1>3, <2>1, <2>2
    <3>2. CellAt(t, s, attr, n + 1, p + d) = g
      BY <3>1 DEF CellAt, b, g
    <3> QED BY <1>0, <1>4, <2>2, <3>2
  <2>3. CASE p # o
    <3>1. p + d # b + n
      BY <1>3, <2>1, <2>3
    <3>2. p + d >= b /\ p + d < b + (n + 1) <=> p + d >= b /\ p + d < b + n
      BY <1>3, <2>1, <3>1
    <3>3. CellAt(t, s, attr, n + 1, p + d) = CellAt(t, s, attr, n, p + d)
      BY <3>2 DEF CellAt, b
    <3> QED BY <1>0, <1>3, <1>4, <2>3, <3>3
  <2> QED BY <2>2, <2>3
<1>8. CASE u.x + 1 < COLS
  <2>1. v = [text |-> w, x |-> u.x + 1, y |-> u.y]
    BY <1>0, <1>2, <1>3, <1>8, PutInRow DEF o
  <2>2. v \in Sheet
    <3>1. u.x + 1 \in Nat
      BY <1>4
    <3> QED BY <1>4, <1>5, <1>8, <2>1, <3>1, SheetMade
  <2>3. Offset(v.x, v.y) = o + 1
    <3>1. Offset(u.x + 1, u.y) = Offset(u.x, u.y) + 1
      BY <1>4, GeometryType DEF Offset
    <3> QED BY <2>1, <3>1 DEF o
  <2>4. Offset(v.x, v.y) + d = b + (n + 1)
    BY <1>3, <1>4, <1>6, <2>3
  <2> QED BY <1>3, <1>7, <2>1, <2>2, <2>4 DEF Scrolled, b, d
<1>9. CASE ~(u.x + 1 < COLS)
  <2>1. u.x + 1 = COLS
    BY <1>9, <1>10, GeometryType
  <2>2. Offset(0, u.y + 1) = o + 1
    <3>1. Offset(0, u.y + 1) = u.y * COLS + COLS
      BY <1>4, Rows, GeometryType DEF Offset
    <3>2. u.y * COLS \in Nat
      BY <1>4, Rows
    <3> QED BY <1>4, <2>1, <3>1, <3>2, GeometryType DEF o, Offset
  <2>3. CASE u.y + 1 < ROWS
    <3>1. v = [text |-> w, x |-> 0, y |-> u.y + 1]
      BY <1>0, <1>2, <1>3, <1>9, <2>3, PutAtRowEnd DEF o
    <3>2. v \in Sheet
      <4>1. 0 \in Nat /\ 0 < COLS /\ u.y + 1 \in Nat
        BY <1>4, GeometryType
      <4> QED BY <1>5, <2>3, <3>1, <4>1, SheetMade
    <3>3. Offset(v.x, v.y) + d = b + (n + 1)
      <4>1. Offset(v.x, v.y) = o + 1
        BY <2>2, <3>1
      <4> QED BY <1>11, <4>1
    <3>4. ~(k > 0)
      BY <1>3, <2>3, GeometryType
    <3> QED BY <1>7, <3>1, <3>2, <3>3, <3>4 DEF Scrolled, b, d
  <2>4. CASE ~(u.y + 1 < ROWS)
    <3> DEFINE z == [p \in Text |-> IF p + COLS \in Text THEN w[p + COLS]
                                    ELSE Teletype!Blank]
    <3>1. v = [text |-> z, x |-> 0, y |-> u.y]
      BY <1>0, <1>2, <1>3, <1>9, <2>4, PutAtPageEnd DEF o
    <3>2. z \in [Text -> Chars \X Colors]
      BY <1>2, <1>5
    <3>3. v \in Sheet
      <4>1. 0 \in Nat /\ 0 < COLS
        BY GeometryType
      <4> HIDE DEF z
      <4> QED BY <1>4, <3>1, <3>2, <4>1, SheetMade
    <3>4. u.y = ROWS - 1 /\ u.y + 1 = ROWS
      BY <1>4, <2>4, GeometryType
    <3>5. /\ k + 1 \in Nat /\ (k + 1) * COLS = d + COLS
          /\ o + 1 = ROWS * COLS
      <4>1. (k + 1) * COLS = d + COLS
        BY Rows DEF d
      <4>2. Offset(0, ROWS) = o + 1
        BY <2>2, <3>4
      <4>3. Offset(0, ROWS) = ROWS * COLS
        BY <1>6 DEF Offset
      <4> QED BY <4>1, <4>2, <4>3
    <3>6. Offset(v.x, v.y) + (k + 1) * COLS = b + (n + 1)
      <4>0. 0 \in Int /\ u.y \in Int
        BY <1>10
      <4>1. Offset(0, u.y + 1) = Offset(0, u.y) + COLS /\ Offset(0, u.y) \in Int
        BY <4>0, NextRow, OffsetType
      <4>2. Offset(v.x, v.y) = Offset(0, u.y)
        BY <3>1
      <4> QED BY <1>11, <2>2, <3>5, <4>1, <4>2, GeometryType
    <3>7. ASSUME NEW p \in Text
          PROVE  z[p] = CellAt(t, s, attr, n + 1, p + (k + 1) * COLS)
      <4>0. p \in Nat
        BY <1>6
      <4>1. /\ p \in Nat /\ p + (k + 1) * COLS = (p + COLS) + d
            /\ o \in Nat /\ b \in Nat
        BY <1>11, <3>5, <4>0, GeometryType
      <4>2. CASE p + COLS \in Text
        BY <1>7, <4>1, <4>2
      <4>3. CASE p + COLS \notin Text
        <5>1. p + COLS >= ROWS * COLS
          BY <1>6, <4>1, <4>3, GeometryType
        <5>2. (p + COLS) + d \notin Text /\ (p + COLS) + d >= b + (n + 1)
          BY <1>3, <1>6, <3>5, <4>1, <5>1, GeometryType
        <5>3. CellAt(t, s, attr, n + 1, (p + COLS) + d) = Teletype!Blank
          BY <1>6, <4>1, <5>2, GeometryType, <1>3 DEF CellAt, b
        <5> QED BY <4>1, <4>3, <5>3
      <4> QED BY <4>2, <4>3
    <3> HIDE DEF z
    <3>8. Scrolled(v, t, s, attr, n + 1, k + 1)
      BY <3>1, <3>3, <3>4, <3>6, <3>7 DEF Scrolled, b
    <3> QED BY <3>5, <3>8
  <2> QED BY <2>3, <2>4
<1> QED BY <1>8, <1>9

(* So the page typed is the endless page, scrolled no further than needed. *)
LEMMA TypedScrolls ==
  ASSUME NEW t \in Sheet, NEW s \in Seq(Chars), NEW attr \in Colors
  PROVE  \E k \in Nat :
           Scrolled(Teletype!Typed(t, s, attr), t, s, attr, Len(s), k)
<1> DEFINE page == Teletype!Typing(t, s, attr)
           Good(n) == \E k \in Nat : Scrolled(page[n], t, s, attr, n, k)
           S == {n \in Nat : n <= Len(s) /\ ~Good(n)}
<1>1. Len(s) \in Nat
  OBVIOUS
<1>2. page[0] = t /\ \A n \in 1 .. Len(s) :
        page[n] = Teletype!PutGlyph(page[n - 1], Teletype!Glyph(s[n], attr))
  BY <1>1, TypingSteps
<1> HIDE DEF page
<1>3. Good(0)
  <2>1. 0 * COLS = 0 /\ 0 \in Nat
    BY GeometryType
  <2>2. t.x \in Int /\ t.y \in Int
    BY SheetIs
  <2>20. Offset(t.x, t.y) \in Int
    BY <2>2, OffsetType
  <2>3. \A p \in Text : CellAt(t, s, attr, 0, p + 0) = t.text[p]
    <3> TAKE p \in Text
    <3>1. p \in Int
      BY Rows, GeometryType DEF Text
    <3>2. p + 0 = p /\ ~(p >= Offset(t.x, t.y) /\ p < Offset(t.x, t.y) + 0)
      BY <2>20, <3>1
    <3> QED BY <3>2 DEF CellAt
  <2>4. Scrolled(t, t, s, attr, 0, 0)
    BY <2>1, <2>20, <2>3 DEF Scrolled
  <2> QED BY <1>2, <2>1, <2>4
<1>4. S = {}
  <2> SUFFICES ASSUME S # {} PROVE FALSE
    OBVIOUS
  <2>1. PICK n \in S : \A j \in S : n <= j
    BY LeastExists
  <2>2. n \in Nat /\ n <= Len(s) /\ ~Good(n)
    BY <2>1
  <2>3. n # 0 /\ n - 1 \in Nat /\ n - 1 < n
    BY <1>3, <2>2
  <2>4. n - 1 \notin S
    BY <2>1, <2>2, <2>3
  <2>5. n - 1 <= Len(s) /\ (n - 1) + 1 = n /\ n \in 1 .. Len(s)
    BY <1>1, <2>2, <2>3
  <2>6. Good(n - 1)
    BY <2>3, <2>4, <2>5
  <2>7. PICK k \in Nat : Scrolled(page[n - 1], t, s, attr, n - 1, k)
    BY <2>6
  <2> DEFINE m == n - 1
  <2>8. m \in Nat /\ m + 1 <= Len(s) /\ m + 1 = n
    BY <2>2, <2>3, <2>5
  <2>9. Scrolled(page[m], t, s, attr, m, k)
    BY <2>7
  <2> HIDE DEF m
  <2>10. \E j \in Nat :
           Scrolled(Teletype!PutGlyph(page[m], Teletype!Glyph(s[m + 1], attr)),
                    t, s, attr, m + 1, j)
    BY <2>8, <2>9, PutScrolls
  <2>11. page[n] = Teletype!PutGlyph(page[m], Teletype!Glyph(s[m + 1], attr))
    BY <1>2, <2>5, <2>8 DEF m
  <2>12. Good(n)
    BY <2>8, <2>10, <2>11
  <2> QED BY <2>2, <2>12
<1>5. Good(Len(s))
  BY <1>1, <1>4
<1> QED BY <1>5 DEF Teletype!Typed, page

(* How far that is, the end of the text alone decides.                     *)
LEMMA ScrolledOnce ==
  ASSUME NEW x \in Nat, NEW y \in Nat, NEW j \in Nat, x < COLS, y < ROWS,
         j > 0 => y = ROWS - 1,
         NEW v \in Nat, NEW w \in Nat, NEW k \in Nat, v < COLS, w < ROWS,
         k > 0 => w = ROWS - 1,
         Offset(x, y) + j * COLS = Offset(v, w) + k * COLS
  PROVE  x = v /\ y = w /\ j = k
<1>1. /\ Offset(x, y) + j * COLS = Offset(x, y + j)
      /\ Offset(v, w) + k * COLS = Offset(v, w + k)
  <2>1. ASSUME NEW a \in Nat, NEW b \in Nat, NEW c \in Nat
        PROVE  Offset(a, b) + c * COLS = Offset(a, b + c)
    <3>1. (b + c) * COLS = b * COLS + c * COLS
      BY GeometryType
    <3>2. b * COLS \in Nat /\ c * COLS \in Nat
      BY Rows
    <3> QED BY <3>1, <3>2 DEF Offset
  <2> QED BY <2>1
<1>2. Offset(x, y + j) = Offset(v, w + k)
  BY <1>1
<1>3. ASSUME NEW a \in Nat, NEW b \in Nat, NEW c \in Nat, NEW d \in Nat,
             a < COLS, b < d
      PROVE  Offset(a, b) < Offset(c, d)
  <2>1. (b + 1) * COLS <= d * COLS /\ (b + 1) * COLS = b * COLS + COLS
        /\ b * COLS \in Nat /\ d * COLS \in Nat
    <3>1. b + 1 \in Nat /\ b + 1 <= d
      BY <1>3
    <3> QED BY <3>1, RowOrder, Rows
  <2> QED BY <1>3, <2>1, GeometryType DEF Offset
<1>4. y + j \in Nat /\ w + k \in Nat
  OBVIOUS
<1>5. Offset(x, y + j) \in Int /\ Offset(v, w + k) \in Int
  <2>1. x \in Int /\ y + j \in Int /\ v \in Int /\ w + k \in Int
    OBVIOUS
  <2> QED BY <2>1, OffsetType
<1>6. ~(y + j < w + k) /\ ~(w + k < y + j)
  BY <1>2, <1>3, <1>4, <1>5
<1>7. y + j = w + k
  BY <1>4, <1>6
<1>8. x = v
  <2> DEFINE r == (y + j) * COLS
  <2>1. r \in Nat
    BY <1>4, Rows
  <2>2. Offset(x, y + j) = r + x /\ Offset(v, w + k) = r + v
    BY <1>7 DEF Offset
  <2> HIDE DEF r
  <2> QED BY <1>2, <2>1, <2>2
<1>9. y = w
  BY <1>7, GeometryType
<1> QED BY <1>7, <1>8, <1>9

-----------------------------------------------------------------------------
(* Then the console: what a call has done so far to the page as it was     *)
(* when the call began.                                                    *)
Kept(v, w, k) ==
  \A p \in Text :
    ShownCell(v[p]) = IF p + k * COLS \in Text
                      THEN ShownCell(w[p + k * COLS]) ELSE Teletype!Blank

(* The row the text would start on if it fitted.                           *)
FirstRow == IF before.y = ROWS THEN ROWS - 1 ELSE before.y

(* The text starts where the cursor was, so many rows further up as the    *)
(* page has scrolled, and has scrolled only to end on the last row.        *)
Placed ==
  LET start == video_memory_ptr
  IN  /\ start.x = before.x /\ start.y <= FirstRow
      /\ start.y < FirstRow => vmy = ROWS - 1
      /\ Offset(vmx, vmy) = Offset(start.x, start.y) + Len(str)

Printed(v) ==
  LET base == Offset(video_memory_ptr.x, video_memory_ptr.y)
      d == (before.y - video_memory_ptr.y) * COLS
  IN  \A p \in Text :
        ShownCell(v[p]) =
          IF p >= base /\ p < base + Len(str)
          THEN Teletype!Glyph(str[p - base + 1], color)
          ELSE IF p + d \in Text THEN ShownCell(before.vram[p + d])
          ELSE Teletype!Blank

History ==
  /\ pc # "idle" => str \in Strings
  /\ pc \in {"top", "wrap"} => /\ vmx = before.x /\ vmy <= before.y
                               /\ Kept(vram, before.vram, before.y - vmy)
  /\ pc = "top" => FirstRow <= vmy
  /\ pc = "wrap" => /\ vmy <= FirstRow
                    /\ vmy < FirstRow => test_vmy = ROWS - 1
  /\ pc \in {"write", "newline"} => Placed
  /\ pc = "write" => Kept(vram, before.vram, before.y - video_memory_ptr.y)
  /\ pc = "newline" => Printed(vram)

(* Being a text cell is a matter of one comparison.                        *)
LEMMA TextCells ==
  /\ Text \subseteq Cells /\ Text \subseteq Nat
  /\ \A p \in Nat : p \in Text <=> p < ROWS * COLS
BY CellsOrder, Rows, GeometryType DEF Text, Cells

(* When a call begins nothing has moved.                                   *)
LEMMA KeptAtCall ==
  ASSUME NEW v
  PROVE  Kept(v, v, 0)
<1>1. 0 * COLS = 0
  BY GeometryType
<1>2. \A p \in Text : p + 0 = p
  BY TextCells
<1> QED BY <1>1, <1>2 DEF Kept

(* A scroll moves what is kept one row further.                            *)
LEMMA KeptScroll ==
  ASSUME NEW v \in [Cells -> Cell], NEW w, NEW k \in Nat, Kept(v, w, k)
  PROVE  Kept(vm_scolling(v), w, k + 1)
<1> DEFINE d == k * COLS
<1>1. d \in Nat /\ (k + 1) * COLS = d + COLS
  BY Rows
<1> HIDE DEF d
<1>2. \A p \in Text : ShownCell(v[p]) = IF p + d \in Text
                                        THEN ShownCell(w[p + d])
                                        ELSE Teletype!Blank
  BY DEF Kept, d
<1>3. ASSUME NEW p \in Text
      PROVE  ShownCell(vm_scolling(v)[p])
               = IF p + (d + COLS) \in Text THEN ShownCell(w[p + (d + COLS)])
                 ELSE Teletype!Blank
  <2>1. p \in Nat /\ p \in Cells /\ p < ROWS * COLS
    BY TextCells
  <2>2. (ROWS - 1) * COLS \in Nat /\ ROWS * COLS = (ROWS - 1) * COLS + COLS
    BY CellsOrder
  <2>3. CASE p < (ROWS - 1) * COLS
    <3>1. p + COLS \in Text /\ (p + COLS) + d = p + (d + COLS)
      BY <1>1, <2>1, <2>2, <2>3, TextCells, GeometryType
    <3>2. vm_scolling(v)[p] = v[p + COLS]
      BY <2>1, <2>3 DEF vm_scolling
    <3> QED BY <1>2, <3>1, <3>2
  <2>4. CASE ~(p < (ROWS - 1) * COLS)
    <3>1. vm_scolling(v)[p] = [v[p] EXCEPT !.ch = BLANK] /\ v[p] \in Cell
      BY <2>1, <2>4 DEF vm_scolling
    <3>2. ShownCell(vm_scolling(v)[p]) = Teletype!Blank
      BY <3>1 DEF ShownCell, Teletype!Blank, Cell
    <3>3. p + (d + COLS) \in Nat /\ ~(p + (d + COLS) < ROWS * COLS)
      BY <1>1, <2>1, <2>2, <2>4, GeometryType
    <3>4. p + (d + COLS) \notin Text
      BY <3>3, TextCells
    <3> QED BY <3>2, <3>4
  <2> QED BY <2>3, <2>4
<1> QED BY <1>1, <1>3 DEF Kept

(* What interrupt 0x41 writes is what typing shows.                        *)
LEMMA WritePrints ==
  ASSUME IInv, Write, Kept(vram, before.vram, before.y - video_memory_ptr.y)
  PROVE  Printed(vram')
<1> DEFINE base == Offset(video_memory_ptr.x, video_memory_ptr.y)
           d == (before.y - video_memory_ptr.y) * COLS
<1>1. ASSUME NEW p \in Text
      PROVE  ShownCell(vram'[p]) =
               IF p >= base /\ p < base + Len(str)
               THEN Teletype!Glyph(str[p - base + 1], color)
               ELSE IF p + d \in Text THEN ShownCell(before.vram[p + d])
               ELSE Teletype!Blank
  <2>1. p \in Cells
    BY TextCells
  <2>2. vram'[p] = IF p >= base /\ p < base + Len(str)
                   THEN [ch |-> str[p - base + 1], attr |-> color]
                   ELSE vram[p]
    BY <2>1 DEF Write, video_isr_print_string
  <2>3. ShownCell(vram[p]) = IF p + d \in Text
                             THEN ShownCell(before.vram[p + d])
                             ELSE Teletype!Blank
    BY DEF Kept
  <2>4. CASE p >= base /\ p < base + Len(str)
    BY <2>2, <2>4 DEF ShownCell, Teletype!Glyph, Teletype!Blank
  <2>5. CASE ~(p >= base /\ p < base + Len(str))
    BY <2>2, <2>3, <2>5
  <2> QED BY <2>4, <2>5
<1> QED BY <1>1 DEF Printed

-----------------------------------------------------------------------------
(* The history, action by action.                                          *)
LEMMA PageTypes ==
  ASSUME IInv
  PROVE  /\ vram \in [Cells -> Cell] /\ before.vram \in [Cells -> Cell]
         /\ before.x \in Nat /\ before.x < COLS
         /\ before.y \in Nat /\ before.y <= ROWS
         /\ FirstRow \in Nat /\ FirstRow < ROWS /\ FirstRow <= before.y
         /\ vmx \in Nat /\ vmx < COLS /\ vmy \in Nat /\ vmy <= ROWS
         /\ video_memory_ptr.x \in Nat /\ video_memory_ptr.x < COLS
         /\ video_memory_ptr.y \in Nat /\ video_memory_ptr.y < ROWS
<1>1. /\ vram \in [Cells -> Cell]
      /\ before \in [vram : [Cells -> Cell], x : 0 .. COLS - 1, y : 0 .. ROWS]
      /\ vmx \in 0 .. COLS - 1 /\ vmy \in 0 .. ROWS
      /\ video_memory_ptr \in [x : 0 .. COLS - 1, y : 0 .. ROWS - 1]
  BY DEF IInv, TypeOK
<1>2. /\ before.vram \in [Cells -> Cell] /\ before.x \in 0 .. COLS - 1
      /\ before.y \in 0 .. ROWS
      /\ video_memory_ptr.x \in 0 .. COLS - 1
      /\ video_memory_ptr.y \in 0 .. ROWS - 1
  BY <1>1
<1>3. FirstRow \in Nat /\ FirstRow < ROWS /\ FirstRow <= before.y
  BY <1>2, GeometryType DEF FirstRow
<1> QED BY <1>1, <1>2, <1>3, GeometryType

LEMMA InitHistory == Init => History
BY DEF Init, History

LEMMA IdleHistory ==
  ASSUME pc' = "idle"
  PROVE  History'
BY DEF History

LEMMA CallHistory ==
  ASSUME IInv, NEW s \in Strings, NEW nl \in BOOLEAN, Call(s, nl)
  PROVE  History'
<1>1. /\ pc' = "top" /\ str' = s /\ vram' = vram /\ vmx' = vmx /\ vmy' = vmy
      /\ before' = [vram |-> vram, x |-> vmx, y |-> vmy]
  BY DEF Call, screen, position
<1>2. vmy \in Nat /\ vmy <= ROWS
  BY PageTypes
<1>3. vmy' <= before'.y /\ before'.y - vmy' = 0 /\ vmx' = before'.x
  BY <1>1, <1>2
<1>4. Kept(vram', before'.vram, before'.y - vmy')
  BY <1>1, <1>3, KeptAtCall
<1>5. FirstRow' <= vmy'
  BY <1>1, <1>2, GeometryType DEF FirstRow
<1> QED BY <1>1, <1>3, <1>4, <1>5 DEF History

LEMMA TopScrollHistory ==
  ASSUME IInv, History, TopScroll
  PROVE  History'
<1>1. /\ pc = "top" /\ pc' = "top" /\ vmy >= ROWS /\ vmy' = (vmy - 1) % UINT8
      /\ vram' = vm_scolling(vram) /\ vmx' = vmx /\ str' = str
      /\ before' = before
  BY DEF TopScroll
<1>2. /\ vmy \in Nat /\ vmy <= ROWS /\ before.y \in Nat /\ before.y <= ROWS
      /\ vram \in [Cells -> Cell]
  BY PageTypes
<1>3. /\ str \in Strings /\ vmx = before.x /\ vmy <= before.y
      /\ Kept(vram, before.vram, before.y - vmy)
  BY <1>1 DEF History
<1>4. vmy = ROWS /\ before.y = ROWS /\ before.y - vmy = 0
  BY <1>1, <1>2, <1>3, GeometryType
<1>5. vmy' = ROWS - 1
  <2>1. vmy - 1 \in 0 .. 255
    BY <1>4, GeometryType
  <2> QED BY <1>1, <1>4, <2>1, Byte
<1>6. Kept(vram', before.vram, 0 + 1)
  BY <1>1, <1>2, <1>3, <1>4, KeptScroll
<1>7. before'.y - vmy' = 0 + 1 /\ vmy' <= before'.y /\ FirstRow' <= vmy'
  BY <1>1, <1>4, <1>5, GeometryType DEF FirstRow
<1> QED BY <1>1, <1>3, <1>6, <1>7 DEF History

LEMMA TopDoneHistory ==
  ASSUME IInv, History, TopDone
  PROVE  History'
<1>1. /\ pc = "top" /\ pc' = "wrap" /\ vmy < ROWS /\ vmy' = vmy /\ vmx' = vmx
      /\ vram' = vram /\ str' = str /\ before' = before
  BY DEF TopDone, screen, position
<1>2. /\ vmy \in Nat /\ before.y \in Nat /\ before.y <= ROWS
  BY PageTypes
<1>3. /\ str \in Strings /\ vmx = before.x /\ vmy <= before.y
      /\ Kept(vram, before.vram, before.y - vmy) /\ FirstRow <= vmy
  BY <1>1 DEF History
<1>4. vmy = FirstRow /\ FirstRow' = FirstRow
  BY <1>1, <1>2, <1>3, GeometryType DEF FirstRow
<1> QED BY <1>1, <1>2, <1>3, <1>4 DEF History

LEMMA WrapHistory ==
  ASSUME IInv, History, Wrap
  PROVE  History'
<1>1. /\ pc = "wrap" /\ pc' = "wrap" /\ vmx' = vmx /\ str' = str
      /\ before' = before /\ final_vmx >= COLS
  BY DEF Wrap
<1>2. /\ vmy \in Nat /\ before.y \in Nat /\ FirstRow \in Nat
      /\ vram \in [Cells -> Cell] /\ FirstRow < ROWS
  BY PageTypes
<1>3. /\ str \in Strings /\ vmx = before.x /\ vmy <= before.y
      /\ Kept(vram, before.vram, before.y - vmy) /\ vmy <= FirstRow
      /\ vmy < FirstRow => test_vmy = ROWS - 1
  BY <1>1 DEF History
<1>4. FirstRow' = FirstRow
  BY <1>1 DEF FirstRow
<1>5. CASE test_vmy + 1 >= ROWS
  <2>1. vmy \in 1 .. ROWS - 1
    BY <1>1, <1>5, RoomAbove
  <2>2. vmy - 1 \in 0 .. 255
    BY <2>1, GeometryType
  <2>3. vmy' = vmy - 1 /\ test_vmy' = test_vmy /\ vram' = vm_scolling(vram)
    BY <1>5, <2>2, Byte DEF Wrap
  <2>4. test_vmy = ROWS - 1
    <3>1. test_vmy \in 0 .. ROWS - 1
      BY DEF IInv, TypeOK
    <3> QED BY <1>5, <3>1, GeometryType
  <2> DEFINE k == before.y - vmy
  <2>5. k \in Nat /\ before.y - vmy' = k + 1
    BY <1>2, <1>3, <2>3
  <2>6. Kept(vram, before.vram, k)
    BY <1>3
  <2> HIDE DEF k
  <2>7. Kept(vram', before.vram, k + 1)
    BY <1>2, <2>3, <2>5, <2>6, KeptScroll
  <2>8. vmy' <= before'.y /\ vmy' <= FirstRow'
    BY <1>1, <1>2, <1>3, <1>4, <2>3
  <2> QED BY <1>1, <1>3, <2>3, <2>4, <2>5, <2>7, <2>8 DEF History
<1>6. CASE ~(test_vmy + 1 >= ROWS)
  <2>1. vmy' = vmy /\ vram' = vram
    BY <1>6 DEF Wrap
  <2>2. test_vmy # ROWS - 1
    <3>1. test_vmy \in 0 .. ROWS - 1
      BY DEF IInv, TypeOK
    <3> QED BY <1>6, <3>1, GeometryType
  <2> QED BY <1>1, <1>3, <1>4, <2>1, <2>2 DEF History
<1> QED BY <1>5, <1>6

LEMMA WrapDoneHistory ==
  ASSUME IInv, History, WrapDone
  PROVE  History'
<1>1. /\ pc = "wrap" /\ pc' = "write" /\ final_vmx < COLS /\ str' = str
      /\ vram' = vram /\ before' = before
      /\ video_memory_ptr' = [x |-> vmx, y |-> vmy]
  BY DEF WrapDone
<1>2. /\ final_vmx \in Nat /\ test_vmy \in 0 .. ROWS - 1
      /\ Offset(final_vmx, test_vmy) = Offset(vmx, vmy) + Len(str)
  BY <1>1 DEF IInv, TypeOK, WrapInv
<1>3. final_vmx \in 0 .. 255 /\ test_vmy \in 0 .. 255
  BY <1>1, <1>2, GeometryType
<1>4. vmx' = final_vmx /\ vmy' = test_vmy
  BY <1>3, Byte DEF WrapDone, set_cursor
<1>5. /\ str \in Strings /\ vmx = before.x
      /\ Kept(vram, before.vram, before.y - vmy) /\ vmy <= FirstRow
      /\ vmy < FirstRow => test_vmy = ROWS - 1
  BY <1>1 DEF History
<1>6. FirstRow' = FirstRow
  BY <1>1 DEF FirstRow
<1>7. video_memory_ptr'.x = vmx /\ video_memory_ptr'.y = vmy
  BY <1>1
<1>8. Placed'
  BY <1>1, <1>2, <1>4, <1>5, <1>6, <1>7 DEF Placed
<1>9. Kept(vram', before'.vram, before'.y - video_memory_ptr'.y)
  BY <1>1, <1>5, <1>7
<1> QED BY <1>1, <1>5, <1>8, <1>9 DEF History

LEMMA WriteHistory ==
  ASSUME IInv, History, Write
  PROVE  History'
<1>1. CASE line /\ pc' = "newline" /\ UNCHANGED <<str, line, locals, before>>
  <2>1. /\ pc = "write" /\ str' = str /\ before' = before /\ vmx' = vmx
        /\ vmy' = vmy /\ video_memory_ptr' = video_memory_ptr /\ color' = color
    BY <1>1 DEF Write, position, locals
  <2>2. /\ str \in Strings /\ Placed
        /\ Kept(vram, before.vram, before.y - video_memory_ptr.y)
    BY <2>1 DEF History
  <2>3. Placed'
    BY <2>1, <2>2 DEF Placed, FirstRow
  <2>4. Printed(vram')
    BY <2>2, WritePrints
  <2>5. Printed(vram)'
    BY <2>1, <2>4 DEF Printed
  <2> QED BY <1>1, <2>1, <2>2, <2>3, <2>5 DEF History
<1>2. CASE Return
  BY <1>2, IdleHistory DEF Return
<1> QED BY <1>1, <1>2 DEF Write

LEMMA StutterHistory ==
  ASSUME History, UNCHANGED vars
  PROVE  History'
<1>1. /\ vram' = vram /\ vmx' = vmx /\ vmy' = vmy /\ color' = color /\ pc' = pc
      /\ str' = str /\ test_vmy' = test_vmy /\ before' = before
      /\ video_memory_ptr' = video_memory_ptr
  BY DEF vars
<1>2. /\ Placed' = Placed /\ FirstRow' = FirstRow
      /\ Printed(vram)' = Printed(vram)
  BY <1>1 DEF Placed, FirstRow, Printed
<1> QED BY <1>1, <1>2 DEF History

LEMMA NextHistory == IInv /\ History /\ [Next]_vars => History'
<1> SUFFICES ASSUME IInv, History, [Next]_vars PROVE History'
  OBVIOUS
<1>1. ASSUME NEW s \in Strings, NEW nl \in BOOLEAN, Call(s, nl)
      PROVE  History'
  BY <1>1, CallHistory
<1>2. CASE TopScroll
  BY <1>2, TopScrollHistory
<1>3. CASE TopDone
  BY <1>3, TopDoneHistory
<1>4. CASE Wrap
  BY <1>4, WrapHistory
<1>5. CASE WrapDone
  BY <1>5, WrapDoneHistory
<1>6. CASE Write
  BY <1>6, WriteHistory
<1>7. CASE Newline
  BY <1>7, IdleHistory DEF Newline, Return
<1>8. ASSUME NEW c \in Colors, SetColor(c) PROVE History'
  BY <1>8, IdleHistory DEF SetColor
<1>9. CASE DrawRule
  BY <1>9, IdleHistory DEF DrawRule
<1>10. CASE UNCHANGED vars
  BY <1>10, StutterHistory
<1> QED BY <1>1, <1>2, <1>3, <1>4, <1>5, <1>6, <1>7, <1>8, <1>9, <1>10
           DEF Next, Running

(* What a call has done to the page so far, at every step of it.           *)
THEOREM HistoryInvariant == Spec => [](IInv /\ History)
<1>1. Init => IInv /\ History
  BY InitIInv, InitHistory
<1>2. IInv /\ History /\ [Next]_vars => (IInv /\ History)'
  BY NextIInv, NextHistory
<1> QED BY <1>1, <1>2, PTL DEF Spec

-----------------------------------------------------------------------------
(* The page a call begins with, as the terminal sees it, and after the     *)
(* scroll a newline left pending.                                          *)
Opening == [text |-> [p \in Text |-> ShownCell(before.vram[p])],
            x |-> before.x, y |-> before.y]

Settled == Teletype!Settle(Opening)

LEMMA ShownType ==
  ASSUME NEW cell \in Cell
  PROVE  ShownCell(cell) \in Chars \X Colors
BY TextAssumption DEF Cell, ShownCell

(* The settled page is the page at the call, scrolled by one row if a      *)
(* newline had left the cursor below it.                                   *)
LEMMA SettledIs ==
  ASSUME IInv
  PROVE  /\ Settled \in Sheet /\ Settled.x = before.x /\ Settled.y = FirstRow
         /\ \A p \in Text :
              Settled.text[p] =
                IF p + (before.y - FirstRow) * COLS \in Text
                THEN ShownCell(before.vram[p + (before.y - FirstRow) * COLS])
                ELSE Teletype!Blank
<1>1. /\ before.vram \in [Cells -> Cell] /\ before.x \in Nat /\ before.x < COLS
      /\ before.y \in Nat /\ before.y <= ROWS
      /\ FirstRow \in Nat /\ FirstRow < ROWS
  BY PageTypes
<1> DEFINE f == [p \in Text |-> ShownCell(before.vram[p])]
           g == [p \in Text |-> IF p + COLS \in Text THEN f[p + COLS]
                                ELSE Teletype!Blank]
<1>2. f \in [Text -> Chars \X Colors]
  <2>1. \A p \in Text : before.vram[p] \in Cell
    BY <1>1, TextCells
  <2> QED BY <2>1, ShownType
<1>3. Teletype!Blank \in Chars \X Colors
  BY TextAssumption DEF Teletype!Blank
<1>4. g \in [Text -> Chars \X Colors]
  BY <1>2, <1>3
<1>5. CASE before.y = ROWS
  <2>1. FirstRow = ROWS - 1
    BY <1>5 DEF FirstRow
  <2>2. Settled = [text |-> g, x |-> before.x, y |-> ROWS - 1]
    BY <1>5 DEF Settled, Opening, Teletype!Settle, Teletype!Scroll,
                Teletype!Text, Text
  <2>3. (before.y - FirstRow) * COLS = COLS
    <3>1. before.y - FirstRow = 1
      BY <1>5, <2>1, GeometryType
    <3> QED BY <3>1, GeometryType
  <2>4. \A p \in Text : g[p] = IF p + COLS \in Text
                               THEN ShownCell(before.vram[p + COLS])
                               ELSE Teletype!Blank
    OBVIOUS
  <2> HIDE DEF g
  <2>5. Settled \in Sheet
    BY <1>1, <1>4, <2>1, <2>2, SheetMade
  <2> QED BY <2>1, <2>2, <2>3, <2>4, <2>5
<1>6. CASE before.y # ROWS
  <2>1. FirstRow = before.y
    BY <1>6 DEF FirstRow
  <2>2. Settled = [text |-> f, x |-> before.x, y |-> before.y]
    BY <1>6 DEF Settled, Opening, Teletype!Settle
  <2>3. (before.y - FirstRow) * COLS = 0 /\ \A p \in Text : p + 0 = p
    <3>1. before.y - FirstRow = 0
      BY <1>1, <2>1
    <3> QED BY <3>1, TextCells, GeometryType
  <2>4. \A p \in Text : f[p] = ShownCell(before.vram[p])
    OBVIOUS
  <2> HIDE DEF f
  <2>5. Settled \in Sheet
    BY <1>1, <1>2, <2>1, <2>2, SheetMade
  <2> QED BY <2>1, <2>2, <2>3, <2>4, <2>5
<1> QED BY <1>5, <1>6

(* The call has typed its text: with the same scrolls, on the same cells.  *)
LEMMA TypedIs ==
  ASSUME IInv, str \in Strings, Placed, vmy < ROWS, NEW v, Printed(v), NEW u,
         u = Teletype!Typed(Settled, str, color)
  PROVE  u \in Sheet /\ u.x = vmx /\ u.y = vmy
         /\ u.text = [p \in Text |-> ShownCell(v[p])]
<1> DEFINE start == video_memory_ptr
           k == FirstRow - start.y
           e == before.y - FirstRow
           kC == k * COLS
           eC == e * COLS
           d == (before.y - start.y) * COLS
           base == Offset(start.x, start.y)
<1>1. /\ before.vram \in [Cells -> Cell] /\ before.x \in Nat /\ before.x < COLS
      /\ before.y \in Nat /\ before.y <= ROWS
      /\ FirstRow \in Nat /\ FirstRow < ROWS /\ FirstRow <= before.y
      /\ vmx \in Nat /\ vmx < COLS /\ vmy \in Nat
      /\ start.x \in Nat /\ start.y \in Nat
  BY PageTypes
<1>2. /\ start.x = before.x /\ start.y <= FirstRow
      /\ start.y < FirstRow => vmy = ROWS - 1
      /\ Offset(vmx, vmy) = base + Len(str)
  BY DEF Placed
<1>3. k \in Nat /\ e \in Nat /\ before.y - start.y = k + e
      /\ (k > 0 => vmy = ROWS - 1)
  BY <1>1, <1>2
<1>4. Len(str) \in Nat /\ str \in Seq(Chars)
  BY StrType
<1>5. color \in Colors
  BY DEF IInv, TypeOK
<1>6. /\ Settled \in Sheet /\ Settled.x = start.x /\ Settled.y = FirstRow
      /\ \A p \in Text : Settled.text[p] =
            IF p + eC \in Text THEN ShownCell(before.vram[p + eC])
            ELSE Teletype!Blank
  BY <1>2, SettledIs
<1>7. PICK j \in Nat : Scrolled(u, Settled, str, color, Len(str), j)
  BY <1>4, <1>5, <1>6, TypedScrolls
<1>8. kC \in Nat /\ eC \in Nat /\ d = kC + eC
  <2>1. kC \in Nat /\ eC \in Nat
    BY <1>3, Rows
  <2>2. d = (k + e) * COLS
    BY <1>3
  <2>3. ASSUME NEW a \in Nat, NEW b \in Nat
        PROVE  (a + b) * COLS = a * COLS + b * COLS
    BY GeometryType
  <2> HIDE DEF k, e, d
  <2> QED BY <1>3, <2>1, <2>2, <2>3
<1>9. base \in Int
  <2>1. start.x \in Int /\ start.y \in Int
    BY <1>1
  <2> QED BY <2>1, OffsetType
<1>10. Offset(start.x, FirstRow) = base + kC
  <2>1. FirstRow = start.y + k
    BY <1>1
  <2>2. ASSUME NEW a \in Nat, NEW b \in Nat, NEW c \in Nat
        PROVE  Offset(a, b + c) = Offset(a, b) + c * COLS
    <3>1. (b + c) * COLS = b * COLS + c * COLS
      BY GeometryType
    <3>2. b * COLS \in Nat /\ c * COLS \in Nat
      BY Rows
    <3> QED BY <3>1, <3>2 DEF Offset
  <2> HIDE DEF k
  <2>3. Offset(start.x, start.y + k) = Offset(start.x, start.y) + k * COLS
    <3>1. start.x \in Nat /\ start.y \in Nat /\ k \in Nat
      BY <1>1, <1>3
    <3> QED BY <2>2, <3>1, Zenon
  <2> QED BY <2>1, <2>3
<1> HIDE DEF k, e, kC, eC, d, base
<1>11. /\ u \in Sheet
       /\ Offset(u.x, u.y) + j * COLS = base + kC + Len(str)
       /\ j > 0 => u.y = ROWS - 1
       /\ \A p \in Text :
            u.text[p] = CellAt(Settled, str, color, Len(str), p + j * COLS)
  BY <1>6, <1>7, <1>10 DEF Scrolled
<1>12. u.x = vmx /\ u.y = vmy /\ j = k
  <2>1. u.x \in Nat /\ u.x < COLS /\ u.y \in Nat /\ u.y < ROWS
    BY <1>11, SheetIs
  <2>2. Offset(u.x, u.y) + j * COLS = Offset(vmx, vmy) + k * COLS
    BY <1>2, <1>4, <1>8, <1>9, <1>11 DEF kC
  <2>3. vmx \in Nat /\ vmx < COLS /\ vmy \in Nat /\ vmy < ROWS
    BY <1>1
  <2>4. (j > 0 => u.y = ROWS - 1) /\ (k > 0 => vmy = ROWS - 1)
    BY <1>3, <1>11
  <2> QED BY <1>3, <2>1, <2>2, <2>3, <2>4, ScrolledOnce
<1>13. ASSUME NEW p \in Text
       PROVE  u.text[p] = ShownCell(v[p])
  <2>1. u.text[p] = CellAt(Settled, str, color, Len(str), p + kC)
    BY <1>11, <1>12 DEF kC
  <2>2. p \in Nat
    BY TextCells
  <2>3. ShownCell(v[p]) =
          IF p >= base /\ p < base + Len(str)
          THEN Teletype!Glyph(str[p - base + 1], color)
          ELSE IF p + d \in Text THEN ShownCell(before.vram[p + d])
          ELSE Teletype!Blank
    BY DEF Printed, base, d
  <2>4. Offset(Settled.x, Settled.y) = base + kC
    BY <1>6, <1>10
  <2>5. CASE p >= base /\ p < base + Len(str)
    <3>1. CellAt(Settled, str, color, Len(str), p + kC)
            = Teletype!Glyph(str[p - base + 1], color)
      <4>1. PICK q \in Nat : q = p + kC
        BY <1>8, <2>2
      <4>2. PICK o \in Int : o = Offset(Settled.x, Settled.y)
        BY <1>8, <1>9, <2>4
      <4>3. q >= o /\ q < o + Len(str) /\ q - o + 1 = p - base + 1
        BY <1>4, <1>8, <1>9, <2>2, <2>4, <2>5, <4>1, <4>2
      <4>4. CellAt(Settled, str, color, Len(str), q)
              = Teletype!Glyph(str[q - o + 1], color)
        BY <4>2, <4>3 DEF CellAt
      <4> QED BY <4>1, <4>3, <4>4
    <3> QED BY <2>1, <2>3, <2>5, <3>1
  <2>6. CASE ~(p >= base /\ p < base + Len(str))
    <3>1. ~(p + kC >= base + kC /\ p + kC < base + kC + Len(str))
      BY <1>4, <1>8, <1>9, <2>2, <2>6
    <3>2. CellAt(Settled, str, color, Len(str), p + kC)
            = IF p + kC \in Text THEN Settled.text[p + kC] ELSE Teletype!Blank
      BY <2>4, <3>1 DEF CellAt
    <3>3. (p + kC) + eC = p + d
      BY <1>8, <2>2
    <3>4. p + d \in Text => p + kC \in Text
      BY <1>8, <2>2, TextCells, Rows, GeometryType
    <3>5. p + kC \in Text => Settled.text[p + kC] =
            IF p + d \in Text THEN ShownCell(before.vram[p + d])
            ELSE Teletype!Blank
      BY <1>6, <3>3
    <3> QED BY <2>1, <2>3, <2>6, <3>2, <3>4, <3>5
  <2> QED BY <2>5, <2>6
<1>14. u.text = [p \in Text |-> ShownCell(v[p])]
  <2>1. u.text = [p \in Text |-> u.text[p]]
    BY <1>11, SheetIs
  <2> QED BY <1>13, <2>1
<1> QED BY <1>11, <1>12, <1>14

-----------------------------------------------------------------------------
(* The simulation, action by action.  A step inside a call, and a step     *)
(* that touches only the rule, is a stutter of the terminal.               *)
LEMMA StutterShown ==
  ASSUME Shown' = Shown, color' = color
  PROVE  UNCHANGED Teletype!vars
BY DEF Teletype!vars

(* The step with which a call returns is the terminal typing its string.   *)
LEMMA ReturnTypes ==
  ASSUME IInv, History, pc \in {"write", "newline"}, pc' = "idle",
         Printed(vram'), color' = color, NEW nl \in BOOLEAN,
         vmx' = (IF nl THEN 0 ELSE vmx),
         vmy' = (IF nl THEN vmy + 1 ELSE vmy)
  PROVE  Teletype!Type(str, nl) /\ str \in Strings
<1>1. str \in Strings /\ Placed /\ vmy < ROWS /\ pc # "idle"
  BY DEF History, IInv, NewlineInv
<1>2. SUFFICES ASSUME NEW u, u = Teletype!Typed(Settled, str, color)
               PROVE  Teletype!Type(str, nl)
  BY <1>1
<1>3. u \in Sheet /\ u.x = vmx /\ u.y = vmy
      /\ u.text = [p \in Text |-> ShownCell(vram'[p])]
  BY <1>1, <1>2, TypedIs
<1>4. Settled = Teletype!Settle(
                  [text |-> [p \in Text |-> ShownCell(Shown.vram[p])],
                   x |-> Shown.x, y |-> Shown.y])
  BY <1>1 DEF Settled, Opening, Shown
<1>5. Shown' = [vram |-> vram', x |-> vmx', y |-> vmy']
  BY DEF Shown
<1> DEFINE after == IF nl THEN Teletype!NewLine(u) ELSE u
<1>6. /\ after.text = [p \in Text |-> ShownCell(vram'[p])]
      /\ after.x = vmx' /\ after.y = vmy'
  BY <1>3 DEF Teletype!NewLine, Sheet
<1> HIDE DEF after
<1>7. /\ [p \in Text |-> ShownCell(Shown'.vram[p])] = after.text
      /\ Shown'.x = after.x /\ Shown'.y = after.y
  BY <1>5, <1>6
<1> QED BY <1>2, <1>4, <1>7 DEF Teletype!Type, after

(* The empty page is the empty terminal.                                   *)
LEMMA InitShown == Init => Teletype!Init
<1> SUFFICES ASSUME Init PROVE Teletype!Init
  OBVIOUS
<1>1. Shown = [vram |-> EmptyPage, x |-> 0, y |-> 0] /\ color = NORMAL
  BY DEF Init, Shown
<1>2. \A p \in Text : ShownCell(EmptyPage[p]) = Teletype!Blank
  BY TextCells DEF EmptyPage, ShownCell, Teletype!Blank
<1> QED BY <1>1, <1>2, TextAssumption
        DEF Teletype!Init, Teletype!EmptyText, Teletype!Text, Text

LEMMA CallShown ==
  ASSUME NEW s \in Strings, NEW nl \in BOOLEAN, Call(s, nl)
  PROVE  UNCHANGED Teletype!vars
<1>1. Shown' = Shown /\ color' = color
  BY DEF Call, Shown
<1> QED BY <1>1, StutterShown

LEMMA InsideShown ==
  ASSUME TopScroll \/ TopDone \/ Wrap \/ WrapDone
  PROVE  UNCHANGED Teletype!vars
<1>1. Shown' = Shown /\ color' = color
  BY DEF TopScroll, TopDone, Wrap, WrapDone, Shown
<1> QED BY <1>1, StutterShown

(* printf takes effect when it writes; println only after its newline.     *)
LEMMA WriteShown ==
  ASSUME IInv, History, Write
  PROVE  [Teletype!Next]_(Teletype!vars)
<1>1. CASE line /\ pc' = "newline" /\ UNCHANGED <<str, line, locals, before>>
  <2>1. Shown' = Shown /\ color' = color
    BY <1>1 DEF Write, Shown
  <2> QED BY <2>1, StutterShown
<1>2. CASE Return
  <2>1. Kept(vram, before.vram, before.y - video_memory_ptr.y) /\ pc = "write"
    BY DEF History, Write
  <2>2. Printed(vram')
    BY <2>1, WritePrints
  <2>3. pc' = "idle" /\ color' = color /\ vmx' = vmx /\ vmy' = vmy
    BY <1>2 DEF Return, Write, position
  <2>4. Teletype!Type(str, FALSE) /\ str \in Strings
    BY <2>1, <2>2, <2>3, ReturnTypes
  <2> QED BY <2>4 DEF Teletype!Next
<1> QED BY <1>1, <1>2 DEF Write

(* println takes effect here.                                              *)
LEMMA NewlineShown ==
  ASSUME IInv, History, Newline
  PROVE  Teletype!Next
<1>1. /\ pc = "newline" /\ pc' = "idle" /\ color' = color /\ vram' = vram
      /\ vmx' = 0 % UINT8 /\ vmy' = (vmy + 1) % UINT8
  BY DEF Newline, set_cursor, Return
<1>2. Printed(vram')
  BY <1>1 DEF History
<1>3. vmx' = 0 /\ vmy' = vmy + 1
  <2>1. vmy \in Nat /\ vmy < ROWS
    BY <1>1, PageTypes DEF IInv, NewlineInv
  <2>2. 0 \in 0 .. 255 /\ vmy + 1 \in 0 .. 255
    BY <2>1, GeometryType
  <2> QED BY <1>1, <2>2, Byte
<1>4. Teletype!Type(str, TRUE) /\ str \in Strings
  BY <1>1, <1>2, <1>3, ReturnTypes
<1> QED BY <1>4 DEF Teletype!Next

LEMMA SetColorShown ==
  ASSUME NEW c \in Colors, SetColor(c)
  PROVE  Teletype!Next
<1>1. Shown' = Shown /\ color' = c
  BY DEF SetColor, screen, position, Shown
<1>2. Teletype!SetColor(c)
  BY <1>1 DEF Teletype!SetColor
<1> QED BY <1>2 DEF Teletype!Next

(* The rule is below the text.                                             *)
LEMMA DrawRuleShown ==
  ASSUME DrawRule
  PROVE  UNCHANGED Teletype!vars
<1>1. Shown.x = vmx /\ Shown.y = vmy /\ Shown.vram = vram
      /\ Shown'.x = vmx /\ Shown'.y = vmy /\ Shown'.vram = vram'
      /\ color' = color
  BY DEF DrawRule, position, Shown
<1>2. ASSUME NEW p \in Text PROVE vram'[p] = vram[p]
  <2>1. p \in Cells /\ p \in Nat /\ p < ROWS * COLS
    BY TextCells
  <2>2. Offset(0, ROWS) = ROWS * COLS /\ ROWS * COLS \in Nat
    BY GeometryType, Rows DEF Offset
  <2> QED BY <2>1, <2>2 DEF DrawRule, video_isr_print_string
<1>3. [p \in Text |-> ShownCell(Shown'.vram[p])]
        = [p \in Text |-> ShownCell(Shown.vram[p])]
  BY <1>1, <1>2
<1> QED BY <1>1, <1>3 DEF Teletype!vars

(* Every step of the console is a step or a stutter of the terminal.       *)
LEMMA NextShown ==
  IInv /\ History /\ [Next]_vars => [Teletype!Next]_(Teletype!vars)
<1> SUFFICES ASSUME IInv, History, [Next]_vars
             PROVE  [Teletype!Next]_(Teletype!vars)
  OBVIOUS
<1>1. ASSUME NEW s \in Strings, NEW nl \in BOOLEAN, Call(s, nl)
      PROVE  UNCHANGED Teletype!vars
  BY <1>1, CallShown
<1>2. CASE TopScroll \/ TopDone \/ Wrap \/ WrapDone
  BY <1>2, InsideShown
<1>3. CASE Write
  BY <1>3, WriteShown
<1>4. CASE Newline
  BY <1>4, NewlineShown
<1>5. ASSUME NEW c \in Colors, SetColor(c) PROVE Teletype!Next
  BY <1>5, SetColorShown
<1>6. CASE DrawRule
  BY <1>6, DrawRuleShown
<1>7. CASE UNCHANGED vars
  <2>1. Shown' = Shown /\ color' = color
    BY <1>7 DEF vars, Shown
  <2> QED BY <2>1, StutterShown
<1> QED BY <1>1, <1>2, <1>3, <1>4, <1>5, <1>6, <1>7 DEF Next, Running

(* The console implements the teletype, for every page geometry and every  *)
(* set of strings short enough: printf and println, which scroll in two    *)
(* loops before they write, leave on the screen what typing the text       *)
(* character by character leaves there.                                    *)
THEOREM ConsoleIsTeletype == Spec => ImplementsTerminal
<1>1. Init => Teletype!Init
  BY InitShown
<1>2. IInv /\ History /\ [Next]_vars => [Teletype!Next]_(Teletype!vars)
  BY NextShown
<1>3. Spec => [](IInv /\ History)
  BY HistoryInvariant
<1> QED BY <1>1, <1>2, <1>3, PTL DEF Spec, ImplementsTerminal, Teletype!Spec
=============================================================================
