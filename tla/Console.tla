------------------------------- MODULE Console -------------------------------
(***************************************************************************)
(* The kernel's text console: the library calls of Include/stdio.h         *)
(* (printf, println, test_scolling, set_cursor, asm_scolling) and the      *)
(* interrupt 0x41 service behind them (_VIDEO_ISR_CMP in init.s,           *)
(* video_isr_print_string, cursor_set and vm_scolling in interrupt.h).     *)
(*                                                                         *)
(* One step per loop iteration and per interrupt: pc is the point printf   *)
(* or println has reached.  The kernel runs with interrupts off and has    *)
(* one thread, so a call is never interleaved with another.                *)
(*                                                                         *)
(* The 80x25 text page is kept at its own geometry, as parameters: ROWS    *)
(* text rows (23 in the code), one rule row of dashes, one status row.     *)
(***************************************************************************)
EXTENDS Integers, Sequences

CONSTANTS
  COLS,     \* cells in a row (80)
  ROWS,     \* text rows above the rule (23)
  Chars,    \* characters a string may hold
  BLANK,    \* 0x20
  DASH,     \* 0x2D
  Colors,   \* attribute bytes
  NORMAL,   \* 0x07
  Strings   \* the strings callers print

UINT8 == 256                                  \* vmx and vmy are uint8_t

(* The longest string the callers may pass without vmy wrapping below 0;   *)
(* the code has no check, its longest caller is far below 22 * 80.         *)
MaxLen == (ROWS - 1) * COLS

ASSUME GeometryAssumption ==
  /\ COLS \in Nat \ {0} /\ COLS < UINT8
  /\ ROWS \in Nat \ {0} /\ ROWS < UINT8

ASSUME TextAssumption ==
  /\ BLANK \in Chars /\ DASH \in Chars /\ NORMAL \in Colors
  /\ \A s \in Strings : s \in Seq(Chars) /\ Len(s) <= MaxLen

VARIABLES
  vram,        \* the text page, one cell per 16-bit word at 0xB8000
  cursor,      \* the CRT controller's cursor position
  vmx, vmy,    \* the library's idea of the cursor
  color,       \* the global attribute
  ruled,       \* shell_init has drawn the rule
  pc,          \* where the running call is
  str,         \* its argument
  line,        \* TRUE in println, FALSE in printf
  final_vmx, test_vmy,          \* locals of test_scolling
  video_memory_ptr,             \* its result: where the text starts
  before       \* history: text page and cursor when the call began

screen == <<vram, cursor>>
position == <<vmx, vmy>>
locals == <<final_vmx, test_vmy, video_memory_ptr>>
vars == <<vram, cursor, vmx, vmy, color, ruled, pc, str, line,
          final_vmx, test_vmy, video_memory_ptr, before>>

Cells == 0 .. (ROWS + 2) * COLS - 1
Row(r) == r * COLS .. (r + 1) * COLS - 1
Text == 0 .. ROWS * COLS - 1
Cell == [ch : Chars, attr : Colors]

Offset(x, y) == y * COLS + x

-----------------------------------------------------------------------------
(* The interrupt 0x41 services.                                            *)

(* Mutant: the move loop runs over one row too many.                        *)
vm_scolling_RowTooMany(v) ==
  [p \in Cells |->
     IF p < ROWS * COLS THEN v[p + COLS]
     ELSE IF p < (ROWS + 1) * COLS THEN [v[p] EXCEPT !.ch = BLANK]
     ELSE v[p]]

(* vm_scolling: rows 1..ROWS-1 move up one; the characters of the last     *)
(* text row become blank and those of the rule row dashes, while the       *)
(* attribute bytes of both rows stay as they were.                         *)
vm_scolling(v) ==
  [p \in Cells |->
     IF p < (ROWS - 1) * COLS THEN v[p + COLS]
     ELSE IF p < ROWS * COLS THEN [v[p] EXCEPT !.ch = BLANK]
     ELSE IF p < (ROWS + 1) * COLS THEN [v[p] EXCEPT !.ch = DASH]
     ELSE v[p]]

(* video_isr_print_string: the text in consecutive cells from (x, y), in   *)
(* the caller's colour, running on into the next rows.                     *)
video_isr_print_string(v, s, x, y, c) ==
  LET base == Offset(x, y)
  IN  [p \in Cells |->
         IF p >= base /\ p < base + Len(s)
         THEN [ch |-> s[p - base + 1], attr |-> c]
         ELSE v[p]]

(* set_cursor: both the library's and the hardware's cursor move.          *)
set_cursor(x, y) ==
  /\ vmx' = x % UINT8
  /\ vmy' = y % UINT8
  /\ cursor' = Offset(x % UINT8, y % UINT8)

-----------------------------------------------------------------------------
(* No call is running: its arguments and locals are gone.                  *)
EmptyPage == [p \in Cells |-> [ch |-> BLANK, attr |-> NORMAL]]
Origin == [x |-> 0, y |-> 0]
NoCall == [vram |-> EmptyPage, x |-> 0, y |-> 0]

Init ==
  /\ vram = EmptyPage
  /\ cursor = 0
  /\ vmx = 0 /\ vmy = 0
  /\ color = NORMAL
  /\ ruled = FALSE
  /\ pc = "idle"
  /\ str = << >> /\ line = FALSE
  /\ final_vmx = 0 /\ test_vmy = 0
  /\ video_memory_ptr = Origin
  /\ before = NoCall

Return ==
  /\ pc' = "idle"
  /\ str' = << >> /\ line' = FALSE
  /\ final_vmx' = 0 /\ test_vmy' = 0
  /\ video_memory_ptr' = Origin
  /\ before' = NoCall

(* Entry of printf (nl = FALSE) or println (nl = TRUE).                    *)
Call(s, nl) ==
  /\ pc = "idle"
  /\ pc' = "top"
  /\ str' = s
  /\ line' = nl
  /\ before' = [vram |-> vram, x |-> vmx, y |-> vmy]
  /\ UNCHANGED <<screen, position, color, ruled, locals>>

(* while(vmy >= 23){ vmy--; asm_scolling(); }                              *)
TopScroll ==
  /\ pc = "top"
  /\ vmy >= ROWS
  /\ vmy' = (vmy - 1) % UINT8
  /\ vram' = vm_scolling(vram)
  /\ UNCHANGED <<cursor, vmx, color, ruled, pc, str, line, locals, before>>

(* Mutant: the pending scroll is skipped.                                  *)
TopDone_LateScroll ==
  /\ pc = "top"
  /\ vmy <= ROWS
  /\ final_vmx' = vmx + Len(str)
  /\ test_vmy' = vmy
  /\ pc' = "wrap"
  /\ UNCHANGED <<screen, position, color, ruled, str, line, video_memory_ptr,
                 before>>

TopDone ==
  /\ pc = "top"
  /\ vmy < ROWS
  /\ final_vmx' = vmx + Len(str)
  /\ test_vmy' = vmy
  /\ pc' = "wrap"
  /\ UNCHANGED <<screen, position, color, ruled, str, line, video_memory_ptr,
                 before>>

(* Mutant: the wrap scrolls one row too late.                              *)
Wrap_OffByOne ==
  /\ pc = "wrap"
  /\ final_vmx >= COLS
  /\ final_vmx' = final_vmx - COLS
  /\ IF test_vmy + 1 > ROWS
     THEN /\ vmy' = (vmy - 1) % UINT8
          /\ test_vmy' = test_vmy
          /\ vram' = vm_scolling(vram)
     ELSE /\ test_vmy' = test_vmy + 1
          /\ UNCHANGED <<vmy, vram>>
  /\ UNCHANGED <<cursor, vmx, color, ruled, pc, str, line, video_memory_ptr,
                 before>>

(* Mutant: a scrolled row is not counted off the text that is left.        *)
Wrap_NotCountedOff ==
  /\ pc = "wrap"
  /\ final_vmx >= COLS
  /\ IF test_vmy + 1 >= ROWS
     THEN /\ vram' = vm_scolling(vram)
          /\ UNCHANGED <<final_vmx, test_vmy, vmy>>
     ELSE /\ test_vmy' = test_vmy + 1
          /\ final_vmx' = final_vmx - COLS
          /\ UNCHANGED <<vmy, vram>>
  /\ UNCHANGED <<cursor, vmx, color, ruled, pc, str, line, video_memory_ptr,
                 before>>

(* One row of the second loop.  When the text would run past the last text *)
(* row the page scrolls first, and the start row moves up with it.         *)
Wrap ==
  /\ pc = "wrap"
  /\ final_vmx >= COLS
  /\ final_vmx' = final_vmx - COLS
  /\ IF test_vmy + 1 >= ROWS
     THEN /\ vmy' = (vmy - 1) % UINT8
          /\ test_vmy' = test_vmy
          /\ vram' = vm_scolling(vram)
     ELSE /\ test_vmy' = test_vmy + 1
          /\ UNCHANGED <<vmy, vram>>
  /\ UNCHANGED <<cursor, vmx, color, ruled, pc, str, line, video_memory_ptr,
                 before>>

(* Mutant: the start position is taken after the cursor has moved.         *)
WrapDone_StartReadLate ==
  /\ pc = "wrap"
  /\ final_vmx < COLS
  /\ video_memory_ptr' = [x |-> final_vmx, y |-> test_vmy]
  /\ set_cursor(final_vmx, test_vmy)
  /\ pc' = "write"
  /\ UNCHANGED <<vram, color, ruled, str, line, final_vmx, test_vmy, before>>

(* The end of test_scolling: the cursor is already set past the text that  *)
(* has yet to be written at the returned position.                         *)
WrapDone ==
  /\ pc = "wrap"
  /\ final_vmx < COLS
  /\ video_memory_ptr' = [x |-> vmx, y |-> vmy]
  /\ set_cursor(final_vmx, test_vmy)
  /\ pc' = "write"
  /\ UNCHANGED <<vram, color, ruled, str, line, final_vmx, test_vmy, before>>

Write ==
  /\ pc = "write"
  /\ vram' = video_isr_print_string(vram, str, video_memory_ptr.x,
                                    video_memory_ptr.y, color)
  /\ \/ line /\ pc' = "newline" /\ UNCHANGED <<str, line, locals, before>>
     \/ ~line /\ Return
  /\ UNCHANGED <<cursor, position, color, ruled>>

(* The tail of println: vmx = 0, vmy++ and set_cursor, with no scroll.     *)
Newline ==
  /\ pc = "newline"
  /\ set_cursor(0, vmy + 1)
  /\ Return
  /\ UNCHANGED <<vram, color, ruled>>

(* A caller assigns the global color between two calls.                    *)
SetColor(c) ==
  /\ pc = "idle"
  /\ color' = c
  /\ UNCHANGED <<screen, position, ruled, pc, str, line, locals, before>>

(* shell_init prints 80 dashes at row 23, straight through int 0x41,       *)
(* without moving the cursor.                                              *)
DrawRule ==
  /\ pc = "idle"
  /\ ~ruled
  /\ ruled' = TRUE
  /\ vram' = video_isr_print_string(vram, [i \in 1 .. COLS |-> DASH], 0, ROWS,
                                    color)
  /\ UNCHANGED <<cursor, position, color, pc, str, line, locals, before>>

Running == TopScroll \/ TopDone \/ Wrap \/ WrapDone \/ Write \/ Newline

Next ==
  \/ \E s \in Strings, nl \in BOOLEAN : Call(s, nl)
  \/ Running
  \/ \E c \in Colors : SetColor(c)
  \/ DrawRule

Spec == Init /\ [][Next]_vars

(* A call that has begun keeps running: nothing can preempt the kernel.    *)
FairSpec == Spec /\ WF_vars(Running)

-----------------------------------------------------------------------------
(* The library's cursor stays on the text rows, or one below them between   *)
(* a println and the next call: the uint8_t arithmetic of vmy never wraps. *)
TypeOK ==
  /\ vram \in [Cells -> Cell]
  /\ cursor \in 0 .. (ROWS + 1) * COLS - 1
  /\ vmx \in 0 .. COLS - 1
  /\ vmy \in 0 .. ROWS
  /\ color \in Colors
  /\ ruled \in BOOLEAN
  /\ pc \in {"idle", "top", "wrap", "write", "newline"}
  /\ str \in Strings \cup {<< >>}
  /\ line \in BOOLEAN
  /\ final_vmx \in Nat
  /\ test_vmy \in 0 .. ROWS - 1
  /\ video_memory_ptr \in [x : 0 .. COLS - 1, y : 0 .. ROWS - 1]
  /\ before \in [vram : [Cells -> Cell], x : 0 .. COLS - 1, y : 0 .. ROWS]

(* However long the text and wherever the cursor was, test_scolling has    *)
(* made room: the text about to be written ends on a text row, and the     *)
(* cursor, set before the text is there, is the cell right after it.       *)
TextFits ==
  pc = "write" =>
    LET start == Offset(video_memory_ptr.x, video_memory_ptr.y)
    IN  start + Len(str) < ROWS * COLS /\ cursor = start + Len(str)

(* Once shell_init has drawn it, the rule of dashes survives every print   *)
(* and every scroll, and nothing is ever written to the status row.        *)
FrameIntact ==
  /\ ruled => \A p \in Row(ROWS) : vram[p].ch = DASH
  /\ \A p \in Row(ROWS + 1) : vram[p] = [ch |-> BLANK, attr |-> NORMAL]

(* Every printf and println returns: both scrolling loops end.             *)
CallsReturn == pc # "idle" ~> pc = "idle"
=============================================================================
