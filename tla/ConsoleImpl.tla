----------------------------- MODULE ConsoleImpl -----------------------------
(***************************************************************************)
(* The console implements the teletype.  A call takes effect when it       *)
(* returns: until then the mapping shows the page and the cursor as they   *)
(* were when it began.                                                     *)
(***************************************************************************)
EXTENDS Console

ShownCell(cell) ==
  IF cell.ch = BLANK THEN <<BLANK, NORMAL>> ELSE <<cell.ch, cell.attr>>

Shown == IF pc = "idle" THEN [vram |-> vram, x |-> vmx, y |-> vmy] ELSE before

Teletype == INSTANCE Terminal WITH
  text <- [p \in Text |-> ShownCell(Shown.vram[p])],
  x <- Shown.x,
  y <- Shown.y

(* printf and println, with their scrolling before the text is written,    *)
(* leave on the screen what typing the text character by character would.  *)
ImplementsTerminal == Teletype!Spec
=============================================================================
