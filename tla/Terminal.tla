------------------------------ MODULE Terminal ------------------------------
(***************************************************************************)
(* What the console promises its callers: a teletype.  Characters appear   *)
(* one after the other at the cursor; a full row moves the cursor to the   *)
(* next one; the page scrolls as soon as a character fills the last row,   *)
(* but only at the next print after a newline on the last row.             *)
(*                                                                         *)
(* A blank cell is one glyph whatever its attribute: the console leaves    *)
(* the attributes of the row it blanks as they happened to be.             *)
(***************************************************************************)
EXTENDS Integers, Sequences

CONSTANTS COLS, ROWS, BLANK, NORMAL, Colors, Strings

VARIABLES text, x, y, color

vars == <<text, x, y, color>>

Blank == <<BLANK, NORMAL>>
Glyph(c, attr) == IF c = BLANK THEN Blank ELSE <<c, attr>>

Text == 0 .. ROWS * COLS - 1
EmptyText == [p \in Text |-> Blank]

Scroll(t) ==
  [t EXCEPT !.y = @ - 1,
            !.text = [p \in Text |-> IF p + COLS \in Text THEN @[p + COLS]
                                     ELSE Blank]]

(* A scroll that a newline left pending.                                   *)
Settle(t) == IF t.y = ROWS THEN Scroll(t) ELSE t

Advance(t) ==
  IF t.x + 1 < COLS THEN [t EXCEPT !.x = @ + 1]
                    ELSE Settle([t EXCEPT !.x = 0, !.y = @ + 1])

PutGlyph(t, g) == Advance([t EXCEPT !.text[t.y * COLS + t.x] = g])

(* The page after each character of a text.                                *)
Typing(t, s, attr) ==
  LET page[n \in 0 .. Len(s)] ==
        IF n = 0 THEN t ELSE PutGlyph(page[n - 1], Glyph(s[n], attr))
  IN  page

Typed(t, s, attr) == Typing(t, s, attr)[Len(s)]

NewLine(t) == [t EXCEPT !.x = 0, !.y = @ + 1]

Init == text = EmptyText /\ x = 0 /\ y = 0 /\ color \in Colors

Type(s, nl) ==
  LET typed == Typed(Settle([text |-> text, x |-> x, y |-> y]), s, color)
      after == IF nl THEN NewLine(typed) ELSE typed
  IN  /\ text' = after.text
      /\ x' = after.x
      /\ y' = after.y
      /\ UNCHANGED color

SetColor(c) == color' = c /\ UNCHANGED <<text, x, y>>

Next ==
  \/ \E s \in Strings, nl \in BOOLEAN : Type(s, nl)
  \/ \E c \in Colors : SetColor(c)

Spec == Init /\ [][Next]_vars
=============================================================================
