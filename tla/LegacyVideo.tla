---------------------------- MODULE LegacyVideo ----------------------------
(***************************************************************************)
(* The screen of the legacy kernel: the services of interrupt 0x30         *)
(* (_VIDEO) and the clock (_RTC), both in Sources/Boot/16T32.asm, under    *)
(* the calls of type and set_color (Include/stdio.h) and of back_space     *)
(* (Sources/Application/CMD.c).                                            *)
(*                                                                         *)
(* A call is a program: it loads registers, then the number of a service   *)
(* into ah, then executes int 0x30.  The gates are interrupt gates, so a   *)
(* service is one step, and so is the clock; but the clock may come        *)
(* between any two instructions, it prints through a service itself, and   *)
(* it saves no register of the program but ds.                             *)
(***************************************************************************)
EXTENDS Integers, Sequences, SequencesExt

CONSTANTS
  COLS,        \* of a row (80)
  TEXT_ROWS,   \* that a scroll moves (23); a row and the clock's row follow
  CLOCK_COL,   \* where the clock begins (60)
  CLOCK_LEN,   \* its characters (19)
  Characters, Colors,
  Times,       \* what the clock may read; one glyph stands for the text of it
  MaxCalls     \* bound: calls

NUL == 0
SPACE == 32
CLOCK_COLOR == 7
EOI == 32                       \* what the clock leaves in al

ASSUME ScreenAssumption ==
  /\ COLS \in Nat \ {0} /\ TEXT_ROWS \in Nat \ {0}
  /\ CLOCK_COL \in Nat /\ CLOCK_LEN \in Nat
  /\ CLOCK_COL + CLOCK_LEN <= COLS
  /\ TEXT_ROWS + 2 <= \hB8000   \* no row has the number of an address
ASSUME CharactersAssumption ==
  /\ Characters \subseteq 33 .. 126 /\ Colors \subseteq 0 .. 255
  /\ Times \subseteq 0 .. 9

ROWS == TEXT_ROWS + 2
TextEnd == TEXT_ROWS * COLS
Cells == 0 .. ROWS * COLS - 1
ClockCells == {(ROWS - 1) * COLS + CLOCK_COL + i : i \in 0 .. CLOCK_LEN - 1}
Address(cell) == \hB8000 + 2 * cell

VARIABLES
  vram,             \* the cells: <<character, colour>>
  cursor,           \* the cell that the word at 0x2008 points to
  crt,              \* the cell where the controller shows the cursor
  ah, al, ecx, edi, \* registers of the program
  rest,             \* instructions of the call under way
  ready,            \* history: registers loaded for the next service
  color,
  line, start,      \* history: the cells typed, and where the first one went
  time,             \* history: the time read last
  exact,            \* history: no tick came while a register was loaded
  struck,           \* history: a tick took away the number or the row
  lost,             \* a service has run over the memory
  calls             \* bounded by MaxCalls

screen == <<vram, cursor, crt>>
regs == <<ah, al, ecx, edi>>
past == <<line, start, time, exact, struck>>
videoVars == <<screen, regs, rest, ready, color, past, lost, calls>>

Blank == <<SPACE, CLOCK_COLOR>>

VideoInit ==
  /\ vram = [c \in Cells |-> Blank]
  /\ cursor \in 0 .. TextEnd - 1 /\ crt = cursor
  /\ ah = 0 /\ al = 0 /\ ecx = 0 /\ edi = 0
  /\ rest = << >> /\ ready = {}
  /\ color = CLOCK_COLOR
  /\ line = << >> /\ start = cursor
  /\ time = -1 /\ exact = TRUE /\ struck = FALSE
  /\ lost = FALSE /\ calls = 0

-----------------------------------------------------------------------------
(* The services.                                                           *)
set_color ==
  /\ vram' = [c \in Cells |-> <<vram[c][1], al>>]
  /\ ecx' = 0
  /\ UNCHANGED <<cursor, crt, al, edi, lost>>

(* Mutant: the cell is blanked where the cursor stands.                    *)
clean_char_Behind ==
  /\ cursor' = cursor - 1
  /\ vram' = [vram EXCEPT ![cursor] = <<SPACE, al>>]
  /\ edi' = Address(cursor - 1) + 1
  /\ UNCHANGED <<crt, al, ecx, lost>>

clean_char ==
  /\ cursor' = cursor - 1
  /\ vram' = [vram EXCEPT ![cursor - 1] = <<SPACE, al>>]
  /\ edi' = Address(cursor - 1) + 1
  /\ UNCHANGED <<crt, al, ecx, lost>>

(* The last text row stays and is doubled above itself.  The upper half of *)
(* ecx, which counts with the lower, is 0 in every program modelled.       *)
scrolling ==
  /\ vram' = [c \in Cells |->
                IF c < TextEnd - COLS THEN vram[c + COLS] ELSE vram[c]]
  /\ cursor' = cursor - COLS
  /\ ecx' = 0 /\ edi' = Address(cursor - COLS)
  /\ UNCHANGED <<crt, al, lost>>

(* A row that is none of the screen's is somewhere in the memory.          *)
clean_line ==
  /\ IF edi < ROWS
     THEN /\ vram' = [c \in Cells |->
                        IF c \in edi * COLS .. (edi + 1) * COLS - 1
                        THEN <<NUL, al>> ELSE vram[c]]
          /\ edi' = Address((edi + 1) * COLS)
          /\ UNCHANGED lost
     ELSE lost' = TRUE /\ UNCHANGED <<vram, edi>>
  /\ ecx' = 0
  /\ UNCHANGED <<cursor, crt, al>>

set_cursor ==
  /\ crt' = cursor
  /\ al' = cursor % 256 /\ edi' = Address(cursor)
  /\ UNCHANGED <<vram, cursor, ecx, lost>>

one_char ==
  /\ vram' = [vram EXCEPT ![cursor] = <<ecx, al>>]
  /\ cursor' = cursor + 1
  /\ edi' = Address(cursor + 1)
  /\ UNCHANGED <<crt, al, ecx, lost>>

(* No program asks for this service, but the clock leaves its number, 0,   *)
(* in ah and a length of 0 in ecx: the loop makes 2^32 rounds.             *)
printf == ecx = 0 /\ lost' = TRUE /\ UNCHANGED <<screen, al, ecx, edi>>

(* _VIDEO tries the numbers in turn and falls through to set_color.        *)
VIDEO ==
  CASE ah = 0 -> printf
    [] ah = 1 -> one_char
    [] ah = 2 -> scrolling
    [] ah = 3 -> clean_char
    [] ah = 4 -> clean_line
    [] ah = 128 -> set_cursor
    [] OTHER -> set_color

-----------------------------------------------------------------------------
(* The programs.                                                           *)
Load(r, value) == <<r, value>>
INT == <<"int", 0>>
Service(n) == <<Load("ah", n), INT>>
MOVE_CURSOR == Service(128)

(* The compiler chooses the order in which operands are loaded.            *)
type(s) ==
  {operands \o Service(1) \o MOVE_CURSOR :
     operands \in SetToSeqs({Load("ecx", s), Load("al", color)})}
back_space == <<Load("al", color)>> \o Service(3) \o MOVE_CURSOR

(* What a program does at the end of the text, that is not in the          *)
(* repository: the scroll of the legacy library.                           *)
test_scolling ==
  Service(2)
    \o <<Load("al", color), Load("edi", TEXT_ROWS - 1)>> \o Service(4)
    \o MOVE_CURSOR

Begin(program) ==
  /\ rest = << >> /\ calls < MaxCalls
  /\ rest' = program /\ calls' = calls + 1
  /\ UNCHANGED <<screen, regs, ready, time, exact, struck, lost>>

Type ==
  /\ cursor < TextEnd
  /\ \E s \in Characters :
       /\ \E program \in type(s) : Begin(program)
       /\ line' = Append(line, <<s, color>>)
  /\ UNCHANGED <<color, start>>

(* The shell has a test for an empty line (Shell); the text that has       *)
(* scrolled away is out of reach of both.                                  *)
Erase ==
  /\ line # << >> /\ cursor > 0
  /\ Begin(back_space)
  /\ line' = Front(line)
  /\ UNCHANGED <<color, start>>

SetColor ==
  \E attribute \in Colors :
    /\ Begin(<<Load("al", attribute)>> \o Service(5))
    /\ color' = attribute
    /\ line' = [i \in DOMAIN line |-> <<line[i][1], attribute>>]
    /\ UNCHANGED start

Scroll ==
  /\ cursor = TextEnd
  /\ Begin(test_scolling)
  /\ start' = start - COLS
  /\ UNCHANGED <<color, line>>

Instruction ==
  /\ rest # << >> /\ ~lost
  /\ rest' = Tail(rest)
  /\ LET r == Head(rest)[1]
         value == Head(rest)[2]
     IN  \/ /\ r = "int"
            /\ VIDEO
            /\ ready' = {} /\ UNCHANGED ah
         \/ /\ r # "int"
            /\ ah' = IF r = "ah" THEN value ELSE ah
            /\ al' = IF r = "al" THEN value ELSE al
            /\ ecx' = IF r = "ecx" THEN value ELSE ecx
            /\ edi' = IF r = "edi" THEN value ELSE edi
            /\ ready' = ready \cup {r}
            /\ UNCHANGED <<screen, lost>>
  /\ UNCHANGED <<color, past, calls>>

(* _RTC, when the controller has something to tell: it prints the time and *)
(* puts the word at 0x2008 back.  Mutant: it does not.                     *)
read_time_NotPutBack(t) ==
  /\ vram' = [c \in Cells |->
                IF c \in ClockCells THEN <<48 + t, CLOCK_COLOR>> ELSE vram[c]]
  /\ cursor' = (ROWS - 1) * COLS + CLOCK_COL + CLOCK_LEN
  /\ ah' = 0 /\ al' = EOI /\ ecx' = 0 /\ edi' = Address(cursor)
  /\ UNCHANGED crt

read_time(t) ==
  /\ vram' = [c \in Cells |->
                IF c \in ClockCells THEN <<48 + t, CLOCK_COLOR>> ELSE vram[c]]
  /\ ah' = 0 /\ al' = EOI /\ ecx' = 0 /\ edi' = Address(cursor)
  /\ UNCHANGED <<cursor, crt>>

(* ... and when it has not.                                                *)
rtc_exit == al' = EOI /\ UNCHANGED <<screen, ah, ecx, edi>>

RTC ==
  /\ ~lost
  /\ \/ \E t \in Times :
          /\ read_time(t)
          /\ time' = t
          /\ struck' = (struck \/ ready \cap {"ah", "edi"} # {})
     \/ /\ rtc_exit
        /\ UNCHANGED <<time, struck>>
  /\ exact' = (exact /\ ready = {})
  /\ UNCHANGED <<rest, ready, color, line, start, lost, calls>>

VideoNext == Type \/ Erase \/ SetColor \/ Scroll \/ Instruction \/ RTC

VideoSpec == VideoInit /\ [][VideoNext]_videoVars

-----------------------------------------------------------------------------
(* A tick that finds no register loaded for a service does no harm, even   *)
(* in the middle of a call: the line stands on the screen as typed, in the *)
(* colours meant, with nothing behind it and the cursor after it, and the  *)
(* rows below the text hold the time read last and nothing else.           *)
ScreenInOrder ==
  exact /\ rest = << >> =>
    /\ crt = cursor
    /\ \A i \in DOMAIN line :
         start + i > 0 => vram[start + i - 1] = line[i]
    /\ \A c \in start + Len(line) .. TextEnd - 1 : vram[c][1] \in {NUL, SPACE}
    /\ \A c \in Cells : c >= TextEnd =>
         vram[c][1] = IF c \in ClockCells /\ time # -1 THEN 48 + time ELSE SPACE

(* Of the other ticks only those run over the memory that fall between the *)
(* number of a service, or the row to be cleared, and the interrupt, and   *)
(* each of them does; after the rest the cursor still is where the line    *)
(* ends.                                                                   *)
ClockStrikes ==
  /\ struck => lost \/ ready # {}
  /\ lost => struck
  /\ ~struck /\ rest = << >> => cursor = start + Len(line) /\ crt = cursor
=============================================================================
