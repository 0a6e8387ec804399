-------------------------- MODULE LegacyKeyboard --------------------------
(***************************************************************************)
(* The keyboard of the legacy kernel (interrupt 0x21, _KEYBOARD in         *)
(* Sources/Boot/16T32.asm) and the shell that polls it (main_func and      *)
(* have_key in Sources/Application/CMD.c).                                 *)
(*                                                                         *)
(* One bit, bit 0 of KSR, stands for shift, control and caps lock alike.   *)
(* The handler hands a character over in the registers of whatever it      *)
(* interrupts: cl is the character and eax tells that there is one.  The   *)
(* shell reads eax in a loop and, when it is 1, ecx a little later; between *)
(* the two, as anywhere in the loop, the handler may run again.  The loop  *)
(* never clears eax: after a key it reads whatever have_key has left there, *)
(* which is the attribute after Enter and a counter after Backspace.       *)
(*                                                                         *)
(* The two translation tables agree with a US keyboard entry by entry and  *)
(* are abstracted to classes of keys.  A user with a keyboard is the       *)
(* environment: keys go down, repeat and come up.                          *)
(***************************************************************************)
EXTENDS Integers, Sequences

PROMPT == 17    \* the length of PressCommand
ROOM == 126     \* the last place of command[]

CONSTANTS
  TwoForms,    \* keys in both tables: letters, digits, signs
  OneForm,     \* Space and Backspace, which only _shift_false knows
  Backspace,
  Enter,       \* in both tables, with one code
  Shifts,      \* left shift and left control: _press_shift, _release_shift
  CapsLock,
  Others,      \* keys in neither table, right shift among them
  TextColors,  \* the attributes a command may set, 0 .. 255 in the code
  Columns,     \* the columns of the screen, 80
  UINT,        \* 2^32, where line_char_num wraps
  MaxEvents    \* bound: key events

CharKeys == TwoForms \cup OneForm \cup {Enter}
Keys == CharKeys \cup Shifts \cup {CapsLock} \cup Others

ASSUME KeysAssumption ==
  /\ TwoForms \cap OneForm = {}
  /\ Backspace \in OneForm
  /\ Enter \notin TwoForms \cup OneForm
  /\ CharKeys \cap (Shifts \cup {CapsLock} \cup Others) = {}
  /\ Shifts \cap Others = {}
  /\ CapsLock \notin Shifts \cup Others

ASSUME ColumnsAssumption ==
  Columns \in Nat /\ UINT \in Nat /\ PROMPT < Columns /\ Columns < UINT
ASSUME TextColorsAssumption == TextColors \subseteq Nat
ASSUME MaxEventsAssumption == MaxEvents \in Nat

(* What cl can hold: characters, scan codes left by the modifiers, and the *)
(* length of PressCommand, which printf has left there.                    *)
Lower(k) == [key |-> k, form |-> "lower"]
Upper(k) == [key |-> k, form |-> "upper"]
Make(k) == [key |-> k, form |-> "make"]
Break(k) == [key |-> k, form |-> "break"]
Printed == [key |-> Enter, form |-> "printed"]
Bytes == [key : Keys, form : {"lower", "upper", "make", "break", "printed"}]

VARIABLES
  KSR,         \* bit 0 of KSR
  eax, cl,     \* the registers of the shell while it polls
  key_status,  \* 1: the loop has seen a key that have_key is yet to read
  cmd_char_num,   \* the prompt and the characters of the line
  line_char_num,  \* the column, as the shell counts it
  text_color,     \* color of CMD.c
  down,        \* user: the keys held down
  caps,        \* user: caps lock, as it would be on a keyboard of its own
  typed,       \* history: the characters the user meant, in order
  handled,     \* history: the keys have_key acted on, in order
  wrapped,     \* history: this line has reached the last column
  excused,     \* history: Enters in color 1, Backspaces in a wrapped line
  benign,      \* history: every event so far was Benign, and none excused
  events       \* bounded by MaxEvents

driver == <<KSR, eax, cl>>
shell == <<cmd_char_num, line_char_num, text_color, wrapped, excused>>
user == <<down, caps, typed, events>>
keyboardVars == <<driver, key_status, shell, user, handled, benign>>

(* main_func has printed its prompt: eax is still the attribute.           *)
KeyboardInit ==
  /\ KSR = 0
  /\ text_color = 7 /\ eax = 7 /\ cl = Printed /\ key_status = 0
  /\ cmd_char_num = PROMPT /\ line_char_num = PROMPT
  /\ wrapped = FALSE /\ excused = 0
  /\ down = {} /\ caps = FALSE
  /\ typed = << >> /\ handled = << >>
  /\ benign = TRUE /\ events = 0

-----------------------------------------------------------------------------
(* The ways out of _convert: back to _KEYBOARD with a character, to        *)
(* _force_ret with the bit changed, and, at the end of both tables, to     *)
(* _force_ret for any other code.                                          *)
Character(c) == cl' = c /\ eax' = 1 /\ UNCHANGED KSR
SetBit(bit, code) == KSR' = bit /\ cl' = code /\ eax' = 0

(* Mutant: an unknown code returns the ordinary way.                       *)
force_ret_AsKey == eax' = 1 /\ UNCHANGED <<KSR, cl>>

force_ret == eax' = 0 /\ UNCHANGED <<KSR, cl>>

(* Mutants: Enter, caps lock or the releases are missing from the table.   *)
shift_ture_NoEnter(code) ==
  LET character == code.form = "make" /\ code.key \in TwoForms
      clear == \/ code.form = "break" /\ code.key \in Shifts
               \/ code.form = "make" /\ code.key = CapsLock
  IN  \/ character /\ Character(Upper(code.key))
      \/ clear /\ SetBit(0, code)
      \/ ~character /\ ~clear /\ force_ret

shift_ture_NoCaps(code) ==
  LET k == code.key
      character == code.form = "make" /\ k \in TwoForms \cup {Enter}
      clear == code.form = "break" /\ k \in Shifts
  IN  \/ character /\ Character(IF k = Enter THEN Lower(k) ELSE Upper(k))
      \/ clear /\ SetBit(0, code)
      \/ ~character /\ ~clear /\ force_ret

shift_ture_NoRelease(code) ==
  LET k == code.key
      character == code.form = "make" /\ k \in TwoForms \cup {Enter}
      clear == code.form = "make" /\ k = CapsLock
  IN  \/ character /\ Character(IF k = Enter THEN Lower(k) ELSE Upper(k))
      \/ clear /\ SetBit(0, code)
      \/ ~character /\ ~clear /\ force_ret

shift_ture(code) ==
  LET k == code.key
      character == code.form = "make" /\ k \in TwoForms \cup {Enter}
      clear == \/ code.form = "break" /\ k \in Shifts
               \/ code.form = "make" /\ k = CapsLock
  IN  \/ character /\ Character(IF k = Enter THEN Lower(k) ELSE Upper(k))
      \/ clear /\ SetBit(0, code)
      \/ ~character /\ ~clear /\ force_ret

shift_false(code) ==
  LET k == code.key
      character == code.form = "make" /\ k \in CharKeys
      set == code.form = "make" /\ k \in Shifts \cup {CapsLock}
  IN  \/ character /\ Character(Lower(k))
      \/ set /\ SetBit(1, code)
      \/ ~character /\ ~set /\ force_ret

convert(code) == IF KSR = 1 THEN shift_ture(code) ELSE shift_false(code)

-----------------------------------------------------------------------------
(* A character is on its way to have_key.                                  *)
Unread == eax = 1 \/ key_status = 1

HeldShifts == down \cap Shifts

(* What the user means by a key.                                           *)
Meant(k) ==
  IF k \in TwoForms /\ (HeldShifts # {} \/ caps) THEN Upper(k) ELSE Lower(k)

(* One modifier at a time, and none held until it repeats caps lock.       *)
OneAtATime(k) ==
  /\ k \in Shifts => HeldShifts \subseteq {k} /\ ~caps
  /\ k = CapsLock => HeldShifts = {} /\ k \notin down

(* The event finds the last character read, keeps to one modifier, and     *)
(* asks nothing of a modified Space or Backspace.                          *)
Benign(k) ==
  /\ ~Unread
  /\ OneAtATime(k)
  /\ k \in OneForm => HeldShifts = {} /\ ~caps

(* A key goes down, or repeats while it is down.                           *)
Press(k) ==
  /\ events < MaxEvents /\ events' = events + 1
  /\ convert(Make(k))
  /\ down' = down \cup {k}
  /\ caps' = IF k = CapsLock /\ k \notin down THEN ~caps ELSE caps
  /\ typed' = IF k \in CharKeys THEN Append(typed, Meant(k)) ELSE typed
  /\ benign' = (benign /\ Benign(k))
  /\ UNCHANGED <<key_status, shell, handled>>

Release(k) ==
  /\ k \in down
  /\ events < MaxEvents /\ events' = events + 1
  /\ convert(Break(k))
  /\ down' = down \ {k}
  /\ benign' = (benign /\ ~Unread)
  /\ UNCHANGED <<key_status, shell, caps, typed, handled>>

(* One round of main_func's loop.                                          *)
Poll ==
  /\ key_status # 1
  /\ key_status' = eax
  /\ UNCHANGED <<driver, shell, user, handled, benign>>

(* uint32_t arithmetic.                                                    *)
More(n) == IF n = UINT - 1 THEN 0 ELSE n + 1
Less(n) == IF n = 0 THEN UINT - 1 ELSE n - 1

(* have_key takes the key from ecx and acts upon it, in one of three ways. *)
Take ==
  /\ key_status = 1
  /\ handled' = Append(handled, cl)
  /\ key_status' = 0
  /\ UNCHANGED <<KSR, user>>

(* enter: the command may be one that sets the attribute.  The last thing  *)
(* printed is PressCommand, which leaves the attribute in eax.             *)
enter ==
  /\ cl = Lower(Enter)
  /\ text_color' \in TextColors \cup {text_color}
  /\ eax' = text_color' /\ cl' = Printed
  /\ cmd_char_num' = PROMPT /\ line_char_num' = PROMPT /\ wrapped' = FALSE
  /\ excused' = IF text_color' = 1 THEN excused + 1 ELSE excused
  /\ benign' = (benign /\ text_color' # 1)

(* back_space: eax is the counter that was tested or assigned last.        *)
nothing_to_erase ==
  /\ cl = Lower(Backspace) /\ cmd_char_num <= PROMPT
  /\ eax' = cmd_char_num
  /\ UNCHANGED <<cl, shell, benign>>

erase ==
  /\ cl = Lower(Backspace) /\ cmd_char_num > PROMPT
  /\ cmd_char_num' = cmd_char_num - 1
  /\ line_char_num' = IF line_char_num = 1 THEN Columns - 1
                      ELSE Less(line_char_num)
  /\ eax' = line_char_num'
  /\ excused' = IF wrapped THEN excused + 1 ELSE excused
  /\ benign' = (benign /\ ~wrapped)
  /\ UNCHANGED <<cl, text_color, wrapped>>

(* Any other byte is typed and stored, and is left in eax; none is 1.      *)
CODE == 32

character ==
  /\ cl \notin {Lower(Enter), Lower(Backspace)}
  /\ cmd_char_num - PROMPT < ROOM
  /\ cmd_char_num' = cmd_char_num + 1
  /\ LET column == More(line_char_num) IN
       /\ line_char_num' = IF column >= Columns THEN 0 ELSE column
       /\ wrapped' = (wrapped \/ column >= Columns)
  /\ eax' = CODE
  /\ UNCHANGED <<cl, text_color, excused, benign>>

have_key == Take /\ (enter \/ nothing_to_erase \/ erase \/ character)

KeyboardNext ==
  \/ \E k \in Keys : Press(k)
  \/ \E k \in Keys : Release(k)
  \/ Poll
  \/ have_key

KeyboardSpec == KeyboardInit /\ [][KeyboardNext]_keyboardVars

-----------------------------------------------------------------------------
(* Registers, bit, counts and histories have their types.                 *)
KeyboardTypeOK ==
  /\ KSR \in {0, 1} /\ eax \in Nat /\ cl \in Bytes /\ key_status \in Nat
  /\ cmd_char_num \in PROMPT .. PROMPT + ROOM
  /\ line_char_num \in 0 .. UINT - 1
  /\ text_color \in TextColors \cup {7}
  /\ down \subseteq Keys /\ caps \in BOOLEAN
  /\ typed \in Seq(Bytes) /\ handled \in Seq(Bytes)
  /\ wrapped \in BOOLEAN /\ excused \in Nat
  /\ benign \in BOOLEAN /\ events \in 0 .. MaxEvents

(* However keys and polls interleave, have_key acts on no more keys than   *)
(* were pressed, but for one more after each Enter in color 1 and each     *)
(* Backspace in a line that has reached the last column: only these can    *)
(* leave 1 in eax, where the loop takes it for a key.                      *)
NeverTwice ==
  Len(handled) + (IF Unread THEN 1 ELSE 0) <= Len(typed) + excused

(* As long as no event overtakes a character, modifiers keep apart, the    *)
(* color is not 1 and nothing is erased in a line that has reached the     *)
(* last column, the shell acts on exactly what the user meant, in order    *)
(* and in the right case; a character that is still on its way is in cl.   *)
Delivered ==
  benign => typed = IF Unread THEN Append(handled, cl) ELSE handled

(* KSR says what shift, control and caps lock say.                         *)
InStep == KSR = 1 <=> HeldShifts # {} \/ caps

(* Whatever happened before, an event that keeps to one modifier leaves    *)
(* KSR in step with the keyboard when it finds it so.                      *)
StaysInStep ==
  [][InStep /\ (\E k \in Keys : OneAtATime(k) /\ (Press(k) \/ Release(k)))
       => InStep']_keyboardVars

(* And the last shift to come up brings it back in step, however it was    *)
(* lost, unless caps lock is on.                                           *)
ShiftResynchronises ==
  [][HeldShifts # {} /\ HeldShifts' = {} /\ ~caps => InStep']_keyboardVars
=============================================================================
