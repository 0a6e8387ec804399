-------------------------------- MODULE Shell --------------------------------
(***************************************************************************)
(* The command shell (Sources/Application/CMD.c): the line buffer that     *)
(* have_key, back_space and enter edit, and the dispatch of cmd_calculate, *)
(* cmd_code_check and code over that buffer.                               *)
(*                                                                         *)
(* A key is one action.  The words of the commands are parameters: the     *)
(* dispatch only compares them.  line is the text as the user sees it.     *)
(***************************************************************************)
EXTENDS Integers, Sequences

CONSTANTS
  SIZE,       \* command[] has indices 0 .. SIZE - 1 (127)
  MaxLine,    \* bound: keys in a line (have_key has no check against SIZE)
  Keys,       \* characters that can be typed
  SPACE, NUL, \* 0x20 and 0x00
  ZERO, EX,   \* '0' and the letters of a "0x" prefix
  HexDigits,  \* what char_to_hex accepts
  Help,       \* {"help", "h"}
  Color,      \* "color"
  Hash,       \* "hash"
  Algorithms, \* {"sha256"}
  Pr,         \* "pr"
  Keyword,    \* "time" and "ver", each with the set of its parameters
  NORMAL      \* the colour at the start, 0x07

CommandWords == Help \cup {Color, Hash, Pr} \cup DOMAIN Keyword
ArgumentWords == Algorithms \cup UNION {Keyword[w] : w \in DOMAIN Keyword}

ASSUME BufferAssumption ==
  /\ SIZE \in Nat /\ MaxLine \in Nat /\ MaxLine < SIZE
  /\ SPACE \in Keys /\ NUL \notin Keys
  /\ EX \cup HexDigits \cup {ZERO} \subseteq Keys \ {SPACE}

(* Words have no blanks, and no comparison of the dispatch reads behind    *)
(* the buffer.                                                             *)
ASSUME WordsAssumption ==
  /\ \A w \in CommandWords \cup ArgumentWords :
       w \in Seq(Keys \ {SPACE}) /\ Len(w) > 0
  /\ \A w \in CommandWords :
       /\ MaxLine + Len(w) + 5 < SIZE
       /\ \A a \in ArgumentWords : MaxLine + Len(w) + Len(a) + 4 < SIZE

VARIABLES
  command,       \* the buffer; the first key of a line goes to index 1
  cmd_char_num,  \* 17 (the prompt) plus the keys in the line
  color,
  line           \* history: the line as typed

vars == <<command, cmd_char_num, color, line>>

PROMPT == 17

-----------------------------------------------------------------------------
(* The dispatch, over any contents b of the buffer.                        *)
Blanks == {NUL, SPACE}

(* cmd_calculate: the first character that is no blank, if there is one.   *)
NonBlank(b) == {i \in 0 .. SIZE - 1 : b[i] \notin Blanks}
cmd_calculate(b) == CHOOSE i \in NonBlank(b) : \A j \in NonBlank(b) : i <= j

(* The word s stands at base, up to a blank.                               *)
cmd_code_check(b, base, s) ==
  /\ \A i \in 1 .. Len(s) : b[base + i - 1] = s[i]
  /\ b[base + Len(s)] \in Blanks

(* The string at base, as printf and sha256 read it: up to the first NUL.  *)
StringAt(b, base) ==
  LET ends == {i \in base .. SIZE - 1 : b[i] = NUL}
      end == CHOOSE i \in ends : \A j \in ends : i <= j
  IN  [i \in 1 .. end - base |-> b[base + i - 1]]

SetColor(b, base) ==
  LET at == IF b[base] = ZERO /\ b[base + 1] \in EX THEN base + 2 ELSE base
  IN  IF b[at] \in HexDigits /\ b[at + 1] \in HexDigits
      THEN <<"color", <<b[at], b[at + 1]>>>>
      ELSE <<"color error">>

KeywordArgument(b, base, w) ==
  LET found == {a \in Keyword[w] : cmd_code_check(b, base, a)}
  IN  IF found = {} THEN <<"parameter error", w>> ELSE <<"keyword", w, found>>

HashOf(b, base) ==
  LET found == {a \in Algorithms : cmd_code_check(b, base, a)}
      alg == CHOOSE a \in found : TRUE
  IN  IF found = {} THEN <<"unknown algorithm">>
      ELSE <<"hash", StringAt(b, base + Len(alg) + 1)>>

PrintString(b, base) ==
  IF b[base + Len(Pr)] = NUL \/ b[base + Len(Pr) + 1] = NUL
  THEN <<"press string">>
  ELSE <<"pr", StringAt(b, base + Len(Pr) + 1)>>

(* code: the commands in the order they are tried.                         *)
code(b, base) ==
  LET Is(w) == cmd_code_check(b, base, w)
      Arg(w) == base + Len(w) + 1
      keywords == {w \in DOMAIN Keyword : Is(w)}
      keyword == CHOOSE w \in keywords : TRUE
  IN  IF \E w \in Help : Is(w) THEN <<"help">>
      ELSE IF Is(Color) THEN SetColor(b, Arg(Color))
      ELSE IF Is(Hash) THEN HashOf(b, Arg(Hash))
      ELSE IF Is(Pr) THEN PrintString(b, base)
      ELSE IF keywords # {} THEN KeywordArgument(b, Arg(keyword), keyword)
      ELSE <<"no command">>

Dispatch(b) ==
  IF NonBlank(b) = {} THEN <<"blank">> ELSE code(b, cmd_calculate(b))

EmptyBuffer == [i \in 0 .. SIZE - 1 |-> NUL]

-----------------------------------------------------------------------------
Init ==
  /\ command = EmptyBuffer
  /\ cmd_char_num = PROMPT
  /\ color = NORMAL
  /\ line = << >>

(* have_key, for any other key than the two below.                         *)
Type(k) ==
  /\ Len(line) < MaxLine
  /\ cmd_char_num' = cmd_char_num + 1
  /\ command' = [command EXCEPT ![cmd_char_num + 1 - PROMPT] = k]
  /\ line' = Append(line, k)
  /\ UNCHANGED color

(* Mutants: the character stays in the buffer; no test for an empty line.  *)
back_space_KeepsChar ==
  /\ cmd_char_num > PROMPT
  /\ cmd_char_num' = cmd_char_num - 1
  /\ line' = SubSeq(line, 1, Len(line) - 1)
  /\ UNCHANGED <<command, color>>

back_space_NoTest ==
  /\ command' = [command EXCEPT ![cmd_char_num - PROMPT] = NUL]
  /\ cmd_char_num' = cmd_char_num - 1
  /\ line' = SubSeq(line, 1, Len(line) - 1)
  /\ UNCHANGED color

(* back_space does nothing on an empty line.                               *)
back_space ==
  /\ cmd_char_num > PROMPT
  /\ command' = [command EXCEPT ![cmd_char_num - PROMPT] = NUL]
  /\ cmd_char_num' = cmd_char_num - 1
  /\ line' = SubSeq(line, 1, Len(line) - 1)
  /\ UNCHANGED color

(* Mutant: the buffer is not cleared after a command.                      *)
enter_NotCleared ==
  /\ cmd_char_num' = PROMPT
  /\ line' = << >>
  /\ UNCHANGED <<command, color>>

(* enter: a blank line only resets the counts, any other is dispatched and *)
(* the buffer cleared.                                                     *)
enter ==
  /\ IF NonBlank(command) = {}
     THEN UNCHANGED <<command, color>>
     ELSE LET outcome == Dispatch(command)
          IN  /\ command' = EmptyBuffer
              /\ color' = IF outcome[1] = "color" THEN outcome[2] ELSE color
  /\ cmd_char_num' = PROMPT
  /\ line' = << >>

Next == (\E k \in Keys : Type(k)) \/ back_space \/ enter

Spec == Init /\ [][Next]_vars

-----------------------------------------------------------------------------
(* The count stays between the prompt and the longest line, and only a     *)
(* command with two hexadecimal digits sets the colour.                    *)
TypeOK ==
  /\ command \in [0 .. SIZE - 1 -> Keys \cup {NUL}]
  /\ cmd_char_num \in PROMPT .. PROMPT + MaxLine
  /\ color \in (HexDigits \X HexDigits) \cup {NORMAL}
  /\ line \in Seq(Keys)

(* The buffer holds exactly the line on the screen, however it was edited; *)
(* what blank lines entered before have left behind it is blank.           *)
BufferHoldsLine ==
  /\ cmd_char_num = PROMPT + Len(line)
  /\ \A i \in 0 .. SIZE - 1 :
       IF i \in 1 .. Len(line) THEN command[i] = line[i]
                               ELSE command[i] \in Blanks

(* An outcome up to blanks at the end of its text.                         *)
Trimmed(s) ==
  LET solid == {i \in 1 .. Len(s) : s[i] # SPACE}
      last == CHOOSE i \in solid : \A j \in solid : j <= i
  IN  IF solid = {} THEN << >> ELSE SubSeq(s, 1, last)

UpToBlanks(o) ==
  CASE o[1] = "press string" -> <<"pr", << >>>>
    [] o[1] \in {"pr", "hash"} -> <<o[1], Trimmed(o[2])>>
    [] OTHER -> o

Fresh == [i \in 0 .. SIZE - 1 |-> IF i \in 1 .. Len(line) THEN line[i] ELSE NUL]

(* What Enter would do now depends on the line typed and on nothing that   *)
(* was typed before it, up to blanks at the end of a text.                 *)
NoStaleInput == UpToBlanks(Dispatch(command)) = UpToBlanks(Dispatch(Fresh))

(* "hash [-algorithm_name] [str] --  Get a string's hash": sha256 gets the *)
(* string that was typed.                                                  *)
HashesWhatWasTyped ==
  LET typed == Dispatch(Fresh)
  IN  typed[1] = "hash" /\ typed[2] # << >> => Dispatch(command) = typed
=============================================================================
