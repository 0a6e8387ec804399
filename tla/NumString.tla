----------------------------- MODULE NumString -----------------------------
(***************************************************************************)
(* dec_digit (Include/bit.h): a number as its decimal digits, in a global  *)
(* buffer that the PCI listings print after every call.  One loop counts   *)
(* the digits, another writes them from the last to the first.             *)
(***************************************************************************)
EXTENDS Integers

CONSTANT Numbers              \* what callers pass

(* All that matters of a uint32_t is that it has at most ten digits.       *)
TenDigits(n) == n \div 1000000000 < 10

ASSUME NumbersAssumption ==
  Numbers \subseteq Nat /\ \A n \in Numbers : TenDigits(n)

SIZE == 12

VARIABLES
  doing,                      \* where the call is: "idle", "count" or "write"
  num, num1, length,
  index,                      \* i of the second loop
  num_string,
  asked                       \* history: the number of the last call

decVars == <<doing, num, num1, length, index, num_string, asked>>

DecInit ==
  /\ doing = "idle"
  /\ num = 0 /\ num1 = 0 /\ length = 0 /\ index = 0
  /\ num_string = [j \in 0 .. SIZE - 1 |-> 0]
  /\ asked = -1

(* Mutant: the buffer keeps the digits of the last call.                   *)
Blanked_Kept == num_string

Blanked == [j \in 0 .. SIZE - 1 |-> 0]

dec_digit(n) ==
  /\ doing = "idle"
  /\ num_string' = Blanked
  /\ num' = n /\ num1' = n /\ length' = 0 /\ asked' = n
  /\ doing' = "count"
  /\ UNCHANGED index

Count ==
  /\ doing = "count"
  /\ num1' = num1 \div 10
  /\ length' = length + 1
  /\ IF num1' = 0 THEN doing' = "write" /\ index' = length'
                  ELSE UNCHANGED <<doing, index>>
  /\ UNCHANGED <<num, num_string, asked>>

Write ==
  /\ doing = "write"
  /\ num_string' = [num_string EXCEPT ![index - 1] = 48 + (num % 10)]
  /\ num' = num \div 10
  /\ index' = index - 1
  /\ doing' = IF num' = 0 \/ index' = 0 THEN "idle" ELSE "write"
  /\ UNCHANGED <<num1, length, asked>>

DecNext == Count \/ Write \/ \E n \in Numbers : dec_digit(n)

DecSpec == DecInit /\ [][DecNext]_decVars

-----------------------------------------------------------------------------
(* The decimal notation of a number, by its powers of ten.                 *)
Tens == <<1, 10, 100, 1000, 10000, 100000, 1000000, 10000000, 100000000,
          1000000000>>
Quotient(n, k) == IF k < 10 THEN n \div Tens[k + 1] ELSE 0
Digit(n, k) == 48 + (Quotient(n, k) % 10)
IsLength(n, len) ==
  Quotient(n, len) = 0 /\ \A k \in 1 .. len - 1 : Quotient(n, k) # 0

(* What a call leaves is the number it was given, most significant digit   *)
(* first and without a leading zero, and NULs behind it, whatever number   *)
(* was in the buffer before.                                               *)
InDecimal ==
  doing = "idle" /\ asked # -1 =>
    \E len \in 1 .. 10 :
      /\ IsLength(asked, len)
      /\ num_string = [j \in 0 .. SIZE - 1 |->
                         IF j < len THEN Digit(asked, len - 1 - j) ELSE 0]
=============================================================================
