------------------------- MODULE MCLegacyKeyboard -------------------------
(* A letter, Backspace, Enter, two shifts, caps lock and a key not in the  *)
(* tables.  The screen is two columns wider than the prompt, so that four  *)
(* keys reach the second row and come back; of the attributes, the one the *)
(* shell starts with and the one that looks like a key.                    *)
EXTENDS LegacyKeyboard

MCTwoForms == {"a"}
MCOneForm == {"backspace"}
MCShifts == {"shift", "ctrl"}
MCOthers == {"f1"}
MCTextColors == {1, 7}
=============================================================================
