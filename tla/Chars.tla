-------------------------------- MODULE Chars -------------------------------
(***************************************************************************)
(* The codes of the characters that the string functions of cJSON.c tell   *)
(* apart.                                                                  *)
(***************************************************************************)
NUL == 0
Newline == 10
Quote == 34
Star == 42
Slash == 47
Backslash == 92
LetterU == 117
Space == {32, 9, 13, Newline}
=============================================================================
