------------------------------- MODULE Texts --------------------------------
(***************************************************************************)
(* A text between the functions that write, shrink and read it: a client    *)
(* has a text from elsewhere or lets print_string_ptr write one, may have   *)
(* it minified in place, and has the string at its beginning parsed.        *)
(***************************************************************************)
EXTENDS Minify, Strings

CONSTANTS
  Values        \* the strings that are printed

\* A string of C has no NUL in it.
ASSUME ValuesAssumption == Values \subseteq Seq(1 .. 255)

VARIABLES
  value         \* the string that was printed into the text, or NoValue

textsVars == <<minifyVars, stringVars, value>>

NoValue == <<-1>>

TextsInit ==
  /\ Init /\ StringInit
  /\ value = NoValue

\* The client has not yet begun to do anything with its text.
Fresh == stage = "idle" /\ json = 1 /\ inside = "text"

\* cJSON_PrintUnformatted of a string item, by a client that has no text.
PrintText(string) ==
  /\ Fresh /\ before = <<NUL>>
  /\ value' = string
  /\ text' = print_string_ptr(string) \o <<NUL>> /\ before' = text'
  /\ UNCHANGED <<json, into, inside, stringVars>>

MinifyText ==
  /\ stage = "idle" /\ cJSON_Minify
  /\ UNCHANGED <<stringVars, value>>

\* The characters in front of the first NUL.
CString(block) == SubSeq(block, 1, SelectInSeq(block, LAMBDA c : c = NUL) - 1)

\* cJSON_Parse takes the NUL for a part of the buffer, cJSON_ParseWithLength
\* may be given a buffer without one.
ParseText ==
  /\ Fresh \/ inside = "done"
  /\ \/ ParseString(CString(text) \o <<NUL>>)
     \/ CString(text) # << >> /\ ParseString(CString(text))
  /\ UNCHANGED <<minifyVars, value>>

ReadText == parse_string /\ UNCHANGED <<minifyVars, value>>

TextsNext ==
  \/ \E string \in Values : PrintText(string)
  \/ MinifyText
  \/ ParseText
  \/ ReadText

\* A call that has begun runs to its end: nothing in it waits for anybody.
MinifyOn == ~Fresh /\ MinifyText

TextsSpec ==
  /\ TextsInit /\ [][TextsNext]_textsVars
  /\ WF_textsVars(MinifyOn) /\ WF_textsVars(ReadText)

-----------------------------------------------------------------------------
\* Memory permitting, a string that is printed, and minified or not, is parsed
\* again as the same string, and what is printed has no control characters
\* (print_string_ptr against parse_string and minify_string).
PrintedComesBack ==
  value # NoValue =>
    /\ \A k \in DOMAIN CString(before) : before[k] > 31
    /\ stage = "done" => output = Append(value, NUL)
    /\ stage = "failed" => starved
=============================================================================
