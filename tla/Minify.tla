------------------------------- MODULE Minify -------------------------------
(***************************************************************************)
(* cJSON_Minify of cJSON.c: two pointers go through one block, json reads   *)
(* and into writes what is kept.  A round of a loop of the code is a step.  *)
(* The block is a sequence of character codes, the last one a NUL.          *)
(***************************************************************************)
EXTENDS Integers, Sequences, Chars

CONSTANTS
  Text          \* the blocks the client has minified

ASSUME TextAssumption ==
  \A t \in Text : t \in Seq(Nat) /\ t # << >> /\ t[Len(t)] = NUL

VARIABLES
  text,         \* the block
  json,         \* where the next character is read, from 1
  into,         \* where the next one that is kept is written
  inside,       \* the loop: "text", "string", "oneline", "multiline", or "done"
  before        \* the block as the client gave it

minifyVars == <<text, json, into, inside, before>>

Init ==
  /\ text \in Text /\ before = text
  /\ json = 1 /\ into = 1 /\ inside = "text"

Read == text[json]
ReadNext == text[json + 1]

\* n characters are read and none is kept.
Drop(n) == json' = json + n /\ UNCHANGED <<text, into, before>>

\* The character that is read is kept.
Keep ==
  /\ text' = [text EXCEPT ![into] = Read]
  /\ json' = json + 1 /\ into' = into + 1 /\ UNCHANGED before

\* Mutant: what is kept is followed by room for one more.
KeepWithGap ==
  /\ text' = [text EXCEPT ![into] = Read, ![into + 1] = ReadNext]
  /\ json' = json + 1 /\ into' = into + 2 /\ UNCHANGED before

\* The character that is read and the one behind it are kept.
KeepBoth ==
  /\ text' = [text EXCEPT ![into] = Read, ![into + 1] = ReadNext]
  /\ json' = json + 2 /\ into' = into + 2 /\ UNCHANGED before

-----------------------------------------------------------------------------
\* White space.
SkipSpace ==
  /\ inside = "text" /\ Read \in Space
  /\ Drop(1) /\ UNCHANGED inside

\* Mutant: the loop does not move on.
SkipNoSlash ==
  /\ inside = "text" /\ Read = Slash /\ ReadNext \notin {Slash, Star}
  /\ Drop(0) /\ UNCHANGED inside

\* A slash that begins no comment is dropped.
SkipSlash ==
  /\ inside = "text" /\ Read = Slash /\ ReadNext \notin {Slash, Star}
  /\ Drop(1) /\ UNCHANGED inside

EnterComment ==
  /\ inside = "text" /\ Read = Slash /\ ReadNext \in {Slash, Star}
  /\ Drop(2) /\ inside' = IF ReadNext = Slash THEN "oneline" ELSE "multiline"

skip_oneline_comment ==
  /\ inside = "oneline"
  /\ IF Read = NUL THEN Drop(0) /\ inside' = "text"
     ELSE Drop(1) /\ inside' = IF Read = Newline THEN "text" ELSE "oneline"

skip_multiline_comment ==
  /\ inside = "multiline"
  /\ IF Read = NUL THEN Drop(0) /\ inside' = "text"
     ELSE IF Read = Star /\ ReadNext = Slash THEN Drop(2) /\ inside' = "text"
     ELSE Drop(1) /\ inside' = "multiline"

EnterString ==
  /\ inside = "text" /\ Read = Quote
  /\ Keep /\ inside' = "string"

\* Mutant: no escape is seen in a string.
minify_string_plain ==
  /\ inside = "string"
  /\ IF Read = NUL THEN Drop(0) /\ inside' = "text"
     ELSE Keep /\ inside' = IF Read = Quote THEN "text" ELSE "string"

\* A string goes on behind a quote with a backslash in front of it, even if
\* that backslash is itself escaped.
minify_string ==
  /\ inside = "string"
  /\ IF Read = NUL THEN Drop(0) /\ inside' = "text"
     ELSE IF Read = Backslash /\ ReadNext = Quote THEN KeepBoth /\ inside' = "string"
     ELSE Keep /\ inside' = IF Read = Quote THEN "text" ELSE "string"

Other ==
  /\ inside = "text" /\ Read \notin Space \cup {NUL, Slash, Quote}
  /\ Keep /\ UNCHANGED inside

Terminate ==
  /\ inside = "text" /\ Read = NUL
  /\ text' = [text EXCEPT ![into] = NUL]
  /\ inside' = "done" /\ UNCHANGED <<json, into, before>>

cJSON_Minify ==
  \/ SkipSpace \/ SkipSlash \/ EnterComment
  \/ skip_oneline_comment \/ skip_multiline_comment
  \/ EnterString \/ minify_string
  \/ Other \/ Terminate

Spec == Init /\ [][cJSON_Minify]_minifyVars

-----------------------------------------------------------------------------
\* Minifying in place: nothing is overwritten before it has been read, and
\* both pointers stay in the block, whatever it holds and wherever comments
\* and strings end (cJSON.c:2860-2955, no length is ever looked at).
InPlace ==
  /\ 1 <= into /\ into <= json /\ json <= Len(before)
  /\ Len(text) = Len(before)
  /\ inside # "done" => \A k \in json .. Len(before) : text[k] = before[k]
=============================================================================
