---------------------------- MODULE MinifiedText ----------------------------
(***************************************************************************)
(* What cJSON_Minify of cJSON.c has to leave of a text: the pieces that it  *)
(* can be cut into without the white space and the comments.               *)
(***************************************************************************)
EXTENDS Texts

CONSTANTS
  Cuts          \* texts that are cut into pieces

Char == Nat \ {NUL}

IsSpace(p) == Len(p) = 1 /\ p[1] \in Space

\* A comment up to the next end of the line.
IsOneline(p) ==
  /\ Len(p) > 2 /\ p[1] = Slash /\ p[2] = Slash /\ p[Len(p)] = Newline
  /\ \A k \in 3 .. Len(p) - 1 : p[k] # Newline

\* A comment up to the next star with a slash behind it.
IsMultiline(p) ==
  /\ Len(p) > 3 /\ p[1] = Slash /\ p[2] = Star /\ p[Len(p) - 1] = Star /\ p[Len(p)] = Slash
  /\ \A k \in 3 .. Len(p) - 2 : ~ (p[k] = Star /\ p[k + 1] = Slash)

\* A string, in which every quote is escaped.  One that ends in an escaped
\* backslash is none of the pieces (cJSON.c:2901).
IsString(p) ==
  /\ Len(p) > 1 /\ p[1] = Quote /\ p[Len(p)] = Quote /\ p[Len(p) - 1] # Backslash
  /\ \A k \in 2 .. Len(p) - 1 : p[k] = Quote => p[k - 1] = Backslash

\* A character of anything else.
IsOther(p) == Len(p) = 1 /\ p[1] \notin Space \cup {Slash, Quote}

Piece ==
  {p \in Seq(Char) : IsSpace(p) \/ IsOneline(p) \/ IsMultiline(p) \/ IsString(p) \/ IsOther(p)}

ASSUME CutsAssumption == Cuts \subseteq Seq(Piece)

\* The parts put together.
Joined(parts) ==
  LET upto[n \in 0 .. Len(parts)] == IF n = 0 THEN << >> ELSE upto[n - 1] \o parts[n]
  IN  upto[Len(parts)]

\* What is left of a piece: nothing of white space and comments.
Left(p) == IF p[1] \in Space \cup {Slash} THEN << >> ELSE p

\* The texts, and each with what has to be left of it.
CutTexts == {Joined(parts) : parts \in Cuts}
Minified == {<<Joined(parts), Joined([n \in DOMAIN parts |-> Left(parts[n])])>> : parts \in Cuts}

-----------------------------------------------------------------------------
\* What minifying leaves is the text without white space and comments, whatever
\* looks like either inside of strings (cJSON.c:2860-2955).
MinifyKeeps ==
  inside = "done" /\ CString(before) \in CutTexts =>
    <<CString(before), CString(text)>> \in Minified
=============================================================================
