------------------------------ MODULE MCTexts -------------------------------
(***************************************************************************)
(* The texts TLC minifies and parses.  They are put together from pieces   *)
(* of which it is known what they stand for, from RFC 8259 and RFC 3629.   *)
(***************************************************************************)
EXTENDS MinifiedText

CONSTANTS
  MaxPieces     \* the pieces of the longest text

\* All sequences of up to k pieces, and the texts they make.
CutsUpTo(pieces, k) == UNION {[1 .. m -> pieces] : m \in 0 .. k}
UpTo(pieces, k) == {Joined(parts) : parts \in CutsUpTo(pieces, k)}

Nothing == <<-1>>

\* What a text of pieces stands for, Nothing if it is no text of these pieces.
\* A piece is a pair, and no piece is the beginning of another.
RECURSIVE Translated(_, _)
Translated(t, pieces) ==
  LET first == {p \in pieces : IsPrefix(p[1], t)}
      piece == CHOOSE p \in first : TRUE
      rest == Translated(SubSeq(t, Len(piece[1]) + 1, Len(t)), pieces)
  IN  IF t = << >> THEN << >>
      ELSE IF first = {} \/ rest = Nothing THEN Nothing
      ELSE piece[2] \o rest

Same(parts) == {<<t, t>> : t \in parts}

-----------------------------------------------------------------------------
(* Strings *)

N == 110
Hex(a, b, c, d) == <<Backslash, LetterU, a, b, c, d>>
E9 == Hex(48, 48, 101, 57)              \* 00e9
Euro == Hex(50, 48, 65, 67)             \* 20AC
Zeroes == Hex(48, 48, 48, 48)           \* 0000
High == Hex(68, 56, 51, 68)             \* D83D
Low == Hex(100, 101, 48, 48)            \* de00

\* What may be in a string, and the bytes it stands for.
Meaning ==
  Same({<<c>> : c \in 32 .. 255 \ {Quote, Backslash}})
  \cup {<< <<Backslash, N>>, <<Newline>> >>, << <<Backslash, Quote>>, <<Quote>> >>,
        << <<Backslash, Backslash>>, <<Backslash>> >>, << <<Backslash, Slash>>, <<Slash>> >>,
        <<Zeroes, <<0>> >>, <<Hex(48, 48, 49, 102), <<31>> >>, <<E9, <<195, 169>> >>,
        <<Euro, <<226, 130, 172>> >>, <<High \o Low, <<240, 159, 152, 128>> >>}

\* Pieces of strings, among them half of a surrogate pair, one of two first
\* halves, escapes that are cut off, and what is no escape.
StringPieces ==
  {<<N>>, <<Quote>>, <<Backslash>>, <<Backslash, N>>, <<Backslash, Quote>>,
   <<Backslash, Backslash>>, <<Backslash, 120>>, Zeroes, E9, Euro, High, Low,
   <<Backslash, LetterU, 49>>, Hex(48, 48, 48, Backslash), Hex(48, Quote, 48, 48)}

\* An escape u with less than four digits, which parse_hex4 takes for \u0000.
Careless ==
  \E k \in 1 .. input_end - 6 :
    /\ input[k] = Backslash /\ input[k + 1] = LetterU
    /\ \E d \in k + 2 .. k + 5 : HexDigit(input[d]) < 0

\* What is between the quotes is decoded as RFC 8259 says, surrogate pairs to
\* one code point, and memory permitting only what is no string is refused.
\* Escapes u without four digits are kept apart (parse_string and below).
StringsDecode ==
  /\ stage = "done" =>
       Careless \/ output = Append(Translated(SubSeq(input, 2, input_end - 1), Meaning), NUL)
  /\ stage = "failed" /\ ~starved =>
       ~ (/\ input[1] = Quote
          /\ \E e \in 2 .. Len(input) :
               input[e] = Quote /\ Translated(SubSeq(input, 2, e - 1), Meaning) # Nothing)

\* The strings TLC prints.
MCValues == UpTo({<<c>> : c \in {N, Quote, Backslash, Newline, 31, Slash, 195}}, 3)

-----------------------------------------------------------------------------
(* Texts with comments *)

Comments ==
  {<<32>>, <<Newline>>, <<Slash, Slash, N, Newline>>, <<Slash, Slash, Star, Quote, Newline>>,
   <<Slash, Star, Star, Slash>>, <<Slash, Star, Slash, Slash, Newline, Star, Slash>>,
   <<Slash, Star, Quote, Slash, Star, Star, Slash>>}

StringTokens ==
  {<<Quote>> \o body \o <<Quote>> :
     body \in {<< >>, <<N, 32, N>>, <<Slash, Slash>>, <<Slash, Star>>,
               <<Backslash, Quote>>, <<Backslash, N, 32>>}}

\* A string that ends in a backslash, which Minified keeps apart.
Path == <<Quote, Backslash, Backslash, Quote>>

Scalars == {<<49>>, <<58>>}

\* The brackets and the comma of an array.
Opening == <<91>>
Comma == <<44>>
Closing == <<93>>

\* Only its strings.
StringsOf ==
  Same(StringTokens \cup {Path})
  \cup {<<c, << >> >> : c \in Comments \cup Scalars \cup {Opening, Comma, Closing}}

\* tests/minify_tests.c:86, "cjson_minify_should_not_modify_strings": the
\* strings of a text are the same, in the same order, after minifying.
ModifiesNoString ==
  inside = "done" =>
    Translated(CString(text), StringsOf) = Translated(CString(before), StringsOf)

\* A call that has begun returns, whatever the text: minifying and parsing
\* (tests/minify_tests.c:155, "cjson_minify_should_not_loop_infinitely").
Returns ==
  /\ (stage = "idle" /\ ~Fresh) ~> (inside = "done")
  /\ (stage \in {"scan", "decode"}) ~> (stage \in {"done", "failed"})

-----------------------------------------------------------------------------
(* The instances *)

Block(t) == t \o <<NUL>>

MCCuts == CutsUpTo(Comments \cup StringTokens \cup Scalars, MaxPieces)

\* Strings that are closed and some that are not, texts with comments, and
\* texts that end in a comment or at a slash.
MCText ==
  {Block(<<Quote>> \o t \o <<Quote>>) : t \in UpTo(StringPieces, MaxPieces)}
  \cup {Block(<<Quote>> \o t) : t \in UpTo(StringPieces, 2)}
  \cup {Block(Joined(parts)) : parts \in MCCuts}
  \cup {Block(<<49>> \o t) :
           t \in {<<Slash>>, <<Slash, 49>>, <<Slash, 32, Slash>>, <<Slash, Slash>>,
                  <<Slash, Star>>, <<Slash, Star, Slash>>, <<Slash, Star, Star>>}}

\* Arrays of two strings, among them one that ends in a backslash.
MCPathText ==
  {Block(Opening \o s \o Comma \o t \o Closing) : s, t \in StringTokens \cup {Path}}
=============================================================================
