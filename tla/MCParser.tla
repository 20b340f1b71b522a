------------------------------ MODULE MCParser ------------------------------
(***************************************************************************)
(* The buffers TLC parses, and the values whose texts are known: those up to *)
(* a depth and a length of the text, as a set.                              *)
(***************************************************************************)
EXTENDS ParsedText, TLC

CONSTANTS
  MaxText,      \* the symbols of the longest text of the grammar
  MaxNear,      \* the symbols of the longest text that is spoilt, or made too deep
  MaxAny        \* the symbols of the longest arbitrary buffer

MCbytes == [c \in Symbol |-> IF c = "bom" THEN 3 ELSE IF c = "s" THEN 2 ELSE 1]

\* The symbols of the text of a value.
RECURSIVE Size(_)
Size(v) ==
  IF v.kind \in {"n", "s"} THEN 1
  ELSE LET each == IF v.kind = "Array" THEN 1 ELSE 3
           upto[k \in 0 .. Len(v.values)] ==
             IF k = 0 THEN 0 ELSE upto[k - 1] + Size(v.values[k]) + each
       IN  IF v.values = << >> THEN 2 ELSE 1 + upto[Len(v.values)]

\* The lists of values whose texts, a number of symbols in front of each and a
\* comma behind it, have at most n symbols, the last comma not counted.
RECURSIVE Lists(_, _, _)
Lists(values, front, n) ==
  {<< >>} \cup UNION {{<<v>> \o rest : rest \in Lists(values, front, n - front - Size(v) - 1)} :
                      v \in {v \in values : front + Size(v) <= n}}

\* The values that nest at most d lists and have a text of at most n symbols.
RECURSIVE Sized(_, _, _)
Sized(scalars, d, n) ==
  LET values == Sized(scalars, d - 1, n - 2)
  IN  {Value(c, << >>) : c \in scalars}
      \cup IF d = 0 \/ n < 2 THEN {}
           ELSE {Value("Array", vs) : vs \in Lists(values, 0, n - 2)}
                \cup {Value("Object", vs) : vs \in Lists(values, 2, n - 2)}

MCJudged == Sized({"n", "s"}, NestingLimit, MaxText)
Texts(values) == {JsonText[NestingLimit][v].text : v \in values}
Viable == UNION {{SubSeq(t, 1, n) : n \in 0 .. Len(t)} : t \in JudgedTexts}

\* The texts of at most MaxNear symbols, and texts around them, some too deep.
Near ==
  {t \in UNION {{t, <<"[">> \o t \o <<"]">>, <<"[">> \o t \o <<",", "n", "]">>,
                <<"{", "s", ":">> \o t \o <<"}">>} :
               t \in Texts(Sized({"n"}, NestingLimit, MaxNear))} : Len(t) <= MaxNear}

\* A text with a symbol replaced, inserted or removed, or cut off and followed by
\* one symbol.
Spoilt(t) ==
  UNION {{SubSeq(t, 1, k - 1) \o <<c>> \o SubSeq(t, k + 1, Len(t)),
          SubSeq(t, 1, k - 1) \o <<c>> \o SubSeq(t, k, Len(t)),
          SubSeq(t, 1, k - 1) \o SubSeq(t, k + 1, Len(t)),
          SubSeq(t, 1, k) \o <<c>>} : c \in Symbol, k \in DOMAIN t}

\* "quote" stands for a string without an end: no string comes after it.
PossibleBuffer(b) ==
  \A n \in DOMAIN b : b[n] = "quote" =>
    \A m \in n + 1 .. Len(b) : b[m] \notin {"s", "quote"}

MCInput ==
  {b \in UNION {[1 .. n -> Symbol] : n \in 0 .. MaxAny}
         \cup UNION {Spoilt(t) : t \in Near} :
     PossibleBuffer(b)}

-----------------------------------------------------------------------------
\* cJSON_GetErrorPtr (cJSON.h: "You'll probably need to look a few chars back"):
\* memory permitting, what comes before the error, or all but the last symbol
\* of it, can be continued to a text; with the symbol at the error it cannot
\* be, unless the buffer ends there.
ErrorPosition ==
  pc = "failed" /\ ~starved /\ input # << >> =>
    /\ \E o \in {position - 1, position} : o >= 0 /\ Shown[o] \in Viable
    /\ Shown[position + 1] \in Viable => position = Len(input) - 1
=============================================================================
