---------------------------- MODULE TextsProofs -----------------------------
(***************************************************************************)
(* Texts of every length and content, in four parts.                       *)
(*                                                                         *)
(* Minifying in place: what makes InPlace inductive is that json never     *)
(* passes the last character, a NUL that is still the one the client put   *)
(* there: each step that moves on has read something else, and one that    *)
(* moves on by two has read two characters that are not NUL.               *)
(*                                                                         *)
(* The room parse_string asks for: the decoder need not meet the escapes   *)
(* where the scan has seen them, as an escape u with digits missing is     *)
(* taken for six characters, and may swallow the backslash of the next     *)
(* one.  What bounds the output nevertheless is that no two of the skipped *)
(* backslashes are neighbours, so that of the characters read at a time at *)
(* most half were skipped.                                                 *)
(*                                                                         *)
(* A string that print_string_ptr writes: the length it computes first is  *)
(* the length of what it writes, minifying drops nothing of it, and        *)
(* parse_string reads the same string again.                               *)
(*                                                                         *)
(* What minifying leaves of a text: the minifier goes through it piece by  *)
(* piece, as what a piece is and where it ends is decided by the           *)
(* characters it reads, and has at the end of each written what is to be   *)
(* left of the pieces up to there.                                         *)
(***************************************************************************)
EXTENDS MinifiedText, LeastNumber, SequenceTheorems

-----------------------------------------------------------------------------
(* Minifying                                                               *)

\* The types of what the steps of cJSON_Minify read and write.
MinifyTyped ==
  /\ text \in Seq(Nat) /\ before \in Seq(Nat)
  /\ json \in Nat /\ into \in Nat
  /\ inside \in {"text", "string", "oneline", "multiline", "done"}

\* The block ends with the NUL it was given with (a C string, cJSON.c:2904).
Ends == before # << >> /\ before[Len(before)] = NUL

MinifyInv == MinifyTyped /\ Ends /\ InPlace

-----------------------------------------------------------------------------
\* Writing a character inside a block keeps its length and all other
\* characters (the assignments through into and output, cJSON.c:2884-2950).
LEMMA OneWritten ==
  ASSUME NEW s \in Seq(Nat), NEW i \in 1 .. Len(s), NEW c \in Nat
  PROVE  /\ [s EXCEPT ![i] = c] \in Seq(Nat)
         /\ Len([s EXCEPT ![i] = c]) = Len(s)
         /\ \A k \in 1 .. Len(s) : [s EXCEPT ![i] = c][k] = IF k = i THEN c ELSE s[k]
  BY ExceptSeq

\* A sequence with two characters written to it.
WithTwo(s, i, c, d) == [s EXCEPT ![i] = c, ![i + 1] = d]

\* Writing two characters does too.
LEMMA TwoWritten ==
  ASSUME NEW s \in Seq(Nat), NEW i \in 1 .. Len(s), i + 1 \in 1 .. Len(s),
         NEW c \in Nat, NEW d \in Nat
  PROVE  /\ WithTwo(s, i, c, d) \in Seq(Nat)
         /\ Len(WithTwo(s, i, c, d)) = Len(s)
         /\ \A k \in 1 .. Len(s) : k # i /\ k # i + 1 => WithTwo(s, i, c, d)[k] = s[k]
<1> DEFINE t == [s EXCEPT ![i] = c]
<1>1. /\ t \in Seq(Nat) /\ Len(t) = Len(s)
      /\ \A k \in 1 .. Len(s) : t[k] = IF k = i THEN c ELSE s[k]
  BY OneWritten
<1>2. WithTwo(s, i, c, d) = [t EXCEPT ![i + 1] = d]
  BY DEF WithTwo
<1> HIDE DEF t
<1>3. /\ [t EXCEPT ![i + 1] = d] \in Seq(Nat)
      /\ Len([t EXCEPT ![i + 1] = d]) = Len(t)
      /\ \A k \in 1 .. Len(t) :
           [t EXCEPT ![i + 1] = d][k] = IF k = i + 1 THEN d ELSE t[k]
  BY <1>1, OneWritten
<1> QED
  BY <1>1, <1>2, <1>3

\* Where something other than NUL is read the block goes on behind it.
LEMMA GoesOn ==
  ASSUME MinifyInv, inside # "done", Read # NUL
  PROVE  /\ json + 1 \in 1 .. Len(text)
         /\ Read \in Nat /\ ReadNext \in Nat
         /\ ReadNext # NUL => json + 2 \in 1 .. Len(text)
<1>1. json \in 1 .. Len(before) /\ Len(text) = Len(before)
  BY DEF MinifyInv, MinifyTyped, InPlace
<1>2. json # Len(before)
  BY DEF MinifyInv, Ends, InPlace, MinifyTyped, Read
<1>3. json + 1 \in 1 .. Len(text)
  BY <1>1, <1>2 DEF MinifyInv, MinifyTyped
<1>4. text[json] \in Nat /\ text[json + 1] \in Nat
  BY <1>1, <1>3 DEF MinifyInv, MinifyTyped
<1>5. ASSUME ReadNext # NUL PROVE json + 1 # Len(before)
  BY <1>5, <1>1, <1>3 DEF MinifyInv, Ends, InPlace, MinifyTyped, ReadNext
<1> QED
  BY <1>1, <1>3, <1>4, <1>5 DEF Read, ReadNext, MinifyInv, MinifyTyped

\* Dropping what has been read keeps the invariant.
LEMMA DropKeeps ==
  ASSUME MinifyInv, inside # "done",
         NEW n \in {0, 1, 2}, json + n \in 1 .. Len(text),
         Drop(n), inside' \in {"text", "oneline", "multiline", "string"}
  PROVE  MinifyInv'
  BY DEF MinifyInv, MinifyTyped, Ends, InPlace, Drop

\* Keeping the character that is read keeps the invariant.
LEMMA KeepKeeps ==
  ASSUME MinifyInv, inside # "done", Read # NUL,
         Keep, inside' \in {"text", "string"}
  PROVE  MinifyInv'
<1>1. json + 1 \in 1 .. Len(text) /\ Read \in Nat
  BY GoesOn
<1>2. into \in 1 .. Len(text) /\ into <= json /\ Len(text) = Len(before)
  BY <1>1 DEF MinifyInv, MinifyTyped, InPlace
<1>3. /\ text' \in Seq(Nat) /\ Len(text') = Len(text)
      /\ \A k \in 1 .. Len(text) : text'[k] = IF k = into THEN Read ELSE text[k]
  <2>1. text \in Seq(Nat)
    BY DEF MinifyInv, MinifyTyped
  <2>2. text' = [text EXCEPT ![into] = Read]
    BY DEF Keep
  <2> QED
    BY <1>1, <1>2, <2>1, <2>2, OneWritten
<1>4. MinifyTyped' /\ Ends'
  BY <1>3 DEF MinifyInv, MinifyTyped, Ends, Keep
<1>5. InPlace'
  BY <1>1, <1>2, <1>3 DEF MinifyInv, MinifyTyped, InPlace, Keep
<1> QED
  BY <1>4, <1>5 DEF MinifyInv

\* Keeping an escaped quote keeps the invariant.
LEMMA KeepBothKeeps ==
  ASSUME MinifyInv, inside # "done", Read # NUL, ReadNext # NUL,
         KeepBoth, inside' \in {"text", "string"}
  PROVE  MinifyInv'
<1>1. /\ json + 1 \in 1 .. Len(text) /\ json + 2 \in 1 .. Len(text)
      /\ Read \in Nat /\ ReadNext \in Nat
  BY GoesOn
<1>2. /\ into \in 1 .. Len(text) /\ into + 1 \in 1 .. Len(text)
      /\ into <= json /\ Len(text) = Len(before)
  <2>1. /\ 1 <= into /\ into <= json /\ into \in Nat /\ json \in Nat
        /\ Len(text) = Len(before) /\ Len(text) \in Nat
    BY DEF MinifyInv, MinifyTyped, InPlace
  <2> QED
    BY <1>1, <2>1
<1>3. /\ text' \in Seq(Nat) /\ Len(text') = Len(text)
      /\ \A k \in 1 .. Len(text) : k # into /\ k # into + 1 => text'[k] = text[k]
  <2>1. text \in Seq(Nat)
    BY DEF MinifyInv, MinifyTyped
  <2>2. text' = WithTwo(text, into, Read, ReadNext)
    BY Zenon DEF KeepBoth, WithTwo
  <2>3. LET t == WithTwo(text, into, Read, ReadNext)
        IN  /\ t \in Seq(Nat) /\ Len(t) = Len(text)
            /\ \A k \in 1 .. Len(text) : k # into /\ k # into + 1 => t[k] = text[k]
    BY <1>1, <1>2, <2>1, TwoWritten, Zenon
  <2> QED
    BY <2>2, <2>3, Zenon
<1>4. MinifyTyped' /\ Ends'
  BY <1>3 DEF MinifyInv, MinifyTyped, Ends, KeepBoth
<1>5. json' = json + 2 /\ into' = into + 2 /\ before' = before
  BY DEF KeepBoth
<1>6. /\ json \in Nat /\ into \in Nat /\ 1 <= into
      /\ \A k \in json .. Len(before) : text[k] = before[k]
  BY DEF MinifyInv, MinifyTyped, InPlace
<1>7. ASSUME NEW k \in json + 2 .. Len(before) PROVE text'[k] = before[k]
  <2>1. k \in 1 .. Len(text) /\ k # into /\ k # into + 1 /\ k \in json .. Len(before)
    BY <1>2, <1>6
  <2> QED
    BY <2>1, <1>3, <1>6
<1>8. InPlace'
  BY <1>1, <1>2, <1>3, <1>5, <1>6, <1>7 DEF InPlace
<1> QED
  BY <1>4, <1>8 DEF MinifyInv

-----------------------------------------------------------------------------
\* The invariant holds of every block before a step.
LEMMA MinifyInvInit == Init => MinifyInv
<1> SUFFICES ASSUME Init PROVE MinifyInv
  OBVIOUS
<1>1. text \in Seq(Nat) /\ text # << >> /\ text[Len(text)] = NUL
  BY TextAssumption DEF Init
<1>2. Len(text) \in Nat /\ 1 <= Len(text)
  BY <1>1, EmptySeq
<1> QED
  BY <1>1, <1>2 DEF Init, MinifyInv, MinifyTyped, Ends, InPlace

\* Every step of cJSON_Minify keeps it.
LEMMA MinifyInvNext == MinifyInv /\ [cJSON_Minify]_minifyVars => MinifyInv'
<1> SUFFICES ASSUME MinifyInv, [cJSON_Minify]_minifyVars PROVE MinifyInv'
  OBVIOUS
<1>0. json \in 1 .. Len(text) /\ json + 0 \in 1 .. Len(text)
  BY DEF MinifyInv, MinifyTyped, InPlace
<1>1. CASE SkipSpace
  <2>1. Read # NUL
    BY <1>1 DEF SkipSpace, Space, NUL, Newline
  <2>2. json + 1 \in 1 .. Len(text)
    BY <1>1, <2>1, GoesOn DEF SkipSpace
  <2> QED
    BY <1>1, <2>2, DropKeeps DEF SkipSpace
<1>2. CASE SkipSlash
  <2>1. Read # NUL
    BY <1>2 DEF SkipSlash, Slash, NUL
  <2>2. json + 1 \in 1 .. Len(text)
    BY <1>2, <2>1, GoesOn DEF SkipSlash
  <2> QED
    BY <1>2, <2>2, DropKeeps DEF SkipSlash
<1>3. CASE EnterComment
  <2>1. Read # NUL /\ ReadNext # NUL
    BY <1>3 DEF EnterComment, Slash, Star, NUL
  <2>2. json + 2 \in 1 .. Len(text)
    BY <1>3, <2>1, GoesOn DEF EnterComment
  <2> QED
    BY <1>3, <2>2, DropKeeps DEF EnterComment
<1>4. CASE skip_oneline_comment
  <2>1. CASE Read = NUL
    BY <1>0, <1>4, <2>1, DropKeeps DEF skip_oneline_comment
  <2>2. CASE Read # NUL
    BY <1>4, <2>2, GoesOn, DropKeeps DEF skip_oneline_comment
  <2> QED
    BY <2>1, <2>2
<1>5. CASE skip_multiline_comment
  <2>1. CASE Read = NUL
    BY <1>0, <1>5, <2>1, DropKeeps DEF skip_multiline_comment
  <2>2. CASE Read # NUL /\ Read = Star /\ ReadNext = Slash
    <3>1. ReadNext # NUL
      BY <2>2 DEF Slash, NUL
    <3> QED
      BY <1>5, <2>2, <3>1, GoesOn, DropKeeps DEF skip_multiline_comment
  <2>3. CASE Read # NUL /\ ~(Read = Star /\ ReadNext = Slash)
    BY <1>5, <2>3, GoesOn, DropKeeps DEF skip_multiline_comment
  <2> QED
    BY <2>1, <2>2, <2>3
<1>6. CASE EnterString
  <2>1. Read # NUL
    BY <1>6 DEF EnterString, Quote, NUL
  <2> QED
    BY <1>6, <2>1, KeepKeeps DEF EnterString
<1>7. CASE minify_string
  <2>1. CASE Read = NUL
    BY <1>0, <1>7, <2>1, DropKeeps DEF minify_string
  <2>2. CASE Read # NUL /\ Read = Backslash /\ ReadNext = Quote
    <3>1. ReadNext # NUL
      BY <2>2 DEF Quote, NUL
    <3> QED
      BY <1>7, <2>2, <3>1, KeepBothKeeps DEF minify_string
  <2>3. CASE Read # NUL /\ ~(Read = Backslash /\ ReadNext = Quote)
    BY <1>7, <2>3, KeepKeeps DEF minify_string
  <2> QED
    BY <2>1, <2>2, <2>3
<1>8. CASE Other
  <2>1. Read # NUL
    BY <1>8 DEF Other
  <2> QED
    BY <1>8, <2>1, KeepKeeps DEF Other
<1>9. CASE Terminate
  <2>1. /\ text' \in Seq(Nat) /\ Len(text') = Len(text)
    <3>1. into \in 1 .. Len(text) /\ NUL \in Nat
      BY <1>0 DEF MinifyInv, MinifyTyped, InPlace, NUL
    <3> QED
      BY <1>9, <3>1, OneWritten DEF MinifyInv, MinifyTyped, Terminate
  <2> QED
    BY <1>9, <2>1 DEF MinifyInv, MinifyTyped, Ends, InPlace, Terminate
<1>10. CASE UNCHANGED minifyVars
  BY <1>10 DEF MinifyInv, MinifyTyped, Ends, InPlace, minifyVars
<1> QED
  BY <1>1, <1>2, <1>3, <1>4, <1>5, <1>6, <1>7, <1>8, <1>9, <1>10 DEF cJSON_Minify

\* For every block that ends with a NUL: cJSON_Minify reads and writes in the
\* block only, and writes over nothing that it has not read.
THEOREM Minifying == Spec => []InPlace
<1>1. MinifyInv => InPlace
  BY DEF MinifyInv
<1> QED
  BY MinifyInvInit, MinifyInvNext, <1>1, PTL DEF Spec

-----------------------------------------------------------------------------
(* The room of parse_string                                                *)

\* The types of the variables of parse_string.
StringTyped ==
  /\ input \in Seq(Nat) /\ output \in Seq(Nat)
  /\ input_pointer \in Nat /\ input_end \in Nat /\ room \in Int
  /\ stage \in {"idle", "scan", "decode", "done", "failed"}

\* The skipped characters are backslashes, no two of them neighbours.
Marks ==
  /\ skipped \subseteq 2 .. input_end - 1
  /\ \A e \in skipped :
       input[e] = Backslash /\ e + 1 \notin skipped /\ e + 1 < input_end

\* The skipped characters in front of a position.
Before(p) == {e \in skipped : e < p}

\* What is written is at most what was read without what the scan skipped.
Written ==
  /\ input_end \in 2 .. Len(input)
  /\ room = input_end - Cardinality(skipped)
  /\ stage = "decode" =>
       /\ input_pointer \in 2 .. input_end + 1
       /\ Len(output) + Cardinality(Before(input_pointer)) <= input_pointer - 2
  /\ stage = "done" => Len(output) <= room

StringInv ==
  /\ StringTyped
  /\ stage = "scan" => input_end >= 2 /\ output = << >> /\ input_pointer = 2
  /\ stage \in {"scan", "decode", "done"} => Marks
  /\ stage \in {"decode", "done"} => Written

-----------------------------------------------------------------------------
(* What an escape gives                                                    *)

\* A digit is a number below 16, and what is none gives -1.
LEMMA HexDigitRange == \A c : HexDigit(c) \in -1 .. 15
  BY DEF HexDigit

\* A number of 16 bits.
Unit(n) == n \in Nat /\ n < 65536

\* Four digits make a number of 16 bits.
LEMMA NibblesRange == \A a, b, c, d \in 0 .. 15 : Unit(Nibbles(a, b, c, d))
  BY DEF Nibbles, Unit

\* parse_hex4 returns a number of 16 bits.
LEMMA Hex4Range ==
  ASSUME NEW d
  PROVE  parse_hex4(d) \in Nat /\ parse_hex4(d) < 65536
<1>1. \A k \in 1 .. 4 : HexDigit(d[k]) \in -1 .. 15
  BY HexDigitRange
<1>2. CASE \E k \in 1 .. 4 : HexDigit(d[k]) < 0
  BY <1>2 DEF parse_hex4
<1>3. CASE ~ \E k \in 1 .. 4 : HexDigit(d[k]) < 0
  <2>1. /\ HexDigit(d[1]) \in 0 .. 15 /\ HexDigit(d[2]) \in 0 .. 15
        /\ HexDigit(d[3]) \in 0 .. 15 /\ HexDigit(d[4]) \in 0 .. 15
    BY <1>1, <1>3
  <2>2. parse_hex4(d) = Nibbles(HexDigit(d[1]), HexDigit(d[2]),
                                HexDigit(d[3]), HexDigit(d[4]))
    BY <1>3, Zenon DEF parse_hex4
  <2>3. Unit(Nibbles(HexDigit(d[1]), HexDigit(d[2]), HexDigit(d[3]), HexDigit(d[4])))
    BY <2>1, NibblesRange, Zenon
  <2>4. Unit(parse_hex4(d))
    BY <2>2, <2>3, Zenon
  <2> QED
    BY <2>4 DEF Unit
<1> QED
  BY <1>2, <1>3

\* A code point takes at most four bytes, one of 16 bits at most three.
LEMMA Utf8Length ==
  ASSUME NEW c \in Nat
  PROVE  /\ Utf8(c) \in Seq(Nat) /\ Len(Utf8(c)) <= 4
         /\ c < 65536 => Len(Utf8(c)) <= 3
<1>1. /\ \A d \in {1, 64, 4096} : 128 + ((c \div d) % 64) \in Nat
      /\ \A d \in {64, 4096, 262144}, n \in Nat : n + (c \div d) \in Nat
  OBVIOUS
<1>2. CASE c < 128
  BY <1>2 DEF Utf8
<1>3. CASE ~(c < 128) /\ c < 2048
  BY <1>1, <1>3 DEF Utf8
<1>4. CASE ~(c < 128) /\ ~(c < 2048) /\ c < 65536
  BY <1>1, <1>4 DEF Utf8
<1>5. CASE ~(c < 128) /\ ~(c < 2048) /\ ~(c < 65536)
  BY <1>1, <1>5 DEF Utf8
<1> QED
  BY <1>2, <1>3, <1>4, <1>5

\* utf16_literal_to_utf8 gives at most half as many bytes as it reads
\* characters, and reads none behind the end.
LEMMA LiteralLength ==
  ASSUME NEW t, NEW first \in Nat, NEW end \in Nat
  PROVE  LET literal == utf16_literal_to_utf8(t, first, end)
         IN  /\ literal.bytes \in Seq(Nat) /\ literal.length \in {0, 6, 12}
             /\ 2 * Len(literal.bytes) <= literal.length
             /\ literal.length > 0 => first + literal.length <= end
<1> DEFINE Code(p) == parse_hex4(SubSeq(t, p + 2, p + 5))
           pair == PairCode(Code(first), Code(first + 6))
<1>1. Code(first) \in Nat /\ Code(first) < 65536 /\ Code(first + 6) \in Nat
  BY Hex4Range
<1> HIDE DEF Code
<1>2. pair \in Nat
  BY <1>1 DEF PairCode
<1> HIDE DEF pair
<1>3. /\ Utf8(Code(first)) \in Seq(Nat) /\ Len(Utf8(Code(first))) <= 3
      /\ Utf8(pair) \in Seq(Nat) /\ Len(Utf8(pair)) <= 4
  <2>1. /\ Utf8(pair) \in Seq(Nat) /\ Len(Utf8(pair)) <= 4
    BY <1>2, Utf8Length
  <2>2. /\ Utf8(Code(first)) \in Seq(Nat)
        /\ Code(first) < 65536 => Len(Utf8(Code(first))) <= 3
    BY <1>1, Utf8Length
  <2> QED
    BY <1>1, <2>1, <2>2
<1> DEFINE literal == utf16_literal_to_utf8(t, first, end)
<1>5. \/ literal = [length |-> 0, bytes |-> << >>]
      \/ literal = [length |-> 6, bytes |-> Utf8(Code(first))] /\ ~(end - first < 6)
      \/ literal = [length |-> 12, bytes |-> Utf8(pair)] /\ ~(end - first < 12)
  BY DEF utf16_literal_to_utf8, Code, pair
<1> HIDE DEF literal
<1>8. /\ literal.bytes \in Seq(Nat) /\ literal.length \in {0, 6, 12}
      /\ 2 * Len(literal.bytes) <= literal.length
      /\ literal.length > 0 => first + literal.length <= end
  <2>1. CASE literal = [length |-> 0, bytes |-> << >>]
    BY <2>1
  <2>2. CASE literal = [length |-> 6, bytes |-> Utf8(Code(first))] /\ ~(end - first < 6)
    <3>1. literal.length = 6 /\ literal.bytes = Utf8(Code(first))
      BY <2>2
    <3> QED
      BY <1>3, <2>2, <3>1
  <2>3. CASE literal = [length |-> 12, bytes |-> Utf8(pair)] /\ ~(end - first < 12)
    <3>1. literal.length = 12 /\ literal.bytes = Utf8(pair)
      BY <2>3
    <3> QED
      BY <1>3, <2>3, <3>1
  <2> QED
    BY <1>5, <2>1, <2>2, <2>3, Zenon
<1> QED
  BY <1>8 DEF literal

\* An escape of one letter stands for one character.
LEMMA EscapeType == \A c \in DOMAIN Escape : Escape[c] \in Nat
  BY DEF Escape, Newline, Quote, Backslash, Slash

-----------------------------------------------------------------------------
(* Counting what was skipped                                               *)

\* The skipped characters are finitely many, and so are those in front of a
\* position.
LEMMA Finite ==
  ASSUME Marks, input_end \in Nat, NEW p \in Nat
  PROVE  /\ IsFiniteSet(skipped) /\ IsFiniteSet(Before(p))
         /\ Cardinality(skipped) \in Nat /\ Cardinality(Before(p)) \in Nat
<1>1. IsFiniteSet(2 .. input_end - 1)
  BY FS_Interval
<1>2. IsFiniteSet(skipped)
  BY <1>1, FS_Subset DEF Marks
<1>3. IsFiniteSet(Before(p))
  BY <1>2, FS_Subset DEF Before
<1> QED
  BY <1>2, <1>3, FS_CardinalityType

\* Of two neighbours at most one was skipped.
LEMMA OneOfTwo ==
  ASSUME Marks, input_end \in Nat, NEW p \in Nat
  PROVE  Cardinality(Before(p + 2)) <= Cardinality(Before(p)) + 1
<1>1. PICK x : Before(p + 2) \subseteq Before(p) \cup {x}
  <2>1. \A e \in Before(p + 2) : e \in Before(p) \/ e = p \/ e = p + 1
    BY DEF Before, Marks
  <2>2. CASE p \in skipped
    <3>1. p + 1 \notin Before(p + 2)
      BY <2>2 DEF Before, Marks
    <3>2. Before(p + 2) \subseteq Before(p) \cup {p}
      BY <2>1, <3>1
    <3> QED
      BY <3>2
  <2>3. CASE p \notin skipped
    <3>1. p \notin Before(p + 2)
      BY <2>3 DEF Before
    <3>2. Before(p + 2) \subseteq Before(p) \cup {p + 1}
      BY <2>1, <3>1
    <3> QED
      BY <3>2
  <2> QED
    BY <2>2, <2>3
<1>2. IsFiniteSet(Before(p)) /\ Cardinality(Before(p)) \in Nat
  BY Finite
<1>3. /\ IsFiniteSet(Before(p) \cup {x})
      /\ Cardinality(Before(p) \cup {x}) \in Nat
      /\ Cardinality(Before(p) \cup {x}) <= Cardinality(Before(p)) + 1
  <2>1. /\ IsFiniteSet(Before(p) \cup {x})
        /\ Cardinality(Before(p) \cup {x}) =
             IF x \in Before(p) THEN Cardinality(Before(p)) ELSE Cardinality(Before(p)) + 1
    BY <1>2, FS_AddElement, Zenon
  <2> QED
    BY <1>2, <2>1
<1>4. Cardinality(Before(p + 2)) <= Cardinality(Before(p) \cup {x})
  BY <1>1, <1>3, FS_Subset
<1>5. Cardinality(Before(p + 2)) \in Nat
  BY Finite
<1> QED
  BY <1>2, <1>3, <1>4, <1>5

\* Of the characters of an escape u, of six or twelve, at most half.
LEMMA HalfOfMany ==
  ASSUME Marks, input_end \in Nat, NEW p \in Nat, NEW n \in {6, 12}
  PROVE  2 * Cardinality(Before(p + n)) <= 2 * Cardinality(Before(p)) + n
<1> DEFINE C(k) == Cardinality(Before(p + k))
<1>1. \A k \in Nat : C(k) \in Nat /\ C(k + 2) <= C(k) + 1
  <2> TAKE k \in Nat
  <2>1. (p + k) + 2 = p + (k + 2) /\ p + k \in Nat
    OBVIOUS
  <2>2. Cardinality(Before((p + k) + 2)) <= Cardinality(Before(p + k)) + 1
    BY <2>1, OneOfTwo
  <2>3. C(k) \in Nat
    BY <2>1, Finite
  <2> QED
    BY <2>1, <2>2, <2>3
<1>2. C(0) = Cardinality(Before(p))
  OBVIOUS
<1> HIDE DEF C
<1>3. /\ C(2) <= C(0) + 1 /\ C(4) <= C(2) + 1 /\ C(6) <= C(4) + 1
      /\ C(8) <= C(6) + 1 /\ C(10) <= C(8) + 1 /\ C(12) <= C(10) + 1
      /\ \A k \in {0, 2, 4, 6, 8, 10, 12} : C(k) \in Nat
  BY <1>1
<1>4. 2 * C(n) <= 2 * C(0) + n
  BY <1>3
<1> QED
  BY <1>2, <1>4 DEF C

\* From a position to the closing quote at most all were.
LEMMA AtMostAll ==
  ASSUME Marks, input_end \in Nat, NEW p \in Nat, p <= input_end
  PROVE  Cardinality(skipped) <= Cardinality(Before(p)) + (input_end - p)
<1> DEFINE I == p .. input_end - 1
<1>1. IsFiniteSet(I) /\ Cardinality(I) = input_end - p
  <2>1. input_end - 1 \in Int
    OBVIOUS
  <2>2. /\ IsFiniteSet(p .. input_end - 1)
        /\ Cardinality(p .. input_end - 1) =
             IF p > input_end - 1 THEN 0 ELSE (input_end - 1) - p + 1
    BY <2>1, FS_Interval
  <2> QED
    BY <2>2
<1>2. IsFiniteSet(Before(p)) /\ Cardinality(Before(p)) \in Nat /\ Cardinality(skipped) \in Nat
  BY Finite
<1>3. skipped \subseteq Before(p) \cup I
  BY DEF Before, Marks
<1> HIDE DEF I
<1>4. /\ IsFiniteSet(Before(p) \cup I)
      /\ Cardinality(Before(p) \cup I) =
           Cardinality(Before(p)) + Cardinality(I) - Cardinality(Before(p) \cap I)
  BY <1>1, <1>2, FS_Union
<1>5. Cardinality(Before(p) \cap I) \in Nat
  BY <1>2, FS_Intersection, FS_CardinalityType
<1>6. Cardinality(skipped) <= Cardinality(Before(p) \cup I)
  BY <1>3, <1>4, FS_Subset
<1> QED
  BY <1>1, <1>2, <1>4, <1>5, <1>6

\* All of them are in front of a position at the closing quote or behind it.
LEMMA AllBefore ==
  ASSUME Marks, input_end \in Nat, NEW p \in Nat, p >= input_end
  PROVE  Before(p) = skipped
<1>1. \A e \in skipped : e < p
  BY DEF Marks
<1> QED
  BY <1>1, Zenon DEF Before

-----------------------------------------------------------------------------
(* The invariant                                                           *)

\* A buffer is taken.
LEMMA ParseStringInv ==
  ASSUME NEW buffer \in Seq(Nat), ParseString(buffer)
  PROVE  StringInv'
<1>1. StringTyped'
  BY DEF ParseString, StringTyped
<1>2. Marks'
  BY DEF ParseString, Marks
<1>3. /\ stage' \in {"scan", "failed"}
      /\ input_end' = 2 /\ output' = << >> /\ input_pointer' = 2
  BY DEF ParseString
<1> QED
  BY <1>1, <1>2, <1>3 DEF StringInv

\* A failure keeps the types, and nothing else is claimed then.
LEMMA FailInv ==
  ASSUME StringInv, FailString
  PROVE  StringInv'
  BY DEF StringInv, StringTyped, FailString

\* The scan marks backslashes, and passes over what follows them.
LEMMA ScanInv ==
  ASSUME StringInv, Scan
  PROVE  StringInv'
<1>1. /\ stage = "scan" /\ StringTyped /\ Marks /\ input_end >= 2 /\ input_end \in Nat
      /\ output = << >> /\ input_pointer = 2
  BY DEF StringInv, Scan, StringTyped
<1>2. UNCHANGED <<input, input_pointer, room, output>>
  BY DEF Scan
<1>3. StringTyped'
  BY <1>1, <1>2 DEF Scan, StringTyped
<1>4. CASE input[input_end] # Backslash
  <2>1. input_end' = input_end + 1 /\ skipped' = skipped /\ stage' = "scan"
    BY <1>1, <1>4 DEF Scan
  <2>2. Marks'
    BY <1>1, <1>2, <2>1 DEF Marks
  <2> QED
    BY <1>1, <1>2, <1>3, <2>1, <2>2 DEF StringInv
<1>5. CASE input[input_end] = Backslash /\ input_end + 1 > Len(input)
  <2>1. stage' = "failed"
    BY <1>5 DEF Scan
  <2> QED
    BY <1>3, <2>1 DEF StringInv
<1>6. CASE input[input_end] = Backslash /\ ~(input_end + 1 > Len(input))
  <2>1. /\ input_end' = input_end + 2 /\ skipped' = skipped \cup {input_end}
        /\ stage' = "scan"
    BY <1>1, <1>6 DEF Scan
  <2>2. \A e \in skipped : /\ e \in 2 .. input_end - 1 /\ e + 1 < input_end
                           /\ input[e] = Backslash /\ e + 1 \notin skipped
    BY <1>1 DEF Marks
  <2>3. skipped' \subseteq 2 .. input_end' - 1
    BY <1>1, <2>1, <2>2
  <2>4. ASSUME NEW e \in skipped'
        PROVE  input'[e] = Backslash /\ e + 1 \notin skipped' /\ e + 1 < input_end'
    BY <1>1, <1>2, <1>6, <2>1, <2>2
  <2>5. Marks'
    BY <2>3, <2>4 DEF Marks
  <2> QED
    BY <1>1, <1>2, <1>3, <2>1, <2>5 DEF StringInv
<1> QED
  BY <1>4, <1>5, <1>6

\* At the closing quote nothing is read or written yet.
LEMMA AllocateInv ==
  ASSUME StringInv, Allocate
  PROVE  StringInv'
<1>1. /\ stage = "scan" /\ StringTyped /\ Marks /\ input_end >= 2 /\ input_end \in Nat
      /\ output = << >> /\ input_pointer = 2
  BY DEF StringInv, Allocate, StringTyped
<1>2. CASE stage' = "failed"
  <2>1. UNCHANGED <<input, input_pointer, input_end, output, room>>
    BY <1>1, <1>2 DEF Allocate, FailString
  <2> QED
    BY <1>1, <1>2, <2>1 DEF StringInv, StringTyped
<1>3. CASE stage' # "failed"
  <2>1. /\ stage' = "decode" /\ room' = input_end - 1 - Cardinality(skipped) + 1
        /\ input_end <= Len(input)
        /\ UNCHANGED <<input, input_pointer, input_end, skipped, output>>
    BY <1>3 DEF Allocate, FailString
  <2>2. Cardinality(skipped) \in Nat
    BY <1>1, Finite
  <2>3. room' = input_end - Cardinality(skipped) /\ room' \in Int
    BY <1>1, <2>1, <2>2
  <2>4. StringTyped'
    BY <1>1, <2>1, <2>3 DEF StringTyped
  <2>5. Marks'
    BY <1>1, <2>1 DEF Marks
  <2>6. Before(2)' = {}
    <3>1. \A e \in skipped' : ~(e < 2)
      BY <1>1, <2>1 DEF Marks
    <3> QED
      BY <3>1, Zenon DEF Before
  <2>7. Cardinality(Before(2)') = 0
    BY <2>6, FS_EmptySet
  <2>8. Before(input_pointer)' = Before(2)'
    BY <1>1, <2>1
  <2>9. /\ input_end' \in 2 .. Len(input)' /\ room' = input_end' - Cardinality(skipped')
        /\ input_pointer' \in 2 .. input_end' + 1
        /\ Len(output') + Cardinality(Before(input_pointer)') <= input_pointer' - 2
    BY <1>1, <2>1, <2>3, <2>7, <2>8 DEF StringTyped
  <2>10. Written'
    BY <2>1, <2>9 DEF Written
  <2> QED
    BY <2>1, <2>4, <2>5, <2>10 DEF StringInv
<1> QED
  BY <1>2, <1>3

\* If what is read was skipped or written at most once, decoding goes on.
LEMMA DecodedInv ==
  ASSUME StringInv, stage = "decode",
         NEW n \in Nat, NEW bytes \in Seq(Nat), Decoded(n, bytes),
         input_pointer + n <= input_end + 1,
         Cardinality(Before(input_pointer + n)) + Len(bytes)
           <= Cardinality(Before(input_pointer)) + n
  PROVE  StringInv'
<1>1. /\ StringTyped /\ Marks /\ Written /\ input_pointer \in Nat /\ input_end \in Nat
      /\ Len(output) \in Nat /\ Len(bytes) \in Nat
  BY DEF StringInv, StringTyped
<1>2. /\ input_pointer' = input_pointer + n /\ output' = output \o bytes
      /\ UNCHANGED <<input, input_end, skipped, room, stage>>
  BY DEF Decoded
<1>3. StringTyped'
  BY <1>1, <1>2 DEF StringTyped
<1>4. Marks'
  BY <1>1, <1>2 DEF Marks
<1>5. Before(input_pointer)' = Before(input_pointer + n)
  BY <1>2 DEF Before
<1>6. /\ Cardinality(Before(input_pointer)) \in Nat
      /\ Cardinality(Before(input_pointer + n)) \in Nat
  <2>1. input_pointer + n \in Nat
    BY <1>1
  <2> QED
    BY <1>1, <2>1, Finite
<1>7. Len(output') = Len(output) + Len(bytes)
  BY <1>1, <1>2 DEF StringTyped
<1>8. /\ input_pointer \in 2 .. input_end + 1
      /\ Len(output) + Cardinality(Before(input_pointer)) <= input_pointer - 2
  BY <1>1 DEF Written
<1> DEFINE seen == Cardinality(Before(input_pointer))
           after == Cardinality(Before(input_pointer + n))
           length == Len(output)
           more == Len(bytes)
<1>9. length + more + after <= input_pointer + n - 2
  <2>1. /\ seen \in Nat /\ after \in Nat /\ length \in Nat /\ more \in Nat
        /\ length + seen <= input_pointer - 2 /\ after + more <= seen + n
    BY <1>1, <1>6, <1>8
  <2> HIDE DEF seen, after, length, more
  <2> QED
    BY <1>1, <2>1
<1>10. /\ input_pointer' \in 2 .. input_end' + 1
       /\ Len(output') + Cardinality(Before(input_pointer)') <= input_pointer' - 2
  BY <1>1, <1>2, <1>5, <1>7, <1>8, <1>9
<1>11. Written'
  BY <1>1, <1>2, <1>10 DEF Written
<1> QED
  BY <1>2, <1>3, <1>4, <1>11 DEF StringInv

\* A character that is no backslash was not skipped.
LEMMA PlainInv ==
  ASSUME StringInv, Plain
  PROVE  StringInv'
<1>1. /\ stage = "decode" /\ input_pointer < input_end /\ input[input_pointer] # Backslash
      /\ Decoded(1, <<input[input_pointer]>>)
      /\ StringTyped /\ Marks /\ Written /\ input_pointer \in Nat /\ input_end \in Nat
  BY DEF Plain, StringInv, StringTyped
<1>2. input_pointer \in 2 .. Len(input)
  BY <1>1 DEF Written, StringTyped
<1>3. <<input[input_pointer]>> \in Seq(Nat) /\ Len(<<input[input_pointer]>>) = 1
  BY <1>1, <1>2 DEF StringTyped
<1>4. Before(input_pointer + 1) = Before(input_pointer)
  <2>1. input_pointer \notin skipped
    BY <1>1 DEF Marks
  <2>2. \A e \in skipped : e < input_pointer + 1 <=> e < input_pointer
    BY <1>1, <2>1 DEF Marks
  <2> QED
    BY <2>2, Zenon DEF Before
<1>5. Cardinality(Before(input_pointer)) \in Nat
  BY <1>1, Finite
<1>6. /\ input_pointer + 1 <= input_end + 1
      /\ Cardinality(Before(input_pointer + 1)) + Len(<<input[input_pointer]>>)
           <= Cardinality(Before(input_pointer)) + 1
  BY <1>1, <1>3, <1>4, <1>5
<1> QED
  BY <1>1, <1>3, <1>6, DecodedInv

\* Of the two characters of an escape at most one was skipped, of the six or
\* twelve of an escape u at most half, and half as many bytes are written.
LEMMA UnescapeInv ==
  ASSUME StringInv, Unescape
  PROVE  StringInv'
<1> DEFINE c == input[input_pointer + 1]
           literal == utf16_literal_to_utf8(input, input_pointer, input_end)
<1>1. /\ stage = "decode" /\ input_pointer < input_end
      /\ StringTyped /\ Marks /\ Written /\ input_pointer \in Nat /\ input_end \in Nat
  BY DEF Unescape, StringInv, StringTyped
<1>2. \/ c \in DOMAIN Escape /\ Decoded(2, <<Escape[c]>>)
      \/ literal.length > 0 /\ Decoded(literal.length, literal.bytes)
      \/ FailString
  BY DEF Unescape
<1>3. CASE c \in DOMAIN Escape /\ Decoded(2, <<Escape[c]>>)
  <2>1. <<Escape[c]>> \in Seq(Nat) /\ Len(<<Escape[c]>>) = 1
    <3>1. Escape[c] \in Nat
      BY <1>3, EscapeType
    <3> HIDE DEF c
    <3> QED
      BY <3>1
  <2>2. /\ Cardinality(Before(input_pointer + 2)) <= Cardinality(Before(input_pointer)) + 1
        /\ Cardinality(Before(input_pointer + 2)) \in Nat
        /\ Cardinality(Before(input_pointer)) \in Nat
    BY <1>1, OneOfTwo, Finite
  <2> HIDE DEF c
  <2>3. /\ input_pointer + 2 <= input_end + 1
        /\ Cardinality(Before(input_pointer + 2)) + Len(<<Escape[c]>>)
             <= Cardinality(Before(input_pointer)) + 2
    BY <1>1, <2>1, <2>2
  <2>4. Decoded(2, <<Escape[c]>>)
    BY <1>3
  <2> QED
    BY <1>1, <2>1, <2>3, <2>4, DecodedInv
<1>4. CASE literal.length > 0 /\ Decoded(literal.length, literal.bytes)
  <2>1. /\ literal.bytes \in Seq(Nat) /\ literal.length \in {0, 6, 12}
        /\ 2 * Len(literal.bytes) <= literal.length
        /\ literal.length > 0 => input_pointer + literal.length <= input_end
    BY <1>1, LiteralLength
  <2> HIDE DEF literal
  <2>2. literal.length \in {6, 12} /\ input_pointer + literal.length <= input_end + 1
    BY <1>1, <1>4, <2>1
  <2>3. /\ 2 * Cardinality(Before(input_pointer + literal.length))
             <= 2 * Cardinality(Before(input_pointer)) + literal.length
        /\ Cardinality(Before(input_pointer)) \in Nat
    BY <1>1, <2>2, HalfOfMany, Finite
  <2>4. Cardinality(Before(input_pointer + literal.length)) \in Nat
    BY <1>1, <2>2, Finite
  <2>5. Len(literal.bytes) \in Nat
    BY <2>1
  <2>6. Cardinality(Before(input_pointer + literal.length)) + Len(literal.bytes)
          <= Cardinality(Before(input_pointer)) + literal.length
    BY <2>1, <2>2, <2>3, <2>4, <2>5
  <2>7. literal.length \in Nat
    BY <2>2
  <2> QED
    BY <1>1, <1>4, <2>1, <2>2, <2>6, <2>7, DecodedInv
<1>5. CASE FailString
  BY <1>5, FailInv
<1> QED
  BY <1>2, <1>3, <1>4, <1>5

\* Behind the closing quote everything skipped has been counted.
LEMMA FinishInv ==
  ASSUME StringInv, Finish
  PROVE  StringInv'
<1>1. /\ stage = "decode" /\ input_pointer >= input_end
      /\ StringTyped /\ Marks /\ Written /\ input_pointer \in Nat /\ input_end \in Nat
      /\ Len(output) \in Nat
  BY DEF Finish, StringInv, StringTyped
<1>2. /\ output' = Append(output, NUL) /\ stage' = "done"
      /\ UNCHANGED <<input, input_pointer, input_end, skipped, room>>
  BY DEF Finish
<1>3. StringTyped'
  BY <1>1, <1>2 DEF StringTyped, NUL
<1>4. Marks'
  BY <1>1, <1>2 DEF Marks
<1>5. /\ Before(input_pointer) = skipped /\ Cardinality(skipped) \in Nat
  BY <1>1, AllBefore, Finite
<1>6. /\ Len(output) + Cardinality(skipped) <= input_pointer - 2
      /\ input_pointer <= input_end + 1 /\ room = input_end - Cardinality(skipped)
  BY <1>1, <1>5 DEF Written
<1>7. Len(output') = Len(output) + 1
  BY <1>1, <1>2 DEF StringTyped, NUL
<1>8. Len(output') <= room
  BY <1>1, <1>5, <1>6, <1>7
<1>9. Written'
  BY <1>1, <1>2, <1>8 DEF Written
<1> QED
  BY <1>2, <1>3, <1>4, <1>9 DEF StringInv

\* Before anything is parsed the invariant holds.
LEMMA StringInvInit == StringInit => StringInv
  BY DEF StringInit, StringInv, StringTyped

\* Every step of a call keeps it.
LEMMA StringInvNext == StringInv /\ [StringsNext]_stringVars => StringInv'
<1> SUFFICES ASSUME StringInv, [StringsNext]_stringVars
             PROVE  StringInv'
  OBVIOUS
<1>1. CASE \E buffer \in Seq(Nat) \ {<< >>} : ParseString(buffer)
  BY <1>1, ParseStringInv
<1>2. CASE Scan \/ Allocate
  BY <1>2, ScanInv, AllocateInv
<1>3. CASE Plain \/ Unescape \/ Finish
  BY <1>3, PlainInv, UnescapeInv, FinishInv
<1>4. CASE UNCHANGED stringVars
  <2>1. StringTyped' /\ stage' = stage /\ output' = output
        /\ input_end' = input_end /\ input_pointer' = input_pointer
    BY <1>4 DEF stringVars, StringInv, StringTyped
  <2>2. Marks => Marks'
    BY <1>4 DEF stringVars, Marks
  <2>3. Written => Written'
    BY <1>4 DEF stringVars, Written, Before
  <2> QED
    BY <2>1, <2>2, <2>3 DEF StringInv
<1> QED
  BY <1>1, <1>2, <1>3, <1>4 DEF StringsNext, parse_string

\* What has been counted bounds what has been written.
LEMMA StringInvFits == StringInv => OutputFits
<1> SUFFICES ASSUME StringInv, stage \in {"decode", "done"}
             PROVE  Len(output) <= room
  BY DEF OutputFits
<1>1. StringTyped /\ Marks /\ Written /\ input_pointer \in Nat /\ input_end \in Nat
  BY DEF StringInv, StringTyped
<1>2. CASE stage = "done"
  BY <1>1, <1>2 DEF Written
<1>3. CASE stage = "decode"
  <2>1. /\ Len(output) + Cardinality(Before(input_pointer)) <= input_pointer - 2
        /\ room = input_end - Cardinality(skipped) /\ input_pointer <= input_end + 1
    <3>1. input_pointer \in 2 .. input_end + 1
      BY <1>1, <1>3 DEF Written
    <3>2. /\ Len(output) + Cardinality(Before(input_pointer)) <= input_pointer - 2
          /\ room = input_end - Cardinality(skipped)
      BY <1>1, <1>3, Zenon DEF Written
    <3> QED
      BY <1>1, <3>1, <3>2
  <2>2. /\ Cardinality(Before(input_pointer)) \in Nat /\ Cardinality(skipped) \in Nat
        /\ Len(output) \in Nat
    <3>1. Len(output) \in Nat
      BY <1>1 DEF StringTyped
    <3> QED
      BY <1>1, <3>1, Finite, Zenon
  <2>3. CASE input_pointer <= input_end
    <3>1. Cardinality(skipped)
            <= Cardinality(Before(input_pointer)) + (input_end - input_pointer)
      BY <1>1, <2>3, AtMostAll
    <3> QED
      BY <1>1, <2>1, <2>2, <3>1
  <2>4. CASE input_pointer > input_end
    <3>1. Before(input_pointer) = skipped
      BY <1>1, <2>4, AllBefore
    <3> QED
      BY <1>1, <2>1, <2>2, <3>1
  <2> QED
    BY <1>1, <2>3, <2>4
<1> QED
  BY <1>2, <1>3

\* For every buffer, parse_string writes only into the room it has asked for.
THEOREM RoomSuffices == StringsSpec => []OutputFits
  BY StringInvInit, StringInvNext, StringInvFits, PTL DEF StringsSpec

-----------------------------------------------------------------------------
(* What print_string_ptr writes                                            *)

\* What the first loop of print_string_ptr counts for a character.
Extra(c) == IF c \in DOMAIN Letter THEN 1 ELSE IF c < 32 THEN 5 ELSE 0

\* A letter of an escape is one that parse_string knows, and is no quote.
LEMMA LetterType ==
  ASSUME NEW c \in DOMAIN Letter
  PROVE  /\ c \in {8, 9, Newline, 12, 13, Quote, Backslash}
         /\ Letter[c] \in DOMAIN Escape /\ Escape[Letter[c]] = c
<1> USE DEF Newline, Quote, Backslash, Slash
<1>1. c \in {8, 9, Newline, 12, 13, Quote, Backslash}
  BY DEF Letter
<1>2. Letter[c] = CHOOSE l \in DOMAIN Escape : Escape[l] = c
  BY <1>1 DEF Letter
<1>3. DOMAIN Escape = {98, 102, 110, 114, 116, Quote, Backslash, Slash}
  BY DEF Escape
<1>4. /\ Escape[98] = 8 /\ Escape[102] = 12 /\ Escape[110] = Newline
      /\ Escape[114] = 13 /\ Escape[116] = 9 /\ Escape[Quote] = Quote
      /\ Escape[Backslash] = Backslash
  BY DEF Escape
<1>5. \E l \in DOMAIN Escape : Escape[l] = c
  BY <1>1, <1>3, <1>4
<1> QED
  BY <1>1, <1>2, <1>5

\* One sequence behind another.
LEMMA Behind ==
  ASSUME NEW s \in Seq(Nat), NEW t \in Seq(Nat)
  PROVE  /\ s \o t \in Seq(Nat) /\ Len(s \o t) = Len(s) + Len(t)
         /\ \A k \in 1 .. Len(s) : (s \o t)[k] = s[k]
         /\ \A k \in 1 .. Len(t) : (s \o t)[Len(s) + k] = t[k]
OBVIOUS

\* Four behind two.
LEMMA FourBehindTwo ==
  ASSUME NEW s \in Seq(Nat), NEW t \in Seq(Nat), Len(s) = 2, Len(t) = 4
  PROVE  LET u == s \o t
         IN  /\ u \in Seq(Nat) /\ Len(u) = 6 /\ u[1] = s[1] /\ u[2] = s[2]
             /\ u[3] = t[1] /\ u[4] = t[2] /\ u[5] = t[3] /\ u[6] = t[4]
<1> DEFINE u == s \o t
<1>1. /\ u \in Seq(Nat) /\ Len(u) = Len(s) + Len(t)
      /\ \A k \in 1 .. Len(s) : u[k] = s[k]
      /\ \A k \in 1 .. Len(t) : u[Len(s) + k] = t[k]
  BY Behind
<1> HIDE DEF u
<1>2. Len(u) = 6 /\ u[1] = s[1] /\ u[2] = s[2]
  BY <1>1
<1>3. \A k \in 1 .. 4 : u[2 + k] = t[k]
  BY <1>1
<1>4. u[2 + 1] = t[1] /\ u[2 + 2] = t[2] /\ u[2 + 3] = t[3] /\ u[2 + 4] = t[4]
  BY <1>3
<1>5. /\ u \in Seq(Nat) /\ Len(u) = 6 /\ u[1] = s[1] /\ u[2] = s[2]
      /\ u[3] = t[1] /\ u[4] = t[2] /\ u[5] = t[3] /\ u[6] = t[4]
  BY <1>1, <1>2, <1>4
<1> QED
  BY <1>5, Zenon DEF u

\* The bytes of a character: one, an escape of two, or one of six of which the
\* first two are \u and the others digits; and what they are.
LEMMA EscapedBytes ==
  ASSUME NEW c \in 1 .. 255
  PROVE  /\ Escaped(c) \in Seq(Nat) /\ Len(Escaped(c)) = 1 + Extra(c)
         /\ Extra(c) \in {0, 1, 5}
         /\ \A j \in 1 .. Len(Escaped(c)) :
              /\ Escaped(c)[j] > 31
              /\ Escaped(c)[j] = Quote => j = 2 /\ Escaped(c)[1] = Backslash
         /\ Extra(c) = 0 => Escaped(c)[1] = c /\ c # Quote /\ c # Backslash
         /\ Extra(c) = 1 => /\ Escaped(c)[1] = Backslash
                            /\ Escaped(c)[2] \in DOMAIN Escape
                            /\ Escape[Escaped(c)[2]] = c
         /\ Extra(c) = 5 => /\ Escaped(c)[1] = Backslash /\ Escaped(c)[2] = LetterU
                            /\ \A j \in 3 .. 6 : Escaped(c)[j] \notin {Quote, Backslash}
<1> USE DEF Newline, Quote, Backslash, Slash, LetterU
<1>1. CASE c \in DOMAIN Letter
  <2>1. Letter[c] \in DOMAIN Escape /\ Escape[Letter[c]] = c
    BY <1>1, LetterType
  <2>2. DOMAIN Escape = {98, 102, 110, 114, 116, Quote, Backslash, Slash}
    BY DEF Escape
  <2>3. Escaped(c) = <<Backslash, Letter[c]>> /\ Extra(c) = 1
    BY <1>1 DEF Escaped, Extra
  <2>4. Letter[c] \in {98, 102, 110, 114, 116, 34, 92, 47}
    BY <2>1, <2>2
  <2> DEFINE e == Escaped(c)
  <2>5. e \in Seq(Nat) /\ Len(e) = 2 /\ e[1] = 92 /\ e[2] = Letter[c]
    BY <2>3, <2>4
  <2> HIDE DEF e
  <2>6. \A j \in 1 .. Len(e) : e[j] > 31 /\ (e[j] = 34 => j = 2 /\ e[1] = 92)
    BY <2>4, <2>5
  <2> QED
    BY <2>1, <2>3, <2>5, <2>6 DEF e
<1>2. CASE c \notin DOMAIN Letter /\ c > 31
  <2>1. Escaped(c) = <<c>> /\ Extra(c) = 0
    BY <1>2 DEF Escaped, Extra
  <2>2. c # Quote /\ c # Backslash
    BY <1>2 DEF Letter
  <2> DEFINE e == Escaped(c)
  <2>3. e \in Seq(Nat) /\ Len(e) = 1 /\ e[1] = c
    BY <2>1
  <2> HIDE DEF e
  <2>4. \A j \in 1 .. Len(e) : e[j] > 31 /\ e[j] # 34
    BY <1>2, <2>2, <2>3
  <2> QED
    BY <2>1, <2>2, <2>3, <2>4 DEF e
<1>3. CASE c \notin DOMAIN Letter /\ c <= 31
  <2> DEFINE D(d) == IF d < 10 THEN 48 + d ELSE 97 + d - 10
  <2>1. Hex4(c) = <<48, 48, D(c \div 16), D(c % 16)>>
    BY DEF Hex4
  <2>2. c \div 16 \in 0 .. 15 /\ c % 16 \in 0 .. 15
    BY <1>3
  <2>3. \A d \in 0 .. 15 : D(d) \in Nat /\ D(d) > 47 /\ D(d) # Backslash
    OBVIOUS
  <2>4. /\ D(c \div 16) \in Nat /\ D(c \div 16) > 47 /\ D(c \div 16) # Backslash
        /\ D(c % 16) \in Nat /\ D(c % 16) > 47 /\ D(c % 16) # Backslash
    BY <2>2, <2>3
  <2>5. Escaped(c) = <<Backslash, LetterU>> \o Hex4(c) /\ Extra(c) = 5
    BY <1>3 DEF Escaped, Extra
  <2> DEFINE p == D(c \div 16)
             q == D(c % 16)
  <2> HIDE DEF D
  <2>6. p \in Nat /\ p > 47 /\ p # 92 /\ q \in Nat /\ q > 47 /\ q # 92
    BY <2>4
  <2>7. Hex4(c) = <<48, 48, p, q>>
    BY <2>1
  <2> HIDE DEF p, q
  <2> DEFINE e == Escaped(c)
             h == Hex4(c)
             u == <<92, 117>>
  <2>8. h \in Seq(Nat) /\ Len(h) = 4 /\ h[1] = 48 /\ h[2] = 48 /\ h[3] = p /\ h[4] = q
    BY <2>6, <2>7
  <2>9. e = u \o h /\ u \in Seq(Nat) /\ Len(u) = 2 /\ u[1] = 92 /\ u[2] = 117
    BY <2>5
  <2> HIDE DEF e, h, u
  <2>10. /\ e \in Seq(Nat) /\ Len(e) = 6 /\ e[1] = u[1] /\ e[2] = u[2]
         /\ e[3] = h[1] /\ e[4] = h[2] /\ e[5] = h[3] /\ e[6] = h[4]
    BY <2>8, <2>9, FourBehindTwo, Zenon
  <2>11. /\ Len(e) = 6 /\ e[1] = 92 /\ e[2] = 117
         /\ e[3] = 48 /\ e[4] = 48 /\ e[5] = p /\ e[6] = q
    BY <2>8, <2>9, <2>10, Zenon
  <2>12. \A j \in 1 .. Len(e) : e[j] > 31 /\ e[j] # 34
    BY <2>6, <2>11
  <2>13. \A j \in 3 .. 6 : e[j] \notin {34, 92}
    BY <2>6, <2>11
  <2>14. Extra(c) = 5 /\ Len(e) = 1 + Extra(c)
    BY <2>5, <2>11
  <2>15. Extra(c) \in {0, 1, 5} /\ ~(Extra(c) = 0) /\ ~(Extra(c) = 1)
    BY <2>14
  <2> QED
    BY <2>10, <2>11, <2>12, <2>13, <2>14, <2>15 DEF e
<1> QED
  BY <1>1, <1>2, <1>3

\* FlattenSeq puts one sequence after the other behind what it has.
LEMMA Flattened ==
  ASSUME NEW p \in Seq(Seq(Nat))
  PROVE  \E f \in [0 .. Len(p) -> Seq(Nat)] :
           /\ f[0] = << >> /\ f[Len(p)] = FlattenSeq(p)
           /\ \A n \in 1 .. Len(p) : f[n] = f[n - 1] \o p[n]
<1> DEFINE D == 0 .. Len(p)
           V == Seq(Nat)
           m == [n \in D |-> n]
           G == [x \in D \X [D -> V] |->
                   IF x[1] = 0 THEN << >> ELSE x[2][x[1] - 1] \o p[x[1]]]
           Step(i, f) == IF i = 1 THEN p[i] ELSE f[i - 1] \o p[i]
           Solution(g) == g = [i \in 1 .. Len(p) |-> Step(i, g)]
           g == CHOOSE g : Solution(g)
<1>1. /\ Len(p) \in Nat /\ \A n \in 1 .. Len(p) : p[n] \in V
      /\ \A n \in D \ {0} : n \in 1 .. Len(p) /\ n - 1 \in D /\ n - 1 < n
      /\ D \subseteq Nat /\ 0 \in D /\ << >> \in V
      /\ \A n \in 1 .. Len(p) : n \in D /\ n - 1 \in D
  OBVIOUS
<1>2. \A s, t \in V : s \o t \in V
  OBVIOUS
<1> HIDE DEF D, V
<1>3. ASSUME NEW x \in D \X [D -> V] PROVE G[x] \in V
  <2>1. x[1] \in D /\ x[2] \in [D -> V]
    OBVIOUS
  <2>2. CASE x[1] = 0
    BY <1>1, <2>1, <2>2
  <2>3. CASE x[1] # 0
    <3>1. x[2][x[1] - 1] \in V /\ p[x[1]] \in V
      BY <1>1, <2>1, <2>3
    <3>2. G[x] = x[2][x[1] - 1] \o p[x[1]]
      BY <2>3
    <3> QED
      BY <1>2, <3>1, <3>2, Zenon
  <2> QED
    BY <2>2, <2>3
<1>4. G \in [D \X [D -> V] -> V]
  BY <1>3
<1>5. ASSUME NEW n \in D, NEW f \in [D -> V], NEW e \in [D -> V],
             \A k \in D : m[k] < m[n] => f[k] = e[k]
      PROVE  G[<<n, f>>] = G[<<n, e>>]
  BY <1>1, <1>5
<1>6. m \in [D -> Nat]
  BY <1>1
<1>7. DescendsAlong(m, G, D, V)
  <2> HIDE DEF m, G
  <2> QED
    BY <1>1, <1>4, <1>5, <1>6 DEF DescendsAlong
<1>8. PICK f \in [D -> V] : \A n \in D : f[n] = G[<<n, f>>]
  <2> HIDE DEF m, G
  <2> QED
    BY <1>7, Recursion
<1>9. f[0] = << >> /\ \A n \in 1 .. Len(p) : f[n] = f[n - 1] \o p[n]
  BY <1>1, <1>8
<1> HIDE DEF m, G
<1>9a. 1 \in 1 .. Len(p) => f[1] = p[1]
  <2>1. \A s \in V : << >> \o s = s
    BY DEF V
  <2>2. ASSUME 1 \in 1 .. Len(p) PROVE f[1] = f[0] \o p[1] /\ p[1] \in V
    <3>1. f[1] = f[1 - 1] \o p[1]
      BY <1>9, <2>2, Zenon
    <3>2. 1 - 1 = 0
      OBVIOUS
    <3> QED
      BY <1>1, <2>2, <3>1, <3>2, Zenon
  <2> QED
    BY <1>9, <2>1, <2>2, Zenon
<1>10. Solution([i \in 1 .. Len(p) |-> f[i]])
  <2>2. ASSUME NEW i \in 1 .. Len(p)
        PROVE  f[i] = Step(i, [j \in 1 .. Len(p) |-> f[j]])
    <3>1. CASE i = 1
      BY <1>9a, <3>1
    <3>2. CASE i # 1
      <4>1. i - 1 \in 1 .. Len(p)
        BY <1>1, <3>2
      <4> QED
        BY <1>9, <3>2, <4>1
    <3> QED
      BY <3>1, <3>2
  <2> HIDE DEF Step
  <2> QED
    BY <2>2
<1>11. Solution(g)
  BY <1>10
<1>12. ASSUME Len(p) # 0 PROVE FlattenSeq(p) = g[Len(p)]
  BY <1>12, Zenon DEF FlattenSeq
<1> HIDE DEF g
<1>13. \A i \in 1 .. Len(p) : g[i] = Step(i, g)
  BY <1>11
<1>14. \A i \in 1 .. Len(p) : g[i] = f[i]
  <2> DEFINE Bad == {i \in 1 .. Len(p) : g[i] # f[i]}
  <2>1. ASSUME Bad # {} PROVE FALSE
    <3>1. PICK i \in Bad : \A j \in Bad : i <= j
      <4>1. Bad \in SUBSET Nat
        BY <1>1
      <4> HIDE DEF Bad
      <4> QED
        BY <2>1, <4>1, LeastNat
    <3>2. CASE i = 1
      <4>1. 1 \in 1 .. Len(p) /\ g[1] = p[1] /\ g[1] # f[1]
        BY <1>13, <3>2
      <4> QED
        BY <1>9a, <4>1
    <3>3. CASE i # 1
      <4>1. i - 1 \in 1 .. Len(p) /\ i - 1 < i
        BY <1>1, <3>3
      <4>2. g[i - 1] = f[i - 1]
        BY <1>1, <3>1, <4>1
      <4> QED
        BY <1>9, <1>13, <3>3, <4>2
    <3> QED
      BY <3>2, <3>3
  <2> QED
    BY <2>1
<1>15. f[Len(p)] = FlattenSeq(p)
  <2>1. CASE Len(p) = 0
    <3>1. p = << >>
      BY <2>1
    <3>2. FlattenSeq(p) = p
      BY <2>1 DEF FlattenSeq
    <3> QED
      BY <1>9, <2>1, <3>1, <3>2
  <2>2. CASE Len(p) # 0
    <3>1. Len(p) \in 1 .. Len(p)
      BY <1>1, <2>2
    <3> QED
      BY <1>12, <1>14, <2>2, <3>1
  <2> QED
    BY <2>1, <2>2
<1> QED
  BY <1>9, <1>15 DEF D, V

\* The greatest of finitely many numbers.
LEMMA Greatest ==
  ASSUME NEW n \in Nat, NEW T \in SUBSET (1 .. n), T # {}
  PROVE  Max(T) \in T /\ \A y \in T : y <= Max(T)
<1> DEFINE U == {n - x : x \in T}
<1>1. U \in SUBSET Nat /\ U # {}
  <2>1. \A x \in T : n - x \in Nat
    OBVIOUS
  <2> QED
    BY <2>1
<1>2. PICK u \in U : \A v \in U : u <= v
  <2> HIDE DEF U
  <2> QED
    BY <1>1, LeastNat
<1>3. PICK x \in T : u = n - x
  BY <1>2
<1>4. \A y \in T : x >= y
  <2>1. ASSUME NEW y \in T PROVE x >= y
    <3>1. n - x <= n - y
      BY <1>2, <1>3
    <3>2. x \in 1 .. n /\ y \in 1 .. n
      OBVIOUS
    <3> QED
      BY <3>1, <3>2
  <2> QED
    BY <2>1
<1>5. \E z \in T : \A y \in T : z >= y
  BY <1>4
<1>6. Max(T) \in T /\ \A y \in T : Max(T) >= y
  BY <1>5 DEF Max
<1> QED
  BY <1>6

\* escape_characters adds up what it counts for one character after the other.
LEMMA Counted ==
  ASSUME NEW s \in Seq(Nat)
  PROVE  \E f \in [0 .. Len(s) -> Nat] :
           /\ f[0] = 0 /\ f[Len(s)] = escape_characters(s)
           /\ \A n \in 1 .. Len(s) : f[n] = f[n - 1] + Extra(s[n])
<1> DEFINE D == SUBSET (1 .. Len(s))
           m == [T \in D |-> IF T = {} THEN 0 ELSE Max(T)]
           G == [x \in D \X [D -> Nat] |->
                   IF x[1] = {} THEN 0
                   ELSE x[2][x[1] \ {Max(x[1])}] + Extra(s[Max(x[1])])]
           Step(T, f) == IF T = {} THEN 0 ELSE f[T \ {Max(T)}] + Extra(s[Max(T)])
           Solution(g) == g = [T \in D |-> Step(T, g)]
           g == CHOOSE g : Solution(g)
<1>1. Len(s) \in Nat /\ \A c : Extra(c) \in Nat
  BY DEF Extra
<1>2. ASSUME NEW T \in D, T # {}
      PROVE  /\ Max(T) \in Nat /\ T \ {Max(T)} \in D
             /\ m[T \ {Max(T)}] < m[T]
  <2>1. Max(T) \in T /\ \A y \in T : y <= Max(T)
    BY <1>1, <1>2, Greatest
  <2>2. T \ {Max(T)} \in D
    OBVIOUS
  <2>3. Max(T) \in 1 .. Len(s)
    BY <2>1
  <2>4. CASE T \ {Max(T)} = {}
    BY <1>1, <1>2, <2>2, <2>3, <2>4
  <2>5. CASE T \ {Max(T)} # {}
    <3>1. Max(T \ {Max(T)}) \in T \ {Max(T)}
      BY <1>1, <2>2, <2>5, Greatest
    <3>2. Max(T \ {Max(T)}) \in 1 .. Len(s) /\ Max(T \ {Max(T)}) < Max(T)
      <4> DEFINE y == Max(T \ {Max(T)})
                 x == Max(T)
      <4>1. y \in T /\ y # x /\ y <= x /\ x \in 1 .. Len(s) /\ y \in 1 .. Len(s)
        BY <2>1, <2>3, <3>1, Zenon
      <4> HIDE DEF x, y
      <4>2. y \in 1 .. Len(s) /\ y < x
        BY <1>1, <4>1
      <4> QED
        BY <4>2 DEF x, y
    <3> QED
      BY <1>1, <1>2, <2>2, <2>3, <2>5, <3>2
  <2> QED
    BY <2>4, <2>5
<1>3. m \in [D -> Nat]
  <2>1. ASSUME NEW T \in D PROVE (IF T = {} THEN 0 ELSE Max(T)) \in Nat
    BY <1>2
  <2> QED
    BY <2>1
<1> HIDE DEF m, D
<1>4. \A x \in D \X [D -> Nat] : G[x] = Step(x[1], x[2])
  OBVIOUS
<1>5. ASSUME NEW T \in D, NEW f \in [D -> Nat] PROVE Step(T, f) \in Nat
  BY <1>1, <1>2
<1>6. G \in [D \X [D -> Nat] -> Nat]
  <2>1. \A x \in D \X [D -> Nat] : G[x] \in Nat
    BY <1>4, <1>5
  <2> QED
    BY <2>1
<1>7. ASSUME NEW T \in D, NEW f \in [D -> Nat], NEW e \in [D -> Nat],
             \A S \in D : m[S] < m[T] => f[S] = e[S]
      PROVE  G[<<T, f>>] = G[<<T, e>>]
  <2>1. Step(T, f) = Step(T, e)
    BY <1>2, <1>7
  <2> QED
    BY <1>4, <2>1
<1>8. DescendsAlong(m, G, D, Nat)
  <2> HIDE DEF G
  <2> QED
    BY <1>3, <1>6, <1>7 DEF DescendsAlong
<1>9. PICK f \in [D -> Nat] : \A T \in D : f[T] = G[<<T, f>>]
  <2> HIDE DEF G
  <2> QED
    BY <1>8, Recursion
<1>10. \A T \in D : f[T] = Step(T, f)
  BY <1>4, <1>9
<1>11. Solution(g)
  <2>1. Solution(f)
    BY <1>10
  <2> QED
    BY <2>1
<1>12. escape_characters(s) = g[1 .. Len(s)]
  <2>1. DOMAIN s = 1 .. Len(s)
    OBVIOUS
  <2> QED
    BY <2>1, Zenon DEF escape_characters, FoldLeft, MapThenFoldSet, D, Extra
<1> HIDE DEF g
<1>13. \A T \in D : g[T] = Step(T, g)
  BY <1>11
<1> DEFINE count == [n \in 0 .. Len(s) |-> g[1 .. n]]
<1>14. \A n \in 0 .. Len(s) : 1 .. n \in D
  BY <1>1 DEF D
<1>15. count[0] = 0
  <2>1. 1 .. 0 = {}
    OBVIOUS
  <2>2. {} \in D /\ 0 \in 0 .. Len(s)
    BY <1>1 DEF D
  <2>3. g[1 .. 0] = 0
    BY <1>13, <2>1, <2>2
  <2> QED
    BY <2>2, <2>3
<1>16. ASSUME NEW n \in 1 .. Len(s) PROVE count[n] = count[n - 1] + Extra(s[n])
  <2>1. n \in Nat /\ n # 0 /\ n \in 0 .. Len(s) /\ n - 1 \in 0 .. Len(s)
    BY <1>1
  <2>2. 1 .. n \in SUBSET (1 .. n) /\ 1 .. n # {} /\ n \in 1 .. n
    <3>1. n \in 1 .. n
      BY <2>1
    <3> QED
      BY <3>1, Zenon
  <2>3. Max(1 .. n) \in 1 .. n /\ \A y \in 1 .. n : y <= Max(1 .. n)
    BY <2>1, <2>2, Greatest
  <2>4. Max(1 .. n) = n
    BY <2>1, <2>2, <2>3
  <2>5. (1 .. n) \ {n} = 1 .. n - 1
    <3>1. \A k : k \in 1 .. n /\ k # n <=> k \in 1 .. n - 1
      BY <2>1
    <3> QED
      BY <3>1, Zenon
  <2>6. g[1 .. n] = g[1 .. n - 1] + Extra(s[n])
    BY <1>13, <1>14, <2>1, <2>2, <2>4, <2>5
  <2> QED
    BY <2>1, <2>6
<1>17. \A n \in 0 .. Len(s) : count[n] \in Nat
  <2> DEFINE Bad == {n \in 0 .. Len(s) : count[n] \notin Nat}
  <2>1. ASSUME Bad # {} PROVE FALSE
    <3>1. PICK n \in Bad : \A k \in Bad : n <= k
      <4>1. Bad \in SUBSET Nat
        BY <1>1
      <4> HIDE DEF Bad
      <4> QED
        BY <2>1, <4>1, LeastNat
    <3> HIDE DEF count
    <3>2. n # 0
      BY <1>15, <3>1
    <3>3. n \in 1 .. Len(s) /\ n - 1 \in 0 .. Len(s) /\ n - 1 < n
      BY <1>1, <3>1, <3>2
    <3>4. count[n - 1] \in Nat
      BY <1>1, <3>1, <3>3
    <3> QED
      BY <1>1, <1>16, <3>1, <3>3, <3>4
  <2> QED
    BY <2>1
<1>18. count \in [0 .. Len(s) -> Nat]
  BY <1>17
<1>19. count[Len(s)] = escape_characters(s)
  BY <1>1, <1>12
<1> HIDE DEF count
<1> QED
  BY <1>15, <1>16, <1>18, <1>19

\* Strings as C has them: bytes other than NUL.
CStrings == Seq(1 .. 255)

\* The characters of a C string are numbers.
LEMMA CStringType ==
  ASSUME NEW s \in CStrings
  PROVE  s \in Seq(Nat) /\ Len(s) \in Nat /\ \A n \in 1 .. Len(s) : s[n] \in 1 .. 255
<1> USE DEF CStrings
<1>1. Len(s) \in Nat
  OBVIOUS
<1>2. \A n \in 1 .. Len(s) : s[n] \in 1 .. 255
  BY ElementOfSeq
<1>3. s \in Seq(Nat)
  <2>1. 1 .. 255 \subseteq Nat
    OBVIOUS
  <2> QED
    BY <2>1, SeqMonotonic
<1> QED
  BY <1>1, <1>2, <1>3

\* The pieces of a printed string.
Pieces(s) == [n \in DOMAIN s |-> Escaped(s[n])]

\* at[n] is the position behind the escape of the n-th character of s in its
\* printed text P, at[0] the one behind the opening quote.
IsLayout(P, s, at) ==
  /\ P \in Seq(Nat) /\ at \in [0 .. Len(s) -> Nat]
  /\ P[1] = Quote /\ at[0] = 2
  /\ Len(P) = at[Len(s)] /\ P[at[Len(s)]] = Quote
  /\ \A n \in 1 .. Len(s) :
       /\ at[n] = at[n - 1] + Len(Escaped(s[n]))
       /\ \A j \in 1 .. Len(Escaped(s[n])) : P[at[n - 1] + (j - 1)] = Escaped(s[n])[j]

\* The pieces put together: where each one is, and how long all of them are.
LEMMA Body ==
  ASSUME NEW s \in CStrings
  PROVE  /\ FlattenSeq(Pieces(s)) \in Seq(Nat)
         /\ Len(FlattenSeq(Pieces(s))) = Len(s) + escape_characters(s)
         /\ \E len \in [0 .. Len(s) -> Nat] :
              /\ len[0] = 0 /\ len[Len(s)] = Len(FlattenSeq(Pieces(s)))
              /\ \A n \in 1 .. Len(s) :
                   /\ len[n] = len[n - 1] + Len(Escaped(s[n]))
                   /\ \A j \in 1 .. Len(Escaped(s[n])) :
                        /\ len[n - 1] + j \in 1 .. Len(FlattenSeq(Pieces(s)))
                        /\ FlattenSeq(Pieces(s))[len[n - 1] + j] = Escaped(s[n])[j]
<1> DEFINE p == Pieces(s)
<1>1. s \in Seq(Nat) /\ Len(s) \in Nat /\ \A n \in 1 .. Len(s) : s[n] \in 1 .. 255
  BY CStringType
<1>2. p \in Seq(Seq(Nat)) /\ Len(p) = Len(s) /\ \A n \in 1 .. Len(s) : p[n] = Escaped(s[n])
  <2>1. \A n \in 1 .. Len(s) : Escaped(s[n]) \in Seq(Nat)
    BY <1>1, EscapedBytes
  <2>2. DOMAIN s = 1 .. Len(s)
    BY <1>1
  <2>3. p = [n \in 1 .. Len(s) |-> Escaped(s[n])]
    BY <2>2 DEF Pieces
  <2> HIDE DEF p
  <2> QED
    <3>1. p \in [1 .. Len(s) -> Seq(Nat)]
      BY <2>1, <2>3
    <3>2. \A n \in 1 .. Len(s) : p[n] = Escaped(s[n])
      BY <2>3
    <3>3. p \in Seq(Seq(Nat)) /\ Len(p) = Len(s)
      BY <1>1, <3>1
    <3> QED
      BY <3>2, <3>3
<1> HIDE DEF p
<1>3. PICK f \in [0 .. Len(s) -> Seq(Nat)] :
        /\ f[0] = << >> /\ f[Len(s)] = FlattenSeq(p)
        /\ \A n \in 1 .. Len(s) : f[n] = f[n - 1] \o p[n]
  <2>1. \E f \in [0 .. Len(p) -> Seq(Nat)] :
          /\ f[0] = << >> /\ f[Len(p)] = FlattenSeq(p)
          /\ \A n \in 1 .. Len(p) : f[n] = f[n - 1] \o p[n]
    BY <1>2, Flattened
  <2> QED
    BY <1>2, <2>1
<1>4. PICK count \in [0 .. Len(s) -> Nat] :
        /\ count[0] = 0 /\ count[Len(s)] = escape_characters(s)
        /\ \A n \in 1 .. Len(s) : count[n] = count[n - 1] + Extra(s[n])
  BY <1>1, Counted
<1> DEFINE len == [n \in 0 .. Len(s) |-> Len(f[n])]
<1>5. /\ Len(s) \in 0 .. Len(s) /\ 0 \in 0 .. Len(s)
      /\ \A n \in 1 .. Len(s) : n - 1 \in 0 .. Len(s) /\ n \in 0 .. Len(s)
  BY <1>1
<1>5a. /\ \A n \in 0 .. Len(s) : f[n] \in Seq(Nat) /\ len[n] = Len(f[n])
       /\ \A n \in 1 .. Len(s) : p[n] \in Seq(Nat)
  <2>1. \A n \in 1 .. Len(s) : p[n] \in Seq(Nat)
    BY <1>2, ElementOfSeq
  <2>2. \A n \in 0 .. Len(s) : f[n] \in Seq(Nat)
    OBVIOUS
  <2> QED
    BY <2>1, <2>2
<1>5b. \A n \in 0 .. Len(s) : len[n] \in Nat /\ count[n] \in Nat
  BY <1>5a
<1>5c. len \in [0 .. Len(s) -> Nat] /\ len[0] = 0
  BY <1>3, <1>5, <1>5b
<1> HIDE DEF len
<1> DEFINE wide(n) == Len(Escaped(s[n]))
<1>6. ASSUME NEW n \in 1 .. Len(s)
      PROVE  /\ len[n] = len[n - 1] + wide(n)
             /\ \A k \in 1 .. len[n - 1] : f[n][k] = f[n - 1][k]
             /\ \A j \in 1 .. wide(n) : f[n][len[n - 1] + j] = Escaped(s[n])[j]
             /\ wide(n) = 1 + Extra(s[n]) /\ Extra(s[n]) \in {0, 1, 5}
  <2> DEFINE u == f[n - 1]
  <2>1. f[n] = u \o p[n] /\ u \in Seq(Nat) /\ p[n] \in Seq(Nat)
    BY <1>3, <1>5, <1>5a
  <2> HIDE DEF u
  <2>2. /\ Len(u \o p[n]) = Len(u) + Len(p[n])
        /\ \A k \in 1 .. Len(u) : (u \o p[n])[k] = u[k]
        /\ \A j \in 1 .. Len(p[n]) : (u \o p[n])[Len(u) + j] = p[n][j]
    BY <2>1, Behind
  <2>3. len[n] = Len(f[n]) /\ len[n - 1] = Len(u)
    BY <1>5, <1>5a DEF u
  <2>4. p[n] = Escaped(s[n])
    BY <1>2, Zenon
  <2>5. wide(n) = 1 + Extra(s[n]) /\ Extra(s[n]) \in {0, 1, 5}
    BY <1>1, EscapedBytes
  <2>6. /\ len[n] = len[n - 1] + wide(n)
        /\ \A k \in 1 .. len[n - 1] : f[n][k] = u[k]
        /\ \A j \in 1 .. wide(n) : f[n][len[n - 1] + j] = Escaped(s[n])[j]
    BY <2>1, <2>2, <2>3, <2>4, Zenon
  <2> QED
    BY <2>5, <2>6 DEF u
<1> HIDE DEF wide
<1> DEFINE Fits(m) == \A n \in 1 .. m : len[n] <= len[m]
           Same(m) == \A n \in 1 .. m : \A k \in 1 .. len[n] : f[m][k] = f[n][k]
           Counts(m) == len[m] = m + count[m]
           Good(m) == Fits(m) /\ Same(m) /\ Counts(m)
           Bad == {m \in 0 .. Len(s) : ~Good(m)}
<1>7. ASSUME NEW m \in 1 .. Len(s), Good(m - 1) PROVE Good(m)
  <2>1. m - 1 \in 0 .. Len(s) /\ m \in 0 .. Len(s) /\ m \in Nat /\ m - 1 \in Nat
    BY <1>1
  <2>2. /\ len[m] = len[m - 1] + wide(m) /\ wide(m) = 1 + Extra(s[m])
        /\ Extra(s[m]) \in {0, 1, 5} /\ count[m] = count[m - 1] + Extra(s[m])
    BY <1>4, <1>6
  <2>3. /\ len[m] \in Nat /\ len[m - 1] \in Nat /\ count[m] \in Nat
        /\ count[m - 1] \in Nat /\ len[m - 1] <= len[m]
    BY <1>5b, <2>1, <2>2
  <2>4. Counts(m)
    BY <1>7, <2>1, <2>2, <2>3
  <2>5. ASSUME NEW n \in 1 .. m
        PROVE  len[n] <= len[m] /\ \A k \in 1 .. len[n] : f[m][k] = f[n][k]
    <3>1. CASE n = m
      BY <2>3, <3>1
    <3>2. CASE n # m
      <4>1. n \in 1 .. m - 1 /\ n \in 0 .. Len(s)
        BY <1>1, <2>1, <3>2
      <4>2. len[n] <= len[m - 1] /\ len[n] \in Nat
        BY <1>5b, <1>7, <4>1
      <4>3. ASSUME NEW k \in 1 .. len[n] PROVE f[m][k] = f[n][k]
        <5>1. k \in 1 .. len[m - 1]
          BY <2>3, <4>2
        <5>2. f[m][k] = f[m - 1][k]
          BY <1>6, <5>1
        <5>3. f[m - 1][k] = f[n][k]
          BY <1>7, <4>1
        <5> QED
          BY <5>2, <5>3
      <4> QED
        BY <2>3, <4>2, <4>3
    <3> QED
      BY <3>1, <3>2
  <2> QED
    BY <2>4, <2>5
<1>7a. Good(0)
  BY <1>4, <1>5c
<1>7b. Bad = {}
  <2> SUFFICES ASSUME Bad # {} PROVE FALSE
    OBVIOUS
  <2> HIDE DEF Good
  <2>1. Bad \in SUBSET Nat
    OBVIOUS
  <2>2. PICK m \in Bad : \A k \in Bad : m <= k
    <3> HIDE DEF Bad
    <3> QED
      BY <2>1, LeastNat
  <2>3. m \in 0 .. Len(s) /\ ~Good(m) /\ m # 0
    BY <1>7a, <2>2
  <2>4. m \in 1 .. Len(s) /\ m - 1 \in 0 .. Len(s) /\ m - 1 < m /\ m \in Nat
    BY <1>1, <2>3
  <2>5. m - 1 \notin Bad
    <3> HIDE DEF Bad
    <3> QED
      BY <1>1, <2>2, <2>4
  <2>6. Good(m - 1)
    BY <2>4, <2>5
  <2> QED
    BY <1>7, <2>3, <2>4, <2>6
<1>8. ASSUME NEW m \in 0 .. Len(s) PROVE Good(m)
  BY <1>7b
<1> HIDE DEF Bad
<1>9. FlattenSeq(p) \in Seq(Nat) /\ Len(FlattenSeq(p)) = Len(s) + escape_characters(s)
  <2>1. len[Len(s)] = Len(s) + count[Len(s)]
    BY <1>5, <1>8
  <2> QED
    BY <1>3, <1>4, <1>5, <1>5a, <2>1
<1>10. len[Len(s)] = Len(FlattenSeq(p))
  BY <1>3, <1>5, <1>5a
<1>11. ASSUME NEW n \in 1 .. Len(s)
       PROVE  /\ len[n] = len[n - 1] + wide(n)
              /\ \A j \in 1 .. wide(n) :
                   /\ len[n - 1] + j \in 1 .. Len(FlattenSeq(p))
                   /\ FlattenSeq(p)[len[n - 1] + j] = Escaped(s[n])[j]
  <2>1. /\ len[n] \in Nat /\ len[n - 1] \in Nat /\ len[Len(s)] \in Nat
        /\ len[n] = len[n - 1] + wide(n) /\ wide(n) \in Nat
    <3>1. wide(n) = 1 + Extra(s[n]) /\ Extra(s[n]) \in {0, 1, 5}
      BY <1>6
    <3>2. wide(n) \in Nat
      BY <3>1
    <3> QED
      BY <1>5, <1>5b, <1>6, <3>2
  <2>2. /\ len[n] <= len[Len(s)]
        /\ \A k \in 1 .. len[n] : f[Len(s)][k] = f[n][k]
    BY <1>5, <1>8
  <2>3. ASSUME NEW j \in 1 .. wide(n)
        PROVE  /\ len[n - 1] + j \in 1 .. Len(FlattenSeq(p))
               /\ FlattenSeq(p)[len[n - 1] + j] = Escaped(s[n])[j]
    <3>1. len[n - 1] + j \in 1 .. len[n] /\ len[n - 1] + j \in 1 .. len[Len(s)]
      BY <2>1, <2>2
    <3>2. f[n][len[n - 1] + j] = Escaped(s[n])[j]
      BY <1>6
    <3>3. f[Len(s)][len[n - 1] + j] = f[n][len[n - 1] + j]
      BY <2>2, <3>1
    <3> QED
      BY <1>3, <1>10, <3>1, <3>2, <3>3
  <2> QED
    BY <2>1, <2>3
<1> HIDE DEF Fits, Same, Counts
<1>12. \A n \in 1 .. Len(s) :
         /\ len[n] = len[n - 1] + Len(Escaped(s[n]))
         /\ \A j \in 1 .. Len(Escaped(s[n])) :
              /\ len[n - 1] + j \in 1 .. Len(FlattenSeq(p))
              /\ FlattenSeq(p)[len[n - 1] + j] = Escaped(s[n])[j]
  BY <1>11 DEF wide
<1> QED
  BY <1>5c, <1>9, <1>10, <1>12, Zenon DEF p

\* What is printed of s: its pieces between two quotes.
Quoted(s) == <<Quote>> \o FlattenSeq(Pieces(s)) \o <<Quote>>

\* A sequence between two quotes.
LEMMA Between ==
  ASSUME NEW body \in Seq(Nat)
  PROVE  LET P == <<Quote>> \o body \o <<Quote>>
         IN  /\ P \in Seq(Nat) /\ Len(P) = Len(body) + 2
             /\ P[1] = Quote /\ P[Len(body) + 2] = Quote
             /\ \A k \in 1 .. Len(body) : P[k + 1] = body[k]
<1> DEFINE u == <<Quote>> \o body
           q == <<Quote>>
<1>1. q \in Seq(Nat) /\ Len(q) = 1 /\ q[1] = Quote
  BY DEF Quote
<1>2. u = q \o body
  OBVIOUS
<1>3. /\ q \o body \in Seq(Nat) /\ Len(q \o body) = Len(q) + Len(body)
      /\ \A k \in 1 .. Len(q) : (q \o body)[k] = q[k]
      /\ \A k \in 1 .. Len(body) : (q \o body)[Len(q) + k] = body[k]
  <2> HIDE DEF q
  <2> QED
    BY <1>1, Behind
<1> HIDE DEF u, q
<1>4. /\ u \in Seq(Nat) /\ Len(u) = 1 + Len(body) /\ u[1] = Quote
      /\ \A k \in 1 .. Len(body) : u[1 + k] = body[k]
  <2>1. 1 \in 1 .. Len(q)
    BY <1>1
  <2> QED
    BY <1>1, <1>2, <1>3, <2>1, Zenon
<1>5. /\ u \o q \in Seq(Nat) /\ Len(u \o q) = Len(u) + Len(q)
      /\ \A k \in 1 .. Len(u) : (u \o q)[k] = u[k]
      /\ \A k \in 1 .. Len(q) : (u \o q)[Len(u) + k] = q[k]
  BY <1>1, <1>4, Behind
<1> DEFINE P == u \o q
<1> HIDE DEF P
<1>6. Len(body) \in Nat
  OBVIOUS
<1>7. P \in Seq(Nat) /\ Len(P) = Len(body) + 2 /\ P[1] = Quote /\ P[Len(body) + 2] = Quote
  <2>1. 1 \in 1 .. Len(u) /\ 1 \in 1 .. Len(q) /\ Len(u) + 1 = Len(body) + 2
    BY <1>1, <1>4, <1>6
  <2>2. P[1] = u[1] /\ P[Len(u) + 1] = q[1]
    BY <1>5, <2>1 DEF P
  <2>3. P \in Seq(Nat) /\ Len(P) = Len(u) + Len(q)
    BY <1>5 DEF P
  <2> QED
    BY <1>1, <1>4, <1>6, <2>1, <2>2, <2>3
<1>8. ASSUME NEW k \in 1 .. Len(body) PROVE P[k + 1] = body[k]
  <2>1. 1 + k \in 1 .. Len(u) /\ 1 + k = k + 1
    BY <1>4, <1>6
  <2>2. P[1 + k] = u[1 + k]
    BY <1>5, <2>1 DEF P
  <2> QED
    BY <1>4, <2>1, <2>2
<1> QED
  BY <1>7, <1>8, Zenon DEF P, u, q

\* The length that print_string_ptr computes in its first loop is the length
\* of what its second loop writes: the closing quote, which is put where that
\* length says, is right behind the last character and cuts nothing off.
THEOREM LengthIsExact ==
  ASSUME NEW s \in CStrings
  PROVE  /\ print_string_ptr(s) = Quoted(s)
         /\ Len(print_string_ptr(s)) = Len(s) + escape_characters(s) + 2
<1> DEFINE body == FlattenSeq(Pieces(s))
<1>1. body \in Seq(Nat) /\ Len(body) = Len(s) + escape_characters(s)
  BY Body
<1>2. print_string_ptr(s) = <<Quote>> \o SubSeq(body, 1, Len(body)) \o <<Quote>>
  BY <1>1, Zenon DEF print_string_ptr, Pieces
<1> HIDE DEF body
<1>3. SubSeq(body, 1, Len(body)) = body
  BY <1>1
<1>4. print_string_ptr(s) = Quoted(s)
  BY <1>2, <1>3 DEF Quoted, body
<1>5. Len(Quoted(s)) = Len(body) + 2
  BY <1>1, Between, Zenon DEF Quoted, body
<1> QED
  BY <1>1, <1>4, <1>5

\* A printed string has a layout.
LEMMA Layout ==
  ASSUME NEW s \in CStrings
  PROVE  \E at : IsLayout(print_string_ptr(s), s, at)
<1> DEFINE body == FlattenSeq(Pieces(s))
           P == Quoted(s)
<1>1. body \in Seq(Nat) /\ Len(body) \in Nat
  BY Body
<1>2. PICK len \in [0 .. Len(s) -> Nat] :
        /\ len[0] = 0 /\ len[Len(s)] = Len(body)
        /\ \A n \in 1 .. Len(s) :
             /\ len[n] = len[n - 1] + Len(Escaped(s[n]))
             /\ \A j \in 1 .. Len(Escaped(s[n])) :
                  /\ len[n - 1] + j \in 1 .. Len(body)
                  /\ body[len[n - 1] + j] = Escaped(s[n])[j]
  BY Body
<1> HIDE DEF body
<1>3. /\ P \in Seq(Nat) /\ Len(P) = Len(body) + 2
      /\ P[1] = Quote /\ P[Len(body) + 2] = Quote
      /\ \A k \in 1 .. Len(body) : P[k + 1] = body[k]
  BY <1>1, Between, Zenon DEF Quoted, body
<1> HIDE DEF P
<1> DEFINE at == [n \in 0 .. Len(s) |-> len[n] + 2]
<1>4. /\ Len(s) \in Nat /\ \A n \in 1 .. Len(s) : n \in 0 .. Len(s) /\ n - 1 \in 0 .. Len(s)
      /\ \A n \in 0 .. Len(s) : len[n] \in Nat
      /\ 0 \in 0 .. Len(s) /\ Len(s) \in 0 .. Len(s)
  BY CStringType
<1>5. at \in [0 .. Len(s) -> Nat] /\ at[0] = 2 /\ at[Len(s)] = Len(body) + 2
  BY <1>2, <1>4
<1>6. ASSUME NEW n \in 1 .. Len(s)
      PROVE  /\ at[n] = at[n - 1] + Len(Escaped(s[n]))
             /\ \A j \in 1 .. Len(Escaped(s[n])) : P[at[n - 1] + (j - 1)] = Escaped(s[n])[j]
  <2> DEFINE wide == Len(Escaped(s[n]))
  <2>1. /\ at[n] = len[n] + 2 /\ at[n - 1] = len[n - 1] + 2
        /\ len[n] \in Nat /\ len[n - 1] \in Nat
    BY <1>4
  <2>2. Escaped(s[n]) \in Seq(Nat)
    BY CStringType, EscapedBytes
  <2>3. wide \in Nat /\ len[n] = len[n - 1] + wide
    BY <1>2, <2>2
  <2>4. \A j \in 1 .. wide : /\ len[n - 1] + j \in 1 .. Len(body)
                             /\ body[len[n - 1] + j] = Escaped(s[n])[j]
    BY <1>2
  <2> HIDE DEF wide, at
  <2>5. ASSUME NEW j \in 1 .. wide PROVE P[at[n - 1] + (j - 1)] = Escaped(s[n])[j]
    <3>1. at[n - 1] + (j - 1) = (len[n - 1] + j) + 1
      BY <2>1, <2>3
    <3>2. P[(len[n - 1] + j) + 1] = body[len[n - 1] + j]
      BY <1>3, <2>4
    <3> QED
      BY <2>4, <3>1, <3>2
  <2>6. at[n] = at[n - 1] + wide
    BY <2>1, <2>3
  <2> QED
    BY <2>5, <2>6 DEF wide
<1> HIDE DEF at
<1>7. IsLayout(P, s, at)
  BY <1>1, <1>3, <1>5, <1>6 DEF IsLayout
<1> QED
  BY <1>7, LengthIsExact DEF P

\* Where the escapes begin: each one behind the one before it, all in the text.
LEMMA LayoutBounds ==
  ASSUME NEW s \in CStrings, NEW P, NEW at, IsLayout(P, s, at)
  PROVE  /\ P \in Seq(Nat) /\ Len(P) \in Nat /\ Len(s) \in Nat
         /\ \A n \in 0 .. Len(s) : at[n] \in Nat /\ at[n] >= 2 /\ at[n] <= Len(P) - (Len(s) - n)
         /\ \A n \in 1 .. Len(s) : /\ at[n] = at[n - 1] + 1 + Extra(s[n])
                                   /\ Extra(s[n]) \in {0, 1, 5} /\ Extra(s[n]) \in Nat
<1>1. Len(s) \in Nat /\ \A n \in 1 .. Len(s) : s[n] \in 1 .. 255
  BY CStringType
<1>2. /\ P \in Seq(Nat) /\ at \in [0 .. Len(s) -> Nat] /\ at[0] = 2 /\ Len(P) = at[Len(s)]
      /\ \A n \in 1 .. Len(s) : at[n] = at[n - 1] + Len(Escaped(s[n]))
  BY DEF IsLayout
<1>3. /\ \A n \in 0 .. Len(s) : at[n] \in Nat
      /\ \A n \in 1 .. Len(s) : n \in 0 .. Len(s) /\ n - 1 \in 0 .. Len(s)
  <2>1. \A n \in 1 .. Len(s) : n \in 0 .. Len(s) /\ n - 1 \in 0 .. Len(s)
    BY <1>1
  <2> QED
    BY <1>2, <2>1
<1>4. ASSUME NEW n \in 1 .. Len(s)
      PROVE  /\ at[n] = at[n - 1] + 1 + Extra(s[n]) /\ Extra(s[n]) \in {0, 1, 5}
             /\ Extra(s[n]) \in Nat /\ at[n] > at[n - 1]
  <2>1. Len(Escaped(s[n])) = 1 + Extra(s[n]) /\ Extra(s[n]) \in {0, 1, 5}
    BY <1>1, EscapedBytes
  <2>2. at[n] = at[n - 1] + (1 + Extra(s[n])) /\ at[n - 1] \in Nat
    BY <1>2, <1>3, <2>1
  <2>3. Extra(s[n]) \in Nat
    BY <2>1
  <2> QED
    <3> DEFINE e == Extra(s[n])
    <3>1. at[n] = at[n - 1] + (1 + e) /\ at[n - 1] \in Nat /\ e \in Nat
      BY <2>2, <2>3
    <3> HIDE DEF e
    <3>2. at[n] = at[n - 1] + 1 + e /\ at[n] > at[n - 1]
      BY <3>1
    <3> QED
      BY <2>1, <2>3, <3>2 DEF e
<1> DEFINE Low == {n \in 0 .. Len(s) : ~(at[n] >= 2)}
           High == {k \in 0 .. Len(s) : ~(at[Len(s) - k] <= at[Len(s)] - k)}
<1>5. Low = {}
  <2> SUFFICES ASSUME Low # {} PROVE FALSE
    OBVIOUS
  <2>1. PICK n \in Low : \A k \in Low : n <= k
    <3>1. Low \in SUBSET Nat
      BY <1>1
    <3> HIDE DEF Low
    <3> QED
      BY <3>1, LeastNat
  <2>2. n \in 0 .. Len(s) /\ ~(at[n] >= 2) /\ n # 0
    BY <1>2, <2>1
  <2>3. n \in 1 .. Len(s) /\ n - 1 \in 0 .. Len(s) /\ n - 1 < n
    BY <1>1, <2>2
  <2>4. at[n - 1] >= 2
    <3>1. n - 1 \notin Low
      <4> HIDE DEF Low
      <4> QED
        BY <1>1, <2>1, <2>3
    <3> QED
      BY <2>3, <3>1
  <2> HIDE DEF Low
  <2>5. at[n] > at[n - 1] /\ at[n] \in Nat /\ at[n - 1] \in Nat
    BY <1>3, <1>4, <2>3
  <2> QED
    BY <2>2, <2>4, <2>5
<1>6. High = {}
  <2> SUFFICES ASSUME High # {} PROVE FALSE
    OBVIOUS
  <2>1. PICK k \in High : \A i \in High : k <= i
    <3>1. High \in SUBSET Nat
      BY <1>1
    <3> HIDE DEF High
    <3> QED
      BY <3>1, LeastNat
  <2>2. k \in 0 .. Len(s) /\ ~(at[Len(s) - k] <= at[Len(s)] - k)
    BY <2>1
  <2>3. k # 0
    <3>1. Len(s) - 0 = Len(s) /\ at[Len(s)] \in Nat
      BY <1>1, <1>3
    <3> QED
      BY <2>2, <3>1
  <2>4. k - 1 \in 0 .. Len(s) /\ k - 1 < k
    BY <1>1, <2>2, <2>3
  <2>5. at[Len(s) - (k - 1)] <= at[Len(s)] - (k - 1)
    <3>1. k - 1 \notin High
      <4> HIDE DEF High
      <4> QED
        BY <1>1, <2>1, <2>2, <2>4
    <3> QED
      BY <2>4, <3>1
  <2> HIDE DEF High
  <2> DEFINE n == Len(s) - (k - 1)
  <2>6. n \in 1 .. Len(s) /\ n - 1 = Len(s) - k
    BY <1>1, <2>2, <2>3
  <2> HIDE DEF n
  <2>7. at[n] > at[n - 1]
    BY <1>4, <2>6
  <2>8. at[n] \in Nat /\ at[n - 1] \in Nat /\ at[Len(s)] \in Nat
    BY <1>1, <1>3, <2>6
  <2>9. at[n] <= at[Len(s)] - (k - 1)
    BY <2>5 DEF n
  <2>10. ~(at[n - 1] <= at[Len(s)] - k) /\ k \in Nat
    BY <1>1, <2>2, <2>6
  <2> QED
    BY <2>7, <2>8, <2>9, <2>10
<1>7. ASSUME NEW n \in 0 .. Len(s) PROVE at[n] >= 2 /\ at[n] <= Len(P) - (Len(s) - n)
  <2>1. Len(s) - n \in 0 .. Len(s) /\ Len(s) - (Len(s) - n) = n
    BY <1>1
  <2>2. at[Len(s) - (Len(s) - n)] <= at[Len(s)] - (Len(s) - n)
    BY <1>6, <2>1
  <2> QED
    BY <1>2, <1>5, <2>1, <2>2
<1> QED
  BY <1>1, <1>2, <1>3, <1>4, <1>7

\* What is at the position k is a byte of the escape of a character.
InEscape(P, s, at, k) ==
  \E n \in 1 .. Len(s) : \E j \in 1 .. Len(Escaped(s[n])) :
    k = at[n - 1] + (j - 1) /\ P[k] = Escaped(s[n])[j]

\* Between the quotes of a printed text there is nothing else.
LEMMA Located ==
  ASSUME NEW s \in CStrings, NEW P, NEW at, IsLayout(P, s, at), NEW k \in 2 .. Len(P) - 1
  PROVE  InEscape(P, s, at, k)
<1>1. /\ Len(P) \in Nat /\ Len(s) \in Nat
      /\ \A n \in 0 .. Len(s) : at[n] \in Nat
      /\ \A n \in 1 .. Len(s) : at[n] = at[n - 1] + 1 + Extra(s[n]) /\ Extra(s[n]) \in Nat
  BY LayoutBounds
<1>2. at[0] = 2 /\ at[Len(s)] = Len(P)
  BY DEF IsLayout
<1> DEFINE T == {n \in 0 .. Len(s) : at[n] > k}
<1>3. PICK n \in T : \A i \in T : n <= i
  <2>1. T \in SUBSET Nat /\ Len(s) \in T
    BY <1>1, <1>2
  <2> HIDE DEF T
  <2> QED
    BY <2>1, LeastNat
<1>4. n \in 0 .. Len(s) /\ at[n] > k /\ n # 0
  BY <1>2, <1>3
<1>5. n \in 1 .. Len(s) /\ n - 1 \in 0 .. Len(s) /\ n - 1 < n
  BY <1>1, <1>4
<1>6. at[n - 1] <= k
  <2>1. n - 1 \notin T
    <3> HIDE DEF T
    <3> QED
      BY <1>1, <1>3, <1>5
  <2>2. at[n - 1] \in Nat /\ ~(at[n - 1] > k)
    BY <1>1, <1>5, <2>1, Zenon
  <2> HIDE DEF T
  <2> QED
    BY <2>2
<1> HIDE DEF T
<1>7. Len(Escaped(s[n])) = 1 + Extra(s[n])
  BY <1>5, CStringType, EscapedBytes
<1> DEFINE j == k - at[n - 1] + 1
<1>8. j \in 1 .. Len(Escaped(s[n])) /\ k = at[n - 1] + (j - 1)
  <2>1. /\ at[n - 1] \in Nat /\ at[n] = at[n - 1] + 1 + Extra(s[n])
        /\ Extra(s[n]) \in Nat /\ k \in Nat
    BY <1>1, <1>5
  <2>2. at[n] > k /\ at[n - 1] <= k
    BY <1>4, <1>6
  <2> QED
    BY <1>7, <2>1, <2>2
<1> HIDE DEF j
<1>9. P[at[n - 1] + (j - 1)] = Escaped(s[n])[j]
  BY <1>5, <1>8 DEF IsLayout
<1> QED
  BY <1>5, <1>8, <1>9 DEF InEscape

\* Printed texts have no control characters and no NUL, and a quote in them
\* that is not their first or last character has a backslash in front of it.
LEMMA PrintedChars ==
  ASSUME NEW s \in CStrings, NEW P, NEW at, IsLayout(P, s, at)
  PROVE  /\ \A k \in 1 .. Len(P) : P[k] > 31
         /\ \A k \in 2 .. Len(P) - 1 :
              P[k] = Quote => k > 2 /\ P[k - 1] = Backslash
<1>1. /\ Len(P) \in Nat /\ Len(s) \in Nat
      /\ \A n \in 0 .. Len(s) : at[n] \in Nat /\ at[n] >= 2
  BY LayoutBounds
<1>2. P[1] = Quote /\ P[Len(P)] = Quote
  BY DEF IsLayout
<1>3. ASSUME NEW k \in 2 .. Len(P) - 1
      PROVE  /\ P[k] > 31
             /\ P[k] = Quote => k > 2 /\ P[k - 1] = Backslash
  <2>1. PICK n \in 1 .. Len(s) : \E j \in 1 .. Len(Escaped(s[n])) :
          k = at[n - 1] + (j - 1) /\ P[k] = Escaped(s[n])[j]
    <3>1. InEscape(P, s, at, k)
      BY Located
    <3> QED
      BY <3>1 DEF InEscape
  <2>2. PICK j \in 1 .. Len(Escaped(s[n])) : k = at[n - 1] + (j - 1) /\ P[k] = Escaped(s[n])[j]
    BY <2>1
  <2>3. s[n] \in 1 .. 255
    BY CStringType, Zenon
  <2>4. /\ Escaped(s[n])[j] > 31
        /\ Escaped(s[n])[j] = Quote => j = 2 /\ Escaped(s[n])[1] = Backslash
    BY <2>3, EscapedBytes
  <2>5. ASSUME P[k] = Quote PROVE k > 2 /\ P[k - 1] = Backslash
    <3>1. j = 2 /\ Escaped(s[n])[1] = Backslash
      BY <2>2, <2>4, <2>5
    <3>2. n - 1 \in 0 .. Len(s) /\ at[n - 1] \in Nat /\ at[n - 1] >= 2
      BY <1>1
    <3>3. k = at[n - 1] + 1 /\ at[n - 1] + (1 - 1) = k - 1
      BY <2>2, <3>1, <3>2
    <3>4. 1 \in 1 .. Len(Escaped(s[n]))
      <4>1. Len(Escaped(s[n])) = 1 + Extra(s[n]) /\ Extra(s[n]) \in {0, 1, 5}
        BY <2>3, EscapedBytes
      <4> QED
        BY <4>1
    <3>5. P[at[n - 1] + (1 - 1)] = Escaped(s[n])[1]
      BY <3>4 DEF IsLayout
    <3> QED
      <4>1. k > 2
        BY <3>2, <3>3
      <4>2. P[k - 1] = Backslash
        BY <3>1, <3>3, <3>5, Zenon
      <4> QED
        BY <4>1, <4>2
  <2> QED
    BY <2>2, <2>4, <2>5
<1>4. ASSUME NEW k \in 1 .. Len(P) PROVE P[k] > 31
  <2>1. k = 1 \/ k = Len(P) \/ k \in 2 .. Len(P) - 1
    BY <1>1
  <2> QED
    BY <1>2, <1>3, <2>1 DEF Quote
<1> QED
  BY <1>3, <1>4

-----------------------------------------------------------------------------
(* What is read of it.                                                     *)

\* A digit that is written with "%x" is read as the same number.
LEMMA DigitComesBack ==
  ASSUME NEW d \in 0 .. 15
  PROVE  HexDigit(IF d < 10 THEN 48 + d ELSE 97 + d - 10) = d
<1>1. CASE d < 10
  <2>1. 48 + d \in 48 .. 57 /\ 48 + d - 48 = d
    BY <1>1
  <2> QED
    BY <1>1, <2>1 DEF HexDigit
<1>2. CASE ~(d < 10)
  <2>1. 97 + d - 10 \in 97 .. 102 /\ (97 + d - 10) - 97 + 10 = d
    BY <1>2
  <2>2. 97 + d - 10 \notin 48 .. 57 /\ 97 + d - 10 \notin 65 .. 70
    BY <1>2
  <2> QED
    BY <1>2, <2>1, <2>2 DEF HexDigit
<1> QED
  BY <1>1, <1>2

\* The four digits of an escape \u00XX are read as the character.
LEMMA Hex4ComesBack ==
  ASSUME NEW c \in 1 .. 255, Extra(c) = 5, NEW digits,
         \A k \in 1 .. 4 : digits[k] = Escaped(c)[k + 2]
  PROVE  parse_hex4(digits) = c /\ c < 32
<1> DEFINE D(d) == IF d < 10 THEN 48 + d ELSE 97 + d - 10
           p == D(c \div 16)
           q == D(c % 16)
           h == Hex4(c)
           u == <<Backslash, LetterU>>
<1>1. c \notin DOMAIN Letter /\ c < 32
  BY DEF Extra
<1>2. Escaped(c) = u \o h
  BY <1>1 DEF Escaped
<1>3. c \div 16 \in 0 .. 15 /\ c % 16 \in 0 .. 15 /\ c = 16 * (c \div 16) + (c % 16)
  <2>1. c \in 0 .. 31
    BY <1>1
  <2>2. c \div 16 \in 0 .. 15 /\ c % 16 \in 0 .. 15
    BY <2>1
  <2>3. c = 16 * (c \div 16) + (c % 16)
    <3>1. c \in Int
      OBVIOUS
    <3> HIDE DEF p, q
    <3> QED
      BY <3>1
  <2> QED
    BY <2>2, <2>3, Zenon
<1>4. HexDigit(p) = c \div 16 /\ HexDigit(q) = c % 16 /\ HexDigit(48) = 0
  <2>1. HexDigit(48) = 0
    BY DEF HexDigit
  <2> QED
    BY <1>3, <2>1, DigitComesBack
<1>5. h = <<48, 48, p, q>>
  BY DEF Hex4
<1>6. p \in Nat /\ q \in Nat
  BY <1>3
<1> HIDE DEF p, q, D
<1>7. u \in Seq(Nat) /\ Len(u) = 2 /\ h \in Seq(Nat) /\ Len(h) = 4
  BY <1>5, <1>6 DEF Backslash, LetterU
<1>8. h[1] = 48 /\ h[2] = 48 /\ h[3] = p /\ h[4] = q
  BY <1>5
<1> HIDE DEF u, h
<1>9. /\ Escaped(c)[3] = h[1] /\ Escaped(c)[4] = h[2]
      /\ Escaped(c)[5] = h[3] /\ Escaped(c)[6] = h[4]
  <2> DEFINE e == Escaped(c)
  <2>1. e = u \o h /\ u \in Seq(Nat) /\ h \in Seq(Nat) /\ Len(u) = 2 /\ Len(h) = 4
    BY <1>2, <1>7
  <2> HIDE DEF e
  <2>2. /\ e \in Seq(Nat) /\ Len(e) = 6 /\ e[1] = u[1] /\ e[2] = u[2]
        /\ e[3] = h[1] /\ e[4] = h[2] /\ e[5] = h[3] /\ e[6] = h[4]
    BY <2>1, FourBehindTwo, Zenon
  <2> QED
    BY <2>2 DEF e
<1>10. digits[1] = 48 /\ digits[2] = 48 /\ digits[3] = p /\ digits[4] = q
  <2>1. /\ digits[1] = Escaped(c)[1 + 2] /\ digits[2] = Escaped(c)[2 + 2]
        /\ digits[3] = Escaped(c)[3 + 2] /\ digits[4] = Escaped(c)[4 + 2]
    OBVIOUS
  <2> QED
    BY <1>8, <1>9, <2>1
<1>11. ~ \E k \in 1 .. 4 : HexDigit(digits[k]) < 0
  BY <1>3, <1>4, <1>10
<1>12. parse_hex4(digits) = Nibbles(0, 0, c \div 16, c % 16)
  BY <1>4, <1>10, <1>11 DEF parse_hex4
<1>13. Nibbles(0, 0, c \div 16, c % 16) = c
  BY <1>3 DEF Nibbles
<1> QED
  BY <1>1, <1>12, <1>13

\* A control character is no half of a pair, and its own byte.
LEMMA AsciiCode ==
  ASSUME NEW c \in 1 .. 255, c < 32
  PROVE  ~LowSurrogate(c) /\ ~Surrogate(c) /\ Utf8(c) = <<c>>
<1>1. c \notin 56320 .. 57343
  <2>1. ASSUME c \in 56320 .. 57343 PROVE FALSE
    <3>1. 56320 <= c
      BY <2>1
    <3> QED
      BY <3>1
  <2> QED
    BY <2>1
<1>2. c \notin 55296 .. 57343
  <2>1. ASSUME c \in 55296 .. 57343 PROVE FALSE
    <3>1. 55296 <= c
      BY <2>1
    <3> QED
      BY <3>1
  <2> QED
    BY <2>1
<1>3. Utf8(c) = <<c>>
  BY DEF Utf8
<1> QED
  BY <1>1, <1>2, <1>3 DEF LowSurrogate, Surrogate

\* An escape u of a printed text stands for the character it was printed for.
LEMMA LiteralComesBack ==
  ASSUME NEW c \in 1 .. 255, Extra(c) = 5, NEW t \in Seq(Nat),
         NEW first \in Nat, NEW end \in Nat,
         first >= 1, first + 5 <= Len(t), first + 6 <= end,
         \A j \in 1 .. 6 : t[first + (j - 1)] = Escaped(c)[j]
  PROVE  utf16_literal_to_utf8(t, first, end) = [length |-> 6, bytes |-> <<c>>]
<1> DEFINE digits == SubSeq(t, first + 2, first + 5)
<1>1. ASSUME NEW k \in 1 .. 4 PROVE digits[k] = Escaped(c)[k + 2]
  <2>1. Len(t) \in Nat /\ digits[k] = t[(first + 2) + k - 1]
    <3>1. first + 2 \in 1 .. Len(t) + 1 /\ first + 5 \in 0 .. Len(t)
      OBVIOUS
    <3>2. k \in 1 .. (first + 5) - (first + 2) + 1
      OBVIOUS
    <3> QED
      BY <3>1, <3>2, SubSeqProperties
  <2>2. (first + 2) + k - 1 = first + ((k + 2) - 1) /\ k + 2 \in 1 .. 6
    OBVIOUS
  <2> QED
    BY <2>1, <2>2
<1>2. parse_hex4(digits) = c /\ c < 32
  <2> HIDE DEF digits
  <2> QED
    BY <1>1, Hex4ComesBack
<1>3. ~(end - first < 6)
  OBVIOUS
<1>4. ~LowSurrogate(c) /\ ~Surrogate(c) /\ Utf8(c) = <<c>>
  BY <1>2, AsciiCode
<1> QED
  BY <1>2, <1>3, <1>4 DEF utf16_literal_to_utf8

\* What a program sees of a block is a sequence of its characters.
LEMMA CStringSeq ==
  ASSUME NEW block \in Seq(Nat)
  PROVE  CString(block) \in Seq(Nat)
<1> DEFINE I == {i \in 1 .. Len(block) : block[i] = NUL}
           n == SelectInSeq(block, LAMBDA c : c = NUL)
<1>1. n = IF I # {} THEN Min(I) ELSE 0
  BY Zenon DEF SelectInSeq
<1>2. Len(block) \in Nat /\ I \in SUBSET Nat
  OBVIOUS
<1>3. n \in 0 .. Len(block)
  <2>1. CASE I = {}
    BY <1>1, <1>2, <2>1
  <2>2. CASE I # {}
    <3>1. \E x \in I : \A y \in I : x <= y
      <4> HIDE DEF I
      <4> QED
        BY <1>2, <2>2, LeastNat
    <3>2. Min(I) \in I
      <4> HIDE DEF I
      <4> QED
        BY <3>1 DEF Min
    <3>3. n = Min(I)
      BY <1>1, <2>2
    <3> HIDE DEF n
    <3> QED
      BY <1>2, <3>2, <3>3
  <2> QED
    BY <2>1, <2>2
<1>4. CString(block) = SubSeq(block, 1, n - 1)
  BY DEF CString
<1> HIDE DEF n
<1> QED
  BY <1>2, <1>3, <1>4

\* Of a text without NUL that a NUL is put behind, it is the text.
LEMMA CStringOf ==
  ASSUME NEW P \in Seq(Nat), \A k \in 1 .. Len(P) : P[k] # NUL
  PROVE  CString(P \o <<NUL>>) = P
<1> DEFINE z == <<NUL>>
           block == P \o z
           I == {i \in 1 .. Len(block) : block[i] = NUL}
           n == SelectInSeq(block, LAMBDA c : c = NUL)
<1>1. z \in Seq(Nat) /\ Len(z) = 1 /\ z[1] = NUL /\ Len(P) \in Nat
  BY DEF NUL
<1> HIDE DEF z
<1>2. /\ block \in Seq(Nat) /\ Len(block) = Len(P) + Len(z)
      /\ \A k \in 1 .. Len(P) : block[k] = P[k]
      /\ \A k \in 1 .. Len(z) : block[Len(P) + k] = z[k]
  BY <1>1, Behind
<1>3. n = IF I # {} THEN Min(I) ELSE 0
  BY Zenon DEF SelectInSeq
<1>4. CString(block) = SubSeq(block, 1, n - 1)
  BY DEF CString
<1> HIDE DEF block, n
<1>5. I = {Len(P) + 1}
  <2>1. 1 \in 1 .. Len(z) /\ Len(block) = Len(P) + 1
    BY <1>1, <1>2
  <2>2. block[Len(P) + 1] = NUL
    BY <1>1, <1>2, <2>1
  <2>3. ASSUME NEW i \in 1 .. Len(block), block[i] = NUL PROVE i = Len(P) + 1
    <3>1. i \in 1 .. Len(P) => block[i] # NUL
      BY <1>2
    <3> QED
      BY <1>1, <2>1, <2>3, <3>1
  <2>4. Len(P) + 1 \in 1 .. Len(block)
    BY <1>1, <2>1
  <2> QED
    BY <2>2, <2>3, <2>4
<1> HIDE DEF I
<1>6. n = Len(P) + 1
  <2>1. Min(I) \in I
    <3>1. \E x \in I : \A y \in I : x <= y
      BY <1>1, <1>5
    <3> QED
      BY <3>1 DEF Min
  <2> QED
    BY <1>3, <1>5, <2>1
<1>7. SubSeq(block, 1, Len(P)) = P
  <2>1. Len(block) = Len(P) + 1
    BY <1>1, <1>2
  <2>2. /\ SubSeq(block, 1, Len(P)) \in Seq(Nat) /\ Len(SubSeq(block, 1, Len(P))) = Len(P)
        /\ \A k \in 1 .. Len(P) : SubSeq(block, 1, Len(P))[k] = block[k]
    BY <1>1, <1>2, <2>1
  <2> QED
    BY <1>2, <2>2, SeqEqual
<1> QED
  BY <1>1, <1>4, <1>6, <1>7 DEF block, z

-----------------------------------------------------------------------------
(* The specification: printing, minifying and parsing.                     *)

\* Where the escapes of a printed string are.
PrintedAt(s) == CHOOSE at : IsLayout(print_string_ptr(s), s, at)

\* A printed text comes out of cJSON_Minify as it was: what is read is written
\* to where it was, and the quote that ends the string is the last character.
MinifyPrinted ==
  /\ before = print_string_ptr(value) \o <<NUL>> /\ text = before
  /\ inside \in {"text", "string"} => into = json
  /\ inside = "text" => json \in {1, Len(before)}
  /\ inside = "string" => /\ json \in 2 .. Len(before)
                          /\ json > 2 /\ text[json] = Quote => text[json - 1] # Backslash
  /\ inside \notin {"oneline", "multiline"}

\* The scan is between two escapes, or among the digits of one.
ScanPrinted(at) ==
  /\ input_pointer = 2 /\ output = << >>
  /\ \/ \E n \in 0 .. Len(value) : input_end = at[n]
     \/ \E n \in 1 .. Len(value) :
          Extra(value[n]) = 5 /\ input_end \in at[n - 1] + 2 .. at[n - 1] + 5

\* The decoder is behind the escape of the last character it has written.
DecodePrinted(at) ==
  /\ input_end = at[Len(value)]
  /\ \E n \in 0 .. Len(value) : input_pointer = at[n] /\ output = SubSeq(value, 1, n)

\* A printed text, with or without the NUL behind it, is parsed as what it was
\* printed from.
ReadPrinted ==
  /\ stage # "idle" =>
       input \in {print_string_ptr(value), print_string_ptr(value) \o <<NUL>>}
  /\ stage = "scan" => ScanPrinted(PrintedAt(value))
  /\ stage = "decode" => DecodePrinted(PrintedAt(value))
  /\ stage = "done" => output = Append(value, NUL)
  /\ stage = "failed" => starved

TextsInv ==
  /\ MinifyInv /\ StringInv
  /\ value # NoValue => value \in CStrings /\ MinifyPrinted /\ ReadPrinted

\* What the minifier meets in a printed text with its NUL.
IsPrintedBlock(block, P) ==
  /\ block \in Seq(Nat) /\ Len(block) \in Nat /\ Len(block) >= 3
  /\ block[1] = Quote /\ block[Len(block) - 1] = Quote /\ block[Len(block)] = NUL
  /\ \A k \in 1 .. Len(block) - 1 : block[k] > 31
  /\ \A k \in 2 .. Len(block) - 2 : block[k] = Quote => k > 2 /\ block[k - 1] = Backslash
  /\ CString(block) = P

\* A printed text with its NUL is such a block.
LEMMA PrintedBlock ==
  ASSUME NEW s \in CStrings
  PROVE  IsPrintedBlock(print_string_ptr(s) \o <<NUL>>, print_string_ptr(s))
<1> DEFINE P == print_string_ptr(s)
           z == <<NUL>>
           block == P \o z
<1>1. PICK at : IsLayout(P, s, at)
  BY Layout
<1> HIDE DEF P
<1>2. /\ P \in Seq(Nat) /\ Len(P) \in Nat /\ Len(P) >= 2
      /\ P[1] = Quote /\ P[Len(P)] = Quote
  <2>1. /\ P \in Seq(Nat) /\ Len(P) \in Nat /\ Len(s) \in Nat
        /\ \A n \in 0 .. Len(s) : at[n] \in Nat /\ at[n] >= 2
    BY <1>1, LayoutBounds
  <2>2. P[1] = Quote /\ Len(P) = at[Len(s)] /\ P[at[Len(s)]] = Quote
    BY <1>1 DEF IsLayout
  <2>3. Len(s) \in 0 .. Len(s)
    BY <2>1
  <2> QED
    BY <2>1, <2>2, <2>3
<1>3. /\ \A k \in 1 .. Len(P) : P[k] > 31
      /\ \A k \in 2 .. Len(P) - 1 : P[k] = Quote => k > 2 /\ P[k - 1] = Backslash
  BY <1>1, PrintedChars
<1>4. CString(block) = P
  <2>1. \A k \in 1 .. Len(P) : P[k] # NUL
    BY <1>2, <1>3 DEF NUL
  <2> QED
    BY <1>2, <2>1, CStringOf
<1>5. z \in Seq(Nat) /\ Len(z) = 1 /\ z[1] = NUL
  BY DEF NUL
<1> HIDE DEF z
<1>6. /\ block \in Seq(Nat) /\ Len(block) = Len(P) + Len(z)
      /\ \A k \in 1 .. Len(P) : block[k] = P[k]
      /\ \A k \in 1 .. Len(z) : block[Len(P) + k] = z[k]
  BY <1>2, <1>5, Behind
<1> HIDE DEF block
<1>7. Len(block) = Len(P) + 1 /\ Len(block) - 1 = Len(P)
  BY <1>2, <1>5, <1>6
<1>8. block[Len(block)] = NUL
  <2>1. 1 \in 1 .. Len(z)
    BY <1>5
  <2>2. block[Len(P) + 1] = z[1]
    BY <1>6, <2>1
  <2> QED
    BY <1>5, <1>7, <2>2
<1>9. \A k \in 1 .. Len(block) - 1 : block[k] = P[k] /\ block[k] > 31
  BY <1>3, <1>6, <1>7
<1>10. block[1] = Quote /\ block[Len(block) - 1] = Quote
  <2>1. 1 \in 1 .. Len(P) /\ Len(P) \in 1 .. Len(P)
    BY <1>2
  <2> QED
    BY <1>2, <1>6, <1>7, <2>1
<1>11. ASSUME NEW k \in 2 .. Len(block) - 2, block[k] = Quote
       PROVE  k > 2 /\ block[k - 1] = Backslash
  <2>1. k \in 2 .. Len(P) - 1 /\ k \in 1 .. Len(P) /\ k - 1 \in 1 .. Len(P)
    BY <1>2, <1>7
  <2>2. P[k] = Quote
    BY <1>6, <1>11, <2>1
  <2>3. k > 2 /\ P[k - 1] = Backslash
    BY <1>3, <2>1, <2>2
  <2> QED
    BY <1>6, <2>1, <2>3
<1> QED
  BY <1>2, <1>4, <1>6, <1>7, <1>8, <1>9, <1>10, <1>11 DEF IsPrintedBlock, block, z, P

\* Writing a character where it is changes nothing.
LEMMA WriteBack ==
  ASSUME NEW s \in Seq(Nat), NEW i \in 1 .. Len(s), NEW k \in 1 .. Len(s)
  PROVE  /\ [s EXCEPT ![i] = s[i]] = s
         /\ [s EXCEPT ![i] = s[i], ![k] = s[k]] = s
OBVIOUS

\* No step of cJSON_Minify changes a printed text.
LEMMA MinifyPrintedNext ==
  ASSUME MinifyInv, value \in CStrings, MinifyPrinted, cJSON_Minify, value' = value
  PROVE  MinifyPrinted'
<1> USE DEF NUL, Quote, Backslash, Slash, Star, Newline, Space
<1> DEFINE P == print_string_ptr(value)
<1>1. before = P \o <<NUL>> /\ text = before
  BY DEF MinifyPrinted
<1>2. IsPrintedBlock(before, P)
  BY <1>1, PrintedBlock
<1> HIDE DEF P
<1>3. /\ before \in Seq(Nat) /\ Len(before) \in Nat /\ Len(before) >= 3
      /\ before[1] = Quote /\ before[Len(before) - 1] = Quote /\ before[Len(before)] = NUL
      /\ \A k \in 1 .. Len(before) - 1 : before[k] > 31
      /\ \A k \in 2 .. Len(before) - 2 : before[k] = Quote => k > 2 /\ before[k - 1] = Backslash
  BY <1>2 DEF IsPrintedBlock
<1>4. inside \in {"text", "string"}
  BY DEF cJSON_Minify, SkipSpace, SkipSlash, EnterComment, skip_oneline_comment,
         skip_multiline_comment, EnterString, minify_string, Other, Terminate, MinifyPrinted
<1>5. into = json /\ json \in 1 .. Len(before)
  BY <1>3, <1>4 DEF MinifyPrinted
<1>6. Keep => text' = text
  BY <1>1, <1>3, <1>5, WriteBack DEF Keep, Read
<1>7. CASE inside = "text" /\ json = 1
  <2>1. Read = Quote
    BY <1>1, <1>3, <1>7 DEF Read
  <2>2. EnterString
    BY <1>7, <2>1 DEF cJSON_Minify, SkipSpace, SkipSlash, EnterComment, skip_oneline_comment,
         skip_multiline_comment, EnterString, minify_string, Other, Terminate
  <2>3. text' = text /\ before' = before /\ json' = 2 /\ into' = 2 /\ inside' = "string"
    BY <1>5, <1>6, <1>7, <2>2 DEF EnterString, Keep
  <2> QED
    BY <1>1, <1>3, <2>3 DEF MinifyPrinted, P
<1>8. CASE inside = "text" /\ json = Len(before)
  <2>1. Read = NUL
    BY <1>1, <1>3, <1>8 DEF Read
  <2>2. Terminate
    BY <1>8, <2>1 DEF cJSON_Minify, SkipSpace, SkipSlash, EnterComment, skip_oneline_comment,
         skip_multiline_comment, EnterString, minify_string, Other, Terminate
  <2>3. text' = [text EXCEPT ![into] = text[into]] /\ before' = before /\ inside' = "done"
    BY <1>1, <1>3, <1>5, <1>8, <2>2 DEF Terminate
  <2>4. text' = text
    BY <1>1, <1>3, <1>5, <2>3, WriteBack
  <2> QED
    BY <1>1, <2>3, <2>4 DEF MinifyPrinted, P
<1>9. CASE inside = "string"
  <2>1. minify_string
    BY <1>9 DEF cJSON_Minify, SkipSpace, SkipSlash, EnterComment, skip_oneline_comment,
         skip_multiline_comment, EnterString, minify_string, Other, Terminate
  <2>2. json \in 2 .. Len(before) /\ (json > 2 /\ text[json] = Quote => text[json - 1] # Backslash)
    BY <1>9 DEF MinifyPrinted
  <2>3. CASE Read = NUL
    <3>1. json = Len(before)
      <4>1. json \notin 1 .. Len(before) - 1
        BY <1>1, <1>3, <2>3 DEF Read
      <4> QED
        BY <1>3, <2>2, <4>1
    <3>2. UNCHANGED <<text, into, before, json>> /\ inside' = "text"
      BY <1>5, <2>1, <2>3 DEF minify_string, Drop
    <3> QED
      BY <1>1, <1>5, <3>1, <3>2 DEF MinifyPrinted, P
  <2>4. CASE Read = Backslash /\ ReadNext = Quote
    <3>1. json + 1 \in 1 .. Len(before) /\ json + 2 \in 2 .. Len(before)
      <4>1. json # Len(before) /\ json # Len(before) - 1
        BY <1>1, <1>3, <2>4 DEF Read
      <4> QED
        BY <1>3, <2>2, <4>1
    <3>2. KeepBoth /\ inside' = "string"
      BY <2>1, <2>4 DEF minify_string
    <3>3. text' = [text EXCEPT ![json] = text[json], ![json + 1] = text[json + 1]]
      BY <1>5, <3>2 DEF KeepBoth, Read, ReadNext
    <3>4. text' = text
      BY <1>1, <1>3, <1>5, <3>1, <3>3, WriteBack
    <3>5. json' = json + 2 /\ into' = json + 2 /\ before' = before
      BY <1>5, <3>2 DEF KeepBoth
    <3>6. text'[json' - 1] = Quote
      <4>1. json' - 1 = json + 1
        BY <1>3, <2>2, <3>5
      <4> QED
        BY <2>4, <3>4, <4>1 DEF ReadNext
    <3> QED
      BY <1>1, <3>1, <3>2, <3>4, <3>5, <3>6 DEF MinifyPrinted, P
  <2>5. CASE Read # NUL /\ ~(Read = Backslash /\ ReadNext = Quote)
    <3>1. Keep /\ inside' = IF Read = Quote THEN "text" ELSE "string"
      BY <2>1, <2>5 DEF minify_string
    <3>2. text' = text /\ json' = json + 1 /\ into' = json + 1 /\ before' = before
      BY <1>5, <1>6, <3>1 DEF Keep
    <3>3. json + 1 \in 2 .. Len(before)
      <4>1. json # Len(before)
        BY <1>1, <1>3, <2>5 DEF Read
      <4> QED
        BY <1>3, <2>2, <4>1
    <3>4. CASE Read = Quote
      <4>1. before[json] = Quote
        BY <1>1, <3>4 DEF Read
      <4>2. json \notin 2 .. Len(before) - 2
        BY <1>1, <1>3, <2>2, <4>1
      <4>3. json + 1 = Len(before)
        BY <1>3, <2>2, <3>3, <4>2
      <4> QED
        BY <1>1, <3>1, <3>2, <3>4, <4>3 DEF MinifyPrinted, P
    <3>5. CASE Read # Quote
      <4>1. text'[json'] = Quote => text'[json' - 1] # Backslash
        <5>1. json' - 1 = json
          BY <1>3, <2>2, <3>2
        <5> QED
          BY <2>5, <3>2, <5>1 DEF Read, ReadNext
      <4> QED
        BY <1>1, <3>1, <3>2, <3>3, <3>5, <4>1 DEF MinifyPrinted, P
    <3> QED
      BY <3>4, <3>5
  <2> QED
    BY <2>3, <2>4, <2>5
<1> QED
  BY <1>4, <1>7, <1>8, <1>9 DEF MinifyPrinted

\* What parse_string meets in a buffer that begins with a printed text.
IsPrintedInput(t, s, at) ==
  /\ t \in Seq(Nat) /\ Len(t) \in Nat /\ Len(s) \in Nat /\ at[0] = 2
  /\ \A n \in 0 .. Len(s) : at[n] \in Nat /\ at[n] >= 2 /\ at[n] <= at[Len(s)] - (Len(s) - n)
  /\ at[Len(s)] <= Len(t) /\ t[1] = Quote /\ t[at[Len(s)]] = Quote
  /\ \A n \in 1 .. Len(s) :
       /\ s[n] \in 1 .. 255 /\ Extra(s[n]) \in {0, 1, 5} /\ at[n] = at[n - 1] + 1 + Extra(s[n])
       /\ \A j \in 1 .. 1 + Extra(s[n]) : t[at[n - 1] + (j - 1)] = Escaped(s[n])[j]

\* A printed text, with its NUL or without, is such a buffer.
LEMMA PrintedInput ==
  ASSUME NEW s \in CStrings,
         NEW t \in {print_string_ptr(s), print_string_ptr(s) \o <<NUL>>}
  PROVE  IsPrintedInput(t, s, PrintedAt(s))
<1> DEFINE P == print_string_ptr(s)
           at == PrintedAt(s)
           z == <<NUL>>
<1>1. IsLayout(P, s, at)
  BY Layout DEF PrintedAt
<1>2. t = P \/ t = P \o z
  OBVIOUS
<1> HIDE DEF P, at
<1>3. /\ P \in Seq(Nat) /\ Len(P) \in Nat /\ Len(s) \in Nat
      /\ \A n \in 0 .. Len(s) : at[n] \in Nat /\ at[n] >= 2 /\ at[n] <= Len(P) - (Len(s) - n)
      /\ \A n \in 1 .. Len(s) : at[n] = at[n - 1] + 1 + Extra(s[n])
  BY <1>1, LayoutBounds
<1>4. /\ at[0] = 2 /\ Len(P) = at[Len(s)] /\ P[1] = Quote /\ P[at[Len(s)]] = Quote
      /\ \A n \in 1 .. Len(s) : \A j \in 1 .. Len(Escaped(s[n])) :
           P[at[n - 1] + (j - 1)] = Escaped(s[n])[j]
  BY <1>1 DEF IsLayout
<1>5. z \in Seq(Nat) /\ Len(z) = 1
  BY DEF NUL
<1> HIDE DEF z
<1>6. /\ t \in Seq(Nat) /\ Len(t) \in Nat /\ Len(P) <= Len(t)
      /\ \A k \in 1 .. Len(P) : t[k] = P[k]
  <2>1. CASE t = P
    BY <1>3, <2>1
  <2>2. CASE t = P \o z
    <3> DEFINE u == P \o z
    <3>1. /\ u \in Seq(Nat) /\ Len(u) = Len(P) + Len(z)
          /\ \A k \in 1 .. Len(P) : u[k] = P[k]
      BY <1>3, <1>5, Behind
    <3> HIDE DEF u
    <3>2. t = u
      BY <2>2 DEF u
    <3> QED
      BY <1>3, <1>5, <3>1, <3>2
  <2> QED
    BY <1>2, <2>1, <2>2
<1>7. Len(s) \in 0 .. Len(s) /\ 1 \in 1 .. Len(P) /\ Len(P) \in 1 .. Len(P)
  <2>1. Len(s) \in 0 .. Len(s)
    BY <1>3
  <2>2. Len(P) >= 2
    BY <1>3, <1>4, <2>1
  <2> QED
    BY <1>3, <2>1, <2>2
<1>8. t[1] = Quote /\ t[at[Len(s)]] = Quote
  BY <1>4, <1>6, <1>7
<1>9. ASSUME NEW n \in 1 .. Len(s)
      PROVE  /\ s[n] \in 1 .. 255 /\ Extra(s[n]) \in {0, 1, 5}
             /\ \A j \in 1 .. 1 + Extra(s[n]) : t[at[n - 1] + (j - 1)] = Escaped(s[n])[j]
  <2>1. s[n] \in 1 .. 255
    BY CStringType
  <2>2. Len(Escaped(s[n])) = 1 + Extra(s[n]) /\ Extra(s[n]) \in {0, 1, 5}
    BY <2>1, EscapedBytes
  <2>3. /\ n \in 0 .. Len(s) /\ n - 1 \in 0 .. Len(s) /\ Extra(s[n]) \in Nat
    BY <1>3, <2>2
  <2>4. /\ at[n] \in Nat /\ at[n - 1] \in Nat /\ at[n - 1] >= 2
        /\ at[n] = at[n - 1] + 1 + Extra(s[n]) /\ at[n] <= Len(P)
    <3>1. /\ at[n] \in Nat /\ at[n - 1] \in Nat /\ at[n - 1] >= 2
          /\ at[n] = at[n - 1] + 1 + Extra(s[n])
      BY <1>3, <2>3
    <3>2. at[n] <= Len(P) - (Len(s) - n) /\ n <= Len(s)
      BY <1>3, <2>3
    <3>3. at[n] <= Len(P)
      BY <1>3, <3>1, <3>2
    <3> QED
      BY <3>1, <3>3
  <2>5. ASSUME NEW j \in 1 .. 1 + Extra(s[n])
        PROVE  t[at[n - 1] + (j - 1)] = Escaped(s[n])[j]
    <3>1. at[n - 1] + (j - 1) \in 1 .. Len(P)
      <4> DEFINE a == at[n - 1]
                 e == Extra(s[n])
      <4>1. a \in Nat /\ e \in Nat /\ a >= 2 /\ a + 1 + e <= Len(P) /\ j \in 1 .. 1 + e
        BY <2>3, <2>4
      <4> HIDE DEF a, e
      <4>2. a + (j - 1) \in 1 .. Len(P)
        BY <1>3, <4>1
      <4> QED
        BY <4>2 DEF a
    <3>2. P[at[n - 1] + (j - 1)] = Escaped(s[n])[j]
      BY <1>4, <2>2
    <3> QED
      BY <1>6, <3>1, <3>2
  <2> QED
    BY <2>1, <2>2, <2>5
<1>10. \A n \in 0 .. Len(s) : at[n] <= at[Len(s)] - (Len(s) - n)
  BY <1>3, <1>4
<1> QED
  BY <1>3, <1>4, <1>6, <1>8, <1>9, <1>10 DEF IsPrintedInput, at

\* Behind the opening quote or an escape the next one begins, or there is the
\* closing quote.
LEMMA NextEscape ==
  ASSUME NEW t, NEW s, NEW at, IsPrintedInput(t, s, at), NEW n \in 0 .. Len(s)
  PROVE  /\ at[n] \in Nat /\ at[n] >= 2 /\ at[n] <= at[Len(s)] /\ at[Len(s)] <= Len(t)
         /\ n = Len(s) => t[at[n]] = Quote
         /\ n # Len(s) =>
              /\ n + 1 \in 1 .. Len(s) /\ (n + 1) - 1 = n /\ at[n] < at[Len(s)]
              /\ at[n + 1] = at[n] + 1 + Extra(s[n + 1]) /\ at[n + 1] <= at[Len(s)]
              /\ s[n + 1] \in 1 .. 255
              /\ t[at[n]] = Escaped(s[n + 1])[1] /\ t[at[n]] # Quote
              /\ t[at[n]] = Backslash <=> Extra(s[n + 1]) # 0
<1>1. /\ Len(t) \in Nat /\ Len(s) \in Nat
      /\ \A k \in 0 .. Len(s) : at[k] \in Nat /\ at[k] >= 2 /\ at[k] <= at[Len(s)] - (Len(s) - k)
      /\ at[Len(s)] <= Len(t) /\ t[at[Len(s)]] = Quote
  BY DEF IsPrintedInput
<1>2. at[n] \in Nat /\ at[n] >= 2 /\ at[n] <= at[Len(s)] - (Len(s) - n) /\ at[Len(s)] \in Nat
  BY <1>1
<1>3. ASSUME n # Len(s)
      PROVE  /\ n + 1 \in 1 .. Len(s) /\ (n + 1) - 1 = n /\ at[n] < at[Len(s)]
             /\ at[n + 1] = at[n] + 1 + Extra(s[n + 1]) /\ at[n + 1] <= at[Len(s)]
             /\ s[n + 1] \in 1 .. 255
             /\ t[at[n]] = Escaped(s[n + 1])[1] /\ t[at[n]] # Quote
             /\ t[at[n]] = Backslash <=> Extra(s[n + 1]) # 0
  <2>1. n + 1 \in 1 .. Len(s) /\ n + 1 \in 0 .. Len(s) /\ (n + 1) - 1 = n
    BY <1>1, <1>3
  <2> DEFINE c == s[n + 1]
  <2>2. /\ c \in 1 .. 255 /\ Extra(c) \in {0, 1, 5} /\ at[n + 1] = at[(n + 1) - 1] + 1 + Extra(c)
        /\ \A j \in 1 .. 1 + Extra(c) : t[at[(n + 1) - 1] + (j - 1)] = Escaped(c)[j]
    BY <2>1 DEF IsPrintedInput
  <2> HIDE DEF c
  <2>3. 1 \in 1 .. 1 + Extra(c) /\ at[n] + (1 - 1) = at[n]
    <3> DEFINE e == Extra(c)
    <3>1. e \in {0, 1, 5} /\ at[n] \in Nat
      BY <1>2, <2>2
    <3> HIDE DEF e
    <3>2. 1 \in 1 .. 1 + e
      BY <3>1
    <3> QED
      BY <3>1, <3>2 DEF e
  <2>4. t[at[n]] = Escaped(c)[1]
    BY <2>1, <2>2, <2>3
  <2>5. /\ Len(Escaped(c)) = 1 + Extra(c)
        /\ Escaped(c)[1] = Quote => 1 = 2
        /\ Extra(c) = 0 => Escaped(c)[1] = c /\ c # Backslash
        /\ Extra(c) = 1 => Escaped(c)[1] = Backslash
        /\ Extra(c) = 5 => Escaped(c)[1] = Backslash
    BY <2>2, <2>3, EscapedBytes
  <2>6. t[at[n]] # Quote /\ (t[at[n]] = Backslash <=> Extra(c) # 0)
    BY <2>2, <2>4, <2>5
  <2>7. at[n] < at[Len(s)] /\ at[n + 1] <= at[Len(s)] - (Len(s) - (n + 1))
    BY <1>1, <1>2, <1>3, <2>1
  <2>8. at[n + 1] <= at[Len(s)]
    <3>1. at[n + 1] \in Nat /\ Len(s) - (n + 1) \in Nat
      BY <1>1, <2>1
    <3> QED
      BY <1>2, <2>7, <3>1
  <2> QED
    BY <2>1, <2>2, <2>4, <2>6, <2>7, <2>8 DEF c
<1> QED
  BY <1>1, <1>2, <1>3

\* Among the four digits of an escape u there is no quote and no backslash.
LEMMA AmongDigits ==
  ASSUME NEW t, NEW s, NEW at, IsPrintedInput(t, s, at),
         NEW n \in 1 .. Len(s), Extra(s[n]) = 5, NEW p \in at[n - 1] + 2 .. at[n - 1] + 5
  PROVE  /\ t[p] # Quote /\ t[p] # Backslash /\ p < at[Len(s)] /\ p <= Len(t)
         /\ p + 1 \in at[n - 1] + 2 .. at[n - 1] + 5 \/ p + 1 = at[n]
<1>1. /\ Len(t) \in Nat /\ Len(s) \in Nat
      /\ n \in 0 .. Len(s) /\ n - 1 \in 0 .. Len(s)
  BY DEF IsPrintedInput
<1>2. /\ at[n] \in Nat /\ at[n] <= at[Len(s)] /\ at[Len(s)] <= Len(t) /\ at[n - 1] \in Nat
      /\ at[Len(s)] \in Nat
  <2>1. Len(s) \in 0 .. Len(s)
    BY <1>1
  <2> QED
    BY <1>1, <2>1, NextEscape
<1>3. /\ s[n] \in 1 .. 255 /\ at[n] = at[n - 1] + 1 + Extra(s[n])
      /\ \A j \in 1 .. 1 + Extra(s[n]) : t[at[n - 1] + (j - 1)] = Escaped(s[n])[j]
  BY DEF IsPrintedInput
<1> DEFINE a == at[n - 1]
           j == p - a + 1
<1>4. a \in Nat /\ p \in a + 2 .. a + 5 /\ at[n] = a + 6
  BY <1>2, <1>3
<1>5. j \in 3 .. 6 /\ a + (j - 1) = p
  <2> HIDE DEF a
  <2> QED
    BY <1>4
<1>6. t[p] = Escaped(s[n])[j]
  <2>1. j \in 1 .. 1 + Extra(s[n])
    BY <1>5
  <2>2. t[a + (j - 1)] = Escaped(s[n])[j]
    BY <1>3, <2>1
  <2> QED
    BY <1>5, <2>2
<1>7. t[p] # Quote /\ t[p] # Backslash
  <2> HIDE DEF j
  <2>1. \A i \in 3 .. 6 : Escaped(s[n])[i] \notin {Quote, Backslash}
    BY <1>3, EscapedBytes
  <2> QED
    BY <1>5, <1>6, <2>1
<1>8. p < at[Len(s)] /\ p <= Len(t) /\ (p + 1 \in a + 2 .. a + 5 \/ p + 1 = at[n])
  <2> HIDE DEF a, j
  <2> QED
    BY <1>1, <1>2, <1>4
<1> QED
  BY <1>7, <1>8

\* A step of the scan leads behind an escape or to another digit.
LEMMA ScanReads ==
  ASSUME value \in CStrings, ReadPrinted, Scan, value' = value
  PROVE  ReadPrinted'
<1> DEFINE at == PrintedAt(value)
<1>1. stage = "scan" /\ input \in {print_string_ptr(value), print_string_ptr(value) \o <<NUL>>}
  BY DEF Scan, ReadPrinted
<1>2. IsPrintedInput(input, value, at)
  BY <1>1, PrintedInput
<1>3. ScanPrinted(at)
  BY <1>1 DEF ReadPrinted
<1> HIDE DEF at
<1>4. /\ Len(input) \in Nat /\ Len(value) \in Nat /\ \A n \in 0 .. Len(value) : at[n] \in Nat
      /\ at[Len(value)] <= Len(input)
  BY <1>2 DEF IsPrintedInput
<1> DEFINE AtEscape(p) == \/ \E n \in 0 .. Len(value) : p = at[n]
                          \/ \E n \in 1 .. Len(value) :
                               Extra(value[n]) = 5 /\ p \in at[n - 1] + 2 .. at[n - 1] + 5
<1>5. stage' = "scan" /\ AtEscape(input_end')
  <2>1. CASE \E n \in 0 .. Len(value) : input_end = at[n]
    <3>1. PICK n \in 0 .. Len(value) : input_end = at[n]
      BY <2>1
    <3>2. n # Len(value)
      BY <1>2, <3>1, NextEscape DEF Scan
    <3> DEFINE c == value[n + 1]
    <3>3. /\ n + 1 \in 1 .. Len(value) /\ (n + 1) - 1 = n /\ at[n] < at[Len(value)]
          /\ at[n + 1] = at[n] + 1 + Extra(c) /\ at[n + 1] <= at[Len(value)]
          /\ input[at[n]] = Backslash <=> Extra(c) # 0
      BY <1>2, <3>1, <3>2, NextEscape
    <3>4. Extra(c) \in {0, 1, 5} /\ at[n] \in Nat /\ at[n + 1] \in Nat /\ at[Len(value)] \in Nat
      <4>1. n + 1 \in 0 .. Len(value) /\ Len(value) \in 0 .. Len(value)
        BY <1>4, <3>3
      <4> QED
        BY <1>2, <1>4, <3>3, <4>1 DEF IsPrintedInput
    <3> HIDE DEF c
    <3>5. CASE Extra(c) = 0
      <4>1. input_end' = at[n] + 1 /\ stage' = "scan"
        BY <1>1, <3>1, <3>3, <3>5 DEF Scan
      <4>2. input_end' = at[n + 1] /\ n + 1 \in 0 .. Len(value)
        BY <1>4, <3>3, <3>4, <3>5, <4>1
      <4> QED
        BY <4>1, <4>2
    <3>6. CASE Extra(c) # 0
      <4>1. at[n] + 1 <= Len(input)
        BY <1>4, <3>3, <3>4
      <4>2. input_end' = at[n] + 2 /\ stage' = "scan"
        BY <1>1, <1>4, <3>1, <3>3, <3>4, <3>6, <4>1 DEF Scan
      <4>3. CASE Extra(c) = 1
        <5>1. input_end' = at[n + 1] /\ n + 1 \in 0 .. Len(value)
          BY <1>4, <3>3, <3>4, <4>2, <4>3
        <5> QED
          BY <4>2, <5>1
      <4>4. CASE Extra(c) = 5
        <5>1. input_end' \in at[(n + 1) - 1] + 2 .. at[(n + 1) - 1] + 5
          BY <3>3, <3>4, <4>2
        <5> QED
          BY <3>3, <4>2, <4>4, <5>1 DEF c
      <4> QED
        BY <3>4, <3>6, <4>3, <4>4
    <3> QED
      BY <3>5, <3>6
  <2>2. CASE \E n \in 1 .. Len(value) :
               Extra(value[n]) = 5 /\ input_end \in at[n - 1] + 2 .. at[n - 1] + 5
    <3>1. PICK n \in 1 .. Len(value) :
            Extra(value[n]) = 5 /\ input_end \in at[n - 1] + 2 .. at[n - 1] + 5
      BY <2>2
    <3>2. /\ input[input_end] # Backslash
          /\ input_end + 1 \in at[n - 1] + 2 .. at[n - 1] + 5 \/ input_end + 1 = at[n]
      BY <1>2, <3>1, AmongDigits
    <3>3. input_end' = input_end + 1 /\ stage' = "scan"
      BY <1>1, <3>2 DEF Scan
    <3>4. n \in 0 .. Len(value)
      BY <1>4
    <3> QED
      BY <3>1, <3>2, <3>3, <3>4
  <2> QED
    BY <1>3, <2>1, <2>2 DEF ScanPrinted
<1>6. input' = input /\ input_pointer' = input_pointer /\ output' = output
  BY DEF Scan
<1>7. ScanPrinted(at)'
  BY <1>3, <1>5, <1>6 DEF ScanPrinted, at
<1> QED
  BY <1>1, <1>5, <1>6, <1>7 DEF ReadPrinted, at

\* The scan ends at the closing quote.
LEMMA AllocateReads ==
  ASSUME value \in CStrings, ReadPrinted, Allocate, value' = value
  PROVE  ReadPrinted'
<1> DEFINE at == PrintedAt(value)
<1>1. stage = "scan" /\ input \in {print_string_ptr(value), print_string_ptr(value) \o <<NUL>>}
  BY DEF Allocate, ReadPrinted
<1>2. IsPrintedInput(input, value, at)
  BY <1>1, PrintedInput
<1>3. ScanPrinted(at)
  BY <1>1 DEF ReadPrinted
<1> HIDE DEF at
<1>4. /\ Len(input) \in Nat /\ Len(value) \in Nat /\ \A n \in 0 .. Len(value) : at[n] \in Nat
      /\ at[Len(value)] <= Len(input) /\ at[0] = 2
  BY <1>2 DEF IsPrintedInput
<1>5. /\ input_end <= Len(input)
      /\ input[input_end] = Quote => input_end = at[Len(value)]
  <2>1. ASSUME NEW n \in 0 .. Len(value), input_end = at[n]
        PROVE  /\ input_end <= Len(input)
               /\ input[input_end] = Quote => input_end = at[Len(value)]
    <3>1. /\ at[n] \in Nat /\ at[n] <= at[Len(value)]
          /\ n # Len(value) => input[at[n]] # Quote
      BY <1>2, NextEscape
    <3>2. at[Len(value)] \in Nat
      <4>1. Len(value) \in 0 .. Len(value)
        BY <1>4
      <4> QED
        BY <1>4, <4>1
    <3> QED
      BY <1>4, <2>1, <3>1, <3>2
  <2>2. ASSUME NEW n \in 1 .. Len(value), Extra(value[n]) = 5,
               input_end \in at[n - 1] + 2 .. at[n - 1] + 5
        PROVE  input_end <= Len(input) /\ input[input_end] # Quote
    BY <1>2, <2>2, AmongDigits
  <2> QED
    BY <1>3, <2>1, <2>2 DEF ScanPrinted
<1>6. input_end \in Int
  <2>1. ASSUME NEW n \in 1 .. Len(value), NEW p \in at[n - 1] + 2 .. at[n - 1] + 5
        PROVE  p \in Int
    OBVIOUS
  <2> QED
    BY <1>3, <1>4, <2>1 DEF ScanPrinted
<1>7. /\ input[input_end] = Quote
      /\ UNCHANGED <<input, input_pointer, input_end, output>>
      /\ (stage' = "decode" \/ (stage' = "failed" /\ starved' = TRUE))
  <2>1. ~(input_end > Len(input))
    BY <1>4, <1>5, <1>6
  <2>2. /\ input_end <= Len(input) /\ input[input_end] = Quote
        /\ \/ /\ stage' = "decode" /\ room' = input_end - 1 - Cardinality(skipped) + 1
              /\ UNCHANGED starved
           \/ stage' = "failed" /\ starved' = TRUE /\ UNCHANGED room
        /\ UNCHANGED <<input, input_pointer, input_end, skipped, output>>
    BY <2>1, Zenon DEF Allocate
  <2>3. input[input_end] = Quote /\ UNCHANGED <<input, input_pointer, input_end, output>>
    BY <2>2, SMT
  <2>4. (stage' = "decode" \/ (stage' = "failed" /\ starved' = TRUE))
    BY <2>2, Zenon
  <2> QED
    BY <2>3, <2>4, Zenon
<1>8. DecodePrinted(at)'
  <2>1. input_end = at[Len(value)] /\ input_pointer = 2 /\ output = << >>
    BY <1>3, <1>5, <1>7 DEF ScanPrinted
  <2>2. 0 \in 0 .. Len(value) /\ at[0] = 2 /\ SubSeq(value, 1, 0) = << >>
    BY <1>4
  <2> QED
    BY <1>7, <2>1, <2>2 DEF DecodePrinted, at
<1> QED
  BY <1>1, <1>7, <1>8 DEF ReadPrinted, at

\* What is decoded up to the escape of a character, and behind it.
LEMMA OneMore ==
  ASSUME NEW s \in CStrings, NEW n \in 0 .. Len(s), n # Len(s)
  PROVE  SubSeq(s, 1, n) \o <<s[n + 1]>> = SubSeq(s, 1, n + 1)
<1>1. s \in Seq(Nat) /\ Len(s) \in Nat
  BY CStringType
<1>2. /\ SubSeq(s, 1, n) \in Seq(Nat) /\ Len(SubSeq(s, 1, n)) = n
      /\ \A k \in 1 .. n : SubSeq(s, 1, n)[k] = s[k]
  BY <1>1
<1>3. n + 1 \in 1 .. Len(s)
  BY <1>1
<1>4. /\ SubSeq(s, 1, n + 1) \in Seq(Nat) /\ Len(SubSeq(s, 1, n + 1)) = n + 1
      /\ \A k \in 1 .. n + 1 : SubSeq(s, 1, n + 1)[k] = s[k]
  BY <1>1, <1>3
<1> DEFINE u == SubSeq(s, 1, n)
           v == SubSeq(s, 1, n + 1)
           z == <<s[n + 1]>>
<1>5. z \in Seq(Nat) /\ Len(z) = 1 /\ z[1] = s[n + 1]
  BY <1>1, <1>3
<1> HIDE DEF u, v, z
<1>6. /\ u \o z \in Seq(Nat) /\ Len(u \o z) = Len(u) + Len(z)
      /\ \A k \in 1 .. Len(u) : (u \o z)[k] = u[k]
      /\ \A k \in 1 .. Len(z) : (u \o z)[Len(u) + k] = z[k]
  BY <1>2, <1>5, Behind DEF u
<1> DEFINE w == u \o z
<1> HIDE DEF w
<1>7. w \in Seq(Nat) /\ v \in Seq(Nat) /\ Len(w) = n + 1 /\ Len(v) = n + 1
  BY <1>2, <1>4, <1>5, <1>6 DEF w, u, v
<1>8. ASSUME NEW k \in 1 .. n + 1 PROVE w[k] = v[k]
  <2>1. v[k] = s[k]
    BY <1>4 DEF v
  <2>2. CASE k = n + 1
    <3>1. 1 \in 1 .. Len(z) /\ Len(u) + 1 = n + 1
      BY <1>2, <1>5 DEF u
    <3>2. w[n + 1] = z[1]
      BY <1>6, <3>1 DEF w
    <3> QED
      BY <1>5, <2>1, <2>2, <3>2
  <2>3. CASE k # n + 1
    <3>1. k \in 1 .. n /\ k \in 1 .. Len(u)
      BY <1>2, <2>3 DEF u
    <3>2. w[k] = u[k] /\ u[k] = s[k]
      BY <1>2, <1>6, <3>1 DEF w, u
    <3> QED
      BY <2>1, <3>2
  <2> QED
    BY <2>2, <2>3
<1>9. w = v
  BY <1>7, <1>8, SeqEqual
<1> QED
  BY <1>9 DEF w, u, v, z

\* Where the decoder is in a printed text.
LEMMA DecoderAt ==
  ASSUME value \in CStrings, ReadPrinted, stage = "decode"
  PROVE  /\ IsPrintedInput(input, value, PrintedAt(value))
         /\ input_end = PrintedAt(value)[Len(value)]
         /\ \E n \in 0 .. Len(value) :
              input_pointer = PrintedAt(value)[n] /\ output = SubSeq(value, 1, n)
<1>1. /\ input \in {print_string_ptr(value), print_string_ptr(value) \o <<NUL>>}
      /\ DecodePrinted(PrintedAt(value))
  BY DEF ReadPrinted
<1> QED
  BY <1>1, PrintedInput DEF DecodePrinted

\* The decoder has read an escape and written its character.
LEMMA OneDecoded ==
  ASSUME value \in CStrings, ReadPrinted, stage = "decode",
         NEW n \in 0 .. Len(value), n # Len(value),
         input_pointer = PrintedAt(value)[n], output = SubSeq(value, 1, n),
         Decoded(1 + Extra(value[n + 1]), <<value[n + 1]>>), value' = value
  PROVE  ReadPrinted'
<1> DEFINE at == PrintedAt(value)
<1>1. IsPrintedInput(input, value, at) /\ input_end = at[Len(value)]
  BY DecoderAt
<1> HIDE DEF at
<1>2. /\ n + 1 \in 1 .. Len(value) /\ at[n + 1] = at[n] + 1 + Extra(value[n + 1])
      /\ at[n] \in Nat /\ Extra(value[n + 1]) \in {0, 1, 5}
  <2>1. /\ n + 1 \in 1 .. Len(value) /\ at[n + 1] = at[n] + 1 + Extra(value[n + 1])
        /\ at[n] \in Nat
    BY <1>1, NextEscape
  <2>2. Extra(value[n + 1]) \in {0, 1, 5}
    BY <1>1, <2>1 DEF IsPrintedInput
  <2> QED
    BY <2>1, <2>2
<1>3. input_pointer' = at[n + 1]
  <2>1. Extra(value[n + 1]) \in Nat
    BY <1>2
  <2>2. input_pointer' = at[n] + (1 + Extra(value[n + 1]))
    BY DEF Decoded, at
  <2> QED
    BY <1>2, <2>1, <2>2
<1>4. output' = SubSeq(value, 1, n + 1)
  BY OneMore DEF Decoded
<1>5. n + 1 \in 0 .. Len(value)
  BY <1>1, <1>2 DEF IsPrintedInput
<1>6. input_end' = at[Len(value)] /\ input' = input /\ stage' = stage
  BY <1>1 DEF Decoded
<1>7. DecodePrinted(at)'
  BY <1>3, <1>4, <1>5, <1>6 DEF DecodePrinted, at
<1> QED
  BY <1>6, <1>7 DEF ReadPrinted, at

\* A character that was printed as it is.
LEMMA PlainReads ==
  ASSUME value \in CStrings, ReadPrinted, Plain, value' = value
  PROVE  ReadPrinted'
<1> DEFINE at == PrintedAt(value)
<1>1. stage = "decode"
  BY DEF Plain
<1>2. /\ IsPrintedInput(input, value, at) /\ input_end = at[Len(value)]
      /\ \E n \in 0 .. Len(value) : input_pointer = at[n] /\ output = SubSeq(value, 1, n)
  BY <1>1, DecoderAt
<1> HIDE DEF at
<1>3. PICK n \in 0 .. Len(value) : input_pointer = at[n] /\ output = SubSeq(value, 1, n)
  BY <1>2
<1>4. n # Len(value)
  <2>1. at[n] \in Nat
    BY <1>2, NextEscape
  <2> QED
    BY <1>2, <1>3, <2>1 DEF Plain
<1> DEFINE c == value[n + 1]
<1>5. Extra(c) = 0 /\ input[at[n]] = Escaped(c)[1] /\ c \in 1 .. 255
  <2>1. /\ c \in 1 .. 255 /\ input[at[n]] = Escaped(c)[1]
        /\ input[at[n]] = Backslash <=> Extra(c) # 0
    BY <1>2, <1>4, NextEscape
  <2>2. input[at[n]] # Backslash
    BY <1>3, Zenon DEF Plain
  <2> QED
    BY <2>1, <2>2
<1>6. Escaped(c)[1] = c
  <2> HIDE DEF c
  <2> QED
    BY <1>5, EscapedBytes
<1>7. Decoded(1, <<c>>)
  BY <1>3, <1>5, <1>6 DEF Plain
<1>8. 1 = 1 + Extra(c)
  BY <1>5
<1>9. Decoded(1 + Extra(c), <<c>>)
  BY <1>7, <1>8, Zenon
<1> QED
  BY <1>1, <1>3, <1>4, <1>9, OneDecoded DEF at

\* An escape is read as the character it was printed for.
LEMMA UnescapeReads ==
  ASSUME value \in CStrings, ReadPrinted, Unescape, value' = value
  PROVE  ReadPrinted'
<1> DEFINE at == PrintedAt(value)
           literal == utf16_literal_to_utf8(input, input_pointer, input_end)
           e == input[input_pointer + 1]
<1>1. stage = "decode"
  BY DEF Unescape
<1>2. /\ IsPrintedInput(input, value, at) /\ input_end = at[Len(value)]
      /\ \E n \in 0 .. Len(value) : input_pointer = at[n] /\ output = SubSeq(value, 1, n)
  BY <1>1, DecoderAt
<1> HIDE DEF at
<1>3. PICK n \in 0 .. Len(value) : input_pointer = at[n] /\ output = SubSeq(value, 1, n)
  BY <1>2
<1>4. n # Len(value)
  <2>1. at[n] \in Nat
    BY <1>2, NextEscape
  <2> QED
    BY <1>2, <1>3, <2>1 DEF Unescape
<1> DEFINE c == value[n + 1]
<1>5. /\ Extra(c) # 0 /\ c \in 1 .. 255 /\ n + 1 \in 1 .. Len(value) /\ (n + 1) - 1 = n
      /\ at[n + 1] = at[n] + 1 + Extra(c) /\ at[n + 1] <= at[Len(value)]
      /\ at[n] \in Nat /\ at[n] >= 2 /\ at[Len(value)] <= Len(input)
  BY <1>2, <1>3, <1>4, NextEscape DEF Unescape
<1>6. /\ Extra(c) \in {0, 1, 5} /\ input \in Seq(Nat)
      /\ \A j \in 1 .. 1 + Extra(c) : input[at[n] + (j - 1)] = Escaped(c)[j]
  BY <1>2, <1>5 DEF IsPrintedInput
<1>7. at[n + 1] \in Nat /\ at[Len(value)] \in Nat /\ Len(input) \in Nat
  <2>1. n + 1 \in 0 .. Len(value) /\ Len(value) \in 0 .. Len(value)
    BY <1>2, <1>5 DEF IsPrintedInput
  <2> QED
    BY <1>2, <2>1 DEF IsPrintedInput
<1> HIDE DEF c
<1>8. e = Escaped(c)[2]
  <2>1. 2 \in 1 .. 1 + Extra(c) /\ at[n] + (2 - 1) = at[n] + 1
    BY <1>5, <1>6
  <2>2. input[at[n] + (2 - 1)] = Escaped(c)[2]
    BY <1>6, <2>1
  <2> QED
    BY <1>3, <2>1, <2>2
<1>9. Decoded(1 + Extra(c), <<c>>)
  <2>1. CASE Extra(c) = 1
    <3>1. e \in DOMAIN Escape /\ Escape[e] = c
      BY <1>5, <1>8, <2>1, EscapedBytes
    <3>2. Decoded(2, <<Escape[e]>>)
      BY <3>1 DEF Unescape
    <3>3. 2 = 1 + Extra(c)
      BY <2>1
    <3> QED
      BY <3>1, <3>2, <3>3, Zenon
  <2>2. CASE Extra(c) = 5
    <3>1. e = LetterU
      BY <1>5, <1>8, <2>2, EscapedBytes
    <3>2. LetterU \notin DOMAIN Escape
      BY DEF Escape, LetterU, Quote, Backslash, Slash
    <3>3. literal = [length |-> 6, bytes |-> <<c>>]
      <4> DEFINE first == at[n]
                 end == at[Len(value)]
      <4>1. /\ first \in Nat /\ end \in Nat /\ first >= 1 /\ first + 5 <= Len(input)
            /\ first + 6 <= end
        BY <1>5, <1>7, <2>2
      <4>2. \A j \in 1 .. 6 : input[first + (j - 1)] = Escaped(c)[j]
        <5>1. 1 + Extra(c) = 6
          BY <2>2
        <5> QED
          BY <1>6, <5>1
      <4>3. literal = utf16_literal_to_utf8(input, first, end)
        BY <1>2, <1>3
      <4> HIDE DEF first, end, literal
      <4> QED
        BY <1>5, <1>6, <2>2, <4>1, <4>2, <4>3, LiteralComesBack
    <3> HIDE DEF literal, e
    <3>4. literal.length = 6 /\ literal.bytes = <<c>>
      BY <3>3
    <3>5. Decoded(literal.length, literal.bytes)
      BY <3>1, <3>2, <3>4 DEF Unescape, literal, e
    <3>6. 6 = 1 + Extra(c)
      BY <2>2
    <3> QED
      BY <3>4, <3>5, <3>6, Zenon
  <2> QED
    BY <1>5, <1>6, <2>1, <2>2
<1> QED
  BY <1>1, <1>3, <1>4, <1>9, OneDecoded DEF at, c

\* At the closing quote every character has been written.
LEMMA FinishReads ==
  ASSUME value \in CStrings, ReadPrinted, Finish, value' = value
  PROVE  ReadPrinted'
<1> DEFINE at == PrintedAt(value)
<1>1. stage = "decode"
  BY DEF Finish
<1>2. /\ IsPrintedInput(input, value, at) /\ input_end = at[Len(value)]
      /\ \E n \in 0 .. Len(value) : input_pointer = at[n] /\ output = SubSeq(value, 1, n)
  BY <1>1, DecoderAt
<1> HIDE DEF at
<1>3. PICK n \in 0 .. Len(value) : input_pointer = at[n] /\ output = SubSeq(value, 1, n)
  BY <1>2
<1>4. n = Len(value)
  <2>1. n # Len(value) => at[n] < at[Len(value)]
    BY <1>2, NextEscape
  <2>2. at[n] \in Nat /\ at[Len(value)] \in Nat
    <3>1. Len(value) \in 0 .. Len(value)
      BY <1>2 DEF IsPrintedInput
    <3> QED
      BY <1>2, <3>1 DEF IsPrintedInput
  <2> QED
    BY <1>2, <1>3, <2>1, <2>2 DEF Finish
<1>5. SubSeq(value, 1, Len(value)) = value
  BY CStringType
<1>6. output' = Append(value, NUL) /\ stage' = "done" /\ input' = input
  BY <1>3, <1>4, <1>5 DEF Finish
<1> QED
  BY <1>1, <1>6 DEF ReadPrinted

-----------------------------------------------------------------------------
(* The steps of a text                                                     *)

\* Nothing has been printed yet.
LEMMA TextsInvInit == TextsInit => TextsInv
  BY MinifyInvInit, StringInvInit DEF TextsInit, TextsInv

\* A string is printed into the text of a client that has none.
LEMMA PrintTextInv ==
  ASSUME TextsInv, NEW string \in Values, PrintText(string)
  PROVE  TextsInv'
<1> DEFINE P == print_string_ptr(string)
           block == P \o <<NUL>>
<1>1. string \in CStrings
  BY ValuesAssumption DEF CStrings
<1>2. IsPrintedBlock(block, P)
  BY <1>1, PrintedBlock
<1>3. /\ text' = block /\ before' = block /\ value' = string
      /\ json = 1 /\ inside = "text" /\ stage = "idle"
      /\ UNCHANGED <<json, into, inside, stringVars>>
  BY DEF PrintText, Fresh
<1> HIDE DEF P, block
<1>4. into = 1
  BY <1>3 DEF TextsInv, MinifyInv, MinifyTyped, InPlace
<1>5. MinifyInv'
  <2>1. MinifyTyped'
    BY <1>2, <1>3, <1>4 DEF MinifyTyped, IsPrintedBlock
  <2>2. Ends'
    BY <1>2, <1>3 DEF Ends, IsPrintedBlock
  <2>3. InPlace'
    BY <1>2, <1>3, <1>4 DEF InPlace, IsPrintedBlock
  <2> QED
    BY <2>1, <2>2, <2>3 DEF MinifyInv
<1>6. StringInv'
  BY <1>3, StringInvNext DEF TextsInv
<1>7. MinifyPrinted'
  BY <1>3, <1>4 DEF MinifyPrinted, block, P
<1>8. ReadPrinted'
  <2>1. stage' = "idle"
    BY <1>3 DEF stringVars
  <2> QED
    BY <2>1 DEF ReadPrinted
<1> QED
  BY <1>1, <1>3, <1>5, <1>6, <1>7, <1>8 DEF TextsInv

\* A round of cJSON_Minify.
LEMMA MinifyTextInv ==
  ASSUME TextsInv, MinifyText
  PROVE  TextsInv'
<1>1. cJSON_Minify /\ value' = value /\ UNCHANGED stringVars
  BY DEF MinifyText
<1>2. MinifyInv'
  BY <1>1, MinifyInvNext DEF TextsInv
<1>3. StringInv'
  BY <1>1, StringInvNext DEF TextsInv
<1>4. ASSUME value # NoValue PROVE MinifyPrinted'
  BY <1>1, <1>4, MinifyPrintedNext DEF TextsInv
<1>5. ASSUME value # NoValue PROVE ReadPrinted'
  <2>1. ReadPrinted
    BY <1>5 DEF TextsInv
  <2> QED
    BY <1>1, <2>1 DEF stringVars, ReadPrinted, ScanPrinted, DecodePrinted
<1> QED
  BY <1>1, <1>2, <1>3, <1>4, <1>5 DEF TextsInv

\* A printed text is given to parse_string.
LEMMA ParsePrinted ==
  ASSUME value \in CStrings, MinifyPrinted, value' = value,
         NEW buffer \in {CString(text) \o <<NUL>>, CString(text)}, ParseString(buffer)
  PROVE  ReadPrinted'
<1> DEFINE P == print_string_ptr(value)
           at == PrintedAt(value)
<1>1. IsPrintedBlock(P \o <<NUL>>, P)
  BY PrintedBlock
<1>2. CString(text) = P
  BY <1>1 DEF IsPrintedBlock, MinifyPrinted
<1>3. buffer \in {P, P \o <<NUL>>}
  BY <1>2
<1>4. IsPrintedInput(buffer, value, at)
  BY <1>3, PrintedInput
<1> HIDE DEF P, at
<1>5. buffer[1] = Quote /\ at[0] = 2 /\ 0 \in 0 .. Len(value)
  BY <1>4 DEF IsPrintedInput
<1>6. /\ stage' = "scan" /\ input' = buffer /\ output' = << >>
      /\ input_pointer' = 2 /\ input_end' = at[0]
  BY <1>5 DEF ParseString
<1>7. ScanPrinted(at)'
  BY <1>5, <1>6 DEF ScanPrinted, at
<1> QED
  BY <1>3, <1>6, <1>7 DEF ReadPrinted, P, at

\* A text is given to parse_string, with its NUL or without.
LEMMA ParseTextInv ==
  ASSUME TextsInv, ParseText
  PROVE  TextsInv'
<1>1. /\ UNCHANGED minifyVars /\ value' = value
      /\ \E buffer \in {CString(text) \o <<NUL>>, CString(text)} : ParseString(buffer)
  BY DEF ParseText
<1>2. PICK buffer \in {CString(text) \o <<NUL>>, CString(text)} : ParseString(buffer)
  BY <1>1
<1>3. CString(text) \in Seq(Nat)
  BY CStringSeq DEF TextsInv, MinifyInv, MinifyTyped
<1>4. buffer \in Seq(Nat)
  <2>1. <<NUL>> \in Seq(Nat)
    BY DEF NUL
  <2> QED
    BY <1>3, <2>1, ConcatProperties
<1>5. StringInv'
  BY <1>2, <1>4, ParseStringInv
<1>6. MinifyInv'
  BY <1>1, MinifyInvNext DEF TextsInv
<1>7. ASSUME value # NoValue PROVE MinifyPrinted' /\ ReadPrinted'
  <2>1. value \in CStrings /\ MinifyPrinted
    BY <1>7 DEF TextsInv
  <2>2. MinifyPrinted'
    BY <1>1, <2>1 DEF MinifyPrinted, minifyVars
  <2>3. ReadPrinted'
    BY <1>1, <1>2, <2>1, ParsePrinted
  <2> QED
    BY <2>2, <2>3
<1> QED
  BY <1>1, <1>5, <1>6, <1>7 DEF TextsInv

\* A step of parse_string.
LEMMA ReadTextInv ==
  ASSUME TextsInv, ReadText
  PROVE  TextsInv'
<1>1. parse_string /\ UNCHANGED minifyVars /\ value' = value
  BY DEF ReadText
<1>2. MinifyInv'
  BY <1>1, MinifyInvNext DEF TextsInv
<1>3. StringInv'
  BY <1>1, StringInvNext DEF TextsInv, StringsNext
<1>4. ASSUME value # NoValue PROVE MinifyPrinted' /\ ReadPrinted'
  <2>1. value \in CStrings /\ MinifyPrinted /\ ReadPrinted
    BY <1>4 DEF TextsInv
  <2>2. MinifyPrinted'
    BY <1>1, <2>1 DEF MinifyPrinted, minifyVars
  <2>3. ReadPrinted'
    BY <1>1, <2>1, ScanReads, AllocateReads, PlainReads, UnescapeReads, FinishReads
       DEF parse_string
  <2> QED
    BY <2>2, <2>3
<1> QED
  BY <1>1, <1>2, <1>3, <1>4 DEF TextsInv

\* Every step keeps the invariant.
LEMMA TextsInvNext == TextsInv /\ [TextsNext]_textsVars => TextsInv'
<1> SUFFICES ASSUME TextsInv, [TextsNext]_textsVars PROVE TextsInv'
  OBVIOUS
<1>1. ASSUME NEW string \in Values, PrintText(string) PROVE TextsInv'
  BY <1>1, PrintTextInv
<1>2. CASE MinifyText
  BY <1>2, MinifyTextInv
<1>3. CASE ParseText
  BY <1>3, ParseTextInv
<1>4. CASE ReadText
  BY <1>4, ReadTextInv
<1>5. CASE UNCHANGED textsVars
  <2>1. UNCHANGED minifyVars /\ UNCHANGED stringVars /\ value' = value
    BY <1>5 DEF textsVars
  <2>2. MinifyInv' /\ StringInv'
    BY <2>1, MinifyInvNext, StringInvNext DEF TextsInv
  <2>3. ASSUME value # NoValue PROVE MinifyPrinted' /\ ReadPrinted'
    <3>1. MinifyPrinted /\ ReadPrinted
      BY <2>3 DEF TextsInv
    <3>2. MinifyPrinted'
      BY <2>1, <3>1 DEF MinifyPrinted, minifyVars
    <3>3. ReadPrinted'
      BY <2>1, <3>1 DEF stringVars, ReadPrinted, ScanPrinted, DecodePrinted
    <3> QED
      BY <3>2, <3>3
  <2> QED
    BY <2>1, <2>2, <2>3 DEF TextsInv
<1> QED
  BY <1>1, <1>2, <1>3, <1>4, <1>5 DEF TextsNext

\* What the invariant says of the outcome.
LEMMA TextsInvComesBack == TextsInv => PrintedComesBack
<1> SUFFICES ASSUME TextsInv, value # NoValue
             PROVE  /\ \A k \in DOMAIN CString(before) : before[k] > 31
                    /\ stage = "done" => output = Append(value, NUL)
                    /\ stage = "failed" => starved
  BY DEF PrintedComesBack
<1> DEFINE P == print_string_ptr(value)
           block == P \o <<NUL>>
<1>1. value \in CStrings /\ before = block /\ ReadPrinted
  BY DEF TextsInv, MinifyPrinted
<1>2. IsPrintedBlock(block, P) /\ P \in Seq(Nat)
  <2>1. \E at : IsLayout(P, value, at)
    BY <1>1, Layout
  <2> QED
    BY <1>1, <2>1, PrintedBlock, LayoutBounds
<1>3. Len(P) \in Nat /\ Len(block) = Len(P) + 1 /\ DOMAIN P = 1 .. Len(P)
  BY <1>2 DEF NUL
<1> HIDE DEF P, block
<1>4. \A k \in DOMAIN CString(before) : before[k] > 31
  BY <1>1, <1>2, <1>3 DEF IsPrintedBlock
<1> QED
  BY <1>1, <1>4 DEF ReadPrinted

\* A text stays in its block whatever a client does with it, and cJSON_Minify
\* overwrites nothing that it has not read.
THEOREM TextStaysInPlace == TextsSpec => []InPlace
<1>1. TextsInv => InPlace
  BY DEF TextsInv, MinifyInv
<1> QED
  BY <1>1, TextsInvInit, TextsInvNext, PTL DEF TextsSpec

\* Whatever text is parsed, printed or not, minified or not, parse_string
\* writes only into the room it has asked for.
THEOREM TextFits == TextsSpec => []OutputFits
<1>1. TextsInv => OutputFits
  BY StringInvFits DEF TextsInv
<1> QED
  BY <1>1, TextsInvInit, TextsInvNext, PTL DEF TextsSpec

\* A string without NUL that print_string_ptr has printed and cJSON_Minify may
\* have gone over is read by parse_string as the same string, or not at all for
\* want of memory, and its text holds no control character: for every string.
THEOREM PrintedIsReadBack == TextsSpec => []PrintedComesBack
<1> QED
  BY TextsInvInit, TextsInvNext, TextsInvComesBack, PTL DEF TextsSpec

-----------------------------------------------------------------------------
(* A text that is cut into pieces                                          *)

\* What is written of a text are the sequence s and the first n characters of
\* p, and the next one goes behind them.
WroteInto(t, j, s, p, n) ==
  /\ j = Len(s) + n + 1
  /\ \A k \in 1 .. Len(s) : t[k] = s[k]
  /\ \A k \in 1 .. n : t[Len(s) + k] = p[k]

\* Keeping a character writes one more of p (cJSON.c:2890-2897 and 2944-2946).
LEMMA KeepWrites ==
  ASSUME MinifyInv, inside # "done", Read # NUL, Keep,
         NEW s \in Seq(Nat), NEW p, NEW n \in Nat,
         WroteInto(text, into, s, p, n), Read = p[n + 1]
  PROVE  WroteInto(text', into', s, p, n + 1)
<1>1. json + 1 \in 1 .. Len(text) /\ Read \in Nat
  BY GoesOn
<1>2. into \in 1 .. Len(text) /\ text \in Seq(Nat)
  BY <1>1 DEF MinifyInv, MinifyTyped, InPlace
<1>3. \A k \in 1 .. Len(text) : text'[k] = IF k = into THEN Read ELSE text[k]
  BY <1>1, <1>2, OneWritten DEF Keep
<1>4. into = Len(s) + n + 1 /\ into' = into + 1 /\ Len(s) \in Nat
  BY DEF WroteInto, Keep
<1>5. ASSUME NEW k \in 1 .. Len(s) PROVE text'[k] = s[k]
  <2>1. k \in 1 .. Len(text) /\ k # into
    BY <1>2, <1>4
  <2> QED
    BY <1>3, <2>1 DEF WroteInto
<1>6. ASSUME NEW k \in 1 .. n + 1 PROVE text'[Len(s) + k] = p[k]
  <2>1. CASE k = n + 1
    <3>1. Len(s) + k = into
      BY <1>4, <2>1
    <3> QED
      BY <1>2, <1>3, <2>1, <3>1
  <2>2. CASE k # n + 1
    <3>1. k \in 1 .. n /\ Len(s) + k \in 1 .. Len(text) /\ Len(s) + k # into
      BY <1>2, <1>4, <2>2
    <3> QED
      BY <1>3, <3>1 DEF WroteInto
  <2> QED
    BY <2>1, <2>2
<1>7. into' = Len(s) + (n + 1) + 1
  BY <1>4
<1> QED
  BY <1>5, <1>6, <1>7 DEF WroteInto

\* The two characters that are written are there.
LEMMA TwoThere ==
  ASSUME NEW s \in Seq(Nat), NEW i \in 1 .. Len(s), i + 1 \in 1 .. Len(s),
         NEW c \in Nat, NEW d \in Nat
  PROVE  /\ WithTwo(s, i, c, d)[i] = c
         /\ WithTwo(s, i, c, d)[i + 1] = d
<1> DEFINE t == [s EXCEPT ![i] = c]
<1>1. /\ t \in Seq(Nat) /\ Len(t) = Len(s)
      /\ \A k \in 1 .. Len(s) : t[k] = IF k = i THEN c ELSE s[k]
  BY OneWritten
<1>2. WithTwo(s, i, c, d) = [t EXCEPT ![i + 1] = d]
  BY DEF WithTwo
<1> HIDE DEF t
<1>3. \A k \in 1 .. Len(t) : [t EXCEPT ![i + 1] = d][k] = IF k = i + 1 THEN d ELSE t[k]
  BY <1>1, OneWritten
<1> QED
  BY <1>1, <1>2, <1>3

\* Keeping an escaped quote changes two characters (cJSON.c:2898-2903).
LEMMA KeepBothChanges ==
  ASSUME MinifyInv, inside # "done", Read # NUL, ReadNext # NUL, KeepBoth
  PROVE  /\ into + 1 <= Len(text) /\ Len(text) \in Nat /\ into \in Nat /\ into' = into + 2
         /\ text'[into] = Read /\ text'[into + 1] = ReadNext
         /\ \A k \in 1 .. Len(text) : k # into /\ k # into + 1 => text'[k] = text[k]
<1>1. /\ json + 1 \in 1 .. Len(text) /\ json + 2 \in 1 .. Len(text)
      /\ Read \in Nat /\ ReadNext \in Nat
  BY GoesOn
<1>2. into \in 1 .. Len(text) /\ into + 1 \in 1 .. Len(text) /\ text \in Seq(Nat)
  <2>1. /\ 1 <= into /\ into <= json /\ into \in Nat /\ json \in Nat
        /\ text \in Seq(Nat) /\ Len(text) \in Nat
    BY DEF MinifyInv, MinifyTyped, InPlace
  <2> QED
    BY <1>1, <2>1
<1>3. text' = WithTwo(text, into, Read, ReadNext)
  BY Zenon DEF KeepBoth, WithTwo
<1>4. LET t == WithTwo(text, into, Read, ReadNext)
      IN  /\ t \in Seq(Nat) /\ Len(t) = Len(text)
          /\ \A k \in 1 .. Len(text) : k # into /\ k # into + 1 => t[k] = text[k]
  BY <1>1, <1>2, TwoWritten, Zenon
<1>5. /\ WithTwo(text, into, Read, ReadNext)[into] = Read
      /\ WithTwo(text, into, Read, ReadNext)[into + 1] = ReadNext
  BY <1>1, <1>2, TwoThere
<1>6. /\ text'[into] = Read /\ text'[into + 1] = ReadNext
      /\ \A k \in 1 .. Len(text) : k # into /\ k # into + 1 => text'[k] = text[k]
  BY <1>3, <1>4, <1>5, Zenon
<1>7. into + 1 <= Len(text) /\ Len(text) \in Nat /\ into \in Nat /\ into' = into + 2
  BY <1>2 DEF KeepBoth
<1> QED
  BY <1>6, <1>7

\* It writes two more characters of p.
LEMMA KeepBothWrites ==
  ASSUME MinifyInv, inside # "done", Read # NUL, ReadNext # NUL, KeepBoth,
         NEW s \in Seq(Nat), NEW p, NEW n \in Nat,
         WroteInto(text, into, s, p, n), Read = p[n + 1], ReadNext = p[n + 2]
  PROVE  WroteInto(text', into', s, p, n + 2)
<1>1. /\ into + 1 <= Len(text) /\ Len(text) \in Nat /\ into \in Nat /\ into' = into + 2
      /\ text'[into] = Read /\ text'[into + 1] = ReadNext
      /\ \A k \in 1 .. Len(text) : k # into /\ k # into + 1 => text'[k] = text[k]
  BY KeepBothChanges
<1>2. into = Len(s) + n + 1 /\ Len(s) \in Nat
  BY DEF WroteInto
<1>3. ASSUME NEW k \in 1 .. Len(s) PROVE text'[k] = s[k]
  <2>1. k \in 1 .. Len(text) /\ k # into /\ k # into + 1
    BY <1>1, <1>2
  <2> QED
    BY <1>1, <2>1 DEF WroteInto
<1>4. ASSUME NEW k \in 1 .. n + 2 PROVE text'[Len(s) + k] = p[k]
  <2>1. CASE k = n + 1
    <3>1. Len(s) + k = into
      BY <1>2, <2>1
    <3> QED
      BY <1>1, <2>1, <3>1
  <2>2. CASE k = n + 2
    <3>1. Len(s) + k = into + 1
      BY <1>2, <2>2
    <3> QED
      BY <1>1, <2>2, <3>1
  <2>3. CASE k # n + 1 /\ k # n + 2
    <3>1. /\ k \in 1 .. n /\ Len(s) + k \in 1 .. Len(text)
          /\ Len(s) + k # into /\ Len(s) + k # into + 1
      BY <1>1, <1>2, <2>3
    <3> QED
      BY <1>1, <3>1 DEF WroteInto
  <2> QED
    BY <2>1, <2>2, <2>3
<1>5. into' = Len(s) + (n + 2) + 1
  BY <1>1, <1>2
<1> QED
  BY <1>3, <1>4, <1>5 DEF WroteInto

\* All of p is written.
LEMMA AllWritten ==
  ASSUME NEW s \in Seq(Nat), NEW p \in Seq(Nat), NEW t, NEW j,
         WroteInto(t, j, s, p, Len(p))
  PROVE  WroteInto(t, j, s \o p, << >>, 0)
<1>1. /\ s \o p \in Seq(Nat) /\ Len(s \o p) = Len(s) + Len(p)
      /\ \A k \in 1 .. Len(s) : (s \o p)[k] = s[k]
      /\ \A k \in 1 .. Len(p) : (s \o p)[Len(s) + k] = p[k]
  BY Behind
<1>2. Len(s) \in Nat /\ Len(p) \in Nat
  OBVIOUS
<1>3. ASSUME NEW k \in 1 .. Len(s \o p) PROVE t[k] = (s \o p)[k]
  <2>1. CASE k <= Len(s)
    <3>1. k \in 1 .. Len(s)
      BY <1>2, <2>1
    <3> QED
      BY <1>1, <3>1 DEF WroteInto
  <2>2. CASE k > Len(s)
    <3>1. k - Len(s) \in 1 .. Len(p) /\ Len(s) + (k - Len(s)) = k
      BY <1>1, <1>2, <2>2
    <3>2. t[Len(s) + (k - Len(s))] = p[k - Len(s)]
      BY <3>1 DEF WroteInto
    <3>3. (s \o p)[Len(s) + (k - Len(s))] = p[k - Len(s)]
      BY <1>1, <3>1
    <3> QED
      BY <3>1, <3>2, <3>3
  <2> QED
    BY <1>1, <1>2, <2>1, <2>2
<1>4. j = Len(s \o p) + 0 + 1
  BY <1>1, <1>2 DEF WroteInto
<1> QED
  BY <1>3, <1>4 DEF WroteInto

\* A block that begins with the parts and a NUL behind them: where each part
\* begins, and what is left of those in front of it.
IsCut(block, parts, at, left) ==
  /\ parts \in Seq(Piece) /\ Len(parts) \in Nat
  /\ at[0] = 1 /\ left[0] = << >>
  /\ \A m \in 1 .. Len(parts) :
       /\ at[m] = at[m - 1] + Len(parts[m]) /\ left[m] = left[m - 1] \o Left(parts[m])
       /\ \A i \in 1 .. Len(parts[m]) : block[at[m - 1] + (i - 1)] = parts[m][i]
  /\ \A m \in 0 .. Len(parts) :
       at[m] \in Nat /\ at[m] <= Len(block) /\ left[m] \in Seq(Char)
  /\ block[at[Len(parts)]] = NUL

\* json is at the i-th character of the m-th part.
AtPart(parts, at, m, i) ==
  m \in 1 .. Len(parts) /\ i \in 1 .. Len(parts[m]) /\ json = at[m - 1] + (i - 1)

\* Between two parts, everything in front has been handled.
BetweenParts(parts, at, left) ==
  \E n \in 0 .. Len(parts) : json = at[n] /\ WroteInto(text, into, left[n], << >>, 0)

\* In a comment nothing of it has been written.
InOneline(parts, at, left) ==
  \E m, i \in Nat :
    /\ AtPart(parts, at, m, i) /\ i > 2 /\ IsOneline(parts[m])
    /\ WroteInto(text, into, left[m - 1], << >>, 0)

InMultiline(parts, at, left) ==
  \E m, i \in Nat :
    /\ AtPart(parts, at, m, i) /\ i > 2 /\ i < Len(parts[m]) /\ IsMultiline(parts[m])
    /\ WroteInto(text, into, left[m - 1], << >>, 0)

\* In a string all of it up to here has been written, and its quote is next
\* only where the string ends.
InString(parts, at, left) ==
  \E m, i \in Nat :
    /\ AtPart(parts, at, m, i) /\ i > 1 /\ IsString(parts[m])
    /\ parts[m][i] = Quote => i = Len(parts[m])
    /\ WroteInto(text, into, left[m - 1], parts[m], i - 1)

\* All parts have been handled and the NUL has been written.
AllHandled(parts, left) ==
  /\ WroteInto(text, into, left[Len(parts)], << >>, 0)
  /\ into <= Len(text) /\ text[into] = NUL

\* The minifier goes through a block part by part.
PartByPart(parts, at, left) ==
  /\ inside = "text" => BetweenParts(parts, at, left)
  /\ inside = "oneline" => InOneline(parts, at, left)
  /\ inside = "multiline" => InMultiline(parts, at, left)
  /\ inside = "string" => InString(parts, at, left)
  /\ inside = "done" => AllHandled(parts, left)

\* A text without NUL.
LEMMA CharSeq ==
  ASSUME NEW s \in Seq(Char)
  PROVE  s \in Seq(Nat) /\ Len(s) \in Nat /\ \A i \in 1 .. Len(s) : s[i] # NUL
<1>1. Char \subseteq Nat /\ NUL \notin Char
  BY DEF Char
<1>2. \A i \in 1 .. Len(s) : s[i] \in Char
  BY ElementOfSeq
<1>3. s \in Seq(Nat)
  BY <1>1, SeqMonotonic
<1> HIDE DEF Char
<1> QED
  BY <1>1, <1>2, <1>3

\* What a piece is its first character tells.
LEMMA PieceKind ==
  ASSUME NEW p \in Piece
  PROVE  /\ p \in Seq(Nat) /\ Len(p) \in Nat /\ Len(p) >= 1
         /\ \A i \in 1 .. Len(p) : p[i] # NUL
         /\ p[1] \in Space => IsSpace(p)
         /\ p[1] = Slash => IsOneline(p) \/ IsMultiline(p)
         /\ p[1] = Quote => IsString(p)
         /\ p[1] \notin Space \cup {Slash, Quote} => IsOther(p)
<1>1. p \in Seq(Char) /\ (IsSpace(p) \/ IsOneline(p) \/ IsMultiline(p) \/ IsString(p) \/ IsOther(p))
  BY DEF Piece
<1>3. p \in Seq(Nat) /\ Len(p) \in Nat /\ \A i \in 1 .. Len(p) : p[i] # NUL
  BY <1>1, CharSeq
<1>4. Slash \notin Space /\ Quote \notin Space /\ Quote # Slash
  BY DEF Slash, Quote, Space, Newline
<1>5. CASE IsSpace(p)
  BY <1>3, <1>4, <1>5 DEF IsSpace
<1>6. CASE IsOneline(p)
  BY <1>3, <1>4, <1>6 DEF IsOneline
<1>7. CASE IsMultiline(p)
  BY <1>3, <1>4, <1>7 DEF IsMultiline
<1>8. CASE IsString(p)
  BY <1>3, <1>4, <1>8 DEF IsString
<1>9. CASE IsOther(p)
  BY <1>3, <1>4, <1>9 DEF IsOther
<1> QED
  BY <1>1, <1>5, <1>6, <1>7, <1>8, <1>9

\* From json on the block is still the one the client gave.
LEMMA StillToRead ==
  ASSUME MinifyInv, inside # "done"
  PROVE  /\ Len(before) \in Nat /\ json \in 1 .. Len(before) /\ Len(text) = Len(before)
         /\ \A k \in json .. Len(before) : text[k] = before[k]
<1>1. before \in Seq(Nat) /\ json \in Nat /\ into \in Nat
  BY DEF MinifyInv, MinifyTyped
<1>2. /\ 1 <= into /\ into <= json /\ json <= Len(before) /\ Len(text) = Len(before)
      /\ \A k \in json .. Len(before) : text[k] = before[k]
  BY DEF MinifyInv, InPlace
<1> QED
  BY <1>1, <1>2

\* What the minifier reads in a part, and behind it.
LEMMA ReadsPart ==
  ASSUME MinifyInv, inside # "done", NEW parts, NEW at, NEW left,
         IsCut(before, parts, at, left),
         NEW m \in Nat, NEW i \in Nat, AtPart(parts, at, m, i)
  PROVE  /\ parts[m] \in Piece /\ m \in 1 .. Len(parts) /\ i \in 1 .. Len(parts[m])
         /\ Len(parts[m]) \in Nat /\ m - 1 \in 0 .. Len(parts)
         /\ left[m - 1] \in Seq(Nat)
         /\ Read = parts[m][i] /\ Read # NUL
         /\ i < Len(parts[m]) => ReadNext = parts[m][i + 1] /\ ReadNext # NUL
         /\ i = Len(parts[m]) => json + 1 = at[m]
<1>1. /\ parts \in Seq(Piece) /\ Len(parts) \in Nat
      /\ m \in 1 .. Len(parts) /\ i \in 1 .. Len(parts[m]) /\ json = at[m - 1] + (i - 1)
  BY DEF IsCut, AtPart
<1>2. parts[m] \in Piece /\ m - 1 \in 0 .. Len(parts) /\ m \in 0 .. Len(parts)
  BY <1>1
<1>3. /\ Len(parts[m]) \in Nat /\ \A k \in 1 .. Len(parts[m]) : parts[m][k] # NUL
  BY <1>2, PieceKind
<1>4. /\ at[m] = at[m - 1] + Len(parts[m]) /\ at[m - 1] \in Nat
      /\ \A k \in 1 .. Len(parts[m]) : before[at[m - 1] + (k - 1)] = parts[m][k]
  <2>1. \A j \in 0 .. Len(parts) : at[j] \in Nat
    BY DEF IsCut
  <2>2. \A j \in 1 .. Len(parts) :
          /\ at[j] = at[j - 1] + Len(parts[j])
          /\ \A k \in 1 .. Len(parts[j]) : before[at[j - 1] + (k - 1)] = parts[j][k]
    BY DEF IsCut
  <2> QED
    BY <1>1, <1>2, <2>1, <2>2
<1>5. left[m - 1] \in Seq(Char)
  BY <1>2 DEF IsCut
<1>6. left[m - 1] \in Seq(Nat)
  BY <1>5, CharSeq
<1>7. /\ Len(before) \in Nat /\ json \in 1 .. Len(before) /\ Len(text) = Len(before)
      /\ \A k \in json .. Len(before) : text[k] = before[k]
  BY StillToRead
<1>8. Read = parts[m][i] /\ Read # NUL
  <2>1. before[at[m - 1] + (i - 1)] = parts[m][i]
    BY <1>1, <1>4
  <2>2. text[json] = before[json]
    BY <1>7
  <2> QED
    BY <1>1, <1>3, <2>1, <2>2 DEF Read
<1>9. ASSUME i < Len(parts[m])
      PROVE  ReadNext = parts[m][i + 1] /\ ReadNext # NUL
  <2>1. json + 1 \in 1 .. Len(text)
    BY <1>8, GoesOn
  <2>2. i + 1 \in 1 .. Len(parts[m]) /\ at[m - 1] + ((i + 1) - 1) = json + 1
    BY <1>1, <1>3, <1>4, <1>9
  <2>3. before[at[m - 1] + ((i + 1) - 1)] = parts[m][i + 1]
    BY <1>4, <2>2
  <2>4. text[json + 1] = before[json + 1]
    BY <1>7, <2>1
  <2> QED
    BY <1>3, <2>2, <2>3, <2>4 DEF ReadNext
<1>10. i = Len(parts[m]) => json + 1 = at[m]
  BY <1>1, <1>3, <1>4
<1> QED
  BY <1>1, <1>2, <1>3, <1>6, <1>8, <1>9, <1>10

\* Where a part may begin the last one has ended, or a part does begin.
LEMMA NextPart ==
  ASSUME MinifyInv, inside # "done", NEW parts, NEW at, NEW left,
         IsCut(before, parts, at, left),
         NEW n \in 0 .. Len(parts), json = at[n]
  PROVE  /\ n = Len(parts) => Read = NUL
         /\ n # Len(parts) => AtPart(parts, at, n + 1, 1) /\ Read # NUL
<1>1. Len(parts) \in Nat /\ parts \in Seq(Piece) /\ before[at[Len(parts)]] = NUL
  BY DEF IsCut
<1>2. /\ Len(before) \in Nat /\ json \in 1 .. Len(before)
      /\ \A k \in json .. Len(before) : text[k] = before[k]
  BY StillToRead
<1>3. ASSUME n = Len(parts) PROVE Read = NUL
  BY <1>1, <1>2, <1>3 DEF Read
<1>4. ASSUME n # Len(parts) PROVE AtPart(parts, at, n + 1, 1) /\ Read # NUL
  <2>1. n + 1 \in 1 .. Len(parts) /\ (n + 1) - 1 = n /\ n + 1 \in Nat
    BY <1>1, <1>4
  <2>2. Len(parts[n + 1]) \in Nat /\ Len(parts[n + 1]) >= 1
    BY <1>1, <2>1, PieceKind
  <2>3. at[n] \in Nat
    BY DEF IsCut
  <2>4. AtPart(parts, at, n + 1, 1)
    BY <2>1, <2>2, <2>3 DEF AtPart
  <2>5. Read # NUL
    BY <2>1, <2>4, ReadsPart
  <2> QED
    BY <2>4, <2>5
<1> QED
  BY <1>3, <1>4

\* What is left of a part.
LEMMA LeftOf ==
  ASSUME NEW parts, NEW at, NEW left, IsCut(before, parts, at, left),
         NEW m \in 1 .. Len(parts)
  PROVE  left[m] = IF parts[m][1] \in Space \cup {Slash} THEN left[m - 1]
                   ELSE left[m - 1] \o parts[m]
<1>1. left[m] = left[m - 1] \o Left(parts[m])
  BY DEF IsCut
<1>2. left[m - 1] \in Seq(Char)
  <2>1. m - 1 \in 0 .. Len(parts)
    BY DEF IsCut
  <2> QED
    BY <2>1 DEF IsCut
<1>3. left[m - 1] \o << >> = left[m - 1]
  BY <1>2, ConcatEmptySeq
<1> QED
  BY <1>1, <1>3 DEF Left

\* A part that is dropped has ended.
LEMMA PartDropped ==
  ASSUME NEW parts, NEW at, NEW left, IsCut(before, parts, at, left),
         NEW m \in 1 .. Len(parts), parts[m][1] \in Space \cup {Slash},
         json' = at[m], UNCHANGED <<text, into, before>>, inside' = "text",
         WroteInto(text, into, left[m - 1], << >>, 0)
  PROVE  PartByPart(parts, at, left)'
<1>1. left[m] = left[m - 1]
  BY LeftOf
<1>2. WroteInto(text', into', left[m], << >>, 0)
  BY <1>1
<1>3. m \in 0 .. Len(parts)
  BY DEF IsCut
<1>4. BetweenParts(parts, at, left)'
  BY <1>2, <1>3 DEF BetweenParts
<1> QED
  BY <1>4 DEF PartByPart

\* A part that is kept has ended.
LEMMA PartKept ==
  ASSUME NEW parts, NEW at, NEW left, IsCut(before, parts, at, left),
         NEW m \in 1 .. Len(parts), parts[m][1] \notin Space \cup {Slash},
         json' = at[m], inside' = "text",
         WroteInto(text', into', left[m - 1], parts[m], Len(parts[m]))
  PROVE  PartByPart(parts, at, left)'
<1>1. left[m] = left[m - 1] \o parts[m]
  BY LeftOf
<1>2. left[m - 1] \in Seq(Nat) /\ parts[m] \in Seq(Nat)
  <2>1. parts[m] \in Piece /\ m - 1 \in 0 .. Len(parts)
    BY DEF IsCut
  <2>2. left[m - 1] \in Seq(Char)
    BY <2>1 DEF IsCut
  <2> QED
    BY <2>1, <2>2, CharSeq, PieceKind
<1>3. WroteInto(text', into', left[m], << >>, 0)
  BY <1>1, <1>2, AllWritten
<1>4. m \in 0 .. Len(parts)
  BY DEF IsCut
<1>5. BetweenParts(parts, at, left)'
  BY <1>3, <1>4 DEF BetweenParts
<1> QED
  BY <1>5 DEF PartByPart

\* White space is dropped.
LEMMA SpaceParts ==
  ASSUME MinifyInv, NEW parts, NEW at, NEW left, IsCut(before, parts, at, left),
         PartByPart(parts, at, left), SkipSpace
  PROVE  PartByPart(parts, at, left)'
<1>1. /\ inside = "text" /\ inside' = "text" /\ Read \in Space
      /\ json' = json + 1 /\ UNCHANGED <<text, into, before>>
  BY DEF SkipSpace, Drop
<1>2. PICK n \in 0 .. Len(parts) : json = at[n] /\ WroteInto(text, into, left[n], << >>, 0)
  BY <1>1 DEF PartByPart, BetweenParts
<1>3. Read # NUL
  BY <1>1 DEF NUL, Space, Newline
<1>4. AtPart(parts, at, n + 1, 1) /\ n + 1 \in Nat /\ (n + 1) - 1 = n
  BY <1>1, <1>2, <1>3, NextPart
<1>5. /\ parts[n + 1] \in Piece /\ n + 1 \in 1 .. Len(parts)
      /\ Read = parts[n + 1][1]
      /\ 1 = Len(parts[n + 1]) => json + 1 = at[n + 1]
  BY <1>1, <1>4, ReadsPart
<1>6. IsSpace(parts[n + 1])
  BY <1>1, <1>5, PieceKind
<1>7. json' = at[n + 1]
  BY <1>1, <1>5, <1>6 DEF IsSpace
<1> QED
  BY <1>1, <1>2, <1>4, <1>5, <1>7, PartDropped

\* No slash of a part begins no comment.
LEMMA NoSlashAlone ==
  ASSUME MinifyInv, NEW parts, NEW at, NEW left, IsCut(before, parts, at, left),
         PartByPart(parts, at, left), SkipSlash
  PROVE  FALSE
<1>1. inside = "text" /\ Read = Slash /\ ReadNext \notin {Slash, Star}
  BY DEF SkipSlash
<1>2. PICK n \in 0 .. Len(parts) : json = at[n] /\ WroteInto(text, into, left[n], << >>, 0)
  BY <1>1 DEF PartByPart, BetweenParts
<1>3. Read # NUL
  BY <1>1 DEF NUL, Slash
<1>4. AtPart(parts, at, n + 1, 1) /\ n + 1 \in Nat
  BY <1>1, <1>2, <1>3, NextPart
<1>5. /\ parts[n + 1] \in Piece /\ Read = parts[n + 1][1]
      /\ Len(parts[n + 1]) \in Nat
      /\ 1 < Len(parts[n + 1]) => ReadNext = parts[n + 1][1 + 1]
  BY <1>1, <1>4, ReadsPart
<1>6. IsOneline(parts[n + 1]) \/ IsMultiline(parts[n + 1])
  BY <1>1, <1>5, PieceKind
<1> QED
  BY <1>1, <1>5, <1>6 DEF IsOneline, IsMultiline

\* A comment begins.
LEMMA EnterParts ==
  ASSUME MinifyInv, NEW parts, NEW at, NEW left, IsCut(before, parts, at, left),
         PartByPart(parts, at, left), EnterComment
  PROVE  PartByPart(parts, at, left)'
<1>1. /\ inside = "text" /\ Read = Slash /\ ReadNext \in {Slash, Star}
      /\ inside' = IF ReadNext = Slash THEN "oneline" ELSE "multiline"
      /\ json' = json + 2 /\ UNCHANGED <<text, into, before>>
  BY DEF EnterComment, Drop
<1>2. PICK n \in 0 .. Len(parts) : json = at[n] /\ WroteInto(text, into, left[n], << >>, 0)
  BY <1>1 DEF PartByPart, BetweenParts
<1>3. Read # NUL
  BY <1>1 DEF NUL, Slash
<1>4. AtPart(parts, at, n + 1, 1) /\ n + 1 \in Nat /\ (n + 1) - 1 = n
  BY <1>1, <1>2, <1>3, NextPart
<1> DEFINE p == parts[n + 1]
<1>5. /\ p \in Piece /\ n + 1 \in 1 .. Len(parts) /\ Len(p) \in Nat /\ Read = p[1]
      /\ 1 < Len(p) => ReadNext = p[1 + 1]
  BY <1>1, <1>4, ReadsPart
<1>6. IsOneline(p) \/ IsMultiline(p)
  BY <1>1, <1>5, PieceKind
<1>7. json' = at[n] + (3 - 1)
  BY <1>1, <1>2
<1>8. WroteInto(text', into', left[(n + 1) - 1], << >>, 0)
  BY <1>1, <1>2, <1>4
<1>9. CASE ReadNext = Slash
  <2>1. IsOneline(p)
    BY <1>5, <1>6, <1>9 DEF IsMultiline, Slash, Star
  <2>2. 3 \in 1 .. Len(p)
    BY <1>5, <2>1 DEF IsOneline
  <2>3. AtPart(parts, at, n + 1, 3)'
    BY <1>4, <1>5, <1>7, <2>2 DEF AtPart
  <2>4. InOneline(parts, at, left)'
    BY <1>4, <1>8, <2>1, <2>3 DEF InOneline
  <2> QED
    BY <1>1, <1>9, <2>4 DEF PartByPart
<1>10. CASE ReadNext # Slash
  <2>1. IsMultiline(p)
    BY <1>5, <1>6, <1>10 DEF IsOneline
  <2>2. 3 \in 1 .. Len(p) /\ 3 < Len(p)
    BY <1>5, <2>1 DEF IsMultiline
  <2>3. AtPart(parts, at, n + 1, 3)'
    BY <1>4, <1>5, <1>7, <2>2 DEF AtPart
  <2>4. InMultiline(parts, at, left)'
    BY <1>4, <1>8, <2>1, <2>2, <2>3 DEF InMultiline
  <2> QED
    BY <1>1, <1>10, <2>4 DEF PartByPart
<1> QED
  BY <1>9, <1>10

\* A comment goes on to the end of the line.
LEMMA OnelineParts ==
  ASSUME MinifyInv, NEW parts, NEW at, NEW left, IsCut(before, parts, at, left),
         PartByPart(parts, at, left), skip_oneline_comment
  PROVE  PartByPart(parts, at, left)'
<1>1. inside = "oneline"
  BY DEF skip_oneline_comment
<1>2. PICK m, i \in Nat :
        /\ AtPart(parts, at, m, i) /\ i > 2 /\ IsOneline(parts[m])
        /\ WroteInto(text, into, left[m - 1], << >>, 0)
  BY <1>1 DEF PartByPart, InOneline
<1> DEFINE p == parts[m]
<1>3. /\ m \in 1 .. Len(parts) /\ i \in 1 .. Len(p) /\ Len(p) \in Nat
      /\ Read = p[i] /\ Read # NUL
      /\ i = Len(p) => json + 1 = at[m]
  BY <1>1, <1>2, ReadsPart
<1>4. /\ json' = json + 1 /\ UNCHANGED <<text, into, before>>
      /\ inside' = IF Read = Newline THEN "text" ELSE "oneline"
  BY <1>3 DEF skip_oneline_comment, Drop
<1>5. CASE Read = Newline
  <2>1. i = Len(p)
    <3>1. \A k \in 3 .. Len(p) - 1 : p[k] # Newline
      BY <1>2 DEF IsOneline
    <3>2. i \notin 3 .. Len(p) - 1
      BY <1>3, <1>5, <3>1
    <3> HIDE DEF p
    <3> QED
      BY <1>2, <1>3, <3>2
  <2>2. p[1] \in Space \cup {Slash}
    BY <1>2 DEF IsOneline
  <2> QED
    BY <1>2, <1>3, <1>4, <1>5, <2>1, <2>2, PartDropped
<1>6. CASE Read # Newline
  <2>1. i # Len(p)
    BY <1>2, <1>3, <1>6 DEF IsOneline
  <2>2. i + 1 \in 1 .. Len(p) /\ i + 1 \in Nat /\ i + 1 > 2
    BY <1>2, <1>3, <2>1
  <2>3. AtPart(parts, at, m, i + 1)'
    <3>1. at[m - 1] \in Nat
      <4>1. m - 1 \in 0 .. Len(parts)
        BY <1>3 DEF IsCut
      <4> QED
        BY <4>1 DEF IsCut
    <3>2. json = at[m - 1] + (i - 1)
      BY <1>2 DEF AtPart
    <3>3. json' = at[m - 1] + ((i + 1) - 1)
      BY <1>2, <1>4, <3>1, <3>2
    <3> QED
      BY <1>3, <2>2, <3>3 DEF AtPart
  <2>4. WroteInto(text', into', left[m - 1], << >>, 0)
    BY <1>2, <1>4
  <2>5. InOneline(parts, at, left)'
    BY <1>2, <2>2, <2>3, <2>4 DEF InOneline
  <2> QED
    BY <1>4, <1>6, <2>5 DEF PartByPart
<1> QED
  BY <1>5, <1>6

\* A comment goes on to a star with a slash behind it.
LEMMA MultilineParts ==
  ASSUME MinifyInv, NEW parts, NEW at, NEW left, IsCut(before, parts, at, left),
         PartByPart(parts, at, left), skip_multiline_comment
  PROVE  PartByPart(parts, at, left)'
<1>1. inside = "multiline"
  BY DEF skip_multiline_comment
<1>2. PICK m, i \in Nat :
        /\ AtPart(parts, at, m, i) /\ i > 2 /\ i < Len(parts[m]) /\ IsMultiline(parts[m])
        /\ WroteInto(text, into, left[m - 1], << >>, 0)
  BY <1>1 DEF PartByPart, InMultiline
<1> DEFINE p == parts[m]
<1>3. /\ m \in 1 .. Len(parts) /\ i \in 1 .. Len(p) /\ Len(p) \in Nat
      /\ Read = p[i] /\ Read # NUL /\ ReadNext = p[i + 1]
  BY <1>1, <1>2, ReadsPart
<1>4. /\ json = at[m - 1] + (i - 1) /\ at[m - 1] \in Nat
      /\ at[m] = at[m - 1] + Len(p)
  <2>1. m - 1 \in 0 .. Len(parts)
    BY <1>3 DEF IsCut
  <2> QED
    BY <1>2, <1>3, <2>1 DEF IsCut, AtPart
<1>5. CASE Read = Star /\ ReadNext = Slash
  <2>1. json' = json + 2 /\ UNCHANGED <<text, into, before>> /\ inside' = "text"
    BY <1>3, <1>5 DEF skip_multiline_comment, Drop
  <2>2. i = Len(p) - 1
    <3>1. i \notin 3 .. Len(p) - 2
      BY <1>2, <1>3, <1>5 DEF IsMultiline
    <3> QED
      BY <1>2, <1>3, <3>1
  <2>3. json' = at[m]
    BY <1>3, <1>4, <2>1, <2>2
  <2>4. p[1] \in Space \cup {Slash}
    BY <1>2 DEF IsMultiline
  <2> QED
    BY <1>2, <1>3, <2>1, <2>3, <2>4, PartDropped
<1>6. CASE ~(Read = Star /\ ReadNext = Slash)
  <2>1. json' = json + 1 /\ UNCHANGED <<text, into, before>> /\ inside' = "multiline"
    BY <1>3, <1>6 DEF skip_multiline_comment, Drop
  <2>2. i # Len(p) - 1
    <3>1. ASSUME i = Len(p) - 1 PROVE p[i] = p[Len(p) - 1] /\ p[i + 1] = p[Len(p)]
      BY <1>3, <3>1
    <3> QED
      BY <1>2, <1>3, <1>6, <3>1 DEF IsMultiline
  <2>3. i + 1 \in 1 .. Len(p) /\ i + 1 \in Nat /\ i + 1 > 2 /\ i + 1 < Len(p)
    BY <1>2, <1>3, <2>2
  <2>4. json' = at[m - 1] + ((i + 1) - 1)
    BY <1>4, <2>1
  <2>5. AtPart(parts, at, m, i + 1)'
    BY <1>3, <2>3, <2>4 DEF AtPart
  <2>6. WroteInto(text', into', left[m - 1], << >>, 0)
    BY <1>2, <2>1
  <2>7. InMultiline(parts, at, left)'
    BY <1>2, <2>3, <2>5, <2>6 DEF InMultiline
  <2> QED
    BY <2>1, <2>7 DEF PartByPart
<1> QED
  BY <1>5, <1>6

\* A string begins.
LEMMA EnterStringParts ==
  ASSUME MinifyInv, NEW parts, NEW at, NEW left, IsCut(before, parts, at, left),
         PartByPart(parts, at, left), EnterString
  PROVE  PartByPart(parts, at, left)'
<1>1. inside = "text" /\ Read = Quote /\ Keep /\ inside' = "string" /\ json' = json + 1
  BY DEF EnterString, Keep
<1>2. PICK n \in 0 .. Len(parts) : json = at[n] /\ WroteInto(text, into, left[n], << >>, 0)
  BY <1>1 DEF PartByPart, BetweenParts
<1>3. Read # NUL
  BY <1>1 DEF NUL, Quote
<1>4. AtPart(parts, at, n + 1, 1) /\ n + 1 \in Nat /\ (n + 1) - 1 = n
  BY <1>1, <1>2, <1>3, NextPart
<1> DEFINE p == parts[n + 1]
<1>5. /\ p \in Piece /\ n + 1 \in 1 .. Len(parts) /\ Len(p) \in Nat /\ Read = p[1]
      /\ left[(n + 1) - 1] \in Seq(Nat)
  BY <1>1, <1>4, ReadsPart
<1>6. IsString(p)
  BY <1>1, <1>5, PieceKind
<1>7. 2 \in 1 .. Len(p) /\ 2 > 1
  BY <1>5, <1>6 DEF IsString
<1>8. p[2] = Quote => 2 = Len(p)
  <2>1. ASSUME p[2] = Quote, 2 # Len(p) PROVE FALSE
    <3>1. 2 \in 2 .. Len(p) - 1
      <4>1. Len(p) \in Nat /\ Len(p) >= 2 /\ Len(p) # 2
        BY <1>5, <1>7, <2>1
      <4> HIDE DEF p
      <4> QED
        BY <4>1
    <3>2. p[2 - 1] = Backslash
      BY <1>6, <2>1, <3>1 DEF IsString
    <3> QED
      BY <1>1, <1>5, <3>2 DEF Quote, Backslash
  <2> QED
    BY <2>1
<1>9. WroteInto(text', into', left[(n + 1) - 1], p, 2 - 1)
  <2>1. WroteInto(text, into, left[n], p, 0)
    BY <1>2 DEF WroteInto
  <2>2. WroteInto(text', into', left[n], p, 0 + 1)
    <3>1. Read = p[0 + 1] /\ left[n] \in Seq(Nat)
      BY <1>4, <1>5
    <3> QED
      BY <1>1, <1>3, <2>1, <3>1, KeepWrites
  <2> QED
    BY <1>4, <2>2
<1>10. AtPart(parts, at, n + 1, 2)'
  <2>1. json' = at[(n + 1) - 1] + (2 - 1)
    BY <1>1, <1>2, <1>4
  <2> QED
    BY <1>5, <1>7, <2>1 DEF AtPart
<1>11. InString(parts, at, left)'
  BY <1>4, <1>6, <1>7, <1>8, <1>9, <1>10 DEF InString
<1> QED
  BY <1>1, <1>11 DEF PartByPart

\* A string goes on to a quote without a backslash in front of it.
LEMMA StringParts ==
  ASSUME MinifyInv, NEW parts, NEW at, NEW left, IsCut(before, parts, at, left),
         PartByPart(parts, at, left), minify_string
  PROVE  PartByPart(parts, at, left)'
<1>1. inside = "string"
  BY DEF minify_string
<1>2. PICK m, i \in Nat :
        /\ AtPart(parts, at, m, i) /\ i > 1 /\ IsString(parts[m])
        /\ parts[m][i] = Quote => i = Len(parts[m])
        /\ WroteInto(text, into, left[m - 1], parts[m], i - 1)
  BY <1>1 DEF PartByPart, InString
<1> DEFINE p == parts[m]
<1>3. /\ m \in 1 .. Len(parts) /\ i \in 1 .. Len(p) /\ Len(p) \in Nat
      /\ Read = p[i] /\ Read # NUL
      /\ i < Len(p) => ReadNext = p[i + 1] /\ ReadNext # NUL
      /\ left[m - 1] \in Seq(Nat)
  BY <1>1, <1>2, ReadsPart
<1>4. /\ json = at[m - 1] + (i - 1) /\ at[m - 1] \in Nat
      /\ at[m] = at[m - 1] + Len(p)
  <2>1. m - 1 \in 0 .. Len(parts)
    BY <1>3 DEF IsCut
  <2> QED
    BY <1>2, <1>3, <2>1 DEF IsCut, AtPart
<1>5. /\ p[1] = Quote /\ p[Len(p)] = Quote /\ p[Len(p) - 1] # Backslash
      /\ \A k \in 2 .. Len(p) - 1 : p[k] = Quote => p[k - 1] = Backslash
  BY <1>2 DEF IsString
<1>6. Quote # Backslash /\ Quote \notin Space \cup {Slash}
  BY DEF Quote, Backslash, Space, Slash, Newline
<1> HIDE DEF p
<1>7. i - 1 \in Nat /\ (i - 1) + 1 = i /\ (i - 1) + 2 = i + 1
  BY <1>2
<1>8. WroteInto(text, into, left[m - 1], p, i - 1)
  BY <1>2 DEF p
<1>9. CASE Read = Backslash /\ ReadNext = Quote
  <2>1. i # Len(p)
    BY <1>3, <1>5, <1>6, <1>9
  <2>2. i < Len(p)
    BY <1>2, <1>3, <2>1
  <2>3. /\ KeepBoth /\ inside' = "string" /\ json' = json + 2
        /\ ReadNext = p[i + 1] /\ ReadNext # NUL
    BY <1>3, <1>9, <2>2 DEF minify_string, KeepBoth
  <2>4. i + 1 # Len(p)
    <3>1. ASSUME i + 1 = Len(p) PROVE p[i] = p[Len(p) - 1]
      BY <1>2, <3>1
    <3> QED
      BY <1>3, <1>5, <1>9, <3>1
  <2>5. i + 2 \in 1 .. Len(p) /\ i + 2 \in Nat /\ i + 2 > 1 /\ (i + 2) - 1 = i + 1
    BY <1>2, <1>3, <2>2, <2>4
  <2>6. p[i + 2] = Quote => i + 2 = Len(p)
    <3>1. ASSUME p[i + 2] = Quote, i + 2 # Len(p) PROVE FALSE
      <4>1. i + 2 \in 2 .. Len(p) - 1
        BY <1>3, <2>5, <3>1
      <4>2. p[(i + 2) - 1] = Backslash
        BY <1>5, <3>1, <4>1
      <4> QED
        BY <1>6, <1>9, <2>3, <2>5, <4>2
    <3> QED
      BY <3>1
  <2>7. WroteInto(text', into', left[m - 1], p, (i - 1) + 2)
    <3>1. Read = p[(i - 1) + 1] /\ ReadNext = p[(i - 1) + 2]
      BY <1>3, <1>7, <2>3
    <3> QED
      BY <1>1, <1>3, <1>7, <1>8, <2>3, <3>1, KeepBothWrites
  <2>8. AtPart(parts, at, m, i + 2)'
    <3>1. json' = json + 2 /\ i \in Nat
      BY <1>2, <2>3
    <3>2. json' = at[m - 1] + ((i + 2) - 1)
      BY <1>4, <3>1
    <3> QED
      BY <1>3, <2>5, <3>2 DEF AtPart, p
  <2>9. WroteInto(text', into', left[m - 1], p, (i + 2) - 1)
    BY <1>7, <2>5, <2>7
  <2>10. InString(parts, at, left)'
    BY <1>2, <2>5, <2>6, <2>8, <2>9 DEF InString, p
  <2> QED
    BY <2>3, <2>10 DEF PartByPart
<1>10. CASE ~(Read = Backslash /\ ReadNext = Quote)
  <2>1. /\ Keep /\ inside' = (IF Read = Quote THEN "text" ELSE "string")
        /\ json' = json + 1
    BY <1>3, <1>10 DEF minify_string, Keep
  <2>2. WroteInto(text', into', left[m - 1], p, i)
    <3>1. Read = p[(i - 1) + 1]
      BY <1>3, <1>7
    <3>2. WroteInto(text', into', left[m - 1], p, (i - 1) + 1)
      BY <1>1, <1>3, <1>7, <1>8, <2>1, <3>1, KeepWrites
    <3> QED
      BY <1>7, <3>2
  <2>3. CASE Read = Quote
    <3>1. i = Len(p)
      BY <1>2, <1>3, <2>3 DEF p
    <3>2. WroteInto(text', into', left[m - 1], parts[m], Len(parts[m]))
      BY <2>2, <3>1 DEF p
    <3>3. json' = at[m]
      BY <1>3, <1>4, <2>1, <3>1
    <3>4. parts[m][1] \notin Space \cup {Slash} /\ inside' = "text"
      BY <1>5, <1>6, <2>1, <2>3 DEF p
    <3> QED
      BY <1>3, <3>2, <3>3, <3>4, PartKept
  <2>4. CASE Read # Quote
    <3>1. i # Len(p)
      BY <1>3, <1>5, <2>4
    <3>2. i + 1 \in 1 .. Len(p) /\ i + 1 \in Nat /\ i + 1 > 1 /\ (i + 1) - 1 = i
      BY <1>2, <1>3, <3>1
    <3>3. p[i + 1] = Quote => i + 1 = Len(p)
      <4>1. ASSUME p[i + 1] = Quote, i + 1 # Len(p) PROVE FALSE
        <5>1. i + 1 \in 2 .. Len(p) - 1 /\ i < Len(p)
          BY <1>2, <1>3, <3>2, <4>1
        <5>2. p[(i + 1) - 1] = Backslash
          BY <1>5, <4>1, <5>1
        <5>3. ReadNext = p[i + 1]
          BY <1>3, <5>1
        <5> QED
          BY <1>3, <1>10, <3>2, <4>1, <5>2, <5>3
      <4> QED
        BY <4>1
    <3>4. AtPart(parts, at, m, i + 1)'
      <4>1. json' = at[m - 1] + ((i + 1) - 1)
        BY <1>2, <1>4, <2>1
      <4> QED
        BY <1>3, <3>2, <4>1 DEF AtPart, p
    <3>5. WroteInto(text', into', left[m - 1], p, (i + 1) - 1)
      BY <2>2, <3>2
    <3>6. InString(parts, at, left)'
      BY <1>2, <3>2, <3>3, <3>4, <3>5 DEF InString, p
    <3> QED
      BY <2>1, <2>4, <3>6 DEF PartByPart
  <2> QED
    BY <2>3, <2>4
<1> QED
  BY <1>9, <1>10

\* Any other character is kept.
LEMMA OtherParts ==
  ASSUME MinifyInv, NEW parts, NEW at, NEW left, IsCut(before, parts, at, left),
         PartByPart(parts, at, left), Other
  PROVE  PartByPart(parts, at, left)'
<1>1. /\ inside = "text" /\ Read # NUL /\ Read \notin Space \cup {Slash, Quote}
      /\ Keep /\ inside' = "text" /\ json' = json + 1
  BY DEF Other, Keep
<1>2. PICK n \in 0 .. Len(parts) : json = at[n] /\ WroteInto(text, into, left[n], << >>, 0)
  BY <1>1 DEF PartByPart, BetweenParts
<1>3. AtPart(parts, at, n + 1, 1) /\ n + 1 \in Nat /\ (n + 1) - 1 = n
  BY <1>1, <1>2, NextPart
<1> DEFINE p == parts[n + 1]
<1>4. /\ p \in Piece /\ n + 1 \in 1 .. Len(parts) /\ Len(p) \in Nat /\ Read = p[1]
      /\ left[(n + 1) - 1] \in Seq(Nat)
      /\ 1 = Len(p) => json + 1 = at[n + 1]
  BY <1>1, <1>3, ReadsPart
<1>5. Len(p) = 1
  <2>1. IsOther(p)
    BY <1>1, <1>4, PieceKind
  <2> QED
    BY <2>1 DEF IsOther
<1>6. WroteInto(text', into', left[(n + 1) - 1], p, Len(p))
  <2>1. WroteInto(text, into, left[n], p, 0)
    BY <1>2 DEF WroteInto
  <2>2. Read = p[0 + 1] /\ left[n] \in Seq(Nat)
    BY <1>3, <1>4
  <2>3. WroteInto(text', into', left[n], p, 0 + 1)
    BY <1>1, <2>1, <2>2, KeepWrites
  <2> QED
    BY <1>3, <1>5, <2>3
<1>7. json' = at[n + 1] /\ p[1] \notin Space \cup {Slash}
  BY <1>1, <1>4, <1>5
<1> QED
  BY <1>1, <1>4, <1>6, <1>7, PartKept

\* At the NUL all parts have been handled.
LEMMA TerminateParts ==
  ASSUME MinifyInv, NEW parts, NEW at, NEW left, IsCut(before, parts, at, left),
         PartByPart(parts, at, left), Terminate
  PROVE  PartByPart(parts, at, left)'
<1>1. /\ inside = "text" /\ Read = NUL /\ text' = [text EXCEPT ![into] = NUL]
      /\ inside' = "done" /\ into' = into
  BY DEF Terminate
<1>2. PICK n \in 0 .. Len(parts) : json = at[n] /\ WroteInto(text, into, left[n], << >>, 0)
  BY <1>1 DEF PartByPart, BetweenParts
<1>3. n = Len(parts)
  BY <1>1, <1>2, NextPart
<1>4. into \in 1 .. Len(text) /\ text \in Seq(Nat) /\ NUL \in Nat
  <2>1. /\ 1 <= into /\ into <= json /\ json <= Len(text)
        /\ into \in Nat /\ json \in Nat /\ Len(text) \in Nat
    BY DEF MinifyInv, MinifyTyped, InPlace
  <2>2. text \in Seq(Nat) /\ NUL \in Nat
    BY DEF MinifyInv, MinifyTyped, NUL
  <2> QED
    BY <2>1, <2>2
<1>5. /\ Len(text') = Len(text)
      /\ \A k \in 1 .. Len(text) : text'[k] = IF k = into THEN NUL ELSE text[k]
  BY <1>1, <1>4, OneWritten
<1>6. WroteInto(text', into', left[n], << >>, 0)
  <2>1. into = Len(left[n]) + 1 /\ Len(left[n]) \in Nat
    <3>1. left[n] \in Seq(Char)
      BY DEF IsCut
    <3>2. into = Len(left[n]) + 0 + 1
      BY <1>2 DEF WroteInto
    <3> QED
      BY <3>1, <3>2, CharSeq
  <2>2. ASSUME NEW k \in 1 .. Len(left[n]) PROVE text'[k] = left[n][k]
    <3>1. k \in 1 .. Len(text) /\ k # into
      BY <1>4, <2>1
    <3> QED
      BY <1>2, <1>5, <3>1 DEF WroteInto
  <2> QED
    BY <1>1, <1>2, <2>2 DEF WroteInto
<1>7. into' <= Len(text') /\ text'[into'] = NUL
  BY <1>1, <1>4, <1>5
<1> QED
  BY <1>1, <1>3, <1>6, <1>7 DEF PartByPart, AllHandled

-----------------------------------------------------------------------------
(* Texts that can be cut                                                   *)

\* f[n] is the first n parts put together.
JoinsTo(f, parts) ==
  /\ f[0] = << >> /\ Joined(parts) = f[Len(parts)]
  /\ \A n \in 1 .. Len(parts) : f[n] = f[n - 1] \o parts[n]
  /\ \A n \in 0 .. Len(parts) : f[n] \in Seq(Char)

\* Putting parts together goes from one part to the next.
LEMMA JoinedUpto ==
  ASSUME NEW parts \in Seq(Seq(Char))
  PROVE  \E f : JoinsTo(f, parts)
<1> DEFINE N == Len(parts)
           V == Seq(Char)
           S(n, f) == IF n = 0 THEN << >> ELSE f[n - 1] \o parts[n]
           Solution(f) == f = [n \in 0 .. N |-> S(n, f)]
           upto == CHOOSE f : Solution(f)
           Step == [x \in (1 .. N) \X V |-> x[2] \o parts[x[1]]]
<1>1. N \in Nat /\ << >> \in V /\ \A n \in 1 .. N : parts[n] \in V
  BY EmptySeq, ElementOfSeq
<1> HIDE DEF V
<1>2. Step \in [(1 .. N) \X V -> V]
  <2>1. ASSUME NEW x \in (1 .. N) \X V PROVE x[2] \o parts[x[1]] \in V
    <3>1. x[2] \in V /\ parts[x[1]] \in V
      BY <1>1
    <3> QED
      BY <3>1, ConcatProperties DEF V
  <2> QED
    BY <2>1
<1>3. PICK f \in [0 .. N -> V] : Iterates(f, N, << >>, Step)
  <2> HIDE DEF Step, N
  <2> QED
    BY <1>1, <1>2, RecursionUpTo
<1>4. ASSUME NEW n \in 0 .. N PROVE f[n] = S(n, f)
  <2>1. CASE n = 0
    BY <1>3, <2>1 DEF Iterates
  <2>2. CASE n # 0
    <3>1. n \in 1 .. N /\ n - 1 \in 0 .. N
      BY <2>2
    <3>2. f[n - 1] \in V
      BY <3>1
    <3> HIDE DEF N
    <3>3. f[n] = f[n - 1] \o parts[n]
      BY <1>3, <3>1, <3>2 DEF Iterates
    <3> QED
      BY <2>2, <3>3
  <2> QED
    BY <2>1, <2>2
<1>5. Solution(f)
  <2> HIDE DEF N, S
  <2> QED
    BY <1>4
<1>6. upto = [n \in 0 .. N |-> S(n, upto)]
  <2> HIDE DEF N, S
  <2> QED
    BY <1>5
<1>7. upto[N] = Joined(parts)
  BY Zenon DEF Joined
<1> HIDE DEF upto
<1>8. upto[0] = << >>
  BY <1>1, <1>6
<1>9. ASSUME NEW n \in 1 .. N PROVE upto[n] = upto[n - 1] \o parts[n]
  <2>1. n \in 0 .. N /\ n # 0
    OBVIOUS
  <2> HIDE DEF N
  <2> QED
    BY <1>6, <2>1
<1>10. \A n \in 0 .. N : upto[n] \in V
  <2> DEFINE T == {n \in 0 .. N : upto[n] \in V}
  <2>1. 0 \in T
    BY <1>1, <1>8
  <2>2. ASSUME NEW n \in 1 .. N, n - 1 \in T PROVE n \in T
    <3>1. parts[n] \in V /\ n \in 0 .. N /\ upto[n - 1] \in V
      BY <1>1, <2>2
    <3>2. upto[n - 1] \o parts[n] \in V
      BY <3>1, ConcatProperties DEF V
    <3>3. upto[n] = upto[n - 1] \o parts[n]
      BY <1>9
    <3> QED
      BY <3>1, <3>2, <3>3
  <2>3. 0 .. N \subseteq T
    <3> HIDE DEF T, N
    <3> QED
      BY <1>1, <2>1, <2>2, UpTo
  <2> QED
    BY <2>3
<1> QED
  BY <1>7, <1>8, <1>9, <1>10 DEF JoinsTo, V

\* What is put together begins with what was put together first.
LEMMA JoinedPrefix ==
  ASSUME NEW parts \in Seq(Seq(Char)), NEW f, JoinsTo(f, parts),
         NEW n \in 0 .. Len(parts)
  PROVE  LET all == f[Len(parts)]
         IN  Len(f[n]) <= Len(all) /\ \A k \in 1 .. Len(f[n]) : all[k] = f[n][k]
<1> DEFINE N == Len(parts)
           all == f[N]
           Begins(j) == Len(f[j]) <= Len(all) /\ \A k \in 1 .. Len(f[j]) : all[k] = f[j][k]
           T == {d \in 0 .. N : Begins(N - d)}
<1>1. N \in Nat /\ \A j \in 0 .. N : f[j] \in Seq(Nat) /\ Len(f[j]) \in Nat
  <2>1. N \in Nat
    OBVIOUS
  <2>2. \A j \in 0 .. N : f[j] \in Seq(Char)
    BY DEF JoinsTo
  <2> HIDE DEF N
  <2> QED
    BY <2>1, <2>2, CharSeq
<1>2. \A j \in 1 .. N : f[j] = f[j - 1] \o parts[j] /\ parts[j] \in Seq(Nat)
  <2>1. \A j \in 1 .. N : parts[j] \in Seq(Char)
    BY ElementOfSeq
  <2>2. \A j \in 1 .. N : f[j] = f[j - 1] \o parts[j]
    BY DEF JoinsTo
  <2> HIDE DEF N
  <2> QED
    BY <2>1, <2>2, CharSeq
<1> HIDE DEF N
<1>3. 0 \in T
  BY <1>1
<1>4. ASSUME NEW d \in 1 .. N, d - 1 \in T PROVE d \in T
  <2> DEFINE j == N - d
  <2>1. /\ j \in 0 .. N /\ j + 1 \in 1 .. N /\ j + 1 \in 0 .. N
        /\ (j + 1) - 1 = j /\ N - (d - 1) = j + 1
    BY <1>1
  <2> HIDE DEF j, Begins
  <2>2. Begins(j + 1)
    BY <1>4, <2>1
  <2>3. f[j + 1] = f[j] \o parts[j + 1] /\ f[j] \in Seq(Nat) /\ parts[j + 1] \in Seq(Nat)
    BY <1>1, <1>2, <2>1
  <2>4. /\ Len(f[j + 1]) = Len(f[j]) + Len(parts[j + 1])
        /\ \A k \in 1 .. Len(f[j]) : f[j + 1][k] = f[j][k]
    <3> DEFINE q == parts[j + 1]
               g == f[j]
    <3>1. /\ Len(g \o q) = Len(g) + Len(q)
          /\ \A k \in 1 .. Len(g) : (g \o q)[k] = g[k]
      <4>1. g \in Seq(Nat) /\ q \in Seq(Nat)
        BY <2>3
      <4> HIDE DEF g, q
      <4> QED
        BY <4>1, Behind
    <3> QED
      BY <2>3, <3>1
  <2>5. Len(f[j]) \in Nat /\ Len(parts[j + 1]) \in Nat /\ Len(f[N]) \in Nat
    <3>1. N \in 0 .. N
      BY <1>1
    <3> QED
      BY <1>1, <2>1, <2>3, <3>1
  <2>6. Begins(j)
    <3>1. Len(f[j + 1]) <= Len(f[N]) /\ \A k \in 1 .. Len(f[j + 1]) : f[N][k] = f[j + 1][k]
      BY <2>2 DEF Begins
    <3>2. Len(f[j]) <= Len(f[j + 1]) /\ Len(f[j + 1]) \in Nat
      <4> DEFINE a == Len(f[j])
                 b == Len(parts[j + 1])
                 c == Len(f[j + 1])
      <4>1. a \in Nat /\ b \in Nat
        BY <2>5
      <4>2. c = a + b
        BY <2>4
      <4> HIDE DEF a, b, c
      <4>3. a <= c /\ c \in Nat
        BY <4>1, <4>2
      <4> QED
        BY <4>3 DEF a, c
    <3>3. ASSUME NEW k \in 1 .. Len(f[j]) PROVE f[N][k] = f[j][k]
      <4>1. k \in 1 .. Len(f[j + 1])
        BY <2>5, <3>2
      <4> QED
        BY <2>4, <3>1, <4>1
    <3>4. Len(f[j]) <= Len(f[N])
      BY <2>5, <3>1, <3>2
    <3> QED
      BY <3>3, <3>4 DEF Begins
  <2>7. d \in 0 .. N
    OBVIOUS
  <2> QED
    BY <2>6, <2>7 DEF j
<1>5. 0 .. N \subseteq T
  <2> HIDE DEF T
  <2> QED
    BY <1>1, <1>3, <1>4, UpTo
<1>6. N - n \in 0 .. N /\ N - (N - n) = n
  BY <1>1 DEF N
<1> HIDE DEF Begins
<1>7. Begins(n)
  BY <1>5, <1>6
<1> QED
  BY <1>7 DEF Begins, N

\* The first NUL ends what a program sees of a block.
LEMMA CStringUpTo ==
  ASSUME NEW block \in Seq(Nat), NEW m \in 1 .. Len(block), block[m] = NUL,
         \A k \in 1 .. m - 1 : block[k] # NUL
  PROVE  /\ CString(block) \in Seq(Nat) /\ Len(CString(block)) = m - 1
         /\ \A k \in 1 .. m - 1 : CString(block)[k] = block[k]
<1> DEFINE I == {i \in 1 .. Len(block) : block[i] = NUL}
           n == SelectInSeq(block, LAMBDA c : c = NUL)
<1>1. n = IF I # {} THEN Min(I) ELSE 0
  BY Zenon DEF SelectInSeq
<1>2. CString(block) = SubSeq(block, 1, n - 1)
  BY DEF CString
<1> HIDE DEF n
<1>3. Len(block) \in Nat
  OBVIOUS
<1>4. m \in I /\ \A i \in I : m <= i
  <2>1. ASSUME NEW i \in I PROVE m <= i
    <3>1. i \in 1 .. Len(block) /\ block[i] = NUL
      OBVIOUS
    <3>2. i \notin 1 .. m - 1
      BY <3>1
    <3> QED
      BY <1>3, <3>1, <3>2
  <2> QED
    BY <2>1
<1>5. I \subseteq Nat
  BY <1>3
<1> HIDE DEF I
<1>6. n = m
  <2>1. Min(I) \in I /\ \A i \in I : Min(I) <= i
    BY <1>4 DEF Min
  <2>2. Min(I) <= m /\ m <= Min(I)
    BY <1>4, <2>1
  <2>3. Min(I) \in Nat /\ m \in Nat
    <3>1. Min(I) \in I
      BY <2>1
    <3>2. Min(I) \in Nat
      BY <1>5, <3>1, Zenon
    <3>3. m \in Nat
      BY <1>4, <1>5, Zenon
    <3> QED
      BY <3>2, <3>3
  <2>4. Min(I) = m
    BY <2>2, <2>3
  <2> QED
    BY <1>1, <1>4, <2>4
<1>7. CString(block) = SubSeq(block, 1, m - 1)
  BY <1>2, <1>6
<1>8. /\ SubSeq(block, 1, m - 1) \in Seq(Nat) /\ Len(SubSeq(block, 1, m - 1)) = m - 1
      /\ \A k \in 1 .. m - 1 : SubSeq(block, 1, m - 1)[k] = block[k]
  BY <1>3
<1> QED
  BY <1>7, <1>8

\* A block that ends with a NUL has a first one.
LEMMA FirstNul ==
  ASSUME NEW block \in Seq(Nat), block # << >>, block[Len(block)] = NUL
  PROVE  \E m \in 1 .. Len(block) : block[m] = NUL /\ \A k \in 1 .. m - 1 : block[k] # NUL
<1> DEFINE I == {i \in 1 .. Len(block) : block[i] = NUL}
<1>1. Len(block) \in Nat \ {0}
  BY EmptySeq
<1>2. I # {} /\ I \in SUBSET Nat
  BY <1>1
<1>3. PICK m \in I : \A i \in I : m <= i
  <2> HIDE DEF I
  <2> QED
    BY <1>2, LeastNat
<1>4. ASSUME NEW k \in 1 .. m - 1 PROVE block[k] # NUL
  <2>1. k \in 1 .. Len(block) /\ ~(m <= k)
    BY <1>1
  <2>2. k \notin I
    <3> HIDE DEF I
    <3> QED
      BY <1>3, <2>1
  <2> QED
    BY <2>1, <2>2
<1> QED
  BY <1>4

\* A text that has been put together is cut where its parts have been joined.
LEMMA CutOfJoined ==
  ASSUME NEW block \in Seq(Nat), block # << >>, block[Len(block)] = NUL,
         NEW parts \in Seq(Piece), CString(block) = Joined(parts)
  PROVE  \E at, left :
           /\ IsCut(block, parts, at, left)
           /\ left[Len(parts)] = Joined([n \in DOMAIN parts |-> Left(parts[n])])
<1> DEFINE N == Len(parts)
           kept == [n \in DOMAIN parts |-> Left(parts[n])]
<1>1. N \in Nat /\ DOMAIN parts = 1 .. N
  OBVIOUS
<1>2. parts \in Seq(Seq(Char))
  <2>1. Piece \subseteq Seq(Char)
    BY DEF Piece
  <2> HIDE DEF N
  <2> QED
    BY <2>1, SeqMonotonic
<1>3. /\ kept \in Seq(Seq(Char)) /\ Len(kept) = N
      /\ \A n \in 1 .. N : kept[n] = Left(parts[n])
  <2>1. ASSUME NEW n \in 1 .. N PROVE Left(parts[n]) \in Seq(Char)
    <3>1. parts[n] \in Seq(Char) /\ << >> \in Seq(Char)
      BY <1>2, EmptySeq, ElementOfSeq
    <3> QED
      BY <3>1 DEF Left
  <2>2. kept = [n \in 1 .. N |-> Left(parts[n])]
    BY <1>1
  <2> DEFINE V == Seq(Char)
             e(n) == Left(parts[n])
  <2>3. \A n \in 1 .. N : e(n) \in V
    BY <2>1
  <2> HIDE DEF V, N, e
  <2>4. [n \in 1 .. N |-> e(n)] \in Seq(V) /\ Len([n \in 1 .. N |-> e(n)]) = N
    BY <1>1, <2>3
  <2> QED
    BY <2>2, <2>4 DEF V, e
<1>4. PICK f : JoinsTo(f, parts)
  BY <1>2, JoinedUpto
<1>5. PICK left : JoinsTo(left, kept)
  <2> HIDE DEF kept
  <2> QED
    BY <1>3, JoinedUpto
<1> HIDE DEF kept
<1> DEFINE at == [n \in 0 .. N |-> Len(f[n]) + 1]
           all == f[N]
<1>6. /\ \A n \in 0 .. N : f[n] \in Seq(Char)
      /\ f[0] = << >> /\ Joined(parts) = f[N]
      /\ \A n \in 1 .. N : f[n] = f[n - 1] \o parts[n]
  BY <1>4 DEF JoinsTo
<1>7. \A n \in 0 .. N : f[n] \in Seq(Nat) /\ Len(f[n]) \in Nat
  <2> HIDE DEF N
  <2> QED
    BY <1>6, CharSeq
<1>8. /\ \A n \in 0 .. N : left[n] \in Seq(Char)
      /\ left[0] = << >> /\ Joined(kept) = left[N]
      /\ \A n \in 1 .. N : left[n] = left[n - 1] \o Left(parts[n])
  BY <1>3, <1>5 DEF JoinsTo
<1>9. \A n \in 1 .. N : parts[n] \in Seq(Nat) /\ Len(parts[n]) \in Nat
  <2>1. \A n \in 1 .. N : parts[n] \in Piece
    BY ElementOfSeq
  <2> HIDE DEF N
  <2> QED
    BY <2>1, PieceKind
<1>10. PICK m \in 1 .. Len(block) : block[m] = NUL /\ \A k \in 1 .. m - 1 : block[k] # NUL
  BY FirstNul
<1>11. /\ CString(block) \in Seq(Nat) /\ Len(CString(block)) = m - 1
       /\ \A k \in 1 .. m - 1 : CString(block)[k] = block[k]
  BY <1>10, CStringUpTo
<1>12. Len(all) = m - 1 /\ \A k \in 1 .. m - 1 : block[k] = all[k]
  BY <1>6, <1>11
<1>13. \A n \in 0 .. N : Len(f[n]) <= Len(all) /\ \A k \in 1 .. Len(f[n]) : all[k] = f[n][k]
  BY <1>2, <1>4, JoinedPrefix
<1> HIDE DEF N, all
<1>14. at[0] = 1 /\ at[N] = m
  <2>1. Len(f[0]) = 0
    BY <1>6, EmptySeq
  <2>2. at[0] = Len(f[0]) + 1 /\ at[N] = Len(f[N]) + 1
    BY <1>1
  <2>3. at[0] = 1
    BY <2>1, <2>2
  <2>4. at[N] = m
    BY <1>12, <2>2 DEF all
  <2> QED
    BY <2>3, <2>4
<1>15. ASSUME NEW n \in 0 .. N PROVE at[n] \in Nat /\ at[n] <= Len(block) /\ at[n] = Len(f[n]) + 1
  <2>1. at[n] = Len(f[n]) + 1 /\ Len(f[n]) \in Nat /\ Len(f[n]) <= Len(all)
    BY <1>7, <1>13
  <2>2. Len(block) \in Nat /\ m <= Len(block) /\ m \in Nat
    BY <1>10
  <2> QED
    BY <1>12, <2>1, <2>2
<1>16. ASSUME NEW n \in 1 .. N
       PROVE  /\ at[n] = at[n - 1] + Len(parts[n])
              /\ \A i \in 1 .. Len(parts[n]) : block[at[n - 1] + (i - 1)] = parts[n][i]
  <2> DEFINE g == f[n - 1]
             q == parts[n]
             h == f[n]
  <2>1. n - 1 \in 0 .. N /\ n \in 0 .. N
    BY <1>1
  <2>2. g \in Seq(Nat) /\ q \in Seq(Nat) /\ h = g \o q /\ h \in Seq(Nat)
    BY <1>6, <1>7, <1>9, <2>1
  <2>3. at[n - 1] = Len(g) + 1 /\ at[n] = Len(h) + 1
    BY <1>15, <2>1
  <2>4. Len(h) <= Len(all) /\ \A k \in 1 .. Len(h) : all[k] = h[k]
    BY <1>13, <2>1
  <2> HIDE DEF g, q, h, at
  <2>5. /\ Len(h) = Len(g) + Len(q) /\ Len(g) \in Nat /\ Len(q) \in Nat
        /\ \A k \in 1 .. Len(q) : h[Len(g) + k] = q[k]
    BY <2>2, Behind
  <2>6. at[n] = at[n - 1] + Len(q)
    BY <2>3, <2>5
  <2>7. ASSUME NEW i \in 1 .. Len(q) PROVE block[at[n - 1] + (i - 1)] = q[i]
    <3> DEFINE a == at[n - 1]
               b == Len(g)
               c == Len(q)
               d == Len(h)
    <3>1. /\ a = b + 1 /\ d = b + c /\ b \in Nat /\ c \in Nat /\ i \in 1 .. c
          /\ d <= m - 1 /\ m \in Nat
      BY <1>10, <1>12, <2>3, <2>4, <2>5
    <3>2. /\ \A k \in 1 .. d : all[k] = h[k]
          /\ \A k \in 1 .. c : h[b + k] = q[k]
      BY <2>4, <2>5
    <3> HIDE DEF a, b, c, d
    <3>3. a + (i - 1) = b + i /\ b + i \in 1 .. d /\ b + i \in 1 .. m - 1
      BY <3>1
    <3>4. block[b + i] = all[b + i]
      BY <1>12, <3>3
    <3>5. block[a + (i - 1)] = q[i]
      BY <3>1, <3>2, <3>3, <3>4
    <3> QED
      BY <3>5 DEF a
  <2> QED
    BY <2>6, <2>7 DEF q
<1> HIDE DEF at
<1>17. parts \in Seq(Piece) /\ Len(parts) \in Nat
  BY <1>1 DEF N
<1>18. IsCut(block, parts, at, left)
  BY <1>8, <1>10, <1>14, <1>15, <1>16, <1>17 DEF IsCut, N
<1>19. left[Len(parts)] = Joined([n \in DOMAIN parts |-> Left(parts[n])])
  BY <1>8, Zenon DEF N, kept
<1> QED
  BY <1>18, <1>19

\* However a block can be cut, the minifier goes through it part by part.
CutsHandled ==
  \A parts, at, left : IsCut(before, parts, at, left) => PartByPart(parts, at, left)

\* Before the first part nothing has been read or written.
LEMMA AtFirstPart ==
  ASSUME NEW block, NEW t, NEW parts, NEW at, NEW left, IsCut(block, parts, at, left)
  PROVE  0 \in 0 .. Len(parts) /\ at[0] = 1 /\ WroteInto(t, 1, left[0], << >>, 0)
<1>1. Len(parts) \in Nat /\ at[0] = 1 /\ left[0] = << >>
  BY DEF IsCut
<1>2. WroteInto(t, 1, << >>, << >>, 0)
  BY DEF WroteInto
<1> QED
  BY <1>1, <1>2

\* A block that the client gives has not been gone through.
LEMMA CutsInit == TextsInit => CutsHandled
<1> SUFFICES ASSUME TextsInit, NEW parts, NEW at, NEW left, IsCut(before, parts, at, left)
             PROVE  PartByPart(parts, at, left)
  BY DEF CutsHandled
<1>1. inside = "text" /\ json = 1 /\ into = 1
  BY DEF TextsInit, Init
<1>2. 0 \in 0 .. Len(parts) /\ at[0] = 1 /\ WroteInto(text, 1, left[0], << >>, 0)
  BY AtFirstPart
<1>3. BetweenParts(parts, at, left)
  BY <1>1, <1>2 DEF BetweenParts
<1> QED
  BY <1>1, <1>3 DEF PartByPart

\* Nor has one that a string has been printed to.
LEMMA CutsPrint ==
  ASSUME MinifyInv, NEW string, PrintText(string)
  PROVE  CutsHandled'
<1> SUFFICES ASSUME NEW parts, NEW at, NEW left, IsCut(before', parts, at, left)
             PROVE  PartByPart(parts, at, left)'
  BY DEF CutsHandled
<1>1. inside' = "text" /\ json' = 1 /\ into' = 1
  BY DEF PrintText, Fresh, MinifyInv, MinifyTyped, InPlace
<1>2. 0 \in 0 .. Len(parts) /\ at[0] = 1 /\ WroteInto(text', 1, left[0], << >>, 0)
  BY AtFirstPart
<1>3. BetweenParts(parts, at, left)'
  BY <1>1, <1>2 DEF BetweenParts
<1> QED
  BY <1>1, <1>3 DEF PartByPart

\* Every step of cJSON_Minify goes on from part to part.
LEMMA CutsMinify ==
  ASSUME MinifyInv, CutsHandled, cJSON_Minify
  PROVE  CutsHandled'
<1>1. before' = before
  BY DEF cJSON_Minify, SkipSpace, SkipSlash, EnterComment, skip_oneline_comment,
         skip_multiline_comment, EnterString, minify_string, Other, Terminate,
         Drop, Keep, KeepBoth
<1> SUFFICES ASSUME NEW parts, NEW at, NEW left, IsCut(before, parts, at, left)
             PROVE  PartByPart(parts, at, left)'
  BY <1>1 DEF CutsHandled
<1>2. PartByPart(parts, at, left)
  BY DEF CutsHandled
<1>3. CASE SkipSpace
  BY <1>2, <1>3, SpaceParts
<1>4. CASE SkipSlash
  BY <1>2, <1>4, NoSlashAlone
<1>5. CASE EnterComment
  BY <1>2, <1>5, EnterParts
<1>6. CASE skip_oneline_comment
  BY <1>2, <1>6, OnelineParts
<1>7. CASE skip_multiline_comment
  BY <1>2, <1>7, MultilineParts
<1>8. CASE EnterString
  BY <1>2, <1>8, EnterStringParts
<1>9. CASE minify_string
  BY <1>2, <1>9, StringParts
<1>10. CASE Other
  BY <1>2, <1>10, OtherParts
<1>11. CASE Terminate
  BY <1>2, <1>11, TerminateParts
<1> QED
  BY <1>3, <1>4, <1>5, <1>6, <1>7, <1>8, <1>9, <1>10, <1>11 DEF cJSON_Minify

\* What does not touch the block changes nothing of it.
LEMMA CutsUnchanged ==
  ASSUME CutsHandled, UNCHANGED minifyVars
  PROVE  CutsHandled'
<1> SUFFICES ASSUME NEW parts, NEW at, NEW left, IsCut(before, parts, at, left)
             PROVE  PartByPart(parts, at, left)'
  BY DEF CutsHandled, minifyVars
<1>1. PartByPart(parts, at, left)
  BY DEF CutsHandled
<1> QED
  BY <1>1 DEF PartByPart, BetweenParts, InOneline, InMultiline, InString, AllHandled,
              AtPart, minifyVars

\* Every step of a text keeps it.
LEMMA CutsNext == TextsInv /\ CutsHandled /\ [TextsNext]_textsVars => CutsHandled'
<1> SUFFICES ASSUME TextsInv, CutsHandled, [TextsNext]_textsVars PROVE CutsHandled'
  OBVIOUS
<1>1. MinifyInv
  BY DEF TextsInv
<1>2. ASSUME NEW string \in Values, PrintText(string) PROVE CutsHandled'
  BY <1>1, <1>2, CutsPrint
<1>3. CASE MinifyText
  BY <1>1, <1>3, CutsMinify DEF MinifyText
<1>4. CASE ParseText
  BY <1>4, CutsUnchanged DEF ParseText
<1>5. CASE ReadText
  BY <1>5, CutsUnchanged DEF ReadText
<1>6. CASE UNCHANGED textsVars
  BY <1>6, CutsUnchanged DEF textsVars
<1> QED
  BY <1>2, <1>3, <1>4, <1>5, <1>6 DEF TextsNext

\* What has been written when all parts have been handled.
LEMMA CutsKept == MinifyInv /\ CutsHandled => MinifyKeeps
<1> SUFFICES ASSUME MinifyInv, CutsHandled, inside = "done", CString(before) \in CutTexts
             PROVE  <<CString(before), CString(text)>> \in Minified
  BY DEF MinifyKeeps
<1>1. PICK parts \in Cuts : CString(before) = Joined(parts)
  BY DEF CutTexts
<1> DEFINE kept == Joined([n \in DOMAIN parts |-> Left(parts[n])])
<1>2. parts \in Seq(Piece)
  BY CutsAssumption
<1>3. before \in Seq(Nat) /\ before # << >> /\ before[Len(before)] = NUL /\ text \in Seq(Nat)
  BY DEF MinifyInv, MinifyTyped, Ends
<1>4. PICK at, left : IsCut(before, parts, at, left) /\ left[Len(parts)] = kept
  BY <1>1, <1>2, <1>3, CutOfJoined
<1> HIDE DEF kept
<1>5. AllHandled(parts, left)
  BY <1>4 DEF CutsHandled, PartByPart
<1>6. kept \in Seq(Char)
  <2>1. Len(parts) \in 0 .. Len(parts)
    BY <1>4 DEF IsCut
  <2> QED
    BY <1>4, <2>1 DEF IsCut
<1>7. kept \in Seq(Nat) /\ Len(kept) \in Nat /\ \A k \in 1 .. Len(kept) : kept[k] # NUL
  BY <1>6, CharSeq
<1>8. /\ into = Len(kept) + 1 /\ into <= Len(text) /\ text[into] = NUL
      /\ \A k \in 1 .. Len(kept) : text[k] = kept[k]
  BY <1>4, <1>5, <1>7 DEF AllHandled, WroteInto
<1>9. into \in 1 .. Len(text) /\ into - 1 = Len(kept)
  BY <1>3, <1>7, <1>8
<1>10. \A k \in 1 .. into - 1 : text[k] # NUL
  BY <1>7, <1>8, <1>9
<1>11. /\ CString(text) \in Seq(Nat) /\ Len(CString(text)) = into - 1
       /\ \A k \in 1 .. into - 1 : CString(text)[k] = text[k]
  BY <1>3, <1>8, <1>9, <1>10, CStringUpTo
<1>12. CString(text) = kept
  BY <1>7, <1>8, <1>9, <1>11, SeqEqual
<1> QED
  BY <1>1, <1>12 DEF Minified, kept

\* For all texts that are put together from white space, comments, strings and
\* other characters, of every number and length: cJSON_Minify leaves all of the
\* text but its white space and its comments.
THEOREM KeepsTheRest == TextsSpec => []MinifyKeeps
<1>1. TextsInv /\ CutsHandled => MinifyKeeps
  BY CutsKept DEF TextsInv
<1> QED
  BY <1>1, TextsInvInit, TextsInvNext, CutsInit, CutsNext, PTL DEF TextsSpec
=============================================================================
