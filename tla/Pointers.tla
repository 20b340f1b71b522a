------------------------------ MODULE Pointers ------------------------------
(***************************************************************************)
(* The texts of JSON pointers in cJSON_Utils.c: escaping, unescaping,      *)
(* comparing a token with a name, reading an array index.  A C string is a *)
(* sequence of character codes without its NUL.                            *)
(***************************************************************************)
EXTENDS Integers, SequencesExt

CONSTANTS
  SizeCount     \* how many values a size_t has, 2^64 where cJSON mostly runs

ASSUME SizeAssumption == SizeCount \in Nat \ {0}

Dash  == 45
Slash == 47
Zero  == 48
One   == 49
Nine  == 57
Tilde == 126

\* The character at an offset from 1, the terminating NUL behind the last.
CharAt(s, n) == IF n <= Len(s) THEN s[n] ELSE 0

tolower(c) == IF c \in 65 .. 90 THEN c + 32 ELSE c

CaseFold(s, case_sensitive) ==
  IF case_sensitive THEN s ELSE [n \in DOMAIN s |-> tolower(s[n])]

\* The sign of strcmp(), or of the loop that folds case.
RECURSIVE StringOrder(_, _)
StringOrder(s, t) ==
  IF s = << >> \/ t = << >> THEN Len(s) - Len(t)
  ELSE IF s[1] = t[1] THEN StringOrder(Tail(s), Tail(t)) ELSE s[1] - t[1]

compare_strings(s, t, case_sensitive) ==
  StringOrder(CaseFold(s, case_sensitive), CaseFold(t, case_sensitive))

\* Mutant: a tilde is copied as it is.
EncodeSlashOnly(s) ==
  FlattenSeq([n \in DOMAIN s |-> IF s[n] = Slash THEN <<Tilde, One>> ELSE <<s[n]>>])

encode_string_as_pointer(s) ==
  FlattenSeq([n \in DOMAIN s |-> IF s[n] = Slash THEN <<Tilde, One>>
                                 ELSE IF s[n] = Tilde THEN <<Tilde, Zero>>
                                 ELSE <<s[n]>>])

\* The room that is asked for in front of the encoder: one for each character
\* and one more for each that is escaped.
pointer_encoded_length(s) ==
  Len(s) + Len(SelectSeq(s, LAMBDA c : c \in {Slash, Tilde}))

TokenEnds(pointer) == pointer = << >> \/ pointer[1] = Slash

\* Whether the next token of a pointer is the given name.
RECURSIVE compare_pointers(_, _, _)
compare_pointers(name, pointer, case_sensitive) ==
  IF name = << >> \/ TokenEnds(pointer) THEN name = << >> /\ TokenEnds(pointer)
  ELSE IF pointer[1] = Tilde
  THEN /\ <<CharAt(pointer, 2), name[1]>> \in {<<Zero, Tilde>>, <<One, Slash>>}
       /\ compare_pointers(Tail(name), SubSeq(pointer, 3, Len(pointer)), case_sensitive)
  ELSE /\ CaseFold(<<name[1]>>, case_sensitive) = CaseFold(<<pointer[1]>>, case_sensitive)
       /\ compare_pointers(Tail(name), Tail(pointer), case_sensitive)

\* decode_pointer_inplace() from offset read on, with what is decoded going to
\* offset write: only escaped characters are ever written, an escaped slash
\* one place too far, so what follows an escape is not moved up.
RECURSIVE DecodedFrom(_, _, _)
DecodedFrom(string, read, write) ==
  IF read > Len(string) THEN SubSeq(string, 1, write - 1)
  ELSE IF string[read] # Tilde THEN DecodedFrom(string, read + 1, write + 1)
  ELSE IF CharAt(string, read + 1) = Zero
  THEN DecodedFrom([string EXCEPT ![write] = Tilde], read + 2, write + 1)
  ELSE IF CharAt(string, read + 1) = One
  THEN DecodedFrom([string EXCEPT ![write + 1] = Slash], read + 2, write + 1)
  ELSE string

decode_pointer_inplace(string) == DecodedFrom(string, 1, 1)

\* Where the digits of an index end: the loop looks for a character below '0'
\* and only the first one must not be above '9'.
DigitsEnd(pointer) ==
  IF CharAt(pointer, 1) > Nine THEN 1
  ELSE CHOOSE n \in 1 .. Len(pointer) + 1 :
         /\ CharAt(pointer, n) < Zero
         /\ \A k \in 1 .. n - 1 : CharAt(pointer, k) >= Zero

\* Mutant: an index may begin with a zero.
IndexWithZeroes(pointer) ==
  LET end == DigitsEnd(pointer)
  IN  [ok |-> CharAt(pointer, end) \in {0, Slash},
       index |-> FoldLeft(LAMBDA sum, c : (10 * sum + (c - Zero)) % SizeCount, 0,
                          SubSeq(pointer, 1, end - 1))]

\* The index at the beginning of pointer, up to its end or the next slash.
decode_array_index_from_pointer(pointer) ==
  LET end == DigitsEnd(pointer)
  IN  [ok |-> /\ ~(CharAt(pointer, 1) = Zero /\ CharAt(pointer, 2) \notin {0, Slash})
              /\ CharAt(pointer, end) \in {0, Slash},
       index |-> FoldLeft(LAMBDA sum, c : (10 * sum + (c - Zero)) % SizeCount, 0,
                          SubSeq(pointer, 1, end - 1))]

\* sprintf("%lu").
RECURSIVE Decimal(_)
Decimal(n) == IF n < 10 THEN <<Zero + n>> ELSE Decimal(n \div 10) \o <<Zero + (n % 10)>>

\* The offset of the last slash, as strrchr() finds it, or 0.
LastSlash(pointer) == SelectLastInSeq(pointer, LAMBDA c : c = Slash)

\* A path split at its last slash: the pointer to the parent, the last token.
ParentPointer(path) == SubSeq(path, 1, LastSlash(path) - 1)
ChildToken(path) == SubSeq(path, LastSlash(path) + 1, Len(path))
=============================================================================
