------------------------------ MODULE Strings -------------------------------
(***************************************************************************)
(* Strings in JSON text: parse_string of cJSON.c as a machine that first    *)
(* looks for the end of a string and asks for room, then decodes it, and    *)
(* print_string_ptr, its counterpart.  Characters are bytes, a position     *)
(* counts from 1, and every write is one byte of output.                    *)
(***************************************************************************)
EXTENDS Integers, FiniteSets, SequencesExt, Chars

VARIABLES
  input,          \* the bytes from the opening quote to the end of the buffer
  input_pointer,  \* where the decoder reads
  input_end,      \* where the scan is, later the closing quote
  skipped,        \* the backslashes the scan has met, counted by skipped_bytes
  room,           \* the bytes allocated, 0 before
  output,         \* what is written to them
  stage,          \* "idle", "scan", "decode", "done", "failed"
  starved         \* the allocation was refused

stringVars ==
  <<input, input_pointer, input_end, skipped, room, output, stage, starved>>

StringInit ==
  /\ input = << >> /\ input_pointer = 0 /\ input_end = 0 /\ skipped = {}
  /\ room = 0 /\ output = << >> /\ stage = "idle" /\ starved = FALSE

-----------------------------------------------------------------------------
(* UTF-16 *)

HexDigit(c) ==
  CASE c \in 48 .. 57  -> c - 48
    [] c \in 65 .. 70  -> c - 65 + 10
    [] c \in 97 .. 102 -> c - 97 + 10
    [] OTHER -> -1

\* The number of four digits, from shifting by four bits at a time.
Nibbles(a, b, c, d) == 16 * (16 * (16 * a + b) + c) + d

\* It is 0 if one of the digits is none.
parse_hex4(digits) ==
  IF \E k \in 1 .. 4 : HexDigit(digits[k]) < 0 THEN 0
  ELSE Nibbles(HexDigit(digits[1]), HexDigit(digits[2]),
               HexDigit(digits[3]), HexDigit(digits[4]))

Surrogate(code) == code \in 55296 .. 57343          \* D800 to DFFF
LowSurrogate(code) == code \in 56320 .. 57343       \* DC00 to DFFF

\* The code point of a surrogate pair: ten bits of each half.
PairCode(high, low) == 65536 + 1024 * (high % 1024) + (low % 1024)

\* The bytes of a code point: six bits in each byte behind the first.
Utf8(codepoint) ==
  LET Bits(d) == 128 + ((codepoint \div d) % 64)
  IN  IF codepoint < 128 THEN <<codepoint>>
      ELSE IF codepoint < 2048 THEN <<192 + (codepoint \div 64), Bits(1)>>
      ELSE IF codepoint < 65536 THEN <<224 + (codepoint \div 4096), Bits(64), Bits(1)>>
      ELSE <<240 + (codepoint \div 262144), Bits(4096), Bits(64), Bits(1)>>

\* Mutant: the second half of a pair is not looked at.
utf16_unchecked(text, first, end) ==
  LET Code(p) == parse_hex4(SubSeq(text, p + 2, p + 5))
  IN  IF end - first < 6 \/ LowSurrogate(Code(first)) THEN [length |-> 0, bytes |-> << >>]
      ELSE IF ~Surrogate(Code(first)) THEN [length |-> 6, bytes |-> Utf8(Code(first))]
      ELSE IF end - first < 12 THEN [length |-> 0, bytes |-> << >>]
      ELSE [length |-> 12,
            bytes |-> Utf8(PairCode(Code(first), Code(first + 6)))]

\* What \uXXXX or two of them at first stand for, and how long they are; the
\* length is 0 if they stand for nothing.
utf16_literal_to_utf8(text, first, end) ==
  LET Code(p) == parse_hex4(SubSeq(text, p + 2, p + 5))
      fail == [length |-> 0, bytes |-> << >>]
  IN  IF end - first < 6 \/ LowSurrogate(Code(first)) THEN fail
      ELSE IF ~Surrogate(Code(first)) THEN [length |-> 6, bytes |-> Utf8(Code(first))]
      ELSE IF \/ end - first < 12
              \/ text[first + 6] # Backslash \/ text[first + 7] # LetterU
              \/ ~LowSurrogate(Code(first + 6))
      THEN fail
      ELSE [length |-> 12,
            bytes |-> Utf8(PairCode(Code(first), Code(first + 6)))]

-----------------------------------------------------------------------------
(* parse_string *)

\* The escapes of one letter: b, f, n, r, t stand for a control character,
\* and three characters for themselves.
Escape == [c \in {98, 102, 110, 114, 116, Quote, Backslash, Slash} |->
             CASE c = 98 -> 8 [] c = 102 -> 12 [] c = 110 -> Newline
               [] c = 114 -> 13 [] c = 116 -> 9 [] OTHER -> c]

ParseString(buffer) ==
  /\ stage = "idle"
  /\ input' = buffer /\ input_pointer' = 2 /\ input_end' = 2 /\ skipped' = {}
  /\ room' = 0 /\ output' = << >> /\ starved' = FALSE
  /\ stage' = IF buffer[1] = Quote THEN "scan" ELSE "failed"

FailString ==
  /\ stage' = "failed"
  /\ UNCHANGED <<input, input_pointer, input_end, skipped, room, output, starved>>

\* An escaped character is passed over with its backslash.
Scan ==
  /\ stage = "scan" /\ input_end <= Len(input) /\ input[input_end] # Quote
  /\ IF input[input_end] # Backslash
     THEN input_end' = input_end + 1 /\ UNCHANGED <<skipped, stage>>
     ELSE IF input_end + 1 > Len(input)
     THEN stage' = "failed" /\ UNCHANGED <<input_end, skipped>>
     ELSE /\ input_end' = input_end + 2 /\ skipped' = skipped \cup {input_end}
          /\ UNCHANGED stage
  /\ UNCHANGED <<input, input_pointer, room, output, starved>>

\* Mutant: every escape is taken for one of two characters less.
AllocateTooLittle ==
  /\ stage = "scan"
  /\ \/ input_end > Len(input) /\ FailString
     \/ /\ input_end <= Len(input) /\ input[input_end] = Quote
        /\ stage' = "decode" /\ room' = input_end - 1 - 2 * Cardinality(skipped) + 1
        /\ UNCHANGED <<input, input_pointer, input_end, skipped, output, starved>>

\* The closing quote, or the end of the buffer.  There is room for a byte for
\* each character from the opening quote on that is no skipped backslash, and
\* for the NUL.
Allocate ==
  /\ stage = "scan"
  /\ \/ input_end > Len(input) /\ FailString
     \/ /\ input_end <= Len(input) /\ input[input_end] = Quote
        /\ \/ /\ stage' = "decode" /\ room' = input_end - 1 - Cardinality(skipped) + 1
              /\ UNCHANGED starved
           \/ stage' = "failed" /\ starved' = TRUE /\ UNCHANGED room
        /\ UNCHANGED <<input, input_pointer, input_end, skipped, output>>

\* length characters are read and give these bytes.
Decoded(length, bytes) ==
  /\ input_pointer' = input_pointer + length /\ output' = output \o bytes
  /\ UNCHANGED <<input, input_end, skipped, room, stage, starved>>

Plain ==
  /\ stage = "decode" /\ input_pointer < input_end
  /\ input[input_pointer] # Backslash
  /\ Decoded(1, <<input[input_pointer]>>)

\* The character behind the backslash may be the closing quote, if the four
\* digits of an escape were none.
Unescape ==
  /\ stage = "decode" /\ input_pointer < input_end
  /\ input[input_pointer] = Backslash
  /\ LET c == input[input_pointer + 1]
         literal == utf16_literal_to_utf8(input, input_pointer, input_end)
     IN  IF c \in DOMAIN Escape THEN Decoded(2, <<Escape[c]>>)
         ELSE IF c = LetterU /\ literal.length > 0 THEN Decoded(literal.length, literal.bytes)
         ELSE FailString

\* The terminating NUL is written.
Finish ==
  /\ stage = "decode" /\ input_pointer >= input_end
  /\ output' = Append(output, NUL) /\ stage' = "done"
  /\ UNCHANGED <<input, input_pointer, input_end, skipped, room, starved>>

parse_string == Scan \/ Allocate \/ Plain \/ Unescape \/ Finish

\* Any buffer that is not empty.
StringsNext == (\E buffer \in Seq(Nat) \ {<< >>} : ParseString(buffer)) \/ parse_string

StringsSpec == StringInit /\ [][StringsNext]_stringVars

\* Every byte parse_string writes is in the room it has asked for, for all
\* texts, escapes cut off by the closing quote included (the estimate of
\* cJSON.c:831-858 against the writes of 865-923).
OutputFits == stage \in {"decode", "done"} => Len(output) <= room

-----------------------------------------------------------------------------
(* print_string_ptr *)

\* The letter of an escape, for the characters that have one and must not be
\* printed as they are.
Letter == [c \in {8, 9, Newline, 12, 13, Quote, Backslash} |->
             CHOOSE l \in DOMAIN Escape : Escape[l] = c]

\* sprintf("%04x") of a control character.
Hex4(c) == LET Digit(d) == IF d < 10 THEN 48 + d ELSE 97 + d - 10
           IN  <<48, 48, Digit(c \div 16), Digit(c % 16)>>

Escaped(c) ==
  IF c \in DOMAIN Letter THEN <<Backslash, Letter[c]>>
  ELSE IF c > 31 THEN <<c>>
  ELSE <<Backslash, LetterU>> \o Hex4(c)

\* One character more for a letter, five for a number.
escape_characters(string) ==
  FoldLeft(LAMBDA sum, c : sum + (IF c \in DOMAIN Letter THEN 1 ELSE IF c < 32 THEN 5 ELSE 0),
           0, string)

\* Mutant: the room is that of the string without its escapes.
PrintedShort(string) ==
  LET body == FlattenSeq([n \in DOMAIN string |-> Escaped(string[n])])
  IN  <<Quote>> \o SubSeq(body, 1, Len(string)) \o <<Quote>>

\* The closing quote is put where the length computed beforehand says, over
\* whatever is there.
print_string_ptr(string) ==
  LET output_length == Len(string) + escape_characters(string)
      body == FlattenSeq([n \in DOMAIN string |-> Escaped(string[n])])
  IN  <<Quote>> \o SubSeq(body, 1, output_length) \o <<Quote>>
=============================================================================
