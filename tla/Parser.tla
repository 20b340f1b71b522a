------------------------------- MODULE Parser -------------------------------
(***************************************************************************)
(* The parser of cJSON.c: cJSON_ParseWithLengthOpts and the functions under *)
(* it, as a machine that moves an offset through a buffer of symbols.  A    *)
(* symbol is a token and not a byte: "n" is a number or a literal, "s" a    *)
(* string, "quote" the part of a malformed string in front of the place     *)
(* where parse_string gives up, " " white space, "NUL" the zero byte, "bom" *)
(* the byte order mark, which elsewhere stands for what starts no value.    *)
(*                                                                         *)
(* The recursion of parse_value is a stack of frames, one for each list     *)
(* that is being built, the first on top; the last frame stands for the     *)
(* root item.  Every allocation may fail.                                   *)
(***************************************************************************)
EXTENDS Integers, Sequences

CONSTANTS
  Input,          \* the buffers that are parsed, sequences of symbols
  bytes,          \* [Symbol -> Nat]: the bytes of a symbol
  NestingLimit    \* CJSON_NESTING_LIMIT

Space == {" ", "NUL"}       \* what is <= 32
Symbol == {"[", "]", "{", "}", ",", ":", "n", "s", "quote", "bom"} \cup Space

ASSUME ParserAssumption ==
  /\ Input \subseteq Seq(Symbol) /\ bytes \in [Symbol -> Nat \ {0}]
  /\ NestingLimit \in Nat

VARIABLES
  input,          \* the content and the length of the parse_buffer
  require_null_terminated,  \* the argument of the call
  offset,         \* its offset
  depth,          \* its depth
  stack,          \* the lists that are being built
  pc,             \* what the parser does next, see Next
  blocks,         \* items and strings allocated and not freed
  starved,        \* an allocation has failed
  position        \* where return_parse_end and the error pointer point

call == <<input, require_null_terminated>>
vars == <<call, offset, depth, stack, pc, blocks, starved, position>>

\* A list: its kind, the values in it, and the blocks that cJSON_Delete(head)
\* frees, those of the item that is being parsed included.
Frame(kind, owned) == [kind |-> kind, values |-> << >>, owned |-> owned]
Value(kind, values) == [kind |-> kind, values |-> values]

\* The symbol k places on, "end" if it cannot be accessed.
SymbolAt(o, k) == IF o + k < Len(input) THEN input[o + k + 1] ELSE "end"

\* Mutant: the offset is left behind the end.
skip_to_the_end(o) ==
  LET text == {n \in o .. Len(input) - 1 : input[n + 1] \notin Space}
  IN  IF text = {} THEN Len(input) ELSE CHOOSE n \in text : \A m \in text : n <= m

\* From the offset o to what is not white space, or to the last symbol.
buffer_skip_whitespace(o) ==
  LET text == {n \in o .. Len(input) - 1 : input[n + 1] \notin Space}
  IN  IF o >= Len(input) THEN o
      ELSE IF text = {} THEN Len(input) - 1
      ELSE CHOOSE n \in text : \A m \in text : n <= m

\* The byte order mark is skipped if two more bytes follow it.
skip_utf8_bom ==
  IF /\ SymbolAt(0, 0) = "bom"
     /\ Len(input) > 2 \/ (Len(input) = 2 /\ bytes[input[2]] > 1)
  THEN 1 ELSE 0

-----------------------------------------------------------------------------
Init ==
  /\ input \in Input /\ require_null_terminated \in BOOLEAN
  /\ offset = 0 /\ depth = 0 /\ pc = "start"
  /\ stack = << >> /\ blocks = 0 /\ starved = FALSE /\ position = 0

Top == stack[1]

\* Mutant: the offset is set back.
FailAtTheStart(o) ==
  /\ offset' = 0 /\ pc' = "fail"
  /\ UNCHANGED <<call, depth, stack, blocks, starved, position>>

\* The parser fails here; what it has built is freed from now on.
FailAt(o) ==
  /\ offset' = o /\ pc' = "fail"
  /\ UNCHANGED <<call, depth, stack, blocks, starved, position>>

StarveAt(o) ==
  /\ offset' = o /\ pc' = "fail" /\ starved' = TRUE
  /\ UNCHANGED <<call, depth, stack, blocks, position>>

\* An empty buffer is refused; otherwise the root item is allocated.
Start ==
  /\ pc = "start"
  /\ IF input = << >> THEN FailAt(0)
     ELSE \/ StarveAt(0)
          \/ /\ stack' = <<Frame("Root", 1)>> /\ blocks' = 1
             /\ offset' = buffer_skip_whitespace(skip_utf8_bom)
             /\ pc' = "value" /\ UNCHANGED <<call, depth, starved, position>>

\* The frame f with a further value, which has brought new blocks.
Filled(f, v, new) ==
  [kind |-> f.kind, values |-> Append(f.values, v), owned |-> f.owned + new]

\* The value v ends at o and is the value of the current item of a list.
Parsed(v, o, frames, new) ==
  /\ offset' = o /\ pc' = "next"
  /\ stack' = <<Filled(frames[1], v, new)>> \o Tail(frames)
  /\ UNCHANGED <<call, starved, position>>

\* null, false, true and parse_number, which needs a buffer for a while.
parse_number ==
  /\ pc = "value" /\ SymbolAt(offset, 0) = "n"
  /\ \/ Parsed(Value("n", << >>), offset + 1, stack, 0) /\ UNCHANGED <<depth, blocks>>
     \/ StarveAt(offset)

\* parse_string leaves the offset behind the quote if it fails.
parse_string ==
  /\ pc = "value"
  /\ \/ /\ SymbolAt(offset, 0) = "s"
        /\ \/ /\ Parsed(Value("s", << >>), offset + 1, stack, 1)
              /\ blocks' = blocks + 1 /\ UNCHANGED depth
           \/ StarveAt(offset + 1)
     \/ SymbolAt(offset, 0) = "quote" /\ FailAt(offset + 1)

Opens(kind) == IF kind = "Array" THEN "[" ELSE "{"
Closes(kind) == IF kind = "Array" THEN "]" ELSE "}"

\* Mutant: one list more than the limit allows.
OpenListTooMany ==
  /\ pc = "value"
  /\ \E kind \in {"Array", "Object"} :
       LET inside == buffer_skip_whitespace(offset + 1)
       IN  /\ SymbolAt(offset, 0) = Opens(kind)
           /\ IF depth > NestingLimit THEN FailAt(offset)
              ELSE IF SymbolAt(inside, 0) = Closes(kind)
              THEN Parsed(Value(kind, << >>), inside + 1, stack, 0)
                   /\ UNCHANGED <<depth, blocks>>
              ELSE IF SymbolAt(inside, 0) = "end"
              THEN /\ offset' = inside - 1 /\ depth' = depth + 1 /\ pc' = "fail"
                   /\ UNCHANGED <<call, stack, blocks, starved, position>>
              ELSE /\ offset' = inside - 1 /\ depth' = depth + 1 /\ pc' = "element"
                   /\ stack' = <<Frame(kind, 0)>> \o stack
                   /\ UNCHANGED <<call, blocks, starved, position>>

\* parse_array and parse_object up to their loops: an empty list is complete.
OpenList ==
  /\ pc = "value"
  /\ \E kind \in {"Array", "Object"} :
       LET inside == buffer_skip_whitespace(offset + 1)
       IN  /\ SymbolAt(offset, 0) = Opens(kind)
           /\ IF depth >= NestingLimit THEN FailAt(offset)
              ELSE IF SymbolAt(inside, 0) = Closes(kind)
              THEN Parsed(Value(kind, << >>), inside + 1, stack, 0)
                   /\ UNCHANGED <<depth, blocks>>
              ELSE IF SymbolAt(inside, 0) = "end"
              THEN /\ offset' = inside - 1 /\ depth' = depth + 1 /\ pc' = "fail"
                   /\ UNCHANGED <<call, stack, blocks, starved, position>>
              ELSE /\ offset' = inside - 1 /\ depth' = depth + 1 /\ pc' = "element"
                   /\ stack' = <<Frame(kind, 0)>> \o stack
                   /\ UNCHANGED <<call, blocks, starved, position>>

parse_nothing ==
  /\ pc = "value" /\ SymbolAt(offset, 0) \notin {"n", "s", "quote", "[", "{"}
  /\ FailAt(offset)

\* The start of the loop: the offset is in front of an element or member.
NewElement ==
  /\ pc = "element"
  /\ \/ StarveAt(offset)
     \/ /\ blocks' = blocks + 1
        /\ stack' = <<[Top EXCEPT !.owned = @ + 1]>> \o Tail(stack)
        /\ UNCHANGED <<call, depth, starved, position>>
        /\ IF Top.kind = "Array"
           THEN offset' = buffer_skip_whitespace(offset + 1) /\ pc' = "value"
           ELSE IF SymbolAt(offset, 1) = "end"
           THEN offset' = offset /\ pc' = "fail"
           ELSE offset' = buffer_skip_whitespace(offset + 1) /\ pc' = "name"

\* The name of a member and the colon: valuestring becomes string.
parse_name ==
  LET colon == buffer_skip_whitespace(offset + 1)
  IN  /\ pc = "name"
      /\ \/ SymbolAt(offset, 0) # "s" /\ FailAt(offset + 1)
         \/ SymbolAt(offset, 0) = "s" /\ StarveAt(offset + 1)
         \/ /\ SymbolAt(offset, 0) = "s" /\ blocks' = blocks + 1
            /\ stack' = <<[Top EXCEPT !.owned = @ + 1]>> \o Tail(stack)
            /\ UNCHANGED <<call, depth, starved, position>>
            /\ IF SymbolAt(colon, 0) = ":"
               THEN offset' = buffer_skip_whitespace(colon + 1) /\ pc' = "value"
               ELSE offset' = colon /\ pc' = "fail"

\* Mutant: the depth is not restored.
NextElementDeeper ==
  LET o == buffer_skip_whitespace(offset)
  IN  /\ pc = "next" /\ Top.kind # "Root"
      /\ IF SymbolAt(o, 0) = ","
         THEN /\ offset' = o /\ pc' = "element"
              /\ UNCHANGED <<call, depth, stack, blocks, starved, position>>
         ELSE IF SymbolAt(o, 0) = Closes(Top.kind)
         THEN /\ UNCHANGED <<depth, blocks>>
              /\ Parsed(Value(Top.kind, Top.values), o + 1, Tail(stack), Top.owned)
         ELSE FailAt(o)

\* Mutant: either bracket ends a list.
NextElementEitherEnd ==
  LET o == buffer_skip_whitespace(offset)
  IN  /\ pc = "next" /\ Top.kind # "Root"
      /\ IF SymbolAt(o, 0) = ","
         THEN /\ offset' = o /\ pc' = "element"
              /\ UNCHANGED <<call, depth, stack, blocks, starved, position>>
         ELSE IF SymbolAt(o, 0) \in {"]", "}"}
         THEN /\ depth' = depth - 1 /\ UNCHANGED blocks
              /\ Parsed(Value(Top.kind, Top.values), o + 1, Tail(stack), Top.owned)
         ELSE FailAt(o)

\* After an element: a comma, the end of the list, or a failure.  The list is
\* the value of the item it was parsed for.
NextElement ==
  LET o == buffer_skip_whitespace(offset)
  IN  /\ pc = "next" /\ Top.kind # "Root"
      /\ IF SymbolAt(o, 0) = ","
         THEN /\ offset' = o /\ pc' = "element"
              /\ UNCHANGED <<call, depth, stack, blocks, starved, position>>
         ELSE IF SymbolAt(o, 0) = Closes(Top.kind)
         THEN /\ depth' = depth - 1 /\ UNCHANGED blocks
              /\ Parsed(Value(Top.kind, Top.values), o + 1, Tail(stack), Top.owned)
         ELSE FailAt(o)

\* cJSON_ParseWithLengthOpts after parse_value.
Return ==
  LET o == IF require_null_terminated THEN buffer_skip_whitespace(offset) ELSE offset
  IN  /\ pc = "next" /\ Top.kind = "Root"
      /\ IF require_null_terminated /\ SymbolAt(o, 0) # "NUL" THEN FailAt(o)
         ELSE /\ pc' = "done" /\ offset' = o /\ position' = o
              /\ UNCHANGED <<call, depth, stack, blocks, starved>>

\* Mutant: the list is dropped and not deleted.
FailListWithoutDelete ==
  /\ pc = "fail" /\ stack # << >> /\ stack' = Tail(stack)
  /\ UNCHANGED <<call, offset, depth, pc, blocks, starved, position>>

\* The labels "fail" of parse_array and parse_object, from the inside out.
FailList ==
  /\ pc = "fail" /\ stack # << >>
  /\ blocks' = blocks - Top.owned /\ stack' = Tail(stack)
  /\ UNCHANGED <<call, offset, depth, pc, starved, position>>

\* Mutant: an empty buffer is not thought of.
FailInText ==
  /\ pc = "fail" /\ stack = << >> /\ pc' = "failed"
  /\ position' = IF offset < Len(input) THEN offset ELSE Len(input) - 1
  /\ UNCHANGED <<call, offset, depth, stack, blocks, starved>>

\* The label "fail" of cJSON_ParseWithLengthOpts, after the root is deleted.
Fail ==
  /\ pc = "fail" /\ stack = << >> /\ pc' = "failed"
  /\ position' = IF offset < Len(input) THEN offset
                 ELSE IF Len(input) > 0 THEN Len(input) - 1 ELSE 0
  /\ UNCHANGED <<call, offset, depth, stack, blocks, starved>>

\* The call has returned.
Returned == pc \in {"done", "failed"} /\ UNCHANGED vars

Next ==
  \/ Start \/ parse_number \/ parse_string \/ OpenList \/ parse_nothing
  \/ NewElement \/ parse_name \/ NextElement \/ Return \/ FailList \/ Fail
  \/ Returned

Spec == Init /\ [][Next]_vars

-----------------------------------------------------------------------------
(* The properties that need no grammar.                                     *)

\* The type of the state; the offset and the position point into the buffer or
\* to its end.
TypeOK ==
  /\ input \in Seq(Symbol) /\ require_null_terminated \in BOOLEAN
  /\ offset \in 0 .. Len(input) /\ position \in 0 .. Len(input)
  /\ depth \in Nat /\ blocks \in Nat /\ starved \in BOOLEAN
  /\ pc \in {"start", "value", "next", "element", "name", "fail", "done", "failed"}
  /\ \A n \in DOMAIN stack :
       stack[n].kind \in {"Root", "Array", "Object"} /\ stack[n].owned \in Nat

\* What parse_string, parse_array and parse_object read without asking whether
\* they may (the first symbol of a name, and the one they step back to) is in
\* the buffer; so is the place an error is reported at.
ReadsInBuffer ==
  /\ pc \in {"element", "name"} => offset < Len(input)
  /\ pc = "failed" /\ input # << >> => position < Len(input)

\* The depth counts the lists that are being built, however they were entered
\* and left, and never exceeds CJSON_NESTING_LIMIT (README.md:566).
Nested ==
  /\ depth <= NestingLimit
  /\ pc \notin {"start", "fail", "failed"} => depth = Len(stack) - 1

\* A call that fails, wherever and for whatever reason, has freed every item
\* and string it had allocated.
NothingLeaks == pc = "failed" => blocks = 0
=============================================================================
