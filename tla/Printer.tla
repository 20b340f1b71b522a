------------------------------ MODULE Printer ------------------------------
(***************************************************************************)
(* The printer of cJSON.c: print_value and the functions it calls write    *)
(* the text of an item piece by piece into a printbuffer; ensure() grants   *)
(* room for a piece, growing the buffer or giving up; cJSON_Print,          *)
(* cJSON_PrintBuffered and cJSON_PrintPreallocated set the buffer up and    *)
(* dispose of it.                                                          *)
(*                                                                         *)
(* What is abstracted: characters.  A text is a sequence of symbols (a      *)
(* bracket, a comma, "n" for a number or a literal, "s" for a string, " "   *)
(* for white space) and a count of bytes; the bytes of a scalar are given   *)
(* by `size', those of the (escaped) name of a member by `keysize'.  The    *)
(* recursion of print_value is the stack `todo' of what is still to print.  *)
(***************************************************************************)
EXTENDS Integers, Sequences

CONSTANTS
  Item,         \* the items that can be printed
  kind,         \* [Item -> Kind]
  kids,         \* [Item -> Seq(Item)]: the elements or members
  size,         \* [Item -> Nat]: strlen of what a scalar prints, no quotes
  keysize,      \* [Item -> Nat]: strlen of the escaped name of a member
  IntMax,       \* INT_MAX
  DefaultSize,  \* default_buffer_size of print()
  Length        \* the prebuffer and length arguments clients pass

Kind == {"Literal", "Number", "String", "Array", "Object", "Invalid"}

ASSUME PrinterAssumption ==
  /\ kind \in [Item -> Kind] /\ kids \in [Item -> Seq(Item)]
  /\ size \in [Item -> Nat] /\ keysize \in [Item -> Nat]
  /\ IntMax \in Nat /\ DefaultSize \in 1 .. IntMax /\ Length \subseteq 0 .. IntMax

VARIABLES
  call,         \* the function called: Print, PrintBuffered, PrintPreallocated
  root,         \* the item it prints
  p,            \* the printbuffer and what is in its block
  todo,         \* what is still to print, innermost first
  status,       \* "printing", "failing", and when returned "done", "failed"
  blocks,       \* blocks obtained from the allocator and not given back
  starved,      \* the allocator has failed
  reallocate,   \* the hooks have a realloc
  copied        \* the last memcpy of ensure(): its bytes, and the block it read

vars == <<call, root, p, todo, status, blocks, starved, reallocate, copied>>

-----------------------------------------------------------------------------
(* The buffer.  `front' is the text before offset, `back' the text that was *)
(* written from offset on, `tail' its strlen; `nul' says that a NUL ends it; *)
(* `reach' is the end of the last write.                                    *)

Buffer(length, noalloc, format) ==
  [buffer |-> TRUE, length |-> length, offset |-> 0, depth |-> 0,
   noalloc |-> noalloc, format |-> format,
   front |-> << >>, back |-> << >>, tail |-> 0, nul |-> FALSE, reach |-> 0]

\* What asking for room leads to: a buffer with room, the refusal of any more,
\* or no buffer, because the block was freed when it could not grow.
Granted(b) == [ok |-> TRUE, p |-> b, freed |-> 0]
Refused(b) == [ok |-> FALSE, p |-> b, freed |-> 0]
Starved(b) == [ok |-> FALSE, p |-> [b EXCEPT !.buffer = FALSE, !.length = 0], freed |-> 1]

\* A memcpy of so many bytes out of a block of that length.
Copy(bytes, length) == [bytes |-> bytes, length |-> length]

\* With realloc or by a memcpy, what is before offset is moved along.
Grown(b, total, memory) ==
  LET newsize == IF total > IntMax \div 2 THEN IntMax ELSE total * 2
  IN  IF b.noalloc \/ total > IntMax THEN Refused(b)
      ELSE IF memory THEN Granted([b EXCEPT !.length = newsize])
      ELSE Starved(b)

\* Mutant: no room for the byte after the piece.
ensure_exactly(b, needed, memory) ==
  IF ~b.buffer THEN Refused(b)
  ELSE IF needed + b.offset <= b.length THEN Granted(b)
  ELSE Grown(b, needed + b.offset, memory)

\* Room for needed more bytes and one.
ensure(b, needed, memory) ==
  IF ~b.buffer \/ (b.length > 0 /\ b.offset >= b.length) \/ needed > IntMax
  THEN Refused(b)
  ELSE IF needed + b.offset + 1 <= b.length THEN Granted(b)
  ELSE Grown(b, needed + b.offset + 1, memory)

update_offset(b) ==
  IF b.buffer
  THEN [b EXCEPT !.offset = @ + b.tail, !.tail = 0,
                 !.front = @ \o b.back, !.back = << >>]
  ELSE b

\* Text that is written at offset and ends there without a NUL.
Open(b, bytes, text) ==
  [b EXCEPT !.front = @ \o text, !.back = << >>, !.tail = 0, !.nul = FALSE,
            !.offset = @ + bytes, !.reach = b.offset + bytes]

\* The same with a NUL.
Closed(b, bytes, text) ==
  [b EXCEPT !.front = @ \o text, !.back = << >>, !.tail = 0, !.nul = TRUE,
            !.offset = @ + bytes, !.reach = b.offset + bytes + 1]

\* Text with a NUL whose length the caller is to add to offset.
Pending(b, bytes, text) ==
  [b EXCEPT !.back = text, !.tail = bytes, !.nul = TRUE,
            !.reach = b.offset + bytes + 1]

-----------------------------------------------------------------------------
(* Printing.  A step prints one piece: it asks for room and, if it gets it,  *)
(* writes the piece and leaves `rest' to do.                                *)

Step(op, i, k) == [op |-> op, item |-> i, k |-> k]

Doing(op) == status = "printing" /\ todo # << >> /\ todo[1].op = op

\* b: the buffer that asks; written: the same with the piece in it.
Put(b, needed, written, rest) ==
  \E memory \in BOOLEAN :
    LET granted == ensure(b, needed, memory)
        larger == granted.ok /\ granted.p.length > b.length
    IN  /\ p' = IF granted.ok THEN [written EXCEPT !.length = granted.p.length]
                              ELSE granted.p
        /\ blocks' = blocks - granted.freed
        /\ starved' = (starved \/ granted.freed > 0)
        /\ status' = IF granted.ok THEN "printing" ELSE "failing"
        /\ todo' = IF granted.ok THEN rest \o Tail(todo) ELSE << >>
        /\ copied' = IF larger /\ ~reallocate THEN Copy(b.offset + 1, b.length) ELSE copied
        /\ UNCHANGED <<call, root, reallocate>>

\* A step that writes nothing.
Proceed(b) ==
  /\ p' = b /\ todo' = Tail(todo)
  /\ UNCHANGED <<call, root, status, blocks, starved, reallocate, copied>>

item == todo[1].item
AtLast == todo[1].k = Len(kids[item])
Printing(k) == Doing("value") /\ kind[item] = k

\* null, false, true; cJSON_Raw prints its text as it is.
print_literal ==
  /\ Printing("Literal")
  /\ Put(p, size[item] + 1, Pending(p, size[item], <<"n">>), << >>)

\* Mutant: asks for the size of number_buffer.
print_number_generously ==
  /\ Printing("Number")
  /\ Put(p, 26, Closed(p, size[item], <<"n">>), << >>)

print_number ==
  /\ Printing("Number")
  /\ Put(p, size[item] + 1, Closed(p, size[item], <<"n">>), << >>)

print_string ==
  /\ Printing("String")
  /\ Put(p, size[item] + 3, Pending(p, size[item] + 2, <<"s">>), << >>)

\* A type that is none of the above, or a raw item without text.
print_invalid ==
  /\ Printing("Invalid")
  /\ status' = "failing" /\ todo' = << >>
  /\ UNCHANGED <<call, root, p, blocks, starved, reallocate, copied>>

\* Mutant: depth is not incremented.
NoDeeper(b) == b

Deeper(b) == [b EXCEPT !.depth = @ + 1]
Shallower(b) == [b EXCEPT !.depth = @ - 1]

\* print_array up to its loop, and what the loop will do.
OpenArray ==
  /\ Printing("Array")
  /\ Put(p, 1, Deeper(Open(p, 1, <<"[">>)),
       [n \in 1 .. 2 * Len(kids[item]) + 1 |->
          IF n > 2 * Len(kids[item]) THEN Step("close", item, 0)
          ELSE IF n % 2 = 1 THEN Step("value", kids[item][(n + 1) \div 2], 0)
          ELSE Step("comma", item, n \div 2)])

Comma == IF p.format THEN <<",", " ">> ELSE <<",">>

\* Mutant: the element is not counted before the comma is written.
ElementEndUncounted ==
  /\ Doing("comma") /\ kind[item] = "Array"
  /\ IF AtLast THEN Proceed(update_offset(p))
     ELSE Put(p, Len(Comma) + 1, Closed(p, Len(Comma), Comma), << >>)

\* After an element.
ElementEnd ==
  /\ Doing("comma") /\ kind[item] = "Array"
  /\ IF AtLast THEN Proceed(update_offset(p))
     ELSE Put(update_offset(p), Len(Comma) + 1,
                Closed(update_offset(p), Len(Comma), Comma), << >>)

CloseArray ==
  /\ Doing("close") /\ kind[item] = "Array"
  /\ Put(p, 2, Shallower(Pending(p, 1, <<"]">>)), << >>)

Brace == IF p.format THEN <<"{", " ">> ELSE <<"{">>

\* print_object up to its loop; a member is its indentation, its name, the
\* colon, its value and what follows it.
OpenObject ==
  /\ Printing("Object")
  /\ Put(p, Len(Brace) + 1, Deeper(Open(p, Len(Brace), Brace)),
       [n \in 1 .. 5 * Len(kids[item]) + 1 |->
          LET k == (n + 4) \div 5
          IN  IF k > Len(kids[item]) THEN Step("close", item, 0)
              ELSE CASE n % 5 = 1 -> Step("indent", item, k)
                     [] n % 5 = 2 -> Step("key", item, k)
                     [] n % 5 = 3 -> Step("colon", item, k)
                     [] n % 5 = 4 -> Step("value", kids[item][k], 0)
                     [] n % 5 = 0 -> Step("comma", item, k)])

Indent ==
  /\ Doing("indent")
  /\ IF p.format THEN Put(p, p.depth, Open(p, p.depth, <<" ">>), << >>)
                 ELSE Proceed(p)

print_key ==
  /\ Doing("key")
  /\ LET bytes == keysize[kids[item][todo[1].k]]
     IN  Put(p, bytes + 3, Pending(p, bytes + 2, <<"s">>), << >>)

Colon == IF p.format THEN <<":", " ">> ELSE <<":">>

print_colon ==
  /\ Doing("colon")
  /\ Put(update_offset(p), Len(Colon), Open(update_offset(p), Len(Colon), Colon), << >>)

MemberEnd ==
  /\ Doing("comma") /\ kind[item] = "Object"
  /\ LET end == (IF AtLast THEN << >> ELSE <<",">>)
                  \o (IF p.format THEN <<" ">> ELSE << >>)
     IN  Put(update_offset(p), Len(end) + 1,
               Closed(update_offset(p), Len(end), end), << >>)

CloseObject ==
  /\ Doing("close") /\ kind[item] = "Object"
  /\ IF p.format
     THEN Put(p, p.depth + 1,
                Shallower(Pending(p, p.depth, <<" ", "}">>)), << >>)
     ELSE Put(p, 2, Shallower(Pending(p, 1, <<"}">>)), << >>)

-----------------------------------------------------------------------------
(* The calls.                                                              *)

\* print(), behind cJSON_Print and cJSON_PrintUnformatted, with a default
\* buffer that could be allocated; cJSON_PrintBuffered with a prebuffer, where
\* malloc(0) may return a block; cJSON_PrintPreallocated into a block of the
\* client.  The hooks keep realloc only if they have the malloc and free of libc.
Init ==
  /\ root \in Item /\ todo = <<Step("value", root, 0)>>
  /\ status = "printing" /\ starved = FALSE
  /\ reallocate \in BOOLEAN /\ copied = Copy(0, 0)
  /\ \E format \in BOOLEAN :
       \/ /\ call = "Print" /\ blocks = 1
          /\ p = Buffer(DefaultSize, FALSE, format)
       \/ /\ call = "PrintBuffered" /\ blocks = 1
          /\ \E n \in Length : p = Buffer(n, FALSE, format)
       \/ /\ call = "PrintPreallocated" /\ blocks = 0
          /\ \E n \in Length : p = Buffer(n, TRUE, format)

\* The text is complete.  print() moves it to a block of its size, which it
\* gets from realloc or, with hooks, from malloc.
Finish ==
  /\ status = "printing" /\ todo = << >>
  /\ IF call # "Print"
     THEN status' = "done" /\ UNCHANGED <<p, blocks, starved>>
     ELSE LET b == update_offset(p)
          IN  \/ /\ status' = "done" /\ UNCHANGED <<blocks, starved>>
                 /\ p' = [b EXCEPT !.length = b.offset + 1]
              \/ /\ status' = "failing" /\ starved' = TRUE
                 /\ p' = b /\ UNCHANGED blocks
  /\ UNCHANGED <<call, root, todo, reallocate, copied>>

\* Mutant: PrintBuffered and print() return without freeing the buffer.
FailWithoutFree ==
  /\ status = "failing" /\ status' = "failed"
  /\ UNCHANGED <<call, root, p, todo, blocks, starved, reallocate, copied>>

\* print() frees the buffer if it is still there; PrintBuffered calls free in
\* any case, which does nothing to NULL; PrintPreallocated owns no block.
Fail ==
  /\ status = "failing" /\ status' = "failed"
  /\ blocks' = IF p.buffer /\ call # "PrintPreallocated" THEN blocks - 1 ELSE blocks
  /\ p' = IF call = "PrintPreallocated" THEN p ELSE [p EXCEPT !.buffer = FALSE]
  /\ UNCHANGED <<call, root, todo, starved, reallocate, copied>>

PrintPiece ==
  \/ print_literal \/ print_number \/ print_string \/ print_invalid
  \/ OpenArray \/ ElementEnd \/ CloseArray
  \/ OpenObject \/ Indent \/ print_key \/ print_colon \/ MemberEnd \/ CloseObject

Next == PrintPiece \/ Finish \/ Fail

Spec == Init /\ [][Next]_vars

-----------------------------------------------------------------------------
\* The printbuffer holds values of their kinds, and a call that returned has
\* nothing left to print.
TypeOK ==
  /\ call \in {"Print", "PrintBuffered", "PrintPreallocated"} /\ root \in Item
  /\ p.length \in 0 .. IntMax /\ p.offset \in Nat /\ p.tail \in Nat
  /\ p.depth \in Nat /\ p.reach \in Nat /\ p.buffer \in BOOLEAN
  /\ status \in {"printing", "failing", "done", "failed"}
  /\ status # "printing" => todo = << >>
  /\ blocks \in Int /\ starved \in BOOLEAN
  /\ reallocate \in BOOLEAN /\ copied.bytes \in Nat /\ copied.length \in 0 .. IntMax

\* Every write ends inside the block; what growing without realloc copies lies in
\* the block it copies, an empty one of cJSON_PrintBuffered excepted, of which it
\* copies one byte; and where the code takes the strlen of what is at offset, a
\* NUL ends it inside the block.
InBlock ==
  /\ p.buffer => p.reach <= p.length
  /\ \/ copied.bytes <= copied.length
     \/ call = "PrintBuffered" /\ copied = Copy(1, 0)
  /\ status = "printing" /\ (todo = << >> \/ todo[1].op \in {"colon", "comma"}) => p.nul

\* README.md:320: "a new buffer is allocated and the old gets copied over", and
\* no more than the old one.  cJSON.c:1316 accepts a prebuffer of 0, and growing
\* an empty block by hand copies the byte behind it.
OldBufferIsCopied == copied.bytes <= copied.length

\* A call that succeeds leaves its caller one block, or none if it printed to
\* a block of the client; one that fails leaves none and frees nothing twice.
BlocksReturned ==
  /\ status = "failed" => blocks = 0
  /\ status = "done" => blocks = IF call = "PrintPreallocated" THEN 0 ELSE 1
=============================================================================
