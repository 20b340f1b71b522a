--------------------------- MODULE PrinterProofs ---------------------------
(***************************************************************************)
(* For every tree, every text in it and every size of the buffer: the       *)
(* printer writes, copies and measures only inside its block, the block is  *)
(* given back or handed to the caller, no length overflows an int, what a   *)
(* call returns is the JSON text of its item, and it fails only without     *)
(* memory, room or a valid type.                                           *)
(***************************************************************************)
EXTENDS PrintedText, LeastNumber, SequenceTheorems

\* What a printbuffer is, and what a step on the stack is.
PrintBuffer ==
  [buffer: BOOLEAN, length: Int, offset: Int, depth: Int, noalloc: BOOLEAN,
   format: BOOLEAN, front: Seq(Symbol), back: Seq(Symbol), tail: Int,
   nul: BOOLEAN, reach: Int]

StepSet ==
  {s \in [op: {"value", "comma", "close", "indent", "key", "colon"}, item: Item, k: Int] :
     s.op = "key" => s.k \in 1 .. Len(kids[s.item])}

\* The block has no byte at all.
Empty(b) == b.length = 0 /\ b.offset + b.tail = 0

\* What the last write reached is in the block, and so is the byte after the
\* text if the buffer may have to be copied, unless it is empty.
Room(b) ==
  /\ b \in PrintBuffer
  /\ b.reach <= b.offset + b.tail + 1
  /\ b.buffer => b.reach <= b.length
  /\ b.buffer /\ ~b.noalloc => b.offset + b.tail < b.length \/ Empty(b)

\* After a step that leaves no NUL comes one that takes no strlen.
Script(s) ==
  /\ s \in Seq(StepSet)
  /\ \A n \in 1 .. Len(s) :
       s[n].op \in {"indent", "colon"} =>
         n < Len(s) /\ s[n + 1].op \notin {"colon", "comma"}

Measures(s) == s = << >> \/ s[1].op \in {"colon", "comma"}

\* Who owns the block.
Ledger ==
  /\ blocks = IF p.buffer /\ call # "PrintPreallocated" THEN 1 ELSE 0
  /\ status = "failed" => ~p.buffer \/ call = "PrintPreallocated"
  /\ status \in {"printing", "done"} => p.buffer
  /\ status \in {"printing", "failing", "done", "failed"}
  /\ p.noalloc <=> call = "PrintPreallocated"

\* The inductive invariant.
IInv ==
  /\ Room(p)
  /\ Script(todo)
  /\ status = "printing" /\ Measures(todo) => p.nul
  /\ status = "printing" => p.length >= 0
  /\ Ledger

-----------------------------------------------------------------------------
(* The stack of steps.                                                     *)

\* What is left of a script after its first step is a script.
LEMMA ScriptTail ==
  ASSUME NEW s, Script(s), s # << >>
  PROVE  /\ Script(Tail(s))
         /\ s[1] \in StepSet
         /\ s[1].op \in {"indent", "colon"} => ~Measures(Tail(s))
<1>1. s \in Seq(StepSet) /\ Len(s) > 0 /\ s[1] \in StepSet
  BY DEF Script
<1>2. Tail(s) \in Seq(StepSet) /\ Len(Tail(s)) = Len(s) - 1
      /\ \A n \in 1 .. Len(Tail(s)) : Tail(s)[n] = s[n + 1]
  BY <1>1
<1>3. ASSUME NEW n \in 1 .. Len(Tail(s)), Tail(s)[n].op \in {"indent", "colon"}
      PROVE  n < Len(Tail(s)) /\ Tail(s)[n + 1].op \notin {"colon", "comma"}
  <2>1. n + 1 \in 1 .. Len(s) /\ s[n + 1].op \in {"indent", "colon"}
    BY <1>1, <1>2, <1>3
  <2>2. n + 1 < Len(s) /\ s[n + 1 + 1].op \notin {"colon", "comma"}
    BY <2>1 DEF Script
  <2>3. n + 1 \in 1 .. Len(Tail(s)) /\ Tail(s)[n + 1] = s[n + 1 + 1]
    BY <2>2, <1>1, <1>2
  <2> QED BY <2>2, <2>3, <1>2, <1>1
<1>4. ASSUME s[1].op \in {"indent", "colon"}
      PROVE  ~Measures(Tail(s))
  <2>1. 1 < Len(s) /\ s[1 + 1].op \notin {"colon", "comma"}
    BY <1>1, <1>4 DEF Script
  <2>2. 1 \in 1 .. Len(Tail(s)) /\ Tail(s)[1] = s[1 + 1]
    BY <2>1, <1>1, <1>2
  <2>3. Tail(s) # << >>
    <3>1. Len(Tail(s)) # 0
      BY <2>1, <1>1, <1>2
    <3>2. Len(<< >>) = 0
      OBVIOUS
    <3> QED BY <3>1, <3>2, Zenon
  <2>4. Tail(s)[1].op \notin {"colon", "comma"}
    BY <2>1, <2>2
  <2> QED BY <2>3, <2>4 DEF Measures
<1> QED BY <1>1, <1>2, <1>3, <1>4 DEF Script

\* Scripts can be put in front of each other.
LEMMA ScriptConcat ==
  ASSUME NEW r, NEW s, Script(r), Script(s)
  PROVE  Script(r \o s)
<1> DEFINE t == r \o s
<1>1. r \in Seq(StepSet) /\ s \in Seq(StepSet)
  BY DEF Script
<1>2. /\ t \in Seq(StepSet) /\ Len(t) = Len(r) + Len(s)
      /\ \A n \in 1 .. Len(r) : t[n] = r[n]
      /\ \A n \in Len(r) + 1 .. Len(t) : t[n] = s[n - Len(r)]
  BY <1>1
<1>3. ASSUME NEW n \in 1 .. Len(t), t[n].op \in {"indent", "colon"}
      PROVE  n < Len(t) /\ t[n + 1].op \notin {"colon", "comma"}
  <2>1. CASE n <= Len(r)
    <3>1. n \in 1 .. Len(r) /\ r[n].op \in {"indent", "colon"}
      BY <2>1, <1>1, <1>2, <1>3
    <3>2. n < Len(r) /\ r[n + 1].op \notin {"colon", "comma"}
      BY <3>1 DEF Script
    <3> QED BY <3>1, <3>2, <1>1, <1>2
  <2>2. CASE n > Len(r)
    <3>1. n - Len(r) \in 1 .. Len(s) /\ s[n - Len(r)].op \in {"indent", "colon"}
      BY <2>2, <1>1, <1>2, <1>3
    <3>2. n - Len(r) < Len(s) /\ s[n - Len(r) + 1].op \notin {"colon", "comma"}
      BY <3>1 DEF Script
    <3> QED BY <3>1, <3>2, <2>2, <1>1, <1>2
  <2> QED BY <2>1, <2>2, <1>1, <1>2
<1> HIDE DEF t
<1>4. Script(t) BY <1>2, <1>3 DEF Script
<1> QED BY <1>4 DEF t

-----------------------------------------------------------------------------
(* One piece.                                                              *)

\* What ensure() does to the buffer when it gives room.
Gives(b, needed, granted) ==
  /\ granted.ok = TRUE /\ granted.freed = 0
  /\ granted.p.length \in Int
  /\ b.offset + needed + 1 <= granted.p.length
  /\ granted.p.length >= 0

\* And when it does not.
Denies(b, granted) ==
  /\ granted.ok = FALSE
  /\ \/ granted.freed = 0 /\ granted.p = b
     \/ /\ granted.freed = 1 /\ ~b.noalloc
        /\ granted.p \in PrintBuffer
        /\ granted.p.noalloc = b.noalloc /\ granted.p.buffer = FALSE
        /\ granted.p.reach = b.reach
        /\ granted.p.offset = b.offset /\ granted.p.tail = b.tail

\* The one byte more that ensure() asks for, and what growing doubles.
LEMMA EnsureGivesRoom ==
  ASSUME NEW b \in PrintBuffer, b.length >= 0, NEW needed \in Int,
         NEW memory \in BOOLEAN
  PROVE  \/ Gives(b, needed, ensure(b, needed, memory))
         \/ Denies(b, ensure(b, needed, memory))
<1> DEFINE total == needed + b.offset + 1
           newsize == IF total > IntMax \div 2 THEN IntMax ELSE total * 2
           granted == ensure(b, needed, memory)
           large == [b EXCEPT !.length = newsize]
           none == [b EXCEPT !.buffer = FALSE, !.length = 0]
<1>1. total \in Int /\ b.offset \in Int /\ b.length \in Int /\ IntMax \in Nat
  BY PrinterAssumption DEF PrintBuffer
<1>2. CASE granted = Granted(b) /\ total <= b.length
  <2>1. granted.ok = TRUE /\ granted.freed = 0 /\ granted.p = b
    BY <1>2 DEF Granted
  <2> HIDE DEF granted
  <2>2. Gives(b, needed, granted)
    BY <2>1, <1>1, <1>2 DEF Gives
  <2> QED BY <2>2 DEF granted
<1>3. CASE granted = Refused(b)
  <2>1. granted.ok = FALSE /\ granted.freed = 0 /\ granted.p = b
    BY <1>3 DEF Refused
  <2> HIDE DEF granted
  <2>2. Denies(b, granted)
    BY <2>1 DEF Denies
  <2> QED BY <2>2 DEF granted
<1>4. CASE granted = Granted(large) /\ total <= IntMax /\ total > b.length
  <2>a. large.length = newsize
    BY DEF PrintBuffer
  <2> HIDE DEF large, granted
  <2>1. granted.ok = TRUE /\ granted.freed = 0 /\ granted.p.length = newsize
    BY <2>a, <1>4 DEF Granted
  <2>2. newsize \in Int /\ newsize >= total
    BY <1>1, <1>4
  <2>3. Gives(b, needed, granted)
    BY <2>1, <2>2, <1>1, <1>4 DEF Gives
  <2> QED BY <2>3 DEF granted
<1>5. CASE granted = Starved(b) /\ ~b.noalloc
  <2>a. /\ none \in PrintBuffer /\ none.noalloc = b.noalloc /\ none.buffer = FALSE
        /\ none.reach = b.reach /\ none.offset = b.offset /\ none.tail = b.tail
    <3>1. none \in PrintBuffer
      <4>1. ASSUME NEW x \in BOOLEAN PROVE [b EXCEPT !.buffer = x] \in PrintBuffer
        BY DEF PrintBuffer
      <4>2. ASSUME NEW c \in PrintBuffer, NEW n \in Int
            PROVE  [c EXCEPT !.length = n] \in PrintBuffer
        BY DEF PrintBuffer
      <4>3. FALSE \in BOOLEAN /\ 0 \in Int
        OBVIOUS
      <4>4. [b EXCEPT !.buffer = FALSE] \in PrintBuffer
        BY <4>1, <4>3, Zenon
      <4> QED BY <4>2, <4>3, <4>4, Zenon
    <3>2. none.noalloc = b.noalloc
      BY DEF PrintBuffer
    <3>3. none.buffer = FALSE
      BY DEF PrintBuffer
    <3>4. none.reach = b.reach /\ none.offset = b.offset /\ none.tail = b.tail
      BY DEF PrintBuffer
    <3> QED BY <3>1, <3>2, <3>3, <3>4
  <2>1. granted = [ok |-> FALSE, p |-> none, freed |-> 1]
    BY <1>5 DEF Starved
  <2> HIDE DEF none, granted
  <2>2. granted.ok = FALSE /\ granted.freed = 1 /\ granted.p = none
    BY <2>1
  <2>3. Denies(b, granted)
    BY <2>a, <2>2, <1>5 DEF Denies
  <2> QED BY <2>3 DEF granted
<1>6. \/ granted = Granted(b) /\ total <= b.length
      \/ granted = Refused(b)
      \/ granted = Granted(large) /\ total <= IntMax /\ total > b.length
      \/ granted = Starved(b) /\ ~b.noalloc
  <2> HIDE DEF large
  <2>1. large = [b EXCEPT !.length = newsize]
    BY DEF large
  <2>2. \/ granted = Refused(b)
        \/ total <= b.length /\ granted = Granted(b)
        \/ total > b.length /\ granted = Grown(b, total, memory)
    BY <1>1 DEF ensure
  <2>3. \/ Grown(b, total, memory) = Refused(b)
        \/ ~b.noalloc /\ total <= IntMax /\ Grown(b, total, memory) = Granted(large)
        \/ ~b.noalloc /\ Grown(b, total, memory) = Starved(b)
    <3> HIDE DEF total
    <3>1. CASE b.noalloc \/ total > IntMax
      BY <3>1, Zenon DEF Grown
    <3>2. CASE ~b.noalloc /\ ~(total > IntMax) /\ memory
      <4>1. Grown(b, total, memory) = Granted(large)
        BY <3>2, <2>1, Zenon DEF Grown
      <4> QED BY <4>1, <3>2, <1>1
    <3>3. CASE ~b.noalloc /\ ~(total > IntMax) /\ ~memory
      BY <3>3, Zenon DEF Grown
    <3> QED BY <3>1, <3>2, <3>3
  <2> QED BY <2>2, <2>3
<1> QED BY <1>2, <1>3, <1>4, <1>5, <1>6

\* w is b after a piece of so many bytes has been written to it.
Writes(b, w, bytes) ==
  /\ w \in PrintBuffer /\ w.buffer = b.buffer /\ w.noalloc = b.noalloc
  /\ w.reach <= b.offset + bytes + 1
  /\ w.offset + w.tail = b.offset + bytes

\* What Open, Closed and Pending write, and where it ends.
LEMMA OpenWrites ==
  ASSUME NEW b \in PrintBuffer, NEW bytes \in Int, NEW text \in Seq(Symbol)
  PROVE  Writes(b, Open(b, bytes, text), bytes)
<1> DEFINE w == Open(b, bytes, text)
<1>a. ASSUME NEW v \in BOOLEAN, NEW end \in Int, NEW t \in Seq(Symbol),
             NEW none \in Seq(Symbol), NEW zero \in Int
      PROVE  [b EXCEPT !.front = t, !.back = none, !.tail = zero, !.nul = v,
                       !.offset = end, !.reach = end] \in PrintBuffer
  BY DEF PrintBuffer
<1>k. /\ FALSE \in BOOLEAN /\ 0 \in Int /\ b.offset + bytes \in Int
       /\ b.front \o text \in Seq(Symbol) /\ << >> \in Seq(Symbol)
  BY DEF PrintBuffer
<1>w. w = [b EXCEPT !.front = b.front \o text, !.back = << >>, !.tail = 0, !.nul = FALSE,
                    !.offset = b.offset + bytes, !.reach = b.offset + bytes]
  BY DEF Open, PrintBuffer
<1>1. w \in PrintBuffer
  <2>1. [b EXCEPT !.front = b.front \o text, !.back = << >>, !.tail = 0, !.nul = FALSE,
                  !.offset = b.offset + bytes, !.reach = b.offset + bytes] \in PrintBuffer
    BY <1>a, <1>k, Zenon
  <2> HIDE DEF w
  <2> QED BY <2>1, <1>w
<1>2. w.buffer = b.buffer /\ w.noalloc = b.noalloc
  BY DEF Open, PrintBuffer
<1>3. w.reach = b.offset + bytes /\ w.offset = b.offset + bytes /\ w.tail = 0 /\ b.offset \in Int
  BY DEF Open, PrintBuffer
<1> HIDE DEF w
<1>4. Writes(b, w, bytes)
  BY <1>1, <1>2, <1>3 DEF Writes
<1> QED BY <1>4 DEF w

\* The same with a NUL.
LEMMA ClosedWrites ==
  ASSUME NEW b \in PrintBuffer, NEW bytes \in Int, NEW text \in Seq(Symbol)
  PROVE  Writes(b, Closed(b, bytes, text), bytes) /\ Closed(b, bytes, text).nul
<1> DEFINE w == Closed(b, bytes, text)
<1>a. ASSUME NEW v \in BOOLEAN, NEW end \in Int, NEW reach \in Int, NEW t \in Seq(Symbol),
             NEW none \in Seq(Symbol), NEW zero \in Int
      PROVE  [b EXCEPT !.front = t, !.back = none, !.tail = zero, !.nul = v,
                       !.offset = end, !.reach = reach] \in PrintBuffer
  BY DEF PrintBuffer
<1>k. /\ TRUE \in BOOLEAN /\ 0 \in Int /\ b.offset + bytes + 1 \in Int /\ b.offset + bytes \in Int
       /\ b.front \o text \in Seq(Symbol) /\ << >> \in Seq(Symbol)
  BY DEF PrintBuffer
<1>w. w = [b EXCEPT !.front = b.front \o text, !.back = << >>, !.tail = 0, !.nul = TRUE,
                    !.offset = b.offset + bytes, !.reach = b.offset + bytes + 1]
  BY DEF Closed, PrintBuffer
<1>1. w \in PrintBuffer
  <2>1. [b EXCEPT !.front = b.front \o text, !.back = << >>, !.tail = 0, !.nul = TRUE,
                  !.offset = b.offset + bytes, !.reach = b.offset + bytes + 1] \in PrintBuffer
    BY <1>a, <1>k, Zenon
  <2> HIDE DEF w
  <2> QED BY <2>1, <1>w
<1>2. w.buffer = b.buffer /\ w.noalloc = b.noalloc /\ w.nul
  BY DEF Closed, PrintBuffer
<1>3. w.reach = b.offset + bytes + 1 /\ w.offset = b.offset + bytes /\ w.tail = 0 /\ b.offset \in Int
  BY DEF Closed, PrintBuffer
<1> HIDE DEF w
<1>4. Writes(b, w, bytes)
  BY <1>1, <1>2, <1>3 DEF Writes
<1> QED BY <1>2, <1>4 DEF w

\* The same with a length that is still to be counted.
LEMMA PendingWrites ==
  ASSUME NEW b \in PrintBuffer, NEW bytes \in Int, NEW text \in Seq(Symbol)
  PROVE  Writes(b, Pending(b, bytes, text), bytes) /\ Pending(b, bytes, text).nul
<1> DEFINE w == Pending(b, bytes, text)
<1>a. ASSUME NEW v \in BOOLEAN, NEW end \in Int
      PROVE  [b EXCEPT !.back = text, !.tail = bytes, !.nul = v, !.reach = end] \in PrintBuffer
  BY DEF PrintBuffer
<1>k. TRUE \in BOOLEAN /\ b.offset + bytes + 1 \in Int
  BY DEF PrintBuffer
<1>1. w \in PrintBuffer
  BY <1>a, <1>k, Zenon DEF Pending
<1>2. w.buffer = b.buffer /\ w.noalloc = b.noalloc /\ w.nul
  BY DEF Pending, PrintBuffer
<1>3. w.reach = b.offset + bytes + 1 /\ w.offset = b.offset /\ w.tail = bytes /\ b.offset \in Int
  BY DEF Pending, PrintBuffer
<1> HIDE DEF w
<1>4. Writes(b, w, bytes)
  BY <1>1, <1>2, <1>3 DEF Writes
<1> QED BY <1>2, <1>4 DEF w

\* Counting the depth writes nothing.
LEMMA DepthWrites ==
  ASSUME NEW b \in PrintBuffer, NEW w, NEW bytes \in Int, Writes(b, w, bytes)
  PROVE  /\ Writes(b, Deeper(w), bytes) /\ Deeper(w).nul = w.nul
         /\ Writes(b, Shallower(w), bytes) /\ Shallower(w).nul = w.nul
<1>a. w \in PrintBuffer
  BY DEF Writes
<1>1. ASSUME NEW d \in Int
      PROVE  /\ Writes(b, [w EXCEPT !.depth = d], bytes)
             /\ [w EXCEPT !.depth = d].nul = w.nul
  <2> DEFINE v == [w EXCEPT !.depth = d]
  <2>1. v \in PrintBuffer
    BY <1>a DEF PrintBuffer
  <2>2. v.buffer = w.buffer /\ v.noalloc = w.noalloc /\ v.nul = w.nul
    BY <1>a DEF PrintBuffer
  <2>3. v.reach = w.reach /\ v.offset = w.offset /\ v.tail = w.tail
    BY <1>a DEF PrintBuffer
  <2> HIDE DEF v
  <2>4. Writes(b, v, bytes)
    BY <2>1, <2>2, <2>3 DEF Writes
  <2> QED BY <2>2, <2>4 DEF v
<1>2. w.depth + 1 \in Int /\ w.depth - 1 \in Int
  BY <1>a DEF PrintBuffer
<1> QED BY <1>1, <1>2, Zenon DEF Deeper, Shallower

\* Counting what was written moves nothing.
LEMMA UpdateKeepsRoom ==
  ASSUME NEW b, Room(b)
  PROVE  /\ Room(update_offset(b))
         /\ update_offset(b).buffer = b.buffer /\ update_offset(b).noalloc = b.noalloc
         /\ update_offset(b).length = b.length /\ update_offset(b).nul = b.nul
         /\ b.buffer => update_offset(b).tail = 0
<1> DEFINE w == [b EXCEPT !.offset = @ + b.tail, !.tail = 0,
                          !.front = @ \o b.back, !.back = << >>]
<1>a. b \in PrintBuffer
  BY DEF Room
<1>k. ASSUME NEW end \in Int, NEW t \in Seq(Symbol), NEW none \in Seq(Symbol),
              NEW zero \in Int
       PROVE  [b EXCEPT !.offset = end, !.tail = zero, !.front = t, !.back = none] \in PrintBuffer
  BY <1>a DEF PrintBuffer
<1>m. /\ 0 \in Int /\ b.offset + b.tail \in Int
       /\ b.front \o b.back \in Seq(Symbol) /\ << >> \in Seq(Symbol)
  BY <1>a DEF PrintBuffer
<1>w. w = [b EXCEPT !.offset = b.offset + b.tail, !.tail = 0,
                     !.front = b.front \o b.back, !.back = << >>]
  BY <1>a DEF PrintBuffer
<1>1. w \in PrintBuffer
  BY <1>k, <1>m, <1>w, Zenon
<1>2. w.buffer = b.buffer /\ w.noalloc = b.noalloc /\ w.nul = b.nul
  BY <1>a DEF PrintBuffer
<1>3. /\ w.reach = b.reach /\ w.offset = b.offset + b.tail /\ w.tail = 0
      /\ w.length = b.length /\ b.offset \in Int /\ b.tail \in Int
  BY <1>a DEF PrintBuffer
<1> HIDE DEF w
<1>4. Room(w)
  BY <1>1, <1>2, <1>3 DEF Room, Empty
<1>5. update_offset(b) = IF b.buffer THEN w ELSE b
  BY DEF update_offset, w
<1> QED BY <1>2, <1>3, <1>4, <1>5

\* The room that was granted holds what is written, whether or not the buffer
\* had to grow; and who owns the block is as before.
LEMMA PutIsSafe ==
  ASSUME NEW STATE b, NEW STATE needed, NEW STATE written, NEW STATE rest,
         IInv, status = "printing", todo # << >>,
         Room(b), b.buffer, b.noalloc = p.noalloc, b.length = p.length,
         needed \in Int,
         written \in PrintBuffer, written.buffer, written.noalloc = b.noalloc,
         written.reach <= b.offset + needed + 1,
         written.offset + written.tail <= b.offset + needed,
         written.reach <= written.offset + written.tail + 1,
         Script(rest),
         Measures(rest \o Tail(todo)) => written.nul,
         Put(b, needed, written, rest)
  PROVE  IInv'
<1>1. PICK memory \in BOOLEAN :
        LET granted == ensure(b, needed, memory)
        IN  /\ p' = IF granted.ok THEN [written EXCEPT !.length = granted.p.length]
                                  ELSE granted.p
            /\ blocks' = blocks - granted.freed
            /\ status' = IF granted.ok THEN "printing" ELSE "failing"
            /\ todo' = IF granted.ok THEN rest \o Tail(todo) ELSE << >>
            /\ UNCHANGED <<call, root>>
  BY DEF Put
<1> DEFINE granted == ensure(b, needed, memory)
<1>2. b \in PrintBuffer /\ b.length >= 0
  BY DEF Room, IInv
<1>3. Gives(b, needed, granted) \/ Denies(b, granted)
  BY <1>2, EnsureGivesRoom
<1>a. blocks \in Int
  BY DEF IInv, Ledger
<1>4. CASE Gives(b, needed, granted)
  <2>1. /\ p' = [written EXCEPT !.length = granted.p.length]
        /\ blocks' = blocks /\ status' = "printing" /\ todo' = rest \o Tail(todo)
        /\ call' = call
    BY <1>a, <1>1, <1>4 DEF Gives
  <2> HIDE DEF granted
  <2>2. /\ p' \in PrintBuffer /\ p'.length = granted.p.length /\ p'.buffer
        /\ p'.noalloc = b.noalloc /\ p'.reach = written.reach
        /\ p'.offset = written.offset /\ p'.tail = written.tail /\ p'.nul = written.nul
    BY <2>1, <1>4 DEF PrintBuffer, Gives
  <2>3. Room(p')
    <3>1. /\ written.reach \in Int /\ written.offset \in Int /\ written.tail \in Int
          /\ b.offset \in Int /\ granted.p.length \in Int
      BY <1>2, <1>4 DEF PrintBuffer, Gives
    <3>2. /\ p'.reach <= p'.length /\ p'.offset + p'.tail < p'.length
          /\ p'.reach <= p'.offset + p'.tail + 1
      BY <2>2, <3>1, <1>4 DEF Gives
    <3> QED BY <2>2, <3>2 DEF Room
  <2>4. Script(todo')
    BY <2>1, ScriptTail, ScriptConcat DEF IInv
  <2>5. p'.length >= 0
    BY <2>2, <1>4 DEF Gives
  <2> QED BY <2>1, <2>2, <2>3, <2>4, <2>5 DEF IInv, Ledger
<1>5. CASE Denies(b, granted)
  <2>1. /\ p' = granted.p /\ status' = "failing" /\ todo' = << >>
        /\ blocks' = blocks - granted.freed /\ call' = call
    BY <1>1, <1>5 DEF Denies
  <2> HIDE DEF granted
  <2>2. Script(<< >>)
    BY DEF Script
  <2>3. CASE granted.freed = 0 /\ granted.p = b
    BY <2>1, <2>2, <2>3, <1>a DEF IInv, Ledger
  <2>4. CASE /\ granted.freed = 1 /\ granted.p.buffer = FALSE /\ ~b.noalloc
             /\ granted.p \in PrintBuffer /\ granted.p.noalloc = b.noalloc
             /\ granted.p.reach = b.reach
             /\ granted.p.offset = b.offset /\ granted.p.tail = b.tail
    <3>1. Room(p')
      BY <2>1, <2>4 DEF Room
    <3> QED BY <2>1, <2>2, <2>4, <3>1 DEF IInv, Ledger
  <2> QED BY <2>3, <2>4, <1>5 DEF Denies
<1> QED BY <1>3, <1>4, <1>5

-----------------------------------------------------------------------------
(* The pieces.                                                             *)

Asks(b) == b = p \/ b = update_offset(p)

\* What PutIsSafe asks of the buffer that asks for room.
LEMMA AsksRoom ==
  ASSUME NEW STATE b, Asks(b), IInv, status = "printing"
  PROVE  Room(b) /\ b.buffer /\ b.noalloc = p.noalloc /\ b.length = p.length
         /\ b \in PrintBuffer
BY UpdateKeepsRoom DEF Asks, IInv, Ledger, Room

\* A piece that has nothing to follow.
LEMMA PieceKeepsInvariant ==
  ASSUME NEW STATE b, NEW STATE needed, NEW STATE w, NEW STATE bytes,
         IInv, status = "printing", todo # << >>, Asks(b),
         needed \in Int, bytes \in Int, bytes <= needed,
         Writes(b, w, bytes), w.nul \/ todo[1].op \in {"indent", "colon"},
         Put(b, needed, w, << >>)
  PROVE  IInv'
<1>1. Room(b) /\ b.buffer /\ b.noalloc = p.noalloc /\ b.length = p.length
      /\ b \in PrintBuffer
  BY AsksRoom
<1>2. /\ w \in PrintBuffer /\ w.buffer /\ w.noalloc = b.noalloc
      /\ w.reach <= b.offset + needed + 1 /\ w.offset + w.tail <= b.offset + needed
      /\ w.reach <= w.offset + w.tail + 1
  <2>1. w \in PrintBuffer /\ w.buffer /\ w.noalloc = b.noalloc
    BY <1>1 DEF Writes
  <2>2. w.reach <= b.offset + bytes + 1 /\ w.offset + w.tail = b.offset + bytes
    BY DEF Writes
  <2>3. w.reach \in Int /\ b.offset \in Int
    BY <1>1, <2>1 DEF PrintBuffer
  <2> QED BY <2>1, <2>2, <2>3
<1>3. Script(<< >>)
  BY DEF Script
<1>4. Measures(<< >> \o Tail(todo)) => w.nul
  <2>1. Script(todo)
    BY DEF IInv
  <2>2. Tail(todo) \in Seq(StepSet)
    BY <2>1, ScriptTail DEF Script
  <2>3. << >> \o Tail(todo) = Tail(todo)
    BY <2>2
  <2> QED BY <2>1, <2>3, ScriptTail
<1> QED BY <1>1, <1>2, <1>3, <1>4, PutIsSafe

\* What a container plans to print: its own end comes last.
Plan(s) ==
  /\ Script(s) /\ Len(s) > 0 /\ s[1].op \notin {"colon", "comma"}
  /\ \A n \in 1 .. Len(s) - 1 : s[n].op # "close"

\* A piece that opens a container, and what is to be printed in it.
LEMMA OpenKeepsInvariant ==
  ASSUME NEW STATE needed, NEW STATE w, NEW STATE bytes, NEW STATE rest,
         IInv, status = "printing", todo # << >>,
         needed \in Int, bytes \in Int, bytes <= needed,
         Writes(p, w, bytes), Plan(rest), Put(p, needed, w, rest)
  PROVE  IInv'
<1> USE DEF Plan
<1>1. Room(p) /\ p.buffer /\ p \in PrintBuffer
  BY AsksRoom DEF Asks
<1>2. /\ w \in PrintBuffer /\ w.buffer /\ w.noalloc = p.noalloc
      /\ w.reach <= p.offset + needed + 1 /\ w.offset + w.tail <= p.offset + needed
      /\ w.reach <= w.offset + w.tail + 1
  <2>1. w \in PrintBuffer /\ w.buffer /\ w.noalloc = p.noalloc
    BY <1>1 DEF Writes
  <2>2. w.reach <= p.offset + bytes + 1 /\ w.offset + w.tail = p.offset + bytes
    BY DEF Writes
  <2>3. w.reach \in Int /\ p.offset \in Int
    BY <1>1, <2>1 DEF PrintBuffer
  <2> QED BY <2>1, <2>2, <2>3
<1>3. ~Measures(rest \o Tail(todo))
  <2>1. Script(todo)
    BY DEF IInv
  <2>2. Tail(todo) \in Seq(StepSet) /\ rest \in Seq(StepSet)
    BY <2>1, ScriptTail DEF Script
  <2> DEFINE t == rest \o Tail(todo)
  <2>3. Len(t) # 0 /\ t[1] = rest[1]
    BY <2>2
  <2> HIDE DEF t
  <2>4. Len(<< >>) = 0
    OBVIOUS
  <2>5. t # << >>
    BY <2>3, <2>4, Zenon
  <2>6. ~Measures(t)
    BY <2>3, <2>5 DEF Measures
  <2> QED BY <2>6 DEF t
<1> QED BY <1>1, <1>2, <1>3, PutIsSafe

\* A step that writes nothing comes before no strlen, or after a NUL.
LEMMA ProceedKeepsInvariant ==
  ASSUME NEW STATE b, IInv, status = "printing", todo # << >>, Asks(b),
         Proceed(b), p.nul \/ todo[1].op \in {"indent", "colon"}
  PROVE  IInv'
<1>1. Room(b) /\ b.buffer /\ b.noalloc = p.noalloc /\ b.length = p.length
  BY AsksRoom
<1>2. b.nul = p.nul
  BY UpdateKeepsRoom DEF Asks, IInv
<1>3. Script(Tail(todo)) /\ (todo[1].op \in {"indent", "colon"} => ~Measures(Tail(todo)))
  BY ScriptTail DEF IInv
<1>4. /\ p' = b /\ todo' = Tail(todo) /\ call' = call /\ status' = status /\ blocks' = blocks
  BY DEF Proceed
<1>5. Room(p') /\ Script(todo') /\ p'.length >= 0
  BY <1>1, <1>3, <1>4 DEF IInv
<1>6. Measures(todo') => p'.nul
  BY <1>2, <1>3, <1>4
<1>7. Ledger'
  BY <1>1, <1>4 DEF IInv, Ledger
<1> QED BY <1>5, <1>6, <1>7, <1>4 DEF IInv

-----------------------------------------------------------------------------
(* The steps of print_value, one lemma for each.                           *)

\* What every step finds.
LEMMA StepFacts ==
  ASSUME IInv, status = "printing", todo # << >>
  PROVE  /\ p \in PrintBuffer /\ update_offset(p) \in PrintBuffer
         /\ update_offset(p).nul = p.nul
         /\ item \in Item /\ todo[1].k \in Int
         /\ size[item] \in Nat /\ kids[item] \in Seq(Item)
         /\ todo[1].op \in {"colon", "comma"} => p.nul
         /\ todo[1].op = "key" => keysize[kids[item][todo[1].k]] \in Nat
<1>1. Room(p) /\ Room(update_offset(p)) /\ update_offset(p).nul = p.nul
  BY UpdateKeepsRoom DEF IInv
<1>2. todo[1] \in StepSet
  BY ScriptTail DEF IInv
<1>3. item \in Item /\ todo[1].k \in Int
  BY <1>2 DEF StepSet, item
<1>4. size[item] \in Nat /\ kids[item] \in Seq(Item)
  BY <1>3, PrinterAssumption
<1>5. ASSUME todo[1].op = "key" PROVE keysize[kids[item][todo[1].k]] \in Nat
  <2>1. todo[1].k \in 1 .. Len(kids[item])
    BY <1>2, <1>5 DEF StepSet, item
  <2>2. kids[item][todo[1].k] \in Item
    BY <1>4, <2>1
  <2> QED BY <2>2, PrinterAssumption
<1> QED BY <1>1, <1>3, <1>4, <1>5 DEF Room, IInv, Measures

\* The pieces of text that depend on the format.
LEMMA Pieces ==
  /\ Comma \in Seq(Symbol) /\ Brace \in Seq(Symbol) /\ Colon \in Seq(Symbol)
  /\ Len(Comma) \in Int /\ Len(Brace) \in Int /\ Len(Colon) \in Int
  /\ (IF p.format THEN <<" ">> ELSE << >>) \in Seq(Symbol)
  /\ (IF AtLast THEN << >> ELSE <<",">>) \in Seq(Symbol)
<1>1. /\ <<",">> \in Seq(Symbol) /\ <<",", " ">> \in Seq(Symbol)
      /\ <<":">> \in Seq(Symbol) /\ <<":", " ">> \in Seq(Symbol)
      /\ <<"{">> \in Seq(Symbol) /\ <<"{", " ">> \in Seq(Symbol)
      /\ <<" ">> \in Seq(Symbol) /\ << >> \in Seq(Symbol)
  BY DEF Symbol
<1>2. Comma \in Seq(Symbol) /\ Brace \in Seq(Symbol) /\ Colon \in Seq(Symbol)
  BY <1>1, Zenon DEF Comma, Brace, Colon
<1>3. /\ (IF p.format THEN <<" ">> ELSE << >>) \in Seq(Symbol)
      /\ (IF AtLast THEN << >> ELSE <<",">>) \in Seq(Symbol)
  BY <1>1, Zenon
<1>4. \A q \in Seq(Symbol) : Len(q) \in Int
  OBVIOUS
<1> QED BY <1>2, <1>3, <1>4, Zenon

\* null, true, false and raw text.
LEMMA LiteralStep == IInv /\ print_literal => IInv'
<1> SUFFICES ASSUME IInv, print_literal PROVE IInv'
  OBVIOUS
<1> DEFINE w == Pending(p, size[item], <<"n">>)
<1>1. status = "printing" /\ todo # << >> /\ Put(p, size[item] + 1, w, << >>)
  BY DEF print_literal, Printing, Doing
<1>2. size[item] \in Int /\ <<"n">> \in Seq(Symbol) /\ p \in PrintBuffer
  BY <1>1, StepFacts DEF Symbol
<1>3. Writes(p, w, size[item]) /\ w.nul
  BY <1>2, PendingWrites
<1> HIDE DEF w
<1> QED BY <1>1, <1>2, <1>3, PieceKeepsInvariant DEF Asks

\* A number.
LEMMA NumberStep == IInv /\ print_number => IInv'
<1> SUFFICES ASSUME IInv, print_number PROVE IInv'
  OBVIOUS
<1> DEFINE w == Closed(p, size[item], <<"n">>)
<1>1. status = "printing" /\ todo # << >> /\ Put(p, size[item] + 1, w, << >>)
  BY DEF print_number, Printing, Doing
<1>2. size[item] \in Int /\ <<"n">> \in Seq(Symbol) /\ p \in PrintBuffer
  BY <1>1, StepFacts DEF Symbol
<1>3. Writes(p, w, size[item]) /\ w.nul
  BY <1>2, ClosedWrites
<1> HIDE DEF w
<1> QED BY <1>1, <1>2, <1>3, PieceKeepsInvariant DEF Asks

\* A string.
LEMMA StringStep == IInv /\ print_string => IInv'
<1> SUFFICES ASSUME IInv, print_string PROVE IInv'
  OBVIOUS
<1> DEFINE w == Pending(p, size[item] + 2, <<"s">>)
<1>1. status = "printing" /\ todo # << >> /\ Put(p, size[item] + 3, w, << >>)
  BY DEF print_string, Printing, Doing
<1>2. size[item] \in Int /\ size[item] + 2 \in Int /\ <<"s">> \in Seq(Symbol) /\ p \in PrintBuffer
  BY <1>1, StepFacts DEF Symbol
<1>3. Writes(p, w, size[item] + 2) /\ w.nul
  BY <1>2, PendingWrites
<1> HIDE DEF w
<1> QED BY <1>1, <1>2, <1>3, PieceKeepsInvariant DEF Asks

\* An item that cannot be printed.
LEMMA InvalidStep == IInv /\ print_invalid => IInv'
<1> SUFFICES ASSUME IInv, print_invalid PROVE IInv'
  OBVIOUS
<1>1. /\ status' = "failing" /\ todo' = << >> /\ p' = p /\ blocks' = blocks /\ call' = call
  BY DEF print_invalid
<1>2. Script(<< >>)
  BY DEF Script
<1> QED BY <1>1, <1>2 DEF IInv, Ledger

\* The name of a member.
LEMMA KeyStep == IInv /\ print_key => IInv'
<1> SUFFICES ASSUME IInv, print_key PROVE IInv'
  OBVIOUS
<1> DEFINE bytes == keysize[kids[item][todo[1].k]]
           w == Pending(p, bytes + 2, <<"s">>)
<1>1. status = "printing" /\ todo # << >> /\ Put(p, bytes + 3, w, << >>)
  BY DEF print_key, Doing
<1>2. bytes \in Int /\ bytes + 2 \in Int /\ <<"s">> \in Seq(Symbol) /\ p \in PrintBuffer
  <2>1. bytes \in Nat
    BY <1>1, StepFacts DEF print_key, Doing
  <2>2. <<"s">> \in Seq(Symbol) /\ p \in PrintBuffer
    BY <1>1, StepFacts DEF Symbol
  <2> HIDE DEF bytes
  <2> QED BY <2>1, <2>2
<1>3. Writes(p, w, bytes + 2) /\ w.nul
  BY <1>2, PendingWrites
<1> HIDE DEF w, bytes
<1> QED BY <1>1, <1>2, <1>3, PieceKeepsInvariant DEF Asks

\* The colon after a name, whose strlen is taken first.
LEMMA ColonStep == IInv /\ print_colon => IInv'
<1> SUFFICES ASSUME IInv, print_colon PROVE IInv'
  OBVIOUS
<1> DEFINE b == update_offset(p)
           n == Len(Colon)
           w == Open(b, n, Colon)
<1>1. status = "printing" /\ todo # << >> /\ todo[1].op = "colon" /\ Put(b, n, w, << >>)
  BY DEF print_colon, Doing
<1>2. n \in Int /\ Colon \in Seq(Symbol) /\ b \in PrintBuffer
  BY <1>1, StepFacts, Pieces
<1> HIDE DEF n
<1>3. Writes(b, w, n)
  BY <1>2, OpenWrites
<1> HIDE DEF w
<1> QED BY <1>1, <1>2, <1>3, PieceKeepsInvariant DEF Asks

\* The tabs in front of a member.
LEMMA IndentStep == IInv /\ Indent => IInv'
<1> SUFFICES ASSUME IInv, Indent PROVE IInv'
  OBVIOUS
<1>1. status = "printing" /\ todo # << >> /\ todo[1].op = "indent"
  BY DEF Indent, Doing
<1>2. CASE ~p.format
  <2>1. Proceed(p)
    BY <1>2 DEF Indent
  <2> QED BY <1>1, <2>1, ProceedKeepsInvariant DEF Asks
<1>3. CASE p.format
  <2> DEFINE w == Open(p, p.depth, <<" ">>)
  <2>1. Put(p, p.depth, w, << >>)
    BY <1>3 DEF Indent
  <2>2. p \in PrintBuffer
    BY <1>1, StepFacts
  <2>3. p.depth \in Int /\ p.depth <= p.depth
    BY <2>2 DEF PrintBuffer
  <2>4. <<" ">> \in Seq(Symbol)
    BY DEF Symbol
  <2>5. Writes(p, w, p.depth)
    BY <2>2, <2>3, <2>4, OpenWrites
  <2> HIDE DEF w
  <2>6. Asks(p)
    BY DEF Asks
  <2> QED BY <1>1, <2>1, <2>3, <2>5, <2>6, PieceKeepsInvariant
<1> QED BY <1>2, <1>3

\* The comma after an element, or nothing.
LEMMA ElementEndStep == IInv /\ ElementEnd => IInv'
<1> SUFFICES ASSUME IInv, ElementEnd PROVE IInv'
  OBVIOUS
<1> DEFINE b == update_offset(p)
           n == Len(Comma)
           w == Closed(b, n, Comma)
<1>1. status = "printing" /\ todo # << >> /\ todo[1].op = "comma" /\ p.nul
  BY StepFacts DEF ElementEnd, Doing
<1>2. CASE AtLast
  <2>1. Proceed(b)
    BY <1>2 DEF ElementEnd
  <2> QED BY <1>1, <2>1, ProceedKeepsInvariant DEF Asks
<1>3. CASE ~AtLast
  <2>1. Put(b, n + 1, w, << >>)
    BY <1>3 DEF ElementEnd
  <2>2. n \in Int /\ Comma \in Seq(Symbol) /\ b \in PrintBuffer
    BY <1>1, StepFacts, Pieces
  <2> HIDE DEF n
  <2>3. Writes(b, w, n) /\ w.nul
    BY <2>2, ClosedWrites
  <2> HIDE DEF w
  <2> QED BY <1>1, <2>1, <2>2, <2>3, PieceKeepsInvariant DEF Asks
<1> QED BY <1>2, <1>3

\* What follows the value of a member.
LEMMA MemberEndStep == IInv /\ MemberEnd => IInv'
<1> SUFFICES ASSUME IInv, MemberEnd PROVE IInv'
  OBVIOUS
<1> DEFINE b == update_offset(p)
           end == (IF AtLast THEN << >> ELSE <<",">>) \o (IF p.format THEN <<" ">> ELSE << >>)
           n == Len(end)
           w == Closed(b, n, end)
<1>1. status = "printing" /\ todo # << >> /\ Put(b, n + 1, w, << >>)
  BY DEF MemberEnd, Doing
<1>2. n \in Int /\ end \in Seq(Symbol) /\ b \in PrintBuffer
  <2>1. (IF AtLast THEN << >> ELSE <<",">>) \in Seq(Symbol)
    BY Pieces
  <2>2. (IF p.format THEN <<" ">> ELSE << >>) \in Seq(Symbol)
    BY Pieces
  <2>3. \A x, y \in Seq(Symbol) : x \o y \in Seq(Symbol)
    OBVIOUS
  <2>4. end \in Seq(Symbol)
    BY <2>1, <2>2, <2>3, Zenon
  <2> HIDE DEF end
  <2> QED BY <1>1, <2>4, StepFacts
<1> HIDE DEF n, end
<1>3. Writes(b, w, n) /\ w.nul
  BY <1>2, ClosedWrites
<1> HIDE DEF w
<1> QED BY <1>1, <1>2, <1>3, PieceKeepsInvariant DEF Asks

\* The end of an array.
LEMMA CloseArrayStep == IInv /\ CloseArray => IInv'
<1> SUFFICES ASSUME IInv, CloseArray PROVE IInv'
  OBVIOUS
<1> DEFINE v == Pending(p, 1, <<"]">>)
           w == Shallower(v)
<1>1. status = "printing" /\ todo # << >> /\ Put(p, 2, w, << >>)
  BY DEF CloseArray, Doing
<1>2. <<"]">> \in Seq(Symbol) /\ p \in PrintBuffer /\ 1 \in Int
  BY <1>1, StepFacts DEF Symbol
<1>3. Writes(p, v, 1) /\ v.nul
  BY <1>2, PendingWrites
<1> HIDE DEF v
<1>4. Writes(p, w, 1) /\ w.nul
  BY <1>2, <1>3, DepthWrites
<1> HIDE DEF w
<1> QED BY <1>1, <1>2, <1>4, PieceKeepsInvariant DEF Asks

\* The end of an object.
LEMMA CloseObjectStep == IInv /\ CloseObject => IInv'
<1> SUFFICES ASSUME IInv, CloseObject PROVE IInv'
  OBVIOUS
<1>1. status = "printing" /\ todo # << >>
  BY DEF CloseObject, Doing
<1>2. ASSUME NEW STATE n, NEW STATE text, n \in Int, text \in Seq(Symbol),
             Put(p, n + 1, Shallower(Pending(p, n, text)), << >>)
      PROVE  IInv'
  <2> DEFINE v == Pending(p, n, text)
             w == Shallower(v)
  <2>1. p \in PrintBuffer
    BY <1>1, StepFacts
  <2>2. Writes(p, v, n) /\ v.nul
    BY <1>2, <2>1, PendingWrites
  <2> HIDE DEF v
  <2>3. Writes(p, w, n) /\ w.nul
    BY <1>2, <2>1, <2>2, DepthWrites
  <2>4. Put(p, n + 1, w, << >>)
    BY <1>2 DEF v
  <2> HIDE DEF w
  <2> QED BY <1>1, <1>2, <2>1, <2>3, <2>4, PieceKeepsInvariant DEF Asks
<1>3. CASE p.format
  <2>1. Put(p, p.depth + 1, Shallower(Pending(p, p.depth, <<" ", "}">>)), << >>)
    BY <1>3 DEF CloseObject
  <2>2. p.depth \in Int
    BY <1>1, StepFacts DEF PrintBuffer
  <2>3. <<" ", "}">> \in Seq(Symbol)
    BY DEF Symbol
  <2> QED BY <1>2, <2>1, <2>2, <2>3
<1>4. CASE ~p.format
  <2>1. 2 = 1 + 1
    OBVIOUS
  <2>2. Put(p, 2, Shallower(Pending(p, 1, <<"}">>)), << >>)
    BY <1>4 DEF CloseObject
  <2>3. Put(p, 1 + 1, Shallower(Pending(p, 1, <<"}">>)), << >>)
    BY <2>1, <2>2, Zenon
  <2>4. <<"}">> \in Seq(Symbol) /\ 1 \in Int
    BY DEF Symbol
  <2> QED BY <1>2, <2>3, <2>4
<1> QED BY <1>3, <1>4

\* What print_array plans.
ElementSteps ==
  [n \in 1 .. 2 * Len(kids[item]) + 1 |->
     IF n > 2 * Len(kids[item]) THEN Step("close", item, 0)
     ELSE IF n % 2 = 1 THEN Step("value", kids[item][(n + 1) \div 2], 0)
     ELSE Step("comma", item, n \div 2)]

\* No strlen is taken in an array without a NUL.
LEMMA ElementPlan ==
  ASSUME item \in Item
  PROVE  Plan(ElementSteps)
<1> DEFINE m == Len(kids[item])
           at(n) == IF n > 2 * m THEN Step("close", item, 0)
                    ELSE IF n % 2 = 1 THEN Step("value", kids[item][(n + 1) \div 2], 0)
                    ELSE Step("comma", item, n \div 2)
           rest == [n \in 1 .. 2 * m + 1 |-> at(n)]
<1>1. item \in Item /\ kids[item] \in Seq(Item) /\ m \in Nat
  BY PrinterAssumption
<1>2. ASSUME NEW n \in 1 .. 2 * m + 1
      PROVE  /\ at(n) \in StepSet /\ at(n).op \notin {"indent", "colon"}
             /\ n = 1 => at(n).op \notin {"colon", "comma"}
             /\ n <= 2 * m => at(n).op # "close"
  <2>1. CASE n > 2 * m
    BY <2>1, <1>1 DEF Step, StepSet
  <2>2. CASE n <= 2 * m /\ n % 2 = 1
    <3>1. (n + 1) \div 2 \in 1 .. m
      BY <2>2, <1>1
    <3>2. kids[item][(n + 1) \div 2] \in Item
      BY <3>1, <1>1
    <3>3. at(n) = Step("value", kids[item][(n + 1) \div 2], 0)
      BY <2>2, <1>1
    <3> QED BY <3>2, <3>3 DEF Step, StepSet
  <2>3. CASE n <= 2 * m /\ n % 2 # 1
    <3>1. n \div 2 \in Int /\ n # 1
      BY <2>3, <1>1
    <3>2. at(n) = Step("comma", item, n \div 2)
      BY <2>3, <1>1
    <3> QED BY <3>1, <3>2, <1>1 DEF Step, StepSet
  <2> QED BY <2>1, <2>2, <2>3, <1>1
<1> HIDE DEF at
<1>3. /\ rest \in Seq(StepSet) /\ Len(rest) = 2 * m + 1
      /\ \A n \in 1 .. Len(rest) : rest[n] = at(n)
  BY <1>1, <1>2
<1> HIDE DEF rest
<1>4. Script(rest)
  BY <1>1, <1>2, <1>3 DEF Script
<1>5. Len(rest) > 0 /\ rest[1].op \notin {"colon", "comma"}
  BY <1>1, <1>2, <1>3
<1>6. \A n \in 1 .. Len(rest) - 1 : rest[n].op # "close"
  BY <1>1, <1>2, <1>3
<1>7. Plan(rest)
  BY <1>4, <1>5, <1>6 DEF Plan
<1> QED BY <1>7 DEF ElementSteps, rest, at

\* The start of an array.
LEMMA OpenArrayStep == IInv /\ OpenArray => IInv'
<1> SUFFICES ASSUME IInv, OpenArray PROVE IInv'
  OBVIOUS
<1> DEFINE v == Open(p, 1, <<"[">>)
           w == Deeper(v)
<1>1. status = "printing" /\ todo # << >> /\ Put(p, 1, w, ElementSteps)
  BY DEF OpenArray, Printing, Doing, ElementSteps
<1>2. <<"[">> \in Seq(Symbol) /\ p \in PrintBuffer /\ 1 \in Int /\ 1 <= 1 /\ item \in Item
  BY <1>1, StepFacts DEF Symbol
<1>3. Writes(p, v, 1)
  BY <1>2, OpenWrites
<1> HIDE DEF v
<1>4. Writes(p, w, 1)
  BY <1>2, <1>3, DepthWrites
<1> HIDE DEF w
<1> QED BY <1>1, <1>2, <1>4, ElementPlan, OpenKeepsInvariant

\* What print_object plans.
MemberSteps ==
  [n \in 1 .. 5 * Len(kids[item]) + 1 |->
     LET k == (n + 4) \div 5
     IN  IF k > Len(kids[item]) THEN Step("close", item, 0)
         ELSE CASE n % 5 = 1 -> Step("indent", item, k)
                [] n % 5 = 2 -> Step("key", item, k)
                [] n % 5 = 3 -> Step("colon", item, k)
                [] n % 5 = 4 -> Step("value", kids[item][k], 0)
                [] n % 5 = 0 -> Step("comma", item, k)]

\* After a name comes a colon, after a colon a value.
LEMMA MemberPlan ==
  ASSUME item \in Item
  PROVE  Plan(MemberSteps)
<1> DEFINE m == Len(kids[item])
           at(n) == LET k == (n + 4) \div 5
                    IN  IF k > m THEN Step("close", item, 0)
                        ELSE CASE n % 5 = 1 -> Step("indent", item, k)
                               [] n % 5 = 2 -> Step("key", item, k)
                               [] n % 5 = 3 -> Step("colon", item, k)
                               [] n % 5 = 4 -> Step("value", kids[item][k], 0)
                               [] n % 5 = 0 -> Step("comma", item, k)
           rest == [n \in 1 .. 5 * m + 1 |-> at(n)]
<1>1. item \in Item /\ kids[item] \in Seq(Item) /\ m \in Nat
  BY PrinterAssumption
<1> DEFINE op(n) == IF n = 5 * m + 1 THEN "close"
                    ELSE IF n % 5 = 1 THEN "indent" ELSE IF n % 5 = 2 THEN "key"
                    ELSE IF n % 5 = 3 THEN "colon" ELSE IF n % 5 = 4 THEN "value"
                    ELSE "comma"
<1>2. ASSUME NEW n \in 1 .. 5 * m + 1
      PROVE  at(n) \in StepSet /\ at(n).op = op(n)
  <2> DEFINE k == (n + 4) \div 5
  <2>1. CASE n = 5 * m + 1
    <3>1. k > m
      <4>1. n + 4 = 5 * (m + 1)
        BY <2>1, <1>1
      <4> QED BY <4>1, <1>1
    <3>2. at(n) = Step("close", item, 0)
      BY <3>1
    <3> HIDE DEF at
    <3>3. at(n) \in StepSet /\ at(n).op = "close"
      BY <3>2, <1>1 DEF Step, StepSet
    <3>4. op(n) = "close"
      BY <2>1
    <3> QED BY <3>3, <3>4
  <2>2. CASE n <= 5 * m
    <3>1. k \in 1 .. m /\ ~(k > m) /\ n # 5 * m + 1
      BY <2>2, <1>1
    <3>2. kids[item][k] \in Item
      BY <3>1, <1>1
    <3>3. n % 5 \in {0, 1, 2, 3, 4}
      BY <1>1
    <3> HIDE DEF k
    <3>4. CASE n % 5 = 1
      <4>1. at(n) = Step("indent", item, k)
        BY <3>1, <3>4 DEF k
      <4> QED BY <4>1, <3>1, <3>4, <1>1 DEF Step, StepSet
    <3>5. CASE n % 5 = 2
      <4>1. at(n) = Step("key", item, k)
        BY <3>1, <3>5 DEF k
      <4> QED BY <4>1, <3>1, <3>5, <1>1 DEF Step, StepSet
    <3>6. CASE n % 5 = 3
      <4>1. at(n) = Step("colon", item, k)
        BY <3>1, <3>6 DEF k
      <4> QED BY <4>1, <3>1, <3>6, <1>1 DEF Step, StepSet
    <3>7. CASE n % 5 = 4
      <4>1. at(n) = Step("value", kids[item][k], 0)
        BY <3>1, <3>7 DEF k
      <4> QED BY <4>1, <3>1, <3>2, <3>7, <1>1 DEF Step, StepSet
    <3>8. CASE n % 5 = 0
      <4>1. at(n) = Step("comma", item, k)
        BY <3>1, <3>8 DEF k
      <4> QED BY <4>1, <3>1, <3>8, <1>1 DEF Step, StepSet
    <3> QED BY <3>3, <3>4, <3>5, <3>6, <3>7, <3>8
  <2> QED BY <2>1, <2>2, <1>1
<1> HIDE DEF at
<1>3. /\ rest \in Seq(StepSet) /\ Len(rest) = 5 * m + 1
      /\ \A n \in 1 .. Len(rest) : rest[n] = at(n)
  BY <1>1, <1>2
<1> HIDE DEF rest
<1>4. ASSUME NEW n \in 1 .. Len(rest), rest[n].op \in {"indent", "colon"}
      PROVE  n < Len(rest) /\ rest[n + 1].op \notin {"colon", "comma"}
  <2>1. op(n) \in {"indent", "colon"} /\ n \in 1 .. 5 * m + 1
    BY <1>2, <1>3, <1>4
  <2>2. n <= 5 * m /\ (n % 5 = 1 \/ n % 5 = 3)
    BY <2>1, <1>1
  <2>3. n + 1 \in 1 .. 5 * m + 1 /\ ((n + 1) % 5 = 2 \/ (n + 1) % 5 = 4)
    BY <2>2, <1>1
  <2>4. op(n + 1) \notin {"colon", "comma"}
    BY <2>3
  <2> QED BY <2>2, <2>3, <2>4, <1>2, <1>3, <1>1
<1>5. Script(rest)
  BY <1>3, <1>4 DEF Script
<1>6. Len(rest) > 0 /\ rest[1].op \notin {"colon", "comma"}
  BY <1>1, <1>2, <1>3
<1>7. \A n \in 1 .. Len(rest) - 1 : rest[n].op # "close"
  BY <1>1, <1>2, <1>3
<1>8. Plan(rest)
  BY <1>5, <1>6, <1>7 DEF Plan
<1> QED BY <1>8 DEF MemberSteps, rest, at

\* The start of an object.
LEMMA OpenObjectStep == IInv /\ OpenObject => IInv'
<1> SUFFICES ASSUME IInv, OpenObject PROVE IInv'
  OBVIOUS
<1> DEFINE bytes == Len(Brace)
           v == Open(p, bytes, Brace)
           w == Deeper(v)
<1>1. status = "printing" /\ todo # << >> /\ Put(p, bytes + 1, w, MemberSteps)
  BY DEF OpenObject, Printing, Doing, MemberSteps
<1>2. Brace \in Seq(Symbol) /\ bytes \in Int
  BY Pieces
<1>3. p \in PrintBuffer /\ item \in Item
  BY <1>1, StepFacts
<1> HIDE DEF bytes
<1>4. Writes(p, v, bytes)
  BY <1>2, <1>3, OpenWrites
<1> HIDE DEF v
<1>5. Writes(p, w, bytes)
  BY <1>2, <1>3, <1>4, DepthWrites
<1> HIDE DEF w
<1>6. bytes + 1 \in Int /\ bytes <= bytes + 1
  BY <1>2
<1> QED BY <1>1, <1>2, <1>3, <1>5, <1>6, MemberPlan, OpenKeepsInvariant

-----------------------------------------------------------------------------
(* The whole call.                                                         *)

\* The buffer a call starts with.
LEMMA InitIInv == Init => IInv
<1> SUFFICES ASSUME Init PROVE IInv
  OBVIOUS
<1>1. todo = <<Step("value", root, 0)>> /\ root \in Item /\ status = "printing"
  BY DEF Init
<1>2. Script(todo) /\ ~Measures(todo)
  BY <1>1 DEF Script, Step, StepSet, Measures
<1>3. PICK length \in 0 .. IntMax, noalloc \in BOOLEAN, format \in BOOLEAN :
        /\ p = Buffer(length, noalloc, format)
        /\ noalloc <=> call = "PrintPreallocated"
        /\ blocks = IF noalloc THEN 0 ELSE 1
  <2>1. DefaultSize \in 0 .. IntMax /\ DefaultSize > 0 /\ Length \subseteq 0 .. IntMax
    BY PrinterAssumption
  <2>2. PICK format \in BOOLEAN :
          \/ call = "Print" /\ blocks = 1 /\ p = Buffer(DefaultSize, FALSE, format)
          \/ /\ call = "PrintBuffered" /\ blocks = 1
             /\ \E n \in Length : p = Buffer(n, FALSE, format)
          \/ /\ call = "PrintPreallocated" /\ blocks = 0
             /\ \E n \in Length : p = Buffer(n, TRUE, format)
    BY DEF Init
  <2>3. CASE call = "Print" /\ blocks = 1 /\ p = Buffer(DefaultSize, FALSE, format)
    BY <2>1, <2>3
  <2>4. CASE /\ call = "PrintBuffered" /\ blocks = 1
             /\ \E n \in Length : p = Buffer(n, FALSE, format)
    <3>1. PICK n \in Length : p = Buffer(n, FALSE, format)
      BY <2>4
    <3> QED BY <2>4, <3>1, <2>1
  <2>5. CASE /\ call = "PrintPreallocated" /\ blocks = 0
             /\ \E n \in Length : p = Buffer(n, TRUE, format)
    <3>1. PICK n \in Length : p = Buffer(n, TRUE, format)
      BY <2>5
    <3> QED BY <2>5, <3>1, <2>1
  <2> QED BY <2>2, <2>3, <2>4, <2>5
<1>4. /\ p.buffer /\ p.length = length /\ p.offset = 0 /\ p.tail = 0 /\ p.reach = 0
      /\ p.noalloc = noalloc
  BY <1>3 DEF Buffer
<1>5. p \in PrintBuffer
  BY <1>3 DEF Buffer, PrintBuffer
<1> QED BY <1>1, <1>2, <1>3, <1>4, <1>5 DEF IInv, Room, Empty, Ledger

\* The return of a call that succeeds; print() trims the block to the text.
LEMMA FinishStep == IInv /\ Finish => IInv'
<1> SUFFICES ASSUME IInv, Finish PROVE IInv'
  OBVIOUS
<1> DEFINE b == update_offset(p)
           exact == [b EXCEPT !.length = b.offset + 1]
<1>1. status = "printing" /\ todo = << >> /\ p.buffer /\ p.nul
  BY DEF Finish, IInv, Ledger, Measures
<1>2. /\ Room(b) /\ b.buffer /\ b.noalloc = p.noalloc /\ b.nul /\ b.tail = 0
      /\ b \in PrintBuffer
  BY <1>1, UpdateKeepsRoom DEF IInv, Room
<1>3. CASE call # "Print"
  BY <1>1, <1>3 DEF Finish, IInv, Ledger
<1>4. CASE call = "Print" /\ status' = "done" /\ p' = exact /\ blocks' = blocks
  <2>1. /\ exact \in PrintBuffer /\ exact.buffer = b.buffer /\ exact.noalloc = b.noalloc
        /\ exact.length = b.offset + 1 /\ exact.offset = b.offset /\ exact.tail = b.tail
        /\ exact.reach = b.reach /\ b.offset \in Int /\ b.reach \in Int
    <3> HIDE DEF b
    <3>1. b.offset + 1 \in Int /\ b.offset \in Int /\ b.reach \in Int
      BY <1>2 DEF PrintBuffer
    <3>2. ASSUME NEW c \in PrintBuffer, NEW n \in Int
          PROVE  LET d == [c EXCEPT !.length = n]
                 IN  /\ d \in PrintBuffer /\ d.buffer = c.buffer /\ d.noalloc = c.noalloc
                     /\ d.length = n /\ d.offset = c.offset /\ d.tail = c.tail
                     /\ d.reach = c.reach
      BY DEF PrintBuffer
    <3> QED BY <1>2, <3>1, <3>2, Zenon
  <2> HIDE DEF exact, b
  <2>2. Room(exact)
    BY <1>2, <2>1 DEF Room
  <2>3. todo' = todo /\ call' = call
    BY DEF Finish
  <2> QED BY <1>1, <1>2, <1>4, <2>1, <2>2, <2>3 DEF IInv, Ledger
<1>5. CASE call = "Print" /\ status' = "failing" /\ p' = b /\ blocks' = blocks
  BY <1>1, <1>2, <1>5 DEF Finish, IInv, Ledger
<1> QED BY <1>3, <1>4, <1>5 DEF Finish

\* The return of a call that fails.
LEMMA FailStep == IInv /\ Fail => IInv'
<1> SUFFICES ASSUME IInv, Fail PROVE IInv'
  OBVIOUS
<1>1. status = "failing" /\ status' = "failed" /\ todo' = todo /\ call' = call
  BY DEF Fail
<1>2. CASE call = "PrintPreallocated"
  <2>1. p' = p /\ blocks' = blocks
    BY <1>2 DEF Fail
  <2> QED BY <1>1, <1>2, <2>1 DEF IInv, Ledger
<1>3. CASE call # "PrintPreallocated"
  <2>1. /\ p' = [p EXCEPT !.buffer = FALSE]
        /\ blocks' = IF p.buffer THEN blocks - 1 ELSE blocks
    BY <1>3 DEF Fail
  <2>2. p \in PrintBuffer
    BY DEF IInv, Room
  <2>3. ASSUME NEW c \in PrintBuffer, NEW v \in BOOLEAN
        PROVE  LET d == [c EXCEPT !.buffer = v]
               IN  /\ d \in PrintBuffer /\ d.buffer = v /\ d.noalloc = c.noalloc
                   /\ d.length = c.length /\ d.offset = c.offset /\ d.tail = c.tail
                   /\ d.reach = c.reach
    BY DEF PrintBuffer
  <2>4. FALSE \in BOOLEAN
    OBVIOUS
  <2>5. /\ p' \in PrintBuffer /\ p'.buffer = FALSE /\ p'.noalloc = p.noalloc
        /\ p'.offset = p.offset /\ p'.tail = p.tail /\ p'.reach = p.reach
    BY <2>1, <2>2, <2>3, <2>4, Zenon
  <2>6. Room(p')
    BY <2>5 DEF Room, IInv
  <2>7. blocks' = 0
    BY <1>3, <2>1 DEF IInv, Ledger
  <2> QED BY <1>1, <1>3, <2>5, <2>6, <2>7 DEF IInv, Ledger
<1> QED BY <1>2, <1>3

\* Every step keeps the invariant.
LEMMA NextIInv == IInv /\ [Next]_vars => IInv'
<1> SUFFICES ASSUME IInv, [Next]_vars PROVE IInv'
  OBVIOUS
<1>1. CASE UNCHANGED vars
  BY <1>1 DEF vars, IInv, Ledger
<1>2. CASE PrintPiece
  BY <1>2, LiteralStep, NumberStep, StringStep, InvalidStep, OpenArrayStep,
     ElementEndStep, CloseArrayStep, OpenObjectStep, IndentStep, KeyStep, ColonStep,
     MemberEndStep, CloseObjectStep
  DEF PrintPiece
<1>3. CASE Finish
  BY <1>3, FinishStep
<1>4. CASE Fail
  BY <1>4, FailStep
<1> QED BY <1>1, <1>2, <1>3, <1>4 DEF Next

\* The invariant holds throughout a call.
LEMMA Invariance == Spec => []IInv
BY InitIInv, NextIInv, PTL DEF Spec

-----------------------------------------------------------------------------
\* For every tree and every size, whatever the allocator refuses: a call that
\* fails keeps no block, one that succeeds leaves exactly the block it returns.
THEOREM BlocksAreReturned == Spec => []BlocksReturned
<1>1. IInv => BlocksReturned
  BY DEF IInv, BlocksReturned, Ledger
<1> QED BY <1>1, Invariance, PTL

-----------------------------------------------------------------------------
(* The types.  That depth never becomes negative is a matter of the ends    *)
(* of containers that are still to be printed.                             *)

\* Of the ends of containers in s there are no more than d: open[n] is at least
\* their number from n on.
Nests(s, d) ==
  \E open \in [1 .. Len(s) + 1 -> Nat] :
    /\ open[1] <= d
    /\ \A n \in 1 .. Len(s) :
         open[n] >= open[n + 1] + (IF s[n].op = "close" THEN 1 ELSE 0)

\* The offsets and the depth are no negative numbers, and the length is an int.
Natural(b) ==
  /\ b \in PrintBuffer /\ b.length \in 0 .. IntMax
  /\ b.offset \in Nat /\ b.tail \in Nat /\ b.reach \in Nat /\ b.depth \in Nat

\* With IInv, the inductive invariant for the types.
Types ==
  /\ call \in {"Print", "PrintBuffered", "PrintPreallocated"} /\ root \in Item
  /\ Natural(p) /\ starved \in BOOLEAN
  /\ status = "printing" => Nests(todo, p.depth)
  /\ status # "printing" => todo = << >>

\* Nothing nests in nothing; what is left after a step has one end less if the
\* step was one.
LEMMA NestsTail ==
  ASSUME NEW s \in Seq(StepSet), s # << >>, NEW d \in Nat, Nests(s, d)
  PROVE  /\ s[1].op # "close" => Nests(Tail(s), d)
         /\ s[1].op = "close" => d - 1 \in Nat /\ Nests(Tail(s), d - 1)
<1>1. PICK open \in [1 .. Len(s) + 1 -> Nat] :
        /\ open[1] <= d
        /\ \A n \in 1 .. Len(s) :
             open[n] >= open[n + 1] + (IF s[n].op = "close" THEN 1 ELSE 0)
  BY DEF Nests
<1>2. /\ Len(s) \in Nat /\ Len(s) > 0 /\ Tail(s) \in Seq(StepSet) /\ Len(Tail(s)) = Len(s) - 1
      /\ \A n \in 1 .. Len(Tail(s)) : Tail(s)[n] = s[n + 1]
  OBVIOUS
<1> DEFINE left == [n \in 1 .. Len(Tail(s)) + 1 |-> open[n + 1]]
<1>3. /\ left \in [1 .. Len(Tail(s)) + 1 -> Nat] /\ left[1] = open[2]
      /\ \A n \in 1 .. Len(Tail(s)) : left[n] = open[n + 1] /\ left[n + 1] = open[n + 1 + 1]
  BY <1>1, <1>2
<1> HIDE DEF left
<1>4. \A n \in 1 .. Len(Tail(s)) :
        left[n] >= left[n + 1] + (IF Tail(s)[n].op = "close" THEN 1 ELSE 0)
  <2> SUFFICES ASSUME NEW n \in 1 .. Len(Tail(s))
               PROVE  left[n] >= left[n + 1] + (IF Tail(s)[n].op = "close" THEN 1 ELSE 0)
    OBVIOUS
  <2>1. n + 1 \in 1 .. Len(s)
    BY <1>2
  <2>2. open[n + 1] >= open[n + 1 + 1] + (IF s[n + 1].op = "close" THEN 1 ELSE 0)
    BY <1>1, <2>1
  <2> QED BY <1>2, <1>3, <2>2
<1>5. /\ open[1] \in Nat /\ open[2] \in Nat
      /\ open[1] >= open[2] + (IF s[1].op = "close" THEN 1 ELSE 0)
  <2>1. 1 \in 1 .. Len(s) /\ 1 + 1 = 2 /\ 1 \in 1 .. Len(s) + 1 /\ 2 \in 1 .. Len(s) + 1
    BY <1>2
  <2> QED BY <1>1, <2>1
<1>6. ASSUME NEW e \in Nat, left[1] <= e PROVE Nests(Tail(s), e)
  BY <1>3, <1>4, <1>6 DEF Nests
<1>7. ASSUME s[1].op # "close" PROVE Nests(Tail(s), d)
  BY <1>1, <1>3, <1>5, <1>6, <1>7
<1>8. ASSUME s[1].op = "close" PROVE d - 1 \in Nat /\ Nests(Tail(s), d - 1)
  <2>1. d - 1 \in Nat /\ left[1] <= d - 1
    BY <1>1, <1>3, <1>5, <1>8
  <2> QED BY <1>6, <2>1
<1> QED BY <1>7, <1>8

\* A plan in front has one end more.
LEMMA NestsPlan ==
  ASSUME NEW r \in Seq(StepSet), NEW s \in Seq(StepSet), NEW d \in Nat,
         Nests(s, d), Plan(r)
  PROVE  Nests(r \o s, d + 1)
<1>1. PICK open \in [1 .. Len(s) + 1 -> Nat] :
        /\ open[1] <= d
        /\ \A n \in 1 .. Len(s) :
             open[n] >= open[n + 1] + (IF s[n].op = "close" THEN 1 ELSE 0)
  BY DEF Nests
<1> DEFINE t == r \o s
<1>2. /\ Len(r) \in Nat /\ Len(s) \in Nat /\ Len(r) > 0 /\ Len(t) = Len(r) + Len(s)
      /\ \A n \in 1 .. Len(r) : t[n] = r[n]
      /\ \A n \in Len(r) + 1 .. Len(t) : t[n] = s[n - Len(r)]
  BY DEF Plan
<1>3. \A n \in 1 .. Len(r) - 1 : r[n].op # "close"
  BY DEF Plan
<1> HIDE DEF t
<1> DEFINE more == [n \in 1 .. Len(t) + 1 |->
                      IF n <= Len(r) THEN d + 1 ELSE open[n - Len(r)]]
<1>4. ASSUME NEW n \in 1 .. Len(t) + 1
      PROVE  /\ more[n] \in Nat
             /\ n <= Len(r) => more[n] = d + 1
             /\ n > Len(r) => more[n] = open[n - Len(r)] /\ n - Len(r) \in 1 .. Len(s) + 1
  <2>1. n > Len(r) => n - Len(r) \in 1 .. Len(s) + 1
    BY <1>2
  <2>2. more[n] = IF n <= Len(r) THEN d + 1 ELSE open[n - Len(r)]
    OBVIOUS
  <2> HIDE DEF more
  <2>3. n > Len(r) => open[n - Len(r)] \in Nat
    BY <1>1, <2>1
  <2> QED BY <1>2, <2>1, <2>2, <2>3
<1>5. more \in [1 .. Len(t) + 1 -> Nat]
  BY <1>4
<1> HIDE DEF more
<1>6. \A n \in 1 .. Len(t) :
        more[n] >= more[n + 1] + (IF t[n].op = "close" THEN 1 ELSE 0)
  <2> SUFFICES ASSUME NEW n \in 1 .. Len(t)
               PROVE  more[n] >= more[n + 1] + (IF t[n].op = "close" THEN 1 ELSE 0)
    OBVIOUS
  <2>1. n \in 1 .. Len(t) + 1 /\ n + 1 \in 1 .. Len(t) + 1
    BY <1>2
  <2>2. CASE n < Len(r)
    <3>1. more[n] = d + 1 /\ more[n + 1] = d + 1
      BY <1>2, <1>4, <2>1, <2>2
    <3>2. n \in 1 .. Len(r) /\ n \in 1 .. Len(r) - 1
      BY <1>2, <2>2
    <3>3. t[n].op # "close"
      BY <1>2, <1>3, <3>2, Zenon
    <3> QED BY <3>1, <3>3
  <2>3. CASE n = Len(r)
    <3>a. n <= Len(r) /\ n + 1 > Len(r) /\ n + 1 - Len(r) = 1
      BY <1>2, <2>3
    <3>1. more[n] = d + 1 /\ more[n + 1] = open[1]
      BY <1>4, <2>1, <3>a
    <3>2. more[n + 1] <= d /\ more[n + 1] \in Nat
      BY <1>1, <1>4, <2>1, <3>1
    <3>3. ASSUME NEW m \in Nat, m <= d
          PROVE  d + 1 >= m + (IF t[n].op = "close" THEN 1 ELSE 0)
      BY <3>3
    <3> QED BY <3>1, <3>2, <3>3
  <2>4. CASE n > Len(r)
    <3>1. /\ more[n] = open[n - Len(r)] /\ more[n + 1] = open[n + 1 - Len(r)]
          /\ n - Len(r) \in 1 .. Len(s) /\ n + 1 - Len(r) = n - Len(r) + 1
          /\ t[n] = s[n - Len(r)]
      BY <1>2, <1>4, <2>1, <2>4
    <3>2. open[n - Len(r)] >= open[n - Len(r) + 1]
                                + (IF s[n - Len(r)].op = "close" THEN 1 ELSE 0)
      BY <1>1, <3>1
    <3> QED BY <3>1, <3>2
  <2> QED BY <1>2, <2>2, <2>3, <2>4
<1>7. more[1] <= d + 1
  BY <1>2, <1>4
<1>8. Nests(t, d + 1)
  BY <1>5, <1>6, <1>7, Zenon DEF Nests
<1> QED BY <1>8 DEF t

\* Growing and trimming set the length.
LEMMA LengthNatural ==
  ASSUME NEW b, Natural(b), NEW n \in 0 .. IntMax
  PROVE  Natural([b EXCEPT !.length = n]) /\ [b EXCEPT !.length = n].depth = b.depth
<1> DEFINE v == [b EXCEPT !.length = n]
<1>a. b \in PrintBuffer /\ n \in Int
  BY PrinterAssumption DEF Natural
<1>b. ASSUME NEW m \in Int PROVE [b EXCEPT !.length = m] \in PrintBuffer
  BY <1>a DEF PrintBuffer
<1>1. v \in PrintBuffer
  BY <1>a, <1>b
<1>2. /\ v.length = n /\ v.offset = b.offset /\ v.tail = b.tail /\ v.reach = b.reach
      /\ v.depth = b.depth
  BY DEF Natural, PrintBuffer
<1> HIDE DEF v
<1>3. Natural(v) /\ v.depth = b.depth
  BY <1>1, <1>2 DEF Natural
<1> QED BY <1>3 DEF v

\* The block has been freed.
LEMMA BufferNatural ==
  ASSUME NEW b, Natural(b)
  PROVE  Natural([b EXCEPT !.buffer = FALSE])
<1> DEFINE v == [b EXCEPT !.buffer = FALSE]
<1>1. ASSUME NEW x \in BOOLEAN PROVE [b EXCEPT !.buffer = x] \in PrintBuffer
  BY DEF Natural, PrintBuffer
<1>2. v \in PrintBuffer
  BY <1>1
<1>3. /\ v.length = b.length /\ v.offset = b.offset /\ v.tail = b.tail /\ v.reach = b.reach
      /\ v.depth = b.depth
  BY DEF Natural, PrintBuffer
<1> HIDE DEF v
<1>4. Natural(v)
  BY <1>2, <1>3 DEF Natural
<1> QED BY <1>4 DEF v

\* Whatever ensure() returns has the offsets of the buffer and no length that
\* is no int.
LEMMA EnsureNatural ==
  ASSUME NEW b, Natural(b), NEW needed \in Int, NEW memory \in BOOLEAN
  PROVE  Natural(ensure(b, needed, memory).p)
<1>1. b \in PrintBuffer /\ IntMax \in Nat /\ b.length \in Nat /\ b.offset \in Nat
  BY PrinterAssumption DEF Natural
<1> DEFINE total == needed + b.offset + 1
           newsize == IF total > IntMax \div 2 THEN IntMax ELSE total * 2
<1>2. ASSUME NEW n \in 0 .. IntMax PROVE Natural([b EXCEPT !.length = n])
  BY LengthNatural
<1>3. ASSUME NEW n \in 0 .. IntMax
      PROVE  Natural([b EXCEPT !.buffer = FALSE, !.length = n])
  <2>1. Natural([b EXCEPT !.buffer = FALSE])
    BY BufferNatural
  <2>2. ASSUME NEW c, Natural(c) PROVE Natural([c EXCEPT !.length = n])
    BY <2>2, LengthNatural
  <2> QED BY <2>1, <2>2, Zenon
<1>4. total \in Int /\ (total > b.length /\ total <= IntMax => newsize \in 0 .. IntMax)
  BY <1>1
<1>5. CASE total <= b.length \/ ~b.buffer \/ (b.length > 0 /\ b.offset >= b.length) \/ needed > IntMax
  <2>1. ensure(b, needed, memory) = Refused(b) \/ ensure(b, needed, memory) = Granted(b)
    BY <1>5 DEF ensure
  <2>2. ensure(b, needed, memory).p = b
    BY <2>1 DEF Refused, Granted
  <2> QED BY <2>2
<1>6. CASE ensure(b, needed, memory) = Grown(b, total, memory) /\ total > b.length
  <2> HIDE DEF total
  <2>1. CASE b.noalloc \/ total > IntMax
    <3>1. ensure(b, needed, memory).p = b
      BY <1>6, <2>1 DEF Grown, Refused
    <3> QED BY <3>1
  <2>2. CASE ~(b.noalloc \/ total > IntMax) /\ memory
    <3>1. ensure(b, needed, memory) = Granted([b EXCEPT !.length = newsize])
      BY <1>6, <2>2, Zenon DEF Grown
    <3>2. newsize \in 0 .. IntMax
      BY <1>1, <1>4, <1>6, <2>2
    <3>3. ensure(b, needed, memory).p = [b EXCEPT !.length = newsize]
      BY <3>1 DEF Granted
    <3> QED BY <1>2, <3>2, <3>3
  <2>3. CASE ~(b.noalloc \/ total > IntMax) /\ ~memory
    <3>1. ensure(b, needed, memory) = Starved(b)
      BY <1>6, <2>3, Zenon DEF Grown
    <3>2. ensure(b, needed, memory).p = [b EXCEPT !.buffer = FALSE, !.length = 0]
      BY <3>1 DEF Starved
    <3>3. 0 \in 0 .. IntMax
      BY <1>1
    <3> QED BY <1>3, <3>2, <3>3
  <2> QED BY <2>1, <2>2, <2>3
<1>7. \/ total <= b.length \/ ~b.buffer \/ (b.length > 0 /\ b.offset >= b.length) \/ needed > IntMax
      \/ ensure(b, needed, memory) = Grown(b, total, memory) /\ total > b.length
  BY <1>1, <1>4 DEF ensure
<1> QED BY <1>5, <1>6, <1>7

KeepsDepth(b, w) == Natural(w) /\ w.depth = b.depth

\* update_offset() only adds.
LEMMA UpdateNatural ==
  ASSUME NEW b, Natural(b)
  PROVE  Natural(update_offset(b)) /\ update_offset(b).depth = b.depth
<1>1. ASSUME NEW end \in Nat, NEW zero \in Nat, NEW t \in Seq(Symbol), NEW none \in Seq(Symbol)
      PROVE  KeepsDepth(b, [b EXCEPT !.offset = end, !.tail = zero, !.front = t, !.back = none])
  <2> DEFINE w == [b EXCEPT !.offset = end, !.tail = zero, !.front = t, !.back = none]
  <2>1. w \in PrintBuffer
    <3>1. ASSUME NEW e \in Int, NEW z \in Int
          PROVE  [b EXCEPT !.offset = e, !.tail = z, !.front = t, !.back = none] \in PrintBuffer
      BY DEF Natural, PrintBuffer
    <3>2. end \in Int /\ zero \in Int
      OBVIOUS
    <3> QED BY <3>1, <3>2
  <2>2. /\ w.length = b.length /\ w.offset = end /\ w.tail = zero /\ w.reach = b.reach
        /\ w.depth = b.depth
    BY DEF Natural, PrintBuffer
  <2> HIDE DEF w
  <2>3. KeepsDepth(b, w)
    BY <2>1, <2>2 DEF Natural, KeepsDepth
  <2> QED BY <2>3 DEF w
<1>2. /\ 0 \in Nat /\ b.offset + b.tail \in Nat
      /\ b.front \o b.back \in Seq(Symbol) /\ << >> \in Seq(Symbol)
  BY DEF Natural, PrintBuffer
<1> DEFINE w == [b EXCEPT !.offset = b.offset + b.tail, !.tail = 0,
                          !.front = b.front \o b.back, !.back = << >>]
<1>3. KeepsDepth(b, w)
  BY <1>1, <1>2, Zenon
<1>4. w = [b EXCEPT !.offset = @ + b.tail, !.tail = 0, !.front = @ \o b.back, !.back = << >>]
  BY DEF Natural, PrintBuffer
<1> HIDE DEF w
<1>5. update_offset(b) = IF b.buffer THEN w ELSE b
  BY <1>4 DEF update_offset
<1> QED BY <1>3, <1>5 DEF KeepsDepth

\* w is b with a piece in it.
IsPiece(b, w) ==
  \E bytes \in Nat, text \in Seq(Symbol) :
    w \in {Open(b, bytes, text), Closed(b, bytes, text), Pending(b, bytes, text)}

\* What Open, Closed and Pending write is a piece.
LEMMA Piece ==
  ASSUME NEW b, NEW bytes \in Nat, NEW text \in Seq(Symbol)
  PROVE  /\ IsPiece(b, Open(b, bytes, text)) /\ IsPiece(b, Closed(b, bytes, text))
         /\ IsPiece(b, Pending(b, bytes, text))
BY Zenon DEF IsPiece

\* A piece has no negative size.
LEMMA PieceNatural ==
  ASSUME NEW b, NEW w, Natural(b), IsPiece(b, w)
  PROVE  Natural(w) /\ w.depth = b.depth
<1> SUFFICES KeepsDepth(b, w)
  BY DEF KeepsDepth
<1>1. PICK bytes \in Nat, text \in Seq(Symbol) :
        w \in {Open(b, bytes, text), Closed(b, bytes, text), Pending(b, bytes, text)}
  BY DEF IsPiece
<1>2. ASSUME NEW v \in BOOLEAN, NEW end \in Nat, NEW reach \in Nat, NEW zero \in Nat,
             NEW t \in Seq(Symbol), NEW none \in Seq(Symbol)
      PROVE  KeepsDepth(b, [b EXCEPT !.front = t, !.back = none, !.tail = zero, !.nul = v,
                                     !.offset = end, !.reach = reach])
  <2> DEFINE u == [b EXCEPT !.front = t, !.back = none, !.tail = zero, !.nul = v,
                            !.offset = end, !.reach = reach]
  <2>1. u \in PrintBuffer
    <3>1. ASSUME NEW e \in Int, NEW r \in Int, NEW z \in Int
          PROVE  [b EXCEPT !.front = t, !.back = none, !.tail = z, !.nul = v,
                           !.offset = e, !.reach = r] \in PrintBuffer
      BY DEF Natural, PrintBuffer
    <3>2. end \in Int /\ reach \in Int /\ zero \in Int
      OBVIOUS
    <3> QED BY <3>1, <3>2
  <2>2. /\ u.length = b.length /\ u.offset = end /\ u.tail = zero /\ u.reach = reach
        /\ u.depth = b.depth
    BY DEF Natural, PrintBuffer
  <2> HIDE DEF u
  <2>3. KeepsDepth(b, u)
    BY <2>1, <2>2 DEF Natural, KeepsDepth
  <2> QED BY <2>3 DEF u
<1>3. ASSUME NEW v \in BOOLEAN, NEW reach \in Nat, NEW n \in Nat, NEW t \in Seq(Symbol)
      PROVE  KeepsDepth(b, [b EXCEPT !.back = t, !.tail = n, !.nul = v, !.reach = reach])
  <2> DEFINE u == [b EXCEPT !.back = t, !.tail = n, !.nul = v, !.reach = reach]
  <2>1. u \in PrintBuffer
    <3>1. ASSUME NEW m \in Int, NEW r \in Int
          PROVE  [b EXCEPT !.back = t, !.tail = m, !.nul = v, !.reach = r] \in PrintBuffer
      BY DEF Natural, PrintBuffer
    <3>2. n \in Int /\ reach \in Int
      OBVIOUS
    <3> QED BY <3>1, <3>2
  <2>2. /\ u.length = b.length /\ u.offset = b.offset /\ u.tail = n /\ u.reach = reach
        /\ u.depth = b.depth
    BY DEF Natural, PrintBuffer
  <2> HIDE DEF u
  <2>3. KeepsDepth(b, u)
    BY <2>1, <2>2 DEF Natural, KeepsDepth
  <2> QED BY <2>3 DEF u
<1>4. /\ b.offset + bytes \in Nat /\ b.offset + bytes + 1 \in Nat /\ 0 \in Nat
      /\ b.front \o text \in Seq(Symbol) /\ << >> \in Seq(Symbol)
      /\ TRUE \in BOOLEAN /\ FALSE \in BOOLEAN
  BY DEF Natural, PrintBuffer
<1>5. CASE w = Open(b, bytes, text)
  <2>1. w = [b EXCEPT !.front = b.front \o text, !.back = << >>, !.tail = 0, !.nul = FALSE,
                      !.offset = b.offset + bytes, !.reach = b.offset + bytes]
    BY <1>5 DEF Open, Natural, PrintBuffer
  <2> QED BY <1>2, <1>4, <2>1, Zenon
<1>6. CASE w = Closed(b, bytes, text)
  <2>1. w = [b EXCEPT !.front = b.front \o text, !.back = << >>, !.tail = 0, !.nul = TRUE,
                      !.offset = b.offset + bytes, !.reach = b.offset + bytes + 1]
    BY <1>6 DEF Closed, Natural, PrintBuffer
  <2> QED BY <1>2, <1>4, <2>1, Zenon
<1>7. CASE w = Pending(b, bytes, text)
  <2>1. w = [b EXCEPT !.back = text, !.tail = bytes, !.nul = TRUE,
                      !.reach = b.offset + bytes + 1]
    BY <1>7 DEF Pending, Natural, PrintBuffer
  <2> QED BY <1>3, <1>4, <2>1, Zenon
<1> QED BY <1>1, <1>5, <1>6, <1>7

\* A buffer one level deeper or less deep.
LEMMA DepthNatural ==
  ASSUME NEW b, Natural(b)
  PROVE  /\ Natural(Deeper(b)) /\ Deeper(b).depth = b.depth + 1
         /\ b.depth - 1 \in Nat => Natural(Shallower(b)) /\ Shallower(b).depth = b.depth - 1
<1>1. ASSUME NEW d \in Nat
      PROVE  Natural([b EXCEPT !.depth = d]) /\ [b EXCEPT !.depth = d].depth = d
  BY DEF Natural, PrintBuffer
<1>2. /\ b.depth + 1 \in Nat
      /\ Deeper(b) = [b EXCEPT !.depth = b.depth + 1]
      /\ Shallower(b) = [b EXCEPT !.depth = b.depth - 1]
  BY DEF Natural, PrintBuffer, Deeper, Shallower
<1> QED BY <1>1, <1>2

\* Asking for room and writing keeps the types if what is written has them.
LEMMA PutTypes ==
  ASSUME NEW STATE b, NEW STATE needed, NEW STATE w, NEW STATE rest,
         Types, Natural(b), needed \in Int, Natural(w), Nests(rest \o Tail(todo), w.depth),
         Put(b, needed, w, rest)
  PROVE  Types'
<1>1. PICK memory \in BOOLEAN :
        LET granted == ensure(b, needed, memory)
        IN  /\ p' = IF granted.ok THEN [w EXCEPT !.length = granted.p.length]
                                  ELSE granted.p
            /\ starved' = (starved \/ granted.freed > 0)
            /\ status' = IF granted.ok THEN "printing" ELSE "failing"
            /\ todo' = IF granted.ok THEN rest \o Tail(todo) ELSE << >>
            /\ UNCHANGED <<call, root>>
  BY DEF Put
<1> DEFINE granted == ensure(b, needed, memory)
<1>2. Natural(granted.p)
  BY EnsureNatural
<1>3. granted.p.length \in 0 .. IntMax
  BY <1>2 DEF Natural
<1> HIDE DEF granted
<1>4. LET v == [w EXCEPT !.length = granted.p.length] IN Natural(v) /\ v.depth = w.depth
  BY <1>3, LengthNatural
<1>5. Natural(p')
  BY <1>1, <1>2, <1>4 DEF granted
<1>6. status' = "printing" => Nests(todo', p'.depth)
  BY <1>1, <1>4 DEF granted
<1>7. status' # "printing" => todo' = << >>
  BY <1>1
<1>8. call' = call /\ root' = root /\ starved' \in BOOLEAN
  BY <1>1
<1> QED BY <1>5, <1>6, <1>7, <1>8 DEF Types

\* What the types need to know of the step that is done.
LEMMA StepTypes ==
  ASSUME IInv, Types, status = "printing", todo # << >>
  PROVE  /\ Tail(todo) \in Seq(StepSet) /\ p.depth \in Nat
         /\ todo[1].op # "close" => Nests(Tail(todo), p.depth)
         /\ todo[1].op = "close" => p.depth - 1 \in Nat /\ Nests(Tail(todo), p.depth - 1)
         /\ \A b : Asks(b) => Natural(b) /\ b.depth = p.depth
<1>1. todo \in Seq(StepSet) /\ Tail(todo) \in Seq(StepSet)
  BY ScriptTail DEF IInv, Script
<1>2. Natural(p) /\ p.depth \in Nat /\ Nests(todo, p.depth)
  BY DEF Types, Natural
<1>3. Natural(update_offset(p)) /\ update_offset(p).depth = p.depth
  BY <1>2, UpdateNatural
<1> QED BY <1>1, <1>2, <1>3, NestsTail DEF Asks

\* A piece that neither opens nor closes a container.
LEMMA PieceTypes ==
  ASSUME NEW STATE b, NEW STATE needed, NEW STATE w,
         IInv, Types, status = "printing", todo # << >>, todo[1].op # "close",
         Asks(b), needed \in Int, IsPiece(b, w), Put(b, needed, w, << >>)
  PROVE  Types'
<1>1. Natural(b) /\ b.depth = p.depth /\ Nests(Tail(todo), p.depth) /\ Tail(todo) \in Seq(StepSet)
  BY StepTypes
<1>2. Natural(w) /\ w.depth = p.depth
  BY <1>1, PieceNatural
<1>3. << >> \o Tail(todo) = Tail(todo)
  BY <1>1
<1> QED BY <1>1, <1>2, <1>3, PutTypes

\* A step that writes nothing.
LEMMA ProceedTypes ==
  ASSUME NEW STATE b, IInv, Types, status = "printing", todo # << >>,
         todo[1].op # "close", Asks(b), Proceed(b)
  PROVE  Types'
<1>1. Natural(b) /\ b.depth = p.depth /\ Nests(Tail(todo), p.depth)
  BY StepTypes
<1>2. /\ p' = b /\ todo' = Tail(todo) /\ call' = call /\ root' = root /\ status' = status
      /\ starved' = starved
  BY DEF Proceed
<1> QED BY <1>1, <1>2 DEF Types

\* The end of a container.
LEMMA CloseTypes ==
  ASSUME NEW STATE needed, NEW STATE v,
         IInv, Types, status = "printing", todo # << >>, todo[1].op = "close",
         needed \in Int, IsPiece(p, v), Put(p, needed, Shallower(v), << >>)
  PROVE  Types'
<1>1. /\ Natural(p) /\ p.depth - 1 \in Nat /\ Nests(Tail(todo), p.depth - 1)
      /\ Tail(todo) \in Seq(StepSet)
  BY StepTypes DEF Types
<1>2. Natural(v) /\ v.depth = p.depth
  BY <1>1, PieceNatural
<1>3. Natural(Shallower(v)) /\ Shallower(v).depth = p.depth - 1
  BY <1>1, <1>2, DepthNatural
<1>4. << >> \o Tail(todo) = Tail(todo)
  BY <1>1
<1> QED BY <1>1, <1>3, <1>4, PutTypes

\* The start of a container.
LEMMA OpenTypes ==
  ASSUME NEW STATE needed, NEW STATE v, NEW STATE rest,
         IInv, Types, status = "printing", todo # << >>, todo[1].op # "close",
         needed \in Int, IsPiece(p, v), Plan(rest), Put(p, needed, Deeper(v), rest)
  PROVE  Types'
<1>1. /\ Natural(p) /\ p.depth \in Nat /\ Nests(Tail(todo), p.depth)
      /\ Tail(todo) \in Seq(StepSet)
  BY StepTypes DEF Types
<1>2. Natural(v) /\ v.depth = p.depth
  BY <1>1, PieceNatural
<1>3. Natural(Deeper(v)) /\ Deeper(v).depth = p.depth + 1
  BY <1>2, DepthNatural
<1>4. rest \in Seq(StepSet)
  BY DEF Plan, Script
<1>5. Nests(rest \o Tail(todo), p.depth + 1)
  BY <1>1, <1>4, NestsPlan
<1> QED BY <1>1, <1>3, <1>5, PutTypes

\* The steps that print a scalar or a name.
LEMMA ScalarTypes ==
  ASSUME IInv, Types, print_literal \/ print_number \/ print_string \/ print_key
  PROVE  Types'
<1>1. /\ status = "printing" /\ todo # << >> /\ todo[1].op # "close" /\ Asks(p)
      /\ todo[1].op \in {"value", "key"}
  BY DEF print_literal, print_number, print_string, print_key, Printing, Doing, Asks
<1>2. size[item] \in Nat /\ (todo[1].op = "key" => keysize[kids[item][todo[1].k]] \in Nat)
  BY <1>1, StepFacts
<1>3. <<"n">> \in Seq(Symbol) /\ <<"s">> \in Seq(Symbol)
  BY DEF Symbol
<1>4. ASSUME NEW STATE w, NEW STATE needed, needed \in Int, IsPiece(p, w),
             Put(p, needed, w, << >>)
      PROVE  Types'
  BY <1>1, <1>4, PieceTypes
<1>5. size[item] + 1 \in Int
  BY <1>2
<1>6. CASE print_literal
  <2>1. Put(p, size[item] + 1, Pending(p, size[item], <<"n">>), << >>)
    BY <1>6 DEF print_literal
  <2>2. IsPiece(p, Pending(p, size[item], <<"n">>))
    BY <1>2, <1>3, Piece
  <2> QED BY <1>4, <1>5, <2>1, <2>2
<1>7. CASE print_number
  <2>1. Put(p, size[item] + 1, Closed(p, size[item], <<"n">>), << >>)
    BY <1>7 DEF print_number
  <2>2. IsPiece(p, Closed(p, size[item], <<"n">>))
    BY <1>2, <1>3, Piece
  <2> QED BY <1>4, <1>5, <2>1, <2>2
<1>8. CASE print_string
  <2>1. Put(p, size[item] + 3, Pending(p, size[item] + 2, <<"s">>), << >>)
    BY <1>8 DEF print_string
  <2>2. size[item] + 2 \in Nat /\ size[item] + 3 \in Int
    BY <1>2
  <2>3. IsPiece(p, Pending(p, size[item] + 2, <<"s">>))
    BY <1>3, <2>2, Piece
  <2> QED BY <1>4, <2>1, <2>2, <2>3
<1>9. CASE print_key
  <2> DEFINE bytes == keysize[kids[item][todo[1].k]]
  <2>1. todo[1].op = "key" /\ Put(p, bytes + 3, Pending(p, bytes + 2, <<"s">>), << >>)
    BY <1>9 DEF print_key, Doing
  <2>2. bytes \in Nat
    BY <1>2, <2>1
  <2> HIDE DEF bytes
  <2>3. bytes + 2 \in Nat /\ bytes + 3 \in Int
    BY <2>2
  <2>4. IsPiece(p, Pending(p, bytes + 2, <<"s">>))
    BY <1>3, <2>3, Piece
  <2> QED BY <1>4, <2>1, <2>3, <2>4
<1> QED BY <1>6, <1>7, <1>8, <1>9

\* The steps between the values of a list.
LEMMA SeparatorTypes ==
  ASSUME IInv, Types, Indent \/ print_colon \/ ElementEnd \/ MemberEnd
  PROVE  Types'
<1> DEFINE b == update_offset(p)
<1>1. /\ status = "printing" /\ todo # << >> /\ todo[1].op # "close" /\ Asks(p) /\ Asks(b)
  BY DEF Indent, print_colon, ElementEnd, MemberEnd, Doing, Asks
<1> HIDE DEF b
<1>2. /\ Comma \in Seq(Symbol) /\ Colon \in Seq(Symbol) /\ Len(Comma) \in Nat /\ Len(Colon) \in Nat
      /\ <<" ">> \in Seq(Symbol)
  <2>1. \A q \in Seq(Symbol) : Len(q) \in Nat
    OBVIOUS
  <2>2. <<" ">> \in Seq(Symbol)
    BY DEF Symbol
  <2> QED BY <2>1, <2>2, Pieces, Zenon
<1>3. ASSUME NEW STATE c, NEW STATE w, NEW STATE needed, Asks(c), needed \in Int, IsPiece(c, w),
             Put(c, needed, w, << >>)
      PROVE  Types'
  BY <1>1, <1>3, PieceTypes
<1>4. ASSUME NEW STATE c, Asks(c), Proceed(c) PROVE Types'
  BY <1>1, <1>4, ProceedTypes
<1>5. CASE Indent
  <2>1. p.depth \in Nat /\ p.depth \in Int
    BY <1>1, StepTypes
  <2>2. IsPiece(p, Open(p, p.depth, <<" ">>))
    BY <1>2, <2>1, Piece
  <2>3. Put(p, p.depth, Open(p, p.depth, <<" ">>), << >>) \/ Proceed(p)
    BY <1>5 DEF Indent
  <2>4. CASE Put(p, p.depth, Open(p, p.depth, <<" ">>), << >>)
    BY <1>1, <1>3, <2>1, <2>2, <2>4
  <2>5. CASE Proceed(p)
    BY <1>1, <1>4, <2>5
  <2> QED BY <2>3, <2>4, <2>5
<1>6. CASE print_colon
  <2>1. Put(b, Len(Colon), Open(b, Len(Colon), Colon), << >>)
    BY <1>6 DEF print_colon, b
  <2>2. IsPiece(b, Open(b, Len(Colon), Colon))
    BY <1>2, Piece
  <2>3. Len(Colon) \in Int
    BY Pieces
  <2> QED BY <1>1, <1>3, <2>1, <2>2, <2>3
<1>7. CASE ElementEnd
  <2>1. Put(b, Len(Comma) + 1, Closed(b, Len(Comma), Comma), << >>) \/ Proceed(b)
    BY <1>7 DEF ElementEnd, b
  <2>2. IsPiece(b, Closed(b, Len(Comma), Comma))
    BY <1>2, Piece
  <2>3. Len(Comma) + 1 \in Int
    <3>1. \A n \in Nat : n + 1 \in Int
      OBVIOUS
    <3> QED BY <1>2, <3>1, Zenon
  <2> QED BY <1>1, <1>3, <1>4, <2>1, <2>2, <2>3
<1>8. CASE MemberEnd
  <2> DEFINE end == (IF AtLast THEN << >> ELSE <<",">>)
                      \o (IF p.format THEN <<" ">> ELSE << >>)
  <2>1. Put(b, Len(end) + 1, Closed(b, Len(end), end), << >>)
    BY <1>8 DEF MemberEnd, b
  <2>2. end \in Seq(Symbol)
    <3>1. \A x, y \in Seq(Symbol) : x \o y \in Seq(Symbol)
      OBVIOUS
    <3> QED BY <3>1, Pieces, Zenon
  <2> HIDE DEF end
  <2>3. Len(end) \in Nat /\ Len(end) + 1 \in Int
    BY <2>2
  <2>4. IsPiece(b, Closed(b, Len(end), end))
    BY <2>2, <2>3, Piece
  <2> QED BY <1>1, <1>3, <2>1, <2>3, <2>4
<1> QED BY <1>5, <1>6, <1>7, <1>8

\* The steps that open or close a container.
LEMMA ContainerTypes ==
  ASSUME IInv, Types, OpenArray \/ OpenObject \/ CloseArray \/ CloseObject
  PROVE  Types'
<1>1. status = "printing" /\ todo # << >> /\ Natural(p) /\ p.depth \in Nat
  BY DEF OpenArray, OpenObject, CloseArray, CloseObject, Printing, Doing, Types, Natural
<1>2. item \in Item
  BY <1>1, StepFacts
<1>3. /\ <<"[">> \in Seq(Symbol) /\ <<"]">> \in Seq(Symbol) /\ <<"}">> \in Seq(Symbol)
      /\ <<" ", "}">> \in Seq(Symbol)
  BY DEF Symbol
<1>4. Brace \in Seq(Symbol) /\ Len(Brace) \in Nat
  <2>1. \A q \in Seq(Symbol) : Len(q) \in Nat
    OBVIOUS
  <2> QED BY <2>1, Pieces, Zenon
<1>5. CASE OpenArray
  <2>1. todo[1].op # "close" /\ Put(p, 1, Deeper(Open(p, 1, <<"[">>)), ElementSteps)
    BY <1>5 DEF OpenArray, Printing, Doing, ElementSteps
  <2>2. IsPiece(p, Open(p, 1, <<"[">>))
    BY <1>3, Piece
  <2>3. Plan(ElementSteps)
    BY <1>2, ElementPlan
  <2> QED BY <1>1, <2>1, <2>2, <2>3, OpenTypes
<1>6. CASE OpenObject
  <2>1. /\ todo[1].op # "close"
        /\ Put(p, Len(Brace) + 1, Deeper(Open(p, Len(Brace), Brace)), MemberSteps)
    BY <1>6 DEF OpenObject, Printing, Doing, MemberSteps
  <2>2. IsPiece(p, Open(p, Len(Brace), Brace)) /\ Len(Brace) + 1 \in Int
    BY <1>4, Piece
  <2>3. Plan(MemberSteps)
    BY <1>2, MemberPlan
  <2> QED BY <1>1, <2>1, <2>2, <2>3, OpenTypes
<1>7. CASE CloseArray
  <2>1. todo[1].op = "close" /\ Put(p, 2, Shallower(Pending(p, 1, <<"]">>)), << >>)
    BY <1>7 DEF CloseArray, Doing
  <2>2. IsPiece(p, Pending(p, 1, <<"]">>))
    BY <1>3, Piece
  <2> QED BY <1>1, <2>1, <2>2, CloseTypes
<1>8. CASE CloseObject
  <2>1. /\ todo[1].op = "close"
        /\ \/ Put(p, p.depth + 1, Shallower(Pending(p, p.depth, <<" ", "}">>)), << >>)
           \/ Put(p, 2, Shallower(Pending(p, 1, <<"}">>)), << >>)
    BY <1>8 DEF CloseObject, Doing
  <2>2. /\ IsPiece(p, Pending(p, p.depth, <<" ", "}">>))
        /\ IsPiece(p, Pending(p, 1, <<"}">>))
    BY <1>1, <1>3, Piece
  <2>3. 2 \in Int /\ p.depth + 1 \in Int
    BY <1>1
  <2> QED BY <1>1, <2>1, <2>2, <2>3, CloseTypes
<1> QED BY <1>5, <1>6, <1>7, <1>8

\* The steps that return, and the one that meets an item it cannot print.
LEMMA ReturnTypes ==
  ASSUME IInv, Types, print_invalid \/ Finish \/ Fail
  PROVE  Types'
<1>1. Natural(p) /\ call \in {"Print", "PrintBuffered", "PrintPreallocated"} /\ root \in Item
  BY DEF Types
<1>2. CASE print_invalid
  BY <1>1, <1>2 DEF print_invalid, Types
<1>3. CASE Finish
  <2> DEFINE b == update_offset(p)
             exact == [b EXCEPT !.length = b.offset + 1]
  <2>1. Natural(b)
    BY <1>1, UpdateNatural
  <2>2. /\ status = "printing" /\ todo = << >> /\ todo' = << >> /\ call' = call /\ root' = root
        /\ status' \in {"done", "failing"} /\ starved' \in BOOLEAN
    BY <1>3 DEF Finish, Types
  <2>3. CASE p' = p
    BY <1>1, <2>2, <2>3 DEF Types
  <2>4. CASE p' = b
    BY <1>1, <2>1, <2>2, <2>4 DEF Types
  <2>5. CASE call = "Print" /\ p' = exact
    <3>1. Room(b) /\ b.buffer /\ b.noalloc = FALSE /\ b.tail = 0
      BY <2>2, <2>5, UpdateKeepsRoom DEF IInv, Ledger
    <3> HIDE DEF b
    <3>2. b.offset < b.length \/ b.offset = 0
      BY <2>1, <3>1 DEF Room, Empty, Natural
    <3>3. b.offset + 1 \in 0 .. IntMax
      BY <2>1, <3>2, PrinterAssumption DEF Natural
    <3>4. ASSUME NEW n \in 0 .. IntMax PROVE Natural([b EXCEPT !.length = n])
      BY <2>1, <3>4 DEF Natural, PrintBuffer
    <3>5. Natural(exact)
      BY <3>3, <3>4
    <3> HIDE DEF exact
    <3> QED BY <1>1, <2>2, <2>5, <3>5 DEF Types
  <2>6. p' = p \/ p' = b \/ (call = "Print" /\ p' = exact)
    <3>1. call # "Print" => p' = p
      BY <1>3 DEF Finish
    <3>2. call = "Print" => p' = exact \/ p' = b
      BY <1>3, Zenon DEF Finish
    <3> QED BY <3>1, <3>2
  <2> QED BY <2>3, <2>4, <2>5, <2>6
<1>4. CASE Fail
  <2>1. /\ status = "failing" /\ status' = "failed" /\ call' = call /\ root' = root
        /\ todo' = todo /\ todo = << >> /\ starved' = starved
    BY <1>4 DEF Fail, Types
  <2>2. Natural([p EXCEPT !.buffer = FALSE])
    <3>1. ASSUME NEW v \in BOOLEAN PROVE Natural([p EXCEPT !.buffer = v])
      BY <1>1 DEF Natural, PrintBuffer
    <3> QED BY <3>1
  <2>3. Natural(p')
    BY <1>1, <1>4, <2>2 DEF Fail
  <2> QED BY <1>1, <2>1, <2>3 DEF Types
<1> QED BY <1>2, <1>3, <1>4

\* The types a call starts with.
LEMMA InitTypes == Init => Types
<1> SUFFICES ASSUME Init PROVE Types
  OBVIOUS
<1>1. /\ call \in {"Print", "PrintBuffered", "PrintPreallocated"} /\ root \in Item
      /\ status = "printing" /\ starved = FALSE /\ todo = <<Step("value", root, 0)>>
  BY DEF Init
<1>2. \E length \in 0 .. IntMax, noalloc \in BOOLEAN, format \in BOOLEAN :
        p = Buffer(length, noalloc, format)
  <2>1. DefaultSize \in 0 .. IntMax /\ Length \subseteq 0 .. IntMax
    BY PrinterAssumption
  <2> QED BY <2>1 DEF Init
<1>3. Natural(p) /\ p.depth = 0
  BY <1>2 DEF Natural, PrintBuffer, Buffer
<1>4. Nests(todo, 0)
  <2> DEFINE open == [n \in 1 .. 2 |-> 0]
  <2>1. Len(todo) = 1 /\ todo[1].op = "value"
    BY <1>1 DEF Step
  <2>2. open \in [1 .. 2 -> Nat] /\ open[1] = 0 /\ open[2] = 0
    OBVIOUS
  <2> HIDE DEF open
  <2>3. open[1] <= 0 /\ \A n \in 1 .. Len(todo) :
          open[n] >= open[n + 1] + (IF todo[n].op = "close" THEN 1 ELSE 0)
    BY <2>1, <2>2
  <2>4. open \in [1 .. Len(todo) + 1 -> Nat]
    BY <2>1, <2>2
  <2> QED BY <2>3, <2>4 DEF Nests
<1> QED BY <1>1, <1>3, <1>4 DEF Types

\* Every step keeps the types.
LEMMA NextTypes == IInv /\ Types /\ [Next]_vars => Types'
<1> SUFFICES ASSUME IInv, Types, [Next]_vars PROVE Types'
  OBVIOUS
<1>1. CASE UNCHANGED vars
  BY <1>1 DEF vars, Types
<1>2. CASE Next
  BY <1>2, ScalarTypes, SeparatorTypes, ContainerTypes, ReturnTypes DEF Next, PrintPiece
<1> QED BY <1>1, <1>2

-----------------------------------------------------------------------------
(* What growing without realloc copies.                                    *)

\* With IInv and Types, the inductive invariant for the copies: the last one was
\* in its block, unless that was empty, and a block of print() is not.
Copies ==
  /\ reallocate \in BOOLEAN /\ copied \in [bytes: Nat, length: 0 .. IntMax]
  /\ \/ copied.bytes <= copied.length
     \/ call = "PrintBuffered" /\ copied = Copy(1, 0)
  /\ call = "Print" /\ p.buffer => p.length # 0

\* If ensure() grants room, the buffer is as long as before or it is longer, and
\* then it is not a block of the client.
LEMMA Growth ==
  ASSUME NEW b, Natural(b), NEW needed \in Int, NEW memory \in BOOLEAN,
         ensure(b, needed, memory).ok
  PROVE  \/ ensure(b, needed, memory).p.length = b.length
         \/ ensure(b, needed, memory).p.length > b.length /\ ~b.noalloc
<1> DEFINE total == needed + b.offset + 1
           newsize == IF total > IntMax \div 2 THEN IntMax ELSE total * 2
           large == [b EXCEPT !.length = newsize]
<1>1. /\ b.length \in 0 .. IntMax /\ b.offset \in Nat /\ IntMax \in Nat
      /\ b.noalloc \in BOOLEAN /\ total \in Int
  BY PrinterAssumption DEF Natural, PrintBuffer
<1>2. CASE ensure(b, needed, memory) = Granted(b)
  BY <1>2 DEF Granted
<1>3. CASE ensure(b, needed, memory) = Grown(b, total, memory) /\ ~(total <= b.length)
  <2>1. ~b.noalloc /\ ~(total > IntMax) /\ memory
    BY <1>3 DEF Grown, Refused, Starved
  <2>2. ensure(b, needed, memory) = Granted(large)
    BY <1>3, <2>1 DEF Grown
  <2>3. large.length = newsize
    BY DEF Natural, PrintBuffer
  <2>4. newsize > b.length
    BY <1>1, <1>3, <2>1
  <2> HIDE DEF large, newsize
  <2>5. ensure(b, needed, memory).p = large
    BY <2>2 DEF Granted
  <2> QED
    BY <2>1, <2>3, <2>4, <2>5, Zenon
<1> QED
  BY <1>2, <1>3 DEF ensure, Refused

\* A piece keeps it: what is copied is the text and one byte more.
LEMMA PutCopies ==
  ASSUME NEW STATE b, NEW STATE needed, NEW STATE w, NEW STATE rest,
         IInv, Types, Types', Copies, status = "printing", Asks(b), needed \in Int,
         Put(b, needed, w, rest)
  PROVE  Copies'
<1>1. PICK memory \in BOOLEAN :
        LET granted == ensure(b, needed, memory)
            larger == granted.ok /\ granted.p.length > b.length
        IN  /\ p' = IF granted.ok THEN [w EXCEPT !.length = granted.p.length]
                                  ELSE granted.p
            /\ copied' = IF larger /\ ~reallocate THEN Copy(b.offset + 1, b.length) ELSE copied
            /\ UNCHANGED <<call, root, reallocate>>
  BY DEF Put
<1> DEFINE g == ensure(b, needed, memory)
<1>2. /\ Room(b) /\ b.buffer /\ b.noalloc = p.noalloc /\ b.length = p.length
      /\ b \in PrintBuffer
  BY AsksRoom
<1>3. Natural(b)
  BY UpdateNatural DEF Asks, Types
<1>4. /\ b.length \in 0 .. IntMax /\ b.offset \in Nat /\ b.tail \in Nat
      /\ IntMax \in Nat /\ p.buffer
  BY <1>3, PrinterAssumption DEF Natural, PrintBuffer, IInv, Ledger
<1>5. call = "Print" => b.length # 0
  BY <1>2, <1>4 DEF Copies
<1>6. p' \in PrintBuffer
  BY DEF Types, Natural
<1>7. CASE g.ok
  <2>1. g.p.length = b.length \/ (g.p.length > b.length /\ ~b.noalloc)
    BY <1>3, <1>7, Growth
  <2> HIDE DEF g
  <2>2. p' = [w EXCEPT !.length = g.p.length]
    BY <1>1, <1>7 DEF g
  <2>3. p'.length = g.p.length
    BY <1>6, <2>2 DEF PrintBuffer
  <2>4. call' = "Print" => p'.length # 0
    BY <1>1, <1>4, <1>5, <2>1, <2>3
  <2>5. CASE ~(g.p.length > b.length) \/ reallocate
    BY <1>1, <2>4, <2>5 DEF Copies, g
  <2>6. CASE g.p.length > b.length /\ ~reallocate
    <3>1. copied' = Copy(b.offset + 1, b.length)
      BY <1>1, <1>7, <2>6 DEF g
    <3>2. ~b.noalloc
      BY <1>4, <2>1, <2>6
    <3>3. call # "PrintPreallocated"
      BY <1>2, <3>2 DEF IInv, Ledger
    <3>4. b.offset + 1 <= b.length \/ (b.offset = 0 /\ b.length = 0)
      BY <1>2, <1>4, <3>2 DEF Room, Empty
    <3>5. copied'.bytes = b.offset + 1 /\ copied'.length = b.length
          /\ copied' \in [bytes: Nat, length: 0 .. IntMax]
      BY <1>4, <3>1 DEF Copy
    <3>6. CASE b.offset + 1 <= b.length
      BY <1>1, <2>4, <3>5, <3>6 DEF Copies
    <3>7. CASE b.offset = 0 /\ b.length = 0
      <4>1. copied' = Copy(1, 0)
        BY <3>1, <3>7
      <4>2. call' = "PrintBuffered"
        BY <1>1, <1>5, <3>3, <3>7 DEF Types
      <4> QED
        BY <1>1, <2>4, <3>5, <4>1, <4>2 DEF Copies
    <3> QED
      BY <3>4, <3>6, <3>7
  <2> QED
    BY <2>5, <2>6
<1>8. CASE ~g.ok
  <2>1. Denies(b, g)
    <3>1. b.length >= 0
      BY <1>4
    <3>2. Gives(b, needed, g) \/ Denies(b, g)
      BY <1>2, <3>1, EnsureGivesRoom
    <3> QED
      BY <1>8, <3>2 DEF Gives
  <2> HIDE DEF g
  <2>2. p' = g.p /\ copied' = copied /\ call' = call /\ reallocate' = reallocate
    BY <1>1, <1>8 DEF g
  <2>3. p' = b \/ p'.buffer = FALSE
    BY <2>1, <2>2 DEF Denies
  <2> QED
    BY <1>5, <2>2, <2>3 DEF Copies
<1> QED
  BY <1>7, <1>8

\* A step that writes nothing copies nothing.
LEMMA ProceedCopies ==
  ASSUME NEW STATE b, IInv, Copies, status = "printing", Asks(b), Proceed(b)
  PROVE  Copies'
<1>1. b.buffer /\ b.length = p.length /\ p.buffer
  BY AsksRoom DEF IInv, Ledger
<1> QED
  BY <1>1 DEF Proceed, Copies

\* The pieces.
LEMMA PieceCopies ==
  ASSUME IInv, Types, Types', Copies, PrintPiece
  PROVE  Copies'
<1>1. CASE print_literal
  <2>1. status = "printing" /\ todo # << >>
    BY <1>1 DEF print_literal, Printing, Doing
  <2>2. size[item] + 1 \in Int
    BY <2>1, StepFacts
  <2> QED
    BY <1>1, <2>1, <2>2, PutCopies DEF print_literal, Asks
<1>2. CASE print_number
  <2>1. status = "printing" /\ todo # << >>
    BY <1>2 DEF print_number, Printing, Doing
  <2>2. size[item] + 1 \in Int
    BY <2>1, StepFacts
  <2> QED
    BY <1>2, <2>1, <2>2, PutCopies DEF print_number, Asks
<1>3. CASE print_string
  <2>1. status = "printing" /\ todo # << >>
    BY <1>3 DEF print_string, Printing, Doing
  <2>2. size[item] + 3 \in Int
    BY <2>1, StepFacts
  <2> QED
    BY <1>3, <2>1, <2>2, PutCopies DEF print_string, Asks
<1>4. CASE print_invalid
  BY <1>4 DEF print_invalid, Copies
<1>5. CASE OpenArray \/ CloseArray \/ CloseObject
  <2>1. status = "printing" /\ todo # << >>
    BY <1>5 DEF OpenArray, CloseArray, CloseObject, Printing, Doing
  <2>2. 1 \in Int /\ 2 \in Int /\ p.depth + 1 \in Int
    BY DEF Types, Natural
  <2> QED
    BY <1>5, <2>1, <2>2, PutCopies DEF OpenArray, CloseArray, CloseObject, Asks
<1>6. CASE ElementEnd
  <2>1. status = "printing" /\ todo # << >>
    BY <1>6 DEF ElementEnd, Doing
  <2>2. Len(Comma) + 1 \in Int
    <3>1. Len(Comma) \in Int
      BY Pieces
    <3> QED
      BY <3>1
  <2> QED
    BY <1>6, <2>1, <2>2, PutCopies, ProceedCopies DEF ElementEnd, Asks
<1>7. CASE OpenObject
  <2>1. status = "printing" /\ todo # << >>
    BY <1>7 DEF OpenObject, Printing, Doing
  <2>2. Len(Brace) + 1 \in Int
    <3>1. Len(Brace) \in Int
      BY Pieces
    <3> QED
      BY <3>1
  <2> QED
    BY <1>7, <2>1, <2>2, PutCopies DEF OpenObject, Asks
<1>8. CASE Indent
  <2>1. status = "printing" /\ todo # << >>
    BY <1>8 DEF Indent, Doing
  <2>2. p.depth \in Int
    BY DEF Types, Natural
  <2> QED
    BY <1>8, <2>1, <2>2, PutCopies, ProceedCopies DEF Indent, Asks
<1>9. CASE print_key
  <2>1. status = "printing" /\ todo # << >> /\ todo[1].op = "key"
    BY <1>9 DEF print_key, Doing
  <2>2. keysize[kids[item][todo[1].k]] + 3 \in Int
    BY <2>1, StepFacts
  <2> QED
    BY <1>9, <2>1, <2>2, PutCopies DEF print_key, Asks
<1>10. CASE print_colon
  <2>1. status = "printing" /\ todo # << >>
    BY <1>10 DEF print_colon, Doing
  <2>2. Len(Colon) \in Int
    BY Pieces
  <2> QED
    BY <1>10, <2>1, <2>2, PutCopies DEF print_colon, Asks
<1>11. CASE MemberEnd
  <2> DEFINE end == (IF AtLast THEN << >> ELSE <<",">>)
                      \o (IF p.format THEN <<" ">> ELSE << >>)
  <2>1. status = "printing" /\ todo # << >>
    BY <1>11 DEF MemberEnd, Doing
  <2>2. Len(end) + 1 \in Int
    <3>1. end \in Seq(Symbol)
      <4>1. ASSUME NEW q \in Seq(Symbol), NEW r \in Seq(Symbol) PROVE q \o r \in Seq(Symbol)
        OBVIOUS
      <4> QED
        BY Pieces, <4>1, Zenon
    <3> HIDE DEF end
    <3> QED
      BY <3>1
  <2>3. Put(update_offset(p), Len(end) + 1, Closed(update_offset(p), Len(end), end), << >>)
    BY <1>11 DEF MemberEnd
  <2> HIDE DEF end
  <2> QED
    BY <2>1, <2>2, <2>3, PutCopies DEF Asks
<1> QED
  BY <1>1, <1>2, <1>3, <1>4, <1>5, <1>6, <1>7, <1>8, <1>9, <1>10, <1>11 DEF PrintPiece

\* A call starts with no copy made, and print() with a block that is not empty.
LEMMA InitCopies == Init => Copies
<1> SUFFICES ASSUME Init PROVE Copies
  OBVIOUS
<1>1. reallocate \in BOOLEAN /\ copied = Copy(0, 0)
  BY DEF Init
<1>2. copied.bytes = 0 /\ copied.length = 0 /\ copied \in [bytes: Nat, length: 0 .. IntMax]
  BY <1>1, PrinterAssumption DEF Copy
<1>3. call = "Print" => p.length # 0
  <2>1. call = "Print" => \E format \in BOOLEAN : p = Buffer(DefaultSize, FALSE, format)
    BY DEF Init
  <2>2. DefaultSize # 0
    BY PrinterAssumption
  <2> QED
    BY <2>1, <2>2 DEF Buffer
<1> QED
  BY <1>1, <1>2, <1>3 DEF Copies

\* Every step keeps the copies in their blocks.
LEMMA NextCopies == IInv /\ Types /\ Types' /\ Copies /\ [Next]_vars => Copies'
<1> SUFFICES ASSUME IInv, Types, Types', Copies, [Next]_vars PROVE Copies'
  OBVIOUS
<1>1. CASE UNCHANGED vars
  BY <1>1 DEF vars, Copies
<1>2. CASE PrintPiece
  BY <1>2, PieceCopies
<1>3. CASE Finish
  <2> DEFINE b == update_offset(p)
  <2>1. /\ copied' = copied /\ reallocate' = reallocate /\ call' = call
        /\ status = "printing" /\ p.buffer
    BY <1>3 DEF Finish, IInv, Ledger
  <2>2. b.length = p.length /\ b \in PrintBuffer /\ b.offset \in Nat
    BY <2>1, AsksRoom, UpdateNatural DEF Asks, Types, Natural
  <2>3. p' = p \/ p' = b \/ p' = [b EXCEPT !.length = b.offset + 1]
    BY <1>3 DEF Finish
  <2> HIDE DEF b
  <2>4. p'.length = p.length \/ p'.length = b.offset + 1
    BY <2>2, <2>3 DEF PrintBuffer
  <2> QED
    BY <2>1, <2>2, <2>4 DEF Copies
<1>4. CASE Fail
  <2>1. copied' = copied /\ reallocate' = reallocate /\ call' = call
    BY <1>4 DEF Fail
  <2>2. p \in PrintBuffer
    BY DEF Types, Natural
  <2>3. call = "Print" => ~p'.buffer
    BY <1>4, <2>2 DEF Fail, PrintBuffer
  <2> QED
    BY <2>1, <2>3 DEF Copies
<1> QED
  BY <1>1, <1>2, <1>3, <1>4 DEF Next

\* The two invariants hold throughout a call.
LEMMA TypesInvariance == Spec => []Types
BY InitTypes, NextTypes, Invariance, PTL DEF Spec

LEMMA CopiesInvariance == Spec => []Copies
BY InitCopies, NextCopies, Invariance, TypesInvariance, PTL DEF Spec

\* For every tree and every size from 0, with realloc and without: no write and
\* no strlen of the printer leaves its block, and no copy but the first of a
\* prebuffer of 0, which is one byte too long.
THEOREM WithinBlock == Spec => []InBlock
<1>1. IInv /\ Copies => InBlock
  BY DEF IInv, Copies, InBlock, Room, Measures
<1> QED
  BY <1>1, Invariance, CopiesInvariance, PTL

\* For every tree and every size: no offset and no depth is negative, no length
\* exceeds INT_MAX, and a call that returns has nothing left to print.
THEOREM Typing == Spec => []TypeOK
<1>1. IInv /\ Types /\ Copies => TypeOK
  BY DEF IInv, Types, Copies, Natural, PrintBuffer, Ledger, TypeOK
<1> QED
  BY <1>1, TypesInvariance, Invariance, CopiesInvariance, PTL

-----------------------------------------------------------------------------
(* The text.  What is on the stack will print a text, which behind the text *)
(* that is in the buffer gives the JSON text of the item.                   *)

\* Texts can be put behind each other in any grouping.
LEMMA Monoid ==
  /\ Nothing \in Parts
  /\ \A a, b \in Parts : a ++ b \in Parts
  /\ \A a \in Parts : Nothing ++ a = a /\ a ++ Nothing = a
  /\ \A a, b, c \in Parts : (a ++ b) ++ c = a ++ (b ++ c)
<1>1. Nothing \in Parts
  BY DEF Nothing, Part, Parts
<1>2. ASSUME NEW a \in Parts, NEW b \in Parts
      PROVE  /\ a ++ b \in Parts
             /\ (a ++ b).text = a.text \o b.text /\ (a ++ b).bytes = a.bytes + b.bytes
  BY DEF ++, Part, Parts
<1>3. ASSUME NEW a \in Parts, NEW b \in Parts, a.text = b.text, a.bytes = b.bytes
      PROVE  a = b
  BY <1>3 DEF Parts
<1>4. ASSUME NEW a \in Parts
      PROVE  Nothing ++ a = a /\ a ++ Nothing = a
  <2>1. Nothing.text = << >> /\ Nothing.bytes = 0
    BY DEF Nothing, Part
  <2>2. /\ a.text \in Seq(Symbol) /\ a.bytes \in Nat
    BY DEF Parts
  <2>3. << >> \o a.text = a.text /\ a.text \o << >> = a.text
    BY <2>2
  <2>4. 0 + a.bytes = a.bytes /\ a.bytes + 0 = a.bytes
    BY <2>2
  <2>5. (Nothing ++ a).text = a.text /\ (Nothing ++ a).bytes = a.bytes /\ Nothing ++ a \in Parts
    BY <1>1, <1>2, <2>1, <2>3, <2>4
  <2>6. (a ++ Nothing).text = a.text /\ (a ++ Nothing).bytes = a.bytes /\ a ++ Nothing \in Parts
    BY <1>1, <1>2, <2>1, <2>3, <2>4
  <2> QED
    BY <1>3, <2>5, <2>6
<1>5. ASSUME NEW a \in Parts, NEW b \in Parts, NEW c \in Parts
      PROVE  (a ++ b) ++ c = a ++ (b ++ c)
  <2>1. /\ a.text \in Seq(Symbol) /\ b.text \in Seq(Symbol) /\ c.text \in Seq(Symbol)
        /\ a.bytes \in Nat /\ b.bytes \in Nat /\ c.bytes \in Nat
    BY DEF Parts
  <2>2. (a.text \o b.text) \o c.text = a.text \o (b.text \o c.text)
    <3>1. \A u, v, w \in Seq(Symbol) : (u \o v) \o w = u \o (v \o w)
      BY ConcatAssociative
    <3> QED
      BY <2>1, <3>1, Zenon
  <2>3. (a.bytes + b.bytes) + c.bytes = a.bytes + (b.bytes + c.bytes)
    BY <2>1
  <2>4. a ++ b \in Parts /\ b ++ c \in Parts
    BY <1>2
  <2>5. /\ (a ++ b) ++ c \in Parts
        /\ ((a ++ b) ++ c).text = (a.text \o b.text) \o c.text
        /\ ((a ++ b) ++ c).bytes = (a.bytes + b.bytes) + c.bytes
    <3> DEFINE d == a ++ b
    <3>1. /\ d \in Parts /\ d.text = a.text \o b.text /\ d.bytes = a.bytes + b.bytes
      BY <1>2
    <3> HIDE DEF d
    <3>2. d ++ c \in Parts /\ (d ++ c).text = d.text \o c.text /\ (d ++ c).bytes = d.bytes + c.bytes
      BY <1>2, <3>1
    <3> QED
      BY <3>1, <3>2 DEF d
  <2>6. /\ a ++ (b ++ c) \in Parts
        /\ (a ++ (b ++ c)).text = a.text \o (b.text \o c.text)
        /\ (a ++ (b ++ c)).bytes = a.bytes + (b.bytes + c.bytes)
    <3> DEFINE d == b ++ c
    <3>1. /\ d \in Parts /\ d.text = b.text \o c.text /\ d.bytes = b.bytes + c.bytes
      BY <1>2
    <3> HIDE DEF d
    <3>2. a ++ d \in Parts /\ (a ++ d).text = a.text \o d.text /\ (a ++ d).bytes = a.bytes + d.bytes
      BY <1>2, <3>1
    <3> QED
      BY <3>1, <3>2 DEF d
  <2> QED
    BY <1>3, <2>2, <2>3, <2>5, <2>6
<1> QED
  BY <1>1, <1>2, <1>4, <1>5

\* Three parts, grouped either way.
LEMMA Regroup ==
  ASSUME NEW a \in Parts, NEW b \in Parts, NEW c \in Parts
  PROVE  (a ++ b) ++ c = a ++ (b ++ c)
BY Monoid

\* What a list is from its n-th part on, told of the function f that says so.
ListStep(parts, separator, last, n, f) ==
  IF n > Len(parts) THEN Nothing
  ELSE parts[n] ++ ((IF n = Len(parts) THEN last ELSE separator) ++ f[n + 1])

\* The text of a list, from each of its parts on.
ListsFrom(from, parts, separator, last) ==
  /\ from \in [1 .. Len(parts) + 1 -> Parts]
  /\ from[1] = Listed(parts, separator, last) /\ from[Len(parts) + 1] = Nothing
  /\ \A n \in 1 .. Len(parts) :
       from[n] = parts[n]
                 ++ ((IF n = Len(parts) THEN last ELSE separator) ++ from[n + 1])

\* A list of parts can be told from its end to its beginning.
LEMMA ListedSteps ==
  ASSUME NEW parts \in Seq(Parts), NEW separator \in Parts, NEW last \in Parts
  PROVE  \E from : ListsFrom(from, parts, separator, last)
<1> DEFINE D == 1 .. Len(parts) + 1
           S(n, f) == ListStep(parts, separator, last, n, f)
           m == [n \in D |-> Len(parts) + 1 - n]
           G == [x \in D \X [D -> Parts] |-> S(x[1], x[2])]
           Solution(f) == f = [n \in D |-> S(n, f)]
           from == CHOOSE f : Solution(f)
<1>1. Len(parts) \in Nat /\ m \in [D -> Nat] /\ Parts # {}
  <2>1. Len(parts) \in Nat
    OBVIOUS
  <2>2. m \in [D -> Nat]
    BY <2>1
  <2>3. Parts # {}
    BY Monoid
  <2> QED
    BY <2>1, <2>2, <2>3
<1>2. ASSUME NEW n \in D, NEW f \in [D -> Parts]
      PROVE  /\ S(n, f) \in Parts
             /\ n <= Len(parts) => n + 1 \in D /\ m[n + 1] < m[n]
  <2>1. CASE n > Len(parts)
    BY <2>1, Monoid DEF ListStep
  <2>2. CASE ~(n > Len(parts))
    <3>1. n + 1 \in D /\ n \in 1 .. Len(parts) /\ m[n + 1] < m[n]
      BY <2>2, <1>1
    <3>2. parts[n] \in Parts /\ f[n + 1] \in Parts
      BY <3>1
    <3>3. (IF n = Len(parts) THEN last ELSE separator) \in Parts
      OBVIOUS
    <3>4. (IF n = Len(parts) THEN last ELSE separator) ++ f[n + 1] \in Parts
      BY <3>2, <3>3, Monoid
    <3> HIDE DEF D, m
    <3> QED
      BY <2>2, <3>1, <3>2, <3>4, Monoid DEF ListStep
  <2> QED
    BY <2>1, <2>2
<1>3. ASSUME NEW n \in D, NEW f \in [D -> Parts], NEW g \in [D -> Parts],
             \A k \in D : m[k] < m[n] => f[k] = g[k]
      PROVE  S(n, f) = S(n, g)
  <2>1. n <= Len(parts) => f[n + 1] = g[n + 1]
    <3> HIDE DEF m, D
    <3> QED
      BY <1>2, <1>3
  <2>2. n \in Nat
    BY <1>1
  <2>3. CASE n > Len(parts)
    BY <2>3 DEF ListStep
  <2>4. CASE ~(n > Len(parts))
    <3>1. f[n + 1] = g[n + 1]
      BY <1>1, <2>1, <2>2, <2>4
    <3> QED
      BY <3>1 DEF ListStep
  <2> QED
    BY <2>3, <2>4
<1>4. \E f \in [D -> Parts] : \A n \in D : f[n] = S(n, f)
  <2>1. G \in [D \X [D -> Parts] -> Parts]
    <3> HIDE DEF D, S
    <3> QED
      BY <1>2
  <2>2. ASSUME NEW n \in D, NEW f \in [D -> Parts] PROVE G[<<n, f>>] = S(n, f)
    <3> HIDE DEF D, S
    <3> QED
      OBVIOUS
  <2>2a. \A n \in D : \A f, g \in [D -> Parts] :
            (\A k \in D : m[k] < m[n] => f[k] = g[k]) => G[<<n, f>>] = G[<<n, g>>]
    <3> HIDE DEF D, S, m, G
    <3> QED
      BY <1>3, <2>2
  <2> HIDE DEF D, S, m, G
  <2>3. DescendsAlong(m, G, D, Parts)
    BY <1>1, <2>1, <2>2a DEF DescendsAlong
  <2>4. PICK f \in [D -> Parts] : \A n \in D : f[n] = G[<<n, f>>]
    BY <2>3, Recursion
  <2> QED
    BY <2>2, <2>4
<1>5. from = [n \in D |-> S(n, from)]
  <2>1. PICK f \in [D -> Parts] : \A n \in D : f[n] = S(n, f)
    BY <1>4
  <2> HIDE DEF D, S
  <2>2. f = [n \in D |-> S(n, f)]
    BY <2>1
  <2> QED
    BY <2>2
<1>6. from[1] = Listed(parts, separator, last)
  BY Zenon DEF Listed, ListStep
<1> HIDE DEF from
<1>6a. from \in [D -> Parts]
  <2> DEFINE Bad == {k \in Nat : \E n \in D : m[n] = k /\ from[n] \notin Parts}
  <2>1. ASSUME Bad # {} PROVE FALSE
    <3>1. PICK k \in Bad : \A j \in Bad : k <= j
      <4> HIDE DEF Bad
      <4>1. Bad \in SUBSET Nat
        BY DEF Bad
      <4> QED
        BY <2>1, <4>1, LeastNat
    <3>2. PICK n \in D : m[n] = k /\ from[n] \notin Parts
      BY <3>1
    <3>3. from[n] = S(n, from)
      BY <1>5
    <3>4. n <= Len(parts)
      BY <1>1, <3>2, <3>3, Monoid DEF ListStep
    <3>5. n + 1 \in D /\ m[n + 1] < m[n] /\ m[n + 1] \in Nat /\ n \in 1 .. Len(parts)
      BY <1>1, <3>4
    <3>6. from[n + 1] \in Parts
      <4> HIDE DEF m, D
      <4> QED
        BY <3>1, <3>2, <3>5
    <3>7. parts[n] \in Parts /\ (IF n = Len(parts) THEN last ELSE separator) \in Parts
      BY <3>5
    <3>8. (IF n = Len(parts) THEN last ELSE separator) ++ from[n + 1] \in Parts
      BY <3>6, <3>7, Monoid
    <3>9. S(n, from) \in Parts
      <4>1. ~(n > Len(parts))
        BY <1>1, <3>4
      <4> QED
        BY <4>1, <3>7, <3>8, Monoid DEF ListStep
    <3> QED
      BY <3>2, <3>3, <3>9
  <2>2. ASSUME NEW n \in D PROVE from[n] \in Parts
    <3> HIDE DEF m, D
    <3> QED
      BY <1>1, <2>1
  <2> HIDE DEF D, S
  <2> QED
    BY <1>5, <2>2
<1>7. from[Len(parts) + 1] = Nothing
  BY <1>1, <1>5 DEF ListStep
<1>8. ASSUME NEW n \in 1 .. Len(parts)
      PROVE  from[n] = parts[n]
                       ++ ((IF n = Len(parts) THEN last ELSE separator) ++ from[n + 1])
  BY <1>1, <1>5 DEF ListStep
<1> QED
  BY <1>6, <1>6a, <1>7, <1>8 DEF ListsFrom

\* The texts of the values in an item, which f gives, and those of its members.
ValueTexts(l, f) ==
  [n \in DOMAIN kids[l.item] |-> f[At(kids[l.item][n], l.format, l.depth + 1)]]
MemberTexts(l, f) ==
  [n \in DOMAIN kids[l.item] |->
     Tabs(l.format, l.depth + 1) ++ (Name(l.item, n, l.format) ++ ValueTexts(l, f)[n])]
CommaText(format) == Part(<<",">>, 1) ++ Space(format)

\* What the text of an item is, told of the function f that says it of others.
TextStep(l, f) ==
  CASE kind[l.item] = "Array" ->
         Part(<<"[">>, 1)
         ++ (Listed(ValueTexts(l, f), CommaText(l.format), Nothing) ++ Part(<<"]">>, 1))
    [] kind[l.item] = "Object" ->
         (Part(<<"{">>, 1) ++ Space(l.format))
         ++ (Listed(MemberTexts(l, f), CommaText(l.format), Space(l.format))
             ++ (Tabs(l.format, l.depth) ++ Part(<<"}">>, 1)))
    [] kind[l.item] = "String" -> Part(<<"s">>, size[l.item] + 2)
    [] OTHER -> Part(<<"n">>, size[l.item])

\* The parts of a text that are no values.
LEMMA Punctuation ==
  /\ \A x \in Symbol : \A n \in Nat : Part(<<x>>, n) \in Parts
  /\ \A format \in BOOLEAN :
       /\ Space(format) \in Parts /\ CommaText(format) \in Parts
       /\ Part(<<":">>, 1) ++ Space(format) \in Parts
       /\ Part(<<"{">>, 1) ++ Space(format) \in Parts
       /\ \A depth \in Nat : /\ Tabs(format, depth) \in Parts
                             /\ Tabs(format, depth) ++ Part(<<"}">>, 1) \in Parts
  /\ \A i \in Item, format \in BOOLEAN : \A n \in DOMAIN kids[i] :
       Name(i, n, format) \in Parts
<1>1. ASSUME NEW x \in Symbol, NEW n \in Nat PROVE Part(<<x>>, n) \in Parts
  <2>1. <<x>> \in Seq(Symbol)
    OBVIOUS
  <2> QED
    BY <2>1 DEF Part, Parts
<1>2. /\ "," \in Symbol /\ ":" \in Symbol /\ "{" \in Symbol /\ "}" \in Symbol
      /\ " " \in Symbol /\ "s" \in Symbol
  BY DEF Symbol
<1>3. ASSUME NEW format \in BOOLEAN
      PROVE  /\ Space(format) \in Parts /\ CommaText(format) \in Parts
             /\ Part(<<":">>, 1) ++ Space(format) \in Parts
             /\ Part(<<"{">>, 1) ++ Space(format) \in Parts
             /\ \A depth \in Nat : /\ Tabs(format, depth) \in Parts
                                   /\ Tabs(format, depth) ++ Part(<<"}">>, 1) \in Parts
  <2>1. Space(format) \in Parts
    BY <1>1, <1>2, Monoid DEF Space
  <2>2. /\ Part(<<",">>, 1) \in Parts /\ Part(<<":">>, 1) \in Parts
        /\ Part(<<"{">>, 1) \in Parts /\ Part(<<"}">>, 1) \in Parts
    BY <1>1, <1>2
  <2>3. ASSUME NEW depth \in Nat PROVE Tabs(format, depth) \in Parts
    BY <1>1, <1>2, Monoid DEF Tabs
  <2> QED
    BY <2>1, <2>2, <2>3, Monoid DEF CommaText
<1>4. ASSUME NEW i \in Item, NEW format \in BOOLEAN, NEW n \in DOMAIN kids[i]
      PROVE  Name(i, n, format) \in Parts
  <2>1. kids[i][n] \in Item
    BY PrinterAssumption
  <2>2. keysize[kids[i][n]] + 2 \in Nat
    BY <2>1, PrinterAssumption
  <2>3. Part(<<"s">>, keysize[kids[i][n]] + 2) \in Parts
    BY <1>1, <1>2, <2>2
  <2> QED
    BY <1>3, <2>3, Monoid DEF Name
<1> QED
  BY <1>1, <1>3, <1>4

\* The layouts of what is in an item, and the texts of it.
LEMMA KidTexts ==
  ASSUME NEW l \in Layouts
  PROVE  /\ kids[l.item] \in Seq(Item)
         /\ \A n \in DOMAIN kids[l.item] :
              /\ At(kids[l.item][n], l.format, l.depth + 1) \in Layouts
              /\ height[kids[l.item][n]] < height[l.item]
         /\ \A f \in [Layouts -> Parts] :
              /\ ValueTexts(l, f) \in Seq(Parts) /\ MemberTexts(l, f) \in Seq(Parts)
              /\ Len(ValueTexts(l, f)) = Len(kids[l.item])
              /\ Len(MemberTexts(l, f)) = Len(kids[l.item])
<1> DEFINE s == kids[l.item]
<1>1. l.item \in Item /\ l.format \in BOOLEAN /\ l.depth \in Nat /\ s \in Seq(Item)
  BY PrinterAssumption DEF Layouts
<1>2. ASSUME NEW n \in DOMAIN s
      PROVE  /\ s[n] \in Item /\ At(s[n], l.format, l.depth + 1) \in Layouts
             /\ height[s[n]] < height[l.item]
  <2>1. s[n] \in Item /\ l.depth + 1 \in Nat
    BY <1>1
  <2>2. height[s[n]] < height[l.item]
    BY <1>1, HeightAssumption
  <2> HIDE DEF s
  <2> QED
    BY <1>1, <2>1, <2>2 DEF At, Layouts
<1>3. Len(s) \in Nat /\ DOMAIN s = 1 .. Len(s)
  BY <1>1
<1>4. ASSUME NEW f \in [Layouts -> Parts]
      PROVE  /\ ValueTexts(l, f) \in Seq(Parts) /\ MemberTexts(l, f) \in Seq(Parts)
             /\ Len(ValueTexts(l, f)) = Len(s) /\ Len(MemberTexts(l, f)) = Len(s)
  <2> DEFINE v == ValueTexts(l, f)
             w == MemberTexts(l, f)
  <2>1. v \in [1 .. Len(s) -> Parts]
    <3>1. v = [n \in 1 .. Len(s) |-> f[At(s[n], l.format, l.depth + 1)]]
      BY <1>3 DEF ValueTexts
    <3>2. ASSUME NEW n \in 1 .. Len(s) PROVE f[At(s[n], l.format, l.depth + 1)] \in Parts
      <4> HIDE DEF s
      <4> QED
        BY <1>2, <1>3
    <3> HIDE DEF s, v
    <3> QED
      BY <3>1, <3>2
  <2>2. w \in [1 .. Len(s) -> Parts]
    <3>1. w = [n \in 1 .. Len(s) |->
                 Tabs(l.format, l.depth + 1) ++ (Name(l.item, n, l.format) ++ v[n])]
      BY <1>3 DEF MemberTexts
    <3>2. ASSUME NEW n \in 1 .. Len(s)
          PROVE  Tabs(l.format, l.depth + 1) ++ (Name(l.item, n, l.format) ++ v[n]) \in Parts
      <4>1. v[n] \in Parts
        BY <2>1
      <4>2. Name(l.item, n, l.format) \in Parts
        <5>1. n \in DOMAIN kids[l.item]
          BY <1>3
        <5> QED
          BY <1>1, <5>1, Punctuation
      <4>3. Tabs(l.format, l.depth + 1) \in Parts
        <5>1. l.depth + 1 \in Nat
          BY <1>1
        <5> QED
          BY <1>1, <5>1, Punctuation
      <4> HIDE DEF v, s
      <4> QED
        BY <4>1, <4>2, <4>3, Monoid
    <3> HIDE DEF s, v, w
    <3> QED
      BY <3>1, <3>2
  <2> HIDE DEF v, w, s
  <2>3. v \in Seq(Parts) /\ Len(v) = Len(s)
    BY <1>3, <2>1
  <2>4. w \in Seq(Parts) /\ Len(w) = Len(s)
    BY <1>3, <2>2
  <2> QED
    BY <2>3, <2>4 DEF v, w, s
<1> QED
  BY <1>1, <1>2, <1>4

\* The text of an item is made of parts, whatever the texts in it are, and it
\* depends on them alone.
LEMMA TextStepType ==
  ASSUME NEW l \in Layouts, NEW f \in [Layouts -> Parts]
  PROVE  TextStep(l, f) \in Parts
<1>1. l.item \in Item /\ l.format \in BOOLEAN /\ l.depth \in Nat /\ size[l.item] \in Nat
  BY PrinterAssumption DEF Layouts
<1>2. ValueTexts(l, f) \in Seq(Parts) /\ MemberTexts(l, f) \in Seq(Parts)
  BY KidTexts
<1>3. ASSUME NEW parts \in Seq(Parts), NEW separator \in Parts, NEW last \in Parts
      PROVE  Listed(parts, separator, last) \in Parts
  <2>1. PICK from \in [1 .. Len(parts) + 1 -> Parts] : from[1] = Listed(parts, separator, last)
    BY ListedSteps DEF ListsFrom
  <2>2. 1 \in 1 .. Len(parts) + 1
    OBVIOUS
  <2> QED
    BY <2>1, <2>2
<1>4. /\ "[" \in Symbol /\ "]" \in Symbol /\ "s" \in Symbol /\ "n" \in Symbol
  BY DEF Symbol
<1>5. Nothing \in Parts /\ CommaText(l.format) \in Parts /\ Space(l.format) \in Parts
  BY <1>1, Monoid, Punctuation
<1>6. CASE kind[l.item] = "Array"
  <2>1. Listed(ValueTexts(l, f), CommaText(l.format), Nothing) \in Parts
    BY <1>2, <1>3, <1>5
  <2>2. Part(<<"[">>, 1) \in Parts /\ Part(<<"]">>, 1) \in Parts
    BY <1>4, Punctuation
  <2> QED
    BY <1>6, <2>1, <2>2, Monoid DEF TextStep
<1>7. CASE kind[l.item] = "Object"
  <2>1. Listed(MemberTexts(l, f), CommaText(l.format), Space(l.format)) \in Parts
    BY <1>2, <1>3, <1>5
  <2>2. /\ Part(<<"{">>, 1) ++ Space(l.format) \in Parts
        /\ Tabs(l.format, l.depth) ++ Part(<<"}">>, 1) \in Parts
    BY <1>1, Punctuation
  <2> QED
    BY <1>7, <2>1, <2>2, Monoid DEF TextStep
<1>8. CASE kind[l.item] = "String"
  <2>1. size[l.item] + 2 \in Nat
    BY <1>1
  <2> QED
    BY <1>4, <1>8, <2>1, Punctuation DEF TextStep
<1>9. CASE kind[l.item] \notin {"Array", "Object", "String"}
  BY <1>1, <1>4, <1>9, Punctuation DEF TextStep
<1> QED
  BY <1>6, <1>7, <1>8, <1>9

\* It is the same for two functions that agree on the items inside.
LEMMA TextStepDepends ==
  ASSUME NEW l \in Layouts, NEW f, NEW g,
         \A n \in DOMAIN kids[l.item] :
           f[At(kids[l.item][n], l.format, l.depth + 1)]
           = g[At(kids[l.item][n], l.format, l.depth + 1)]
  PROVE  TextStep(l, f) = TextStep(l, g)
<1>1. ValueTexts(l, f) = ValueTexts(l, g)
  BY DEF ValueTexts
<1>2. MemberTexts(l, f) = MemberTexts(l, g)
  BY <1>1 DEF MemberTexts
<1> QED
  BY <1>1, <1>2 DEF TextStep

\* The definition of JsonText determines it.
LEMMA JsonTextSteps ==
  /\ JsonText \in [Layouts -> Parts]
  /\ \A l \in Layouts : JsonText[l] = TextStep(l, JsonText)
<1> DEFINE m == [l \in Layouts |-> height[l.item]]
           G == [x \in Layouts \X [Layouts -> Parts] |-> TextStep(x[1], x[2])]
           Solution(f) == f = [l \in Layouts |-> TextStep(l, f)]
           text == CHOOSE f : Solution(f)
           Agree(l, f, g) == \A n \in DOMAIN kids[l.item] :
                               f[At(kids[l.item][n], l.format, l.depth + 1)]
                               = g[At(kids[l.item][n], l.format, l.depth + 1)]
<1>1. m \in [Layouts -> Nat] /\ Parts # {}
  <2>1. \A l \in Layouts : l.item \in Item
    BY DEF Layouts
  <2> QED
    BY <2>1, HeightAssumption, Monoid
<1>2. G \in [Layouts \X [Layouts -> Parts] -> Parts]
  BY TextStepType
<1>3. ASSUME NEW l \in Layouts, NEW f, NEW g, \A k \in Layouts : m[k] < m[l] => f[k] = g[k]
      PROVE  TextStep(l, f) = TextStep(l, g)
  <2>1. ASSUME NEW n \in DOMAIN kids[l.item]
        PROVE  f[At(kids[l.item][n], l.format, l.depth + 1)]
               = g[At(kids[l.item][n], l.format, l.depth + 1)]
    <3> DEFINE k == At(kids[l.item][n], l.format, l.depth + 1)
    <3>1. k \in Layouts /\ k.item = kids[l.item][n] /\ height[kids[l.item][n]] < height[l.item]
      BY KidTexts DEF At
    <3> HIDE DEF k
    <3>2. m[k] < m[l]
      BY <3>1
    <3> HIDE DEF m
    <3>3. f[k] = g[k]
      BY <1>3, <3>1, <3>2
    <3> QED
      BY <3>3 DEF k
  <2> QED
    BY <2>1, TextStepDepends
<1>4. PICK f \in [Layouts -> Parts] : \A l \in Layouts : f[l] = TextStep(l, f)
  <2>1. ASSUME NEW l \in Layouts, NEW g \in [Layouts -> Parts]
        PROVE  G[<<l, g>>] = TextStep(l, g)
    OBVIOUS
  <2> HIDE DEF m, G
  <2>2. \A l \in Layouts : \A g, k \in [Layouts -> Parts] :
          (\A y \in Layouts : m[y] < m[l] => g[y] = k[y]) => G[<<l, g>>] = G[<<l, k>>]
    BY <1>3, <2>1
  <2>3. DescendsAlong(m, G, Layouts, Parts)
    BY <1>1, <1>2, <2>2 DEF DescendsAlong
  <2>4. PICK g \in [Layouts -> Parts] : \A l \in Layouts : g[l] = G[<<l, g>>]
    BY <2>3, Recursion
  <2> QED
    BY <2>1, <2>4
<1>5. text = [l \in Layouts |-> TextStep(l, text)]
  <2>1. f = [l \in Layouts |-> TextStep(l, f)]
    BY <1>4
  <2> QED
    BY <2>1
<1>6. text = JsonText
  BY Zenon DEF JsonText, TextStep, ValueTexts, MemberTexts, CommaText
<1> HIDE DEF text
<1>7. ASSUME NEW l \in Layouts PROVE f[l] = text[l]
  <2> DEFINE Bad == {m[k] : k \in {j \in Layouts : f[j] # text[j]}}
  <2>1. ASSUME Bad # {} PROVE FALSE
    <3>1. PICK x \in Bad : \A y \in Bad : x <= y
      <4>1. Bad \in SUBSET Nat
        <5> HIDE DEF m
        <5> QED
          BY <1>1
      <4> HIDE DEF Bad
      <4> QED
        BY <2>1, <4>1, LeastNat
    <3> HIDE DEF m
    <3>2. PICK k \in Layouts : x = m[k] /\ f[k] # text[k]
      BY <3>1
    <3>3. ASSUME NEW j \in Layouts, m[j] < m[k] PROVE f[j] = text[j]
      <4>1. ASSUME f[j] # text[j] PROVE FALSE
        <5>1. m[j] \in Bad
          BY <4>1
        <5> HIDE DEF Bad
        <5> QED
          BY <1>1, <3>1, <3>2, <3>3, <5>1
      <4> QED
        BY <4>1
    <3>4. TextStep(k, f) = TextStep(k, text)
      BY <1>3, <3>3
    <3> QED
      BY <1>4, <1>5, <3>2, <3>4
  <2> HIDE DEF m
  <2> QED
    BY <2>1
<1>8. text = f
  BY <1>4, <1>5, <1>7
<1> QED
  BY <1>4, <1>6, <1>8

\* An item can be printed if it is of a type that exists, and all in it can.
LEMMA PrintableSteps ==
  \A i \in Item :
    Printable[i] <=> /\ kind[i] # "Invalid"
                     /\ kind[i] \in {"Array", "Object"} =>
                          \A n \in DOMAIN kids[i] : Printable[kids[i][n]]
<1> DEFINE S(i, f) == /\ kind[i] # "Invalid"
                      /\ kind[i] \in {"Array", "Object"} => \A n \in DOMAIN kids[i] : f[kids[i][n]]
           G == [x \in Item \X [Item -> BOOLEAN] |-> S(x[1], x[2])]
           Solution(f) == f = [i \in Item |-> S(i, f)]
           can == CHOOSE f : Solution(f)
<1>1. ASSUME NEW i \in Item, NEW f \in [Item -> BOOLEAN], NEW g \in [Item -> BOOLEAN],
             \A k \in Item : height[k] < height[i] => f[k] = g[k]
      PROVE  S(i, f) = S(i, g)
  <2>1. ASSUME NEW n \in DOMAIN kids[i] PROVE f[kids[i][n]] = g[kids[i][n]]
    <3>1. kids[i] \in Seq(Item)
      BY PrinterAssumption
    <3>2. kids[i][n] \in Item /\ height[kids[i][n]] < height[i]
      BY <3>1, HeightAssumption
    <3> QED
      BY <1>1, <3>2
  <2> QED
    BY <2>1
<1>2. PICK f \in [Item -> BOOLEAN] : \A i \in Item : f[i] = S(i, f)
  <2>1. ASSUME NEW i \in Item, NEW g \in [Item -> BOOLEAN]
        PROVE  G[<<i, g>>] = S(i, g)
    <3> HIDE DEF S
    <3> QED
      OBVIOUS
  <2>2. G \in [Item \X [Item -> BOOLEAN] -> BOOLEAN]
    OBVIOUS
  <2>3. height \in [Item -> Nat]
    BY HeightAssumption
  <2> HIDE DEF G, S
  <2>4. \A i \in Item : \A g, k \in [Item -> BOOLEAN] :
          (\A y \in Item : height[y] < height[i] => g[y] = k[y]) => G[<<i, g>>] = G[<<i, k>>]
    BY <1>1, <2>1
  <2>5. DescendsAlong(height, G, Item, BOOLEAN)
    BY <2>2, <2>3, <2>4 DEF DescendsAlong
  <2>6. PICK g \in [Item -> BOOLEAN] : \A i \in Item : g[i] = G[<<i, g>>]
    BY <2>5, Recursion
  <2> QED
    BY <2>1, <2>6
<1>3. can = [i \in Item |-> S(i, can)]
  <2> HIDE DEF S
  <2>1. f = [i \in Item |-> S(i, f)]
    BY <1>2
  <2> QED
    BY <2>1
<1>4. can = Printable
  BY Zenon DEF Printable
<1> HIDE DEF can
<1>5. ASSUME NEW i \in Item PROVE can[i] = S(i, can)
  <2> HIDE DEF S
  <2> QED
    BY <1>3
<1> QED
  BY <1>4, <1>5

\* What a step prints at a depth, and which steps end a level.
Output(s, format, depth) ==
  CASE s.op = "value" -> JsonText[At(s.item, format, depth)]
    [] s.op = "indent" -> Tabs(format, depth)
    [] s.op = "key" -> Part(<<"s">>, keysize[kids[s.item][s.k]] + 2)
    [] s.op = "colon" -> Part(<<":">>, 1) ++ Space(format)
    [] s.op = "comma" ->
         IF s.k # Len(kids[s.item]) THEN CommaText(format)
         ELSE IF kind[s.item] = "Object" THEN Space(format) ELSE Nothing
    [] s.op = "close" ->
         IF kind[s.item] = "Object" THEN Tabs(format, depth - 1) ++ Part(<<"}">>, 1)
         ELSE Part(<<"]">>, 1)
Ends(s) == IF s.op = "close" THEN 1 ELSE 0

\* What every step of a stack prints: out[n] is the text from step n on, deep[n]
\* the depth before it.
Prints(s, format, depth, end, text) ==
  \E out \in [1 .. Len(s) + 1 -> Parts], deep \in [1 .. Len(s) + 1 -> Nat] :
    /\ out[1] = text /\ out[Len(s) + 1] = Nothing
    /\ deep[1] = depth /\ deep[Len(s) + 1] = end
    /\ \A n \in 1 .. Len(s) :
         /\ out[n] = Output(s[n], format, deep[n]) ++ out[n + 1]
         /\ deep[n] = deep[n + 1] + Ends(s[n])

\* A step prints a part of a text.
LEMMA OutputType ==
  ASSUME NEW s \in StepSet, NEW format \in BOOLEAN, NEW depth \in Nat,
         depth - Ends(s) \in Nat
  PROVE  Output(s, format, depth) \in Parts
<1>1. s.item \in Item /\ s.op \in {"value", "comma", "close", "indent", "key", "colon"}
  BY DEF StepSet
<1>2. CASE s.op = "value"
  <2>1. At(s.item, format, depth) \in Layouts
    BY <1>1 DEF At, Layouts
  <2> QED
    BY <1>2, <2>1, JsonTextSteps DEF Output
<1>3. CASE s.op = "indent"
  BY <1>3, Punctuation DEF Output
<1>4. CASE s.op = "key"
  <2>1. s.k \in 1 .. Len(kids[s.item]) /\ kids[s.item] \in Seq(Item)
    BY <1>1, <1>4, PrinterAssumption DEF StepSet
  <2>2. keysize[kids[s.item][s.k]] + 2 \in Nat
    <3>1. kids[s.item][s.k] \in Item
      BY <2>1
    <3>2. keysize[kids[s.item][s.k]] \in Nat
      BY <3>1, PrinterAssumption
    <3> QED
      BY <3>2
  <2>3. "s" \in Symbol
    BY DEF Symbol
  <2>4. Part(<<"s">>, keysize[kids[s.item][s.k]] + 2) \in Parts
    BY <2>2, <2>3, Punctuation
  <2> QED
    BY <1>4, <2>4 DEF Output
<1>5. CASE s.op = "colon"
  BY <1>5, Punctuation DEF Output
<1>6. CASE s.op = "comma"
  <2>1. CommaText(format) \in Parts /\ Space(format) \in Parts /\ Nothing \in Parts
    BY Punctuation, Monoid
  <2> QED
    BY <1>6, <2>1 DEF Output
<1>7. CASE s.op = "close"
  <2>1. depth - 1 \in Nat
    BY <1>7 DEF Ends
  <2>2. Tabs(format, depth - 1) ++ Part(<<"}">>, 1) \in Parts
    BY <2>1, Punctuation
  <2>3. Part(<<"]">>, 1) \in Parts
    <3>1. "]" \in Symbol
      BY DEF Symbol
    <3> QED
      BY <3>1, Punctuation
  <2> QED
    BY <1>7, <2>2, <2>3 DEF Output
<1> QED
  BY <1>1, <1>2, <1>3, <1>4, <1>5, <1>6, <1>7

\* No steps print nothing.
LEMMA PrintsNothing ==
  /\ \A format, depth, end, text :
       Prints(<< >>, format, depth, end, text) => text = Nothing /\ end = depth
  /\ \A format : \A depth \in Nat : Prints(<< >>, format, depth, depth, Nothing)
<1>1. Len(<< >>) = 0
  OBVIOUS
<1>2. ASSUME NEW format, NEW depth, NEW end, NEW text, Prints(<< >>, format, depth, end, text)
      PROVE  text = Nothing /\ end = depth
  BY <1>1, <1>2 DEF Prints
<1>3. ASSUME NEW format, NEW depth \in Nat
      PROVE  Prints(<< >>, format, depth, depth, Nothing)
  <2> DEFINE out == [n \in 1 .. 1 |-> Nothing]
             deep == [n \in 1 .. 1 |-> depth]
  <2>1. Len(<< >>) + 1 = 1 /\ 1 \in 1 .. 1 /\ \A n \in 1 .. Len(<< >>) : FALSE
    BY <1>1
  <2>2. out \in [1 .. 1 -> Parts] /\ deep \in [1 .. 1 -> Nat]
    BY Monoid
  <2>3. out[1] = Nothing /\ deep[1] = depth
    BY <2>1
  <2> HIDE DEF out, deep
  <2> QED
    BY <2>1, <2>2, <2>3 DEF Prints
<1> QED
  BY <1>2, <1>3

\* The first step prints the first part, and what is left prints the rest.
LEMMA PrintsTail ==
  ASSUME NEW s \in Seq(StepSet), s # << >>, NEW format, NEW depth, NEW end, NEW text,
         Prints(s, format, depth, end, text)
  PROVE  /\ depth \in Nat /\ depth - Ends(s[1]) \in Nat
         /\ \E rest \in Parts :
              /\ text = Output(s[1], format, depth) ++ rest
              /\ Prints(Tail(s), format, depth - Ends(s[1]), end, rest)
<1>1. PICK out \in [1 .. Len(s) + 1 -> Parts], deep \in [1 .. Len(s) + 1 -> Nat] :
        /\ out[1] = text /\ out[Len(s) + 1] = Nothing
        /\ deep[1] = depth /\ deep[Len(s) + 1] = end
        /\ \A n \in 1 .. Len(s) :
             /\ out[n] = Output(s[n], format, deep[n]) ++ out[n + 1]
             /\ deep[n] = deep[n + 1] + Ends(s[n])
  BY DEF Prints
<1> DEFINE t == Tail(s)
           past == [n \in 1 .. Len(t) + 1 |-> out[n + 1]]
           left == [n \in 1 .. Len(t) + 1 |-> deep[n + 1]]
<1>2. /\ Len(s) \in Nat /\ Len(s) > 0 /\ Len(t) = Len(s) - 1
      /\ \A n \in 1 .. Len(t) : t[n] = s[n + 1]
  OBVIOUS
<1> HIDE DEF t
<1>3. /\ \A n \in 1 .. Len(t) + 1 : n + 1 \in 1 .. Len(s) + 1
      /\ \A n \in 1 .. Len(t) : /\ n \in 1 .. Len(t) + 1 /\ n + 1 \in 1 .. Len(t) + 1
                                /\ n + 1 \in 1 .. Len(s)
      /\ 1 \in 1 .. Len(s) /\ 1 \in 1 .. Len(s) + 1 /\ 2 \in 1 .. Len(s) + 1 /\ 1 + 1 = 2
      /\ 1 \in 1 .. Len(t) + 1 /\ Len(t) + 1 \in 1 .. Len(t) + 1 /\ (Len(t) + 1) + 1 = Len(s) + 1
  BY <1>2
<1>4. /\ past \in [1 .. Len(t) + 1 -> Parts] /\ left \in [1 .. Len(t) + 1 -> Nat]
      /\ \A n \in 1 .. Len(t) + 1 : past[n] = out[n + 1] /\ left[n] = deep[n + 1]
  BY <1>1, <1>3
<1> HIDE DEF past, left
<1>5. /\ depth \in Nat /\ deep[2] \in Nat /\ depth = deep[2] + Ends(s[1]) /\ out[2] \in Parts
      /\ text = Output(s[1], format, depth) ++ out[2]
  BY <1>1, <1>3
<1>6. depth - Ends(s[1]) = deep[2]
  BY <1>5 DEF Ends
<1>7. Prints(t, format, deep[2], end, out[2])
  <2>1. /\ past[1] = out[2] /\ past[Len(t) + 1] = Nothing
        /\ left[1] = deep[2] /\ left[Len(t) + 1] = end
    BY <1>1, <1>3, <1>4
  <2>2. ASSUME NEW n \in 1 .. Len(t)
        PROVE  /\ past[n] = Output(t[n], format, left[n]) ++ past[n + 1]
               /\ left[n] = left[n + 1] + Ends(t[n])
    <3>1. /\ out[n + 1] = Output(s[n + 1], format, deep[n + 1]) ++ out[(n + 1) + 1]
          /\ deep[n + 1] = deep[(n + 1) + 1] + Ends(s[n + 1])
      BY <1>1, <1>3
    <3>2. /\ past[n] = out[n + 1] /\ past[n + 1] = out[(n + 1) + 1]
          /\ left[n] = deep[n + 1] /\ left[n + 1] = deep[(n + 1) + 1] /\ t[n] = s[n + 1]
      BY <1>2, <1>3, <1>4
    <3> QED
      BY <3>1, <3>2, Zenon
  <2> QED
    BY <1>4, <2>1, <2>2 DEF Prints
<1> QED
  BY <1>5, <1>6, <1>7 DEF t

\* Stacks in front of each other print their texts behind each other.
LEMMA PrintsConcat ==
  ASSUME NEW s \in Seq(StepSet), NEW t \in Seq(StepSet), NEW format \in BOOLEAN,
         NEW a, NEW b, NEW c, NEW x, NEW y,
         Prints(s, format, a, b, x), Prints(t, format, b, c, y)
  PROVE  x \in Parts /\ y \in Parts /\ Prints(s \o t, format, a, c, x ++ y)
<1>1. PICK out \in [1 .. Len(s) + 1 -> Parts], deep \in [1 .. Len(s) + 1 -> Nat] :
        /\ out[1] = x /\ out[Len(s) + 1] = Nothing
        /\ deep[1] = a /\ deep[Len(s) + 1] = b
        /\ \A n \in 1 .. Len(s) :
             /\ out[n] = Output(s[n], format, deep[n]) ++ out[n + 1]
             /\ deep[n] = deep[n + 1] + Ends(s[n])
  BY DEF Prints
<1>2. PICK o \in [1 .. Len(t) + 1 -> Parts], d \in [1 .. Len(t) + 1 -> Nat] :
        /\ o[1] = y /\ o[Len(t) + 1] = Nothing
        /\ d[1] = b /\ d[Len(t) + 1] = c
        /\ \A n \in 1 .. Len(t) :
             /\ o[n] = Output(t[n], format, d[n]) ++ o[n + 1]
             /\ d[n] = d[n + 1] + Ends(t[n])
  BY DEF Prints
<1> DEFINE k == Len(s)
           u == s \o t
<1>3. /\ k \in Nat /\ Len(t) \in Nat /\ Len(u) = k + Len(t)
      /\ \A n \in 1 .. k : u[n] = s[n]
      /\ \A n \in 1 .. Len(u) : n > k => u[n] = t[n - k]
  OBVIOUS
<1>4. x \in Parts /\ y \in Parts /\ b \in Nat
  <2>1. 1 \in 1 .. Len(s) + 1 /\ 1 \in 1 .. Len(t) + 1
    BY <1>3
  <2> QED
    BY <1>1, <1>2, <2>1
<1> DEFINE all == [n \in 1 .. Len(u) + 1 |-> IF n <= k THEN out[n] ++ y ELSE o[n - k]]
           level == [n \in 1 .. Len(u) + 1 |-> IF n <= k THEN deep[n] ELSE d[n - k]]
<1> HIDE DEF k, u
<1>5. /\ \A n \in 1 .. Len(u) + 1 : n <= k => n \in 1 .. k + 1
      /\ \A n \in 1 .. Len(u) + 1 : ~(n <= k) => n - k \in 1 .. Len(t) + 1
      /\ 1 \in 1 .. Len(u) + 1 /\ Len(u) + 1 \in 1 .. Len(u) + 1
  BY <1>3
<1>6. /\ all \in [1 .. Len(u) + 1 -> Parts] /\ level \in [1 .. Len(u) + 1 -> Nat]
      /\ \A n \in 1 .. Len(u) + 1 : n <= k => all[n] = out[n] ++ y /\ level[n] = deep[n]
      /\ \A n \in 1 .. Len(u) + 1 : ~(n <= k) => all[n] = o[n - k] /\ level[n] = d[n - k]
  <2>1. ASSUME NEW n \in 1 .. Len(u) + 1, n <= k PROVE out[n] ++ y \in Parts /\ deep[n] \in Nat
    <3>1. n \in 1 .. Len(s) + 1
      BY <1>5, <2>1 DEF k
    <3>2. out[n] \in Parts /\ deep[n] \in Nat
      BY <3>1
    <3> QED
      BY <1>4, <3>2, Monoid
  <2>2. ASSUME NEW n \in 1 .. Len(u) + 1, ~(n <= k) PROVE o[n - k] \in Parts /\ d[n - k] \in Nat
    BY <1>5, <2>2
  <2> QED
    BY <2>1, <2>2
<1> HIDE DEF all, level
<1>7. out[k + 1] = Nothing /\ deep[k + 1] = b
  BY <1>1 DEF k
<1>8. \* What the stacks have where they meet.
      all[k + 1] = y /\ level[k + 1] = b
  <2>1. k + 1 \in 1 .. Len(u) + 1 /\ ~(k + 1 <= k) /\ (k + 1) - k = 1
    BY <1>3
  <2>2. all[k + 1] = o[(k + 1) - k] /\ level[k + 1] = d[(k + 1) - k]
    BY <1>6, <2>1
  <2> QED
    BY <1>2, <2>1, <2>2
<1>9. /\ all[1] = x ++ y /\ all[Len(u) + 1] = Nothing
      /\ level[1] = a /\ level[Len(u) + 1] = c
  <2>1. ~(Len(u) + 1 <= k) /\ (Len(u) + 1) - k = Len(t) + 1
    BY <1>3
  <2>2. all[Len(u) + 1] = Nothing /\ level[Len(u) + 1] = c
    <3>1. all[Len(u) + 1] = o[(Len(u) + 1) - k] /\ level[Len(u) + 1] = d[(Len(u) + 1) - k]
      BY <1>5, <1>6, <2>1
    <3> QED
      BY <1>2, <2>1, <3>1
  <2>3. CASE k = 0
    <3>1. all[1] = y /\ level[1] = b
      BY <1>8, <2>3
    <3>2. x = Nothing /\ a = b
      BY <1>1, <1>7, <2>3
    <3> QED
      BY <1>4, <2>2, <3>1, <3>2, Monoid
  <2>4. CASE k # 0
    <3>1. 1 <= k
      BY <1>3, <2>4
    <3>2. all[1] = out[1] ++ y /\ level[1] = deep[1]
      BY <1>5, <1>6, <3>1
    <3> QED
      BY <1>1, <2>2, <3>2
  <2> QED
    BY <2>3, <2>4
<1>10. ASSUME NEW n \in 1 .. Len(u)
       PROVE  /\ all[n] = Output(u[n], format, level[n]) ++ all[n + 1]
              /\ level[n] = level[n + 1] + Ends(u[n])
  <2>1. n \in 1 .. Len(u) + 1 /\ n + 1 \in 1 .. Len(u) + 1 /\ n \in Nat
    BY <1>3
  <2>2. CASE n <= k
    <3>1. n \in 1 .. Len(s) /\ n \in 1 .. Len(s) + 1 /\ n + 1 \in 1 .. Len(s) + 1 /\ u[n] = s[n]
      BY <1>3, <2>1, <2>2 DEF k
    <3>2. /\ out[n] = Output(u[n], format, deep[n]) ++ out[n + 1]
          /\ deep[n] = deep[n + 1] + Ends(u[n])
          /\ out[n + 1] \in Parts /\ deep[n] \in Nat /\ deep[n + 1] \in Nat
      BY <1>1, <3>1
    <3>3. all[n] = out[n] ++ y /\ level[n] = deep[n]
      BY <1>6, <2>1, <2>2
    <3>4. all[n + 1] = out[n + 1] ++ y /\ level[n + 1] = deep[n + 1]
      <4>1. CASE n + 1 <= k
        BY <1>6, <2>1, <4>1
      <4>2. CASE ~(n + 1 <= k)
        <5>1. n = k
          BY <1>3, <2>1, <2>2, <4>2
        <5> QED
          BY <1>4, <1>7, <1>8, <5>1, Monoid
      <4> QED
        BY <4>1, <4>2
    <3>5. Output(u[n], format, deep[n]) \in Parts
      <4>1. s[n] \in StepSet
        BY <3>1
      <4>2. deep[n] - Ends(u[n]) \in Nat
        BY <3>2 DEF Ends
      <4> QED
        BY <3>1, <3>2, <4>1, <4>2, OutputType
    <3>6. (Output(u[n], format, deep[n]) ++ out[n + 1]) ++ y
          = Output(u[n], format, deep[n]) ++ (out[n + 1] ++ y)
      BY <1>4, <3>2, <3>5, Monoid
    <3>7. all[n] = Output(u[n], format, level[n]) ++ all[n + 1]
      BY <3>2, <3>3, <3>4, <3>6, Zenon
    <3>8. level[n] = level[n + 1] + Ends(u[n])
      BY <3>2, <3>3, <3>4, Zenon
    <3> QED
      BY <3>7, <3>8
  <2>3. CASE ~(n <= k)
    <3>1. /\ n - k \in 1 .. Len(t) /\ ~(n + 1 <= k) /\ (n + 1) - k = (n - k) + 1
          /\ u[n] = t[n - k]
      BY <1>3, <2>1, <2>3
    <3>2. /\ o[n - k] = Output(t[n - k], format, d[n - k]) ++ o[(n - k) + 1]
          /\ d[n - k] = d[(n - k) + 1] + Ends(t[n - k])
      BY <1>2, <3>1
    <3>3. /\ all[n] = o[n - k] /\ all[n + 1] = o[(n + 1) - k]
          /\ level[n] = d[n - k] /\ level[n + 1] = d[(n + 1) - k]
      BY <1>6, <2>1, <2>3, <3>1
    <3> QED
      BY <3>1, <3>2, <3>3, Zenon
  <2> QED
    BY <2>2, <2>3
<1>11. Prints(u, format, a, c, x ++ y)
  BY <1>6, <1>9, <1>10 DEF Prints
<1> QED
  BY <1>4, <1>11 DEF u

\* The steps that print_array plans for an item, and those of print_object.
ElementsAre(s, i) ==
  LET m == Len(kids[i])
  IN  /\ Len(s) = 2 * m + 1
      /\ s[2 * m + 1] = Step("close", i, 0)
      /\ \A k \in 1 .. m : /\ s[2 * k - 1] = Step("value", kids[i][k], 0)
                           /\ s[2 * k] = Step("comma", i, k)
      /\ \A n \in 1 .. 2 * m + 1 :
           n = 2 * m + 1 \/ \E k \in 1 .. m : n = 2 * k - 1 \/ n = 2 * k

MembersAre(s, i) ==
  LET m == Len(kids[i])
  IN  /\ Len(s) = 5 * m + 1
      /\ s[5 * m + 1] = Step("close", i, 0)
      /\ \A k \in 1 .. m : /\ s[5 * k - 4] = Step("indent", i, k)
                           /\ s[5 * k - 3] = Step("key", i, k)
                           /\ s[5 * k - 2] = Step("colon", i, k)
                           /\ s[5 * k - 1] = Step("value", kids[i][k], 0)
                           /\ s[5 * k] = Step("comma", i, k)
      /\ \A n \in 1 .. 5 * m + 1 :
           n = 5 * m + 1
           \/ \E k \in 1 .. m : n \in {5 * k - 4, 5 * k - 3, 5 * k - 2, 5 * k - 1, 5 * k}

\* What the stack has of an array, by element.
LEMMA ElementStepsAre ==
  ASSUME item \in Item
  PROVE  ElementsAre(ElementSteps, item)
<1> DEFINE m == Len(kids[item])
           s == ElementSteps
<1>1. m \in Nat
  <2>1. kids[item] \in Seq(Item)
    BY PrinterAssumption
  <2> QED
    BY <2>1
<1>2. Len(s) = 2 * m + 1 /\ 2 * m + 1 \in 1 .. 2 * m + 1
  BY <1>1 DEF ElementSteps, m
<1>3. s[2 * m + 1] = Step("close", item, 0)
  <2>1. 2 * m + 1 > 2 * m
    BY <1>1
  <2> QED
    BY <1>2, <2>1 DEF ElementSteps, m
<1>4. ASSUME NEW k \in 1 .. m
      PROVE  s[2 * k - 1] = Step("value", kids[item][k], 0) /\ s[2 * k] = Step("comma", item, k)
  <2>1. /\ 2 * k - 1 \in 1 .. 2 * m + 1 /\ ~(2 * k - 1 > 2 * m) /\ (2 * k - 1) % 2 = 1
        /\ ((2 * k - 1) + 1) \div 2 = k
        /\ 2 * k \in 1 .. 2 * m + 1 /\ ~(2 * k > 2 * m) /\ (2 * k) % 2 # 1 /\ (2 * k) \div 2 = k
    BY <1>1
  <2> QED
    BY <2>1 DEF ElementSteps, m
<1>5. ASSUME NEW n \in 1 .. 2 * m + 1
      PROVE  n = 2 * m + 1 \/ \E k \in 1 .. m : n = 2 * k - 1 \/ n = 2 * k
  <2>2. CASE n <= 2 * m /\ n % 2 = 1
    <3>1. (n + 1) \div 2 \in 1 .. m /\ n = 2 * ((n + 1) \div 2) - 1
      BY <1>1, <2>2
    <3> QED
      BY <3>1
  <2>3. CASE n <= 2 * m /\ n % 2 # 1
    <3>1. n \div 2 \in 1 .. m /\ n = 2 * (n \div 2)
      BY <1>1, <2>3
    <3> QED
      BY <3>1
  <2> QED
    BY <1>1, <2>2, <2>3
<1> HIDE DEF s
<1>6. ElementsAre(s, item)
  BY <1>2, <1>3, <1>4, <1>5 DEF ElementsAre
<1> QED
  BY <1>6 DEF s

\* What the stack has of an object, by member.
LEMMA MemberStepsAre ==
  ASSUME item \in Item
  PROVE  MembersAre(MemberSteps, item)
<1> DEFINE m == Len(kids[item])
           s == MemberSteps
<1>1. m \in Nat
  <2>1. kids[item] \in Seq(Item)
    BY PrinterAssumption
  <2> QED
    BY <2>1
<1> DEFINE at(n) == LET k == (n + 4) \div 5
                    IN  IF k > m THEN Step("close", item, 0)
                        ELSE CASE n % 5 = 1 -> Step("indent", item, k)
                               [] n % 5 = 2 -> Step("key", item, k)
                               [] n % 5 = 3 -> Step("colon", item, k)
                               [] n % 5 = 4 -> Step("value", kids[item][k], 0)
                               [] n % 5 = 0 -> Step("comma", item, k)
<1>2. s = [n \in 1 .. 5 * m + 1 |-> at(n)]
  BY DEF MemberSteps, m
<1> HIDE DEF s, m
<1>3. Len(s) = 5 * m + 1 /\ 5 * m + 1 \in 1 .. 5 * m + 1
  <2> HIDE DEF at
  <2> QED
    BY <1>1, <1>2
<1>4. ASSUME NEW n \in 1 .. 5 * m + 1 PROVE s[n] = at(n)
  <2> HIDE DEF at
  <2> QED
    BY <1>2
<1>5. s[5 * m + 1] = Step("close", item, 0)
  <2>1. ((5 * m + 1) + 4) \div 5 > m
    BY <1>1
  <2> QED
    BY <1>3, <1>4, <2>1
<1>5a. ASSUME NEW n \in 1 .. 5 * m + 1, NEW k, (n + 4) \div 5 = k, ~(k > m)
       PROVE  /\ n % 5 = 1 => s[n] = Step("indent", item, k)
              /\ n % 5 = 2 => s[n] = Step("key", item, k)
              /\ n % 5 = 3 => s[n] = Step("colon", item, k)
              /\ n % 5 = 4 => s[n] = Step("value", kids[item][k], 0)
              /\ n % 5 = 0 => s[n] = Step("comma", item, k)
  <2>1. s[n] = at(n)
    BY <1>4
  <2> QED
    BY <1>5a, <2>1
<1> HIDE DEF at
<1>6. ASSUME NEW k \in 1 .. m
      PROVE  /\ s[5 * k - 4] = Step("indent", item, k)
             /\ s[5 * k - 3] = Step("key", item, k)
             /\ s[5 * k - 2] = Step("colon", item, k)
             /\ s[5 * k - 1] = Step("value", kids[item][k], 0)
             /\ s[5 * k] = Step("comma", item, k)
  <2>1. ~(k > m)
    BY <1>1
  <2>2. /\ 5 * k - 4 \in 1 .. 5 * m + 1 /\ (5 * k - 4) % 5 = 1 /\ ((5 * k - 4) + 4) \div 5 = k
    BY <1>1
  <2>3. /\ 5 * k - 3 \in 1 .. 5 * m + 1 /\ (5 * k - 3) % 5 = 2 /\ ((5 * k - 3) + 4) \div 5 = k
    BY <1>1
  <2>4. /\ 5 * k - 2 \in 1 .. 5 * m + 1 /\ (5 * k - 2) % 5 = 3 /\ ((5 * k - 2) + 4) \div 5 = k
    BY <1>1
  <2>5. /\ 5 * k - 1 \in 1 .. 5 * m + 1 /\ (5 * k - 1) % 5 = 4 /\ ((5 * k - 1) + 4) \div 5 = k
    BY <1>1
  <2>6. /\ 5 * k \in 1 .. 5 * m + 1 /\ (5 * k) % 5 = 0 /\ (5 * k + 4) \div 5 = k
    BY <1>1
  <2>7. s[5 * k - 4] = Step("indent", item, k)
    BY <1>5a, <2>1, <2>2
  <2>8. s[5 * k - 3] = Step("key", item, k)
    BY <1>5a, <2>1, <2>3
  <2>9. s[5 * k - 2] = Step("colon", item, k)
    BY <1>5a, <2>1, <2>4
  <2>10. s[5 * k - 1] = Step("value", kids[item][k], 0)
    BY <1>5a, <2>1, <2>5
  <2>11. s[5 * k] = Step("comma", item, k)
    BY <1>5a, <2>1, <2>6
  <2> QED
    BY <2>7, <2>8, <2>9, <2>10, <2>11
<1>8. ASSUME NEW n \in 1 .. 5 * m + 1
      PROVE  n = 5 * m + 1 \/ \E k \in 1 .. m : n \in {5 * k - 4, 5 * k - 3, 5 * k - 2, 5 * k - 1, 5 * k}
  <2>2. CASE n <= 5 * m
    <3> DEFINE k == (n + 4) \div 5
    <3>1. k \in 1 .. m /\ n \in {5 * k - 4, 5 * k - 3, 5 * k - 2, 5 * k - 1, 5 * k}
      BY <1>1, <2>2
    <3> HIDE DEF k
    <3> QED
      BY <3>1
  <2> QED
    BY <1>1, <2>2
<1>9. MembersAre(s, item)
  BY <1>3, <1>5, <1>6, <1>8 DEF MembersAre, m
<1> QED
  BY <1>9 DEF s

\* print_array prints the text of the array: the bracket, and then what its
\* steps print.
LEMMA ElementsPrint ==
  ASSUME item \in Item, kind[item] = "Array", NEW format \in BOOLEAN, NEW depth \in Nat
  PROVE  \E r \in Parts :
           /\ JsonText[At(item, format, depth)] = Part(<<"[">>, 1) ++ r
           /\ Prints(ElementSteps, format, depth + 1, depth, r)
<1> DEFINE l == At(item, format, depth)
           values == ValueTexts(l, JsonText)
           m == Len(kids[item])
           comma == CommaText(format)
           last == Part(<<"]">>, 1)
<1>1. /\ l \in Layouts /\ l.item = item /\ l.format = format /\ l.depth = depth
      /\ kids[item] \in Seq(Item) /\ m \in Nat
  BY PrinterAssumption DEF At, Layouts
<1> HIDE DEF l
<1>2. /\ values \in Seq(Parts) /\ Len(values) = m
      /\ \A k \in 1 .. m : values[k] = JsonText[At(kids[item][k], format, depth + 1)]
  <2>1. values \in Seq(Parts) /\ Len(values) = m
    BY <1>1, KidTexts, JsonTextSteps
  <2>2. DOMAIN kids[item] = 1 .. m
    BY <1>1
  <2> QED
    BY <1>1, <2>1, <2>2 DEF ValueTexts
<1>3. comma \in Parts /\ last \in Parts /\ Nothing \in Parts
  <2>1. "]" \in Symbol
    BY DEF Symbol
  <2> QED
    BY <2>1, Punctuation, Monoid
<1>4. JsonText[l] = Part(<<"[">>, 1) ++ (Listed(values, comma, Nothing) ++ last)
  BY <1>1, JsonTextSteps DEF TextStep
<1> HIDE DEF values, comma, last
<1>5. PICK from \in [1 .. m + 1 -> Parts] :
        /\ from[1] = Listed(values, comma, Nothing) /\ from[m + 1] = Nothing
        /\ \A k \in 1 .. m :
             from[k] = values[k] ++ ((IF k = m THEN Nothing ELSE comma) ++ from[k + 1])
  <2> HIDE DEF m
  <2>1. \E f : ListsFrom(f, values, comma, Nothing)
    BY <1>2, <1>3, ListedSteps
  <2> QED
    BY <1>2, <2>1 DEF ListsFrom
<1> DEFINE sep(k) == IF k = m THEN Nothing ELSE comma
           behind(k) == sep(k) ++ (from[k + 1] ++ last)
           out == [n \in 1 .. 2 * m + 2 |->
                     IF n = 2 * m + 2 THEN Nothing
                     ELSE IF n % 2 = 1 THEN from[(n + 1) \div 2] ++ last
                     ELSE behind(n \div 2)]
           deep == [n \in 1 .. 2 * m + 2 |-> IF n = 2 * m + 2 THEN depth ELSE depth + 1]
<1>6. /\ \A k \in 1 .. m + 1 : from[k] \in Parts /\ from[k] ++ last \in Parts
      /\ \A k \in 1 .. m : /\ behind(k) \in Parts /\ values[k] \in Parts
                           /\ from[k] ++ last = values[k] ++ behind(k)
      /\ from[m + 1] ++ last = last
  <2>1. ASSUME NEW k \in 1 .. m + 1 PROVE from[k] \in Parts /\ from[k] ++ last \in Parts
    BY <1>3, Monoid
  <2>2. ASSUME NEW k \in 1 .. m
        PROVE  /\ behind(k) \in Parts /\ values[k] \in Parts
               /\ from[k] ++ last = values[k] ++ behind(k)
    <3>1. k \in 1 .. m + 1 /\ k + 1 \in 1 .. m + 1
      BY <1>1
    <3>2. from[k + 1] \in Parts /\ from[k + 1] ++ last \in Parts
      BY <2>1, <3>1
    <3>3. sep(k) \in Parts
      BY <1>3
    <3>4. values[k] \in Parts
      BY <1>2
    <3>5. from[k] = values[k] ++ (sep(k) ++ from[k + 1])
      BY <1>5
    <3> HIDE DEF sep
    <3>6. behind(k) \in Parts /\ sep(k) ++ from[k + 1] \in Parts
      BY <3>2, <3>3, Monoid
    <3>7. (values[k] ++ (sep(k) ++ from[k + 1])) ++ last
          = values[k] ++ ((sep(k) ++ from[k + 1]) ++ last)
      BY <1>3, <3>4, <3>6, Regroup
    <3>8. (sep(k) ++ from[k + 1]) ++ last = sep(k) ++ (from[k + 1] ++ last)
      BY <1>3, <3>2, <3>3, Regroup
    <3> QED
      BY <3>4, <3>5, <3>6, <3>7, <3>8
  <2>3. from[m + 1] ++ last = last
    BY <1>3, <1>5, Monoid
  <2> QED
    BY <2>1, <2>2, <2>3
<1> HIDE DEF sep
<1>7. /\ \A n \in 1 .. 2 * m + 2 : n # 2 * m + 2 /\ n % 2 = 1 => (n + 1) \div 2 \in 1 .. m + 1
      /\ \A n \in 1 .. 2 * m + 2 : n # 2 * m + 2 /\ n % 2 # 1 => n \div 2 \in 1 .. m
  BY <1>1
<1> HIDE DEF behind, m
<1>8. out \in [1 .. 2 * m + 2 -> Parts] /\ deep \in [1 .. 2 * m + 2 -> Nat]
  <2>1. ASSUME NEW n \in 1 .. 2 * m + 2, n # 2 * m + 2, n % 2 = 1
        PROVE  from[(n + 1) \div 2] ++ last \in Parts
    BY <1>6, <1>7, <2>1
  <2>2. ASSUME NEW n \in 1 .. 2 * m + 2, n # 2 * m + 2, n % 2 # 1
        PROVE  behind(n \div 2) \in Parts
    BY <1>6, <1>7, <2>2
  <2>3. depth + 1 \in Nat
    OBVIOUS
  <2> QED
    BY <1>3, <2>1, <2>2, <2>3
<1>9. /\ out[2 * m + 2] = Nothing /\ deep[2 * m + 2] = depth
      /\ \A k \in 1 .. m + 1 : out[2 * k - 1] = from[k] ++ last /\ deep[2 * k - 1] = depth + 1
      /\ \A k \in 1 .. m : out[2 * k] = behind(k) /\ deep[2 * k] = depth + 1
  <2>1. m \in Nat
    BY <1>1 DEF m
  <2>2. ASSUME NEW k \in 1 .. m + 1
        PROVE  out[2 * k - 1] = from[k] ++ last /\ deep[2 * k - 1] = depth + 1
    <3>1. /\ 2 * k - 1 \in 1 .. 2 * m + 2 /\ 2 * k - 1 # 2 * m + 2 /\ (2 * k - 1) % 2 = 1
          /\ ((2 * k - 1) + 1) \div 2 = k
      BY <2>1
    <3> QED
      BY <3>1
  <2>3. ASSUME NEW k \in 1 .. m PROVE out[2 * k] = behind(k) /\ deep[2 * k] = depth + 1
    <3>1. /\ 2 * k \in 1 .. 2 * m + 2 /\ 2 * k # 2 * m + 2 /\ (2 * k) % 2 # 1
          /\ (2 * k) \div 2 = k
      BY <2>1
    <3> QED
      BY <3>1
  <2>4. 2 * m + 2 \in 1 .. 2 * m + 2
    BY <2>1
  <2> QED
    BY <2>2, <2>3, <2>4
<1> HIDE DEF out, deep
<1> DEFINE s == ElementSteps
<1>10. /\ Len(s) = 2 * m + 1
       /\ s[2 * m + 1] = Step("close", item, 0)
       /\ \A k \in 1 .. m : /\ s[2 * k - 1] = Step("value", kids[item][k], 0)
                            /\ s[2 * k] = Step("comma", item, k)
       /\ \A n \in 1 .. 2 * m + 1 :
            n = 2 * m + 1 \/ \E k \in 1 .. m : n = 2 * k - 1 \/ n = 2 * k
  BY ElementStepsAre DEF ElementsAre, m
<1> HIDE DEF s
<1>11. ASSUME NEW n \in 1 .. Len(s)
       PROVE  /\ out[n] = Output(s[n], format, deep[n]) ++ out[n + 1]
              /\ deep[n] = deep[n + 1] + Ends(s[n])
  <2>1. m \in Nat
    BY <1>1 DEF m
  <2>2. CASE n = 2 * m + 1
    <3>1. n = 2 * (m + 1) - 1 /\ m + 1 \in 1 .. m + 1 /\ n + 1 = 2 * m + 2
      BY <2>1, <2>2
    <3>2. out[n] = last /\ deep[n] = depth + 1 /\ out[n + 1] = Nothing /\ deep[n + 1] = depth
      BY <1>6, <1>9, <3>1
    <3>3. s[n].op = "close" /\ s[n].item = item
      BY <1>10, <2>2 DEF Step
    <3>4. Output(s[n], format, deep[n]) = last
      BY <3>3 DEF Output, last
    <3>5. last ++ Nothing = last
      BY <1>3, Monoid
    <3> QED
      BY <3>2, <3>3, <3>4, <3>5 DEF Ends
  <2>3. ASSUME NEW k \in 1 .. m, n = 2 * k - 1
        PROVE  /\ out[n] = Output(s[n], format, deep[n]) ++ out[n + 1]
               /\ deep[n] = deep[n + 1] + Ends(s[n])
    <3>1. n + 1 = 2 * k /\ k \in 1 .. m + 1
      BY <2>1, <2>3
    <3>2. out[n] = values[k] ++ behind(k) /\ deep[n] = depth + 1
      BY <1>6, <1>9, <2>3, <3>1
    <3>3. out[n + 1] = behind(k) /\ deep[n + 1] = depth + 1
      BY <1>9, <3>1
    <3>4. s[n].op = "value" /\ s[n].item = kids[item][k]
      <4>1. s[n] = Step("value", kids[item][k], 0)
        BY <1>10, <2>3
      <4> QED
        BY <4>1 DEF Step
    <3>5. Output(s[n], format, deep[n]) = values[k]
      BY <1>2, <3>2, <3>4 DEF Output, m
    <3> QED
      BY <3>2, <3>3, <3>4, <3>5 DEF Ends
  <2>4. ASSUME NEW k \in 1 .. m, n = 2 * k
        PROVE  /\ out[n] = Output(s[n], format, deep[n]) ++ out[n + 1]
               /\ deep[n] = deep[n + 1] + Ends(s[n])
    <3>1. n + 1 = 2 * (k + 1) - 1 /\ k + 1 \in 1 .. m + 1
      BY <2>1, <2>4
    <3>2. out[n] = sep(k) ++ (from[k + 1] ++ last) /\ deep[n] = depth + 1
      BY <1>9, <2>4 DEF behind
    <3>3. out[n + 1] = from[k + 1] ++ last /\ deep[n + 1] = depth + 1
      BY <1>9, <3>1
    <3>4. s[n].op = "comma" /\ s[n].item = item /\ s[n].k = k
      <4>1. s[n] = Step("comma", item, k)
        BY <1>10, <2>4
      <4> QED
        BY <4>1 DEF Step
    <3>5. Output(s[n], format, deep[n]) = sep(k)
      BY <3>4 DEF Output, sep, m, comma
    <3> QED
      BY <3>2, <3>3, <3>4, <3>5 DEF Ends
  <2>5. n = 2 * m + 1 \/ \E k \in 1 .. m : n = 2 * k - 1 \/ n = 2 * k
    BY <1>10
  <2> QED
    BY <2>2, <2>3, <2>4, <2>5
<1>12. /\ Len(s) + 1 = 2 * m + 2 /\ 1 = 2 * 1 - 1 /\ 1 \in 1 .. m + 1
       /\ out[1] = Listed(values, comma, Nothing) ++ last /\ deep[1] = depth + 1
  <2>1. m \in Nat
    BY <1>1 DEF m
  <2>2. Len(s) + 1 = 2 * m + 2 /\ 1 = 2 * 1 - 1 /\ 1 \in 1 .. m + 1
    BY <1>10, <2>1
  <2> QED
    BY <1>5, <1>9, <2>2 DEF m
<1>13. out[1] \in Parts
  BY <1>6, <1>5, <1>12 DEF m
<1>14. Prints(s, format, depth + 1, depth, out[1])
  <2>1. out \in [1 .. Len(s) + 1 -> Parts] /\ deep \in [1 .. Len(s) + 1 -> Nat]
    BY <1>8, <1>12
  <2>2. out[Len(s) + 1] = Nothing /\ deep[1] = depth + 1 /\ deep[Len(s) + 1] = depth
    BY <1>9, <1>12
  <2> QED
    BY <1>11, <2>1, <2>2 DEF Prints
<1> QED
  BY <1>4, <1>12, <1>13, <1>14 DEF s, l

\* print_object prints the text of the object: the brace, and then what its
\* steps print.
LEMMA MembersPrint ==
  ASSUME item \in Item, kind[item] = "Object", NEW format \in BOOLEAN, NEW depth \in Nat
  PROVE  \E r \in Parts :
           /\ JsonText[At(item, format, depth)] = (Part(<<"{">>, 1) ++ Space(format)) ++ r
           /\ Prints(MemberSteps, format, depth + 1, depth, r)
<1> DEFINE l == At(item, format, depth)
           values == ValueTexts(l, JsonText)
           members == MemberTexts(l, JsonText)
           m == Len(kids[item])
           comma == CommaText(format)
           space == Space(format)
           last == Tabs(format, depth) ++ Part(<<"}">>, 1)
           tabs == Tabs(format, depth + 1)
           colon == Part(<<":">>, 1) ++ Space(format)
           key(k) == Part(<<"s">>, keysize[kids[item][k]] + 2)
<1>1. /\ l \in Layouts /\ l.item = item /\ l.format = format /\ l.depth = depth
      /\ kids[item] \in Seq(Item) /\ m \in Nat
  BY PrinterAssumption DEF At, Layouts
<1> HIDE DEF l
<1>2. /\ values \in Seq(Parts) /\ Len(values) = m
      /\ members \in Seq(Parts) /\ Len(members) = m
      /\ \A k \in 1 .. m : /\ values[k] = JsonText[At(kids[item][k], format, depth + 1)]
                           /\ members[k] = tabs ++ ((key(k) ++ colon) ++ values[k])
  <2>1. values \in Seq(Parts) /\ Len(values) = m /\ members \in Seq(Parts) /\ Len(members) = m
    BY <1>1, KidTexts, JsonTextSteps
  <2>2. DOMAIN kids[item] = 1 .. m
    BY <1>1
  <2>3. \A k \in 1 .. m : values[k] = JsonText[At(kids[item][k], format, depth + 1)]
    BY <1>1, <2>2 DEF ValueTexts
  <2>4. \A k \in 1 .. m : members[k] = tabs ++ ((key(k) ++ colon) ++ values[k])
    BY <1>1, <2>2 DEF MemberTexts, Name
  <2> QED
    BY <2>1, <2>3, <2>4
<1>3. /\ comma \in Parts /\ space \in Parts /\ last \in Parts /\ tabs \in Parts
      /\ colon \in Parts /\ Nothing \in Parts
  <2>1. depth + 1 \in Nat
    OBVIOUS
  <2> QED
    BY <2>1, Punctuation, Monoid
<1>3a. ASSUME NEW k \in 1 .. m PROVE key(k) \in Parts
  <2>1. kids[item][k] \in Item
    BY <1>1
  <2>2. keysize[kids[item][k]] \in Nat
    BY <2>1, PrinterAssumption
  <2>3. keysize[kids[item][k]] + 2 \in Nat /\ "s" \in Symbol
    BY <2>2 DEF Symbol
  <2> QED
    BY <2>3, Punctuation
<1>4. JsonText[l]
      = (Part(<<"{">>, 1) ++ Space(format)) ++ (Listed(members, comma, space) ++ last)
  BY <1>1, JsonTextSteps DEF TextStep
<1> HIDE DEF values, members, comma, space, last, tabs, colon, key
<1>5. PICK from \in [1 .. m + 1 -> Parts] :
        /\ from[1] = Listed(members, comma, space) /\ from[m + 1] = Nothing
        /\ \A k \in 1 .. m :
             from[k] = members[k] ++ ((IF k = m THEN space ELSE comma) ++ from[k + 1])
  <2> HIDE DEF m
  <2>1. \E f : ListsFrom(f, members, comma, space)
    BY <1>2, <1>3, ListedSteps
  <2> QED
    BY <1>2, <2>1 DEF ListsFrom
<1> DEFINE sep(k) == IF k = m THEN space ELSE comma
           behind(k) == sep(k) ++ (from[k + 1] ++ last)
           fourth(k) == values[k] ++ behind(k)
           third(k) == colon ++ fourth(k)
           second(k) == key(k) ++ third(k)
           out == [n \in 1 .. 5 * m + 2 |->
                     IF n = 5 * m + 2 THEN Nothing
                     ELSE IF n % 5 = 1 THEN from[(n + 4) \div 5] ++ last
                     ELSE IF n % 5 = 2 THEN second((n + 4) \div 5)
                     ELSE IF n % 5 = 3 THEN third((n + 4) \div 5)
                     ELSE IF n % 5 = 4 THEN fourth((n + 4) \div 5)
                     ELSE behind((n + 4) \div 5)]
           deep == [n \in 1 .. 5 * m + 2 |-> IF n = 5 * m + 2 THEN depth ELSE depth + 1]
<1>6. /\ \A k \in 1 .. m + 1 : from[k] \in Parts /\ from[k] ++ last \in Parts
      /\ \A k \in 1 .. m : /\ behind(k) \in Parts /\ fourth(k) \in Parts
                           /\ third(k) \in Parts /\ second(k) \in Parts
                           /\ from[k] ++ last = tabs ++ second(k)
      /\ from[m + 1] ++ last = last
  <2>1. ASSUME NEW k \in 1 .. m + 1 PROVE from[k] \in Parts /\ from[k] ++ last \in Parts
    BY <1>3, Monoid
  <2>2. ASSUME NEW k \in 1 .. m
        PROVE  /\ behind(k) \in Parts /\ fourth(k) \in Parts
               /\ third(k) \in Parts /\ second(k) \in Parts
               /\ from[k] ++ last = tabs ++ second(k)
    <3>1. k \in 1 .. m + 1 /\ k + 1 \in 1 .. m + 1
      BY <1>1
    <3>2. from[k + 1] \in Parts /\ from[k + 1] ++ last \in Parts
      BY <2>1, <3>1
    <3>3. sep(k) \in Parts
      BY <1>3
    <3>4. values[k] \in Parts /\ key(k) \in Parts
      BY <1>2, <1>3a
    <3>5. from[k] = (tabs ++ ((key(k) ++ colon) ++ values[k])) ++ (sep(k) ++ from[k + 1])
      BY <1>2, <1>5
    <3> DEFINE v == values[k]
               y == key(k)
               s == sep(k)
               g == from[k + 1]
               b == behind(k)
    <3> HIDE DEF sep
    <3>6. b = s ++ (g ++ last) /\ g ++ last \in Parts /\ g \in Parts /\ s \in Parts
          /\ v \in Parts /\ y \in Parts
      BY <3>2, <3>3, <3>4
    <3> HIDE DEF v, y, s, g, b, behind
    <3>7. b \in Parts /\ s ++ g \in Parts
      BY <3>6, Monoid
    <3>8. v ++ b \in Parts
      BY <3>6, <3>7, Monoid
    <3>9. colon ++ (v ++ b) \in Parts
      BY <1>3, <3>8, Monoid
    <3>10. y ++ (colon ++ (v ++ b)) \in Parts
      BY <3>6, <3>9, Monoid
    <3>11. (y ++ colon) ++ v \in Parts /\ y ++ colon \in Parts
      BY <1>3, <3>6, Monoid
    <3>12. ((tabs ++ ((y ++ colon) ++ v)) ++ (s ++ g)) ++ last
           = tabs ++ (y ++ (colon ++ (v ++ b)))
      <4>1. tabs ++ ((y ++ colon) ++ v) \in Parts
        BY <1>3, <3>11, Monoid
      <4>2. ((tabs ++ ((y ++ colon) ++ v)) ++ (s ++ g)) ++ last
            = (tabs ++ ((y ++ colon) ++ v)) ++ ((s ++ g) ++ last)
        BY <1>3, <3>7, <4>1, Regroup
      <4>3. (s ++ g) ++ last = b
        BY <1>3, <3>6, Regroup
      <4>4. (tabs ++ ((y ++ colon) ++ v)) ++ b = tabs ++ (((y ++ colon) ++ v) ++ b)
        BY <1>3, <3>7, <3>11, Regroup
      <4>5. ((y ++ colon) ++ v) ++ b = (y ++ colon) ++ (v ++ b)
        BY <3>6, <3>7, <3>11, Regroup
      <4>6. (y ++ colon) ++ (v ++ b) = y ++ (colon ++ (v ++ b))
        BY <1>3, <3>6, <3>8, Regroup
      <4> QED
        BY <4>2, <4>3, <4>4, <4>5, <4>6
    <3>13. from[k] ++ last = tabs ++ (y ++ (colon ++ (v ++ b)))
      BY <3>5, <3>12 DEF v, y, s, g
    <3> QED
      BY <3>7, <3>8, <3>9, <3>10, <3>13 DEF v, y, b
  <2>3. from[m + 1] ++ last = last
    BY <1>3, <1>5, Monoid
  <2> QED
    BY <2>1, <2>2, <2>3
<1> HIDE DEF second, third, fourth, sep
<1>7. /\ \A n \in 1 .. 5 * m + 2 :
           /\ n # 5 * m + 2 /\ n % 5 = 1 => (n + 4) \div 5 \in 1 .. m + 1
           /\ n # 5 * m + 2 /\ n % 5 # 1 => (n + 4) \div 5 \in 1 .. m
  BY <1>1
<1> HIDE DEF behind, m
<1>8. out \in [1 .. 5 * m + 2 -> Parts] /\ deep \in [1 .. 5 * m + 2 -> Nat]
  <2>1. ASSUME NEW n \in 1 .. 5 * m + 2, n # 5 * m + 2, n % 5 = 1
        PROVE  from[(n + 4) \div 5] ++ last \in Parts
    BY <1>6, <1>7, <2>1
  <2>2. ASSUME NEW n \in 1 .. 5 * m + 2, n # 5 * m + 2, n % 5 # 1
        PROVE  /\ behind((n + 4) \div 5) \in Parts /\ fourth((n + 4) \div 5) \in Parts
               /\ third((n + 4) \div 5) \in Parts /\ second((n + 4) \div 5) \in Parts
    BY <1>6, <1>7, <2>2
  <2>3. depth + 1 \in Nat
    OBVIOUS
  <2> QED
    BY <1>3, <2>1, <2>2, <2>3
<1>9. /\ out[5 * m + 2] = Nothing /\ deep[5 * m + 2] = depth
      /\ \A k \in 1 .. m + 1 : out[5 * k - 4] = from[k] ++ last /\ deep[5 * k - 4] = depth + 1
      /\ \A k \in 1 .. m : /\ out[5 * k - 3] = second(k) /\ deep[5 * k - 3] = depth + 1
                           /\ out[5 * k - 2] = third(k) /\ deep[5 * k - 2] = depth + 1
                           /\ out[5 * k - 1] = fourth(k) /\ deep[5 * k - 1] = depth + 1
                           /\ out[5 * k] = behind(k) /\ deep[5 * k] = depth + 1
  <2>1. m \in Nat
    BY <1>1 DEF m
  <2>2. ASSUME NEW k \in 1 .. m + 1
        PROVE  out[5 * k - 4] = from[k] ++ last /\ deep[5 * k - 4] = depth + 1
    <3>1. /\ 5 * k - 4 \in 1 .. 5 * m + 2 /\ 5 * k - 4 # 5 * m + 2 /\ (5 * k - 4) % 5 = 1
          /\ ((5 * k - 4) + 4) \div 5 = k
      BY <2>1
    <3> QED
      BY <3>1
  <2>3. ASSUME NEW k \in 1 .. m
        PROVE  /\ out[5 * k - 3] = second(k) /\ deep[5 * k - 3] = depth + 1
               /\ out[5 * k - 2] = third(k) /\ deep[5 * k - 2] = depth + 1
               /\ out[5 * k - 1] = fourth(k) /\ deep[5 * k - 1] = depth + 1
               /\ out[5 * k] = behind(k) /\ deep[5 * k] = depth + 1
    <3>1. /\ 5 * k - 3 \in 1 .. 5 * m + 2 /\ 5 * k - 3 # 5 * m + 2 /\ (5 * k - 3) % 5 = 2
          /\ ((5 * k - 3) + 4) \div 5 = k
      BY <2>1
    <3>2. /\ 5 * k - 2 \in 1 .. 5 * m + 2 /\ 5 * k - 2 # 5 * m + 2 /\ (5 * k - 2) % 5 = 3
          /\ ((5 * k - 2) + 4) \div 5 = k
      BY <2>1
    <3>3. /\ 5 * k - 1 \in 1 .. 5 * m + 2 /\ 5 * k - 1 # 5 * m + 2 /\ (5 * k - 1) % 5 = 4
          /\ ((5 * k - 1) + 4) \div 5 = k
      BY <2>1
    <3>4. /\ 5 * k \in 1 .. 5 * m + 2 /\ 5 * k # 5 * m + 2 /\ (5 * k) % 5 = 0
          /\ (5 * k + 4) \div 5 = k
      BY <2>1
    <3>5. out[5 * k - 3] = second(k) /\ deep[5 * k - 3] = depth + 1
      BY <3>1
    <3>6. out[5 * k - 2] = third(k) /\ deep[5 * k - 2] = depth + 1
      BY <3>2
    <3>7. out[5 * k - 1] = fourth(k) /\ deep[5 * k - 1] = depth + 1
      BY <3>3
    <3>8. out[5 * k] = behind(k) /\ deep[5 * k] = depth + 1
      BY <3>4
    <3> QED
      BY <3>5, <3>6, <3>7, <3>8
  <2>4. 5 * m + 2 \in 1 .. 5 * m + 2
    BY <2>1
  <2>5. out[5 * m + 2] = Nothing /\ deep[5 * m + 2] = depth
    BY <2>4
  <2> HIDE DEF out, deep
  <2> QED
    BY <2>2, <2>3, <2>5
<1> HIDE DEF out, deep
<1> DEFINE s == MemberSteps
<1>10. /\ Len(s) = 5 * m + 1
       /\ s[5 * m + 1] = Step("close", item, 0)
       /\ \A k \in 1 .. m : /\ s[5 * k - 4] = Step("indent", item, k)
                            /\ s[5 * k - 3] = Step("key", item, k)
                            /\ s[5 * k - 2] = Step("colon", item, k)
                            /\ s[5 * k - 1] = Step("value", kids[item][k], 0)
                            /\ s[5 * k] = Step("comma", item, k)
       /\ \A n \in 1 .. 5 * m + 1 :
            n = 5 * m + 1
            \/ \E k \in 1 .. m : n \in {5 * k - 4, 5 * k - 3, 5 * k - 2, 5 * k - 1, 5 * k}
  BY MemberStepsAre DEF MembersAre, m
<1> HIDE DEF s
<1>11. ASSUME NEW n \in 1 .. Len(s)
       PROVE  /\ out[n] = Output(s[n], format, deep[n]) ++ out[n + 1]
              /\ deep[n] = deep[n + 1] + Ends(s[n])
  <2> DEFINE Right == /\ out[n] = Output(s[n], format, deep[n]) ++ out[n + 1]
                      /\ deep[n] = deep[n + 1] + Ends(s[n])
  <2>1. m \in Nat
    BY <1>1 DEF m
  <2>2. CASE n = 5 * m + 1
    <3>1. n = 5 * (m + 1) - 4 /\ m + 1 \in 1 .. m + 1 /\ n + 1 = 5 * m + 2
      BY <2>1, <2>2
    <3>2. out[n] = last /\ deep[n] = depth + 1 /\ out[n + 1] = Nothing /\ deep[n + 1] = depth
      BY <1>6, <1>9, <3>1
    <3>3. s[n].op = "close" /\ s[n].item = item
      BY <1>10, <2>2 DEF Step
    <3>4. Output(s[n], format, deep[n]) = last
      <4>1. deep[n] - 1 = depth
        BY <3>2
      <4> QED
        BY <3>3, <4>1 DEF Output, last
    <3>5. last ++ Nothing = last
      BY <1>3, Monoid
    <3> QED
      BY <3>2, <3>3, <3>4, <3>5 DEF Ends
  <2>3. ASSUME NEW k \in 1 .. m, n = 5 * k - 4 PROVE Right
    <3>1. n + 1 = 5 * k - 3 /\ k \in 1 .. m + 1
      BY <2>1, <2>3
    <3>2. out[n] = tabs ++ second(k) /\ deep[n] = depth + 1
      BY <1>6, <1>9, <2>3, <3>1
    <3>3. out[n + 1] = second(k) /\ deep[n + 1] = depth + 1
      BY <1>9, <3>1
    <3>4. s[n].op = "indent"
      <4>1. s[n] = Step("indent", item, k)
        BY <1>10, <2>3
      <4> QED
        BY <4>1 DEF Step
    <3>5. Output(s[n], format, deep[n]) = tabs
      BY <3>2, <3>4 DEF Output, tabs
    <3> QED
      BY <3>2, <3>3, <3>4, <3>5 DEF Ends
  <2>4. ASSUME NEW k \in 1 .. m, n = 5 * k - 3 PROVE Right
    <3>1. n + 1 = 5 * k - 2
      BY <2>1, <2>4
    <3>2. out[n] = key(k) ++ third(k) /\ deep[n] = depth + 1
      BY <1>9, <2>4 DEF second
    <3>3. out[n + 1] = third(k) /\ deep[n + 1] = depth + 1
      BY <1>9, <3>1
    <3>4. s[n].op = "key" /\ s[n].item = item /\ s[n].k = k
      <4>1. s[n] = Step("key", item, k)
        BY <1>10, <2>4
      <4> QED
        BY <4>1 DEF Step
    <3>5. Output(s[n], format, deep[n]) = key(k)
      BY <3>4 DEF Output, key
    <3> QED
      BY <3>2, <3>3, <3>4, <3>5 DEF Ends
  <2>5. ASSUME NEW k \in 1 .. m, n = 5 * k - 2 PROVE Right
    <3>1. n + 1 = 5 * k - 1
      BY <2>1, <2>5
    <3>2. out[n] = colon ++ fourth(k) /\ deep[n] = depth + 1
      BY <1>9, <2>5 DEF third
    <3>3. out[n + 1] = fourth(k) /\ deep[n + 1] = depth + 1
      BY <1>9, <3>1
    <3>4. s[n].op = "colon"
      <4>1. s[n] = Step("colon", item, k)
        BY <1>10, <2>5
      <4> QED
        BY <4>1 DEF Step
    <3>5. Output(s[n], format, deep[n]) = colon
      BY <3>4 DEF Output, colon
    <3> QED
      BY <3>2, <3>3, <3>4, <3>5 DEF Ends
  <2>6. ASSUME NEW k \in 1 .. m, n = 5 * k - 1 PROVE Right
    <3>1. n + 1 = 5 * k
      BY <2>1, <2>6
    <3>2. out[n] = values[k] ++ behind(k) /\ deep[n] = depth + 1
      BY <1>9, <2>6 DEF fourth
    <3>3. out[n + 1] = behind(k) /\ deep[n + 1] = depth + 1
      BY <1>9, <3>1
    <3>4. s[n].op = "value" /\ s[n].item = kids[item][k]
      <4>1. s[n] = Step("value", kids[item][k], 0)
        BY <1>10, <2>6
      <4> QED
        BY <4>1 DEF Step
    <3>5. Output(s[n], format, deep[n]) = values[k]
      BY <1>2, <3>2, <3>4 DEF Output, m
    <3> QED
      BY <3>2, <3>3, <3>4, <3>5 DEF Ends
  <2>7. ASSUME NEW k \in 1 .. m, n = 5 * k PROVE Right
    <3>1. n + 1 = 5 * (k + 1) - 4 /\ k + 1 \in 1 .. m + 1
      BY <2>1, <2>7
    <3>2. out[n] = sep(k) ++ (from[k + 1] ++ last) /\ deep[n] = depth + 1
      BY <1>9, <2>7 DEF behind
    <3>3. out[n + 1] = from[k + 1] ++ last /\ deep[n + 1] = depth + 1
      BY <1>9, <3>1
    <3>4. s[n].op = "comma" /\ s[n].item = item /\ s[n].k = k
      <4>1. s[n] = Step("comma", item, k)
        BY <1>10, <2>7
      <4> QED
        BY <4>1 DEF Step
    <3>5. Output(s[n], format, deep[n]) = sep(k)
      BY <3>4 DEF Output, sep, m, comma, space
    <3> QED
      BY <3>2, <3>3, <3>4, <3>5 DEF Ends
  <2>8. n = 5 * m + 1
        \/ \E k \in 1 .. m : n \in {5 * k - 4, 5 * k - 3, 5 * k - 2, 5 * k - 1, 5 * k}
    BY <1>10
  <2> HIDE DEF Right
  <2>9. Right
    BY <2>2, <2>3, <2>4, <2>5, <2>6, <2>7, <2>8 DEF Right
  <2> QED
    BY <2>9 DEF Right
<1>12. /\ Len(s) + 1 = 5 * m + 2 /\ 1 = 5 * 1 - 4 /\ 1 \in 1 .. m + 1
       /\ out[1] = Listed(members, comma, space) ++ last /\ deep[1] = depth + 1
  <2>1. m \in Nat
    BY <1>1 DEF m
  <2>2. Len(s) + 1 = 5 * m + 2 /\ 1 = 5 * 1 - 4 /\ 1 \in 1 .. m + 1
    BY <1>10, <2>1
  <2> QED
    BY <1>5, <1>9, <2>2 DEF m
<1>13. out[1] \in Parts
  BY <1>6, <1>5, <1>12 DEF m
<1>14. Prints(s, format, depth + 1, depth, out[1])
  <2>1. out \in [1 .. Len(s) + 1 -> Parts] /\ deep \in [1 .. Len(s) + 1 -> Nat]
    BY <1>8, <1>12
  <2>2. out[Len(s) + 1] = Nothing /\ deep[1] = depth + 1 /\ deep[Len(s) + 1] = depth
    BY <1>9, <1>12
  <2> QED
    BY <1>11, <2>1, <2>2 DEF Prints
<1> QED
  BY <1>4, <1>12, <1>13, <1>14 DEF s, l

\* What a value, a name or the end of a container leaves to be counted is
\* counted by the step behind it.
Pauses(s) ==
  \A n \in 1 .. Len(s) - 1 :
    s[n].op \in {"value", "key", "close"} => s[n + 1].op \in {"colon", "comma"}

\* All that is on the stack can be printed.
Can(s) == \A n \in 1 .. Len(s) : s[n].op = "value" => Printable[s[n].item]

\* Both go on when a step is done, and when steps are put in front.
LEMMA FollowsTail ==
  ASSUME NEW s \in Seq(StepSet), s # << >>, Pauses(s)
  PROVE  /\ Pauses(Tail(s))
         /\ s[1].op \in {"value", "key", "close"} => Measures(Tail(s))
         /\ Can(s) <=> (s[1].op = "value" => Printable[s[1].item]) /\ Can(Tail(s))
<1> DEFINE t == Tail(s)
<1>1. /\ Len(s) \in Nat /\ Len(s) > 0 /\ Len(t) = Len(s) - 1
      /\ \A n \in 1 .. Len(t) : t[n] = s[n + 1]
      /\ Len(t) = 0 => t = << >>
  <2>1. /\ t \in Seq(StepSet) /\ Len(s) \in Nat /\ Len(s) > 0 /\ Len(t) = Len(s) - 1
        /\ \A n \in 1 .. Len(t) : t[n] = s[n + 1]
    OBVIOUS
  <2> HIDE DEF t
  <2>2. Len(t) = 0 => t = << >>
    BY <2>1
  <2> QED
    BY <2>1, <2>2
<1> HIDE DEF t
<1>2. Pauses(t)
  <2>1. ASSUME NEW n \in 1 .. Len(t) - 1, t[n].op \in {"value", "key", "close"}
        PROVE  t[n + 1].op \in {"colon", "comma"}
    <3>1. /\ n + 1 \in 1 .. Len(s) - 1 /\ n \in 1 .. Len(t) /\ n + 1 \in 1 .. Len(t)
      BY <1>1
    <3>2. t[n] = s[n + 1] /\ t[n + 1] = s[(n + 1) + 1]
      BY <1>1, <3>1
    <3>3. s[n + 1].op \in {"value", "key", "close"} => s[(n + 1) + 1].op \in {"colon", "comma"}
      BY <3>1 DEF Pauses
    <3> QED
      BY <2>1, <3>2, <3>3
  <2> QED
    BY <2>1 DEF Pauses
<1>3. ASSUME s[1].op \in {"value", "key", "close"} PROVE Measures(t)
  <2>1. CASE Len(t) = 0
    BY <1>1, <2>1 DEF Measures
  <2>2. CASE Len(t) # 0
    <3>1. 1 \in 1 .. Len(s) - 1 /\ 1 \in 1 .. Len(t)
      BY <1>1, <2>2
    <3>2. s[1 + 1].op \in {"colon", "comma"} /\ t[1] = s[1 + 1]
      BY <1>1, <1>3, <3>1 DEF Pauses
    <3> QED
      BY <3>2 DEF Measures
  <2> QED
    BY <2>1, <2>2
<1>4. ASSUME Can(s) PROVE (s[1].op = "value" => Printable[s[1].item]) /\ Can(t)
  <2>1. 1 \in 1 .. Len(s) /\ \A n \in 1 .. Len(t) : n + 1 \in 1 .. Len(s)
    BY <1>1
  <2> QED
    BY <1>1, <1>4, <2>1 DEF Can
<1>5. ASSUME s[1].op = "value" => Printable[s[1].item], Can(t) PROVE Can(s)
  <2>1. ASSUME NEW n \in 1 .. Len(s), s[n].op = "value" PROVE Printable[s[n].item]
    <3>1. CASE n = 1
      BY <1>5, <2>1, <3>1
    <3>2. CASE n # 1
      <4>1. n - 1 \in 1 .. Len(t) /\ (n - 1) + 1 = n
        BY <1>1, <3>2
      <4>2. t[n - 1] = s[n]
        BY <1>1, <4>1
      <4> QED
        BY <1>5, <2>1, <4>1, <4>2 DEF Can
    <3> QED
      BY <3>1, <3>2
  <2> QED
    BY <2>1 DEF Can
<1> QED
  BY <1>2, <1>3, <1>4, <1>5 DEF t

\* What two stacks leave to be counted, and whether both can be printed, when one
\* is put before the other.
LEMMA FollowsConcat ==
  ASSUME NEW r \in Seq(StepSet), NEW s \in Seq(StepSet), Pauses(r), Pauses(s),
         r = << >> \/ Measures(s)
  PROVE  Pauses(r \o s) /\ (Can(r \o s) <=> Can(r) /\ Can(s))
<1> DEFINE u == r \o s
           k == Len(r)
<1>1. /\ k \in Nat /\ Len(s) \in Nat /\ Len(u) = k + Len(s)
      /\ \A n \in 1 .. k : u[n] = r[n]
      /\ \A n \in 1 .. Len(u) : n > k => u[n] = s[n - k]
      /\ s = << >> <=> Len(s) = 0
      /\ r = << >> => k = 0
  OBVIOUS
<1> HIDE DEF u, k
<1>2. Pauses(u)
  <2>1. ASSUME NEW n \in 1 .. Len(u) - 1, u[n].op \in {"value", "key", "close"}
        PROVE  u[n + 1].op \in {"colon", "comma"}
    <3>1. n \in 1 .. Len(u) /\ n + 1 \in 1 .. Len(u)
      BY <1>1
    <3>2. CASE n < k
      <4>1. n \in 1 .. Len(r) - 1 /\ n \in 1 .. k /\ n + 1 \in 1 .. k
        BY <1>1, <3>2 DEF k
      <4>2. u[n] = r[n] /\ u[n + 1] = r[n + 1]
        BY <1>1, <4>1
      <4> QED
        BY <2>1, <4>1, <4>2 DEF Pauses
    <3>3. CASE n = k
      <4>1. n + 1 > k /\ (n + 1) - k = 1 /\ s # << >> /\ r # << >>
        BY <1>1, <3>1, <3>3
      <4>2. u[n + 1] = s[1]
        BY <1>1, <3>1, <4>1
      <4> QED
        BY <4>1, <4>2 DEF Measures
    <3>4. CASE n > k
      <4>1. n - k \in 1 .. Len(s) - 1 /\ (n + 1) - k = (n - k) + 1 /\ n + 1 > k
        BY <1>1, <3>4
      <4>2. u[n] = s[n - k] /\ u[n + 1] = s[(n - k) + 1]
        BY <1>1, <3>1, <3>4, <4>1
      <4> QED
        BY <2>1, <4>1, <4>2 DEF Pauses
    <3> QED
      BY <1>1, <3>2, <3>3, <3>4
  <2> QED
    BY <2>1 DEF Pauses
<1>3. ASSUME Can(u) PROVE Can(r) /\ Can(s)
  <2>1. ASSUME NEW n \in 1 .. Len(r) PROVE n \in 1 .. Len(u) /\ r[n] = u[n]
    BY <1>1 DEF k
  <2>2. ASSUME NEW n \in 1 .. Len(s) PROVE k + n \in 1 .. Len(u) /\ s[n] = u[k + n]
    <3>1. k + n \in 1 .. Len(u) /\ k + n > k /\ (k + n) - k = n
      BY <1>1
    <3> QED
      BY <1>1, <3>1
  <2> QED
    BY <1>3, <2>1, <2>2 DEF Can
<1>4. ASSUME Can(r), Can(s) PROVE Can(u)
  <2>1. ASSUME NEW n \in 1 .. Len(u), u[n].op = "value" PROVE Printable[u[n].item]
    <3>1. CASE n <= k
      <4>1. n \in 1 .. Len(r) /\ u[n] = r[n]
        BY <1>1, <3>1 DEF k
      <4> QED
        BY <1>4, <2>1, <4>1 DEF Can
    <3>2. CASE n > k
      <4>1. n - k \in 1 .. Len(s) /\ u[n] = s[n - k]
        BY <1>1, <3>2
      <4> QED
        BY <1>4, <2>1, <4>1 DEF Can
    <3> QED
      BY <1>1, <3>1, <3>2
  <2> QED
    BY <2>1 DEF Can
<1> QED
  BY <1>2, <1>3, <1>4 DEF u

\* What the containers plan.
LEMMA FollowsPlan ==
  ASSUME item \in Item
  PROVE  /\ Pauses(ElementSteps) /\ Pauses(MemberSteps)
         /\ Can(ElementSteps) <=> \A n \in DOMAIN kids[item] : Printable[kids[item][n]]
         /\ Can(MemberSteps) <=> \A n \in DOMAIN kids[item] : Printable[kids[item][n]]
<1> DEFINE m == Len(kids[item])
           e == ElementSteps
           s == MemberSteps
<1>1. m \in Nat /\ DOMAIN kids[item] = 1 .. m
  <2>1. kids[item] \in Seq(Item)
    BY PrinterAssumption
  <2> QED
    BY <2>1
<1>2. ElementsAre(e, item) /\ MembersAre(s, item)
  BY ElementStepsAre, MemberStepsAre
<1> HIDE DEF e, s
<1>2a. \A op, i, k : Step(op, i, k).op = op /\ Step(op, i, k).item = i
  BY DEF Step
<1>3. /\ Len(e) = 2 * m + 1 /\ e[2 * m + 1].op = "close"
      /\ \A k \in 1 .. m : /\ e[2 * k - 1].op = "value" /\ e[2 * k - 1].item = kids[item][k]
                           /\ e[2 * k].op = "comma"
      /\ \A n \in 1 .. 2 * m + 1 :
           n = 2 * m + 1 \/ \E k \in 1 .. m : n = 2 * k - 1 \/ n = 2 * k
  BY <1>2, <1>2a DEF ElementsAre
<1>4. /\ Len(s) = 5 * m + 1 /\ s[5 * m + 1].op = "close"
      /\ \A k \in 1 .. m :
           /\ s[5 * k - 4].op = "indent" /\ s[5 * k - 3].op = "key" /\ s[5 * k - 2].op = "colon"
           /\ s[5 * k - 1].op = "value" /\ s[5 * k - 1].item = kids[item][k]
           /\ s[5 * k].op = "comma"
      /\ \A n \in 1 .. 5 * m + 1 :
           n = 5 * m + 1
           \/ \E k \in 1 .. m : n \in {5 * k - 4, 5 * k - 3, 5 * k - 2, 5 * k - 1, 5 * k}
  <2>1. /\ Len(s) = 5 * m + 1 /\ s[5 * m + 1] = Step("close", item, 0)
        /\ \A k \in 1 .. m :
             /\ s[5 * k - 4] = Step("indent", item, k) /\ s[5 * k - 3] = Step("key", item, k)
             /\ s[5 * k - 2] = Step("colon", item, k)
             /\ s[5 * k - 1] = Step("value", kids[item][k], 0)
             /\ s[5 * k] = Step("comma", item, k)
        /\ \A n \in 1 .. 5 * m + 1 :
             n = 5 * m + 1
             \/ \E k \in 1 .. m : n \in {5 * k - 4, 5 * k - 3, 5 * k - 2, 5 * k - 1, 5 * k}
    BY <1>2 DEF MembersAre
  <2> HIDE DEF m
  <2>2. ASSUME NEW k \in 1 .. m
        PROVE  /\ s[5 * k - 4].op = "indent" /\ s[5 * k - 3].op = "key"
               /\ s[5 * k - 2].op = "colon" /\ s[5 * k - 1].op = "value"
               /\ s[5 * k - 1].item = kids[item][k] /\ s[5 * k].op = "comma"
    BY <1>2a, <2>1
  <2>3. s[5 * m + 1].op = "close"
    BY <1>2a, <2>1
  <2> QED
    BY <2>1, <2>2, <2>3
<1> HIDE DEF m
<1>5. Pauses(e)
  <2>1. ASSUME NEW n \in 1 .. Len(e) - 1, e[n].op \in {"value", "key", "close"}
        PROVE  e[n + 1].op \in {"colon", "comma"}
    <3>1. n # 2 * m + 1 /\ n \in 1 .. 2 * m + 1
      BY <1>1, <1>3
    <3>2. PICK k \in 1 .. m : n = 2 * k - 1 \/ n = 2 * k
      BY <1>3, <3>1
    <3>3. n = 2 * k - 1
      BY <1>3, <2>1, <3>2
    <3>4. n + 1 = 2 * k
      BY <1>1, <3>3
    <3> QED
      BY <1>3, <3>4
  <2> QED
    BY <2>1 DEF Pauses
<1>6. Pauses(s)
  <2>1. ASSUME NEW n \in 1 .. Len(s) - 1, s[n].op \in {"value", "key", "close"}
        PROVE  s[n + 1].op \in {"colon", "comma"}
    <3>1. n # 5 * m + 1 /\ n \in 1 .. 5 * m + 1
      BY <1>1, <1>4
    <3>2. PICK k \in 1 .. m : n \in {5 * k - 4, 5 * k - 3, 5 * k - 2, 5 * k - 1, 5 * k}
      BY <1>4, <3>1
    <3>3. n = 5 * k - 3 \/ n = 5 * k - 1
      BY <1>4, <2>1, <3>2
    <3>4. CASE n = 5 * k - 3
      <4>1. n + 1 = 5 * k - 2
        BY <1>1, <3>4
      <4> QED
        BY <1>4, <4>1
    <3>5. CASE n = 5 * k - 1
      <4>1. n + 1 = 5 * k
        BY <1>1, <3>5
      <4>2. s[5 * k].op = "comma"
        BY <1>4
      <4> QED
        BY <4>1, <4>2
    <3> QED
      BY <3>3, <3>4, <3>5
  <2> QED
    BY <2>1 DEF Pauses
<1>7. Can(e) <=> \A k \in 1 .. m : Printable[kids[item][k]]
  <2>1. ASSUME Can(e), NEW k \in 1 .. m PROVE Printable[kids[item][k]]
    <3>1. 2 * k - 1 \in 1 .. Len(e)
      BY <1>1, <1>3
    <3> QED
      BY <1>3, <2>1, <3>1 DEF Can
  <2>2. ASSUME \A k \in 1 .. m : Printable[kids[item][k]],
               NEW n \in 1 .. Len(e), e[n].op = "value"
        PROVE  Printable[e[n].item]
    <3>1. n # 2 * m + 1
      BY <1>3, <2>2
    <3>2. PICK k \in 1 .. m : n = 2 * k - 1 \/ n = 2 * k
      BY <1>3, <3>1
    <3>3. n = 2 * k - 1
      BY <1>3, <2>2, <3>2
    <3> QED
      BY <1>3, <2>2, <3>3
  <2> QED
    BY <2>1, <2>2 DEF Can
<1>8. Can(s) <=> \A k \in 1 .. m : Printable[kids[item][k]]
  <2>1. ASSUME Can(s), NEW k \in 1 .. m PROVE Printable[kids[item][k]]
    <3>1. 5 * k - 1 \in 1 .. Len(s)
      BY <1>1, <1>4
    <3> QED
      BY <1>4, <2>1, <3>1 DEF Can
  <2>2. ASSUME \A k \in 1 .. m : Printable[kids[item][k]],
               NEW n \in 1 .. Len(s), s[n].op = "value"
        PROVE  Printable[s[n].item]
    <3>1. n # 5 * m + 1
      BY <1>4, <2>2
    <3>2. PICK k \in 1 .. m : n \in {5 * k - 4, 5 * k - 3, 5 * k - 2, 5 * k - 1, 5 * k}
      BY <1>4, <3>1
    <3>3. n = 5 * k - 1
      BY <1>4, <2>2, <3>2
    <3> QED
      BY <1>4, <2>2, <3>3
  <2> QED
    BY <2>1, <2>2 DEF Can
<1> QED
  BY <1>1, <1>5, <1>6, <1>7, <1>8 DEF e, s

-----------------------------------------------------------------------------
(* What is printed and what the stack will print make the text of the item. *)

\* The text in the buffer, whether it is counted or not, and the most a buffer
\* can hold.
Printed(b) == Part(b.front \o b.back, b.offset + b.tail)
Whole == JsonText[At(root, p.format, 0)]
Limit(b) == IF b.noalloc THEN b.length ELSE IntMax

\* With IInv and Types, the inductive invariant for the text.
Progress ==
  /\ \E rest \in Parts :
       Prints(todo, p.format, p.depth, 0, rest) /\ Printed(p) ++ rest = Whole
  /\ Pauses(todo) /\ (Can(todo) <=> Printable[root])
  /\ ~Measures(todo) => p.back = << >> /\ p.tail = 0

TextInv == (status = "printing" => Progress) /\ TextIsPrinted /\ SlackSuffices

\* Counting what was written changes no text.
LEMMA UpdateText ==
  ASSUME NEW b, Natural(b), b.buffer
  PROVE  LET u == update_offset(b)
         IN  /\ u.format = b.format /\ u.depth = b.depth /\ u.noalloc = b.noalloc
             /\ u.length = b.length /\ u.back = << >> /\ u.tail = 0
             /\ Printed(u) = Printed(b)
<1> DEFINE u == update_offset(b)
<1>1. /\ b \in PrintBuffer /\ b.front \in Seq(Symbol) /\ b.back \in Seq(Symbol)
      /\ b.offset \in Nat /\ b.tail \in Nat
  BY DEF Natural, PrintBuffer
<1>2. u = [b EXCEPT !.offset = b.offset + b.tail, !.tail = 0,
                    !.front = b.front \o b.back, !.back = << >>]
  BY DEF update_offset
<1> HIDE DEF u
<1>3. /\ u.format = b.format /\ u.depth = b.depth /\ u.noalloc = b.noalloc
      /\ u.length = b.length /\ u.back = << >> /\ u.tail = 0
      /\ u.front = b.front \o b.back /\ u.offset = b.offset + b.tail
  BY <1>1, <1>2 DEF PrintBuffer
<1>4. (b.front \o b.back) \o << >> = b.front \o b.back
  <2>1. b.front \o b.back \in Seq(Symbol)
    BY <1>1
  <2> HIDE DEF Symbol
  <2> QED
    BY <2>1
<1>5. (b.offset + b.tail) + 0 = b.offset + b.tail
  BY <1>1
<1>6. Printed(u) = Printed(b)
  BY <1>3, <1>4, <1>5 DEF Printed
<1> QED
  BY <1>3, <1>6 DEF u

\* What is in a buffer is a part of a text.
LEMMA PrintedType ==
  ASSUME NEW b, Natural(b)
  PROVE  Printed(b) \in Parts /\ Printed(b).bytes = b.offset + b.tail
<1>1. /\ b.front \in Seq(Symbol) /\ b.back \in Seq(Symbol)
      /\ b.offset \in Nat /\ b.tail \in Nat
  BY DEF Natural, PrintBuffer
<1>2. b.front \o b.back \in Seq(Symbol) /\ b.offset + b.tail \in Nat
  BY <1>1
<1> QED
  BY <1>2 DEF Printed, Part, Parts

\* If ensure() refuses, though the allocator has not failed, then what was asked
\* for and the byte behind it exceed the limit.
LEMMA Refusal ==
  ASSUME NEW b, Natural(b), Room(b), b.buffer, NEW needed \in Nat, NEW memory \in BOOLEAN,
         ~ensure(b, needed, memory).ok, ensure(b, needed, memory).freed = 0
  PROVE  /\ ensure(b, needed, memory).p = b
         /\ b.offset + needed + 1 > Limit(b)
<1>1. /\ b.length \in 0 .. IntMax /\ b.offset \in Nat /\ b.tail \in Nat
      /\ b.noalloc \in BOOLEAN /\ IntMax \in Nat
      /\ ~b.noalloc => b.offset + b.tail < b.length \/ b.length = 0
  BY PrinterAssumption DEF Natural, PrintBuffer, Room, Empty
<1>2. CASE (b.length > 0 /\ b.offset >= b.length) \/ needed > IntMax
  <2>1. ensure(b, needed, memory) = Refused(b)
    BY <1>2 DEF ensure
  <2>2. b.offset + needed + 1 > Limit(b)
    BY <1>1, <1>2 DEF Limit
  <2> QED
    BY <2>1, <2>2 DEF Refused
<1>3. CASE ~((b.length > 0 /\ b.offset >= b.length) \/ needed > IntMax)
  <2> DEFINE total == needed + b.offset + 1
  <2>1. ~(total <= b.length)
    BY <1>3 DEF ensure, Granted
  <2>2. ensure(b, needed, memory) = Grown(b, total, memory)
    BY <1>3, <2>1 DEF ensure
  <2>3. b.noalloc \/ total > IntMax
    BY <2>2 DEF Grown, Granted, Starved
  <2>4. Grown(b, total, memory) = Refused(b)
    BY <2>3 DEF Grown
  <2>5. b.offset + needed + 1 > Limit(b)
    BY <1>1, <2>1, <2>3 DEF Limit
  <2> QED
    BY <2>2, <2>4, <2>5 DEF Refused
<1> QED
  BY <1>2, <1>3

\* b with a part of a text written behind what was there.
Adds(b, w, part) ==
  /\ w \in PrintBuffer /\ w.format = b.format /\ Printed(w) = Printed(b) ++ part

\* Writing a piece where nothing waits to be counted adds its text.
LEMMA PieceText ==
  ASSUME NEW b, Natural(b), b.back = << >>, b.tail = 0,
         NEW bytes \in Nat, NEW text \in Seq(Symbol)
  PROVE  /\ \A w \in {Open(b, bytes, text), Closed(b, bytes, text), Pending(b, bytes, text)} :
              Adds(b, w, Part(text, bytes)) /\ w.depth = b.depth
         /\ \A w \in {Open(b, bytes, text), Closed(b, bytes, text)} : w.back = << >> /\ w.tail = 0
<1>1. /\ b \in PrintBuffer /\ b.front \in Seq(Symbol) /\ b.offset \in Nat
  BY DEF Natural, PrintBuffer
<1>2. ASSUME NEW w \in {Open(b, bytes, text), Closed(b, bytes, text), Pending(b, bytes, text)}
      PROVE  w \in PrintBuffer /\ w.depth = b.depth
  <2>1. IsPiece(b, w)
    BY DEF IsPiece
  <2> QED
    BY <2>1, PieceNatural DEF Natural
<1>3. b.front \o << >> = b.front /\ b.offset + 0 = b.offset /\ b.front \o text \in Seq(Symbol)
  <2> HIDE DEF Symbol
  <2> QED
    BY <1>1
<1>4. Printed(b) ++ Part(text, bytes) = Part(b.front \o text, b.offset + bytes)
  BY <1>3 DEF Printed, ++, Part
<1>5. ASSUME NEW w \in {Open(b, bytes, text), Closed(b, bytes, text)}
      PROVE  /\ w.format = b.format /\ w.back = << >> /\ w.tail = 0
             /\ w.front = b.front \o text /\ w.offset = b.offset + bytes
  BY <1>1 DEF Open, Closed, PrintBuffer
<1>6. LET w == Pending(b, bytes, text)
      IN  /\ w.format = b.format /\ w.back = text /\ w.tail = bytes
          /\ w.front = b.front /\ w.offset = b.offset
  BY <1>1 DEF Pending, PrintBuffer
<1>7. ASSUME NEW w \in {Open(b, bytes, text), Closed(b, bytes, text)}
      PROVE  Printed(w) = Part(b.front \o text, b.offset + bytes)
  <2>1. (b.front \o text) \o << >> = b.front \o text /\ (b.offset + bytes) + 0 = b.offset + bytes
    <3>1. b.offset + bytes \in Nat
      BY <1>1
    <3> HIDE DEF Symbol
    <3> QED
      BY <1>3, <3>1
  <2> QED
    BY <1>5, <2>1 DEF Printed
<1>8. Printed(Pending(b, bytes, text)) = Part(b.front \o text, b.offset + bytes)
  BY <1>6 DEF Printed
<1> QED
  BY <1>2, <1>4, <1>5, <1>6, <1>7, <1>8 DEF Adds

\* A change of the depth adds no text.
LEMMA DepthText ==
  ASSUME NEW b, NEW w, NEW part, Adds(b, w, part)
  PROVE  /\ Adds(b, Deeper(w), part) /\ Deeper(w).depth = w.depth + 1
         /\ Deeper(w).back = w.back /\ Deeper(w).tail = w.tail
         /\ Adds(b, Shallower(w), part) /\ Shallower(w).depth = w.depth - 1
<1>1. w \in PrintBuffer /\ w.depth \in Int
  BY DEF Adds, PrintBuffer
<1>2. ASSUME NEW d \in Int
      PROVE  LET v == [w EXCEPT !.depth = d]
             IN  /\ v \in PrintBuffer /\ v.depth = d /\ v.format = w.format /\ v.back = w.back
                 /\ v.tail = w.tail /\ v.front = w.front /\ v.offset = w.offset
  BY <1>1 DEF PrintBuffer
<1>3. w.depth + 1 \in Int /\ w.depth - 1 \in Int
  BY <1>1
<1>4. /\ Deeper(w) \in PrintBuffer /\ Deeper(w).depth = w.depth + 1
      /\ Deeper(w).format = w.format /\ Deeper(w).back = w.back /\ Deeper(w).tail = w.tail
      /\ Deeper(w).front = w.front /\ Deeper(w).offset = w.offset
  BY <1>2, <1>3 DEF Deeper
<1>5. /\ Shallower(w) \in PrintBuffer /\ Shallower(w).depth = w.depth - 1
      /\ Shallower(w).format = w.format /\ Shallower(w).back = w.back
      /\ Shallower(w).tail = w.tail /\ Shallower(w).front = w.front
      /\ Shallower(w).offset = w.offset
  BY <1>2, <1>3 DEF Shallower
<1>6. Printed(Deeper(w)) = Printed(w) /\ Printed(Shallower(w)) = Printed(w)
  BY <1>4, <1>5 DEF Printed
<1> QED
  BY <1>4, <1>5, <1>6 DEF Adds

\* The buffers that ask for room.
LEMMA AsksText ==
  ASSUME NEW STATE b, IInv, Types, TextInv, status = "printing", todo # << >>, Asks(b)
  PROVE  /\ Natural(b) /\ Room(b) /\ b.buffer /\ b.format = p.format /\ b.depth = p.depth
         /\ b.noalloc = p.noalloc /\ b.length = p.length /\ Printed(b) = Printed(p)
         /\ b = update_offset(p) \/ ~Measures(todo) => b.back = << >> /\ b.tail = 0
<1>1. Natural(p) /\ p.buffer
  BY DEF Types, IInv, Ledger
<1>2. Natural(b) /\ Room(b) /\ b.buffer /\ b.noalloc = p.noalloc /\ b.length = p.length
  BY AsksRoom, StepTypes
<1>3. CASE b = p
  <2>1. /\ p = update_offset(p) => p.back = << >> /\ p.tail = 0
        /\ ~Measures(todo) => p.back = << >> /\ p.tail = 0
    BY <1>1, UpdateText DEF TextInv, Progress
  <2> QED
    BY <1>2, <1>3, <2>1
<1>4. CASE b = update_offset(p)
  BY <1>1, <1>2, <1>4, UpdateText
<1> QED
  BY <1>3, <1>4 DEF Asks

\* A step that prints something, and puts what it has planned on the stack: out
\* is what it prints, more what its plan will print.
LEMMA PutText ==
  ASSUME NEW STATE b, NEW STATE needed, NEW STATE w, NEW STATE plan, NEW STATE out, NEW STATE more,
         IInv, Types, TextInv, status = "printing", todo # << >>, Asks(b),
         needed \in Nat, out \in Parts, needed <= out.bytes + 1, Adds(b, w, out),
         more \in Parts, Output(todo[1], p.format, p.depth) = out ++ more,
         plan \in Seq(StepSet), Pauses(plan), plan = << >> \/ Measures(Tail(todo)),
         Prints(plan, p.format, w.depth, p.depth - Ends(todo[1]), more),
         Can(plan) <=> (todo[1].op = "value" => Printable[todo[1].item]),
         ~Measures(plan \o Tail(todo)) => w.back = << >> /\ w.tail = 0,
         Put(b, needed, w, plan)
  PROVE  TextInv'
<1>1. todo \in Seq(StepSet) /\ Tail(todo) \in Seq(StepSet) /\ p.format \in BOOLEAN
  BY StepTypes DEF IInv, Script, Types, Natural, PrintBuffer
<1>2. PICK rest \in Parts :
        Prints(todo, p.format, p.depth, 0, rest) /\ Printed(p) ++ rest = Whole
  BY DEF TextInv, Progress
<1>3. PICK behind \in Parts :
        /\ rest = Output(todo[1], p.format, p.depth) ++ behind
        /\ Prints(Tail(todo), p.format, p.depth - Ends(todo[1]), 0, behind)
  BY <1>1, <1>2, PrintsTail
<1>4. /\ Pauses(Tail(todo))
      /\ Can(todo) <=> (todo[1].op = "value" => Printable[todo[1].item]) /\ Can(Tail(todo))
      /\ Can(todo) <=> Printable[root]
  BY <1>1, FollowsTail DEF TextInv, Progress
<1>5. /\ Natural(b) /\ Room(b) /\ b.buffer /\ b.format = p.format /\ Printed(b) = Printed(p)
      /\ b.noalloc = p.noalloc /\ b.length = p.length
  BY AsksText
<1>6. /\ Printed(b) \in Parts /\ Printed(b).bytes = b.offset + b.tail
      /\ b.offset \in Nat /\ b.tail \in Nat
  BY <1>5, PrintedType DEF Natural
<1>7. /\ more ++ behind \in Parts /\ out ++ (more ++ behind) \in Parts
      /\ rest = out ++ (more ++ behind) /\ Whole = Printed(b) ++ rest
      /\ Whole = (Printed(b) ++ out) ++ (more ++ behind)
  <2>1. more ++ behind \in Parts
    BY Monoid
  <2>2. rest = out ++ (more ++ behind)
    BY <1>3, Regroup
  <2>3. Printed(b) ++ (out ++ (more ++ behind)) = (Printed(b) ++ out) ++ (more ++ behind)
    BY <1>6, <2>1, Regroup
  <2> QED
    BY <1>2, <1>5, <2>1, <2>2, <2>3, Monoid
<1>8. PICK memory \in BOOLEAN :
        LET granted == ensure(b, needed, memory)
        IN  /\ p' = IF granted.ok THEN [w EXCEPT !.length = granted.p.length]
                                  ELSE granted.p
            /\ blocks' = blocks - granted.freed
            /\ starved' = (starved \/ granted.freed > 0)
            /\ status' = IF granted.ok THEN "printing" ELSE "failing"
            /\ todo' = IF granted.ok THEN plan \o Tail(todo) ELSE << >>
            /\ UNCHANGED <<call, root>>
  BY DEF Put
<1> DEFINE g == ensure(b, needed, memory)
<1>9. CASE g.ok
  <2>1. /\ p' = [w EXCEPT !.length = g.p.length] /\ status' = "printing"
        /\ todo' = plan \o Tail(todo) /\ root' = root
    BY <1>8, <1>9
  <2> HIDE DEF g
  <2>2. /\ p'.format = w.format /\ p'.depth = w.depth /\ p'.back = w.back /\ p'.tail = w.tail
        /\ p'.front = w.front /\ p'.offset = w.offset
    BY <2>1 DEF Adds, PrintBuffer
  <2>3. p'.format = p.format /\ Printed(p') = Printed(b) ++ out
    BY <1>5, <2>2 DEF Adds, Printed
  <2>4. Prints(todo', p'.format, p'.depth, 0, more ++ behind)
    BY <1>1, <1>3, <2>1, <2>2, <2>3, PrintsConcat
  <2>5. Whole' = Whole
    BY <2>1, <2>3 DEF Whole
  <2>6. Pauses(todo') /\ (Can(todo') <=> Printable[root'])
    <3>1. Pauses(plan \o Tail(todo)) /\ (Can(plan \o Tail(todo)) <=> Can(plan) /\ Can(Tail(todo)))
      BY <1>1, <1>4, FollowsConcat
    <3> QED
      BY <1>4, <2>1, <3>1
  <2>7. ~Measures(todo') => p'.back = << >> /\ p'.tail = 0
    BY <2>1, <2>2
  <2>8. Progress'
    BY <1>7, <2>3, <2>4, <2>5, <2>6, <2>7 DEF Progress, Printed, Measures, Whole
  <2>9. TextIsPrinted' /\ SlackSuffices'
    BY <2>1 DEF TextIsPrinted, SlackSuffices
  <2> QED
    BY <2>8, <2>9 DEF TextInv
<1>10. CASE ~g.ok
  <2>1. /\ p' = g.p /\ status' = "failing" /\ root' = root
        /\ starved' = (starved \/ g.freed > 0)
    BY <1>8, <1>10
  <2> HIDE DEF g
  <2>2. ASSUME ~starved'
        PROVE  JsonText[At(root', p'.format, 0)].bytes + 1 + 1
                 > IF p'.noalloc THEN p'.length ELSE IntMax
    <3>1. g.freed = 0
      <4>1. g.freed \in {0, 1}
        BY DEF g, ensure, Grown, Granted, Refused, Starved
      <4>2. ~(g.freed > 0)
        BY <2>1, <2>2, Zenon
      <4> QED
        BY <4>1, <4>2
    <3>2. g.p = b /\ b.offset + needed + 1 > Limit(b)
      BY <1>5, <1>10, <3>1, Refusal DEF g
    <3>3. p' = b
      BY <2>1, <3>2
    <3>4. JsonText[At(root', p'.format, 0)] = Whole
      BY <1>5, <2>1, <3>3 DEF Whole
    <3>5. Whole.bytes = (b.offset + b.tail) + (out.bytes + (more ++ behind).bytes)
      <4>1. Whole.bytes = Printed(b).bytes + rest.bytes
        BY <1>7 DEF ++, Part
      <4>2. rest.bytes = out.bytes + (more ++ behind).bytes
        BY <1>7 DEF ++, Part
      <4> QED
        BY <1>6, <4>1, <4>2
    <3>6. out.bytes \in Nat /\ (more ++ behind).bytes \in Nat
      BY <1>7 DEF Parts
    <3>7. Limit(b) \in Nat
      BY <1>5, PrinterAssumption DEF Limit, Natural
    <3>8. Whole.bytes + 1 + 1 > Limit(b)
      <4>1. out.bytes \in Nat /\ b.offset \in Nat /\ b.tail \in Nat /\ needed \in Nat
            /\ needed <= out.bytes + 1
        BY <1>6, <3>6
      <4>2. b.offset + out.bytes + 1 + 1 > Limit(b)
        BY <3>2, <3>7, <4>1
      <4>3. Whole.bytes >= b.offset + out.bytes /\ Whole.bytes \in Nat
        BY <3>5, <3>6, <4>1
      <4> QED
        BY <3>7, <4>1, <4>2, <4>3
    <3> QED
      BY <3>3, <3>4, <3>8 DEF Limit
  <2>3. SlackSuffices'
    BY <2>2 DEF SlackSuffices
  <2>4. TextIsPrinted' /\ (status' # "printing")
    BY <2>1 DEF TextIsPrinted
  <2> QED
    BY <2>3, <2>4 DEF TextInv
<1> QED
  BY <1>9, <1>10

\* A step that prints something and plans nothing.
LEMMA PiecePutText ==
  ASSUME NEW STATE b, NEW STATE needed, NEW STATE w, NEW STATE out,
         IInv, Types, TextInv, status = "printing", todo # << >>, Asks(b),
         needed \in Nat, out \in Parts, needed <= out.bytes + 1, Adds(b, w, out),
         Output(todo[1], p.format, p.depth) = out, w.depth = p.depth - Ends(todo[1]),
         todo[1].op = "value" => Printable[todo[1].item],
         todo[1].op \in {"value", "key", "close"} \/ (w.back = << >> /\ w.tail = 0),
         Put(b, needed, w, << >>)
  PROVE  TextInv'
<1>1. todo \in Seq(StepSet) /\ Tail(todo) \in Seq(StepSet) /\ p.depth \in Nat
  BY StepTypes DEF IInv, Script
<1>2. << >> \o Tail(todo) = Tail(todo) /\ << >> \in Seq(StepSet)
  BY <1>1
<1>3. Pauses(<< >>) /\ Can(<< >>)
  BY DEF Pauses, Can
<1>4. todo[1].op \in {"value", "key", "close"} => Measures(Tail(todo))
  BY <1>1, FollowsTail DEF TextInv, Progress
<1>5. Nothing \in Parts /\ out ++ Nothing = out
  BY Monoid
<1>6. w.depth \in Nat
  <2>1. w.depth = p.depth \/ (todo[1].op = "close" /\ w.depth = p.depth - 1)
    BY <1>1 DEF Ends
  <2> QED
    BY <1>1, <2>1, StepTypes
<1>7. Prints(<< >>, p.format, w.depth, p.depth - Ends(todo[1]), Nothing)
  BY <1>6, PrintsNothing
<1>8. ~Measures(<< >> \o Tail(todo)) => w.back = << >> /\ w.tail = 0
  BY <1>2, <1>4
<1> QED
  BY <1>2, <1>3, <1>5, <1>7, <1>8, PutText

\* A step that prints nothing.
LEMMA ProceedText ==
  ASSUME NEW STATE b, IInv, Types, TextInv, status = "printing", todo # << >>, Asks(b),
         b = update_offset(p) \/ ~Measures(todo), todo[1].op \notin {"value", "close"},
         Output(todo[1], p.format, p.depth) = Nothing, Proceed(b)
  PROVE  TextInv'
<1>1. todo \in Seq(StepSet) /\ p.depth \in Nat
  BY StepTypes DEF IInv, Script
<1>2. PICK rest \in Parts :
        Prints(todo, p.format, p.depth, 0, rest) /\ Printed(p) ++ rest = Whole
  BY DEF TextInv, Progress
<1>3. PICK behind \in Parts :
        /\ rest = Output(todo[1], p.format, p.depth) ++ behind
        /\ Prints(Tail(todo), p.format, p.depth - Ends(todo[1]), 0, behind)
  BY <1>1, <1>2, PrintsTail
<1>4. rest = behind /\ p.depth - Ends(todo[1]) = p.depth
  BY <1>1, <1>3, Monoid DEF Ends
<1>5. Pauses(Tail(todo)) /\ (Can(Tail(todo)) <=> Printable[root])
  BY <1>1, FollowsTail DEF TextInv, Progress
<1>6. /\ b.format = p.format /\ b.depth = p.depth /\ Printed(b) = Printed(p)
      /\ b.back = << >> /\ b.tail = 0
  BY AsksText
<1>7. p' = b /\ todo' = Tail(todo) /\ root' = root /\ status' = "printing"
  BY DEF Proceed
<1>8. Whole' = Whole /\ Printed(p') = Printed(p)
  BY <1>6, <1>7 DEF Whole
<1>9. Prints(todo', p'.format, p'.depth, 0, rest) /\ Printed(p') ++ rest = Whole'
  BY <1>2, <1>3, <1>4, <1>6, <1>7, <1>8
<1>10. Progress'
  BY <1>5, <1>6, <1>7, <1>9 DEF Progress, Printed, Whole
<1>11. TextIsPrinted' /\ SlackSuffices'
  BY <1>7 DEF TextIsPrinted, SlackSuffices
<1> QED
  BY <1>10, <1>11 DEF TextInv

\* The text of an item that contains none.
LEMMA ScalarText ==
  ASSUME NEW i \in Item, NEW format \in BOOLEAN, NEW depth \in Nat,
         kind[i] \notin {"Array", "Object"}
  PROVE  /\ JsonText[At(i, format, depth)] = IF kind[i] = "String" THEN Part(<<"s">>, size[i] + 2)
                                                                 ELSE Part(<<"n">>, size[i])
         /\ Printable[i] <=> kind[i] # "Invalid"
<1> DEFINE l == At(i, format, depth)
<1>1. l \in Layouts /\ l.item = i
  BY DEF At, Layouts
<1>2. JsonText[l] = TextStep(l, JsonText)
  BY <1>1, JsonTextSteps
<1> HIDE DEF l
<1>3. TextStep(l, JsonText) = IF kind[i] = "String" THEN Part(<<"s">>, size[i] + 2)
                                                   ELSE Part(<<"n">>, size[i])
  BY <1>1 DEF TextStep
<1>4. Printable[i] <=> kind[i] # "Invalid"
  BY PrintableSteps
<1> QED
  BY <1>2, <1>3, <1>4 DEF l

\* Literals, numbers, strings and names.
LEMMA ScalarTextStep ==
  ASSUME IInv, Types, TextInv, print_literal \/ print_number \/ print_string \/ print_key
  PROVE  TextInv'
<1>1. /\ status = "printing" /\ todo # << >> /\ Asks(p) /\ todo[1].op \in {"value", "key"}
  BY DEF print_literal, print_number, print_string, print_key, Printing, Doing, Asks
<1>2. /\ size[item] \in Nat /\ item \in Item
      /\ todo[1].op = "key" => keysize[kids[item][todo[1].k]] \in Nat
  BY <1>1, StepFacts
<1>3. /\ <<"n">> \in Seq(Symbol) /\ <<"s">> \in Seq(Symbol)
      /\ "n" \in Symbol /\ "s" \in Symbol
  BY DEF Symbol
<1>4. ~Measures(todo) /\ Ends(todo[1]) = 0
  BY <1>1 DEF Measures, Ends
<1>5. /\ Natural(p) /\ p.format \in BOOLEAN /\ p.depth \in Nat /\ p.depth - 0 = p.depth
      /\ p.back = << >> /\ p.tail = 0
  BY <1>1, <1>4, AsksText DEF Natural, PrintBuffer
<1>6. ASSUME NEW STATE bytes, NEW STATE text, NEW STATE w, NEW STATE needed,
             bytes \in Nat, text \in Seq(Symbol), Part(text, bytes) \in Parts,
             w \in {Closed(p, bytes, text), Pending(p, bytes, text)}, needed = bytes + 1,
             Output(todo[1], p.format, p.depth) = Part(text, bytes),
             todo[1].op = "value" => Printable[todo[1].item],
             Put(p, needed, w, << >>)
      PROVE  TextInv'
  <2>1. Adds(p, w, Part(text, bytes)) /\ w.depth = p.depth - Ends(todo[1])
    BY <1>4, <1>5, <1>6, PieceText
  <2>2. needed \in Nat /\ needed <= Part(text, bytes).bytes + 1
    BY <1>6 DEF Part
  <2> QED
    BY <1>1, <1>6, <2>1, <2>2, PiecePutText
<1>7. ASSUME Doing("value"), kind[item] \in {"Literal", "Number", "String"}
      PROVE  /\ Printable[todo[1].item]
             /\ kind[item] # "String" => Output(todo[1], p.format, p.depth) = Part(<<"n">>, size[item])
             /\ kind[item] = "String" => Output(todo[1], p.format, p.depth) = Part(<<"s">>, size[item] + 2)
  <2>1. /\ JsonText[At(item, p.format, p.depth)]
             = IF kind[item] = "String" THEN Part(<<"s">>, size[item] + 2) ELSE Part(<<"n">>, size[item])
        /\ Printable[item]
    BY <1>2, <1>5, <1>7, ScalarText
  <2>2. Output(todo[1], p.format, p.depth) = JsonText[At(item, p.format, p.depth)]
    BY <1>7 DEF Output, item, Doing
  <2> QED
    BY <2>1, <2>2 DEF item
<1>8. CASE print_literal
  <2>1. /\ Doing("value") /\ kind[item] = "Literal"
        /\ Put(p, size[item] + 1, Pending(p, size[item], <<"n">>), << >>)
    BY <1>8 DEF print_literal, Printing
  <2>2. Part(<<"n">>, size[item]) \in Parts
    BY <1>2, <1>3, Punctuation
  <2> QED
    BY <1>2, <1>3, <1>6, <1>7, <2>1, <2>2
<1>9. CASE print_number
  <2>1. /\ Doing("value") /\ kind[item] = "Number"
        /\ Put(p, size[item] + 1, Closed(p, size[item], <<"n">>), << >>)
    BY <1>9 DEF print_number, Printing
  <2>2. Part(<<"n">>, size[item]) \in Parts
    BY <1>2, <1>3, Punctuation
  <2> QED
    BY <1>2, <1>3, <1>6, <1>7, <2>1, <2>2
<1>10. CASE print_string
  <2>1. /\ Doing("value") /\ kind[item] = "String"
        /\ Put(p, size[item] + 3, Pending(p, size[item] + 2, <<"s">>), << >>)
    BY <1>10 DEF print_string, Printing
  <2>2. size[item] + 2 \in Nat /\ size[item] + 3 = (size[item] + 2) + 1
    BY <1>2
  <2>3. Part(<<"s">>, size[item] + 2) \in Parts
    BY <1>3, <2>2, Punctuation
  <2> QED
    BY <1>3, <1>6, <1>7, <2>1, <2>2, <2>3
<1>11. CASE print_key
  <2> DEFINE bytes == keysize[kids[item][todo[1].k]]
  <2>1. todo[1].op = "key" /\ Put(p, bytes + 3, Pending(p, bytes + 2, <<"s">>), << >>)
    BY <1>11 DEF print_key, Doing
  <2>2. Output(todo[1], p.format, p.depth) = Part(<<"s">>, bytes + 2)
    BY <2>1 DEF Output, item
  <2>3. bytes \in Nat
    BY <1>2, <2>1
  <2> HIDE DEF bytes
  <2>4. bytes + 2 \in Nat /\ bytes + 3 = (bytes + 2) + 1
    BY <2>3
  <2>5. Part(<<"s">>, bytes + 2) \in Parts
    BY <1>3, <2>4, Punctuation
  <2> QED
    BY <1>3, <1>6, <2>1, <2>2, <2>4, <2>5
<1> QED
  BY <1>8, <1>9, <1>10, <1>11

\* A text of two symbols is one symbol behind another.
LEMMA Pair == \A x, y : <<x>> \o <<y>> = <<x, y>>
<1> SUFFICES ASSUME NEW x, NEW y PROVE <<x>> \o <<y>> = <<x, y>>
  OBVIOUS
<1> DEFINE joined == <<x>> \o <<y>>
           pair == <<x, y>>
<1>1. pair \in Seq({x, y}) /\ joined \in Seq({x, y})
  OBVIOUS
<1>2. /\ Len(joined) = 2 /\ joined[1] = x /\ joined[2] = y
      /\ Len(pair) = 2 /\ pair[1] = x /\ pair[2] = y
  OBVIOUS
<1> HIDE DEF joined, pair
<1>3. \A n \in 1 .. 2 : n = 1 \/ n = 2
  OBVIOUS
<1>4. joined = pair
  BY <1>1, <1>2, <1>3, SeqEqual
<1> QED
  BY <1>4 DEF joined, pair

\* The length of two texts.
LEMMA LenConcat ==
  \A s, t \in Seq(Symbol) : Len(s \o t) = Len(s) + Len(t)
OBVIOUS

\* The punctuation the code writes is that of the text.
LEMMA PunctuationText ==
  ASSUME p.format \in BOOLEAN
  PROVE  /\ Part(Comma, Len(Comma)) = CommaText(p.format)
         /\ Part(Colon, Len(Colon)) = Part(<<":">>, 1) ++ Space(p.format)
         /\ Part(Brace, Len(Brace)) = Part(<<"{">>, 1) ++ Space(p.format)
         /\ LET end == (IF AtLast THEN << >> ELSE <<",">>)
                         \o (IF p.format THEN <<" ">> ELSE << >>)
            IN  Part(end, Len(end)) = IF AtLast THEN Space(p.format) ELSE CommaText(p.format)
<1>1. \A x : Len(<<x>>) = 1 /\ \A y : Len(<<x, y>>) = 2
  OBVIOUS
<1>2. \A x : /\ Part(<<x>>, 1) ++ Part(<<" ">>, 1) = Part(<<x, " ">>, 2)
             /\ Part(<<x>>, 1) ++ Nothing = Part(<<x>>, 1)
  <2> SUFFICES ASSUME NEW x
               PROVE  /\ Part(<<x>>, 1) ++ Part(<<" ">>, 1) = Part(<<x, " ">>, 2)
                      /\ Part(<<x>>, 1) ++ Nothing = Part(<<x>>, 1)
    OBVIOUS
  <2>1. <<x>> \o << >> = <<x>> /\ 1 + 1 = 2 /\ 1 + 0 = 1
    OBVIOUS
  <2>2. <<x>> \o <<" ">> = <<x, " ">>
    BY Pair
  <2>3. Part(<<x>>, 1) ++ Part(<<" ">>, 1) = Part(<<x>> \o <<" ">>, 1 + 1)
    BY DEF ++, Part
  <2>4. Part(<<x>>, 1) ++ Part(<< >>, 0) = Part(<<x>> \o << >>, 1 + 0)
    BY DEF ++, Part
  <2> QED
    BY <2>1, <2>2, <2>3, <2>4, Zenon DEF Nothing
<1>3. Space(p.format) = IF p.format THEN Part(<<" ">>, 1) ELSE Nothing
  BY DEF Space
<1>4. Part(Comma, Len(Comma)) = CommaText(p.format)
  BY <1>1, <1>2, <1>3 DEF Comma, CommaText
<1>5. Part(Colon, Len(Colon)) = Part(<<":">>, 1) ++ Space(p.format)
  BY <1>1, <1>2, <1>3 DEF Colon
<1>6. Part(Brace, Len(Brace)) = Part(<<"{">>, 1) ++ Space(p.format)
  BY <1>1, <1>2, <1>3 DEF Brace
<1>6a. << >> \in Seq(Symbol) /\ <<",">> \in Seq(Symbol) /\ <<" ">> \in Seq(Symbol)
  BY DEF Symbol
<1>7. ASSUME NEW sign \in {<< >>, <<",">>}, NEW space \in {<< >>, <<" ">>}
      PROVE  Part(sign \o space, Len(sign \o space)) = Part(sign, Len(sign)) ++ Part(space, Len(space))
  <2>1. Len(sign \o space) = Len(sign) + Len(space)
    <3>1. sign \in Seq(Symbol) /\ space \in Seq(Symbol)
      BY <1>6a, Zenon
    <3> QED
      BY <3>1, LenConcat
  <2>2. Part(sign, Len(sign)) ++ Part(space, Len(space))
          = Part(sign \o space, Len(sign) + Len(space))
    BY DEF ++, Part
  <2> QED
    BY <2>1, <2>2
<1> DEFINE sign == IF AtLast THEN << >> ELSE <<",">>
           space == IF p.format THEN <<" ">> ELSE << >>
<1>8. Part(space, Len(space)) = Space(p.format) /\ Space(p.format) \in Parts
  <2>1. Len(<< >>) = 0
    OBVIOUS
  <2>2. Space(p.format) \in Parts
    BY Punctuation
  <2> QED
    BY <1>1, <1>3, <2>1, <2>2 DEF Nothing
<1>9. Part(sign, Len(sign)) = IF AtLast THEN Nothing ELSE Part(<<",">>, 1)
  <2>1. Len(<< >>) = 0 /\ Len(<<",">>) = 1
    OBVIOUS
  <2>2. CASE AtLast
    BY <2>1, <2>2 DEF Nothing
  <2>3. CASE ~AtLast
    BY <2>1, <2>3
  <2> QED
    BY <2>2, <2>3
<1>10. sign \in {<< >>, <<",">>} /\ space \in {<< >>, <<" ">>}
  OBVIOUS
<1>11. Part(sign \o space, Len(sign \o space))
         = IF AtLast THEN Space(p.format) ELSE CommaText(p.format)
  <2> HIDE DEF sign, space
  <2>1. Part(sign \o space, Len(sign \o space)) = Part(sign, Len(sign)) ++ Part(space, Len(space))
    BY <1>7, <1>10
  <2>2. Nothing ++ Space(p.format) = Space(p.format)
    BY <1>8, Monoid
  <2> QED
    BY <1>8, <1>9, <2>1, <2>2 DEF CommaText
<1> QED
  BY <1>4, <1>5, <1>6, <1>11

\* Indentation, colons and what is behind an element or a member.
LEMMA SeparatorTextStep ==
  ASSUME IInv, Types, TextInv, Indent \/ print_colon \/ ElementEnd \/ MemberEnd
  PROVE  TextInv'
<1> DEFINE b == update_offset(p)
<1>1. /\ status = "printing" /\ todo # << >> /\ Asks(p) /\ Asks(b)
      /\ todo[1].op \in {"indent", "colon", "comma"}
  BY DEF Indent, print_colon, ElementEnd, MemberEnd, Doing, Asks
<1>2. Ends(todo[1]) = 0 /\ (todo[1].op = "indent" => ~Measures(todo))
      /\ todo[1].op \notin {"value", "close"}
  BY <1>1 DEF Ends, Measures
<1>3. /\ Natural(p) /\ p.format \in BOOLEAN /\ p.depth \in Nat /\ p.depth - 0 = p.depth
      /\ todo[1].op = "indent" => p.back = << >> /\ p.tail = 0
  BY <1>1, <1>2, AsksText DEF Natural, PrintBuffer
<1>4. Natural(b) /\ b.back = << >> /\ b.tail = 0 /\ b.depth = p.depth
  BY <1>1, AsksText
<1>5. /\ Comma \in Seq(Symbol) /\ Colon \in Seq(Symbol) /\ Len(Comma) \in Nat /\ Len(Colon) \in Nat
      /\ <<" ">> \in Seq(Symbol)
  <2>1. \A q \in Seq(Symbol) : Len(q) \in Nat
    OBVIOUS
  <2>2. <<" ">> \in Seq(Symbol)
    BY DEF Symbol
  <2> QED BY <2>1, <2>2, Pieces, Zenon
<1> HIDE DEF b
<1>6. ASSUME NEW STATE c, NEW STATE bytes, NEW STATE text, NEW STATE w, NEW STATE needed,
             Asks(c), Natural(c), c.depth = p.depth, c.back = << >>, c.tail = 0,
             bytes \in Nat, text \in Seq(Symbol), Part(text, bytes) \in Parts,
             w \in {Closed(c, bytes, text), Open(c, bytes, text)},
             needed \in Nat, needed <= bytes + 1,
             Output(todo[1], p.format, p.depth) = Part(text, bytes),
             Put(c, needed, w, << >>)
      PROVE  TextInv'
  <2>1. /\ Adds(c, w, Part(text, bytes)) /\ w.depth = p.depth - Ends(todo[1])
        /\ w.back = << >> /\ w.tail = 0
    BY <1>2, <1>3, <1>6, PieceText
  <2>2. needed <= Part(text, bytes).bytes + 1
    BY <1>6 DEF Part
  <2> QED
    BY <1>1, <1>2, <1>6, <2>1, <2>2, PiecePutText
<1>7. CASE Indent
  <2>1. todo[1].op = "indent" /\ Output(todo[1], p.format, p.depth) = Tabs(p.format, p.depth)
    BY <1>7 DEF Indent, Doing, Output
  <2>1a. p.depth <= p.depth + 1
    BY <1>3
  <2>2. CASE p.format
    <3>1. Put(p, p.depth, Open(p, p.depth, <<" ">>), << >>)
      BY <1>7, <2>2 DEF Indent
    <3>2. Tabs(p.format, p.depth) = Part(<<" ">>, p.depth)
      BY <2>2 DEF Tabs
    <3>3. Tabs(p.format, p.depth) \in Parts
      BY <1>3, Punctuation
    <3> QED
      BY <1>1, <1>3, <1>5, <1>6, <2>1, <2>1a, <3>1, <3>2, <3>3
  <2>3. CASE ~p.format
    <3>1. Proceed(p) /\ Tabs(p.format, p.depth) = Nothing
      BY <1>7, <2>3 DEF Indent, Tabs
    <3> QED
      BY <1>1, <1>2, <2>1, <3>1, ProceedText
  <2> QED
    BY <2>2, <2>3
<1>8. CASE print_colon
  <2>1. /\ todo[1].op = "colon"
        /\ Put(b, Len(Colon), Open(b, Len(Colon), Colon), << >>)
    BY <1>8 DEF print_colon, Doing, b
  <2>2. Output(todo[1], p.format, p.depth) = Part(Colon, Len(Colon))
    BY <1>3, <2>1, PunctuationText DEF Output
  <2>3. Part(Colon, Len(Colon)) \in Parts
    BY <1>3, Punctuation, PunctuationText
  <2>4. Len(Colon) <= Len(Colon) + 1
    <3>1. \A n \in Nat : n <= n + 1
      OBVIOUS
    <3> QED
      BY <1>5, <3>1, Zenon
  <2> QED
    BY <1>1, <1>4, <1>5, <1>6, <2>1, <2>2, <2>3, <2>4
<1>9. CASE ElementEnd
  <2>1. todo[1].op = "comma" /\ kind[item] = "Array"
    BY <1>9 DEF ElementEnd, Doing
  <2>2. CASE AtLast
    <3>1. Output(todo[1], p.format, p.depth) = Nothing
      BY <2>1, <2>2 DEF Output, AtLast, item
    <3>2. Proceed(b)
      BY <1>9, <2>2 DEF ElementEnd, b
    <3>3. b = update_offset(p)
      BY DEF b
    <3> QED
      BY <1>1, <1>2, <3>1, <3>2, <3>3, ProceedText
  <2>3. CASE ~AtLast
    <3>1. Output(todo[1], p.format, p.depth) = CommaText(p.format)
      BY <2>1, <2>3 DEF Output, AtLast, item
    <3>2. Put(b, Len(Comma) + 1, Closed(b, Len(Comma), Comma), << >>)
      BY <1>9, <2>3 DEF ElementEnd, b
    <3>3. CommaText(p.format) \in Parts /\ CommaText(p.format) = Part(Comma, Len(Comma))
      BY <1>3, Punctuation, PunctuationText
    <3>4. Len(Comma) + 1 \in Nat /\ Len(Comma) + 1 <= Len(Comma) + 1
      <4>1. \A n \in Nat : n + 1 \in Nat /\ n + 1 <= n + 1
        OBVIOUS
      <4> QED
        BY <1>5, <4>1, Zenon
    <3> QED
      BY <1>1, <1>4, <1>5, <1>6, <3>1, <3>2, <3>3, <3>4
  <2> QED
    BY <2>2, <2>3
<1>10. CASE MemberEnd
  <2> DEFINE end == (IF AtLast THEN << >> ELSE <<",">>)
                      \o (IF p.format THEN <<" ">> ELSE << >>)
  <2>1. /\ todo[1].op = "comma" /\ kind[item] = "Object"
        /\ Put(b, Len(end) + 1, Closed(b, Len(end), end), << >>)
    BY <1>10 DEF MemberEnd, Doing, b
  <2>2. Output(todo[1], p.format, p.depth) = IF AtLast THEN Space(p.format) ELSE CommaText(p.format)
    BY <2>1 DEF Output, AtLast, item
  <2>3. Part(end, Len(end)) = IF AtLast THEN Space(p.format) ELSE CommaText(p.format)
    BY <1>3, PunctuationText
  <2>4. end \in Seq(Symbol)
    <3>1. \A x, y \in Seq(Symbol) : x \o y \in Seq(Symbol)
      OBVIOUS
    <3> QED BY <3>1, Pieces, Zenon
  <2> HIDE DEF end
  <2>5. Len(end) \in Nat
    BY <2>4
  <2>6. Len(end) + 1 \in Nat /\ Len(end) + 1 <= Len(end) + 1
    BY <2>5
  <2>7. Part(end, Len(end)) \in Parts
    BY <1>3, <2>3, Punctuation
  <2> QED
    BY <1>1, <1>4, <1>6, <2>1, <2>2, <2>3, <2>4, <2>5, <2>6, <2>7
<1> QED
  BY <1>7, <1>8, <1>9, <1>10

\* Brackets, braces and what is between them.
LEMMA ContainerTextStep ==
  ASSUME IInv, Types, TextInv, OpenArray \/ OpenObject \/ CloseArray \/ CloseObject
  PROVE  TextInv'
<1>1. /\ status = "printing" /\ todo # << >> /\ Asks(p)
      /\ todo[1].op \in {"value", "close"} /\ ~Measures(todo)
  BY DEF OpenArray, OpenObject, CloseArray, CloseObject, Printing, Doing, Asks, Measures
<1>2. /\ item \in Item /\ todo \in Seq(StepSet) /\ Tail(todo) \in Seq(StepSet) /\ p.depth \in Nat
      /\ todo[1].op = "close" => p.depth - 1 \in Nat
  BY <1>1, StepFacts, StepTypes DEF IInv, Script
<1>3. Natural(p) /\ p.format \in BOOLEAN /\ p.back = << >> /\ p.tail = 0
  BY <1>1, AsksText DEF Natural, PrintBuffer
<1>4. /\ <<"[">> \in Seq(Symbol) /\ <<"]">> \in Seq(Symbol) /\ <<"}">> \in Seq(Symbol)
      /\ <<" ", "}">> \in Seq(Symbol)
      /\ "[" \in Symbol /\ "]" \in Symbol /\ "}" \in Symbol
  BY DEF Symbol
<1>5. Brace \in Seq(Symbol) /\ Len(Brace) \in Nat
  <2>1. \A q \in Seq(Symbol) : Len(q) \in Nat
    OBVIOUS
  <2> QED BY <2>1, Pieces, Zenon
<1>6. todo[1].op = "value" => Measures(Tail(todo))
  BY <1>2, <1>1, FollowsTail DEF TextInv, Progress
<1>7. todo[1].op = "value" =>
        /\ Output(todo[1], p.format, p.depth) = JsonText[At(item, p.format, p.depth)]
        /\ p.depth - Ends(todo[1]) = p.depth
  BY <1>2 DEF Output, item, Ends
<1>8. Printable[item] <=> /\ kind[item] # "Invalid"
                          /\ kind[item] \in {"Array", "Object"} =>
                               \A n \in DOMAIN kids[item] : Printable[kids[item][n]]
  BY <1>2, PrintableSteps
<1>9. ASSUME NEW STATE plan, NEW STATE out, NEW STATE more, NEW STATE w, NEW STATE needed,
             todo[1].op = "value", kind[item] \in {"Array", "Object"},
             plan \in Seq(StepSet), Pauses(plan), out \in Parts, more \in Parts,
             Can(plan) <=> \A n \in DOMAIN kids[item] : Printable[kids[item][n]],
             needed \in Nat, needed <= out.bytes + 1,
             Adds(p, w, out), w.depth = p.depth, w.back = << >>, w.tail = 0,
             JsonText[At(item, p.format, p.depth)] = out ++ more,
             Prints(plan, p.format, p.depth + 1, p.depth, more),
             Put(p, needed, Deeper(w), plan)
      PROVE  TextInv'
  <2>1. /\ Adds(p, Deeper(w), out) /\ Deeper(w).depth = p.depth + 1
        /\ Deeper(w).back = << >> /\ Deeper(w).tail = 0
    BY <1>9, DepthText
  <2>2. Can(plan) <=> (todo[1].op = "value" => Printable[todo[1].item])
    BY <1>8, <1>9 DEF item
  <2>3. Output(todo[1], p.format, p.depth) = out ++ more
    BY <1>7, <1>9
  <2>4. Prints(plan, p.format, Deeper(w).depth, p.depth - Ends(todo[1]), more)
    BY <1>7, <1>9, <2>1
  <2> DEFINE v == Deeper(w)
  <2> HIDE DEF v
  <2>5. /\ Adds(p, v, out) /\ v.back = << >> /\ v.tail = 0 /\ Put(p, needed, v, plan)
        /\ Prints(plan, p.format, v.depth, p.depth - Ends(todo[1]), more)
    BY <1>9, <2>1, <2>4 DEF v
  <2> QED
    BY <1>1, <1>6, <1>9, <2>2, <2>3, <2>5, PutText
<1>10. CASE OpenArray
  <2> DEFINE bracket == <<"[">>
             out == Part(bracket, 1)
             plan == ElementSteps
             w == Open(p, 1, bracket)
  <2>1. /\ todo[1].op = "value" /\ kind[item] = "Array"
        /\ Put(p, 1, Deeper(w), plan)
    BY <1>10 DEF OpenArray, Printing, Doing, ElementSteps
  <2>2. PICK more \in Parts :
          /\ JsonText[At(item, p.format, p.depth)] = out ++ more
          /\ Prints(plan, p.format, p.depth + 1, p.depth, more)
    BY <1>2, <1>3, <2>1, ElementsPrint
  <2>3. /\ plan \in Seq(StepSet) /\ Pauses(plan)
        /\ Can(plan) <=> \A n \in DOMAIN kids[item] : Printable[kids[item][n]]
    BY <1>2, ElementPlan, FollowsPlan DEF Plan, Script
  <2>4. out \in Parts /\ bracket \in Seq(Symbol)
    BY <1>4, Punctuation
  <2>5. 1 \in Nat /\ 1 <= out.bytes + 1
    BY DEF Part
  <2> HIDE DEF bracket, plan
  <2>6. Adds(p, w, out) /\ w.depth = p.depth /\ w.back = << >> /\ w.tail = 0
    BY <1>3, <2>4, <2>5, PieceText
  <2> HIDE DEF out, w
  <2> QED
    BY <1>9, <2>1, <2>2, <2>3, <2>4, <2>5, <2>6
<1>11. CASE OpenObject
  <2> DEFINE out == Part(Brace, Len(Brace))
             plan == MemberSteps
             w == Open(p, Len(Brace), Brace)
  <2>1. /\ todo[1].op = "value" /\ kind[item] = "Object"
        /\ Put(p, Len(Brace) + 1, Deeper(w), plan)
    BY <1>11 DEF OpenObject, Printing, Doing, MemberSteps
  <2>2. PICK more \in Parts :
          /\ JsonText[At(item, p.format, p.depth)] = (Part(<<"{">>, 1) ++ Space(p.format)) ++ more
          /\ Prints(MemberSteps, p.format, p.depth + 1, p.depth, more)
    BY <1>2, <1>3, <2>1, MembersPrint
  <2>3. /\ plan \in Seq(StepSet) /\ Pauses(plan)
        /\ Can(plan) <=> \A n \in DOMAIN kids[item] : Printable[kids[item][n]]
    BY <1>2, MemberPlan, FollowsPlan DEF Plan, Script
  <2>4. out = Part(<<"{">>, 1) ++ Space(p.format) /\ out \in Parts
    BY <1>3, Punctuation, PunctuationText
  <2>5. Len(Brace) + 1 \in Nat /\ Len(Brace) + 1 <= out.bytes + 1
    <3>1. out.bytes = Len(Brace)
      BY DEF Part
    <3>2. \A n \in Nat : n + 1 \in Nat /\ n + 1 <= n + 1
      OBVIOUS
    <3> HIDE DEF out
    <3> QED
      BY <1>5, <3>1, <3>2
  <2>6. Adds(p, w, out) /\ w.depth = p.depth /\ w.back = << >> /\ w.tail = 0
    BY <1>3, <1>5, PieceText
  <2>7. /\ JsonText[At(item, p.format, p.depth)] = out ++ more
        /\ Prints(plan, p.format, p.depth + 1, p.depth, more)
    BY <2>2, <2>4
  <2> HIDE DEF out, plan, w
  <2> QED
    BY <1>9, <2>1, <2>3, <2>4, <2>5, <2>6, <2>7
<1>12. ASSUME NEW STATE bytes, NEW STATE text, NEW STATE needed,
              bytes \in Nat, text \in Seq(Symbol), Part(text, bytes) \in Parts,
              needed = bytes + 1, todo[1].op = "close",
              Output(todo[1], p.format, p.depth) = Part(text, bytes),
              Put(p, needed, Shallower(Pending(p, bytes, text)), << >>)
       PROVE  TextInv'
  <2> DEFINE w == Pending(p, bytes, text)
             v == Shallower(w)
             out == Part(text, bytes)
  <2>1. Adds(p, w, out) /\ w.depth = p.depth
    BY <1>3, <1>12, PieceText
  <2>2. Adds(p, v, out) /\ v.depth = p.depth - 1
    <3> HIDE DEF w, out
    <3> QED
      BY <2>1, DepthText
  <2>3. /\ needed \in Nat /\ needed <= out.bytes + 1 /\ Ends(todo[1]) = 1
        /\ Put(p, needed, v, << >>)
    BY <1>12 DEF Part, Ends
  <2>4. out \in Parts /\ Output(todo[1], p.format, p.depth) = out
    BY <1>12
  <2> HIDE DEF w, v, out
  <2> QED
    BY <1>1, <1>12, <2>2, <2>3, <2>4, PiecePutText
<1>13. CASE CloseArray
  <2>1. /\ todo[1].op = "close" /\ kind[item] = "Array"
        /\ Put(p, 2, Shallower(Pending(p, 1, <<"]">>)), << >>)
    BY <1>13 DEF CloseArray, Doing
  <2>2. Output(todo[1], p.format, p.depth) = Part(<<"]">>, 1)
    BY <2>1 DEF Output, item
  <2>3. Part(<<"]">>, 1) \in Parts
    BY <1>4, Punctuation
  <2>4. 1 \in Nat /\ 2 = 1 + 1
    OBVIOUS
  <2> QED
    BY <1>4, <1>12, <2>1, <2>2, <2>3, <2>4
<1>14. CASE CloseObject
  <2>1. /\ todo[1].op = "close" /\ kind[item] = "Object"
        /\ Output(todo[1], p.format, p.depth) = Tabs(p.format, p.depth - 1) ++ Part(<<"}">>, 1)
    BY <1>14 DEF CloseObject, Doing, Output, item
  <2>2. Tabs(p.format, p.depth - 1) ++ Part(<<"}">>, 1) \in Parts
    BY <1>2, <1>3, <2>1, Punctuation
  <2>3. CASE p.format
    <3>1. Put(p, p.depth + 1, Shallower(Pending(p, p.depth, <<" ", "}">>)), << >>)
      BY <1>14, <2>3 DEF CloseObject
    <3>2. Tabs(p.format, p.depth - 1) ++ Part(<<"}">>, 1) = Part(<<" ", "}">>, p.depth)
      <4>1. Part(<<" ">>, p.depth - 1) ++ Part(<<"}">>, 1)
              = Part(<<" ">> \o <<"}">>, (p.depth - 1) + 1)
        BY DEF ++, Part
      <4>2. (p.depth - 1) + 1 = p.depth
        BY <1>2
      <4>3. <<" ">> \o <<"}">> = <<" ", "}">>
        BY Pair
      <4> QED
        BY <2>3, <4>1, <4>2, <4>3 DEF Tabs
    <3> QED
      BY <1>2, <1>4, <1>12, <2>1, <2>2, <3>1, <3>2
  <2>4. CASE ~p.format
    <3>1. Put(p, 2, Shallower(Pending(p, 1, <<"}">>)), << >>)
      BY <1>14, <2>4 DEF CloseObject
    <3>2. Part(<<"}">>, 1) \in Parts
      BY <1>4, Punctuation
    <3>3. 1 \in Nat /\ 2 = 1 + 1
      OBVIOUS
    <3>4. Tabs(p.format, p.depth - 1) ++ Part(<<"}">>, 1) = Part(<<"}">>, 1)
      BY <2>4, <3>2, Monoid DEF Tabs
    <3> QED
      BY <1>4, <1>12, <2>1, <3>1, <3>2, <3>3, <3>4
  <2> QED
    BY <2>3, <2>4
<1> QED
  BY <1>10, <1>11, <1>13, <1>14

\* An item that cannot be printed makes the call fail, and it is in the one
\* that was to be printed.
LEMMA InvalidTextStep ==
  ASSUME IInv, Types, TextInv, print_invalid
  PROVE  TextInv'
<1>1. /\ status = "printing" /\ todo # << >> /\ todo[1].op = "value" /\ kind[item] = "Invalid"
      /\ status' = "failing" /\ root' = root
  BY DEF print_invalid, Printing, Doing
<1>2. todo \in Seq(StepSet) /\ item \in Item
  BY <1>1, StepFacts, StepTypes DEF IInv, Script
<1>3. Can(todo) => Printable[item]
  <2>1. 1 \in 1 .. Len(todo)
    BY <1>1, <1>2
  <2> QED
    BY <1>1, <2>1 DEF Can, item
<1>4. ~Printable[item]
  BY <1>1, <1>2, PrintableSteps
<1>5. ~Printable[root']
  BY <1>1, <1>3, <1>4 DEF TextInv, Progress
<1>6. SlackSuffices' /\ TextIsPrinted'
  BY <1>1, <1>5 DEF SlackSuffices, TextIsPrinted
<1> QED
  BY <1>1, <1>6 DEF TextInv

\* When nothing is left to print, the text is whole.
LEMMA FinishTextStep ==
  ASSUME IInv, Types, TextInv, Finish
  PROVE  TextInv'
<1> DEFINE b == update_offset(p)
<1>1. /\ status = "printing" /\ todo = << >> /\ root' = root /\ status' \in {"done", "failing"}
      /\ Natural(p) /\ p.buffer
  BY DEF Finish, Types, IInv, Ledger
<1>2. p.nul
  BY <1>1 DEF IInv, Measures
<1>3. PICK rest \in Parts :
        Prints(todo, p.format, p.depth, 0, rest) /\ Printed(p) ++ rest = Whole
  BY <1>1 DEF TextInv, Progress
<1>4. rest = Nothing /\ p.depth = 0
  BY <1>1, <1>3, PrintsNothing
<1>5. Printed(p) = Whole
  BY <1>1, <1>3, <1>4, PrintedType, Monoid
<1>6. Printable[root]
  <2>1. Can(<< >>)
    BY DEF Can
  <2> QED
    BY <1>1, <2>1 DEF TextInv, Progress
<1>7. /\ b.format = p.format /\ b.depth = p.depth /\ Printed(b) = Printed(p)
      /\ b \in PrintBuffer /\ b.nul = p.nul
  BY <1>1, UpdateText, UpdateKeepsRoom DEF IInv, Room
<1>8. CASE status' = "failing"
  <2>1. starved'
    BY <1>8 DEF Finish
  <2> QED
    BY <1>8, <2>1 DEF TextInv, TextIsPrinted, SlackSuffices
<1>9. CASE status' = "done"
  <2>1. p' = p \/ p' = [b EXCEPT !.length = b.offset + 1]
    BY <1>9 DEF Finish
  <2> HIDE DEF b
  <2>2. /\ p'.format = p.format /\ p'.depth = p.depth /\ p'.nul = p.nul
        /\ Printed(p') = Printed(p)
    <3>1. CASE p' = p
      BY <3>1
    <3>2. CASE p' = [b EXCEPT !.length = b.offset + 1]
      <4>1. /\ p'.format = b.format /\ p'.depth = b.depth /\ p'.nul = b.nul
            /\ p'.front = b.front /\ p'.back = b.back /\ p'.offset = b.offset /\ p'.tail = b.tail
        BY <1>7, <3>2 DEF PrintBuffer
      <4> QED
        BY <1>7, <4>1 DEF Printed
    <3> QED
      BY <2>1, <3>1, <3>2
  <2>3. Part(p'.front \o p'.back, p'.offset + p'.tail) = JsonText[At(root', p'.format, 0)]
    BY <1>1, <1>5, <2>2 DEF Printed, Whole
  <2>4. Printable[root'] /\ p'.nul /\ p'.depth = 0
    BY <1>1, <1>2, <1>4, <1>6, <2>2
  <2>5. TextIsPrinted'
    BY <2>3, <2>4 DEF TextIsPrinted
  <2> QED
    BY <1>9, <2>5 DEF TextInv, SlackSuffices
<1> QED
  BY <1>1, <1>8, <1>9

\* Giving up takes nothing back that was known of a failing call.
LEMMA FailTextStep ==
  ASSUME IInv, Types, TextInv, Fail
  PROVE  TextInv'
<1>1. /\ status = "failing" /\ status' = "failed" /\ root' = root /\ starved' = starved
      /\ Natural(p)
  BY DEF Fail, Types
<1>2. p' = p \/ p' = [p EXCEPT !.buffer = FALSE]
  BY DEF Fail
<1>3. /\ p'.format = p.format /\ p'.noalloc = p.noalloc /\ p'.length = p.length
  BY <1>1, <1>2 DEF Natural, PrintBuffer
<1>4. SlackSuffices'
  BY <1>1, <1>3 DEF TextInv, SlackSuffices
<1>5. TextIsPrinted'
  BY <1>1 DEF TextIsPrinted
<1> QED
  BY <1>1, <1>4, <1>5 DEF TextInv

\* When a call starts, the stack will print the item.
LEMMA InitTextInv == Init => TextInv
<1> SUFFICES ASSUME Init PROVE TextInv
  OBVIOUS
<1>1. /\ root \in Item /\ status = "printing" /\ todo = <<Step("value", root, 0)>>
      /\ p.format \in BOOLEAN /\ p.depth = 0 /\ p.front = << >> /\ p.back = << >>
      /\ p.offset = 0 /\ p.tail = 0
  BY DEF Init, Buffer
<1>2. Whole \in Parts
  <2>1. At(root, p.format, 0) \in Layouts
    BY <1>1 DEF At, Layouts
  <2> QED
    BY <2>1, JsonTextSteps DEF Whole
<1>3. /\ Len(todo) = 1 /\ todo[1].op = "value" /\ todo[1].item = root
  BY <1>1 DEF Step
<1>4. Prints(todo, p.format, p.depth, 0, Whole)
  <2> DEFINE out == [n \in 1 .. 2 |-> IF n = 1 THEN Whole ELSE Nothing]
             deep == [n \in 1 .. 2 |-> 0]
  <2>1. /\ out \in [1 .. 2 -> Parts] /\ out[1] = Whole /\ out[2] = Nothing
        /\ deep \in [1 .. 2 -> Nat] /\ deep[1] = 0 /\ deep[2] = 0
    BY <1>2, Monoid
  <2> HIDE DEF out, deep
  <2>2. Output(todo[1], p.format, 0) = Whole /\ Ends(todo[1]) = 0
    BY <1>3 DEF Output, Ends, Whole
  <2>3. Whole ++ Nothing = Whole
    BY <1>2, Monoid
  <2>4. \A n \in 1 .. Len(todo) : /\ out[n] = Output(todo[n], p.format, deep[n]) ++ out[n + 1]
                                  /\ deep[n] = deep[n + 1] + Ends(todo[n])
    BY <1>3, <2>1, <2>2, <2>3
  <2>5. /\ out \in [1 .. Len(todo) + 1 -> Parts] /\ deep \in [1 .. Len(todo) + 1 -> Nat]
        /\ out[Len(todo) + 1] = Nothing /\ deep[Len(todo) + 1] = 0
    BY <1>3, <2>1
  <2> QED
    BY <1>1, <2>1, <2>4, <2>5 DEF Prints
<1>5. Printed(p) ++ Whole = Whole
  <2>1. << >> \o << >> = << >> /\ 0 + 0 = 0
    OBVIOUS
  <2>2. Printed(p) = Nothing
    BY <1>1, <2>1 DEF Printed, Nothing
  <2> QED
    BY <1>2, <2>2, Monoid
<1>6. Pauses(todo) /\ (Can(todo) <=> Printable[root])
  BY <1>3 DEF Pauses, Can
<1>7. Progress
  BY <1>1, <1>2, <1>4, <1>5, <1>6 DEF Progress
<1>8. TextIsPrinted /\ SlackSuffices
  BY <1>1 DEF TextIsPrinted, SlackSuffices
<1> QED
  BY <1>7, <1>8 DEF TextInv

\* Every step keeps the invariant of the text.
LEMMA NextTextInv == IInv /\ Types /\ TextInv /\ [Next]_vars => TextInv'
<1> SUFFICES ASSUME IInv, Types, TextInv, [Next]_vars PROVE TextInv'
  OBVIOUS
<1>1. CASE UNCHANGED vars
  BY <1>1 DEF vars, TextInv, Progress, Printed, Measures, Whole, TextIsPrinted, SlackSuffices
<1>2. CASE Next
  BY <1>2, ScalarTextStep, SeparatorTextStep, ContainerTextStep, InvalidTextStep,
     FinishTextStep, FailTextStep DEF Next, PrintPiece
<1> QED
  BY <1>1, <1>2

\* The invariant of the text holds in every reachable state.
LEMMA TextInvariance == Spec => []TextInv
BY TypesInvariance, InitTextInv, NextTextInv, Invariance, PTL DEF Spec

\* For every tree, every buffer and every size: a call that succeeds returns the
\* JSON text of its item, whole, laid out as documented and with a NUL behind it.
THEOREM TextOfTree == Spec => []TextIsPrinted
<1>1. TextInv => TextIsPrinted
  BY DEF TextInv
<1> QED
  BY <1>1, TextInvariance, PTL

\* For every tree, every buffer and every size: with memory, a call fails only if
\* the text, its NUL and one byte more do not fit.
THEOREM OneByteSuffices == Spec => []SlackSuffices
<1>1. TextInv => SlackSuffices
  BY DEF TextInv
<1> QED
  BY <1>1, TextInvariance, PTL
=============================================================================
