---------------------------- MODULE ParserProofs ----------------------------
(***************************************************************************)
(* What the parser keeps true for every input, every nesting limit and      *)
(* every allocation that fails: the offset stays in the buffer, the depth   *)
(* is the number of lists that are being built, every block belongs to one  *)
(* of them, what is returned is the value that the text says, and no JSON   *)
(* text is refused.                                                         *)
(***************************************************************************)
EXTENDS ParsedText, LeastNumber, SequenceTheorems, TLAPS

\* What the stack holds; the root item, and only it, is at the bottom.
IsFrame(f) ==
  /\ f = [kind |-> f.kind, values |-> f.values, owned |-> f.owned]
  /\ f.kind \in {"Root", "Array", "Object"} /\ f.owned \in Nat

IsStack(s) ==
  /\ \E S : s \in Seq(S)
  /\ \A n \in 1 .. Len(s) : IsFrame(s[n]) /\ (s[n].kind = "Root" <=> n = Len(s))

\* The frames of s own total blocks: g[n] of them belong to frame n and those
\* below.
Owns(s, total) ==
  \E g \in [1 .. Len(s) + 1 -> Nat] :
    /\ g[Len(s) + 1] = 0 /\ g[1] = total
    /\ \A n \in 1 .. Len(s) : g[n] = g[n + 1] + s[n].owned

\* The parser is at work on the lists of the stack.
Building == pc \in {"value", "next", "element", "name", "done"}

\* The inductive invariant.
IInv ==
  /\ input \in Seq(Symbol) /\ require_null_terminated \in BOOLEAN
  /\ offset \in 0 .. Len(input) /\ position \in 0 .. Len(input)
  /\ depth \in 0 .. NestingLimit /\ blocks \in Nat /\ starved \in BOOLEAN
  /\ Building \/ pc \in {"start", "fail", "failed"}
  /\ IsStack(stack) /\ Owns(stack, blocks)
  /\ pc \in {"start", "failed"} => stack = << >>
  /\ pc = "start" => depth = 0
  /\ Building => stack # << >> /\ depth = Len(stack) - 1
  /\ pc \in {"element", "name"} => offset < Len(input)
  /\ pc = "failed" /\ input # << >> => position < Len(input)

-----------------------------------------------------------------------------
(* Stacks, and the blocks their frames own.                                 *)

\* An empty stack owns nothing.
LEMMA EmptyStack == IsStack(<< >>) /\ Owns(<< >>, 0)
<1>1. << >> \in Seq({}) /\ Len(<< >>) = 0
  OBVIOUS
<1>2. IsStack(<< >>)
  BY <1>1 DEF IsStack
<1> DEFINE g == [n \in 1 .. 1 |-> 0]
<1>3. Len(<< >>) + 1 = 1 /\ g \in [1 .. 1 -> Nat] /\ g[1] = 0
  BY <1>1
<1>4. 1 .. Len(<< >>) = {}
  BY <1>1
<1> HIDE DEF g
<1>5. Owns(<< >>, 0)
  BY <1>3, <1>4 DEF Owns
<1> QED
  BY <1>2, <1>5

\* What pushing, popping and replacing do to a sequence.
LEMMA SequenceFacts ==
  ASSUME NEW S, NEW s \in Seq(S), NEW f
  PROVE  /\ <<f>> \o s \in Seq(S \cup {f})
         /\ Len(<<f>> \o s) = Len(s) + 1
         /\ (<<f>> \o s)[1] = f
         /\ \A n \in 1 .. Len(s) : (<<f>> \o s)[n + 1] = s[n]
         /\ s # << >> => /\ Len(s) \in Nat \ {0}
                         /\ Tail(s) \in Seq(S) /\ Len(Tail(s)) = Len(s) - 1
                         /\ \A n \in 1 .. Len(s) - 1 : Tail(s)[n] = s[n + 1]
<1>1. s \in Seq(S \cup {f}) /\ <<f>> \in Seq(S \cup {f}) /\ Len(<<f>>) = 1
  OBVIOUS
<1>2. /\ <<f>> \o s \in Seq(S \cup {f})
      /\ Len(<<f>> \o s) = Len(s) + 1
      /\ (<<f>> \o s)[1] = f
      /\ \A n \in 1 .. Len(s) : (<<f>> \o s)[n + 1] = s[n]
  BY <1>1
<1>3. ASSUME s # << >>
      PROVE  /\ Len(s) \in Nat \ {0}
             /\ Tail(s) \in Seq(S) /\ Len(Tail(s)) = Len(s) - 1
             /\ \A n \in 1 .. Len(s) - 1 : Tail(s)[n] = s[n + 1]
  BY <1>3
<1> QED
  BY <1>2, <1>3

\* A list is begun in front of s.
LEMMA Push ==
  ASSUME NEW s, NEW total \in Nat, IsStack(s), Owns(s, total),
         NEW f, IsFrame(f), f.kind = "Root" <=> s = << >>
  PROVE  /\ IsStack(<<f>> \o s) /\ Owns(<<f>> \o s, total + f.owned)
         /\ <<f>> \o s # << >> /\ Len(<<f>> \o s) = Len(s) + 1
<1> DEFINE t == <<f>> \o s
<1>1. PICK S : s \in Seq(S)
  BY DEF IsStack
<1>2. /\ t \in Seq(S \cup {f}) /\ Len(t) = Len(s) + 1 /\ t[1] = f
      /\ \A n \in 1 .. Len(s) : t[n + 1] = s[n]
  BY <1>1, SequenceFacts
<1>3. Len(s) \in Nat /\ (s = << >> <=> Len(s) = 0) /\ t # << >>
  BY <1>1, <1>2
<1> HIDE DEF t
<1>4. ASSUME NEW n \in 1 .. Len(t)
      PROVE  IsFrame(t[n]) /\ (t[n].kind = "Root" <=> n = Len(t))
  <2>1. CASE n = 1
    BY <1>2, <1>3, <2>1
  <2>2. CASE n # 1
    <3>1. n - 1 \in 1 .. Len(s) /\ t[n] = s[n - 1]
      BY <1>2, <1>3, <2>2
    <3> QED
      BY <1>2, <1>3, <3>1 DEF IsStack
  <2> QED
    BY <2>1, <2>2
<1>5. PICK g \in [1 .. Len(s) + 1 -> Nat] :
        /\ g[Len(s) + 1] = 0 /\ g[1] = total
        /\ \A n \in 1 .. Len(s) : g[n] = g[n + 1] + s[n].owned
  BY DEF Owns
<1>6. Owns(t, total + f.owned)
  <2> DEFINE k == [n \in 1 .. Len(t) + 1 |-> IF n = 1 THEN total + f.owned ELSE g[n - 1]]
  <2>1. k \in [1 .. Len(t) + 1 -> Nat]
    BY <1>2, <1>3, <1>5 DEF IsFrame
  <2>2. k[Len(t) + 1] = 0 /\ k[1] = total + f.owned
    BY <1>2, <1>3, <1>5
  <2>3. ASSUME NEW n \in 1 .. Len(t) PROVE k[n] = k[n + 1] + t[n].owned
    <3>1. CASE n = 1
      BY <1>2, <1>3, <1>5, <3>1 DEF IsFrame
    <3>2. CASE n # 1
      <4>1. n - 1 \in 1 .. Len(s) /\ t[n] = s[n - 1] /\ (n - 1) + 1 = n
        BY <1>2, <1>3, <3>2
      <4>2. k[n] = g[n - 1] /\ k[n + 1] = g[n]
        BY <1>2, <1>3, <3>2
      <4> QED
        BY <1>5, <4>1, <4>2
    <3> QED
      BY <3>1, <3>2
  <2> HIDE DEF k
  <2> QED
    BY <2>1, <2>2, <2>3 DEF Owns
<1>7. IsStack(t)
  BY <1>2, <1>4 DEF IsStack
<1> QED
  BY <1>2, <1>3, <1>6, <1>7 DEF t

\* A list is complete, or dropped.
LEMMA Pop ==
  ASSUME NEW s, NEW total \in Nat, IsStack(s), Owns(s, total), s # << >>
  PROVE  /\ IsStack(Tail(s)) /\ total - s[1].owned \in Nat
         /\ Owns(Tail(s), total - s[1].owned)
         /\ Len(Tail(s)) = Len(s) - 1 /\ Len(s) \in Nat \ {0}
         /\ IsFrame(s[1]) /\ (s[1].kind = "Root" <=> Tail(s) = << >>)
<1> DEFINE t == Tail(s)
<1>1. PICK S : s \in Seq(S)
  BY DEF IsStack
<1>2. /\ t \in Seq(S) /\ Len(t) = Len(s) - 1 /\ Len(s) \in Nat \ {0}
      /\ \A n \in 1 .. Len(s) - 1 : t[n] = s[n + 1]
  BY <1>1, SequenceFacts
<1> HIDE DEF t
<1>3. t = << >> <=> Len(t) = 0
  BY <1>2
<1>4. IsFrame(s[1]) /\ (s[1].kind = "Root" <=> t = << >>)
  BY <1>2, <1>3 DEF IsStack
<1>5. ASSUME NEW n \in 1 .. Len(t)
      PROVE  IsFrame(t[n]) /\ (t[n].kind = "Root" <=> n = Len(t))
  <2>1. n + 1 \in 1 .. Len(s) /\ t[n] = s[n + 1] /\ (n + 1 = Len(s) <=> n = Len(t))
    BY <1>2
  <2> QED
    BY <2>1 DEF IsStack
<1>6. PICK g \in [1 .. Len(s) + 1 -> Nat] :
        /\ g[Len(s) + 1] = 0 /\ g[1] = total
        /\ \A n \in 1 .. Len(s) : g[n] = g[n + 1] + s[n].owned
  BY DEF Owns
<1>7. total - s[1].owned \in Nat /\ Owns(t, total - s[1].owned)
  <2> DEFINE k == [n \in 1 .. Len(t) + 1 |-> g[n + 1]]
  <2>1. k \in [1 .. Len(t) + 1 -> Nat]
    BY <1>2, <1>6
  <2>2. k[Len(t) + 1] = 0
    BY <1>2, <1>6
  <2>3. k[1] = total - s[1].owned /\ k[1] \in Nat
    <3>1. g[1] = g[1 + 1] + s[1].owned /\ k[1] = g[1 + 1] /\ g[1 + 1] \in Nat
      BY <1>2, <1>6
    <3> QED
      BY <1>4, <1>6, <3>1 DEF IsFrame
  <2>4. ASSUME NEW n \in 1 .. Len(t) PROVE k[n] = k[n + 1] + t[n].owned
    <3>1. n + 1 \in 1 .. Len(s) /\ t[n] = s[n + 1]
      BY <1>2
    <3>2. k[n] = g[n + 1] /\ k[n + 1] = g[(n + 1) + 1]
      BY <1>2
    <3> QED
      BY <1>6, <3>1, <3>2
  <2> HIDE DEF k
  <2> QED
    BY <2>1, <2>2, <2>3, <2>4 DEF Owns
<1>8. IsStack(t)
  BY <1>2, <1>5 DEF IsStack
<1> QED
  BY <1>2, <1>4, <1>7, <1>8 DEF t

\* The list on top gets new blocks.
LEMMA Grow ==
  ASSUME NEW s, NEW total \in Nat, IsStack(s), Owns(s, total), s # << >>,
         NEW f, IsFrame(f), f.kind = s[1].kind, NEW new \in Nat, f.owned = s[1].owned + new
  PROVE  /\ IsStack(<<f>> \o Tail(s)) /\ Owns(<<f>> \o Tail(s), total + new)
         /\ <<f>> \o Tail(s) # << >> /\ Len(<<f>> \o Tail(s)) = Len(s)
<1>1. /\ IsStack(Tail(s)) /\ total - s[1].owned \in Nat
      /\ Owns(Tail(s), total - s[1].owned)
      /\ Len(Tail(s)) = Len(s) - 1 /\ Len(s) \in Nat \ {0}
      /\ IsFrame(s[1]) /\ (s[1].kind = "Root" <=> Tail(s) = << >>)
  BY Pop
<1>2. (total - s[1].owned) + f.owned = total + new
  BY <1>1 DEF IsFrame
<1> DEFINE rest == Tail(s)
           less == total - s[1].owned
<1>3. /\ IsStack(<<f>> \o rest) /\ Owns(<<f>> \o rest, less + f.owned)
      /\ <<f>> \o rest # << >> /\ Len(<<f>> \o rest) = Len(rest) + 1
  <2> HIDE DEF rest, less
  <2>1. less \in Nat /\ IsStack(rest) /\ Owns(rest, less) /\ (f.kind = "Root" <=> rest = << >>)
    BY <1>1 DEF rest, less
  <2> QED
    BY <2>1, Push
<1> QED
  BY <1>1, <1>2, <1>3
-----------------------------------------------------------------------------
(* White space.                                                             *)

\* From an offset in the buffer white space ends at a later offset in it;
\* from an offset behind the last symbol nothing is skipped.
LEMMA Skip ==
  ASSUME input \in Seq(Symbol), NEW o \in 0 .. Len(input)
  PROVE  /\ o >= Len(input) => buffer_skip_whitespace(o) = o
         /\ o < Len(input) => buffer_skip_whitespace(o) \in o .. Len(input) - 1
         /\ buffer_skip_whitespace(o) \in o .. Len(input)
<1> DEFINE text == {n \in o .. Len(input) - 1 : input[n + 1] \notin Space}
           first == CHOOSE n \in text : \A m \in text : n <= m
<1>1. Len(input) \in Nat /\ text \subseteq Nat /\ text \subseteq o .. Len(input) - 1
  OBVIOUS
<1>2. text # {} => first \in o .. Len(input) - 1
  <2> SUFFICES ASSUME text # {} PROVE first \in text
    BY <1>1
  <2> HIDE DEF text
  <2>1. \E n \in text : \A m \in text : n <= m
    BY <1>1, LeastNat
  <2> QED
    BY <2>1
<1>3. buffer_skip_whitespace(o) = IF o >= Len(input) THEN o
                                 ELSE IF text = {} THEN Len(input) - 1 ELSE first
  BY DEF buffer_skip_whitespace
<1> HIDE DEF text, first
<1> QED
  BY <1>1, <1>2, <1>3

-----------------------------------------------------------------------------
(* The parts of the actions.                                                *)

\* A symbol that is there is at an offset in the buffer.
LEMMA InBuffer ==
  ASSUME NEW o, NEW k, SymbolAt(o, k) # "end" PROVE o + k < Len(input)
BY DEF SymbolAt

\* A failure anywhere in the buffer.
LEMMA FailAtKeepsInv ==
  ASSUME IInv, NEW o \in 0 .. Len(input), FailAt(o) \/ StarveAt(o) PROVE IInv'
<1>1. /\ UNCHANGED <<input, require_null_terminated, position, depth, blocks, stack>>
      /\ offset' = o /\ pc' = "fail" /\ starved' \in BOOLEAN
  BY DEF FailAt, StarveAt, IInv, call
<1> QED
  BY <1>1 DEF IInv, Building

\* A frame with new blocks, and perhaps with a new value.
LEMMA FrameGrows ==
  ASSUME NEW f, IsFrame(f), NEW new \in Nat, NEW v
  PROVE  LET e == [f EXCEPT !.owned = @ + 1]
             g == Filled(f, v, new)
         IN  /\ IsFrame(e) /\ e.kind = f.kind /\ e.owned = f.owned + 1
             /\ IsFrame(g) /\ g.kind = f.kind /\ g.owned = f.owned + new
<1> DEFINE e == [f EXCEPT !.owned = @ + 1]
           g == Filled(f, v, new)
<1>1. /\ f = [kind |-> f.kind, values |-> f.values, owned |-> f.owned]
      /\ f.kind \in {"Root", "Array", "Object"} /\ f.owned \in Nat
  BY DEF IsFrame
<1>2. e = [kind |-> f.kind, values |-> f.values, owned |-> f.owned + 1]
  BY <1>1
<1>3. g = [kind |-> f.kind, values |-> Append(f.values, v), owned |-> f.owned + new]
  BY DEF Filled
<1>4. f.owned + new \in Nat /\ f.owned + 1 \in Nat
  BY <1>1
<1> HIDE DEF e, g
<1>5. IsFrame(e) /\ e.kind = f.kind /\ e.owned = f.owned + 1
  BY <1>1, <1>2, <1>4 DEF IsFrame
<1>6. IsFrame(g) /\ g.kind = f.kind /\ g.owned = f.owned + new
  BY <1>1, <1>3, <1>4 DEF IsFrame
<1> QED
  BY <1>5, <1>6 DEF e, g

\* A value that is parsed becomes part of the list on top of frames.
LEMMA ParsedKeepsInv ==
  ASSUME IInv, NEW v, NEW o \in 0 .. Len(input), NEW new \in Nat,
         NEW frames, IsStack(frames), frames # << >>,
         NEW total \in Nat, Owns(frames, total), blocks' = total + new,
         depth' \in 0 .. NestingLimit, depth' = Len(frames) - 1,
         Parsed(v, o, frames, new)
  PROVE  IInv'
<1> DEFINE f == Filled(frames[1], v, new)
<1>1. /\ UNCHANGED <<input, require_null_terminated, position, starved>>
      /\ offset' = o /\ pc' = "next" /\ stack' = <<f>> \o Tail(frames)
  BY DEF Parsed, call
<1>2. IsFrame(frames[1])
  BY Pop
<1>3. IsFrame(f) /\ f.kind = frames[1].kind /\ f.owned = frames[1].owned + new
  BY <1>2, FrameGrows
<1> HIDE DEF f
<1>4. /\ IsStack(stack') /\ Owns(stack', total + new)
      /\ stack' # << >> /\ Len(stack') = Len(frames)
  BY <1>1, <1>3, Grow
<1>5. total + new \in Nat
  OBVIOUS
<1> QED
  BY <1>1, <1>4, <1>5 DEF IInv, Building

\* The list on top gets a new block; the parser goes on, or fails.
LEMMA AllocatedKeepsInv ==
  ASSUME IInv, Building, UNCHANGED <<call, depth, starved, position>>,
         NEW f, IsFrame(f), f.kind = Top.kind, f.owned = Top.owned + 1,
         blocks' = blocks + 1, stack' = <<f>> \o Tail(stack),
         offset' \in 0 .. Len(input),
         \/ pc' \in {"value", "fail"}
         \/ pc' = "name" /\ offset' < Len(input)
  PROVE  IInv'
<1>1. IsStack(stack) /\ Owns(stack, blocks) /\ stack # << >> /\ blocks \in Nat
  BY DEF IInv
<1>2. /\ IsStack(stack') /\ Owns(stack', blocks + 1)
      /\ stack' # << >> /\ Len(stack') = Len(stack)
  BY <1>1, Grow DEF Top
<1>3. UNCHANGED <<input, require_null_terminated, depth, starved, position>>
  BY DEF call
<1>4. blocks + 1 \in Nat /\ depth = Len(stack) - 1
  BY <1>1 DEF IInv
<1> QED
  BY <1>2, <1>3, <1>4 DEF IInv, Building
-----------------------------------------------------------------------------
(* Every action keeps the invariant.                                        *)

\* The beginning of a call keeps the invariant.
LEMMA StartKeepsInv == IInv /\ Start => IInv'
<1> SUFFICES ASSUME IInv, Start PROVE IInv'
  OBVIOUS
<1>1. input \in Seq(Symbol) /\ Len(input) \in Nat /\ 0 \in 0 .. Len(input)
  BY DEF IInv
<1>2. CASE FailAt(0) \/ StarveAt(0)
  BY <1>1, <1>2, FailAtKeepsInv
<1>3. CASE ~(FailAt(0) \/ StarveAt(0))
  <2> DEFINE f == Frame("Root", 1)
  <2>1. /\ input # << >> /\ pc = "start" /\ stack' = <<f>> /\ blocks' = 1
        /\ offset' = buffer_skip_whitespace(skip_utf8_bom) /\ pc' = "value"
        /\ UNCHANGED <<input, require_null_terminated, depth, starved, position>>
    BY <1>3 DEF Start, call
  <2>2. IsFrame(f) /\ f.kind = "Root" /\ f.owned = 1
    BY DEF IsFrame, Frame
  <2>3. skip_utf8_bom \in 0 .. Len(input)
    <3>1. Len(input) > 0
      BY <1>1, <2>1
    <3>2. skip_utf8_bom \in {0, 1}
      BY DEF skip_utf8_bom
    <3> QED
      BY <1>1, <3>1, <3>2
  <2>4. offset' \in 0 .. Len(input)
    BY <1>1, <2>1, <2>3, Skip
  <2>5. stack' = <<f>> \o << >>
    BY <2>1
  <2> HIDE DEF f
  <2>6. IsStack(stack') /\ Owns(stack', 0 + f.owned) /\ stack' # << >> /\ Len(stack') = Len(<< >>) + 1
    BY <2>2, <2>5, EmptyStack, Push
  <2>7. Owns(stack', 1) /\ Len(stack') = 1
    BY <2>2, <2>6
  <2>8. depth = 0
    BY <2>1 DEF IInv
  <2> QED
    BY <1>1, <2>1, <2>4, <2>6, <2>7, <2>8 DEF IInv, Building
<1> QED
  BY <1>2, <1>3

\* What holds in front of a value: there is a list, or the root, to put it in.
LEMMA BeforeValue ==
  ASSUME IInv, Building
  PROVE  /\ input \in Seq(Symbol) /\ Len(input) \in Nat /\ offset \in 0 .. Len(input)
         /\ IsStack(stack) /\ stack # << >> /\ Owns(stack, blocks) /\ blocks \in Nat
         /\ depth \in 0 .. NestingLimit /\ depth = Len(stack) - 1
BY DEF IInv

\* parse_number keeps it.
LEMMA NumberKeepsInv == IInv /\ parse_number => IInv'
<1> SUFFICES ASSUME IInv, parse_number PROVE IInv'
  OBVIOUS
<1>1. Building /\ offset + 0 < Len(input)
  BY InBuffer DEF parse_number, Building
<1>2. offset + 1 \in 0 .. Len(input)
  BY <1>1, BeforeValue
<1>3. CASE StarveAt(offset)
  BY <1>1, <1>3, BeforeValue, FailAtKeepsInv
<1>4. CASE Parsed(Value("n", << >>), offset + 1, stack, 0) /\ UNCHANGED <<depth, blocks>>
  <2>1. blocks' = blocks + 0 /\ depth' \in 0 .. NestingLimit /\ depth' = Len(stack) - 1
    BY <1>1, <1>4, BeforeValue
  <2> QED
    BY <1>1, <1>2, <1>4, <2>1, BeforeValue, ParsedKeepsInv
<1> QED
  BY <1>3, <1>4 DEF parse_number

\* parse_string keeps it.
LEMMA StringKeepsInv == IInv /\ parse_string => IInv'
<1> SUFFICES ASSUME IInv, parse_string PROVE IInv'
  OBVIOUS
<1>1. Building /\ offset + 0 < Len(input)
  BY InBuffer DEF parse_string, Building
<1>2. offset + 1 \in 0 .. Len(input)
  BY <1>1, BeforeValue
<1>3. CASE FailAt(offset + 1) \/ StarveAt(offset + 1)
  BY <1>2, <1>3, FailAtKeepsInv
<1>4. CASE /\ Parsed(Value("s", << >>), offset + 1, stack, 1)
           /\ blocks' = blocks + 1 /\ UNCHANGED depth
  <2>1. depth' \in 0 .. NestingLimit /\ depth' = Len(stack) - 1
    BY <1>1, <1>4, BeforeValue
  <2> QED
    BY <1>1, <1>2, <1>4, <2>1, BeforeValue, ParsedKeepsInv
<1> QED
  BY <1>3, <1>4 DEF parse_string

\* An opening bracket or brace keeps it.
LEMMA OpenListKeepsInv == IInv /\ OpenList => IInv'
<1> SUFFICES ASSUME IInv, OpenList PROVE IInv'
  OBVIOUS
<1> USE ParserAssumption
<1> DEFINE inside == buffer_skip_whitespace(offset + 1)
<1>1. PICK kind \in {"Array", "Object"} :
        /\ SymbolAt(offset, 0) = Opens(kind)
        /\ IF depth >= NestingLimit THEN FailAt(offset)
           ELSE IF SymbolAt(inside, 0) = Closes(kind)
           THEN Parsed(Value(kind, << >>), inside + 1, stack, 0)
                /\ UNCHANGED <<depth, blocks>>
           ELSE IF SymbolAt(inside, 0) = "end"
           THEN /\ offset' = inside - 1 /\ depth' = depth + 1 /\ pc' = "fail"
                /\ UNCHANGED <<call, stack, blocks, starved, position>>
           ELSE /\ offset' = inside - 1 /\ depth' = depth + 1 /\ pc' = "element"
                /\ stack' = <<Frame(kind, 0)>> \o stack
                /\ UNCHANGED <<call, blocks, starved, position>>
  BY DEF OpenList
<1>2. Building /\ pc = "value"
  BY DEF OpenList, Building
<1>3. Opens(kind) # "end" /\ Closes(kind) # "end"
  BY DEF Opens, Closes
<1>4. offset + 0 < Len(input)
  BY <1>1, <1>3, InBuffer
<1>5. inside \in offset + 1 .. Len(input) /\ inside \in Nat
  <2>1. /\ offset + 1 \in 0 .. Len(input) /\ offset + 1 \in Nat
        /\ input \in Seq(Symbol) /\ Len(input) \in Nat
    BY <1>2, <1>4, BeforeValue
  <2>2. inside \in offset + 1 .. Len(input)
    BY <2>1, Skip
  <2> HIDE DEF inside
  <2> QED
    BY <2>1, <2>2
<1> HIDE DEF inside
<1>6. /\ inside - 1 \in 0 .. Len(input) /\ inside - 1 < Len(input)
      /\ offset \in 0 .. Len(input)
  BY <1>2, <1>4, <1>5, BeforeValue
<1>7. CASE depth >= NestingLimit
  BY <1>1, <1>6, <1>7, FailAtKeepsInv
<1>8. CASE depth < NestingLimit /\ SymbolAt(inside, 0) = Closes(kind)
  <2>1. inside + 0 < Len(input)
    BY <1>3, <1>8, InBuffer
  <2>2. inside + 1 \in 0 .. Len(input)
    BY <1>5, <2>1, <1>2, BeforeValue
  <2>3. Parsed(Value(kind, << >>), inside + 1, stack, 0) /\ UNCHANGED <<depth, blocks>>
    BY <1>1, <1>2, <1>8, BeforeValue
  <2>4. blocks' = blocks + 0 /\ depth' \in 0 .. NestingLimit /\ depth' = Len(stack) - 1
    BY <1>2, <2>3, BeforeValue
  <2> QED
    BY <1>2, <2>2, <2>3, <2>4, BeforeValue, ParsedKeepsInv
<1>9. CASE /\ depth < NestingLimit /\ SymbolAt(inside, 0) # Closes(kind)
           /\ SymbolAt(inside, 0) = "end"
  <2>1. /\ offset' = inside - 1 /\ depth' = depth + 1 /\ pc' = "fail"
        /\ UNCHANGED <<input, require_null_terminated, stack, blocks, starved, position>>
    BY <1>1, <1>2, <1>9, BeforeValue DEF call
  <2>2. depth + 1 \in 0 .. NestingLimit
    BY <1>2, <1>9, BeforeValue
  <2> QED
    BY <1>2, <1>6, <2>1, <2>2, BeforeValue DEF IInv, Building
<1>10. CASE /\ depth < NestingLimit /\ SymbolAt(inside, 0) # Closes(kind)
            /\ SymbolAt(inside, 0) # "end"
  <2> DEFINE f == Frame(kind, 0)
  <2>1. /\ offset' = inside - 1 /\ depth' = depth + 1 /\ pc' = "element"
        /\ stack' = <<f>> \o stack
        /\ UNCHANGED <<input, require_null_terminated, blocks, starved, position>>
    BY <1>1, <1>2, <1>10, BeforeValue DEF call
  <2>2. IsFrame(f) /\ f.kind # "Root" /\ f.owned = 0
    BY DEF IsFrame, Frame
  <2> HIDE DEF f
  <2>3. /\ IsStack(stack') /\ Owns(stack', blocks + f.owned)
        /\ stack' # << >> /\ Len(stack') = Len(stack) + 1
    BY <1>2, <2>1, <2>2, BeforeValue, Push
  <2>4. Owns(stack', blocks') /\ depth' = Len(stack') - 1 /\ depth' \in 0 .. NestingLimit
    <3>1. blocks + f.owned = blocks'
      BY <1>2, <2>1, <2>2, BeforeValue
    <3>2. Len(stack) \in Nat
      BY <1>2, BeforeValue, Pop
    <3>3. depth + 1 = (Len(stack) + 1) - 1 /\ depth + 1 \in 0 .. NestingLimit
      BY <1>2, <1>10, <3>2, BeforeValue
    <3> QED
      BY <2>1, <2>3, <3>1, <3>3
  <2> QED
    BY <1>2, <1>6, <2>1, <2>3, <2>4, BeforeValue DEF IInv, Building
<1> QED
  <2>1. depth >= NestingLimit \/ depth < NestingLimit
    BY <1>2, BeforeValue
  <2> QED
    BY <1>7, <1>8, <1>9, <1>10, <2>1
\* So does what parse_value does not recognize.
LEMMA NothingKeepsInv == IInv /\ parse_nothing => IInv'
<1> SUFFICES ASSUME IInv, parse_nothing PROVE IInv'
  OBVIOUS
<1>1. offset \in 0 .. Len(input) /\ FailAt(offset)
  BY DEF IInv, parse_nothing
<1> QED
  BY <1>1, FailAtKeepsInv

\* The frame on top with one more block.
LEMMA TopGrows ==
  ASSUME IInv, Building
  PROVE  LET f == [Top EXCEPT !.owned = @ + 1]
         IN  IsFrame(f) /\ f.kind = Top.kind /\ f.owned = Top.owned + 1
<1>1. IsFrame(Top)
  BY BeforeValue, Pop DEF Top
<1> QED
  BY <1>1, FrameGrows

\* The allocation of the next element keeps it.
LEMMA NewElementKeepsInv == IInv /\ NewElement => IInv'
<1> SUFFICES ASSUME IInv, NewElement PROVE IInv'
  OBVIOUS
<1>1. Building /\ offset < Len(input)
  BY DEF NewElement, Building, IInv
<1>2. /\ offset + 1 \in 0 .. Len(input) /\ offset \in 0 .. Len(input)
      /\ input \in Seq(Symbol) /\ Len(input) \in Nat
  BY <1>1, BeforeValue
<1>3. CASE StarveAt(offset)
  BY <1>2, <1>3, FailAtKeepsInv
<1>4. CASE ~StarveAt(offset)
  <2> DEFINE f == [Top EXCEPT !.owned = @ + 1]
             inside == buffer_skip_whitespace(offset + 1)
  <2>1. /\ blocks' = blocks + 1 /\ stack' = <<f>> \o Tail(stack)
        /\ UNCHANGED <<call, depth, starved, position>>
        /\ \/ offset' = inside /\ pc' = "value"
           \/ offset' = offset /\ pc' = "fail"
           \/ SymbolAt(offset, 1) # "end" /\ offset' = inside /\ pc' = "name"
    BY <1>4 DEF NewElement
  <2>2. IsFrame(f) /\ f.kind = Top.kind /\ f.owned = Top.owned + 1
    BY <1>1, TopGrows
  <2> HIDE DEF f
  <2>3. /\ inside \in 0 .. Len(input)
        /\ offset + 1 < Len(input) => inside < Len(input)
    <3>1. /\ offset + 1 < Len(input) => inside \in offset + 1 .. Len(input) - 1
          /\ inside \in offset + 1 .. Len(input)
      BY <1>2, Skip
    <3> HIDE DEF inside
    <3> QED
      BY <1>2, <3>1
  <2> HIDE DEF inside
  <2>4. /\ offset' \in 0 .. Len(input)
        /\ pc' \in {"value", "fail"} \/ (pc' = "name" /\ offset' < Len(input))
    BY <1>2, <2>1, <2>3, InBuffer
  <2> QED
    BY <1>1, <2>1, <2>2, <2>4, AllocatedKeepsInv
<1> QED
  BY <1>3, <1>4

\* The name of a member keeps it.
LEMMA NameKeepsInv == IInv /\ parse_name => IInv'
<1> SUFFICES ASSUME IInv, parse_name PROVE IInv'
  OBVIOUS
<1> DEFINE colon == buffer_skip_whitespace(offset + 1)
           value == buffer_skip_whitespace(colon + 1)
<1>1. Building /\ offset < Len(input)
  BY DEF parse_name, Building, IInv
<1>2. /\ offset + 1 \in 0 .. Len(input) /\ offset \in 0 .. Len(input)
      /\ input \in Seq(Symbol) /\ Len(input) \in Nat
  BY <1>1, BeforeValue
<1>3. CASE FailAt(offset + 1) \/ StarveAt(offset + 1)
  BY <1>2, <1>3, FailAtKeepsInv
<1>4. CASE ~(FailAt(offset + 1) \/ StarveAt(offset + 1))
  <2> DEFINE f == [Top EXCEPT !.owned = @ + 1]
  <2>1. /\ blocks' = blocks + 1 /\ stack' = <<f>> \o Tail(stack)
        /\ UNCHANGED <<call, depth, starved, position>>
        /\ \/ SymbolAt(colon, 0) = ":" /\ offset' = value /\ pc' = "value"
           \/ offset' = colon /\ pc' = "fail"
    BY <1>4 DEF parse_name
  <2>2. IsFrame(f) /\ f.kind = Top.kind /\ f.owned = Top.owned + 1
    BY <1>1, TopGrows
  <2> HIDE DEF f
  <2>3. colon \in 0 .. Len(input)
    BY <1>2, Skip
  <2>4. SymbolAt(colon, 0) = ":" => value \in 0 .. Len(input)
    <3> HIDE DEF colon
    <3>1. SymbolAt(colon, 0) = ":" => colon + 1 \in 0 .. Len(input)
      <4>1. SymbolAt(colon, 0) = ":" => colon + 0 < Len(input)
        BY InBuffer
      <4> QED
        BY <1>2, <2>3, <4>1
    <3> QED
      BY <1>2, <3>1, Skip
  <2> HIDE DEF colon, value
  <2>5. offset' \in 0 .. Len(input) /\ pc' \in {"value", "fail"}
    BY <2>1, <2>3, <2>4
  <2> QED
    BY <1>1, <2>1, <2>2, <2>5, AllocatedKeepsInv
<1> QED
  BY <1>3, <1>4

\* What follows an element, a comma or the end of its list, keeps it.
LEMMA NextElementKeepsInv == IInv /\ NextElement => IInv'
<1> SUFFICES ASSUME IInv, NextElement PROVE IInv'
  OBVIOUS
<1> DEFINE o == buffer_skip_whitespace(offset)
           v == Value(Top.kind, Top.values)
           rest == Tail(stack)
<1>1. Building /\ Top.kind # "Root"
  BY DEF NextElement, Building
<1>2. o \in 0 .. Len(input)
  BY <1>1, BeforeValue, Skip
<1>3. /\ SymbolAt(o, 0) = "," => /\ offset' = o /\ pc' = "element"
                                 /\ UNCHANGED <<call, depth, stack, blocks, starved, position>>
      /\ SymbolAt(o, 0) # "," =>
           \/ /\ SymbolAt(o, 0) = Closes(Top.kind) /\ depth' = depth - 1
              /\ UNCHANGED blocks /\ Parsed(v, o + 1, rest, Top.owned)
           \/ FailAt(o)
  BY DEF NextElement
<1> HIDE DEF o, v
<1>4. CASE SymbolAt(o, 0) = ","
  <2>1. o + 0 < Len(input)
    BY <1>4, InBuffer
  <2>2. /\ offset' = o /\ pc' = "element"
        /\ UNCHANGED <<call, depth, stack, blocks, starved, position>>
    BY <1>3, <1>4
  <2>3. UNCHANGED <<input, require_null_terminated>>
    BY <2>2 DEF call
  <2>4. o < Len(input)
    BY <1>1, <1>2, <2>1, BeforeValue
  <2> QED
    BY <1>1, <1>2, <2>2, <2>3, <2>4, BeforeValue DEF IInv, Building
<1>5. CASE SymbolAt(o, 0) # "," /\ FailAt(o)
  BY <1>2, <1>5, FailAtKeepsInv
<1>6. CASE SymbolAt(o, 0) # "," /\ ~FailAt(o)
  <2>1. /\ SymbolAt(o, 0) = Closes(Top.kind) /\ depth' = depth - 1
        /\ UNCHANGED blocks /\ Parsed(v, o + 1, rest, Top.owned)
    BY <1>3, <1>6
  <2>2. o + 0 < Len(input)
    BY <2>1, InBuffer DEF Closes
  <2>3. o + 1 \in 0 .. Len(input)
    BY <1>1, <1>2, <2>2, BeforeValue
  <2>4. /\ IsStack(rest) /\ blocks - Top.owned \in Nat /\ Owns(rest, blocks - Top.owned)
        /\ Len(rest) = Len(stack) - 1 /\ Len(stack) \in Nat \ {0}
        /\ IsFrame(Top) /\ rest # << >>
    BY <1>1, BeforeValue, Pop DEF Top
  <2>5. Top.owned \in Nat
    BY <2>4 DEF IsFrame
  <2>6. blocks' = (blocks - Top.owned) + Top.owned
    BY <1>1, <2>1, <2>5, BeforeValue
  <2>7. depth' \in 0 .. NestingLimit /\ depth' = Len(rest) - 1
    <3> HIDE DEF rest
    <3>1. Len(rest) # 0
      BY <2>4 DEF IsStack
    <3>2. depth - 1 = (Len(stack) - 1) - 1
      BY <1>1, BeforeValue
    <3> QED
      BY <1>1, <2>1, <2>4, <3>1, <3>2, BeforeValue, ParserAssumption
  <2> DEFINE total == blocks - Top.owned
             new == Top.owned
  <2> HIDE DEF rest, total, new
  <2>8. /\ total \in Nat /\ Owns(rest, total) /\ new \in Nat /\ blocks' = total + new
        /\ Parsed(v, o + 1, rest, new)
    BY <2>1, <2>4, <2>5, <2>6 DEF total, new
  <2> QED
    BY <2>3, <2>4, <2>7, <2>8, ParsedKeepsInv
<1> QED
  BY <1>3, <1>4, <1>5, <1>6
\* The end of a call after parse_value keeps it.
LEMMA ReturnKeepsInv == IInv /\ Return => IInv'
<1> SUFFICES ASSUME IInv, Return PROVE IInv'
  OBVIOUS
<1> DEFINE o == IF require_null_terminated THEN buffer_skip_whitespace(offset) ELSE offset
<1>1. Building
  BY DEF Return, Building
<1>2. o \in 0 .. Len(input)
  BY <1>1, BeforeValue, Skip
<1>3. FailAt(o) \/ (/\ pc' = "done" /\ offset' = o /\ position' = o
                    /\ UNCHANGED <<input, require_null_terminated, depth, stack, blocks, starved>>)
  BY DEF Return, call
<1> HIDE DEF o
<1>4. CASE FailAt(o)
  BY <1>2, <1>4, FailAtKeepsInv
<1>5. CASE ~FailAt(o)
  BY <1>1, <1>2, <1>3, <1>5, BeforeValue DEF IInv, Building
<1> QED
  BY <1>4, <1>5

\* The failure of a list, which deletes what was made of it, keeps it.
LEMMA FailListKeepsInv == IInv /\ FailList => IInv'
<1> SUFFICES ASSUME IInv, FailList PROVE IInv'
  OBVIOUS
<1>1. /\ pc = "fail" /\ pc' = "fail" /\ stack # << >>
      /\ blocks' = blocks - Top.owned /\ stack' = Tail(stack)
      /\ UNCHANGED <<input, require_null_terminated, offset, depth, starved, position>>
  BY DEF FailList, call
<1>2. IsStack(stack) /\ Owns(stack, blocks) /\ blocks \in Nat
  BY DEF IInv
<1>3. IsStack(stack') /\ Owns(stack', blocks') /\ blocks' \in Nat
  BY <1>1, <1>2, Pop DEF Top
<1> QED
  BY <1>1, <1>3 DEF IInv, Building

\* The failure of the call keeps it.
LEMMA FailKeepsInv == IInv /\ Fail => IInv'
<1> SUFFICES ASSUME IInv, Fail PROVE IInv'
  OBVIOUS
<1>1. /\ pc = "fail" /\ pc' = "failed" /\ stack = << >>
      /\ position' = IF offset < Len(input) THEN offset
                     ELSE IF Len(input) > 0 THEN Len(input) - 1 ELSE 0
      /\ UNCHANGED <<input, require_null_terminated, offset, depth, stack, blocks, starved>>
  BY DEF Fail, call
<1>2. /\ input \in Seq(Symbol) /\ Len(input) \in Nat /\ offset \in 0 .. Len(input)
      /\ input # << >> => Len(input) > 0
  BY DEF IInv
<1>3. position' \in 0 .. Len(input) /\ (input # << >> => position' < Len(input))
  BY <1>1, <1>2
<1> QED
  BY <1>1, <1>3 DEF IInv, Building

-----------------------------------------------------------------------------
(* The theorems.                                                            *)

\* It holds before the first call.
LEMMA InitIInv == Init => IInv
<1> SUFFICES ASSUME Init PROVE IInv
  OBVIOUS
<1>1. input \in Seq(Symbol) /\ Len(input) \in Nat /\ NestingLimit \in Nat
  BY ParserAssumption DEF Init
<1>2. IsStack(stack) /\ Owns(stack, blocks)
  <2>1. stack = << >> /\ blocks = 0
    BY DEF Init
  <2> QED
    BY <2>1, EmptyStack, Zenon
<1>3. /\ require_null_terminated \in BOOLEAN /\ starved \in BOOLEAN
      /\ offset = 0 /\ depth = 0 /\ pc = "start" /\ position = 0
      /\ stack = << >> /\ blocks \in Nat
  BY DEF Init
<1> QED
  BY <1>1, <1>2, <1>3 DEF IInv, Building

\* Every step keeps it.
LEMMA NextIInv == IInv /\ [Next]_vars => IInv'
<1> SUFFICES ASSUME IInv, [Next]_vars PROVE IInv'
  OBVIOUS
<1>1. CASE UNCHANGED vars
  <2>1. UNCHANGED <<input, require_null_terminated, offset, depth, stack, pc, blocks, starved, position>>
    BY <1>1 DEF vars, call
  <2> QED
    BY <2>1 DEF IInv, Building
<1>2. CASE Next
  BY <1>1, <1>2, StartKeepsInv, NumberKeepsInv, StringKeepsInv, OpenListKeepsInv,
     NothingKeepsInv, NewElementKeepsInv, NameKeepsInv, NextElementKeepsInv,
     ReturnKeepsInv, FailListKeepsInv, FailKeepsInv DEF Next, Returned
<1> QED
  BY <1>1, <1>2

\* In every behaviour of the parser, for every set of buffers, every nesting
\* limit and every failure of the allocator, the invariant holds.
THEOREM Invariance == Spec => []IInv
<1>1. Init => IInv
  BY InitIInv
<1>2. IInv /\ [Next]_vars => IInv'
  BY NextIInv
<1> QED
  BY <1>1, <1>2, PTL DEF Spec

\* The offset of the parser, and the place an error is reported at, never
\* leave the buffer, whatever it holds.
THEOREM Typing == Spec => []TypeOK
<1>1. IInv => TypeOK
  <2> SUFFICES ASSUME IInv PROVE TypeOK
    OBVIOUS
  <2>1. \A n \in DOMAIN stack :
          stack[n].kind \in {"Root", "Array", "Object"} /\ stack[n].owned \in Nat
    <3>1. \A n \in 1 .. Len(stack) : IsFrame(stack[n])
      BY DEF IInv, IsStack
    <3>2. DOMAIN stack = 1 .. Len(stack)
      BY DEF IInv, IsStack
    <3> QED
      BY <3>1, <3>2 DEF IsFrame
  <2> QED
    BY <2>1, ParserAssumption DEF TypeOK, IInv, Building
<1> QED
  BY <1>1, Invariance, PTL

\* The symbols that are read without a test of the length are in the buffer.
THEOREM ReadsAreInside == Spec => []ReadsInBuffer
<1>1. IInv => ReadsInBuffer
  BY DEF IInv, ReadsInBuffer
<1> QED
  BY <1>1, Invariance, PTL

\* The nesting never exceeds the limit, and the counter is the nesting.
THEOREM DepthIsNesting == Spec => []Nested
<1>1. IInv => Nested
  BY ParserAssumption DEF IInv, Nested, Building
<1> QED
  BY <1>1, Invariance, PTL

\* However a call fails, it has given back what it had allocated.
THEOREM FailureFreesAll == Spec => []NothingLeaks
<1>1. IInv => NothingLeaks
  <2> SUFFICES ASSUME IInv, pc = "failed" PROVE blocks = 0
    BY DEF NothingLeaks
  <2>1. Owns(<< >>, blocks)
    BY DEF IInv
  <2>2. Len(<< >>) + 1 = 1
    OBVIOUS
  <2> QED
    BY <2>1, <2>2 DEF Owns
<1> QED
  BY <1>1, Invariance, PTL

-----------------------------------------------------------------------------
(* The text.  What is on the stack has told a beginning of a text, which is  *)
(* what the buffer shows in front of the offset.                            *)

\* Texts can be put behind each other in any grouping.
LEMMA Monoid ==
  /\ Nothing \in Parts
  /\ \A a, b \in Parts : a ++ b \in Parts
  /\ \A a \in Parts : Nothing ++ a = a /\ a ++ Nothing = a
  /\ \A a, b, c \in Parts : (a ++ b) ++ c = a ++ (b ++ c)
<1>1. Nothing \in Parts
  BY DEF Nothing, Part, Parts
<1>2. ASSUME NEW a \in Parts, NEW b \in Parts
      PROVE  /\ a ++ b \in Parts
             /\ (a ++ b).text = a.text \o b.text /\ (a ++ b).owned = a.owned + b.owned
  BY DEF ++, Part, Parts
<1>3. ASSUME NEW a \in Parts, NEW b \in Parts, a.text = b.text, a.owned = b.owned
      PROVE  a = b
  BY <1>3 DEF Parts
<1>4. ASSUME NEW a \in Parts
      PROVE  Nothing ++ a = a /\ a ++ Nothing = a
  <2>1. Nothing.text = << >> /\ Nothing.owned = 0
    BY DEF Nothing, Part
  <2>2. /\ a.text \in Seq(Symbol) /\ a.owned \in Nat
    BY DEF Parts
  <2>3. << >> \o a.text = a.text /\ a.text \o << >> = a.text
    BY <2>2
  <2>4. 0 + a.owned = a.owned /\ a.owned + 0 = a.owned
    BY <2>2
  <2>5. (Nothing ++ a).text = a.text /\ (Nothing ++ a).owned = a.owned /\ Nothing ++ a \in Parts
    BY <1>1, <1>2, <2>1, <2>3, <2>4
  <2>6. (a ++ Nothing).text = a.text /\ (a ++ Nothing).owned = a.owned /\ a ++ Nothing \in Parts
    BY <1>1, <1>2, <2>1, <2>3, <2>4
  <2> QED
    BY <1>3, <2>5, <2>6
<1>5. ASSUME NEW a \in Parts, NEW b \in Parts, NEW c \in Parts
      PROVE  (a ++ b) ++ c = a ++ (b ++ c)
  <2>1. /\ a.text \in Seq(Symbol) /\ b.text \in Seq(Symbol) /\ c.text \in Seq(Symbol)
        /\ a.owned \in Nat /\ b.owned \in Nat /\ c.owned \in Nat
    BY DEF Parts
  <2>2. (a.text \o b.text) \o c.text = a.text \o (b.text \o c.text)
    <3>1. \A u, v, w \in Seq(Symbol) : (u \o v) \o w = u \o (v \o w)
      BY ConcatAssociative
    <3> QED
      BY <2>1, <3>1, Zenon
  <2>3. (a.owned + b.owned) + c.owned = a.owned + (b.owned + c.owned)
    BY <2>1
  <2>4. a ++ b \in Parts /\ b ++ c \in Parts
    BY <1>2
  <2>5. /\ (a ++ b) ++ c \in Parts
        /\ ((a ++ b) ++ c).text = (a.text \o b.text) \o c.text
        /\ ((a ++ b) ++ c).owned = (a.owned + b.owned) + c.owned
    <3> DEFINE d == a ++ b
    <3>1. /\ d \in Parts /\ d.text = a.text \o b.text /\ d.owned = a.owned + b.owned
      BY <1>2
    <3> HIDE DEF d
    <3>2. d ++ c \in Parts /\ (d ++ c).text = d.text \o c.text /\ (d ++ c).owned = d.owned + c.owned
      BY <1>2, <3>1
    <3> QED
      BY <3>1, <3>2 DEF d
  <2>6. /\ a ++ (b ++ c) \in Parts
        /\ (a ++ (b ++ c)).text = a.text \o (b.text \o c.text)
        /\ (a ++ (b ++ c)).owned = a.owned + (b.owned + c.owned)
    <3> DEFINE d == b ++ c
    <3>1. /\ d \in Parts /\ d.text = b.text \o c.text /\ d.owned = b.owned + c.owned
      BY <1>2
    <3> HIDE DEF d
    <3>2. a ++ d \in Parts /\ (a ++ d).text = a.text \o d.text /\ (a ++ d).owned = a.owned + d.owned
      BY <1>2, <3>1
    <3> QED
      BY <3>1, <3>2 DEF d
  <2> QED
    BY <1>3, <2>2, <2>3, <2>5, <2>6
<1> QED
  BY <1>1, <1>2, <1>4, <1>5

\* Three parts, grouped either way.
LEMMA Regroup ==
  ASSUME NEW a \in Parts, NEW b \in Parts, NEW c \in Parts
  PROVE  (a ++ b) ++ c = a ++ (b ++ c)
BY Monoid

\* A text of two symbols is one symbol behind another.
LEMMA Pair == \A x, y : <<x>> \o <<y>> = <<x, y>>
<1> SUFFICES ASSUME NEW x, NEW y PROVE <<x>> \o <<y>> = <<x, y>>
  OBVIOUS
<1> DEFINE joined == <<x>> \o <<y>>
           pair == <<x, y>>
<1>1. pair \in Seq({x, y}) /\ joined \in Seq({x, y})
  OBVIOUS
<1>2. /\ Len(joined) = 2 /\ joined[1] = x /\ joined[2] = y
      /\ Len(pair) = 2 /\ pair[1] = x /\ pair[2] = y
  OBVIOUS
<1> HIDE DEF joined, pair
<1>3. \A n \in 1 .. 2 : n = 1 \/ n = 2
  OBVIOUS
<1>4. joined = pair
  BY <1>1, <1>2, <1>3, SeqEqual
<1> QED
  BY <1>4 DEF joined, pair

-----------------------------------------------------------------------------
(* The definitions by recursion determine what they define.                 *)

\* What the values of a level are, told of the function f that says it of the
\* level below.
ValuesStep(n, f) ==
  [kind: {"n", "s"}, values: {<< >>}]
  \cup [kind: {"Array", "Object"}, values: IF n = 0 THEN {} ELSE Seq(f[n - 1])]

\* The definition of Values determines it.
LEMMA ValuesSteps ==
  Values = [n \in 0 .. NestingLimit |-> ValuesStep(n, Values)]
<1> DEFINE Solves(f, m) == f = [n \in 0 .. m |-> ValuesStep(n, f)]
           T == {m \in Nat : \E f : Solves(f, m)}
           values == CHOOSE f : Solves(f, NestingLimit)
<1>1. 0 \in T
  <2> DEFINE f == [n \in 0 .. 0 |-> ValuesStep(n, << >>)]
  <2>1. ASSUME NEW n \in 0 .. 0 PROVE ValuesStep(n, << >>) = ValuesStep(n, f)
    <3>1. n = 0
      OBVIOUS
    <3> QED
      BY <3>1 DEF ValuesStep
  <2>2. Solves(f, 0)
    BY <2>1
  <2> HIDE DEF f, Solves
  <2> QED
    BY <2>2
<1>2. ASSUME NEW m \in 1 .. NestingLimit, m - 1 \in T PROVE m \in T
  <2>1. m \in Nat /\ m # 0
    BY ParserAssumption
  <2>2. PICK f : Solves(f, m - 1)
    BY <1>2
  <2> DEFINE g == [n \in 0 .. m |-> ValuesStep(n, f)]
  <2>3. ASSUME NEW n \in 0 .. m PROVE ValuesStep(n, f) = ValuesStep(n, g)
    <3>1. CASE n = 0
      BY <3>1 DEF ValuesStep
    <3>2. CASE n # 0
      <4>1. n - 1 \in 0 .. m /\ n - 1 \in 0 .. m - 1
        BY <2>1, <3>2
      <4>2. f[n - 1] = g[n - 1]
        BY <2>2, <4>1
      <4> QED
        BY <4>2 DEF ValuesStep
    <3> QED
      BY <3>1, <3>2
  <2>4. Solves(g, m)
    BY <2>3
  <2> HIDE DEF g, Solves
  <2> QED
    BY <2>1, <2>4
<1>3. NestingLimit \in T
  <2> HIDE DEF T
  <2>1. NestingLimit \in Nat /\ NestingLimit \in 0 .. NestingLimit
    BY ParserAssumption
  <2> QED
    BY <1>1, <1>2, <2>1, UpTo
<1>4. \E f : Solves(f, NestingLimit)
  BY <1>3
<1>5. Solves(values, NestingLimit)
  <2> HIDE DEF Solves
  <2> QED
    BY <1>4
<1>6. values = Values
  BY Zenon DEF Values, ValuesStep
<1> HIDE DEF values
<1> QED
  BY <1>5, <1>6

\* What comes before and between the elements is a part of a text.
LEMMA Punctuation ==
  /\ \A x \in Symbol : \A n \in Nat : Part(<<x>>, n) \in Parts
  /\ Item \in Parts
  /\ \A kind : Opening(kind) \in Parts /\ Name(kind) \in Parts
  /\ \A n : Comma(n) \in Parts
<1>1. ASSUME NEW x \in Symbol, NEW n \in Nat PROVE Part(<<x>>, n) \in Parts
  BY DEF Part, Parts
<1>2. Item \in Parts /\ Part(<<"s", ":">>, 1) \in Parts
  <2>1. <<"s", ":">> \in Seq(Symbol) /\ << >> \in Seq(Symbol) /\ 1 \in Nat
    BY DEF Symbol
  <2> QED
    BY <2>1 DEF Item, Part, Parts
<1>3. "[" \in Symbol /\ "{" \in Symbol /\ "," \in Symbol /\ 0 \in Nat
  BY DEF Symbol
<1>4. Part(<<"[">>, 0) \in Parts /\ Part(<<"{">>, 0) \in Parts /\ Part(<<",">>, 0) \in Parts
  BY <1>1, <1>3
<1> QED
  BY <1>1, <1>2, <1>4, Monoid DEF Opening, Name, Comma

\* What an element adds to a list in which there are n - 1.
Element(kind, n, part) == Comma(n) ++ (Name(kind) ++ part)

\* The text of a list up to each of its elements.
BeginsUpto(upto, kind, parts) ==
  /\ upto \in [0 .. Len(parts) -> Parts] /\ upto[0] = Opening(kind)
  /\ \A n \in 1 .. Len(parts) : upto[n] = upto[n - 1] ++ Element(kind, n, parts[n])
  /\ Begun(kind, parts) = upto[Len(parts)]

\* An element of a list is a part of a text.
LEMMA ElementType ==
  ASSUME NEW kind, NEW n, NEW part \in Parts
  PROVE  Element(kind, n, part) \in Parts
<1>1. Name(kind) ++ part \in Parts
  BY Monoid, Punctuation
<1> QED
  BY <1>1, Monoid, Punctuation DEF Element

\* A list can be told from its beginning to its end.
LEMMA BegunUpto ==
  ASSUME NEW kind, NEW parts \in Seq(Parts)
  PROVE  \E upto : BeginsUpto(upto, kind, parts)
<1> DEFINE N == Len(parts)
           S(n, f) == IF n = 0 THEN Opening(kind) ELSE f[n - 1] ++ Element(kind, n, parts[n])
           Solution(f) == f = [n \in 0 .. N |-> S(n, f)]
           upto == CHOOSE f : Solution(f)
           Step == [x \in (1 .. N) \X Parts |-> x[2] ++ Element(kind, x[1], parts[x[1]])]
<1>1. N \in Nat
  OBVIOUS
<1>2. Step \in [(1 .. N) \X Parts -> Parts]
  <2>1. ASSUME NEW x \in (1 .. N) \X Parts PROVE x[2] ++ Element(kind, x[1], parts[x[1]]) \in Parts
    <3>1. x[2] \in Parts /\ parts[x[1]] \in Parts
      OBVIOUS
    <3> QED
      BY <3>1, ElementType, Monoid
  <2> QED
    BY <2>1
<1>3. PICK f \in [0 .. N -> Parts] : Iterates(f, N, Opening(kind), Step)
  <2>1. Opening(kind) \in Parts
    BY Punctuation
  <2> HIDE DEF Step, N
  <2> QED
    BY <1>1, <1>2, <2>1, RecursionUpTo
<1>4. ASSUME NEW n \in 0 .. N PROVE f[n] = S(n, f)
  <2>1. CASE n = 0
    BY <1>3, <2>1 DEF Iterates
  <2>2. CASE n # 0
    <3>1. n \in 1 .. N /\ n - 1 \in 0 .. N
      BY <2>2
    <3>2. f[n - 1] \in Parts
      BY <3>1
    <3> HIDE DEF N
    <3>3. f[n] = f[n - 1] ++ Element(kind, n, parts[n])
      BY <1>3, <3>1, <3>2 DEF Iterates
    <3> QED
      BY <2>2, <3>3
  <2> QED
    BY <2>1, <2>2
<1>5. Solution(f)
  <2> HIDE DEF N, S
  <2> QED
    BY <1>4
<1>6. upto = [n \in 0 .. N |-> S(n, upto)]
  <2> HIDE DEF N, S
  <2> QED
    BY <1>5
<1>7. upto[N] = Begun(kind, parts)
  BY Zenon DEF Begun, Element
<1> HIDE DEF upto
<1>8. upto[0] = Opening(kind)
  BY <1>1, <1>6
<1>9. ASSUME NEW n \in 1 .. N PROVE upto[n] = upto[n - 1] ++ Element(kind, n, parts[n])
  <2>1. n \in 0 .. N /\ n # 0
    OBVIOUS
  <2> HIDE DEF N
  <2> QED
    BY <1>6, <2>1
<1>10. upto \in [0 .. N -> Parts]
  <2> DEFINE T == {n \in 0 .. N : upto[n] \in Parts}
  <2>1. 0 \in T
    BY <1>1, <1>8, Punctuation
  <2>2. ASSUME NEW n \in 1 .. N, n - 1 \in T PROVE n \in T
    <3>1. parts[n] \in Parts /\ n \in 0 .. N
      OBVIOUS
    <3>2. upto[n - 1] \in Parts /\ Element(kind, n, parts[n]) \in Parts
      BY <2>2, <3>1, ElementType
    <3>3. upto[n] = upto[n - 1] ++ Element(kind, n, parts[n])
      BY <1>9
    <3> HIDE DEF N
    <3>4. upto[n] \in Parts
      BY <3>2, <3>3, Monoid
    <3> QED
      BY <3>1, <3>4
  <2>3. 0 .. N \subseteq T
    <3> HIDE DEF T, N
    <3> QED
      BY <1>1, <2>1, <2>2, UpTo
  <2> HIDE DEF N, S
  <2> QED
    BY <1>6, <2>3
<1> QED
  BY <1>7, <1>8, <1>9, <1>10 DEF BeginsUpto

\* A list without elements, and a list with one more.
LEMMA BegunSteps ==
  ASSUME NEW kind
  PROVE  /\ Begun(kind, << >>) = Opening(kind)
         /\ \A parts \in Seq(Parts) : Begun(kind, parts) \in Parts
         /\ \A parts \in Seq(Parts), part \in Parts :
              Begun(kind, Append(parts, part))
              = Begun(kind, parts) ++ Element(kind, Len(parts) + 1, part)
<1>1. Begun(kind, << >>) = Opening(kind)
  <2>1. << >> \in Seq(Parts) /\ Len(<< >>) = 0
    OBVIOUS
  <2>2. PICK upto : BeginsUpto(upto, kind, << >>)
    BY <2>1, BegunUpto
  <2> QED
    BY <2>1, <2>2 DEF BeginsUpto
<1>2. ASSUME NEW parts \in Seq(Parts) PROVE Begun(kind, parts) \in Parts
  <2>1. PICK upto : BeginsUpto(upto, kind, parts)
    BY BegunUpto
  <2>2. Len(parts) \in 0 .. Len(parts)
    OBVIOUS
  <2> QED
    BY <2>1, <2>2 DEF BeginsUpto
<1>3. ASSUME NEW parts \in Seq(Parts), NEW part \in Parts
      PROVE  Begun(kind, Append(parts, part))
             = Begun(kind, parts) ++ Element(kind, Len(parts) + 1, part)
  <2> DEFINE N == Len(parts)
             more == Append(parts, part)
  <2>1. /\ more \in Seq(Parts) /\ Len(more) = N + 1 /\ N \in Nat
        /\ \A n \in 1 .. N : more[n] = parts[n]
        /\ more[N + 1] = part
    OBVIOUS
  <2> HIDE DEF more
  <2>2. PICK f : BeginsUpto(f, kind, parts)
    BY BegunUpto
  <2>3. PICK g : BeginsUpto(g, kind, more)
    BY <2>1, BegunUpto
  <2> DEFINE T == {n \in 0 .. N : f[n] = g[n]}
  <2>4. 0 \in T
    BY <2>1, <2>2, <2>3 DEF BeginsUpto
  <2>5. ASSUME NEW n \in 1 .. N, n - 1 \in T PROVE n \in T
    <3>1. n \in 0 .. N /\ n \in 1 .. Len(more) /\ n \in 1 .. Len(parts) /\ more[n] = parts[n]
      BY <2>1
    <3>2. f[n] = f[n - 1] ++ Element(kind, n, parts[n])
      BY <2>2, <3>1 DEF BeginsUpto
    <3>3. g[n] = g[n - 1] ++ Element(kind, n, more[n])
      BY <2>3, <3>1 DEF BeginsUpto
    <3>4. f[n - 1] = g[n - 1]
      BY <2>5
    <3>5. f[n] = g[n]
      BY <3>1, <3>2, <3>3, <3>4
    <3> QED
      BY <3>1, <3>5
  <2>6. N \in T
    <3>1. N \in 0 .. N
      BY <2>1
    <3> HIDE DEF T, N
    <3> QED
      BY <2>1, <2>4, <2>5, <3>1, UpTo
  <2>7. f[N] = g[N]
    BY <2>6
  <2>8. g[N + 1] = g[N] ++ Element(kind, N + 1, more[N + 1])
    <3>1. N + 1 \in 1 .. Len(more) /\ (N + 1) - 1 = N
      BY <2>1
    <3> HIDE DEF N
    <3> QED
      BY <2>3, <3>1 DEF BeginsUpto
  <2>9. Begun(kind, parts) = f[N] /\ Begun(kind, more) = g[N + 1]
    BY <2>1, <2>2, <2>3 DEF BeginsUpto
  <2> HIDE DEF N
  <2>10. Begun(kind, more) = Begun(kind, parts) ++ Element(kind, N + 1, part)
    BY <2>1, <2>7, <2>8, <2>9
  <2> QED
    BY <2>10 DEF N, more
<1> QED
  BY <1>1, <1>2, <1>3

\* What does not show: white space, and a byte order mark.
Hidden(o) == input[o] \in Space \/ (o = 1 /\ Marked)

\* The text in front of each offset is that of the offset before, or has one
\* more symbol.
LEMMA ShownSteps ==
  ASSUME input \in Seq(Symbol)
  PROVE  /\ Shown \in [0 .. Len(input) -> Seq(Symbol)] /\ Shown[0] = << >>
         /\ \A o \in 1 .. Len(input) :
              Shown[o] = IF Hidden(o) THEN Shown[o - 1] ELSE Append(Shown[o - 1], input[o])
<1> DEFINE N == Len(input)
           Next1(o, s) == IF Hidden(o) THEN s ELSE Append(s, input[o])
           S(o, f) == IF o = 0 THEN << >> ELSE Next1(o, f[o - 1])
           Solution(f) == f = [o \in 0 .. N |-> S(o, f)]
           shown == CHOOSE f : Solution(f)
           Step == [x \in (1 .. N) \X Seq(Symbol) |-> Next1(x[1], x[2])]
<1>1. N \in Nat /\ << >> \in Seq(Symbol)
  OBVIOUS
<1>2. ASSUME NEW o \in 1 .. N, NEW s \in Seq(Symbol) PROVE Next1(o, s) \in Seq(Symbol)
  <2>1. input[o] \in Symbol
    OBVIOUS
  <2> QED
    BY <2>1
<1>3. Step \in [(1 .. N) \X Seq(Symbol) -> Seq(Symbol)]
  <2> HIDE DEF N, Next1
  <2> QED
    BY <1>2
<1>4. PICK f \in [0 .. N -> Seq(Symbol)] : Iterates(f, N, << >>, Step)
  <2> HIDE DEF Step, N
  <2> QED
    BY <1>1, <1>3, RecursionUpTo
<1>5. ASSUME NEW o \in 0 .. N PROVE f[o] = S(o, f)
  <2>1. CASE o = 0
    BY <1>4, <2>1 DEF Iterates
  <2>2. CASE o # 0
    <3>1. o \in 1 .. N /\ o - 1 \in 0 .. N
      BY <2>2
    <3>2. f[o - 1] \in Seq(Symbol)
      BY <3>1
    <3> HIDE DEF N, Next1
    <3>3. f[o] = Next1(o, f[o - 1])
      BY <1>4, <3>1, <3>2 DEF Iterates
    <3> QED
      BY <2>2, <3>3
  <2> QED
    BY <2>1, <2>2
<1>6. Solution(f)
  <2> HIDE DEF N, S
  <2> QED
    BY <1>5
<1>7. shown = [o \in 0 .. N |-> S(o, shown)]
  <2> HIDE DEF N, S
  <2> QED
    BY <1>6
<1>8. shown = Shown
  BY Zenon DEF Shown, Hidden
<1> HIDE DEF shown
<1>9. shown[0] = << >>
  BY <1>1, <1>7
<1>10. ASSUME NEW o \in 1 .. N PROVE shown[o] = Next1(o, shown[o - 1])
  <2>1. o \in 0 .. N /\ o # 0
    OBVIOUS
  <2> HIDE DEF N, Next1
  <2> QED
    BY <1>7, <2>1
<1>11. shown \in [0 .. N -> Seq(Symbol)]
  <2> DEFINE T == {o \in 0 .. N : shown[o] \in Seq(Symbol)}
  <2>1. 0 \in T
    BY <1>1, <1>9
  <2>2. ASSUME NEW o \in 1 .. N, o - 1 \in T PROVE o \in T
    <3> HIDE DEF N, Next1, S
    <3>1. o \in 0 .. N
      BY <1>1
    <3>1a. shown[o - 1] \in Seq(Symbol)
      BY <2>2
    <3>2. shown[o] \in Seq(Symbol)
      BY <1>2, <1>10, <3>1a
    <3> QED
      BY <3>1, <3>2
  <2>3. 0 .. N \subseteq T
    <3> HIDE DEF T, N
    <3> QED
      BY <1>1, <2>1, <2>2, UpTo
  <2> HIDE DEF N, S
  <2> QED
    BY <1>7, <2>3
<1> QED
  BY <1>8, <1>9, <1>10, <1>11

\* It depends on nothing but the buffer.
LEMMA ShownStays == UNCHANGED input => Shown' = Shown
BY DEF Shown, Marked

\* The texts of values, which f gives.
TextsBy(f, values) == [m \in DOMAIN values |-> f[values[m]]]

\* What the texts of a level are, told of the function f that says it of the
\* level below.
TextStep(v, f, n) ==
  CASE v.kind = "n" -> Item ++ Part(<<"n">>, 0)
    [] v.kind = "s" -> Item ++ Part(<<"s">>, 1)
    [] v.kind = "Array" ->
         Item ++ (Begun("Array", TextsBy(f[n - 1], v.values)) ++ Part(<<"]">>, 0))
    [] v.kind = "Object" ->
         Item ++ (Begun("Object", TextsBy(f[n - 1], v.values)) ++ Part(<<"}">>, 0))

\* The values of each level.
LEMMA ValuesAre ==
  ASSUME NEW n \in 0 .. NestingLimit
  PROVE  /\ \A kind \in {"n", "s"} : Value(kind, << >>) \in Values[n]
         /\ n # 0 => /\ n - 1 \in 0 .. NestingLimit
                     /\ \A kind \in {"Array", "Object"}, values \in Seq(Values[n - 1]) :
                          Value(kind, values) \in Values[n]
         /\ \A v \in Values[n] :
              \/ v.kind \in {"n", "s"} /\ v.values = << >>
              \/ /\ v.kind \in {"Array", "Object"} /\ n # 0
                 /\ n - 1 \in 0 .. NestingLimit /\ v.values \in Seq(Values[n - 1])
<1>1. Values[n] = ValuesStep(n, Values)
  BY ValuesSteps, Zenon
<1>2. n # 0 => n - 1 \in 0 .. NestingLimit
  BY ParserAssumption
<1>3. \A kind \in {"n", "s"} : Value(kind, << >>) \in Values[n]
  BY <1>1 DEF ValuesStep, Value
<1>4. ASSUME n # 0, NEW kind \in {"Array", "Object"}, NEW values \in Seq(Values[n - 1])
      PROVE  Value(kind, values) \in Values[n]
  BY <1>1, <1>4 DEF ValuesStep, Value
<1>5. ASSUME NEW v \in Values[n]
      PROVE  \/ v.kind \in {"n", "s"} /\ v.values = << >>
             \/ v.kind \in {"Array", "Object"} /\ n # 0 /\ v.values \in Seq(Values[n - 1])
  <2>1. v \in ValuesStep(n, Values)
    BY <1>1
  <2>2. CASE v \in [kind: {"n", "s"}, values: {<< >>}]
    BY <2>2
  <2>3. CASE v \in [kind: {"Array", "Object"}, values: IF n = 0 THEN {} ELSE Seq(Values[n - 1])]
    <3>1. v.values \in IF n = 0 THEN {} ELSE Seq(Values[n - 1])
      BY <2>3
    <3> QED
      BY <2>3, <3>1
  <2> QED
    BY <2>1, <2>2, <2>3 DEF ValuesStep
<1> QED
  BY <1>2, <1>3, <1>4, <1>5

\* The definition of JsonText determines it.
LEMMA JsonTextSteps ==
  JsonText = [n \in 0 .. NestingLimit |-> [v \in Values[n] |-> TextStep(v, JsonText, n)]]
<1> DEFINE Level(n, f) == [v \in Values[n] |-> TextStep(v, f, n)]
           Solves(f, m) == f = [n \in 0 .. m |-> Level(n, f)]
           T == {m \in Nat : \E f : Solves(f, m)}
           text == CHOOSE f : Solves(f, NestingLimit)
<1>1. ASSUME NEW n \in 0 .. NestingLimit, NEW f, NEW g, n # 0 => f[n - 1] = g[n - 1]
      PROVE  Level(n, f) = Level(n, g)
  <2>1. ASSUME NEW v \in Values[n] PROVE TextStep(v, f, n) = TextStep(v, g, n)
    <3>1. CASE v.kind \in {"n", "s"}
      BY <3>1 DEF TextStep
    <3>2. CASE v.kind \in {"Array", "Object"} /\ n # 0
      <4>1. f[n - 1] = g[n - 1]
        BY <1>1, <3>2
      <4> QED
        BY <4>1 DEF TextStep
    <3> QED
      BY <3>1, <3>2, ValuesAre
  <2> QED
    BY <2>1
<1> HIDE DEF Level
<1>2. 0 \in T
  <2> DEFINE f == [n \in 0 .. 0 |-> Level(n, << >>)]
  <2>1. 0 \in 0 .. NestingLimit
    BY ParserAssumption
  <2>2. Level(0, << >>) = Level(0, f)
    BY <1>1, <2>1
  <2>3. ASSUME NEW n \in 0 .. 0 PROVE n = 0
    OBVIOUS
  <2>4. Solves(f, 0)
    BY <2>2, <2>3
  <2> HIDE DEF f, Solves
  <2> QED
    BY <2>4
<1>3. ASSUME NEW m \in 1 .. NestingLimit, m - 1 \in T PROVE m \in T
  <2>1. m \in Nat /\ m # 0
    BY ParserAssumption
  <2>2. PICK f : Solves(f, m - 1)
    BY <1>3
  <2> DEFINE g == [n \in 0 .. m |-> Level(n, f)]
  <2>3. ASSUME NEW n \in 0 .. m PROVE Level(n, f) = Level(n, g)
    <3>1. n \in 0 .. NestingLimit
      BY ParserAssumption
    <3>2. ASSUME n # 0 PROVE f[n - 1] = g[n - 1]
      <4>1. n - 1 \in 0 .. m /\ n - 1 \in 0 .. m - 1
        BY <2>1, <3>2
      <4> QED
        BY <2>2, <4>1
    <3> HIDE DEF g
    <3> QED
      BY <1>1, <3>1, <3>2
  <2>4. Solves(g, m)
    BY <2>3
  <2> HIDE DEF g, Solves
  <2> QED
    BY <2>1, <2>4
<1>4. NestingLimit \in T
  <2> HIDE DEF T
  <2>1. NestingLimit \in Nat /\ NestingLimit \in 0 .. NestingLimit
    BY ParserAssumption
  <2> QED
    BY <1>2, <1>3, <2>1, UpTo
<1>5. \E f : Solves(f, NestingLimit)
  BY <1>4
<1>6. Solves(text, NestingLimit)
  <2> HIDE DEF Solves
  <2> QED
    BY <1>5
<1>7. text = JsonText
  BY Zenon DEF JsonText, TextStep, TextsBy, Level
<1> HIDE DEF text
<1> QED
  BY <1>6, <1>7 DEF Level

\* The values and texts of a list of values.
TextsOf(n, values) == TextsBy(JsonText[n], values)

\* The texts of values are parts; one value more is one text more.
LEMMA TextsOfSteps ==
  ASSUME NEW n, JsonText[n] \in [Values[n] -> Parts], NEW values \in Seq(Values[n])
  PROVE  /\ TextsOf(n, << >>) = << >>
         /\ TextsOf(n, values) \in Seq(Parts) /\ Len(TextsOf(n, values)) = Len(values)
         /\ \A v \in Values[n] :
              TextsOf(n, Append(values, v)) = Append(TextsOf(n, values), JsonText[n][v])
<1> DEFINE t == JsonText[n]
           V == Values[n]
<1>1. TextsOf(n, << >>) = << >>
  BY DEF TextsOf, TextsBy
<1>2. TextsBy(t, values) \in Seq(Parts) /\ Len(TextsBy(t, values)) = Len(values)
  <2> HIDE DEF t, V
  <2>1. t \in [V -> Parts] /\ values \in Seq(V)
    BY DEF t, V
  <2>2. DOMAIN values = 1 .. Len(values) /\ Len(values) \in Nat
    BY <2>1
  <2>3. \A m \in 1 .. Len(values) : t[values[m]] \in Parts
    BY <2>1
  <2> QED
    BY <2>2, <2>3 DEF TextsBy
<1>3. ASSUME NEW v \in V
      PROVE  TextsBy(t, Append(values, v)) = Append(TextsBy(t, values), t[v])
  <2> HIDE DEF t, V
  <2>1. t \in [V -> Parts] /\ values \in Seq(V)
    BY DEF t, V
  <2> DEFINE more == Append(values, v)
             texts == TextsBy(t, values)
             left == TextsBy(t, more)
             right == Append(texts, t[v])
  <2>2. /\ more \in Seq(V) /\ Len(more) = Len(values) + 1 /\ DOMAIN more = 1 .. Len(more)
        /\ \A m \in 1 .. Len(values) : more[m] = values[m]
        /\ more[Len(values) + 1] = v
        /\ DOMAIN values = 1 .. Len(values) /\ Len(values) \in Nat
    BY <2>1
  <2> HIDE DEF more
  <2>3. \A m \in 1 .. Len(more) : t[more[m]] \in Parts
    BY <2>1, <2>2
  <2>4. /\ left \in Seq(Parts) /\ Len(left) = Len(more)
        /\ \A m \in 1 .. Len(more) : left[m] = t[more[m]]
    BY <2>2, <2>3 DEF TextsBy
  <2>5. /\ texts \in Seq(Parts) /\ Len(texts) = Len(values)
        /\ \A m \in 1 .. Len(values) : texts[m] = t[values[m]]
    BY <1>2, <2>2 DEF TextsBy
  <2>6. t[v] \in Parts
    BY <2>1
  <2> HIDE DEF left, texts
  <2>7. /\ right \in Seq(Parts) /\ Len(right) = Len(values) + 1
        /\ \A m \in 1 .. Len(values) : right[m] = t[values[m]]
        /\ right[Len(values) + 1] = t[v]
    BY <2>5, <2>6
  <2> HIDE DEF right
  <2>8. ASSUME NEW m \in 1 .. Len(left) PROVE left[m] = right[m]
    <3>1. CASE m = Len(values) + 1
      BY <2>2, <2>4, <2>7, <3>1
    <3>2. CASE m # Len(values) + 1
      <4>1. m \in 1 .. Len(values)
        BY <2>2, <2>4, <3>2
      <4> QED
        BY <2>2, <2>4, <2>7, <4>1
    <3> QED
      BY <3>1, <3>2
  <2>9. left = right
    BY <2>2, <2>4, <2>7, <2>8, SeqEqual
  <2> QED
    BY <2>9 DEF left, right, texts, more
<1> QED
  BY <1>1, <1>2, <1>3 DEF TextsOf

\* The text of each value of a level.
LEMMA TextsAre ==
  ASSUME NEW n \in 0 .. NestingLimit
  PROVE  /\ JsonText[n] \in [Values[n] -> Parts]
         /\ JsonText[n][Value("n", << >>)] = Item ++ Part(<<"n">>, 0)
         /\ JsonText[n][Value("s", << >>)] = Item ++ Part(<<"s">>, 1)
         /\ n # 0 => \A kind \in {"Array", "Object"}, values \in Seq(Values[n - 1]) :
              JsonText[n][Value(kind, values)]
              = Item ++ (Begun(kind, TextsOf(n - 1, values)) ++ Part(<<Closes(kind)>>, 0))
<1> DEFINE Typed(k) == JsonText[k] \in [Values[k] -> Parts]
           T == {k \in 0 .. NestingLimit : Typed(k)}
<1>1. ASSUME NEW k \in 0 .. NestingLimit
      PROVE  JsonText[k] = [v \in Values[k] |-> TextStep(v, JsonText, k)]
  BY JsonTextSteps, Zenon
<1>2. /\ Item ++ Part(<<"n">>, 0) \in Parts /\ Item ++ Part(<<"s">>, 1) \in Parts
      /\ \A kind : Part(<<Closes(kind)>>, 0) \in Parts
  <2>1. Part(<<"n">>, 0) \in Parts /\ Part(<<"s">>, 1) \in Parts
    BY Punctuation DEF Symbol
  <2>2. ASSUME NEW kind PROVE Part(<<Closes(kind)>>, 0) \in Parts
    <3>1. Closes(kind) \in Symbol
      BY DEF Closes, Symbol
    <3> QED
      BY <3>1, Punctuation
  <2> QED
    BY <2>1, <2>2, Monoid, Punctuation
<1>3. ASSUME NEW k \in 0 .. NestingLimit, k # 0 => Typed(k - 1) PROVE Typed(k)
  <2>1. ASSUME NEW v \in Values[k] PROVE TextStep(v, JsonText, k) \in Parts
    <3>1. CASE v.kind \in {"n", "s"}
      BY <1>2, <3>1 DEF TextStep
    <3>2. CASE /\ v.kind \in {"Array", "Object"} /\ k # 0
               /\ k - 1 \in 0 .. NestingLimit /\ v.values \in Seq(Values[k - 1])
      <4> DEFINE texts == TextsBy(JsonText[k - 1], v.values)
      <4>1. texts \in Seq(Parts)
        BY <1>3, <3>2, TextsOfSteps DEF TextsOf
      <4> HIDE DEF texts
      <4>2. Begun("Array", texts) \in Parts /\ Begun("Object", texts) \in Parts
        BY <4>1, BegunSteps
      <4>3. Part(<<"]">>, 0) \in Parts /\ Part(<<"}">>, 0) \in Parts
        BY Punctuation DEF Symbol
      <4>4. /\ Item ++ (Begun("Array", texts) ++ Part(<<"]">>, 0)) \in Parts
            /\ Item ++ (Begun("Object", texts) ++ Part(<<"}">>, 0)) \in Parts
        BY <4>2, <4>3, Monoid, Punctuation
      <4>5. CASE v.kind = "Array"
        BY <4>4, <4>5 DEF TextStep, texts
      <4>6. CASE v.kind = "Object"
        BY <4>4, <4>6 DEF TextStep, texts
      <4> QED
        BY <3>2, <4>5, <4>6
    <3> QED
      BY <3>1, <3>2, ValuesAre
  <2> QED
    BY <1>1, <2>1
<1>4. Typed(n)
  <2>1. 0 \in 0 .. NestingLimit /\ NestingLimit \in Nat
    BY ParserAssumption
  <2>2. 0 \in T
    <3>1. Typed(0)
      BY <1>3, <2>1
    <3> QED
      BY <2>1, <3>1
  <2>3. ASSUME NEW k \in 1 .. NestingLimit, k - 1 \in T PROVE k \in T
    <3>1. k \in 0 .. NestingLimit
      BY <2>1
    <3>2. Typed(k)
      BY <1>3, <2>3, <3>1
    <3> QED
      BY <3>1, <3>2
  <2>4. 0 .. NestingLimit \subseteq T
    <3> HIDE DEF T
    <3> QED
      BY <2>1, <2>2, <2>3, UpTo
  <2> QED
    BY <2>4
<1>5. /\ JsonText[n][Value("n", << >>)] = Item ++ Part(<<"n">>, 0)
      /\ JsonText[n][Value("s", << >>)] = Item ++ Part(<<"s">>, 1)
  <2>1. Value("n", << >>) \in Values[n] /\ Value("s", << >>) \in Values[n]
    BY ValuesAre
  <2>2. /\ TextStep(Value("n", << >>), JsonText, n) = Item ++ Part(<<"n">>, 0)
        /\ TextStep(Value("s", << >>), JsonText, n) = Item ++ Part(<<"s">>, 1)
    BY DEF TextStep, Value
  <2> QED
    BY <1>1, <2>1, <2>2
<1>6. ASSUME n # 0, NEW kind \in {"Array", "Object"}, NEW values \in Seq(Values[n - 1])
      PROVE  JsonText[n][Value(kind, values)]
             = Item ++ (Begun(kind, TextsOf(n - 1, values)) ++ Part(<<Closes(kind)>>, 0))
  <2>1. Value(kind, values) \in Values[n]
    BY <1>6, ValuesAre
  <2>2. TextStep(Value(kind, values), JsonText, n)
        = Item ++ (Begun(kind, TextsOf(n - 1, values)) ++ Part(<<Closes(kind)>>, 0))
    <3>1. CASE kind = "Array"
      BY <3>1 DEF TextStep, Value, TextsOf, Closes
    <3>2. CASE kind = "Object"
      BY <3>2 DEF TextStep, Value, TextsOf, Closes
    <3> QED
      BY <3>1, <3>2
  <2> QED
    BY <1>1, <2>1, <2>2
<1> QED
  BY <1>4, <1>5, <1>6

-----------------------------------------------------------------------------
(* What the lists on the stack have told.                                   *)

\* The text of a list up to the end of its last element; and up to the value of
\* the element that is being parsed, the item for it included.
FrameText(f, n) == Begun(f.kind, TextsOf(n, f.values))
Pending(f, n) == FrameText(f, n) ++ (Comma(Len(f.values) + 1) ++ (Item ++ Name(f.kind)))

\* A list with values of level n; the root waits for one value only.
Waits(f, n) == f.values \in Seq(Values[n]) /\ (f.kind = "Root" => f.values = << >>)

\* A block may be counted earlier.
LEMMA Swap ==
  ASSUME NEW a \in Parts, NEW b \in Parts
  PROVE  a ++ (Item ++ b) = (Item ++ a) ++ b
<1>1. /\ a.text \in Seq(Symbol) /\ b.text \in Seq(Symbol)
      /\ a.owned \in Nat /\ b.owned \in Nat
  BY DEF Parts
<1>2. << >> \o b.text = b.text /\ << >> \o a.text = a.text
  BY <1>1
<1>3. a.owned + (1 + b.owned) = (1 + a.owned) + b.owned
  BY <1>1
<1> QED
  BY <1>2, <1>3 DEF ++, Part, Item

\* What is known of the texts of a list.
LEMMA FrameTexts ==
  ASSUME NEW n \in 0 .. NestingLimit, NEW f, f.values \in Seq(Values[n])
  PROVE  /\ FrameText(f, n) \in Parts /\ Pending(f, n) \in Parts
         /\ FrameText(f, n) ++ Comma(Len(f.values) + 1) \in Parts
<1>1. TextsOf(n, f.values) \in Seq(Parts)
  BY TextsAre, TextsOfSteps
<1>2. FrameText(f, n) \in Parts
  BY <1>1, BegunSteps DEF FrameText
<1>3. Comma(Len(f.values) + 1) \in Parts /\ Name(f.kind) \in Parts /\ Item \in Parts
  BY Punctuation
<1>4. Comma(Len(f.values) + 1) ++ (Item ++ Name(f.kind)) \in Parts
  BY <1>3, Monoid
<1> QED
  BY <1>2, <1>3, <1>4, Monoid DEF Pending

\* When the value that a list waits for has been parsed, the text of the list
\* is what was told before and the text of the value, which the item begins.
LEMMA ValueFits ==
  ASSUME NEW n \in 0 .. NestingLimit, NEW f, f.values \in Seq(Values[n]),
         NEW v \in Values[n], NEW x \in Parts, JsonText[n][v] = Item ++ x,
         NEW told \in Parts, NEW new
  PROVE  /\ Filled(f, v, new).values \in Seq(Values[n])
         /\ Filled(f, v, new).values # << >>
         /\ Len(Filled(f, v, new).values) = Len(f.values) + 1
         /\ (told ++ Pending(f, n)) ++ x = told ++ FrameText(Filled(f, v, new), n)
<1> DEFINE V == Values[n]
           texts == TextsOf(n, f.values)
           m == Len(f.values) + 1
           c == Comma(m)
           N == Name(f.kind)
           F == FrameText(f, n)
<1>1. /\ Filled(f, v, new).values = Append(f.values, v) /\ Filled(f, v, new).kind = f.kind
      /\ Append(f.values, v) \in Seq(V) /\ Append(f.values, v) # << >>
      /\ Len(Append(f.values, v)) = Len(f.values) + 1
  <2> HIDE DEF V
  <2>1. f.values \in Seq(V) /\ v \in V
    BY DEF V
  <2> QED
    BY <2>1 DEF Filled
<1>2. /\ texts \in Seq(Parts) /\ Len(texts) + 1 = m
      /\ TextsOf(n, Append(f.values, v)) = Append(texts, JsonText[n][v])
  BY TextsAre, TextsOfSteps
<1>3. /\ c \in Parts /\ N \in Parts /\ Item \in Parts /\ F \in Parts
  BY Punctuation, FrameTexts
<1>4. Item ++ x \in Parts /\ Item ++ N \in Parts /\ c ++ (Item ++ N) \in Parts
  <2> HIDE DEF c, N
  <2> QED
    BY <1>3, Monoid
<1>5. FrameText(Filled(f, v, new), n) = F ++ Element(f.kind, m, Item ++ x)
  <2>1. Begun(f.kind, Append(texts, Item ++ x))
        = Begun(f.kind, texts) ++ Element(f.kind, Len(texts) + 1, Item ++ x)
    <3> HIDE DEF texts
    <3> QED
      BY <1>2, <1>4, BegunSteps
  <2>2. FrameText(Filled(f, v, new), n) = Begun(f.kind, Append(texts, Item ++ x))
    <3> HIDE DEF texts
    <3> QED
      BY <1>1, <1>2 DEF FrameText
  <2> QED
    BY <1>2, <2>1, <2>2 DEF FrameText
<1>6. Element(f.kind, m, Item ++ x) = c ++ (N ++ (Item ++ x))
  BY DEF Element
<1>7. Pending(f, n) = F ++ (c ++ (Item ++ N))
  BY DEF Pending
<1> HIDE DEF c, N, F, m, texts
<1>8. N ++ (Item ++ x) = (Item ++ N) ++ x
  BY <1>3, Swap
<1>9. c ++ ((Item ++ N) ++ x) = (c ++ (Item ++ N)) ++ x
  BY <1>3, <1>4, Regroup
<1>10. F ++ ((c ++ (Item ++ N)) ++ x) = (F ++ (c ++ (Item ++ N))) ++ x
  BY <1>3, <1>4, Regroup
<1>11. told ++ ((F ++ (c ++ (Item ++ N))) ++ x) = (told ++ (F ++ (c ++ (Item ++ N)))) ++ x
  <2>1. F ++ (c ++ (Item ++ N)) \in Parts
    BY <1>3, <1>4, Monoid
  <2> QED
    BY <2>1, Regroup
<1> QED
  BY <1>1, <1>5, <1>6, <1>7, <1>8, <1>9, <1>10, <1>11

\* A list with values of level n adds what is pending in it.
Adds(f, n, before, after) ==
  n \in 0 .. NestingLimit /\ Waits(f, n) /\ after = before ++ Pending(f, n)

\* The lists of s, the last of which was begun first, have told a text: g[n] is
\* what list n and those behind it have told.
Tells(s, told) ==
  \E g \in [1 .. Len(s) + 1 -> Parts] :
    /\ g[Len(s) + 1] = Nothing /\ g[1] = told
    /\ \A n \in 1 .. Len(s) : Adds(s[n], NestingLimit - (Len(s) - n), g[n + 1], g[n])

\* No lists tell nothing.
LEMMA TellsNothing ==
  /\ Tells(<< >>, Nothing)
  /\ \A told : Tells(<< >>, told) => told = Nothing
<1>1. Len(<< >>) = 0 /\ 1 .. Len(<< >>) = {} /\ Len(<< >>) + 1 = 1 /\ 1 \in 1 .. 1
  OBVIOUS
<1> DEFINE g == [n \in 1 .. 1 |-> Nothing]
<1>2. g \in [1 .. 1 -> Parts] /\ g[1] = Nothing
  BY Monoid
<1> HIDE DEF g
<1>3. Tells(<< >>, Nothing)
  BY <1>1, <1>2 DEF Tells
<1>4. ASSUME NEW told, Tells(<< >>, told) PROVE told = Nothing
  BY <1>1, <1>4 DEF Tells
<1> QED
  BY <1>3, <1>4

\* What lists tell is a part of a text.
LEMMA TellsType ==
  ASSUME NEW S, NEW s \in Seq(S), NEW told, Tells(s, told)
  PROVE  told \in Parts
<1>1. 1 \in 1 .. Len(s) + 1
  OBVIOUS
<1> QED
  BY <1>1 DEF Tells

\* A list that is begun in front of s tells what is pending in it.
LEMMA TellsPush ==
  ASSUME NEW S, NEW s \in Seq(S), NEW told, Tells(s, told),
         Len(s) \in 0 .. NestingLimit, NEW f, Waits(f, NestingLimit - Len(s))
  PROVE  Tells(<<f>> \o s, told ++ Pending(f, NestingLimit - Len(s)))
<1> DEFINE t == <<f>> \o s
           N == Len(s)
           m == NestingLimit - N
           after == told ++ Pending(f, m)
<1>1. /\ Len(t) = N + 1 /\ t[1] = f /\ N \in Nat
      /\ \A n \in 1 .. N : t[n + 1] = s[n]
  BY SequenceFacts
<1>2. PICK g \in [1 .. N + 1 -> Parts] :
        /\ g[N + 1] = Nothing /\ g[1] = told
        /\ \A n \in 1 .. N : Adds(s[n], NestingLimit - (N - n), g[n + 1], g[n])
  BY DEF Tells
<1>3. m \in 0 .. NestingLimit /\ NestingLimit \in Nat
  BY ParserAssumption
<1>4. after \in Parts
  <2>1. told \in Parts
    BY TellsType
  <2>2. f.values \in Seq(Values[m])
    BY DEF Waits
  <2> HIDE DEF m
  <2>3. Pending(f, m) \in Parts
    BY <1>3, <2>2, FrameTexts
  <2> QED
    BY <2>1, <2>3, Monoid
<1> HIDE DEF t
<1> DEFINE k == [n \in 1 .. Len(t) + 1 |-> IF n = 1 THEN after ELSE g[n - 1]]
<1>5. k \in [1 .. Len(t) + 1 -> Parts]
  <2>1. ASSUME NEW n \in 1 .. Len(t) + 1, n # 1 PROVE g[n - 1] \in Parts
    <3>1. n - 1 \in 1 .. N + 1
      BY <1>1, <2>1
    <3> QED
      BY <3>1
  <2> HIDE DEF after
  <2> QED
    BY <1>4, <2>1
<1>6. k[Len(t) + 1] = Nothing /\ k[1] = after
  <2>1. Len(t) + 1 \in 1 .. Len(t) + 1 /\ Len(t) + 1 # 1 /\ (Len(t) + 1) - 1 = N + 1
        /\ 1 \in 1 .. Len(t) + 1
    BY <1>1
  <2> HIDE DEF after
  <2> QED
    BY <1>2, <2>1
<1>7. ASSUME NEW n \in 1 .. Len(t)
      PROVE  Adds(t[n], NestingLimit - (Len(t) - n), k[n + 1], k[n])
  <2>1. CASE n = 1
    <3>1. k[n] = after /\ k[n + 1] = told
      <4>1. n \in 1 .. Len(t) + 1 /\ n + 1 \in 1 .. Len(t) + 1 /\ n + 1 # 1 /\ (n + 1) - 1 = 1
        BY <1>1, <2>1
      <4> HIDE DEF after
      <4> QED
        BY <1>2, <2>1, <4>1
    <3>2. NestingLimit - (Len(t) - n) = m
      BY <1>1, <1>3, <2>1
    <3> QED
      BY <1>1, <1>3, <2>1, <3>1, <3>2 DEF Adds
  <2>2. CASE n # 1
    <3>1. /\ n - 1 \in 1 .. N /\ (n - 1) + 1 = n /\ n \in 1 .. Len(t) + 1
          /\ n + 1 \in 1 .. Len(t) + 1 /\ n + 1 # 1 /\ (n + 1) - 1 = n
      BY <1>1, <2>2
    <3>2. k[n] = g[n - 1] /\ k[n + 1] = g[(n - 1) + 1]
      <4> HIDE DEF after
      <4> QED
        BY <2>2, <3>1
    <3>3. t[n] = s[n - 1]
      BY <1>1, <3>1
    <3>4. NestingLimit - (Len(t) - n) = NestingLimit - (N - (n - 1))
      BY <1>1, <1>3
    <3> HIDE DEF k, N
    <3> QED
      BY <1>2, <3>1, <3>2, <3>3, <3>4
  <2> QED
    BY <2>1, <2>2
<1> HIDE DEF k
<1> QED
  BY <1>5, <1>6, <1>7 DEF Tells, t

\* When the list in front is complete or goes on, the others have told the rest.
LEMMA TellsPop ==
  ASSUME NEW S, NEW s \in Seq(S), s # << >>, NEW told, Tells(s, told)
  PROVE  \E before \in Parts :
           /\ Tells(Tail(s), before)
           /\ Adds(s[1], NestingLimit - (Len(s) - 1), before, told)
<1> DEFINE t == Tail(s)
           N == Len(s)
<1>1. /\ Len(t) = N - 1 /\ N \in Nat \ {0}
      /\ \A n \in 1 .. N - 1 : t[n] = s[n + 1]
  BY SequenceFacts
<1>2. PICK g \in [1 .. N + 1 -> Parts] :
        /\ g[N + 1] = Nothing /\ g[1] = told
        /\ \A n \in 1 .. N : Adds(s[n], NestingLimit - (N - n), g[n + 1], g[n])
  BY DEF Tells
<1> HIDE DEF t
<1> DEFINE k == [n \in 1 .. Len(t) + 1 |-> g[n + 1]]
<1>3. k \in [1 .. Len(t) + 1 -> Parts]
  <2>1. ASSUME NEW n \in 1 .. Len(t) + 1 PROVE g[n + 1] \in Parts
    <3>1. n + 1 \in 1 .. N + 1
      BY <1>1
    <3> QED
      BY <3>1
  <2> QED
    BY <2>1
<1>4. k[Len(t) + 1] = Nothing /\ k[1] = g[1 + 1]
  <2>1. Len(t) + 1 \in 1 .. Len(t) + 1 /\ (Len(t) + 1) + 1 = N + 1 /\ 1 \in 1 .. Len(t) + 1
    BY <1>1
  <2> QED
    BY <1>2, <2>1
<1>5. ASSUME NEW n \in 1 .. Len(t)
      PROVE  Adds(t[n], NestingLimit - (Len(t) - n), k[n + 1], k[n])
  <2>1. n + 1 \in 1 .. N /\ n \in 1 .. Len(t) + 1 /\ n + 1 \in 1 .. Len(t) + 1
    BY <1>1
  <2>2. k[n] = g[n + 1] /\ k[n + 1] = g[(n + 1) + 1] /\ t[n] = s[n + 1]
    BY <1>1, <2>1
  <2>3. Len(t) - n = N - (n + 1)
    BY <1>1
  <2> HIDE DEF k, N
  <2> QED
    BY <1>2, <2>1, <2>2, <2>3
<1>6. Tells(t, k[1])
  <2> HIDE DEF k
  <2> QED
    BY <1>3, <1>4, <1>5 DEF Tells
<1>7. k[1] \in Parts
  <2>1. 1 \in 1 .. Len(t) + 1
    BY <1>1
  <2> HIDE DEF k
  <2> QED
    BY <1>3, <2>1
<1>8. Adds(s[1], NestingLimit - (N - 1), k[1], told)
  <2>1. 1 \in 1 .. N
    BY <1>1
  <2> HIDE DEF k, N
  <2> QED
    BY <1>2, <1>4, <2>1
<1> HIDE DEF k
<1> QED
  BY <1>6, <1>7, <1>8 DEF t

-----------------------------------------------------------------------------
(* What the buffer shows.                                                   *)

\* White space adds nothing.
LEMMA SpacesAddNothing ==
  ASSUME input \in Seq(Symbol), NEW o \in 0 .. Len(input), NEW k \in o .. Len(input),
         \A n \in o + 1 .. k : input[n] \in Space
  PROVE  Shown[k] = Shown[o]
<1> DEFINE T == {j \in 0 .. k - o : Shown[o + j] = Shown[o]}
<1>1. k - o \in Nat /\ k - o \in 0 .. k - o /\ o + (k - o) = k
  OBVIOUS
<1>2. 0 \in T
  OBVIOUS
<1>3. ASSUME NEW j \in 1 .. k - o, j - 1 \in T PROVE j \in T
  <2>1. /\ o + j \in o + 1 .. k /\ o + j \in 1 .. Len(input) /\ (o + j) - 1 = o + (j - 1)
        /\ j \in 0 .. k - o
    OBVIOUS
  <2>2. Hidden(o + j)
    BY <2>1 DEF Hidden
  <2>3. Shown[o + j] = Shown[(o + j) - 1]
    BY <2>1, <2>2, ShownSteps
  <2>4. Shown[o + (j - 1)] = Shown[o]
    BY <1>3
  <2>5. Shown[o + j] = Shown[o]
    BY <2>1, <2>3, <2>4
  <2> QED
    BY <2>1, <2>5
<1>4. k - o \in T
  <2> DEFINE d == k - o
  <2> HIDE DEF T, d
  <2>1. d \in Nat /\ d \in 0 .. d /\ \A j \in 1 .. d : j - 1 \in T => j \in T
    BY <1>1, <1>3 DEF d
  <2>2. d \in T
    BY <1>2, <2>1, UpTo
  <2> QED
    BY <2>2 DEF d
<1>5. Shown[o + (k - o)] = Shown[o]
  BY <1>4
<1> QED
  BY <1>1, <1>5

\* Nothing but white space is skipped, and all of it, or all but its last symbol
\* if the buffer ends with it.
LEMMA Skipped ==
  ASSUME input \in Seq(Symbol), NEW o \in 0 .. Len(input)
  PROVE  LET k == buffer_skip_whitespace(o)
         IN  /\ k \in 0 .. Len(input) /\ Shown[k] = Shown[o]
             /\ SymbolAt(k, 0) \in Space =>
                  k = Len(input) - 1 /\ Shown[Len(input)] = Shown[k]
<1> DEFINE text == {n \in o .. Len(input) - 1 : input[n + 1] \notin Space}
           first == CHOOSE n \in text : \A m \in text : n <= m
           k == buffer_skip_whitespace(o)
<1>1. Len(input) \in Nat /\ text \subseteq Nat /\ text \subseteq o .. Len(input) - 1
  OBVIOUS
<1>2. k = IF o >= Len(input) THEN o ELSE IF text = {} THEN Len(input) - 1 ELSE first
  BY DEF buffer_skip_whitespace
<1> HIDE DEF k
<1>3. CASE o >= Len(input)
  <2>1. k = o /\ ~(o + 0 < Len(input))
    BY <1>1, <1>2, <1>3
  <2>2. SymbolAt(k, 0) \notin Space
    BY <2>1 DEF SymbolAt, Space
  <2> QED
    BY <2>1, <2>2 DEF k
<1>4. CASE o < Len(input) /\ text = {}
  <2>1. k = Len(input) - 1 /\ k \in 0 .. Len(input) /\ k \in o .. Len(input)
    BY <1>1, <1>2, <1>4
  <2>2. ASSUME NEW n \in o + 1 .. Len(input) PROVE input[n] \in Space
    <3>1. n - 1 \in o .. Len(input) - 1 /\ (n - 1) + 1 = n
      OBVIOUS
    <3>2. n - 1 \notin text
      BY <1>4
    <3> QED
      BY <3>1, <3>2
  <2>3. \A n \in o + 1 .. k : n \in o + 1 .. Len(input)
    BY <1>1, <2>1
  <2>4. Shown[k] = Shown[o]
    BY <2>1, <2>2, <2>3, SpacesAddNothing
  <2>5. Len(input) \in o .. Len(input)
    BY <1>1
  <2>6. Shown[Len(input)] = Shown[o]
    BY <2>2, <2>5, SpacesAddNothing
  <2> QED
    BY <2>1, <2>4, <2>6 DEF k
<1>5. CASE o < Len(input) /\ text # {}
  <2>1. k \in text /\ \A m \in text : k <= m
    <3>1. \E n \in text : \A m \in text : n <= m
      <4> HIDE DEF text
      <4> QED
        BY <1>1, <1>5, LeastNat
    <3>2. k = first
      <4>1. ~(o >= Len(input)) /\ text # {}
        BY <1>1, <1>5
      <4> HIDE DEF text, first
      <4> QED
        BY <1>2, <4>1
    <3> HIDE DEF text
    <3> QED
      BY <3>1, <3>2
  <2>2. /\ k \in o .. Len(input) - 1 /\ k \in o .. Len(input) /\ k \in 0 .. Len(input)
        /\ input[k + 1] \notin Space /\ k + 0 < Len(input) /\ k + 0 + 1 = k + 1
    BY <1>1, <2>1
  <2>3. ASSUME NEW n \in o + 1 .. k PROVE input[n] \in Space
    <3>1. n - 1 \in o .. Len(input) - 1 /\ (n - 1) + 1 = n /\ ~(k <= n - 1)
      BY <1>1, <2>2
    <3>2. n - 1 \notin text
      <4> HIDE DEF text
      <4> QED
        BY <2>1, <3>1
    <3> QED
      BY <3>1, <3>2
  <2>4. Shown[k] = Shown[o]
    BY <2>2, <2>3, SpacesAddNothing
  <2>5. SymbolAt(k, 0) \notin Space
    BY <2>2 DEF SymbolAt
  <2> QED
    BY <2>2, <2>4, <2>5 DEF k
<1> QED
  BY <1>1, <1>3, <1>4, <1>5

\* A text with a number of blocks.
Said(o, owned) == Part(Shown[o], owned)

\* It is a part, and a block more is an item more.
LEMMA SaidItem ==
  ASSUME input \in Seq(Symbol), NEW o \in 0 .. Len(input), NEW owned \in Nat
  PROVE  Said(o, owned) \in Parts /\ Said(o, owned + 1) = Said(o, owned) ++ Item
<1>1. Shown[o] \in Seq(Symbol)
  BY ShownSteps
<1>2. Shown[o] \o << >> = Shown[o]
  BY <1>1
<1>3. Said(o, owned) \in Parts
  BY <1>1 DEF Said, Part, Parts
<1>4. Said(o, owned + 1) = Said(o, owned) ++ Item
  BY <1>2 DEF Said, Item, Part, ++
<1> QED
  BY <1>3, <1>4

\* A symbol that is no white space and no byte order mark adds itself.
LEMMA SaidSymbol ==
  ASSUME input \in Seq(Symbol), NEW o \in 0 .. Len(input), NEW c,
         c \notin Space \cup {"bom", "end"}, SymbolAt(o, 0) = c
  PROVE  /\ o + 1 \in 0 .. Len(input) /\ c \in Symbol
         /\ Shown[o + 1] = Append(Shown[o], c)
         /\ \A owned, new \in Nat : Said(o + 1, owned + new) = Said(o, owned) ++ Part(<<c>>, new)
<1>1. o + 0 < Len(input)
  BY InBuffer
<1>2. /\ Len(input) \in Nat /\ o + 1 \in 0 .. Len(input) /\ o + 1 \in 1 .. Len(input)
      /\ o + 0 + 1 = o + 1 /\ (o + 1) - 1 = o
  BY <1>1
<1>3. input[o + 1] = c
  BY <1>1, <1>2 DEF SymbolAt
<1>4. c \in Symbol
  BY <1>2, <1>3
<1>5. ~Hidden(o + 1)
  <2>1. ASSUME o + 1 = 1 /\ Marked PROVE FALSE
    BY <1>3, <2>1 DEF Marked
  <2> QED
    BY <1>3, <2>1 DEF Hidden
<1>6. Shown[o + 1] = Append(Shown[o], c)
  BY <1>2, <1>3, <1>5, ShownSteps
<1>7. Shown[o] \in Seq(Symbol)
  BY ShownSteps
<1>8. Append(Shown[o], c) = Shown[o] \o <<c>>
  BY <1>4, <1>7
<1>9. ASSUME NEW owned \in Nat, NEW new \in Nat
      PROVE  Said(o + 1, owned + new) = Said(o, owned) ++ Part(<<c>>, new)
  BY <1>6, <1>8 DEF Said, Part, ++
<1> QED
  BY <1>2, <1>4, <1>6, <1>9

\* A byte order mark that the parser skips does not show.
LEMMA SaidNothing ==
  ASSUME input \in Seq(Symbol)
  PROVE  skip_utf8_bom \in 0 .. Len(input) /\ Shown[skip_utf8_bom] = << >>
<1>1. Len(input) \in Nat
  OBVIOUS
<1>2. CASE skip_utf8_bom = 0
  BY <1>1, <1>2, ShownSteps
<1>3. CASE skip_utf8_bom # 0
  <2>1. /\ skip_utf8_bom = 1 /\ SymbolAt(0, 0) = "bom"
        /\ Len(input) > 2 \/ (Len(input) = 2 /\ bytes[input[2]] > 1)
    BY <1>3 DEF skip_utf8_bom
  <2>2. Len(input) > 1 /\ 1 \in 1 .. Len(input) /\ 1 \in 0 .. Len(input) /\ 0 + 0 < Len(input)
    BY <1>1, <2>1
  <2>3. input[1] = "bom"
    BY <2>1, <2>2 DEF SymbolAt
  <2>4. Hidden(1)
    BY <2>1, <2>2, <2>3 DEF Hidden, Marked
  <2>5. Shown[1] = Shown[1 - 1] /\ 1 - 1 = 0
    BY <2>2, <2>4, ShownSteps
  <2> QED
    BY <2>1, <2>2, <2>5, ShownSteps
<1> QED
  BY <1>2, <1>3

-----------------------------------------------------------------------------
(* The invariant of the text: what the buffer shows in front of the offset,  *)
(* with the blocks that are allocated, is what the lists on the stack tell.  *)

\* Where the parser may be in the list f, with values of level n, if the others
\* have told a text and a text is shown: in front of a value, behind one, in
\* front of the next element, and in front of a name.
AtValue(f, n, told, said) == Waits(f, n) /\ said = told ++ Pending(f, n)
AtNext(f, n, told, said) ==
  /\ f.values \in Seq(Values[n]) /\ f.values # << >> /\ (f.kind = "Root" => Len(f.values) = 1)
  /\ said = told ++ FrameText(f, n)
AtElement(f, n, told, said) ==
  /\ f.values \in Seq(Values[n]) /\ f.kind # "Root"
  /\ said = told ++ (FrameText(f, n) ++ Comma(Len(f.values) + 1))
AtName(f, n, told, said) ==
  /\ f.values \in Seq(Values[n]) /\ f.kind = "Object"
  /\ said = told ++ ((FrameText(f, n) ++ Comma(Len(f.values) + 1)) ++ Item)

\* What the lists below the top have told, by where the parser is.
Says(told) ==
  /\ pc = "value" => AtValue(Top, NestingLimit - depth, told, Said(offset, blocks))
  /\ pc \in {"next", "done"} => AtNext(Top, NestingLimit - depth, told, Said(offset, blocks))
  /\ pc = "element" => AtElement(Top, NestingLimit - depth, told, Said(offset + 1, blocks))
  /\ pc = "name" => AtName(Top, NestingLimit - depth, told, Said(offset, blocks))

TextInv ==
  /\ Building => \E told \in Parts : Tells(Tail(stack), told) /\ Says(told)
  /\ pc = "done" =>
       /\ Top.kind = "Root" /\ position = offset
       /\ require_null_terminated =>
            Shown[Len(input)] = Shown[position] /\ input[Len(input)] = "NUL"

\* It holds where the parser gets to.
LEMMA Reached ==
  ASSUME UNCHANGED input, NEW told \in Parts, Tells(Tail(stack'), told),
         \/ /\ pc' = "value"
            /\ AtValue(stack'[1], NestingLimit - depth', told, Said(offset', blocks'))
         \/ /\ pc' = "next"
            /\ AtNext(stack'[1], NestingLimit - depth', told, Said(offset', blocks'))
         \/ /\ pc' = "element"
            /\ AtElement(stack'[1], NestingLimit - depth', told, Said(offset' + 1, blocks'))
         \/ /\ pc' = "name"
            /\ AtName(stack'[1], NestingLimit - depth', told, Said(offset', blocks'))
  PROVE  TextInv'
<1>1. Shown' = Shown
  BY ShownStays
<1>2. /\ Said(offset, blocks)' = Said(offset', blocks')
      /\ Said(offset + 1, blocks)' = Said(offset' + 1, blocks')
  BY <1>1 DEF Said
<1>3. Says(told)'
  BY <1>2 DEF Says, Top
<1>4. pc' # "done"
  OBVIOUS
<1> QED
  BY <1>3, <1>4 DEF TextInv

\* When the parser fails, there is nothing left to say.
LEMMA FailedText ==
  ASSUME pc' \in {"fail", "failed"}
  PROVE  TextInv'
BY DEF TextInv, Building

\* What is known where the parser is at work.
LEMMA Known ==
  ASSUME IInv, TextInv, Building
  PROVE  /\ NestingLimit - depth \in 0 .. NestingLimit
         /\ depth = Len(stack) - 1 /\ Len(stack) \in Nat
         /\ \E told \in Parts : Tells(Tail(stack), told) /\ Says(told)
<1>1. depth \in 0 .. NestingLimit /\ depth = Len(stack) - 1 /\ Len(stack) \in Nat
  BY BeforeValue, Pop
<1>2. NestingLimit - depth \in 0 .. NestingLimit
  BY <1>1, ParserAssumption
<1> QED
  BY <1>1, <1>2 DEF TextInv

\* A value that is parsed, for the list on top of frames.
LEMMA ParsedTextStep ==
  ASSUME NEW frames, IsStack(frames), frames # << >>,
         NEW n \in 0 .. NestingLimit, n = NestingLimit - depth',
         NEW told \in Parts, Tells(Tail(frames), told), Waits(frames[1], n),
         NEW v \in Values[n], NEW x \in Parts, JsonText[n][v] = Item ++ x,
         NEW o, NEW new, Parsed(v, o, frames, new),
         Said(o, blocks') = (told ++ Pending(frames[1], n)) ++ x
  PROVE  TextInv'
<1> DEFINE f == Filled(frames[1], v, new)
<1>1. /\ UNCHANGED input /\ offset' = o /\ pc' = "next" /\ stack' = <<f>> \o Tail(frames)
  BY DEF Parsed, call
<1>2. PICK S : frames \in Seq(S)
  BY DEF IsStack
<1>3. Tail(frames) \in Seq(S) /\ stack'[1] = f /\ Tail(stack') = Tail(frames)
  <2> DEFINE rest == Tail(frames)
  <2>1. rest \in Seq(S)
    BY <1>2
  <2> HIDE DEF f, rest
  <2>2. rest \in Seq(S \cup {f}) /\ <<f>> \in Seq(S \cup {f})
    BY <2>1
  <2>3. (<<f>> \o rest)[1] = f /\ Tail(<<f>> \o rest) = rest
    BY <2>2
  <2> QED
    BY <1>1, <2>1, <2>3 DEF rest
<1>4. f.kind = frames[1].kind
  BY DEF Filled
<1>5. /\ f.values \in Seq(Values[n]) /\ f.values # << >>
      /\ Len(f.values) = Len(frames[1].values) + 1
      /\ Said(o, blocks') = told ++ FrameText(f, n)
  BY ValueFits DEF Waits
<1>6. f.kind = "Root" => Len(f.values) = 1
  <2>1. f.kind = "Root" => frames[1].values = << >>
    BY <1>4 DEF Waits
  <2>2. Len(<< >>) + 1 = 1
    OBVIOUS
  <2> HIDE DEF f
  <2> QED
    BY <1>5, <2>1, <2>2
<1> HIDE DEF f
<1>7. AtNext(stack'[1], NestingLimit - depth', told, Said(offset', blocks'))
  BY <1>1, <1>3, <1>5, <1>6 DEF AtNext
<1> QED
  BY <1>1, <1>3, <1>7, Reached

\* In front of a value.
LEMMA InFrontOfValue ==
  ASSUME IInv, TextInv, pc = "value"
  PROVE  /\ Building /\ input \in Seq(Symbol) /\ offset \in 0 .. Len(input) /\ blocks \in Nat
         /\ IsStack(stack) /\ stack # << >> /\ Top = stack[1]
         /\ NestingLimit - depth \in 0 .. NestingLimit
         /\ \E told \in Parts :
              /\ Tells(Tail(stack), told)
              /\ AtValue(Top, NestingLimit - depth, told, Said(offset, blocks))
<1>1. Building
  BY DEF Building
<1> QED
  BY <1>1, BeforeValue, Known DEF Says, Top

\* A number or a literal.
LEMMA NumberTextStep ==
  ASSUME IInv, TextInv, parse_number
  PROVE  TextInv'
<1>1. pc = "value" /\ SymbolAt(offset, 0) = "n"
  BY DEF parse_number
<1>2. CASE StarveAt(offset)
  BY <1>2, FailedText DEF StarveAt
<1>3. CASE Parsed(Value("n", << >>), offset + 1, stack, 0) /\ UNCHANGED <<depth, blocks>>
  <2> DEFINE n == NestingLimit - depth
             x == Part(<<"n">>, 0)
  <2>1. PICK told \in Parts : Tells(Tail(stack), told) /\ AtValue(Top, n, told, Said(offset, blocks))
    BY <1>1, InFrontOfValue
  <2>2. n \in 0 .. NestingLimit /\ n = NestingLimit - depth'
    BY <1>1, <1>3, InFrontOfValue
  <2>3. x \in Parts
    BY Punctuation DEF Symbol
  <2>4. Said(offset + 1, blocks') = Said(offset, blocks) ++ x
    <3>1. blocks' = blocks + 0 /\ blocks \in Nat /\ 0 \in Nat
      BY <1>1, <1>3, InFrontOfValue
    <3>2. "n" \notin Space \cup {"bom", "end"}
      BY DEF Space
    <3> QED
      BY <1>1, <3>1, <3>2, InFrontOfValue, SaidSymbol
  <2> HIDE DEF n, x
  <2>5. Said(offset, blocks) = told ++ Pending(Top, n) /\ Waits(Top, n)
    BY <2>1 DEF AtValue
  <2>6. JsonText[n][Value("n", << >>)] = Item ++ x /\ Value("n", << >>) \in Values[n]
    BY <2>2, TextsAre, ValuesAre DEF x
  <2> QED
    BY <1>1, <1>3, <2>1, <2>2, <2>3, <2>4, <2>5, <2>6, InFrontOfValue, ParsedTextStep
<1> QED
  BY <1>2, <1>3 DEF parse_number

\* A string.
LEMMA StringTextStep ==
  ASSUME IInv, TextInv, parse_string
  PROVE  TextInv'
<1>1. pc = "value"
  BY DEF parse_string
<1>2. CASE StarveAt(offset + 1) \/ FailAt(offset + 1)
  BY <1>2, FailedText DEF StarveAt, FailAt
<1>3. CASE /\ SymbolAt(offset, 0) = "s"
           /\ Parsed(Value("s", << >>), offset + 1, stack, 1)
           /\ blocks' = blocks + 1 /\ UNCHANGED depth
  <2> DEFINE n == NestingLimit - depth
             x == Part(<<"s">>, 1)
  <2>1. PICK told \in Parts : Tells(Tail(stack), told) /\ AtValue(Top, n, told, Said(offset, blocks))
    BY <1>1, InFrontOfValue
  <2>2. n \in 0 .. NestingLimit /\ n = NestingLimit - depth'
    BY <1>1, <1>3, InFrontOfValue
  <2>3. x \in Parts
    BY Punctuation DEF Symbol
  <2>4. Said(offset + 1, blocks') = Said(offset, blocks) ++ x
    <3>1. blocks' = blocks + 1 /\ blocks \in Nat /\ 1 \in Nat
      BY <1>1, <1>3, InFrontOfValue
    <3>2. "s" \notin Space \cup {"bom", "end"}
      BY DEF Space
    <3> QED
      BY <1>1, <1>3, <3>1, <3>2, InFrontOfValue, SaidSymbol
  <2> HIDE DEF n, x
  <2>5. Said(offset, blocks) = told ++ Pending(Top, n) /\ Waits(Top, n)
    BY <2>1 DEF AtValue
  <2>6. JsonText[n][Value("s", << >>)] = Item ++ x /\ Value("s", << >>) \in Values[n]
    BY <2>2, TextsAre, ValuesAre DEF x
  <2> QED
    BY <1>1, <1>3, <2>1, <2>2, <2>3, <2>4, <2>5, <2>6, InFrontOfValue, ParsedTextStep
<1> QED
  BY <1>2, <1>3 DEF parse_string

\* What a list begins with.
LEMMA OpeningIs ==
  ASSUME NEW kind \in {"Array", "Object"}
  PROVE  /\ Opening(kind) = Part(<<Opens(kind)>>, 0)
         /\ Opens(kind) \notin Space \cup {"bom", "end"}
         /\ Closes(kind) \notin Space \cup {"bom", "end"}
         /\ Part(<<Closes(kind)>>, 0) \in Parts
<1>1. Closes(kind) \in Symbol
  BY DEF Closes, Symbol
<1>2. Part(<<Closes(kind)>>, 0) \in Parts
  BY <1>1, Punctuation
<1> QED
  BY <1>2 DEF Opening, Opens, Closes, Space

\* An empty list, and the beginning of another.
LEMMA OpenListTextStep ==
  ASSUME IInv, TextInv, OpenList
  PROVE  TextInv'
<1> DEFINE inside == buffer_skip_whitespace(offset + 1)
           n == NestingLimit - depth
<1>1. PICK kind \in {"Array", "Object"} :
        /\ SymbolAt(offset, 0) = Opens(kind)
        /\ IF depth >= NestingLimit THEN FailAt(offset)
           ELSE IF SymbolAt(inside, 0) = Closes(kind)
           THEN Parsed(Value(kind, << >>), inside + 1, stack, 0)
                /\ UNCHANGED <<depth, blocks>>
           ELSE IF SymbolAt(inside, 0) = "end"
           THEN /\ offset' = inside - 1 /\ depth' = depth + 1 /\ pc' = "fail"
                /\ UNCHANGED <<call, stack, blocks, starved, position>>
           ELSE /\ offset' = inside - 1 /\ depth' = depth + 1 /\ pc' = "element"
                /\ stack' = <<Frame(kind, 0)>> \o stack
                /\ UNCHANGED <<call, blocks, starved, position>>
  BY DEF OpenList
<1>2. pc = "value"
  BY DEF OpenList
<1>3. PICK told \in Parts : Tells(Tail(stack), told) /\ AtValue(Top, n, told, Said(offset, blocks))
  BY <1>2, InFrontOfValue
<1>4. /\ input \in Seq(Symbol) /\ offset \in 0 .. Len(input) /\ blocks \in Nat
      /\ n \in 0 .. NestingLimit
  BY <1>2, InFrontOfValue
<1>5. /\ offset + 1 \in 0 .. Len(input)
      /\ Said(offset + 1, blocks) = Said(offset, blocks) ++ Opening(kind)
  <2>1. \A owned, new \in Nat :
          Said(offset + 1, owned + new) = Said(offset, owned) ++ Part(<<Opens(kind)>>, new)
    BY <1>1, <1>4, OpeningIs, SaidSymbol
  <2>2. blocks + 0 = blocks /\ 0 \in Nat
    BY <1>4
  <2>3. Said(offset + 1, blocks + 0) = Said(offset, blocks) ++ Part(<<Opens(kind)>>, 0)
    BY <1>4, <2>1, <2>2
  <2>4. offset + 1 \in 0 .. Len(input)
    BY <1>1, <1>4, OpeningIs, SaidSymbol
  <2> QED
    BY <2>2, <2>3, <2>4, OpeningIs
<1>6. inside \in 0 .. Len(input) /\ Said(inside, blocks) = Said(offset + 1, blocks)
  BY <1>4, <1>5, Skipped DEF Said
<1> HIDE DEF inside, n
<1>7. Said(offset, blocks) = told ++ Pending(Top, n) /\ Waits(Top, n)
  BY <1>3 DEF AtValue
<1>8. CASE depth >= NestingLimit
  BY <1>1, <1>8, FailedText DEF FailAt
<1>9. ASSUME depth < NestingLimit PROVE n # 0 /\ n - 1 \in 0 .. NestingLimit
  BY <1>2, <1>4, <1>9, BeforeValue, ParserAssumption DEF n, Building
<1>10. CASE ~(depth >= NestingLimit) /\ SymbolAt(inside, 0) = Closes(kind)
  <2>1. Parsed(Value(kind, << >>), inside + 1, stack, 0) /\ UNCHANGED <<depth, blocks>>
    BY <1>1, <1>10
  <2>2. n # 0
    <3>1. depth < NestingLimit
      BY <1>2, <1>10, BeforeValue, ParserAssumption DEF Building
    <3> QED
      BY <1>9, <3>1
  <2> DEFINE close == Part(<<Closes(kind)>>, 0)
             x == Opening(kind) ++ close
  <2>3. /\ Value(kind, << >>) \in Values[n]
        /\ JsonText[n][Value(kind, << >>)] = Item ++ x
    <3>1. << >> \in Seq(Values[n - 1])
      OBVIOUS
    <3>2. Value(kind, << >>) \in Values[n]
      BY <1>4, <2>2, <3>1, ValuesAre
    <3>3. TextsOf(n - 1, << >>) = << >>
      BY DEF TextsOf, TextsBy
    <3>4. JsonText[n][Value(kind, << >>)] = Item ++ (Begun(kind, TextsOf(n - 1, << >>)) ++ close)
      BY <1>4, <2>2, <3>1, TextsAre
    <3>5. Begun(kind, << >>) = Opening(kind)
      BY BegunSteps
    <3> QED
      BY <3>2, <3>3, <3>4, <3>5
  <2>4. Said(inside + 1, blocks) = Said(inside, blocks) ++ close
    <3>1. \A owned, new \in Nat :
            Said(inside + 1, owned + new) = Said(inside, owned) ++ Part(<<Closes(kind)>>, new)
      BY <1>4, <1>6, <1>10, OpeningIs, SaidSymbol
    <3>2. blocks + 0 = blocks /\ 0 \in Nat
      BY <1>4
    <3>3. Said(inside + 1, blocks + 0) = Said(inside, blocks) ++ Part(<<Closes(kind)>>, 0)
      BY <1>4, <3>1, <3>2
    <3> QED
      BY <3>2, <3>3
  <2>5. close \in Parts /\ Opening(kind) \in Parts
    BY OpeningIs, Punctuation
  <2> HIDE DEF close
  <2>6. x \in Parts
    BY <2>5, Monoid
  <2>7. Said(inside + 1, blocks') = (told ++ Pending(Top, n)) ++ x
    <3>1. Said(offset, blocks) \in Parts
      BY <1>4, SaidItem
    <3>2. (Said(offset, blocks) ++ Opening(kind)) ++ close = Said(offset, blocks) ++ x
      BY <2>5, <3>1, Regroup
    <3> QED
      BY <1>5, <1>6, <1>7, <2>1, <2>4, <3>2
  <2> HIDE DEF x
  <2>8. n = NestingLimit - depth' /\ IsStack(stack) /\ stack # << >> /\ Top = stack[1]
    BY <1>2, <2>1, InFrontOfValue DEF n
  <2> QED
    BY <1>3, <1>4, <1>7, <2>1, <2>3, <2>6, <2>7, <2>8, ParsedTextStep
<1>11. CASE /\ ~(depth >= NestingLimit) /\ SymbolAt(inside, 0) # Closes(kind)
            /\ SymbolAt(inside, 0) = "end"
  BY <1>1, <1>11, FailedText
<1>12. CASE /\ ~(depth >= NestingLimit) /\ SymbolAt(inside, 0) # Closes(kind)
            /\ SymbolAt(inside, 0) # "end"
  <2> DEFINE f == Frame(kind, 0)
  <2>1. /\ offset' = inside - 1 /\ depth' = depth + 1 /\ pc' = "element"
        /\ stack' = <<f>> \o stack /\ UNCHANGED <<input, blocks>>
    BY <1>1, <1>12 DEF call
  <2>2. depth = Len(stack) - 1 /\ Len(stack) \in Nat /\ depth < NestingLimit /\ depth \in Nat
    BY <1>2, <1>12, Known, BeforeValue, ParserAssumption DEF Building
  <2>3. n - 1 \in 0 .. NestingLimit /\ n - 1 = NestingLimit - depth'
    <3>1. n - 1 \in 0 .. NestingLimit
      BY <1>9, <2>2
    <3>2. n - 1 = NestingLimit - (depth + 1)
      BY <2>2, ParserAssumption DEF n
    <3> QED
      BY <2>1, <3>1, <3>2
  <2>4. PICK S : stack \in Seq(S)
    BY <1>2, InFrontOfValue DEF IsStack
  <2>5. stack'[1] = f /\ Tail(stack') = stack
    <3> HIDE DEF f
    <3>1. stack \in Seq(S \cup {f}) /\ <<f>> \in Seq(S \cup {f})
      BY <2>4
    <3> QED
      BY <2>1, <3>1
  <2>6. PICK more \in Parts : more = told ++ Pending(Top, n)
    <3>1. Pending(Top, n) \in Parts
      BY <1>4, <1>7, FrameTexts DEF Waits
    <3> QED
      BY <3>1, Monoid
  <2>7. Tells(stack, more)
    <3> DEFINE rest == Tail(stack)
    <3>1. /\ rest \in Seq(S) /\ Len(rest) = Len(stack) - 1 /\ stack # << >>
          /\ stack = <<Top>> \o rest
      <4>1. stack # << >> /\ Top = stack[1]
        BY <1>2, InFrontOfValue
      <4> QED
        BY <2>4, <4>1
    <3>2. n = NestingLimit - Len(rest) /\ Len(rest) \in 0 .. NestingLimit
      <4> HIDE DEF rest
      <4> QED
        BY <2>2, <3>1, ParserAssumption DEF n
    <3> HIDE DEF rest, n
    <3>3. Tells(rest, told)
      BY <1>3 DEF rest
    <3>4. Waits(Top, NestingLimit - Len(rest))
      BY <1>7, <3>2
    <3>5. Tells(<<Top>> \o rest, told ++ Pending(Top, NestingLimit - Len(rest)))
      BY <3>1, <3>2, <3>3, <3>4, TellsPush
    <3> QED
      BY <2>6, <3>1, <3>2, <3>5
  <2>8. f.kind = kind /\ f.values = << >>
    BY DEF Frame
  <2> HIDE DEF f
  <2>9. /\ f.values \in Seq(Values[n - 1])
        /\ FrameText(f, n - 1) ++ Comma(Len(f.values) + 1) = Opening(kind)
    <3>1. FrameText(f, n - 1) = Opening(kind)
      <4>1. TextsOf(n - 1, << >>) = << >>
        BY DEF TextsOf, TextsBy
      <4>2. Begun(kind, << >>) = Opening(kind)
        BY BegunSteps
      <4> QED
        BY <2>8, <4>1, <4>2 DEF FrameText
    <3>2. Comma(Len(f.values) + 1) = Nothing
      <4>1. Len(<< >>) + 1 = 1
        OBVIOUS
      <4> QED
        BY <2>8, <4>1 DEF Comma
    <3>3. Opening(kind) ++ Nothing = Opening(kind)
      <4>1. Opening(kind) \in Parts
        BY Punctuation
      <4> QED
        BY <4>1, Monoid
    <3>4. << >> \in Seq(Values[n - 1])
      OBVIOUS
    <3> QED
      BY <2>8, <3>1, <3>2, <3>3, <3>4
  <2>10. Said(offset' + 1, blocks') = more ++ Opening(kind)
    <3>1. (inside - 1) + 1 = inside
      BY <1>6
    <3> QED
      BY <1>5, <1>6, <1>7, <2>1, <2>6, <3>1
  <2>11. AtElement(stack'[1], NestingLimit - depth', more, Said(offset' + 1, blocks'))
    <3> DEFINE m == n - 1
    <3>1. m = NestingLimit - depth'
      BY <2>3
    <3>2. AtElement(f, m, more, Said(offset' + 1, blocks'))
      BY <2>8, <2>9, <2>10 DEF AtElement
    <3> HIDE DEF m
    <3> QED
      BY <2>5, <3>1, <3>2
  <2> QED
    BY <2>1, <2>5, <2>7, <2>11, Reached
<1> QED
  BY <1>8, <1>10, <1>11, <1>12

\* The list on top with one more block, and perhaps one more value, tells the
\* same of its kind; the others stay.
LEMMA TopStays ==
  ASSUME IInv, Building
  PROVE  LET f == [Top EXCEPT !.owned = @ + 1]
         IN  /\ f.kind = Top.kind /\ f.values = Top.values
             /\ (<<f>> \o Tail(stack))[1] = f /\ Tail(<<f>> \o Tail(stack)) = Tail(stack)
             /\ Top.kind \in {"Root", "Array", "Object"}
<1> DEFINE f == [Top EXCEPT !.owned = @ + 1]
           rest == Tail(stack)
<1>1. IsFrame(Top)
  BY BeforeValue, Pop DEF Top
<1>2. f = [kind |-> Top.kind, values |-> Top.values, owned |-> Top.owned + 1]
  <2>1. Top = [kind |-> Top.kind, values |-> Top.values, owned |-> Top.owned]
    BY <1>1 DEF IsFrame
  <2> QED
    BY <2>1
<1>3. f.kind = Top.kind /\ f.values = Top.values
  BY <1>2
<1>4. (<<f>> \o rest)[1] = f /\ Tail(<<f>> \o rest) = rest
  <2>1. PICK S : stack \in Seq(S)
    BY BeforeValue DEF IsStack
  <2>2. rest \in Seq(S)
    BY <2>1, BeforeValue
  <2> HIDE DEF f, rest
  <2>3. rest \in Seq(S \cup {f}) /\ <<f>> \in Seq(S \cup {f})
    BY <2>2
  <2> QED
    BY <2>3
<1> QED
  BY <1>1, <1>3, <1>4 DEF IsFrame

\* The item for the next element.
LEMMA NewElementTextStep ==
  ASSUME IInv, TextInv, NewElement
  PROVE  TextInv'
<1> DEFINE inside == buffer_skip_whitespace(offset + 1)
           n == NestingLimit - depth
           f == [Top EXCEPT !.owned = @ + 1]
           c == Comma(Len(Top.values) + 1)
           F == FrameText(Top, n)
<1>1. pc = "element" /\ Building
  BY DEF NewElement, Building
<1>2. /\ input \in Seq(Symbol) /\ Len(input) \in Nat /\ offset + 1 \in 0 .. Len(input)
      /\ blocks \in Nat /\ n \in 0 .. NestingLimit
  BY <1>1, BeforeValue, Known DEF IInv
<1>3. PICK told \in Parts :
        Tells(Tail(stack), told) /\ AtElement(Top, n, told, Said(offset + 1, blocks))
  BY <1>1, Known DEF Says
<1>4. /\ Top.values \in Seq(Values[n]) /\ Top.kind \in {"Array", "Object"}
      /\ Said(offset + 1, blocks) = told ++ (F ++ c)
  BY <1>1, <1>3, TopStays DEF AtElement
<1>5. /\ f.kind = Top.kind /\ f.values = Top.values
      /\ (<<f>> \o Tail(stack))[1] = f /\ Tail(<<f>> \o Tail(stack)) = Tail(stack)
  BY <1>1, TopStays
<1>6. inside \in 0 .. Len(input) /\ Said(inside, blocks + 1) = Said(offset + 1, blocks + 1)
  BY <1>2, Skipped DEF Said
<1>7. CASE StarveAt(offset)
  BY <1>7, FailedText DEF StarveAt
<1>8. CASE ~StarveAt(offset)
  <2>1. /\ blocks' = blocks + 1 /\ stack' = <<f>> \o Tail(stack) /\ UNCHANGED <<input, depth>>
        /\ \/ Top.kind = "Array" /\ offset' = inside /\ pc' = "value"
           \/ pc' = "fail"
           \/ Top.kind # "Array" /\ offset' = inside /\ pc' = "name"
    BY <1>8 DEF NewElement, call
  <2>2. FrameText(f, n) = F /\ f.kind = Top.kind /\ Comma(Len(f.values) + 1) = c
    <3> HIDE DEF f, n
    <3> QED
      BY <1>5 DEF FrameText
  <2>3. F \in Parts /\ c \in Parts /\ F ++ c \in Parts /\ Item \in Parts
    <3> HIDE DEF n
    <3> QED
      BY <1>2, <1>4, FrameTexts, Punctuation
  <2>4. stack'[1] = f /\ Tail(stack') = Tail(stack)
    BY <1>5, <2>1
  <2>5. n = NestingLimit - depth'
    BY <2>1
  <2>6. Said(inside, blocks + 1) = (told ++ (F ++ c)) ++ Item
    BY <1>2, <1>4, <1>6, SaidItem
  <2> HIDE DEF inside, F, c, f, n
  <2>7. Said(inside, blocks + 1) = told ++ ((F ++ c) ++ Item)
    BY <2>3, <2>6, Regroup
  <2>8. CASE pc' = "fail"
    BY <2>8, FailedText
  <2>9. CASE Top.kind = "Array" /\ offset' = inside /\ pc' = "value"
    <3>1. Pending(f, n) = F ++ (c ++ (Item ++ Name("Array")))
      BY <2>2, <2>9 DEF Pending
    <3>2. Item ++ Name("Array") = Item
      BY <2>3, Monoid DEF Name
    <3>3. F ++ (c ++ Item) = (F ++ c) ++ Item
      BY <2>3, Regroup
    <3>4. Waits(f, n)
      BY <1>4, <1>5, <2>2, <2>9 DEF Waits
    <3>5. Said(inside, blocks + 1) = told ++ Pending(f, n)
      BY <2>7, <3>1, <3>2, <3>3
    <3>6. AtValue(stack'[1], NestingLimit - depth', told, Said(offset', blocks'))
      BY <2>1, <2>4, <2>5, <2>9, <3>4, <3>5 DEF AtValue
    <3> QED
      BY <1>3, <2>1, <2>4, <2>9, <3>6, Reached
  <2>10. CASE Top.kind # "Array" /\ offset' = inside /\ pc' = "name"
    <3>1. f.kind = "Object" /\ f.values \in Seq(Values[n])
      BY <1>4, <1>5, <2>2, <2>10
    <3>2. AtName(f, n, told, Said(inside, blocks + 1))
      BY <2>2, <2>7, <3>1 DEF AtName
    <3>3. AtName(stack'[1], NestingLimit - depth', told, Said(offset', blocks'))
      BY <2>1, <2>4, <2>5, <2>10, <3>2
    <3> QED
      BY <1>3, <2>1, <2>4, <2>10, <3>3, Reached
  <2> QED
    BY <2>1, <2>8, <2>9, <2>10
<1> QED
  BY <1>7, <1>8

\* The name of a member, and its colon.
LEMMA NameTextStep ==
  ASSUME IInv, TextInv, parse_name
  PROVE  TextInv'
<1> DEFINE colon == buffer_skip_whitespace(offset + 1)
           value == buffer_skip_whitespace(colon + 1)
           n == NestingLimit - depth
           f == [Top EXCEPT !.owned = @ + 1]
           c == Comma(Len(Top.values) + 1)
           F == FrameText(Top, n)
           N == Part(<<"s", ":">>, 1)
<1>1. pc = "name" /\ Building
  BY DEF parse_name, Building
<1>2. /\ input \in Seq(Symbol) /\ Len(input) \in Nat /\ offset \in 0 .. Len(input)
      /\ blocks \in Nat /\ n \in 0 .. NestingLimit
  BY <1>1, BeforeValue, Known
<1>3. PICK told \in Parts :
        Tells(Tail(stack), told) /\ AtName(Top, n, told, Said(offset, blocks))
  BY <1>1, Known DEF Says
<1>4. /\ Top.values \in Seq(Values[n]) /\ Top.kind = "Object"
      /\ Said(offset, blocks) = told ++ ((F ++ c) ++ Item)
  BY <1>3 DEF AtName
<1>5. /\ f.kind = Top.kind /\ f.values = Top.values
      /\ (<<f>> \o Tail(stack))[1] = f /\ Tail(<<f>> \o Tail(stack)) = Tail(stack)
  BY <1>1, TopStays
<1>6. CASE FailAt(offset + 1) \/ StarveAt(offset + 1) \/ pc' = "fail"
  BY <1>6, FailedText DEF FailAt, StarveAt
<1>7. CASE ~(FailAt(offset + 1) \/ StarveAt(offset + 1) \/ pc' = "fail")
  <2>1. /\ blocks' = blocks + 1 /\ stack' = <<f>> \o Tail(stack) /\ UNCHANGED <<input, depth>>
        /\ SymbolAt(offset, 0) = "s" /\ SymbolAt(colon, 0) = ":"
        /\ offset' = value /\ pc' = "value"
    BY <1>7 DEF parse_name, call
  <2>2. FrameText(f, n) = F /\ f.kind = Top.kind /\ Comma(Len(f.values) + 1) = c
    <3> HIDE DEF f, n
    <3> QED
      BY <1>5 DEF FrameText
  <2>3. F \in Parts /\ c \in Parts /\ F ++ c \in Parts /\ Item \in Parts
    <3> HIDE DEF n
    <3> QED
      BY <1>2, <1>4, FrameTexts, Punctuation
  <2>4. Part(<<"s">>, 1) \in Parts /\ Part(<<":">>, 0) \in Parts
    BY Punctuation DEF Symbol
  <2>5. Part(<<"s">>, 1) ++ Part(<<":">>, 0) = N
    <3>1. <<"s">> \o <<":">> = <<"s", ":">>
      BY Pair
    <3> QED
      BY <3>1 DEF Part, ++
  <2>6. /\ offset + 1 \in 0 .. Len(input)
        /\ Said(offset + 1, blocks + 1) = Said(offset, blocks) ++ Part(<<"s">>, 1)
    <3>1. "s" \notin Space \cup {"bom", "end"}
      BY DEF Space
    <3> QED
      BY <1>2, <2>1, <3>1, SaidSymbol
  <2>7. colon \in 0 .. Len(input) /\ Said(colon, blocks + 1) = Said(offset + 1, blocks + 1)
    BY <1>2, <2>6, Skipped DEF Said
  <2> HIDE DEF colon
  <2>8. /\ colon + 1 \in 0 .. Len(input)
        /\ Said(colon + 1, blocks + 1) = Said(colon, blocks + 1) ++ Part(<<":">>, 0)
    <3>1. ":" \notin Space \cup {"bom", "end"}
      BY DEF Space
    <3>2. /\ colon + 1 \in 0 .. Len(input)
          /\ \A owned, new \in Nat :
               Said(colon + 1, owned + new) = Said(colon, owned) ++ Part(<<":">>, new)
      BY <1>2, <2>1, <2>7, <3>1, SaidSymbol
    <3> DEFINE b == blocks + 1
    <3>3. b \in Nat /\ b + 0 = b /\ 0 \in Nat
      BY <1>2
    <3> HIDE DEF b
    <3>4. Said(colon + 1, b + 0) = Said(colon, b) ++ Part(<<":">>, 0)
      BY <3>2, <3>3
    <3>5. Said(colon + 1, b) = Said(colon, b) ++ Part(<<":">>, 0)
      BY <3>3, <3>4
    <3> QED
      BY <3>2, <3>5 DEF b
  <2>9. Said(value, blocks + 1) = Said(colon + 1, blocks + 1)
    BY <1>2, <2>8, Skipped DEF Said
  <2>10. stack'[1] = f /\ Tail(stack') = Tail(stack)
    BY <1>5, <2>1
  <2>11. n = NestingLimit - depth'
    BY <2>1
  <2> HIDE DEF value, F, c, f, n, N
  <2>12. Said(value, blocks + 1) = (told ++ ((F ++ c) ++ Item)) ++ N
    <3>1. Said(offset, blocks) \in Parts
      BY <1>2, SaidItem
    <3>2. (Said(offset, blocks) ++ Part(<<"s">>, 1)) ++ Part(<<":">>, 0)
          = Said(offset, blocks) ++ (Part(<<"s">>, 1) ++ Part(<<":">>, 0))
      BY <2>4, <3>1, Regroup
    <3> QED
      BY <1>4, <2>5, <2>6, <2>7, <2>8, <2>9, <3>2
  <2>13. N \in Parts /\ Name("Object") = N
    <3>1. Name("Object") \in Parts
      BY Punctuation
    <3> QED
      BY <3>1 DEF Name, N
  <2>14. Pending(f, n) = F ++ (c ++ (Item ++ N))
    BY <1>4, <2>2, <2>13 DEF Pending
  <2>15. (told ++ ((F ++ c) ++ Item)) ++ N = told ++ (F ++ (c ++ (Item ++ N)))
    <3>1. (F ++ c) ++ Item \in Parts /\ Item ++ N \in Parts
      BY <2>3, <2>13, Monoid
    <3>2. (told ++ ((F ++ c) ++ Item)) ++ N = told ++ (((F ++ c) ++ Item) ++ N)
      BY <2>13, <3>1, Regroup
    <3>3. ((F ++ c) ++ Item) ++ N = (F ++ c) ++ (Item ++ N)
      BY <2>3, <2>13, Regroup
    <3>4. (F ++ c) ++ (Item ++ N) = F ++ (c ++ (Item ++ N))
      BY <2>3, <3>1, Regroup
    <3> QED
      BY <3>2, <3>3, <3>4
  <2>16. Waits(f, n)
    <3>1. f.values \in Seq(Values[n]) /\ f.kind # "Root"
      BY <1>4, <1>5, <2>2
    <3> QED
      BY <3>1 DEF Waits
  <2>17. AtValue(stack'[1], NestingLimit - depth', told, Said(offset', blocks'))
    BY <2>1, <2>10, <2>11, <2>12, <2>14, <2>15, <2>16 DEF AtValue
  <2> QED
    BY <1>3, <2>1, <2>10, <2>17, Reached
<1> QED
  BY <1>6, <1>7

\* A comma, or the end of a list, which is the value of an element of another.
LEMMA NextElementTextStep ==
  ASSUME IInv, TextInv, NextElement
  PROVE  TextInv'
<1> DEFINE o == buffer_skip_whitespace(offset)
           v == Value(Top.kind, Top.values)
           rest == Tail(stack)
           n == NestingLimit - depth
           F == FrameText(Top, n)
<1>1. pc = "next" /\ Building /\ Top.kind # "Root"
  BY DEF NextElement, Building
<1>2. /\ input \in Seq(Symbol) /\ Len(input) \in Nat /\ offset \in 0 .. Len(input)
      /\ blocks \in Nat /\ n \in 0 .. NestingLimit /\ depth \in Nat
      /\ depth = Len(stack) - 1 /\ IsStack(stack) /\ stack # << >> /\ Owns(stack, blocks)
  BY <1>1, BeforeValue, Known
<1>3. PICK told \in Parts : Tells(rest, told) /\ AtNext(Top, n, told, Said(offset, blocks))
  BY <1>1, Known DEF Says
<1>4. /\ Top.values \in Seq(Values[n]) /\ Top.values # << >>
      /\ Said(offset, blocks) = told ++ F
  BY <1>3 DEF AtNext
<1>5. o \in 0 .. Len(input) /\ Said(o, blocks) = told ++ F
  BY <1>2, <1>4, Skipped DEF Said
<1>6. /\ SymbolAt(o, 0) = "," => /\ offset' = o /\ pc' = "element"
                                 /\ UNCHANGED <<input, depth, stack, blocks>>
      /\ SymbolAt(o, 0) # "," =>
           \/ /\ SymbolAt(o, 0) = Closes(Top.kind) /\ depth' = depth - 1
              /\ UNCHANGED blocks /\ Parsed(v, o + 1, rest, Top.owned)
           \/ FailAt(o)
  BY DEF NextElement, call
<1>7. F \in Parts /\ Top.kind \in {"Array", "Object"}
  BY <1>1, <1>2, <1>4, FrameTexts, TopStays
<1>8. ASSUME NEW c, c \notin Space \cup {"bom", "end"}, SymbolAt(o, 0) = c, Part(<<c>>, 0) \in Parts
      PROVE  Said(o + 1, blocks) = told ++ (F ++ Part(<<c>>, 0))
  <2> HIDE DEF o, F
  <2>1. \A owned, new \in Nat : Said(o + 1, owned + new) = Said(o, owned) ++ Part(<<c>>, new)
    BY <1>2, <1>5, <1>8, SaidSymbol
  <2>2. blocks + 0 = blocks /\ 0 \in Nat
    BY <1>2
  <2>3. Said(o + 1, blocks + 0) = Said(o, blocks) ++ Part(<<c>>, 0)
    BY <1>2, <2>1, <2>2
  <2>4. (told ++ F) ++ Part(<<c>>, 0) = told ++ (F ++ Part(<<c>>, 0))
    BY <1>7, <1>8, Regroup
  <2> QED
    BY <1>5, <2>2, <2>3, <2>4
<1> HIDE DEF o, F, n
<1>9. CASE SymbolAt(o, 0) = ","
  <2>1. offset' = o /\ pc' = "element" /\ UNCHANGED <<input, depth, stack, blocks>>
    BY <1>6, <1>9
  <2>2. Comma(Len(Top.values) + 1) = Part(<<",">>, 0)
    <3>1. Len(Top.values) \in Nat /\ Len(Top.values) # 0
      BY <1>4
    <3>2. Len(Top.values) + 1 # 1
      BY <3>1
    <3> QED
      BY <3>2 DEF Comma
  <2>3. Said(o + 1, blocks) = told ++ (F ++ Part(<<",">>, 0))
    <3>1. "," \notin Space \cup {"bom", "end"} /\ Part(<<",">>, 0) \in Parts
      BY Punctuation DEF Space, Symbol
    <3> QED
      BY <1>8, <1>9, <3>1
  <2>4. AtElement(Top, n, told, Said(o + 1, blocks))
    BY <1>1, <1>4, <2>2, <2>3 DEF AtElement, F
  <2>5. stack'[1] = Top /\ Tail(stack') = rest
    BY <2>1 DEF Top
  <2>6. NestingLimit - depth' = n
    BY <2>1 DEF n
  <2>7. AtElement(stack'[1], NestingLimit - depth', told, Said(offset' + 1, blocks'))
    BY <2>1, <2>4, <2>5, <2>6
  <2> QED
    BY <1>3, <2>1, <2>5, <2>7, Reached
<1>10. CASE FailAt(o)
  BY <1>10, FailedText DEF FailAt
<1>11. CASE SymbolAt(o, 0) # "," /\ ~FailAt(o)
  <2> DEFINE close == Part(<<Closes(Top.kind)>>, 0)
             x == F ++ close
             m == NestingLimit - (Len(rest) - 1)
  <2>1. /\ SymbolAt(o, 0) = Closes(Top.kind) /\ depth' = depth - 1
        /\ UNCHANGED blocks /\ Parsed(v, o + 1, rest, Top.owned)
    BY <1>6, <1>11
  <2>2. PICK S : stack \in Seq(S)
    BY <1>2 DEF IsStack
  <2>3. /\ IsStack(rest) /\ rest # << >> /\ Len(rest) = Len(stack) - 1
        /\ Len(stack) \in Nat
    BY <1>1, <1>2, Pop DEF Top
  <2>4. rest \in Seq(S)
    BY <1>2, <2>2
  <2>5. PICK before \in Parts :
          Tells(Tail(rest), before) /\ Adds(rest[1], m, before, told)
    <3> HIDE DEF rest
    <3> QED
      BY <1>3, <2>3, <2>4, TellsPop
  <2>6. /\ m \in 0 .. NestingLimit /\ Waits(rest[1], m)
        /\ told = before ++ Pending(rest[1], m)
    BY <2>5 DEF Adds
  <2>7. m = NestingLimit - depth' /\ n = m - 1 /\ m # 0
    <3> HIDE DEF rest
    <3>1. m = NestingLimit - depth'
      BY <1>2, <2>1, <2>3, ParserAssumption
    <3>2. n = m - 1
      BY <1>2, <2>3, ParserAssumption DEF n
    <3>3. m # 0
      BY <1>2, <2>6, <3>2
    <3> QED
      BY <3>1, <3>2, <3>3
  <2>8. close \in Parts /\ Closes(Top.kind) \notin Space \cup {"bom", "end"}
    BY <1>7, OpeningIs
  <2>9. Said(o + 1, blocks) = told ++ x
    BY <1>8, <2>1, <2>8
  <2>10. x \in Parts
    <3> HIDE DEF close
    <3> QED
      BY <1>7, <2>8, Monoid
  <2>11. v \in Values[m] /\ JsonText[m][v] = Item ++ x
    <3>1. Top.values \in Seq(Values[m - 1])
      BY <1>4, <2>7
    <3> HIDE DEF m
    <3>2. v \in Values[m]
      BY <1>7, <2>6, <2>7, <3>1, ValuesAre
    <3>3. JsonText[m][v] = Item ++ (Begun(Top.kind, TextsOf(m - 1, Top.values)) ++ close)
      BY <1>7, <2>6, <2>7, <3>1, TextsAre
    <3>4. F = Begun(Top.kind, TextsOf(m - 1, Top.values))
      BY <2>7 DEF F, FrameText
    <3> QED
      BY <3>2, <3>3, <3>4
  <2> HIDE DEF x, m, rest, v
  <2>12. Said(o + 1, blocks') = (before ++ Pending(rest[1], m)) ++ x
    BY <2>1, <2>6, <2>9
  <2> QED
    BY <2>1, <2>3, <2>5, <2>6, <2>7, <2>10, <2>11, <2>12, ParsedTextStep
<1> QED
  BY <1>9, <1>10, <1>11

\* The end of the call after parse_value.
LEMMA ReturnTextStep ==
  ASSUME IInv, TextInv, Return
  PROVE  TextInv'
<1> DEFINE o == IF require_null_terminated THEN buffer_skip_whitespace(offset) ELSE offset
           n == NestingLimit - depth
<1>1. pc = "next" /\ Building /\ Top.kind = "Root"
  BY DEF Return, Building
<1>2. input \in Seq(Symbol) /\ Len(input) \in Nat /\ offset \in 0 .. Len(input)
  BY <1>1, BeforeValue
<1>3. PICK told \in Parts :
        Tells(Tail(stack), told) /\ AtNext(Top, n, told, Said(offset, blocks))
  BY <1>1, Known DEF Says
<1>4. Shown[o] = Shown[offset] /\ o \in 0 .. Len(input)
  BY <1>2, Skipped
<1>5. FailAt(o) \/ (/\ pc' = "done" /\ offset' = o /\ position' = o
                    /\ require_null_terminated => SymbolAt(o, 0) = "NUL"
                    /\ UNCHANGED <<input, require_null_terminated, depth, stack, blocks>>)
  BY DEF Return, call
<1>6. ASSUME require_null_terminated, SymbolAt(o, 0) = "NUL"
      PROVE  Shown[Len(input)] = Shown[o] /\ input[Len(input)] = "NUL"
  <2>1. o = buffer_skip_whitespace(offset) /\ "NUL" \in Space
    BY <1>6 DEF Space
  <2>2. o = Len(input) - 1 /\ Shown[Len(input)] = Shown[o]
    BY <1>2, <1>6, <2>1, Skipped
  <2>3. o + 0 < Len(input) /\ o + 0 + 1 = Len(input)
    BY <1>2, <2>2
  <2>4. input[Len(input)] = "NUL"
    BY <1>6, <2>3 DEF SymbolAt
  <2> QED
    BY <2>2, <2>4
<1> HIDE DEF o
<1>7. CASE FailAt(o)
  BY <1>7, FailedText DEF FailAt
<1>8. CASE ~FailAt(o)
  <2>1. /\ pc' = "done" /\ offset' = o /\ position' = o
        /\ require_null_terminated => SymbolAt(o, 0) = "NUL"
        /\ UNCHANGED <<input, require_null_terminated, depth, stack, blocks>>
    BY <1>5, <1>8
  <2>2. Shown' = Shown
    BY <2>1, ShownStays
  <2>3. Said(offset, blocks)' = Said(offset, blocks)
    BY <1>4, <2>1, <2>2 DEF Said
  <2>4. Top' = Top /\ Tail(stack)' = Tail(stack) /\ n' = n
    BY <2>1 DEF Top
  <2>5. AtNext(Top, n, told, Said(offset, blocks))'
    BY <1>3, <2>3, <2>4 DEF AtNext, FrameText
  <2>6. Says(told)'
    <3> HIDE DEF n
    <3>1. AtNext(Top', n', told, Said(offset, blocks)')
      BY <2>5
    <3> QED
      BY <2>1, <2>5 DEF Says, n
  <2>7. Tells(Tail(stack)', told)
    BY <1>3, <2>4
  <2>8. Top'.kind = "Root"
    BY <1>1, <2>4
  <2>9. require_null_terminated' =>
          Shown'[Len(input')] = Shown'[position'] /\ input'[Len(input')] = "NUL"
    BY <1>6, <2>1, <2>2
  <2> QED
    BY <2>1, <2>6, <2>7, <2>8, <2>9 DEF TextInv
<1> QED
  BY <1>7, <1>8

\* The beginning of a call: the root item waits for its value.
LEMMA StartTextStep ==
  ASSUME IInv, TextInv, Start
  PROVE  TextInv'
<1> DEFINE start == skip_utf8_bom
           o == buffer_skip_whitespace(start)
           f == Frame("Root", 1)
<1>1. pc = "start" /\ input \in Seq(Symbol) /\ depth = 0 /\ NestingLimit \in Nat
  BY ParserAssumption DEF Start, IInv
<1>2. start \in 0 .. Len(input) /\ Shown[start] = << >>
  BY <1>1, SaidNothing
<1>3. Said(o, 1) = Item
  <2> HIDE DEF start
  <2> QED
    BY <1>1, <1>2, Skipped DEF Said, Item
<1>4. CASE FailAt(0) \/ StarveAt(0)
  BY <1>4, FailedText DEF FailAt, StarveAt
<1>5. CASE ~(FailAt(0) \/ StarveAt(0))
  <2>1. /\ stack' = <<f>> /\ blocks' = 1 /\ offset' = o /\ pc' = "value"
        /\ UNCHANGED <<input, depth>>
    BY <1>5 DEF Start, call
  <2>2. stack'[1] = f /\ Tail(stack') = << >> /\ f.values = << >> /\ f.kind = "Root"
    BY <2>1 DEF Frame
  <2> HIDE DEF f, o
  <2>3. Tells(Tail(stack'), Nothing) /\ Nothing \in Parts
    BY <2>2, TellsNothing, Monoid
  <2>4. NestingLimit - depth' = NestingLimit /\ NestingLimit \in 0 .. NestingLimit
    BY <1>1, <2>1
  <2>5. Waits(f, NestingLimit)
    <3>1. << >> \in Seq(Values[NestingLimit])
      OBVIOUS
    <3> QED
      BY <2>2, <3>1 DEF Waits
  <2>6. Pending(f, NestingLimit) = Item
    <3>1. FrameText(f, NestingLimit) = Nothing
      <4>1. TextsOf(NestingLimit, << >>) = << >>
        BY DEF TextsOf, TextsBy
      <4>2. Begun("Root", << >>) = Nothing
        BY BegunSteps DEF Opening
      <4> QED
        BY <2>2, <4>1, <4>2 DEF FrameText
    <3>2. Comma(Len(f.values) + 1) = Nothing
      <4>1. Len(<< >>) + 1 = 1
        OBVIOUS
      <4> QED
        BY <2>2, <4>1 DEF Comma
    <3>3. Name(f.kind) = Nothing
      BY <2>2 DEF Name
    <3>4. Item \in Parts /\ Nothing ++ (Nothing ++ (Item ++ Nothing)) = Item
      <4>1. Item \in Parts
        BY Punctuation
      <4>2. Item ++ Nothing = Item /\ Nothing ++ Item = Item
        BY <4>1, Monoid
      <4> QED
        BY <4>1, <4>2
    <3> QED
      BY <3>1, <3>2, <3>3, <3>4 DEF Pending
  <2>7. Nothing ++ Item = Item
    <3>1. Item \in Parts
      BY Punctuation
    <3> QED
      BY <3>1, Monoid
  <2>8. AtValue(f, NestingLimit, Nothing, Said(o, 1))
    BY <1>3, <2>5, <2>6, <2>7 DEF AtValue
  <2>9. AtValue(stack'[1], NestingLimit - depth', Nothing, Said(offset', blocks'))
    BY <2>1, <2>2, <2>4, <2>8
  <2> QED
    BY <2>1, <2>3, <2>9, Reached
<1> QED
  BY <1>4, <1>5

\* It holds before the first call.
LEMMA InitTextInv == Init => TextInv
BY DEF Init, TextInv, Building

\* Every step keeps it.
LEMMA NextTextInv == IInv /\ TextInv /\ [Next]_vars => TextInv'
<1> SUFFICES ASSUME IInv, TextInv, [Next]_vars PROVE TextInv'
  OBVIOUS
<1>1. CASE UNCHANGED vars
  <2>1. UNCHANGED <<input, require_null_terminated, offset, depth, stack, pc, blocks, position>>
    BY <1>1 DEF vars, call
  <2>2. Shown' = Shown
    BY <2>1, ShownStays
  <2>3. /\ Said(offset, blocks)' = Said(offset, blocks)
        /\ Said(offset + 1, blocks)' = Said(offset + 1, blocks)
    BY <2>1, <2>2 DEF Said
  <2>4. Top' = Top /\ Building' = Building
    BY <2>1 DEF Top, Building
  <2>5. ASSUME NEW told \in Parts, Says(told) PROVE Says(told)'
    BY <2>1, <2>3, <2>4, <2>5 DEF Says
  <2> QED
    BY <2>1, <2>2, <2>4, <2>5 DEF TextInv
<1>2. CASE parse_nothing \/ FailList \/ Fail
  BY <1>2, FailedText DEF parse_nothing, FailAt, FailList, Fail
<1> QED
  BY <1>1, <1>2, StartTextStep, NumberTextStep, StringTextStep, OpenListTextStep,
     NewElementTextStep, NameTextStep, NextElementTextStep, ReturnTextStep
     DEF Next, Returned

\* The invariant of the text holds in every reachable state.
LEMMA TextInvariance == Spec => []TextInv
<1>1. Init => TextInv
  BY InitTextInv
<1>2. IInv /\ TextInv /\ [Next]_vars => TextInv'
  BY NextTextInv
<1> QED
  BY <1>1, <1>2, Invariance, PTL DEF Spec

\* In every behaviour of the parser, for every buffer, every nesting limit and
\* every failure of the allocator, a call that returns a value has read a JSON
\* text, its value is the one that the text says, and what it has allocated and
\* not freed is exactly what the value owns; if the client requires it, nothing
\* but white space and a NUL at the end of the buffer follow the text.
THEOREM ValueOfText == Spec => []ResultIsText
<1>1. IInv /\ TextInv => ResultIsText
  <2> SUFFICES ASSUME IInv, TextInv, pc = "done"
               PROVE  /\ Len(stack) = 1 /\ Len(Top.values) = 1 /\ Result \in Values[NestingLimit]
                      /\ Part(Shown[position], blocks) = JsonText[NestingLimit][Result]
    BY DEF ResultIsText, TextInv
  <2> DEFINE n == NestingLimit
  <2>1. Building /\ Top.kind = "Root" /\ position = offset
    BY DEF Building, TextInv
  <2>2. /\ IsStack(stack) /\ stack # << >> /\ depth = Len(stack) - 1
    BY <2>1, BeforeValue
  <2>3. Len(stack) = 1 /\ depth = 0 /\ Tail(stack) = << >>
    <3>1. PICK S : stack \in Seq(S)
      BY <2>2 DEF IsStack
    <3>2. 1 \in 1 .. Len(stack) /\ Len(stack) \in Nat
      BY <2>2, <3>1
    <3>3. Len(stack) = 1
      BY <2>1, <3>2, <2>2 DEF IsStack, Top
    <3>4. Tail(stack) \in Seq(S) /\ Len(Tail(stack)) = Len(stack) - 1
      BY <2>2, <3>1
    <3>5. Tail(stack) = << >>
      <4> DEFINE rest == Tail(stack)
      <4> HIDE DEF rest
      <4>1. rest \in Seq(S) /\ Len(rest) = 0
        BY <3>3, <3>4 DEF rest
      <4>2. rest = << >>
        BY <4>1
      <4> QED
        BY <4>2 DEF rest
    <3> QED
      BY <2>2, <3>3, <3>5
  <2>4. n \in 0 .. NestingLimit /\ NestingLimit - depth = n
    BY <2>3, ParserAssumption
  <2>5. PICK told \in Parts : Tells(Tail(stack), told) /\ Says(told)
    BY <2>1, Known
  <2>6. told = Nothing
    BY <2>3, <2>5, TellsNothing
  <2> DEFINE values == Top.values
  <2>7. /\ values \in Seq(Values[n]) /\ Len(values) = 1
        /\ Said(offset, blocks) = Nothing ++ FrameText(Top, n)
    BY <2>1, <2>4, <2>5, <2>6 DEF Says, AtNext
  <2> DEFINE v == values[1]
             V == Values[n]
  <2>8. v \in V /\ values = Append(<< >>, v) /\ << >> \in Seq(V)
    <3> HIDE DEF values, V
    <3>1. values \in Seq(V) /\ Len(values) = 1
      BY <2>7 DEF V
    <3> QED
      BY <3>1
  <2> HIDE DEF n
  <2>9. JsonText[n] \in [Values[n] -> Parts] /\ JsonText[n][v] \in Parts
    <3>1. JsonText[n] \in [Values[n] -> Parts]
      BY <2>4, TextsAre
    <3> HIDE DEF v
    <3> QED
      BY <2>8, <3>1
  <2>10. TextsOf(n, values) = Append(<< >>, JsonText[n][v])
    <3> HIDE DEF v, values
    <3>1. TextsOf(n, Append(<< >>, v)) = Append(TextsOf(n, << >>), JsonText[n][v])
      BY <2>8, <2>9, TextsOfSteps
    <3>2. TextsOf(n, << >>) = << >>
      BY DEF TextsOf, TextsBy
    <3> QED
      BY <2>8, <3>1, <3>2
  <2> DEFINE t == JsonText[n][v]
  <2>11. FrameText(Top, n) = Begun("Root", Append(<< >>, t))
    <3>1. FrameText(Top, n) = Begun("Root", TextsOf(n, values))
      BY <2>1 DEF FrameText
    <3> HIDE DEF values, v, t
    <3> QED
      BY <2>10, <3>1 DEF t
  <2> HIDE DEF t
  <2>12. t \in Parts
    BY <2>9 DEF t
  <2>13. Begun("Root", Append(<< >>, t)) = t
    <3>1. << >> \in Seq(Parts) /\ Len(<< >>) + 1 = 1
      OBVIOUS
    <3>2. Begun("Root", Append(<< >>, t)) = Begun("Root", << >>) ++ Element("Root", Len(<< >>) + 1, t)
      BY <2>12, <3>1, BegunSteps
    <3>3. Begun("Root", << >>) = Nothing
      BY BegunSteps DEF Opening
    <3>4. Element("Root", Len(<< >>) + 1, t) = Nothing ++ (Nothing ++ t)
      BY <3>1 DEF Element, Comma, Name
    <3>5. Nothing ++ t = t
      BY <2>12, Monoid
    <3> QED
      BY <3>2, <3>3, <3>4, <3>5
  <2>14. Nothing ++ t = t
    BY <2>12, Monoid
  <2>15. Said(offset, blocks) = t
    BY <2>7, <2>11, <2>13, <2>14
  <2>16. Result = v
    BY DEF Result
  <2> HIDE DEF v, values
  <2> QED
    BY <2>1, <2>3, <2>7, <2>8, <2>15, <2>16 DEF Said, t, n, values
<1> QED
  BY <1>1, Invariance, TextInvariance, PTL

-----------------------------------------------------------------------------
(* What is left to read of a text.                                          *)

\* The texts of the values of level n.
Language(n) == {JsonText[n][v].text : v \in Values[n]}

\* How a list ends.
Ending(kind) == IF kind = "Root" THEN << >> ELSE <<Closes(kind)>>

\* What is left of a list behind each of its elements.
Remains == UNION {[0 .. N -> Seq(Symbol)] : N \in Nat}

\* A list of N elements of level n: p[k] is left of its text behind element k.
Plan(p, N, kind, n) ==
  /\ p \in [0 .. N -> Seq(Symbol)] /\ p[N] = Ending(kind)
  /\ \A k \in 1 .. N : \E x \in Language(n) :
       p[k - 1] = Comma(k).text \o (Name(kind).text \o (x \o p[k]))

LEMMA PlanRemains ==
  ASSUME NEW p, NEW N \in Nat, NEW kind, NEW n, Plan(p, N, kind, n)
  PROVE  p \in Remains
<1>1. p \in [0 .. N -> Seq(Symbol)]
  BY DEF Plan
<1> QED
  BY <1>1 DEF Remains

\* The text of two parts.
LEMMA TextOfTwo == \A a, b : (a ++ b).text = a.text \o b.text
BY DEF ++, Part

LEMMA TextOfThree ==
  ASSUME NEW a, NEW b, NEW c
  PROVE  (a ++ (b ++ c)).text = a.text \o (b.text \o c.text)
<1> DEFINE d == b ++ c
<1>1. d.text = b.text \o c.text
  BY TextOfTwo
<1> HIDE DEF d
<1>2. (a ++ d).text = a.text \o d.text
  BY TextOfTwo
<1> QED
  BY <1>1, <1>2 DEF d

\* Texts can be put behind each other, in any grouping; what is in front can be
\* taken away.
LEMMA Concat ==
  /\ << >> \in Seq(Symbol) /\ \A c \in Symbol : <<c>> \in Seq(Symbol)
  /\ \A u, v \in Seq(Symbol) : u \o v \in Seq(Symbol)
OBVIOUS

LEMMA ConcatNothing == \A u \in Seq(Symbol) : << >> \o u = u /\ u \o << >> = u
OBVIOUS

LEMMA Regrouped == \A u, v, w \in Seq(Symbol) : (u \o v) \o w = u \o (v \o w)
BY ConcatAssociative

LEMMA Cancel == \A u, v, w \in Seq(Symbol) : u \o v = u \o w => v = w
BY ConcatSimplifications

LEMMA SameFirst ==
  ASSUME NEW c \in Symbol, NEW e \in Symbol, NEW v \in Seq(Symbol), NEW w \in Seq(Symbol),
         <<c>> \o v = <<e>> \o w
  PROVE  c = e /\ v = w
<1>1. (<<c>> \o v)[1] = c /\ (<<e>> \o w)[1] = e
  OBVIOUS
<1>2. c = e
  BY <1>1
<1>3. <<c>> \in Seq(Symbol)
  OBVIOUS
<1> QED
  BY <1>2, <1>3, Cancel, Zenon

\* Brackets at the end.
LEMMA EndingType ==
  \A kind : Ending(kind) \in Seq(Symbol) /\ <<Closes(kind)>> \in Seq(Symbol)
<1>1. TAKE kind
<1>2. Closes(kind) \in Symbol
  BY DEF Closes, Symbol
<1>3. << >> \in Seq(Symbol) /\ <<Closes(kind)>> \in Seq(Symbol)
  BY <1>2
<1> QED
  BY <1>3 DEF Ending

\* What has been text of a list and what is left of it are the text of it.
LEMMA PlanExists ==
  ASSUME NEW n \in 0 .. NestingLimit, NEW kind \in {"Root", "Array", "Object"},
         NEW values \in Seq(Values[n])
  PROVE  \E p : /\ Plan(p, Len(values), kind, n)
                /\ Begun(kind, TextsOf(n, values)).text \o Ending(kind)
                   = Opening(kind).text \o p[0]
<1> DEFINE parts == TextsOf(n, values)
           N == Len(values)
           E(k, x) == Comma(k).text \o (Name(kind).text \o (parts[k].text \o x))
           Step == [y \in (1 .. N) \X Seq(Symbol) |-> E(N - y[1] + 1, y[2])]
<1>1. N \in Nat /\ parts \in Seq(Parts) /\ Len(parts) = N
  BY TextsAre, TextsOfSteps
<1>2. ASSUME NEW k \in 1 .. N PROVE parts[k].text \in Language(n) /\ parts[k] \in Parts
  <2>1. parts[k] = JsonText[n][values[k]] /\ values[k] \in Values[n]
    BY DEF TextsOf, TextsBy
  <2> QED
    BY <1>1, <2>1 DEF Language
<1>3. /\ Ending(kind) \in Seq(Symbol)
      /\ \A k : Comma(k) \in Parts /\ Comma(k).text \in Seq(Symbol)
      /\ Name(kind) \in Parts /\ Name(kind).text \in Seq(Symbol)
      /\ Opening(kind) \in Parts /\ Opening(kind).text \in Seq(Symbol)
  BY EndingType, Punctuation DEF Parts
<1>4. ASSUME NEW k \in 1 .. N, NEW x \in Seq(Symbol) PROVE E(k, x) \in Seq(Symbol)
  <2>1. parts[k].text \in Seq(Symbol)
    BY <1>2 DEF Parts
  <2> HIDE DEF parts, N
  <2> QED
    BY <1>3, <2>1
<1>5. Step \in [(1 .. N) \X Seq(Symbol) -> Seq(Symbol)]
  <2>1. ASSUME NEW y \in (1 .. N) \X Seq(Symbol) PROVE E(N - y[1] + 1, y[2]) \in Seq(Symbol)
    <3>1. N - y[1] + 1 \in 1 .. N /\ y[2] \in Seq(Symbol)
      BY <1>1
    <3> HIDE DEF E, N
    <3> QED
      BY <1>4, <3>1
  <2> HIDE DEF E, N
  <2> QED
    BY <2>1
<1> HIDE DEF parts, N
<1>6. PICK f \in [0 .. N -> Seq(Symbol)] : Iterates(f, N, Ending(kind), Step)
  <2> HIDE DEF Step
  <2> QED
    BY <1>1, <1>3, <1>5, RecursionUpTo
<1> DEFINE p == [k \in 0 .. N |-> f[N - k]]
<1>7. p \in [0 .. N -> Seq(Symbol)] /\ p[N] = Ending(kind)
  <2>1. \A k \in 0 .. N : N - k \in 0 .. N
    BY <1>1
  <2>2. N \in 0 .. N /\ N - N = 0
    BY <1>1
  <2>3. f[0] = Ending(kind)
    BY <1>6 DEF Iterates
  <2> QED
    BY <2>1, <2>2, <2>3
<1>8. ASSUME NEW k \in 1 .. N PROVE p[k - 1] = E(k, p[k])
  <2> DEFINE m == N - k + 1
  <2>1. /\ m \in 1 .. N /\ m - 1 = N - k /\ N - m + 1 = k /\ N - (k - 1) = m
        /\ k - 1 \in 0 .. N /\ k \in 0 .. N /\ N - k \in 0 .. N
    BY <1>1
  <2>2. f[m] = Step[<<m, f[m - 1]>>]
    BY <1>6, <2>1 DEF Iterates
  <2>3. p[k - 1] = f[m] /\ p[k] = f[m - 1]
    BY <2>1
  <2>4. f[m - 1] \in Seq(Symbol)
    BY <2>1
  <2>5. Step[<<m, f[m - 1]>>] = E(N - m + 1, f[m - 1])
    <3> HIDE DEF m, E
    <3> QED
      BY <2>1, <2>4
  <2> HIDE DEF m, E, p, Step
  <2> QED
    BY <2>1, <2>2, <2>3, <2>5
<1> HIDE DEF p, Step
<1>9. Plan(p, N, kind, n)
  BY <1>2, <1>7, <1>8 DEF Plan
<1>10. PICK upto : BeginsUpto(upto, kind, parts)
  BY <1>1, BegunUpto
<1> DEFINE T == {m \in 0 .. N : upto[N - m].text \o p[N - m] = upto[N].text \o Ending(kind)}
<1>11. 0 \in T
  BY <1>1, <1>7
<1>12. ASSUME NEW m \in 1 .. N, m - 1 \in T PROVE m \in T
  <2> DEFINE k == N - (m - 1)
  <2>1. k \in 1 .. N /\ k - 1 = N - m /\ k - 1 \in 0 .. N /\ k \in 0 .. N /\ m \in 0 .. N
    BY <1>1
  <2>2. upto[k].text \o p[k] = upto[N].text \o Ending(kind)
    BY <1>12
  <2> HIDE DEF k, E
  <2>3. upto[k] = upto[k - 1] ++ Element(kind, k, parts[k])
    BY <1>1, <1>10, <2>1 DEF BeginsUpto
  <2>4. /\ upto[k - 1].text \in Seq(Symbol) /\ parts[k].text \in Seq(Symbol)
        /\ p[k] \in Seq(Symbol)
    <3>1. upto[k - 1] \in Parts
      BY <1>1, <1>10, <2>1 DEF BeginsUpto
    <3> QED
      BY <1>2, <1>7, <2>1, <3>1 DEF Parts
  <2>5. upto[k].text = upto[k - 1].text \o (Comma(k).text \o (Name(kind).text \o parts[k].text))
    <3> DEFINE u == upto[k - 1]
               c == Comma(k)
               d == Name(kind)
               e == parts[k]
               f1 == c ++ (d ++ e)
    <3>1. upto[k] = u ++ f1
      BY <2>3 DEF Element
    <3> HIDE DEF u, c, d, e
    <3>2. f1.text = c.text \o (d.text \o e.text)
      BY TextOfThree
    <3> HIDE DEF f1
    <3>3. (u ++ f1).text = u.text \o f1.text
      BY TextOfTwo
    <3>4. upto[k].text = u.text \o (c.text \o (d.text \o e.text))
      BY <3>1, <3>2, <3>3
    <3> QED
      BY <3>4 DEF u, c, d, e
  <2>6. upto[k].text \o p[k] = upto[k - 1].text \o p[k - 1]
    <3> DEFINE a == upto[k - 1].text
               b == Comma(k).text
               c == Name(kind).text
               d == parts[k].text
               e == p[k]
    <3>1. a \in Seq(Symbol) /\ b \in Seq(Symbol) /\ c \in Seq(Symbol) /\ d \in Seq(Symbol)
          /\ e \in Seq(Symbol)
      BY <1>3, <2>4
    <3>2. p[k - 1] = b \o (c \o (d \o e))
      BY <1>8, <2>1 DEF E
    <3>3. upto[k].text = a \o (b \o (c \o d))
      BY <2>5
    <3> HIDE DEF a, b, c, d, e
    <3>4. (a \o (b \o (c \o d))) \o e = a \o (b \o (c \o (d \o e)))
      <4> DEFINE g == c \o d
                 h == b \o g
      <4>1. g \in Seq(Symbol) /\ h \in Seq(Symbol)
        BY <3>1, Concat
      <4>2. g \o e = c \o (d \o e)
        BY <3>1, Regrouped, Zenon
      <4> HIDE DEF g
      <4>3. h \o e = b \o (g \o e)
        BY <3>1, <4>1, Regrouped, Zenon
      <4> HIDE DEF h
      <4>4. (a \o h) \o e = a \o (h \o e)
        <5>1. a \in Seq(Symbol) /\ h \in Seq(Symbol) /\ e \in Seq(Symbol)
          BY <3>1, <4>1
        <5> QED
          BY <5>1, Regrouped, Zenon
      <4> QED
        BY <4>2, <4>3, <4>4 DEF g, h
    <3> QED
      BY <3>2, <3>3, <3>4 DEF a, e
  <2>7. upto[N - m].text \o p[N - m] = upto[N].text \o Ending(kind)
    BY <2>1, <2>2, <2>6
  <2> QED
    BY <2>1, <2>7
<1>13. N \in T
  <2> HIDE DEF T
  <2>1. 0 .. N \subseteq T
    BY <1>1, <1>11, <1>12, UpTo
  <2> QED
    BY <1>1, <2>1
<1>14. upto[0].text \o p[0] = upto[N].text \o Ending(kind)
  <2>1. N - N = 0
    BY <1>1
  <2>2. upto[N - N].text \o p[N - N] = upto[N].text \o Ending(kind)
    BY <1>13
  <2> QED
    BY <2>1, <2>2
<1>15. Begun(kind, parts) = upto[N] /\ upto[0] = Opening(kind)
  BY <1>1, <1>10 DEF BeginsUpto
<1> QED
  BY <1>9, <1>14, <1>15 DEF N, parts

\* The texts of a level, by what they begin with.
LEMMA Grammar ==
  ASSUME NEW n \in 0 .. NestingLimit, NEW x \in Language(n)
  PROVE  /\ x \in Seq(Symbol)
         /\ \/ x = <<"n">> \/ x = <<"s">>
            \/ /\ n # 0 /\ n - 1 \in 0 .. NestingLimit
               /\ \E kind \in {"Array", "Object"}, N \in Nat, p \in Remains :
                    Plan(p, N, kind, n - 1) /\ x = <<Opens(kind)>> \o p[0]
<1>1. PICK v \in Values[n] : x = JsonText[n][v].text
  BY DEF Language
<1>2. x \in Seq(Symbol)
  BY <1>1, TextsAre DEF Parts
<1>3. CASE v.kind \in {"n", "s"} /\ v.values = << >>
  <2>1. JsonText[n][v] = TextStep(v, JsonText, n)
    <3>1. JsonText[n] = [w \in Values[n] |-> TextStep(w, JsonText, n)]
      BY JsonTextSteps, Zenon
    <3> QED
      BY <3>1
  <2>2. /\ v.kind = "n" => JsonText[n][v] = Item ++ Part(<<"n">>, 0)
        /\ v.kind = "s" => JsonText[n][v] = Item ++ Part(<<"s">>, 1)
    BY <2>1 DEF TextStep
  <2>3. << >> \o <<"n">> = <<"n">> /\ << >> \o <<"s">> = <<"s">>
    OBVIOUS
  <2> QED
    BY <1>1, <1>2, <1>3, <2>2, <2>3 DEF Item, Part, ++
<1>4. CASE /\ v.kind \in {"Array", "Object"} /\ n # 0
           /\ n - 1 \in 0 .. NestingLimit /\ v.values \in Seq(Values[n - 1])
  <2> DEFINE kind == v.kind
             begun == Begun(kind, TextsOf(n - 1, v.values))
  <2>1. JsonText[n][v] = TextStep(v, JsonText, n)
    <3>1. JsonText[n] = [w \in Values[n] |-> TextStep(w, JsonText, n)]
      BY JsonTextSteps, Zenon
    <3> QED
      BY <3>1
  <2>2. JsonText[n][v] = Item ++ (begun ++ Part(<<Closes(kind)>>, 0))
    BY <1>4, <2>1 DEF TextStep, TextsOf, Closes
  <2>3. begun.text \in Seq(Symbol) /\ <<Closes(kind)>> \in Seq(Symbol)
    <3>1. TextsOf(n - 1, v.values) \in Seq(Parts)
      BY <1>4, TextsAre, TextsOfSteps
    <3>2. begun \in Parts
      <4> HIDE DEF kind
      <4> QED
        BY <3>1, BegunSteps
    <3> QED
      BY <3>2, EndingType DEF Parts
  <2> HIDE DEF begun
  <2>4. x = begun.text \o <<Closes(kind)>>
    <3>1. << >> \o (begun.text \o <<Closes(kind)>>) = begun.text \o <<Closes(kind)>>
      BY <2>3
    <3> QED
      BY <1>1, <2>2, <3>1 DEF Item, Part, ++
  <2>5. kind \in {"Array", "Object"} /\ Ending(kind) = <<Closes(kind)>>
        /\ Opening(kind).text = <<Opens(kind)>>
    BY <1>4 DEF Ending, Opening, Opens, Part
  <2>6. PICK p : /\ Plan(p, Len(v.values), kind, n - 1)
                 /\ begun.text \o Ending(kind) = Opening(kind).text \o p[0]
    <3>1. \E p : /\ Plan(p, Len(v.values), kind, n - 1)
                 /\ Begun(kind, TextsOf(n - 1, v.values)).text \o Ending(kind)
                    = Opening(kind).text \o p[0]
      <4>1. kind \in {"Root", "Array", "Object"}
        BY <1>4
      <4> HIDE DEF kind
      <4> QED
        BY <1>4, <4>1, PlanExists
    <3> QED
      BY <3>1 DEF begun
  <2>7. Len(v.values) \in Nat
    BY <1>4
  <2> HIDE DEF kind
  <2>8. p \in Remains
    BY <2>6, <2>7, PlanRemains
  <2> QED
    BY <1>2, <1>4, <2>4, <2>5, <2>6, <2>7, <2>8
<1> QED
  BY <1>3, <1>4, ValuesAre

\* Element k + 1 is left of a list, with what comes in front of it.
OneMore(p, k, kind, n) ==
  \E x \in Language(n) :
    IF k = 0 THEN p[k] = Name(kind).text \o (x \o p[k + 1])
    ELSE p[k] = <<",">> \o (Name(kind).text \o (x \o p[k + 1]))

\* What is left behind each element of a list.
LEMMA PlanSteps ==
  ASSUME NEW n \in 0 .. NestingLimit, NEW N \in Nat, NEW p, NEW kind, Plan(p, N, kind, n),
         NEW k \in 0 .. N
  PROVE  /\ p[k] \in Seq(Symbol) /\ p[N] = Ending(kind)
         /\ k < N => /\ k + 1 \in 0 .. N /\ p[k + 1] \in Seq(Symbol)
                     /\ OneMore(p, k, kind, n)
<1>1. /\ p \in [0 .. N -> Seq(Symbol)] /\ p[N] = Ending(kind)
      /\ \A j \in 1 .. N : \E x \in Language(n) :
           p[j - 1] = Comma(j).text \o (Name(kind).text \o (x \o p[j]))
  BY DEF Plan
<1>2. ASSUME k < N
      PROVE  OneMore(p, k, kind, n)
  <2>1. k + 1 \in 1 .. N /\ (k + 1) - 1 = k /\ (k + 1 = 1 <=> k = 0) /\ k + 1 \in 0 .. N
    BY <1>2
  <2>2. PICK x \in Language(n) :
          p[(k + 1) - 1] = Comma(k + 1).text \o (Name(kind).text \o (x \o p[k + 1]))
    BY <1>1, <2>1
  <2> DEFINE y == Name(kind).text \o (x \o p[k + 1])
  <2>3. p[k] = Comma(k + 1).text \o y
    BY <2>1, <2>2
  <2>4. y \in Seq(Symbol)
    <3>1. x \in Seq(Symbol) /\ p[k + 1] \in Seq(Symbol) /\ Name(kind).text \in Seq(Symbol)
      BY <1>1, <2>1, Grammar, Punctuation DEF Parts
    <3> QED
      BY <3>1
  <2> HIDE DEF y
  <2>5. CASE k = 0
    <3>1. Comma(k + 1).text = << >>
      BY <2>1, <2>5 DEF Comma, Nothing, Part
    <3> QED
      BY <2>3, <2>4, <2>5, <3>1, ConcatNothing DEF y, OneMore
  <2>6. CASE k # 0
    <3>1. Comma(k + 1).text = <<",">>
      BY <2>1, <2>6 DEF Comma, Part
    <3> QED
      BY <2>3, <2>6, <3>1 DEF y, OneMore
  <2> QED
    BY <2>5, <2>6
<1>3. p[k] \in Seq(Symbol) /\ (k < N => k + 1 \in 0 .. N /\ p[k + 1] \in Seq(Symbol))
  BY <1>1
<1> QED
  BY <1>1, <1>2, <1>3, Zenon

\* The list f, with elements of level n, expects what is left behind the element
\* that is being parsed, and behind the list.
Expecting(f, n, behind, after) ==
  /\ n \in 0 .. NestingLimit /\ \E S : f.values \in Seq(S)
  /\ \E N \in Nat, p \in Remains :
       /\ Plan(p, N, f.kind, n) /\ Len(f.values) < N /\ (f.kind = "Root" => N = 1)
       /\ after = p[Len(f.values) + 1] \o behind

\* The lists of s expect a text behind the element that is being parsed: g[n] is
\* what list n and those behind it expect.
Awaits(s, text) ==
  \E g \in [1 .. Len(s) + 1 -> Seq(Symbol)] :
    /\ g[Len(s) + 1] = << >> /\ g[1] = text
    /\ \A n \in 1 .. Len(s) : Expecting(s[n], NestingLimit - (Len(s) - n), g[n + 1], g[n])

LEMMA ExpectingType ==
  ASSUME NEW f, NEW n, NEW behind \in Seq(Symbol), NEW after, Expecting(f, n, behind, after)
  PROVE  after \in Seq(Symbol)
<1>1. PICK N \in Nat, p \in Remains :
       /\ Plan(p, N, f.kind, n) /\ Len(f.values) < N
       /\ after = p[Len(f.values) + 1] \o behind
  BY DEF Expecting
<1>2. n \in 0 .. NestingLimit /\ Len(f.values) \in Nat
  BY DEF Expecting
<1>3. Len(f.values) \in 0 .. N
  BY <1>1, <1>2
<1>4. p[Len(f.values) + 1] \in Seq(Symbol)
  BY <1>1, <1>2, <1>3, PlanSteps
<1> QED
  BY <1>1, <1>4

\* No lists expect nothing.
LEMMA AwaitsNothing ==
  /\ Awaits(<< >>, << >>)
  /\ \A text : Awaits(<< >>, text) => text = << >>
<1>1. Len(<< >>) = 0 /\ 1 .. Len(<< >>) = {} /\ Len(<< >>) + 1 = 1 /\ 1 \in 1 .. 1
  OBVIOUS
<1> DEFINE g == [n \in 1 .. 1 |-> << >>]
<1>2. g \in [1 .. 1 -> Seq(Symbol)] /\ g[1] = << >>
  BY Concat
<1> HIDE DEF g
<1>3. Awaits(<< >>, << >>)
  BY <1>1, <1>2 DEF Awaits
<1>4. ASSUME NEW text, Awaits(<< >>, text) PROVE text = << >>
  BY <1>1, <1>4 DEF Awaits
<1> QED
  BY <1>3, <1>4

\* What lists expect is a text.
LEMMA AwaitsType ==
  ASSUME NEW S, NEW s \in Seq(S), NEW text, Awaits(s, text)
  PROVE  text \in Seq(Symbol)
<1>1. 1 \in 1 .. Len(s) + 1
  OBVIOUS
<1> QED
  BY <1>1 DEF Awaits

\* A list in front of s that expects something.
LEMMA AwaitsPush ==
  ASSUME NEW S, NEW s \in Seq(S), NEW text, Awaits(s, text),
         NEW f, NEW after, Expecting(f, NestingLimit - Len(s), text, after)
  PROVE  Awaits(<<f>> \o s, after)
<1> DEFINE t == <<f>> \o s
           N == Len(s)
           m == NestingLimit - N
<1>1. /\ Len(t) = N + 1 /\ t[1] = f /\ N \in Nat
      /\ \A n \in 1 .. N : t[n + 1] = s[n]
  BY SequenceFacts
<1>2. PICK g \in [1 .. N + 1 -> Seq(Symbol)] :
        /\ g[N + 1] = << >> /\ g[1] = text
        /\ \A n \in 1 .. N : Expecting(s[n], NestingLimit - (N - n), g[n + 1], g[n])
  BY DEF Awaits
<1>3. m \in 0 .. NestingLimit /\ NestingLimit \in Nat /\ text \in Seq(Symbol)
  BY ParserAssumption, AwaitsType DEF Expecting
<1>4. after \in Seq(Symbol)
  <2> HIDE DEF m
  <2> QED
    BY <1>3, ExpectingType DEF m
<1> HIDE DEF t
<1> DEFINE k == [n \in 1 .. Len(t) + 1 |-> IF n = 1 THEN after ELSE g[n - 1]]
<1>5. k \in [1 .. Len(t) + 1 -> Seq(Symbol)]
  <2>1. ASSUME NEW n \in 1 .. Len(t) + 1, n # 1 PROVE g[n - 1] \in Seq(Symbol)
    <3>1. n - 1 \in 1 .. N + 1
      BY <1>1, <2>1
    <3> QED
      BY <3>1
  <2> QED
    BY <1>4, <2>1
<1>6. k[Len(t) + 1] = << >> /\ k[1] = after
  <2>1. Len(t) + 1 \in 1 .. Len(t) + 1 /\ Len(t) + 1 # 1 /\ (Len(t) + 1) - 1 = N + 1
        /\ 1 \in 1 .. Len(t) + 1
    BY <1>1
  <2> QED
    BY <1>2, <2>1
<1>7. ASSUME NEW n \in 1 .. Len(t)
      PROVE  Expecting(t[n], NestingLimit - (Len(t) - n), k[n + 1], k[n])
  <2>1. CASE n = 1
    <3>1. k[n] = after /\ k[n + 1] = text
      <4>1. n \in 1 .. Len(t) + 1 /\ n + 1 \in 1 .. Len(t) + 1 /\ n + 1 # 1 /\ (n + 1) - 1 = 1
        BY <1>1, <2>1
      <4> QED
        BY <1>2, <2>1, <4>1
    <3>2. NestingLimit - (Len(t) - n) = m
      BY <1>1, <1>3, <2>1
    <3> QED
      BY <1>1, <2>1, <3>1, <3>2
  <2>2. CASE n # 1
    <3>1. /\ n - 1 \in 1 .. N /\ (n - 1) + 1 = n /\ n \in 1 .. Len(t) + 1
          /\ n + 1 \in 1 .. Len(t) + 1 /\ n + 1 # 1 /\ (n + 1) - 1 = n
      BY <1>1, <2>2
    <3>2. k[n] = g[n - 1] /\ k[n + 1] = g[(n - 1) + 1]
      <4> QED
        BY <2>2, <3>1
    <3>3. t[n] = s[n - 1]
      BY <1>1, <3>1
    <3>4. NestingLimit - (Len(t) - n) = NestingLimit - (N - (n - 1))
      BY <1>1, <1>3
    <3> HIDE DEF k, N
    <3> QED
      BY <1>2, <3>1, <3>2, <3>3, <3>4
  <2> QED
    BY <2>1, <2>2
<1> HIDE DEF k
<1> QED
  BY <1>5, <1>6, <1>7 DEF Awaits, t

\* What the lists behind the one in front expect.
LEMMA AwaitsPop ==
  ASSUME NEW S, NEW s \in Seq(S), s # << >>, NEW text, Awaits(s, text)
  PROVE  \E behind \in Seq(Symbol) :
           /\ Awaits(Tail(s), behind)
           /\ Expecting(s[1], NestingLimit - (Len(s) - 1), behind, text)
<1> DEFINE t == Tail(s)
           N == Len(s)
<1>1. /\ Len(t) = N - 1 /\ N \in Nat \ {0}
      /\ \A n \in 1 .. N - 1 : t[n] = s[n + 1]
  BY SequenceFacts
<1>2. PICK g \in [1 .. N + 1 -> Seq(Symbol)] :
        /\ g[N + 1] = << >> /\ g[1] = text
        /\ \A n \in 1 .. N : Expecting(s[n], NestingLimit - (N - n), g[n + 1], g[n])
  BY DEF Awaits
<1> HIDE DEF t
<1> DEFINE k == [n \in 1 .. Len(t) + 1 |-> g[n + 1]]
<1>3. k \in [1 .. Len(t) + 1 -> Seq(Symbol)]
  <2>1. ASSUME NEW n \in 1 .. Len(t) + 1 PROVE g[n + 1] \in Seq(Symbol)
    <3>1. n + 1 \in 1 .. N + 1
      BY <1>1
    <3> QED
      BY <3>1
  <2> QED
    BY <2>1
<1>4. k[Len(t) + 1] = << >> /\ k[1] = g[1 + 1]
  <2>1. Len(t) + 1 \in 1 .. Len(t) + 1 /\ (Len(t) + 1) + 1 = N + 1 /\ 1 \in 1 .. Len(t) + 1
    BY <1>1
  <2> QED
    BY <1>2, <2>1
<1>5. ASSUME NEW n \in 1 .. Len(t)
      PROVE  Expecting(t[n], NestingLimit - (Len(t) - n), k[n + 1], k[n])
  <2>1. n + 1 \in 1 .. N /\ n \in 1 .. Len(t) + 1 /\ n + 1 \in 1 .. Len(t) + 1
    BY <1>1
  <2>2. k[n] = g[n + 1] /\ k[n + 1] = g[(n + 1) + 1] /\ t[n] = s[n + 1]
    BY <1>1, <2>1
  <2>3. Len(t) - n = N - (n + 1)
    BY <1>1
  <2> HIDE DEF k, N
  <2> QED
    BY <1>2, <2>1, <2>2, <2>3
<1>6. Awaits(t, k[1])
  <2> HIDE DEF k
  <2> QED
    BY <1>3, <1>4, <1>5 DEF Awaits
<1>7. k[1] \in Seq(Symbol)
  <2>1. 1 \in 1 .. Len(t) + 1
    BY <1>1
  <2> HIDE DEF k
  <2> QED
    BY <1>3, <2>1
<1>8. Expecting(s[1], NestingLimit - (N - 1), k[1], text)
  <2>1. 1 \in 1 .. N
    BY <1>1
  <2> HIDE DEF k, N
  <2> QED
    BY <1>2, <1>4, <2>1
<1> HIDE DEF k
<1> QED
  BY <1>6, <1>7, <1>8 DEF t

-----------------------------------------------------------------------------
(* What is left to read of the buffer.                                      *)

\* Between the offset o and the end of a text, R is left to read.
Left(o, t, R) == o \in 0 .. t /\ R \in Seq(Symbol) /\ Shown[t] = Shown[o] \o R

\* There is no byte order mark behind o.
BehindMark(o) == o # 0 \/ ~Marked

\* A text grows at its end.
LEMMA Grows ==
  ASSUME input \in Seq(Symbol), NEW o \in 0 .. Len(input), NEW t \in o .. Len(input)
  PROVE  \E R \in Seq(Symbol) : Shown[t] = Shown[o] \o R
<1> DEFINE N == t - o
           T == {j \in 0 .. N : \E R \in Seq(Symbol) : Shown[o + j] = Shown[o] \o R}
<1>1. N \in Nat /\ o + N = t /\ o + 0 = o /\ 0 \in 0 .. N /\ N \in 0 .. N
  OBVIOUS
<1>2. Shown \in [0 .. Len(input) -> Seq(Symbol)]
  BY ShownSteps
<1>3. 0 \in T
  <2>1. Shown[o] = Shown[o] \o << >> /\ << >> \in Seq(Symbol)
    BY <1>2, ConcatNothing, Concat
  <2> QED
    BY <1>1, <2>1
<1>4. ASSUME NEW j \in 1 .. N, j - 1 \in T PROVE j \in T
  <2>1. /\ o + j \in 1 .. Len(input) /\ (o + j) - 1 = o + (j - 1) /\ j \in 0 .. N
        /\ o + (j - 1) \in 0 .. Len(input)
    OBVIOUS
  <2>2. PICK R \in Seq(Symbol) : Shown[o + (j - 1)] = Shown[o] \o R
    BY <1>4
  <2> HIDE DEF N
  <2>3. CASE Hidden(o + j)
    <3>1. Shown[o + j] = Shown[o + (j - 1)]
      BY <2>1, <2>3, ShownSteps
    <3> QED
      BY <2>1, <2>2, <3>1
  <2>4. CASE ~Hidden(o + j)
    <3> DEFINE c == input[o + j]
               u == Shown[o]
    <3>1. c \in Symbol /\ u \in Seq(Symbol) /\ <<c>> \in Seq(Symbol)
      BY <1>2, <2>1
    <3>2. Shown[o + j] = Append(Shown[o + (j - 1)], c)
      BY <2>1, <2>4, ShownSteps
    <3> HIDE DEF c, u
    <3>3. Append(Shown[o + (j - 1)], c) = Shown[o + (j - 1)] \o <<c>>
      BY <1>2, <2>1, <3>1
    <3>4. (u \o R) \o <<c>> = u \o (R \o <<c>>)
      BY <3>1, Regrouped, Zenon
    <3>5. Shown[o + j] = Shown[o] \o (R \o <<c>>) /\ R \o <<c>> \in Seq(Symbol)
      BY <2>2, <3>1, <3>2, <3>3, <3>4, Concat DEF u
    <3> QED
      BY <2>1, <3>5
  <2> QED
    BY <2>3, <2>4
<1>5. N \in T
  <2> HIDE DEF T, N
  <2>1. 0 .. N \subseteq T
    BY <1>1, <1>3, <1>4, UpTo
  <2> QED
    BY <1>1, <2>1
<1>6. \E R \in Seq(Symbol) : Shown[o + N] = Shown[o] \o R
  BY <1>5
<1> QED
  BY <1>1, <1>6

\* A symbol that is no white space shows.
LEMMA Shows ==
  ASSUME input \in Seq(Symbol), NEW k \in 0 .. Len(input), NEW t \in k + 1 .. Len(input),
         input[k + 1] \notin Space, BehindMark(k)
  PROVE  /\ input[k + 1] \in Symbol
         /\ \E y \in Seq(Symbol) :
              /\ Shown[t] = Shown[k + 1] \o y
              /\ Shown[t] = Shown[k] \o (<<input[k + 1]>> \o y)
<1> DEFINE c == input[k + 1]
           u == Shown[k]
<1>1. k + 1 \in 1 .. Len(input) /\ (k + 1) - 1 = k /\ k + 1 \in 0 .. Len(input)
      /\ (k + 1 = 1 <=> k = 0)
  OBVIOUS
<1>2. c \in Symbol
  BY <1>1
<1>3. Shown[k + 1] = Append(u, c)
  <2>1. ~Hidden(k + 1)
    BY <1>1 DEF Hidden, BehindMark
  <2> QED
    BY <1>1, <2>1, ShownSteps
<1>4. u \in Seq(Symbol) /\ <<c>> \in Seq(Symbol)
  BY <1>1, <1>2, ShownSteps
<1>5. PICK y \in Seq(Symbol) : Shown[t] = Shown[k + 1] \o y
  BY <1>1, Grows
<1> HIDE DEF c, u
<1>6. Append(u, c) = u \o <<c>>
  BY <1>2, <1>4
<1>7. (u \o <<c>>) \o y = u \o (<<c>> \o y)
  BY <1>4, Regrouped, Zenon
<1>8. Shown[t] = u \o (<<c>> \o y)
  BY <1>3, <1>5, <1>6, <1>7
<1> QED
  BY <1>2, <1>5, <1>8 DEF c, u

\* Nothing is not something.
LEMMA SomethingIsLeft ==
  ASSUME NEW u \in Seq(Symbol), NEW c \in Symbol, NEW y \in Seq(Symbol)
  PROVE  u # u \o (<<c>> \o y)
<1> DEFINE v == <<c>> \o y
<1>1. v \in Seq(Symbol) /\ v # << >>
  OBVIOUS
<1> HIDE DEF v
<1>2. u \o << >> = u /\ << >> \in Seq(Symbol)
  BY ConcatNothing, Concat
<1>3. ASSUME u = u \o v PROVE FALSE
  <2>1. u \o << >> = u \o v
    BY <1>2, <1>3
  <2>2. << >> = v
    BY <1>1, <1>2, <2>1, Cancel, Zenon
  <2> QED
    BY <1>1, <2>2
<1> QED
  BY <1>3 DEF v

\* What is skipped is white space, and nothing is skipped twice.
LEMMA SkipsSpaces ==
  ASSUME input \in Seq(Symbol), NEW o \in 0 .. Len(input)
  PROVE  LET k == buffer_skip_whitespace(o)
         IN  /\ \A n \in o + 1 .. k : input[n] \in Space
             /\ k < Len(input) /\ input[k + 1] \notin Space => buffer_skip_whitespace(k) = k
<1> DEFINE text(a) == {n \in a .. Len(input) - 1 : input[n + 1] \notin Space}
           first(a) == CHOOSE n \in text(a) : \A m \in text(a) : n <= m
           skip(a) == buffer_skip_whitespace(a)
           k == skip(o)
<1>1. \A a : skip(a) = IF a >= Len(input) THEN a
                       ELSE IF text(a) = {} THEN Len(input) - 1 ELSE first(a)
  BY DEF buffer_skip_whitespace
<1>2. ASSUME NEW a \in 0 .. Len(input), text(a) # {}
      PROVE  first(a) \in text(a) /\ \A m \in text(a) : first(a) <= m
  <2> DEFINE S == text(a)
  <2>1. S \subseteq Nat /\ S # {}
    BY <1>2
  <2> HIDE DEF S
  <2>2. \E n \in S : \A m \in S : n <= m
    BY <2>1, LeastNat
  <2> QED
    BY <2>2 DEF S
<1>3. k \in o .. Len(input) /\ Len(input) \in Nat
      /\ (o >= Len(input) => k = o) /\ (o < Len(input) => k \in o .. Len(input) - 1)
  BY Skip
<1> HIDE DEF skip, first
<1>4. ASSUME NEW n \in o + 1 .. k PROVE input[n] \in Space
  <2>1. o < Len(input)
    BY <1>3
  <2>2. n - 1 \in o .. Len(input) - 1 /\ (n - 1) + 1 = n /\ n - 1 < k
    BY <1>3
  <2>3. CASE text(o) = {}
    BY <2>2, <2>3
  <2>4. CASE text(o) # {}
    <3>1. k = first(o)
      BY <1>1, <2>1, <2>4
    <3>2. \A m \in text(o) : k <= m
      BY <1>2, <2>4, <3>1
    <3>3. n - 1 \notin text(o)
      BY <1>3, <2>2, <3>2
    <3> QED
      BY <2>2, <3>3
  <2> QED
    BY <2>3, <2>4
<1>5. ASSUME k < Len(input), input[k + 1] \notin Space PROVE skip(k) = k
  <2>1. k \in text(k) /\ k \in 0 .. Len(input)
    BY <1>3, <1>5
  <2>2. skip(k) = first(k)
    BY <1>1, <1>3, <1>5, <2>1
  <2>3. first(k) \in text(k) /\ first(k) <= k
    BY <1>2, <2>1
  <2>4. first(k) \in k .. Len(input) - 1
    BY <2>3
  <2> QED
    BY <1>3, <2>2, <2>3, <2>4
<1> QED
  BY <1>4, <1>5 DEF skip

\* If c is the next symbol that is left to read, it is the one that comes behind
\* the white space.
LEMMA NextSymbol ==
  ASSUME input \in Seq(Symbol), NEW t \in 0 .. Len(input), NEW o, BehindMark(o),
         NEW c \in Symbol, NEW R \in Seq(Symbol), Left(o, t, <<c>> \o R)
  PROVE  LET k == buffer_skip_whitespace(o)
         IN  /\ k \in o .. Len(input) - 1 /\ k + 1 \in 1 .. t /\ BehindMark(k)
             /\ SymbolAt(k, 0) = c /\ input[k + 1] = c /\ c \notin Space
             /\ Left(k, t, <<c>> \o R) /\ Left(k + 1, t, R)
             /\ buffer_skip_whitespace(k) = k
<1> DEFINE k == buffer_skip_whitespace(o)
           all == <<c>> \o R
<1>1. /\ o \in 0 .. t /\ o \in 0 .. Len(input) /\ Shown[t] = Shown[o] \o all /\ Len(input) \in Nat
      /\ all \in Seq(Symbol)
  BY DEF Left
<1>2. Shown[o] \in Seq(Symbol)
  BY <1>1, ShownSteps
<1>3. Shown[t] # Shown[o]
  BY <1>1, <1>2, SomethingIsLeft
<1>4. k \in o .. Len(input) /\ k \in 0 .. Len(input) /\ Shown[k] = Shown[o]
  BY <1>1, Skip, Skipped
<1>5. \A n \in o + 1 .. k : input[n] \in Space
  BY <1>1, SkipsSpaces
<1>6. k < t
  <2>1. SUFFICES ASSUME ~(k < t) PROVE FALSE
    OBVIOUS
  <2>2. t \in o .. Len(input) /\ \A n \in o + 1 .. t : n \in o + 1 .. k
    <3> HIDE DEF k
    <3> QED
      BY <1>1, <1>4, <2>1
  <2>3. \A n \in o + 1 .. t : input[n] \in Space
    BY <1>5, <2>2
  <2>4. Shown[t] = Shown[o]
    BY <1>1, <2>2, <2>3, SpacesAddNothing
  <2> QED
    BY <1>3, <2>4
<1>7. SymbolAt(k, 0) \in Space => k = Len(input) - 1 /\ Shown[Len(input)] = Shown[k]
  BY <1>1, Skipped
<1>8. (buffer_skip_whitespace(k) = k) \/ k >= Len(input) \/ input[k + 1] \in Space
  BY <1>1, <1>4, SkipsSpaces
<1> HIDE DEF k, all
<1>9. /\ k \in o .. Len(input) - 1 /\ k + 1 \in 1 .. t /\ t \in k + 1 .. Len(input)
      /\ k + 0 < Len(input) /\ k + 0 + 1 = k + 1 /\ k \in 0 .. t /\ k + 1 \in 0 .. t
      /\ (k = 0 => o = 0)
  BY <1>1, <1>4, <1>6
<1>10. SymbolAt(k, 0) = input[k + 1]
  BY <1>9 DEF SymbolAt
<1>11. input[k + 1] \notin Space
  <2>1. SUFFICES ASSUME input[k + 1] \in Space PROVE FALSE
    OBVIOUS
  <2>2. k = Len(input) - 1 /\ Shown[Len(input)] = Shown[k]
    BY <1>7, <1>10, <2>1
  <2>3. t = Len(input)
    BY <1>1, <1>9, <2>2
  <2> QED
    BY <1>3, <1>4, <2>2, <2>3
<1>12. BehindMark(k)
  BY <1>9 DEF BehindMark
<1>13. PICK y \in Seq(Symbol) :
         /\ Shown[t] = Shown[k + 1] \o y
         /\ Shown[t] = Shown[k] \o (<<input[k + 1]>> \o y)
  BY <1>4, <1>9, <1>11, <1>12, Shows
<1>14. input[k + 1] = c /\ y = R
  <2> DEFINE d == input[k + 1]
             w == <<d>> \o y
  <2>1. d \in Symbol /\ w \in Seq(Symbol)
    BY <1>4, <1>9, <1>11, <1>12, Shows
  <2> HIDE DEF d
  <2>2. Shown[o] \o all = Shown[o] \o w
    BY <1>1, <1>4, <1>13 DEF d
  <2> HIDE DEF w
  <2>3. all = w
    BY <1>1, <1>2, <2>1, <2>2, Cancel, Zenon
  <2>4. c = d /\ R = y
    BY <2>1, <2>3, SameFirst DEF all, w
  <2> QED
    BY <2>4 DEF d
<1>15. Left(k, t, all) /\ Left(k + 1, t, R)
  BY <1>1, <1>4, <1>9, <1>13, <1>14 DEF Left
<1>16. ~(k >= Len(input))
  BY <1>1, <1>9
<1> QED
  BY <1>8, <1>9, <1>10, <1>11, <1>12, <1>14, <1>15, <1>16 DEF k, all

\* If nothing is left to read in front of a NUL at the end, the NUL is found.
LEMMA NulIsFound ==
  ASSUME input \in Seq(Symbol), NEW o, Left(o, Len(input), << >>), o # 0,
         input[o] \notin Space, input[Len(input)] = "NUL"
  PROVE  SymbolAt(buffer_skip_whitespace(o), 0) = "NUL"
<1> DEFINE k == buffer_skip_whitespace(o)
           N == Len(input)
<1>1. o \in 0 .. N /\ N \in Nat /\ Shown[N] = Shown[o] \o << >>
  BY DEF Left
<1>2. Shown[o] \in Seq(Symbol)
  BY <1>1, ShownSteps
<1>3. Shown[N] = Shown[o]
  BY <1>1, <1>2, ConcatNothing
<1>4. o < N
  <2>1. o # N
    BY DEF Space
  <2> QED
    BY <1>1, <2>1
<1>5. k \in o .. N - 1 /\ Shown[k] = Shown[o]
  BY <1>1, <1>4, Skip, Skipped
<1>6. SymbolAt(k, 0) \in Space => k = N - 1
  BY <1>1, Skipped
<1> HIDE DEF k
<1>7. k + 0 < N /\ k + 0 + 1 = k + 1 /\ k \in 0 .. N /\ N \in k + 1 .. N /\ k # 0
  BY <1>1, <1>5
<1>8. SymbolAt(k, 0) = input[k + 1]
  BY <1>7 DEF SymbolAt
<1>9. input[k + 1] \in Space
  <2>1. SUFFICES ASSUME input[k + 1] \notin Space PROVE FALSE
    OBVIOUS
  <2>2. BehindMark(k)
    BY <1>7 DEF BehindMark
  <2>3. PICK y \in Seq(Symbol) : Shown[N] = Shown[k] \o (<<input[k + 1]>> \o y)
    BY <1>7, <2>1, <2>2, Shows
  <2>4. input[k + 1] \in Symbol
    BY <1>7, <2>1, <2>2, Shows
  <2> QED
    BY <1>2, <1>3, <1>5, <2>3, <2>4, SomethingIsLeft
<1>10. k = N - 1 /\ k + 1 = N
  BY <1>1, <1>6, <1>8, <1>9
<1> QED
  BY <1>8, <1>10 DEF k

-----------------------------------------------------------------------------
(* The invariant of what is wanted: as long as memory suffices, the parser   *)
(* is on its way to the end of every text that the buffer begins with.       *)

\* The text in front of t is one that must be read.
Wanted(t) ==
  /\ t \in 0 .. Len(input) /\ Shown[t] \in Language(NestingLimit)
  /\ require_null_terminated => t = Len(input) /\ input[Len(input)] = "NUL"

\* What is left behind o of the text, by where the parser is in the lists s, the
\* first of which has elements of level n.
ValueLeft(s, n, o, t) ==
  /\ BehindMark(o) /\ buffer_skip_whitespace(o) = o
  /\ \E x \in Language(n), after \in Seq(Symbol) : Awaits(s, after) /\ Left(o, t, x \o after)

NextLeft(s, n, o, t) ==
  /\ o # 0 /\ input[o] \notin Space /\ \E S : s[1].values \in Seq(S)
  /\ \E below \in Seq(Symbol), N \in Nat, p \in Remains :
       /\ Awaits(Tail(s), below) /\ Plan(p, N, s[1].kind, n) /\ (s[1].kind = "Root" => N = 1)
       /\ Len(s[1].values) \in 1 .. N /\ Left(o, t, p[Len(s[1].values)] \o below)

ElementLeft(s, n, o, t) ==
  /\ s[1].kind # "Root"
  /\ \E x \in Language(n), after \in Seq(Symbol) :
       Awaits(s, after) /\ Left(o + 1, t, Name(s[1].kind).text \o (x \o after))

NameLeft(s, n, o, t) ==
  /\ BehindMark(o) /\ buffer_skip_whitespace(o) = o
  /\ \E x \in Language(n), after \in Seq(Symbol) :
       Awaits(s, after) /\ Left(o, t, <<"s", ":">> \o (x \o after))

OnTheWay(t) ==
  /\ pc \notin {"fail", "failed"}
  /\ pc = "value" => ValueLeft(stack, NestingLimit - depth, offset, t)
  /\ pc = "next" => NextLeft(stack, NestingLimit - depth, offset, t)
  /\ pc = "element" => ElementLeft(stack, NestingLimit - depth, offset, t)
  /\ pc = "name" => NameLeft(stack, NestingLimit - depth, offset, t)

GoalInv == \A t : Wanted(t) /\ ~starved => OnTheWay(t)

\* Where the parser gets to, it is on its way.
LEMMA Arrives ==
  ASSUME UNCHANGED input, NEW t,
         \/ pc' = "value" /\ ValueLeft(stack', NestingLimit - depth', offset', t)
         \/ pc' = "next" /\ NextLeft(stack', NestingLimit - depth', offset', t)
         \/ pc' = "element" /\ ElementLeft(stack', NestingLimit - depth', offset', t)
         \/ pc' = "name" /\ NameLeft(stack', NestingLimit - depth', offset', t)
  PROVE  OnTheWay(t)'
<1>1. Shown' = Shown
  BY ShownStays
<1>2. /\ \A R : Left(offset, t, R)' = Left(offset', t, R)
      /\ \A R : Left(offset + 1, t, R)' = Left(offset' + 1, t, R)
  BY <1>1 DEF Left
<1>3. BehindMark(offset)' = BehindMark(offset')
  BY DEF BehindMark, Marked
<1>4. buffer_skip_whitespace(offset)' = buffer_skip_whitespace(offset')
  BY DEF buffer_skip_whitespace
<1>5. /\ ValueLeft(stack, NestingLimit - depth, offset, t)'
         = ValueLeft(stack', NestingLimit - depth', offset', t)
      /\ NameLeft(stack, NestingLimit - depth, offset, t)'
         = NameLeft(stack', NestingLimit - depth', offset', t)
  BY <1>2, <1>3, <1>4 DEF ValueLeft, NameLeft
<1>6. NextLeft(stack, NestingLimit - depth, offset, t)'
      = NextLeft(stack', NestingLimit - depth', offset', t)
  BY <1>2 DEF NextLeft
<1>7. ElementLeft(stack, NestingLimit - depth, offset, t)'
      = ElementLeft(stack', NestingLimit - depth', offset', t)
  BY <1>2 DEF ElementLeft
<1> QED
  BY <1>5, <1>6, <1>7, Zenon DEF OnTheWay

\* The text of a value begins with one of four symbols.
LEMMA FirstSymbol ==
  ASSUME NEW n \in 0 .. NestingLimit, NEW x \in Language(n), NEW y \in Seq(Symbol)
  PROVE  \E c \in {"n", "s", "[", "{"}, R \in Seq(Symbol) : x \o y = <<c>> \o R
<1>1. ASSUME NEW c \in Symbol, NEW z \in Seq(Symbol)
      PROVE  (<<c>> \o z) \o y = <<c>> \o (z \o y) /\ z \o y \in Seq(Symbol)
  <2>1. <<c>> \in Seq(Symbol)
    BY Concat
  <2>2. (<<c>> \o z) \o y = <<c>> \o (z \o y)
    BY <2>1, Regrouped, Zenon
  <2> QED
    BY <2>2, Concat
<1>2. CASE x = <<"n">> \/ x = <<"s">>
  BY <1>2
<1>3. CASE /\ n # 0 /\ n - 1 \in 0 .. NestingLimit
           /\ \E kind \in {"Array", "Object"}, N \in Nat, p \in Remains :
                Plan(p, N, kind, n - 1) /\ x = <<Opens(kind)>> \o p[0]
  <2>1. PICK kind \in {"Array", "Object"}, N \in Nat, p \in Remains :
          Plan(p, N, kind, n - 1) /\ x = <<Opens(kind)>> \o p[0]
    BY <1>3
  <2>2. p[0] \in Seq(Symbol)
    <3>1. 0 \in 0 .. N
      OBVIOUS
    <3> QED
      BY <1>3, <2>1, <3>1, PlanSteps
  <2>3. Opens(kind) \in {"n", "s", "[", "{"} /\ Opens(kind) \in Symbol
    BY DEF Opens, Symbol
  <2> DEFINE c == Opens(kind)
             z == p[0]
  <2> HIDE DEF c, z
  <2>4. x \o y = <<c>> \o (z \o y) /\ z \o y \in Seq(Symbol)
    BY <1>1, <2>1, <2>2, <2>3 DEF c, z
  <2> QED
    BY <2>3, <2>4 DEF c
<1> QED
  BY <1>2, <1>3, Grammar

\* The next symbol of what is left, which is skipped to, is in front of the rest.
LEMMA SkippedToValue ==
  ASSUME input \in Seq(Symbol), NEW t \in 0 .. Len(input), NEW o, BehindMark(o),
         NEW n \in 0 .. NestingLimit, NEW x \in Language(n), NEW after \in Seq(Symbol),
         Left(o, t, x \o after)
  PROVE  LET k == buffer_skip_whitespace(o)
         IN  /\ k \in o .. Len(input) - 1 /\ SymbolAt(k, 0) \in {"n", "s", "[", "{"}
             /\ BehindMark(k) /\ buffer_skip_whitespace(k) = k /\ Left(k, t, x \o after)
<1>1. PICK c \in {"n", "s", "[", "{"}, R \in Seq(Symbol) : x \o after = <<c>> \o R
  BY FirstSymbol
<1>2. c \in Symbol
  BY DEF Symbol
<1>3. Left(o, t, <<c>> \o R)
  BY <1>1
<1> QED
  BY <1>1, <1>2, <1>3, NextSymbol

\* A value that has been read up to o, for the list on top of frames.
LEMMA ParsedOnTheWay ==
  ASSUME NEW frames, IsStack(frames), frames # << >>,
         NestingLimit - depth' = NestingLimit - (Len(frames) - 1),
         NEW v, NEW o, NEW new, Parsed(v, o, frames, new), o # 0, input[o] \notin Space,
         NEW t, NEW after \in Seq(Symbol), Awaits(frames, after), Left(o, t, after)
  PROVE  OnTheWay(t)'
<1> DEFINE f == Filled(frames[1], v, new)
           n == NestingLimit - (Len(frames) - 1)
<1>1. /\ UNCHANGED input /\ offset' = o /\ pc' = "next" /\ stack' = <<f>> \o Tail(frames)
  BY DEF Parsed, call
<1>2. PICK S : frames \in Seq(S)
  BY DEF IsStack
<1>3. stack'[1] = f /\ Tail(stack') = Tail(frames)
  <2> DEFINE rest == Tail(frames)
  <2>1. rest \in Seq(S)
    BY <1>2
  <2> HIDE DEF f, rest
  <2>2. rest \in Seq(S \cup {f}) /\ <<f>> \in Seq(S \cup {f})
    BY <2>1
  <2>3. (<<f>> \o rest)[1] = f /\ Tail(<<f>> \o rest) = rest
    BY <2>2
  <2> QED
    BY <1>1, <2>3 DEF rest
<1>4. PICK below \in Seq(Symbol) : Awaits(Tail(frames), below) /\ Expecting(frames[1], n, below, after)
  BY <1>2, AwaitsPop
<1>5. PICK N \in Nat, p \in Remains :
       /\ Plan(p, N, frames[1].kind, n) /\ Len(frames[1].values) < N
       /\ frames[1].kind = "Root" => N = 1
       /\ after = p[Len(frames[1].values) + 1] \o below
  BY <1>4 DEF Expecting
<1>6. PICK V : frames[1].values \in Seq(V)
  BY <1>4 DEF Expecting
<1>7. /\ f.kind = frames[1].kind /\ f.values \in Seq(V \cup {v})
      /\ Len(f.values) = Len(frames[1].values) + 1
  <2>1. f.kind = frames[1].kind /\ f.values = Append(frames[1].values, v)
    BY DEF Filled
  <2>2. frames[1].values \in Seq(V \cup {v})
    BY <1>6
  <2> HIDE DEF f
  <2> QED
    BY <2>1, <2>2
<1>8. Len(f.values) \in 1 .. N
  <2>1. Len(frames[1].values) \in Nat
    BY <1>6
  <2> HIDE DEF f
  <2> QED
    BY <1>5, <1>7, <2>1
<1> HIDE DEF f
<1>9. NextLeft(stack', n, o, t)
  BY <1>3, <1>4, <1>5, <1>7, <1>8 DEF NextLeft
<1> QED
  BY <1>1, <1>9, Arrives DEF n

\* In front of a value: what it begins with, and what is left behind that.
LEMMA ValueBegins ==
  ASSUME IInv, NEW t \in 0 .. Len(input), OnTheWay(t), pc = "value"
  PROVE  /\ offset + 1 \in 0 .. Len(input) /\ offset + 1 # 0 /\ input[offset + 1] \notin Space
         /\ \E after \in Seq(Symbol) :
              /\ Awaits(stack, after)
              /\ \/ SymbolAt(offset, 0) \in {"n", "s"} /\ Left(offset + 1, t, after)
                 \/ /\ depth < NestingLimit
                    /\ \E kind \in {"Array", "Object"}, N \in Nat, p \in Remains :
                         /\ Plan(p, N, kind, NestingLimit - (depth + 1))
                         /\ SymbolAt(offset, 0) = Opens(kind)
                         /\ Left(offset + 1, t, p[0] \o after)
<1> DEFINE n == NestingLimit - depth
<1>1. /\ input \in Seq(Symbol) /\ offset \in 0 .. Len(input) /\ depth \in 0 .. NestingLimit
      /\ Len(input) \in Nat /\ NestingLimit \in Nat
  BY BeforeValue, ParserAssumption DEF Building
<1>2. n \in 0 .. NestingLimit /\ (n # 0 => depth < NestingLimit /\ n - 1 = NestingLimit - (depth + 1))
  BY <1>1
<1>3. ValueLeft(stack, n, offset, t)
  BY DEF OnTheWay
<1> HIDE DEF n
<1>4. BehindMark(offset) /\ buffer_skip_whitespace(offset) = offset
  BY <1>3 DEF ValueLeft
<1>5. PICK x \in Language(n), after \in Seq(Symbol) : Awaits(stack, after) /\ Left(offset, t, x \o after)
  BY <1>3 DEF ValueLeft
<1>6. ASSUME NEW c \in Symbol, NEW R \in Seq(Symbol), x \o after = <<c>> \o R
      PROVE  /\ offset + 1 \in 0 .. Len(input) /\ offset + 1 # 0 /\ input[offset + 1] \notin Space
             /\ SymbolAt(offset, 0) = c /\ Left(offset + 1, t, R)
  <2>1. Left(offset, t, <<c>> \o R)
    BY <1>5, <1>6
  <2>2. /\ offset \in offset .. Len(input) - 1 /\ SymbolAt(offset, 0) = c
        /\ input[offset + 1] = c /\ c \notin Space /\ Left(offset + 1, t, R)
    BY <1>1, <1>4, <2>1, NextSymbol
  <2>3. offset + 1 \in 0 .. Len(input) /\ offset + 1 # 0
    BY <1>1, <2>2
  <2> QED
    BY <2>2, <2>3
<1>7. CASE x = <<"n">> \/ x = <<"s">>
  <2>1. PICK c \in {"n", "s"} : x = <<c>>
    BY <1>7
  <2>2. c \in Symbol
    BY DEF Symbol
  <2> QED
    BY <1>5, <1>6, <2>1, <2>2
<1>8. CASE /\ n # 0 /\ n - 1 \in 0 .. NestingLimit
           /\ \E kind \in {"Array", "Object"}, N \in Nat, p \in Remains :
                Plan(p, N, kind, n - 1) /\ x = <<Opens(kind)>> \o p[0]
  <2>1. PICK kind \in {"Array", "Object"}, N \in Nat, p \in Remains :
          Plan(p, N, kind, n - 1) /\ x = <<Opens(kind)>> \o p[0]
    BY <1>8
  <2> DEFINE c == Opens(kind)
             z == p[0]
  <2>2. z \in Seq(Symbol) /\ c \in Symbol /\ <<c>> \in Seq(Symbol)
    <3>1. 0 \in 0 .. N
      OBVIOUS
    <3>2. z \in Seq(Symbol)
      BY <1>8, <2>1, <3>1, PlanSteps
    <3>3. c \in Symbol
      BY DEF Opens, Symbol
    <3> QED
      BY <3>2, <3>3, Concat
  <2>3. x = <<c>> \o z
    BY <2>1
  <2> HIDE DEF c, z
  <2>4. (<<c>> \o z) \o after = <<c>> \o (z \o after)
    BY <2>2, Regrouped, Zenon
  <2>5. x \o after = <<c>> \o (z \o after) /\ z \o after \in Seq(Symbol)
    BY <2>2, <2>3, <2>4, Concat
  <2>6. /\ offset + 1 \in 0 .. Len(input) /\ offset + 1 # 0 /\ input[offset + 1] \notin Space
        /\ SymbolAt(offset, 0) = c /\ Left(offset + 1, t, z \o after)
    BY <1>6, <2>2, <2>5
  <2>7. Plan(p, N, kind, NestingLimit - (depth + 1)) /\ depth < NestingLimit
    BY <1>2, <1>8, <2>1
  <2> QED
    BY <1>5, <2>6, <2>7 DEF c, z
<1> QED
  BY <1>2, <1>7, <1>8, Grammar

\* A number, a literal or a string, for which there is memory.
LEMMA ScalarOnTheWay ==
  ASSUME IInv, NEW t \in 0 .. Len(input), OnTheWay(t), parse_number \/ parse_string, ~starved'
  PROVE  OnTheWay(t)'
<1>1. pc = "value" /\ SymbolAt(offset, 0) \in {"n", "s", "quote"}
  BY DEF parse_number, parse_string
<1>2. PICK after \in Seq(Symbol) :
        /\ Awaits(stack, after)
        /\ \/ SymbolAt(offset, 0) \in {"n", "s"} /\ Left(offset + 1, t, after)
           \/ /\ depth < NestingLimit
              /\ \E kind \in {"Array", "Object"}, N \in Nat, p \in Remains :
                   /\ Plan(p, N, kind, NestingLimit - (depth + 1))
                   /\ SymbolAt(offset, 0) = Opens(kind)
                   /\ Left(offset + 1, t, p[0] \o after)
  BY <1>1, ValueBegins
<1>3. SymbolAt(offset, 0) \in {"n", "s"} /\ Left(offset + 1, t, after)
  BY <1>1, <1>2 DEF Opens
<1>4. PICK v, new : Parsed(v, offset + 1, stack, new) /\ UNCHANGED depth
  BY <1>3 DEF parse_number, parse_string, StarveAt
<1>5. offset + 1 # 0 /\ input[offset + 1] \notin Space
  BY <1>1, ValueBegins
<1>6. IsStack(stack) /\ stack # << >> /\ NestingLimit - depth' = NestingLimit - (Len(stack) - 1)
  BY <1>1, <1>4, BeforeValue DEF Building
<1> QED
  BY <1>2, <1>3, <1>4, <1>5, <1>6, ParsedOnTheWay

\* There is a value.
LEMMA NothingOnTheWay ==
  ASSUME IInv, NEW t \in 0 .. Len(input), OnTheWay(t), parse_nothing
  PROVE  FALSE
<1>1. pc = "value" /\ SymbolAt(offset, 0) \notin {"n", "s", "quote", "[", "{"}
  BY DEF parse_nothing
<1>2. SymbolAt(offset, 0) \in {"n", "s", "[", "{"}
  BY <1>1, ValueBegins DEF Opens
<1> QED
  BY <1>1, <1>2

\* Parts of what is left in a list, grouped either way.
Regroups(a, b, c, d) == (a \o (b \o c)) \o d = a \o (b \o (c \o d))
LEMMA RegroupedElement ==
  ASSUME NEW a \in Seq(Symbol), NEW b \in Seq(Symbol), NEW c \in Seq(Symbol), NEW d \in Seq(Symbol)
  PROVE  Regroups(a, b, c, d)
<1> DEFINE u == b \o c
<1>1. u \in Seq(Symbol)
  BY Concat
<1>2. u \o d = b \o (c \o d)
  <2>1. \A v \in Seq(Symbol) : (b \o v) \o d = b \o (v \o d)
    BY Regrouped
  <2> QED
    BY <2>1, Zenon
<1> HIDE DEF u
<1>3. (a \o u) \o d = a \o (u \o d)
  <2>1. \A v, w \in Seq(Symbol) : (a \o v) \o w = a \o (v \o w)
    BY Regrouped
  <2> QED
    BY <1>1, <2>1, Zenon
<1> QED
  BY <1>2, <1>3 DEF u, Regroups

\* What is left behind element k of a list and behind the list is the next
\* element, behind a comma or not, and what is left behind it.
GoesOn(p, k, kind, n, below) ==
  \E x \in Language(n), after \in Seq(Symbol) :
    LET R == Name(kind).text \o (x \o after)
    IN  /\ R \in Seq(Symbol) /\ after = p[k + 1] \o below
        /\ p[k] \o below = IF k = 0 THEN R ELSE <<",">> \o R

\* If it is not the end of the list.
LEMMA ListGoesOn ==
  ASSUME NEW n \in 0 .. NestingLimit, NEW N \in Nat, NEW p, NEW kind \in {"Array", "Object"},
         Plan(p, N, kind, n), NEW k \in 0 .. N, NEW below \in Seq(Symbol)
  PROVE  /\ k = N => p[k] \o below = <<Closes(kind)>> \o below
         /\ k # N => GoesOn(p, k, kind, n, below)
<1>1. k = N => p[k] \o below = <<Closes(kind)>> \o below
  <2>1. p[N] = Ending(kind)
    BY DEF Plan
  <2>2. Ending(kind) = <<Closes(kind)>>
    BY DEF Ending
  <2> QED
    BY <2>1, <2>2
<1>2. ASSUME k # N
      PROVE  GoesOn(p, k, kind, n, below)
  <2>1. k < N
    BY <1>2
  <2>2. PICK x \in Language(n) :
          IF k = 0 THEN p[k] = Name(kind).text \o (x \o p[k + 1])
          ELSE p[k] = <<",">> \o (Name(kind).text \o (x \o p[k + 1]))
    <3>1. OneMore(p, k, kind, n)
      BY <2>1, PlanSteps
    <3> QED
      BY <3>1 DEF OneMore
  <2> DEFINE a == Name(kind).text
             c == p[k + 1]
             R == a \o (x \o (c \o below))
  <2>3. a \in Seq(Symbol) /\ x \in Seq(Symbol) /\ c \in Seq(Symbol) /\ <<",">> \in Seq(Symbol)
    <3>1. a \in Seq(Symbol)
      BY Punctuation DEF Parts
    <3>2. x \in Seq(Symbol)
      BY Grammar
    <3>3. c \in Seq(Symbol)
      BY <2>1, PlanSteps
    <3>4. "," \in Symbol
      BY DEF Symbol
    <3> QED
      BY <3>1, <3>2, <3>3, <3>4, Concat
  <2>4. IF k = 0 THEN p[k] = a \o (x \o c) ELSE p[k] = <<",">> \o (a \o (x \o c))
    BY <2>2
  <2> HIDE DEF a, c
  <2>5. /\ (a \o (x \o c)) \o below = R /\ R \in Seq(Symbol) /\ c \o below \in Seq(Symbol)
    <3>1. a \in Seq(Symbol) /\ x \in Seq(Symbol) /\ c \in Seq(Symbol)
      BY <2>3
    <3>2. (a \o (x \o c)) \o below = a \o (x \o (c \o below))
      <4>1. Regroups(a, x, c, below)
        BY <3>1, RegroupedElement
      <4> QED
        BY <4>1 DEF Regroups
    <3>3. c \o below \in Seq(Symbol)
      BY <3>1, Concat
    <3>4. x \o (c \o below) \in Seq(Symbol)
      BY <3>1, <3>3, Concat
    <3>5. a \o (x \o (c \o below)) \in Seq(Symbol)
      BY <3>1, <3>4, Concat
    <3> QED
      BY <3>2, <3>3, <3>5
  <2>6. (<<",">> \o (a \o (x \o c))) \o below = <<",">> \o R
    <3> DEFINE u == a \o (x \o c)
    <3>1. u \in Seq(Symbol)
      <4>1. x \o c \in Seq(Symbol)
        BY <2>3, Concat
      <4> QED
        BY <2>3, <4>1, Concat
    <3>2. u \o below = R
      BY <2>5
    <3> HIDE DEF u, R
    <3>3. <<",">> \in Seq(Symbol)
      BY <2>3
    <3>4. (<<",">> \o u) \o below = <<",">> \o (u \o below)
      BY <3>1, <3>3, Regrouped, Zenon
    <3> QED
      BY <3>2, <3>4 DEF u
  <2>7. p[k] \o below = IF k = 0 THEN R ELSE <<",">> \o R
    BY <2>4, <2>5, <2>6
  <2> QED
    BY <2>5, <2>7 DEF a, c, GoesOn
<1> QED
  BY <1>1, <1>2

\* The name of a member is two symbols.
LEMMA NameIsTwo ==
  ASSUME NEW y \in Seq(Symbol)
  PROVE  <<"s", ":">> \o y = <<"s">> \o (<<":">> \o y) /\ <<":">> \o y \in Seq(Symbol)
<1>1. "s" \in Symbol /\ ":" \in Symbol
  BY DEF Symbol
<1>2. <<"s">> \in Seq(Symbol) /\ <<":">> \in Seq(Symbol)
  BY <1>1, Concat
<1>3. (<<"s">> \o <<":">>) \o y = <<"s">> \o (<<":">> \o y)
  BY <1>2, Regrouped, Zenon
<1>4. <<"s">> \o <<":">> = <<"s", ":">>
  BY Pair
<1>5. <<":">> \o y \in Seq(Symbol)
  BY <1>2, Concat
<1> QED
  BY <1>3, <1>4, <1>5

\* A list in front of s, of which some elements have been read, expects what is
\* left behind the next.
LEMMA NextIsAwaited ==
  ASSUME NEW S, NEW s \in Seq(S), NEW below, Awaits(s, below),
         NestingLimit - Len(s) \in 0 .. NestingLimit,
         NEW f, NEW V, f.values \in Seq(V), NEW N \in Nat, NEW p,
         Plan(p, N, f.kind, NestingLimit - Len(s)), Len(f.values) < N, f.kind # "Root",
         NEW after, after = p[Len(f.values) + 1] \o below
  PROVE  Awaits(<<f>> \o s, after)
<1>1. p \in Remains
  BY PlanRemains
<1>2. Expecting(f, NestingLimit - Len(s), below, after)
  BY <1>1 DEF Expecting
<1> QED
  BY <1>2, AwaitsPush

\* A list has begun in front of s: it expects what is left behind its first element.
LEMMA NewListAwaits ==
  ASSUME NEW s, IsStack(s), NestingLimit - Len(s) \in 0 .. NestingLimit,
         NEW after, Awaits(s, after),
         NEW kind \in {"Array", "Object"}, NEW N \in Nat, 0 # N,
         NEW p, Plan(p, N, kind, NestingLimit - Len(s))
  PROVE  /\ Awaits(<<Frame(kind, 0)>> \o s, p[0 + 1] \o after)
         /\ (<<Frame(kind, 0)>> \o s)[1] = Frame(kind, 0)
         /\ Frame(kind, 0).kind = kind
<1> DEFINE f == Frame(kind, 0)
<1>1. f.kind = kind /\ f.values = << >> /\ kind # "Root"
  BY DEF Frame
<1>2. PICK S : s \in Seq(S)
  BY DEF IsStack
<1> HIDE DEF f
<1>3. f.values \in Seq(Symbol) /\ Len(f.values) = 0
  BY <1>1
<1>4. 0 < N
  OBVIOUS
<1>5. Len(f.values) < N /\ p[0 + 1] \o after = p[Len(f.values) + 1] \o after
  BY <1>3, <1>4
<1>6. NestingLimit - Len(s) \in 0 .. NestingLimit
  OBVIOUS
<1>7. Plan(p, N, f.kind, NestingLimit - Len(s))
  BY <1>1
<1>8. f.kind # "Root"
  BY <1>1
<1>9. Awaits(<<f>> \o s, p[0 + 1] \o after)
  BY <1>2, <1>3, <1>5, <1>6, <1>7, <1>8, NextIsAwaited
<1>10. (<<f>> \o s)[1] = f
  BY <1>2, SequenceFacts
<1> QED
  BY <1>1, <1>9, <1>10 DEF f

\* One step back and one ahead.
LEMMA BackAndAhead == \A a, b, n \in Int : b \in a + 1 .. n - 1 => (b - 1) + 1 = b
<1> QED
  OBVIOUS

\* The beginning of a list; an empty one is complete.
LEMMA OpenListOnTheWay ==
  ASSUME IInv, NEW t \in 0 .. Len(input), OnTheWay(t), OpenList
  PROVE  OnTheWay(t)'
<1> DEFINE inside == buffer_skip_whitespace(offset + 1)
<1>1. pc = "value"
  BY DEF OpenList
<1>2. PICK kind \in {"Array", "Object"} :
        /\ SymbolAt(offset, 0) = Opens(kind)
        /\ IF depth >= NestingLimit THEN FailAt(offset)
           ELSE IF SymbolAt(inside, 0) = Closes(kind)
           THEN Parsed(Value(kind, << >>), inside + 1, stack, 0)
                /\ UNCHANGED <<depth, blocks>>
           ELSE IF SymbolAt(inside, 0) = "end"
           THEN /\ offset' = inside - 1 /\ depth' = depth + 1 /\ pc' = "fail"
                /\ UNCHANGED <<call, stack, blocks, starved, position>>
           ELSE /\ offset' = inside - 1 /\ depth' = depth + 1 /\ pc' = "element"
                /\ stack' = <<Frame(kind, 0)>> \o stack
                /\ UNCHANGED <<call, blocks, starved, position>>
  BY DEF OpenList
<1>3. /\ input \in Seq(Symbol) /\ Len(input) \in Nat /\ offset \in 0 .. Len(input)
      /\ IsStack(stack) /\ stack # << >> /\ depth \in 0 .. NestingLimit
      /\ depth = Len(stack) - 1 /\ NestingLimit \in Nat
  BY <1>1, BeforeValue, ParserAssumption DEF Building
<1>4. offset + 1 \in 0 .. Len(input) /\ offset + 1 # 0
  BY <1>1, ValueBegins
<1>5. PICK after \in Seq(Symbol) :
        /\ Awaits(stack, after)
        /\ \/ SymbolAt(offset, 0) \in {"n", "s"} /\ Left(offset + 1, t, after)
           \/ /\ depth < NestingLimit
              /\ \E k \in {"Array", "Object"}, N \in Nat, p \in Remains :
                   /\ Plan(p, N, k, NestingLimit - (depth + 1))
                   /\ SymbolAt(offset, 0) = Opens(k)
                   /\ Left(offset + 1, t, p[0] \o after)
  BY <1>1, ValueBegins
<1>6. depth < NestingLimit
      /\ \E k \in {"Array", "Object"}, N \in Nat, p \in Remains :
           /\ Plan(p, N, k, NestingLimit - (depth + 1))
           /\ SymbolAt(offset, 0) = Opens(k)
           /\ Left(offset + 1, t, p[0] \o after)
  BY <1>2, <1>5 DEF Opens
<1>7. PICK N \in Nat, p \in Remains :
           /\ Plan(p, N, kind, NestingLimit - (depth + 1))
           /\ Left(offset + 1, t, p[0] \o after)
  BY <1>2, <1>6 DEF Opens
<1> DEFINE n == NestingLimit - (depth + 1)
<1>8. n \in 0 .. NestingLimit /\ 0 \in 0 .. N /\ ~(depth >= NestingLimit)
  BY <1>3, <1>6
<1>9. BehindMark(offset + 1)
  BY <1>4 DEF BehindMark
<1> HIDE DEF n
<1>10. /\ 0 = N => p[0] \o after = <<Closes(kind)>> \o after
       /\ 0 # N => GoesOn(p, 0, kind, n, after)
  BY <1>7, <1>8, ListGoesOn DEF n
<1>11. CASE 0 = N
  <2>1. Closes(kind) \in Symbol
    BY DEF Closes, Symbol
  <2>2. Left(offset + 1, t, <<Closes(kind)>> \o after)
    BY <1>7, <1>10, <1>11
  <2>3. /\ inside \in offset + 1 .. Len(input) - 1 /\ SymbolAt(inside, 0) = Closes(kind)
        /\ input[inside + 1] = Closes(kind) /\ Closes(kind) \notin Space
        /\ Left(inside + 1, t, after)
    BY <1>3, <1>9, <2>1, <2>2, NextSymbol
  <2>4. Parsed(Value(kind, << >>), inside + 1, stack, 0) /\ UNCHANGED depth
    BY <1>2, <1>8, <2>3
  <2>5. inside + 1 # 0 /\ NestingLimit - depth' = NestingLimit - (Len(stack) - 1)
    BY <1>3, <1>4, <2>3, <2>4
  <2> HIDE DEF inside
  <2> QED
    BY <1>3, <1>5, <2>3, <2>4, <2>5, ParsedOnTheWay
<1>12. CASE 0 # N
  <2>1. PICK x \in Language(n), rest \in Seq(Symbol) :
          LET R == Name(kind).text \o (x \o rest)
          IN  R \in Seq(Symbol) /\ rest = p[0 + 1] \o after /\ p[0] \o after = R
    BY <1>10, <1>12 DEF GoesOn
  <2> DEFINE R == Name(kind).text \o (x \o rest)
  <2>2. Left(offset + 1, t, R) /\ R \in Seq(Symbol)
    BY <1>7, <2>1
  <2>3. \E c \in Symbol, Q \in Seq(Symbol) : R = <<c>> \o Q /\ c # Closes(kind) /\ c # "end"
    <3>1. PICK c \in {"n", "s", "[", "{"}, Q \in Seq(Symbol) : x \o rest = <<c>> \o Q
      BY <1>8, FirstSymbol
    <3>4. \A d \in {"n", "s", "[", "{"} : d \in Symbol /\ d # Closes(kind) /\ d # "end"
      BY DEF Symbol, Closes
    <3>2. CASE kind = "Array"
      <4>1. Name(kind).text = << >>
        BY <3>2 DEF Name, Nothing, Part
      <4>2. <<c>> \o Q \in Seq(Symbol)
        <5>1. c \in Symbol
          BY <3>1, <3>4
        <5> QED
          BY <5>1, Concat
      <4>3. << >> \o (<<c>> \o Q) = <<c>> \o Q
        BY <4>2, ConcatNothing
      <4> QED
        BY <3>1, <3>4, <4>1, <4>3
    <3>3. CASE kind = "Object"
      <4>1. Name(kind).text = <<"s", ":">>
        BY <3>3 DEF Name, Part
      <4>2. x \o rest \in Seq(Symbol)
        BY <1>8, Grammar, Concat
      <4> DEFINE y == x \o rest
      <4> HIDE DEF y
      <4>3. <<"s", ":">> \o y = <<"s">> \o (<<":">> \o y) /\ <<":">> \o y \in Seq(Symbol)
        BY <4>2, NameIsTwo DEF y
      <4> QED
        BY <3>4, <4>1, <4>3 DEF y
    <3> QED
      BY <3>2, <3>3
  <2> HIDE DEF R
  <2>4. PICK c \in Symbol, Q \in Seq(Symbol) :
          R = <<c>> \o Q /\ c # Closes(kind) /\ c # "end"
    BY <2>3
  <2>6. Left(offset + 1, t, <<c>> \o Q)
    BY <2>2, <2>4
  <2>7. inside \in offset + 1 .. Len(input) - 1 /\ SymbolAt(inside, 0) = c /\ Left(inside, t, R)
    BY <1>3, <1>9, <2>4, <2>6, NextSymbol
  <2>8. /\ offset' = inside - 1 /\ depth' = depth + 1 /\ pc' = "element"
        /\ stack' = <<Frame(kind, 0)>> \o stack /\ UNCHANGED input
    BY <1>2, <1>8, <2>4, <2>7 DEF call
  <2>9. offset' + 1 = inside
    <3>1. inside \in offset + 1 .. Len(input) - 1 /\ offset' = inside - 1
      BY <2>7, <2>8
    <3>2. offset \in Int /\ Len(input) \in Int
      BY <1>3
    <3> HIDE DEF inside
    <3>3. inside \in Int
      BY <3>1, <3>2
    <3>4. (inside - 1) + 1 = inside
      BY <3>1, <3>2, <3>3, BackAndAhead
    <3> QED
      BY <3>1, <3>4
  <2> HIDE DEF inside
  <2>10. n = NestingLimit - Len(stack) /\ n = NestingLimit - depth'
    <3>1. Len(stack) \in Nat
      BY <1>3 DEF IsStack
    <3>2. Len(stack) = depth + 1 /\ depth' = depth + 1
      BY <1>3, <2>8, <3>1
    <3> QED
      BY <3>2 DEF n
  <2>11. n \in 0 .. NestingLimit /\ Plan(p, N, kind, n)
    BY <1>7, <1>8 DEF n
  <2>12. Awaits(stack, after) /\ rest = p[0 + 1] \o after
    BY <1>5, <2>1
  <2> DEFINE u == <<Frame(kind, 0)>> \o stack
             kindOf == u[1].kind
  <2>13. Awaits(u, rest) /\ kindOf = kind
    <3>1. /\ Awaits(u, rest) /\ u[1] = Frame(kind, 0) /\ Frame(kind, 0).kind = kind
      <4>1. /\ IsStack(stack) /\ NestingLimit - Len(stack) \in 0 .. NestingLimit
            /\ Awaits(stack, after) /\ 0 # N /\ Plan(p, N, kind, NestingLimit - Len(stack))
        BY <1>3, <1>12, <2>10, <2>11, <2>12, Zenon
      <4> HIDE DEF u
      <4>2. /\ Awaits(<<Frame(kind, 0)>> \o stack, p[0 + 1] \o after)
            /\ (<<Frame(kind, 0)>> \o stack)[1] = Frame(kind, 0)
            /\ Frame(kind, 0).kind = kind
        BY <4>1, NewListAwaits, Zenon
      <4> QED
        BY <2>12, <4>2 DEF u
    <3> QED
      BY <3>1
  <2> HIDE DEF u
  <2>14. stack' = u /\ kind # "Root"
    BY <2>8 DEF u
  <2>15. ElementLeft(stack', n, offset', t)
    <3>1. Left(offset' + 1, t, Name(kind).text \o (x \o rest))
      BY <2>7, <2>9 DEF R
    <3>2. u[1].kind = kind
      BY <2>13
    <3>3. ElementLeft(u, n, offset', t)
      BY <2>13, <2>14, <3>1, <3>2 DEF ElementLeft
    <3> QED
      BY <2>14, <3>3
  <2> QED
    BY <2>8, <2>10, <2>15, Arrives
<1> QED
  BY <1>11, <1>12

\* A block more changes nothing that is awaited.
LEMMA OwnedIsNotAwaited ==
  ASSUME NEW s, IsStack(s), s # << >>, NEW after, Awaits(s, after), NEW owned
  PROVE  LET e == [s[1] EXCEPT !.owned = owned]
             u == <<e>> \o Tail(s)
         IN  Awaits(u, after) /\ u[1] = e /\ e.kind = s[1].kind
<1> DEFINE f == s[1]
           e == [f EXCEPT !.owned = owned]
           rest == Tail(s)
<1>1. PICK S : s \in Seq(S)
  BY DEF IsStack
<1>2. rest \in Seq(S) /\ Len(rest) = Len(s) - 1 /\ Len(s) \in Nat \ {0} /\ 1 \in 1 .. Len(s)
  BY <1>1, SequenceFacts
<1>3. f = [kind |-> f.kind, values |-> f.values, owned |-> f.owned]
  BY <1>2 DEF IsStack, IsFrame
<1>4. e.kind = f.kind /\ e.values = f.values
  BY <1>3
<1>5. PICK behind \in Seq(Symbol) :
        Awaits(rest, behind) /\ Expecting(f, NestingLimit - (Len(s) - 1), behind, after)
  BY <1>1, AwaitsPop
<1> HIDE DEF e, f, rest
<1>6. Expecting(e, NestingLimit - Len(rest), behind, after)
  BY <1>2, <1>4, <1>5 DEF Expecting
<1>7. Awaits(<<e>> \o rest, after)
  BY <1>2, <1>5, <1>6, AwaitsPush
<1>8. (<<e>> \o rest)[1] = e
  BY <1>2, SequenceFacts
<1> QED
  BY <1>4, <1>7, <1>8 DEF e, f, rest

\* The item of an element.
LEMMA NewElementOnTheWay ==
  ASSUME IInv, NEW t \in 0 .. Len(input), OnTheWay(t), NewElement, ~starved'
  PROVE  OnTheWay(t)'
<1> DEFINE o == buffer_skip_whitespace(offset + 1)
           n == NestingLimit - depth
           e == [Top EXCEPT !.owned = @ + 1]
<1>1. /\ pc = "element" /\ stack' = <<e>> \o Tail(stack)
      /\ UNCHANGED <<input, depth>>
      /\ IF Top.kind = "Array" THEN offset' = o /\ pc' = "value"
         ELSE IF SymbolAt(offset, 1) = "end" THEN offset' = offset /\ pc' = "fail"
         ELSE offset' = o /\ pc' = "name"
  BY DEF NewElement, StarveAt, call
<1>2. /\ input \in Seq(Symbol) /\ Len(input) \in Nat /\ offset \in 0 .. Len(input)
      /\ IsStack(stack) /\ stack # << >> /\ n \in 0 .. NestingLimit
  <2>1. NestingLimit \in Nat /\ depth \in 0 .. NestingLimit
    BY <1>1, BeforeValue, ParserAssumption DEF Building
  <2> QED
    BY <1>1, <2>1, BeforeValue DEF Building
<1>3. ElementLeft(stack, n, offset, t)
  BY <1>1 DEF OnTheWay
<1> HIDE DEF n
<1>4. PICK x \in Language(n), after \in Seq(Symbol) :
        Awaits(stack, after) /\ Left(offset + 1, t, Name(stack[1].kind).text \o (x \o after))
  BY <1>3 DEF ElementLeft
<1>5. stack[1].kind \in {"Array", "Object"}
  <2>1. IsFrame(stack[1])
    <3>1. PICK S : stack \in Seq(S)
      BY <1>2 DEF IsStack
    <3>2. 1 \in 1 .. Len(stack)
      BY <1>2, <3>1
    <3> QED
      BY <1>2, <3>2 DEF IsStack
  <2> QED
    BY <1>3, <2>1 DEF IsFrame, ElementLeft
<1>6. BehindMark(offset + 1)
  BY <1>2 DEF BehindMark
<1>7. Awaits(stack', after)
  <2>1. e = [stack[1] EXCEPT !.owned = stack[1].owned + 1]
    BY DEF Top
  <2> HIDE DEF e
  <2> QED
    BY <1>1, <1>2, <1>4, <2>1, OwnedIsNotAwaited
<1> HIDE DEF e
<1>8. x \o after \in Seq(Symbol)
  BY <1>2, Grammar, Concat
<1>9. CASE stack[1].kind = "Array"
  <2>1. Name("Array").text = << >>
    BY DEF Name, Nothing, Part
  <2>2. Left(offset + 1, t, x \o after)
    BY <1>4, <1>8, <1>9, <2>1, ConcatNothing
  <2>3. BehindMark(o) /\ buffer_skip_whitespace(o) = o /\ Left(o, t, x \o after)
    BY <1>2, <1>6, <2>2, SkippedToValue
  <2> HIDE DEF o
  <2>4. ValueLeft(stack', n, o, t)
    BY <1>7, <2>3 DEF ValueLeft
  <2>5. offset' = o /\ pc' = "value" /\ n = NestingLimit - depth'
    BY <1>1, <1>9 DEF Top, n
  <2> QED
    BY <1>1, <2>4, <2>5, Arrives
<1>10. CASE stack[1].kind = "Object"
  <2>1. Name("Object").text = <<"s", ":">>
    BY DEF Name, Part
  <2> DEFINE y == x \o after
  <2>2. Left(offset + 1, t, <<"s", ":">> \o y)
    BY <1>4, <1>10, <2>1
  <2> HIDE DEF y
  <2>3. /\ <<"s", ":">> \o y = <<"s">> \o (<<":">> \o y) /\ <<":">> \o y \in Seq(Symbol)
        /\ "s" \in Symbol
    BY <1>8, NameIsTwo DEF y, Symbol
  <2>4. Left(offset + 1, t, <<"s">> \o (<<":">> \o y))
    BY <2>2, <2>3
  <2>5. /\ o \in offset + 1 .. Len(input) - 1 /\ BehindMark(o) /\ buffer_skip_whitespace(o) = o
        /\ Left(o, t, <<"s">> \o (<<":">> \o y))
    BY <1>2, <1>6, <2>3, <2>4, NextSymbol
  <2>6. SymbolAt(offset, 1) # "end"
    <3>1. offset + 1 < Len(input) /\ offset + 1 + 1 \in 1 .. Len(input)
      BY <1>2, <2>5
    <3>2. input[offset + 1 + 1] \in Symbol
      BY <1>2, <3>1
    <3>3. SymbolAt(offset, 1) = input[offset + 1 + 1]
      BY <3>1 DEF SymbolAt
    <3>4. "end" \notin Symbol
      BY DEF Symbol, Space
    <3> QED
      BY <3>2, <3>3, <3>4
  <2>7. Left(o, t, <<"s", ":">> \o y)
    BY <2>3, <2>5
  <2> HIDE DEF o
  <2>8. NameLeft(stack', n, o, t)
    BY <1>7, <2>5, <2>7 DEF NameLeft, y
  <2>9. offset' = o /\ pc' = "name" /\ n = NestingLimit - depth'
    BY <1>1, <1>10, <2>6 DEF Top, n
  <2> QED
    BY <1>1, <2>8, <2>9, Arrives
<1> QED
  BY <1>5, <1>9, <1>10

\* The name of a member and the colon.
LEMMA NameOnTheWay ==
  ASSUME IInv, NEW t \in 0 .. Len(input), OnTheWay(t), parse_name, ~starved'
  PROVE  OnTheWay(t)'
<1> DEFINE colon == buffer_skip_whitespace(offset + 1)
           o == buffer_skip_whitespace(colon + 1)
           n == NestingLimit - depth
           e == [Top EXCEPT !.owned = @ + 1]
<1>1. pc = "name"
  BY DEF parse_name
<1>2. /\ input \in Seq(Symbol) /\ Len(input) \in Nat /\ offset \in 0 .. Len(input)
      /\ IsStack(stack) /\ stack # << >> /\ n \in 0 .. NestingLimit
  <2>1. NestingLimit \in Nat /\ depth \in 0 .. NestingLimit
    BY <1>1, BeforeValue, ParserAssumption DEF Building
  <2> QED
    BY <1>1, <2>1, BeforeValue DEF Building
<1>3. NameLeft(stack, n, offset, t)
  BY <1>1 DEF OnTheWay
<1> HIDE DEF n
<1>4. PICK x \in Language(n), after \in Seq(Symbol) :
        Awaits(stack, after) /\ Left(offset, t, <<"s", ":">> \o (x \o after))
  BY <1>3 DEF NameLeft
<1> DEFINE y == x \o after
<1>5. y \in Seq(Symbol)
  BY <1>2, Grammar, Concat
<1> HIDE DEF y
<1>6. /\ <<"s", ":">> \o y = <<"s">> \o (<<":">> \o y) /\ <<":">> \o y \in Seq(Symbol)
      /\ "s" \in Symbol /\ ":" \in Symbol
  BY <1>5, NameIsTwo DEF Symbol
<1>7. Left(offset, t, <<"s">> \o (<<":">> \o y))
  BY <1>4, <1>6 DEF y
<1>8. BehindMark(offset) /\ buffer_skip_whitespace(offset) = offset
  BY <1>3 DEF NameLeft
<1>9. SymbolAt(offset, 0) = "s" /\ Left(offset + 1, t, <<":">> \o y)
  BY <1>2, <1>6, <1>7, <1>8, NextSymbol
<1>10. BehindMark(offset + 1)
  BY <1>2 DEF BehindMark
<1>11. /\ colon \in offset + 1 .. Len(input) - 1 /\ SymbolAt(colon, 0) = ":"
       /\ Left(colon + 1, t, y)
  BY <1>2, <1>5, <1>6, <1>9, <1>10, NextSymbol
<1>12. /\ stack' = <<e>> \o Tail(stack) /\ UNCHANGED <<input, depth>>
       /\ offset' = o /\ pc' = "value"
  BY <1>9, <1>11 DEF parse_name, StarveAt, call
<1> HIDE DEF colon
<1>13. BehindMark(colon + 1)
  BY <1>2, <1>11 DEF BehindMark
<1>14. BehindMark(o) /\ buffer_skip_whitespace(o) = o /\ Left(o, t, x \o after)
  BY <1>2, <1>11, <1>13, SkippedToValue DEF y
<1> HIDE DEF o
<1>15. Awaits(stack', after)
  <2>1. e = [stack[1] EXCEPT !.owned = stack[1].owned + 1]
    BY DEF Top
  <2> HIDE DEF e
  <2> QED
    BY <1>2, <1>4, <1>12, <2>1, OwnedIsNotAwaited
<1> HIDE DEF e
<1>16. ValueLeft(stack', n, o, t)
  BY <1>14, <1>15 DEF ValueLeft
<1>17. n = NestingLimit - depth'
  BY <1>12 DEF n
<1> QED
  BY <1>12, <1>16, <1>17, Arrives

\* The first list of a stack expects what is left behind its next element.
LEMMA FirstExpects ==
  ASSUME NEW s, IsStack(s), s # << >>, NEW below, Awaits(Tail(s), below),
         NestingLimit - (Len(s) - 1) \in 0 .. NestingLimit,
         NEW V, s[1].values \in Seq(V), s[1].kind # "Root", NEW N \in Nat, NEW p,
         Plan(p, N, s[1].kind, NestingLimit - (Len(s) - 1)), Len(s[1].values) < N
  PROVE  Awaits(s, p[Len(s[1].values) + 1] \o below)
<1> DEFINE f == s[1]
           rest == Tail(s)
<1>1. PICK S : s \in Seq(S)
  BY DEF IsStack
<1>2. rest \in Seq(S) /\ Len(rest) = Len(s) - 1
  BY <1>1, SequenceFacts
<1>3. <<f>> \o rest = s
  BY <1>1
<1> HIDE DEF f, rest
<1>4. NestingLimit - Len(rest) \in 0 .. NestingLimit /\ Plan(p, N, f.kind, NestingLimit - Len(rest))
  BY <1>2 DEF f
<1>5. f.values \in Seq(V) /\ Len(f.values) < N /\ f.kind # "Root" /\ Awaits(rest, below)
  BY DEF f, rest
<1>6. Awaits(<<f>> \o rest, p[Len(f.values) + 1] \o below)
  BY <1>2, <1>4, <1>5, NextIsAwaited
<1> QED
  BY <1>3, <1>6 DEF f

\* The end of an element.
LEMMA NextElementOnTheWay ==
  ASSUME IInv, NEW t \in 0 .. Len(input), OnTheWay(t), NextElement
  PROVE  OnTheWay(t)'
<1> DEFINE o == buffer_skip_whitespace(offset)
           n == NestingLimit - depth
           kind == stack[1].kind
           k == Len(stack[1].values)
           rest == Tail(stack)
<1>1. /\ pc = "next" /\ kind # "Root"
      /\ SymbolAt(o, 0) = "," => offset' = o /\ pc' = "element" /\ UNCHANGED <<input, depth, stack>>
      /\ SymbolAt(o, 0) # "," /\ SymbolAt(o, 0) = Closes(kind) =>
           /\ depth' = depth - 1
           /\ \E v, new : Parsed(v, o + 1, rest, new)
  BY DEF NextElement, Top, call
<1>2. /\ input \in Seq(Symbol) /\ Len(input) \in Nat /\ offset \in 0 .. Len(input)
      /\ IsStack(stack) /\ stack # << >> /\ depth \in 0 .. NestingLimit
      /\ depth = Len(stack) - 1 /\ NestingLimit \in Nat
  BY <1>1, BeforeValue, ParserAssumption DEF Building
<1>3. n \in 0 .. NestingLimit
  BY <1>2
<1>4. NextLeft(stack, n, offset, t)
  BY <1>1 DEF OnTheWay
<1>5. kind \in {"Array", "Object"} /\ IsStack(rest) /\ rest # << >>
  <2>1. Owns(stack, blocks) /\ blocks \in Nat
    BY DEF IInv
  <2>2. IsFrame(stack[1]) /\ IsStack(rest) /\ (kind = "Root" <=> rest = << >>)
    BY <1>2, <2>1, Pop
  <2> QED
    BY <1>1, <2>2 DEF IsFrame
<1>6. n = NestingLimit - (Len(stack) - 1) /\ Len(rest) = Len(stack) - 1 /\ Len(rest) \in Nat
  <2>1. PICK S : stack \in Seq(S)
    BY <1>2 DEF IsStack
  <2>2. Len(rest) = Len(stack) - 1 /\ rest \in Seq(S)
    BY <1>2, <2>1, SequenceFacts
  <2> QED
    BY <1>2, <2>2
<1> HIDE DEF n, kind, rest
<1>7. /\ offset # 0 /\ \E V : stack[1].values \in Seq(V)
      /\ \E below \in Seq(Symbol), N \in Nat, p \in Remains :
           /\ Awaits(rest, below) /\ Plan(p, N, kind, n)
           /\ k \in 1 .. N /\ Left(offset, t, p[k] \o below)
  BY <1>4 DEF NextLeft, kind, rest
<1>8. PICK V : stack[1].values \in Seq(V)
  BY <1>7
<1> HIDE DEF k
<1>9. PICK below \in Seq(Symbol), N \in Nat, p \in Remains :
           /\ Awaits(rest, below) /\ Plan(p, N, kind, n)
           /\ k \in 1 .. N /\ Left(offset, t, p[k] \o below)
  BY <1>7
<1>10. BehindMark(offset) /\ k \in 0 .. N
  BY <1>7, <1>9 DEF BehindMark
<1>11. /\ k = N => p[k] \o below = <<Closes(kind)>> \o below
       /\ k # N => GoesOn(p, k, kind, n, below)
  BY <1>3, <1>5, <1>9, <1>10, ListGoesOn
<1>12. CASE k = N
  <2>1. Closes(kind) \in Symbol /\ Closes(kind) # ","
    BY DEF Closes, Symbol
  <2>2. Left(offset, t, <<Closes(kind)>> \o below)
    BY <1>9, <1>11, <1>12
  <2>3. /\ o \in offset .. Len(input) - 1 /\ SymbolAt(o, 0) = Closes(kind)
        /\ input[o + 1] = Closes(kind) /\ Closes(kind) \notin Space
        /\ Left(o + 1, t, below)
    <3> DEFINE c == Closes(kind)
    <3>1. c \in Symbol /\ Left(offset, t, <<c>> \o below)
      BY <2>1, <2>2
    <3> HIDE DEF c
    <3>2. /\ o \in offset .. Len(input) - 1 /\ SymbolAt(o, 0) = c
          /\ input[o + 1] = c /\ c \notin Space /\ Left(o + 1, t, below)
      BY <1>2, <1>10, <3>1, NextSymbol
    <3> QED
      BY <3>2 DEF c
  <2>4. PICK v, new : Parsed(v, o + 1, rest, new)
    BY <1>1, <2>1, <2>3
  <2>5. depth' = depth - 1
    BY <1>1, <2>1, <2>3
  <2> HIDE DEF o
  <2>6. o + 1 # 0 /\ NestingLimit - depth' = NestingLimit - (Len(rest) - 1)
    BY <1>2, <1>6, <2>3, <2>5
  <2>7. input[o + 1] \notin Space
    BY <2>3
  <2> QED
    BY <1>5, <1>9, <2>3, <2>4, <2>6, <2>7, ParsedOnTheWay
<1>13. CASE k # N
  <2>1. PICK x \in Language(n), after \in Seq(Symbol) :
          LET R == Name(kind).text \o (x \o after)
          IN  /\ R \in Seq(Symbol) /\ after = p[k + 1] \o below
              /\ p[k] \o below = IF k = 0 THEN R ELSE <<",">> \o R
    BY <1>11, <1>13 DEF GoesOn
  <2> DEFINE R == Name(kind).text \o (x \o after)
  <2>2. k # 0 /\ k < N
    BY <1>9, <1>13
  <2>3. R \in Seq(Symbol) /\ p[k] \o below = <<",">> \o R
    BY <2>1, <2>2
  <2> HIDE DEF R
  <2>4. Left(offset, t, <<",">> \o R) /\ "," \in Symbol
    BY <1>9, <2>3 DEF Symbol
  <2>5. SymbolAt(o, 0) = "," /\ Left(o + 1, t, R)
    BY <1>2, <1>10, <2>3, <2>4, NextSymbol
  <2>6. offset' = o /\ pc' = "element" /\ UNCHANGED <<input, depth, stack>>
    BY <1>1, <2>5
  <2> HIDE DEF o
  <2>7. Awaits(stack, after)
    <3>1. Awaits(stack, p[k + 1] \o below)
      BY <1>2, <1>3, <1>6, <1>8, <1>1, <1>9, <2>2, FirstExpects DEF kind, k, rest
    <3> QED
      BY <2>1, <3>1
  <2>8. ElementLeft(stack, n, o, t)
    BY <1>1, <2>5, <2>7 DEF ElementLeft, R, kind
  <2>9. n = NestingLimit - depth' /\ ElementLeft(stack', n, offset', t)
    <3>1. n = NestingLimit - depth'
      BY <2>6 DEF n
    <3> QED
      BY <2>6, <2>8, <3>1
  <2> QED
    BY <2>6, <2>9, Arrives
<1> QED
  BY <1>12, <1>13

\* The end of the root item: nothing is left, and a NUL that is required is found.
LEMMA ReturnOnTheWay ==
  ASSUME IInv, NEW t \in 0 .. Len(input), Wanted(t), OnTheWay(t), Return
  PROVE  OnTheWay(t)'
<1> DEFINE o == IF require_null_terminated THEN buffer_skip_whitespace(offset) ELSE offset
           kind == stack[1].kind
           k == Len(stack[1].values)
           rest == Tail(stack)
<1>1. /\ pc = "next" /\ kind = "Root"
      /\ IF require_null_terminated /\ SymbolAt(o, 0) # "NUL" THEN FailAt(o) ELSE pc' = "done"
  BY DEF Return, Top
<1>2. ASSUME require_null_terminated PROVE SymbolAt(o, 0) = "NUL"
  <2>1. t = Len(input) /\ input[Len(input)] = "NUL"
    BY <1>2 DEF Wanted
  <2>2. /\ input \in Seq(Symbol) /\ IsStack(stack) /\ stack # << >>
        /\ Owns(stack, blocks) /\ blocks \in Nat
    BY <1>1, BeforeValue DEF Building
  <2>3. rest = << >>
    BY <1>1, <2>2, Pop
  <2>4. NextLeft(stack, NestingLimit - depth, offset, t)
    BY <1>1 DEF OnTheWay
  <2>5. /\ offset # 0 /\ input[offset] \notin Space
        /\ \E below \in Seq(Symbol), N \in Nat, p \in Remains :
             /\ Awaits(rest, below) /\ Plan(p, N, kind, NestingLimit - depth) /\ N = 1
             /\ k \in 1 .. N /\ Left(offset, t, p[k] \o below)
    BY <1>1, <2>4 DEF NextLeft
  <2> HIDE DEF k, rest, kind
  <2>6. PICK below \in Seq(Symbol), N \in Nat, p \in Remains :
             /\ Awaits(rest, below) /\ Plan(p, N, kind, NestingLimit - depth) /\ N = 1
             /\ k \in 1 .. N /\ Left(offset, t, p[k] \o below)
    BY <2>5
  <2>7. below = << >>
    BY <2>3, <2>6, AwaitsNothing
  <2>8. k = N
    BY <2>6
  <2>9. p[k] = << >>
    BY <1>1, <2>6, <2>8 DEF Plan, Ending
  <2>10. << >> \o << >> = << >>
    BY Concat, ConcatNothing
  <2>11. Left(offset, Len(input), << >>)
    BY <2>1, <2>6, <2>7, <2>9, <2>10
  <2>12. SymbolAt(buffer_skip_whitespace(offset), 0) = "NUL"
    BY <2>1, <2>2, <2>5, <2>11, NulIsFound
  <2> QED
    BY <1>2, <2>12
<1>3. pc' = "done"
  BY <1>1, <1>2
<1> QED
  BY <1>3 DEF OnTheWay

\* A sequence with something in front is not empty.
LEMMA OneAtLeast == \A c : \A R \in Seq(Symbol) : <<c>> \o R # << >>
<1> SUFFICES ASSUME NEW c, NEW R \in Seq(Symbol) PROVE <<c>> \o R # << >>
  OBVIOUS
<1>1. Len(<<c>> \o R) = Len(R) + 1 /\ Len(R) \in Nat
  BY SequenceFacts
<1>2. Len(<< >>) = 0
  OBVIOUS
<1> QED
  BY <1>1, <1>2

\* The text of a value is not empty.
LEMMA TextsAreNotEmpty ==
  ASSUME NEW n \in 0 .. NestingLimit, NEW x \in Language(n)
  PROVE  x # << >>
<1>1. << >> \in Seq(Symbol) /\ x \in Seq(Symbol)
  BY Grammar, Concat
<1>2. PICK c \in {"n", "s", "[", "{"}, R \in Seq(Symbol) : x \o << >> = <<c>> \o R
  BY <1>1, FirstSymbol
<1>3. x = <<c>> \o R
  BY <1>1, <1>2, ConcatNothing
<1>4. <<c>> \o R # << >>
  BY OneAtLeast, Zenon
<1> QED
  BY <1>3, <1>4

\* The root item expects nothing behind its value.
LEMMA RootExpects ==
  ASSUME NEW L, L = NestingLimit, L \in Nat, NEW x \in Language(L)
  PROVE  Awaits(<<Frame("Root", 1)>>, << >>)
<1> DEFINE f == Frame("Root", 1)
           p == [k \in 0 .. 1 |-> IF k = 0 THEN x ELSE << >>]
<1>1. L \in 0 .. NestingLimit
  OBVIOUS
<1>2. x \in Seq(Symbol) /\ << >> \in Seq(Symbol)
  BY <1>1, Grammar, Concat
<1>3. p \in [0 .. 1 -> Seq(Symbol)] /\ p[0] = x /\ p[1] = << >>
  BY <1>2
<1> HIDE DEF p
<1>4. Comma(1).text = << >> /\ Name("Root").text = << >>
  BY DEF Comma, Name, Nothing, Part
<1>5. << >> \o (<< >> \o (x \o << >>)) = x /\ << >> \o << >> = << >>
  BY <1>2, ConcatNothing
<1>6. \A k \in 1 .. 1 : k = 1 /\ k - 1 = 0
  OBVIOUS
<1>7. \A k \in 1 .. 1 : \E y \in Language(L) :
        p[k - 1] = Comma(k).text \o (Name("Root").text \o (y \o p[k]))
  BY <1>3, <1>4, <1>5, <1>6
<1>8. Plan(p, 1, "Root", L)
  BY <1>3, <1>7 DEF Plan, Ending
<1>9. p \in Remains /\ 1 \in Nat
  BY <1>8, PlanRemains
<1>10. f.kind = "Root" /\ f.values = << >>
  BY DEF Frame
<1> HIDE DEF f
<1>11. Len(f.values) = 0 /\ f.values \in Seq(Symbol)
  BY <1>10
<1>12. Len(f.values) < 1 /\ p[Len(f.values) + 1] = << >>
  BY <1>3, <1>11
<1>13. Expecting(f, L, << >>, << >>)
  BY <1>1, <1>5, <1>8, <1>9, <1>10, <1>11, <1>12 DEF Expecting
<1>14. << >> \in Seq({}) /\ Len(<< >>) = 0 /\ <<f>> \o << >> = <<f>> /\ NestingLimit - 0 = L
  OBVIOUS
<1>15. Expecting(f, NestingLimit - Len(<< >>), << >>, << >>)
  BY <1>13, <1>14
<1>16. Awaits(<<f>> \o << >>, << >>)
  BY <1>14, <1>15, AwaitsNothing, AwaitsPush
<1> QED
  BY <1>14, <1>16 DEF f

\* The beginning of a call.
LEMMA StartOnTheWay ==
  ASSUME IInv, NEW t \in 0 .. Len(input), Wanted(t), Start, ~starved'
  PROVE  OnTheWay(t)'
<1> DEFINE start == skip_utf8_bom
           o == buffer_skip_whitespace(start)
           L == NestingLimit
           x == Shown[t]
<1>1. pc = "start" /\ input \in Seq(Symbol) /\ Len(input) \in Nat /\ depth = 0 /\ L \in Nat
  BY ParserAssumption DEF Start, IInv
<1>2. start \in 0 .. Len(input) /\ Shown[start] = << >> /\ Shown[0] = << >>
  BY <1>1, SaidNothing, ShownSteps
<1>3. x \in Language(L) /\ L \in 0 .. NestingLimit
  BY <1>1 DEF Wanted
<1>4. x \in Seq(Symbol) /\ x # << >>
  BY <1>3, Grammar, TextsAreNotEmpty
<1>5. t # 0
  BY <1>2, <1>4
<1>6. input # << >>
  <2>1. Len(input) # 0
    BY <1>1, <1>5
  <2> QED
    BY <2>1
<1>7. start \in {0, 1} /\ (start = 0 => ~Marked)
  <2>1. 0 + 0 < Len(input) /\ 0 + 0 + 1 = 1
    BY <1>1, <1>5
  <2>2. SymbolAt(0, 0) = input[1]
    BY <2>1 DEF SymbolAt
  <2>3. Marked => skip_utf8_bom = 1
    <3>1. Len(input) > 1 => Len(input) > 2 \/ Len(input) = 2
      <4>1. \A m \in Nat : m > 1 => m > 2 \/ m = 2
        OBVIOUS
      <4> QED
        BY <1>1, <4>1, Zenon
    <3> QED
      BY <2>2, <3>1 DEF Marked, skip_utf8_bom
  <2> QED
    BY <2>3 DEF skip_utf8_bom
<1>8. BehindMark(start)
  BY <1>7 DEF BehindMark
<1>9. << >> \o x = x /\ x \o << >> = x /\ << >> \in Seq(Symbol)
  BY <1>4, Concat, ConcatNothing
<1>10. /\ stack' = <<Frame("Root", 1)>> /\ offset' = o /\ pc' = "value"
       /\ UNCHANGED <<input, depth>>
  BY <1>6 DEF Start, StarveAt, call
<1> HIDE DEF x, start
<1>11. Left(start, t, x \o << >>)
  <2>1. start \in 0 .. t
    BY <1>5, <1>7
  <2>2. Shown[t] = Shown[start] \o (x \o << >>)
    BY <1>2, <1>9 DEF x
  <2> QED
    BY <1>4, <1>9, <2>1, <2>2 DEF Left
<1>12. BehindMark(o) /\ buffer_skip_whitespace(o) = o /\ Left(o, t, x \o << >>)
  BY <1>1, <1>3, <1>8, <1>9, <1>11, SkippedToValue
<1> HIDE DEF o, L
<1>13. Awaits(stack', << >>)
  BY <1>1, <1>3, <1>10, RootExpects DEF L
<1>14. ValueLeft(stack', L, o, t)
  BY <1>3, <1>9, <1>12, <1>13 DEF ValueLeft
<1>15. NestingLimit - depth' = L
  BY <1>1, <1>10 DEF L
<1> QED
  BY <1>10, <1>14, <1>15, Arrives

\* It holds before the first step: the parser has not failed.
LEMMA InitGoal == Init => GoalInv
BY DEF Init, GoalInv, OnTheWay

\* Every step keeps it.
LEMMA NextGoal == IInv /\ GoalInv /\ [Next]_vars => GoalInv'
<1> SUFFICES ASSUME IInv, GoalInv, [Next]_vars, NEW t, Wanted(t)', ~starved'
             PROVE  OnTheWay(t)'
  BY DEF GoalInv
<1>1. UNCHANGED <<input, require_null_terminated>>
  BY DEF Next, vars, call, Start, FailAt, StarveAt, parse_number, Parsed, parse_string, OpenList,
     parse_nothing, NewElement, parse_name, NextElement, Return, FailList, Fail, Returned
<1>2. ~starved
  BY DEF Next, vars, call, Start, FailAt, StarveAt, parse_number, Parsed, parse_string, OpenList,
     parse_nothing, NewElement, parse_name, NextElement, Return, FailList, Fail, Returned
<1>3. Shown' = Shown
  BY <1>1, ShownStays
<1>4. Wanted(t)
  BY <1>1, <1>3 DEF Wanted
<1>5. OnTheWay(t)
  BY <1>2, <1>4 DEF GoalInv
<1>6. t \in 0 .. Len(input)
  BY <1>4 DEF Wanted
<1>7. CASE UNCHANGED vars
  <2>1. UNCHANGED <<input, offset, depth, stack, pc>>
    BY <1>7 DEF vars, call
  <2>2. pc \notin {"value", "next", "element", "name"} => OnTheWay(t)'
    BY <1>5, <2>1 DEF OnTheWay
  <2>3. /\ pc = "value" => ValueLeft(stack', NestingLimit - depth', offset', t)
        /\ pc = "next" => NextLeft(stack', NestingLimit - depth', offset', t)
        /\ pc = "element" => ElementLeft(stack', NestingLimit - depth', offset', t)
        /\ pc = "name" => NameLeft(stack', NestingLimit - depth', offset', t)
    BY <1>5, <2>1 DEF OnTheWay
  <2>4. pc' = pc /\ UNCHANGED input
    BY <2>1
  <2> QED
    BY <2>2, <2>3, <2>4, Arrives
<1>8. CASE parse_nothing
  BY <1>5, <1>6, <1>8, NothingOnTheWay
<1>9. CASE FailList \/ Fail
  BY <1>5, <1>9 DEF FailList, Fail, OnTheWay
<1>10. CASE Returned
  BY <1>7, <1>10 DEF Returned
<1>11. CASE Start
  BY <1>4, <1>6, <1>11, StartOnTheWay
<1>12. CASE parse_number \/ parse_string
  BY <1>5, <1>6, <1>12, ScalarOnTheWay
<1>13. CASE OpenList
  BY <1>5, <1>6, <1>13, OpenListOnTheWay
<1>14. CASE NewElement
  BY <1>5, <1>6, <1>14, NewElementOnTheWay
<1>15. CASE parse_name
  BY <1>5, <1>6, <1>15, NameOnTheWay
<1>16. CASE NextElement
  BY <1>5, <1>6, <1>16, NextElementOnTheWay
<1>17. CASE Return
  BY <1>4, <1>5, <1>6, <1>17, ReturnOnTheWay
<1> QED
  BY <1>7, <1>8, <1>9, <1>10, <1>11, <1>12, <1>13, <1>14, <1>15, <1>16, <1>17 DEF Next

\* The invariant of what is wanted holds in every reachable state.
LEMMA GoalInvariance == Spec => []GoalInv
<1>1. Init => GoalInv
  BY InitGoal
<1>2. IInv /\ GoalInv /\ [Next]_vars => GoalInv'
  BY NextGoal
<1> QED
  BY <1>1, <1>2, Invariance, PTL DEF Spec

\* In every behaviour of the parser, for every buffer, every nesting limit and
\* every set of values to judge by, a call that fails although no allocation has
\* failed was given a buffer that begins with the text of none of the values; or
\* the client requires a NUL, and the text is not all that is in front of a NUL
\* at the end.
THEOREM TextsAreAccepted == Spec => []RejectsOnlyBad
<1>1. JudgedTexts \subseteq Language(NestingLimit)
  BY JudgedAssumption DEF JudgedTexts, Language
<1>2. IInv /\ GoalInv => RejectsOnlyBad
  <2> SUFFICES ASSUME IInv, GoalInv, pc = "failed", ~starved
               PROVE  IF require_null_terminated
                      THEN input # << >> /\ input[Len(input)] = "NUL" =>
                             Shown[Len(input)] \notin JudgedTexts
                      ELSE \A o \in 0 .. Len(input) : Shown[o] \notin JudgedTexts
    BY DEF RejectsOnlyBad
  <2>1. \A t : ~Wanted(t)
    BY DEF GoalInv, OnTheWay
  <2>2. Len(input) \in 0 .. Len(input)
    BY DEF IInv
  <2>3. CASE require_null_terminated
    BY <1>1, <2>1, <2>2, <2>3 DEF Wanted
  <2>4. CASE ~require_null_terminated
    BY <1>1, <2>1, <2>4 DEF Wanted
  <2> QED
    BY <2>3, <2>4
<1> QED
  BY <1>2, Invariance, GoalInvariance, PTL
=============================================================================
