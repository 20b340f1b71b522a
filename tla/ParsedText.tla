----------------------------- MODULE ParsedText -----------------------------
(***************************************************************************)
(* What the parser of cJSON.c has to read: the JSON text of a value, with   *)
(* the blocks that the items of the value own, and the text that a          *)
(* beginning of a buffer shows.                                            *)
(***************************************************************************)
EXTENDS Parser

CONSTANTS
  Judged        \* the values whose texts must not be refused

\* A part of a text: its symbols, and the blocks that its items own.
Parts == [text: Seq(Symbol), owned: Nat]
Part(text, owned) == [text |-> text, owned |-> owned]
Nothing == Part(<< >>, 0)
a ++ b == Part(a.text \o b.text, a.owned + b.owned)

\* The values in which at most n lists are in each other.
Values[n \in 0 .. NestingLimit] ==
  [kind: {"n", "s"}, values: {<< >>}]
  \cup [kind: {"Array", "Object"}, values: IF n = 0 THEN {} ELSE Seq(Values[n - 1])]

\* What comes before the first element, and before the n-th: a comma, and the
\* name of a member.  The root item is a list without brackets.
Opening(kind) ==
  CASE kind = "Array" -> Part(<<"[">>, 0)
    [] kind = "Object" -> Part(<<"{">>, 0)
    [] OTHER -> Nothing
Comma(n) == IF n = 1 THEN Nothing ELSE Part(<<",">>, 0)
Name(kind) == IF kind = "Object" THEN Part(<<"s", ":">>, 1) ELSE Nothing

\* A list up to the end of the last of its elements so far.
Begun(kind, parts) ==
  LET upto[n \in 0 .. Len(parts)] ==
        IF n = 0 THEN Opening(kind)
        ELSE upto[n - 1] ++ (Comma(n) ++ (Name(kind) ++ parts[n]))
  IN  upto[Len(parts)]

\* An item is a block; that of a string owns another.
Item == Part(<< >>, 1)
JsonText[n \in 0 .. NestingLimit] ==
  [v \in Values[n] |->
     LET parts == [m \in DOMAIN v.values |-> JsonText[n - 1][v.values[m]]]
     IN  CASE v.kind = "n" -> Item ++ Part(<<"n">>, 0)
           [] v.kind = "s" -> Item ++ Part(<<"s">>, 1)
           [] v.kind = "Array" -> Item ++ (Begun("Array", parts) ++ Part(<<"]">>, 0))
           [] v.kind = "Object" -> Item ++ (Begun("Object", parts) ++ Part(<<"}">>, 0))]

ASSUME JudgedAssumption == Judged \subseteq Values[NestingLimit]

\* A byte order mark with two bytes behind it.
Marked ==
  /\ Len(input) > 1 /\ input[1] = "bom"
  /\ Len(input) > 2 \/ bytes[input[2]] > 1

\* The text in front of an offset, without white space and such a mark.
Shown ==
  LET shown[o \in 0 .. Len(input)] ==
        IF o = 0 THEN << >>
        ELSE IF input[o] \in Space \/ (o = 1 /\ Marked) THEN shown[o - 1]
        ELSE Append(shown[o - 1], input[o])
  IN  shown

Result == Top.values[1]

\* The texts of the values that are judged by.
JudgedTexts == {JsonText[NestingLimit][v].text : v \in Judged}

-----------------------------------------------------------------------------
\* What a call returns is the value that the text in front of return_parse_end
\* says, it owns exactly the blocks that were allocated, and if the client
\* requires it nothing but white space and a NUL at the end follow the text.
ResultIsText ==
  pc = "done" =>
    /\ Len(stack) = 1 /\ Len(Top.values) = 1 /\ Result \in Values[NestingLimit]
    /\ Part(Shown[position], blocks) = JsonText[NestingLimit][Result]
    /\ require_null_terminated =>
         Shown[Len(input)] = Shown[position] /\ input[Len(input)] = "NUL"

\* Memory permitting, a call fails only if the buffer does not start with a
\* JSON text that nests at most CJSON_NESTING_LIMIT lists, or a client that
\* requires a NUL behind the text finds something else there.
RejectsOnlyBad ==
  pc = "failed" /\ ~starved =>
    IF require_null_terminated
    THEN input # << >> /\ input[Len(input)] = "NUL" => Shown[Len(input)] \notin JudgedTexts
    ELSE \A o \in 0 .. Len(input) : Shown[o] \notin JudgedTexts
=============================================================================
