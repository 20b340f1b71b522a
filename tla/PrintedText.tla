---------------------------- MODULE PrintedText ----------------------------
(***************************************************************************)
(* What the printer of cJSON.c has to print: the JSON text of an item, with *)
(* the white space that is documented, and how many bytes it takes.        *)
(***************************************************************************)
EXTENDS Printer

CONSTANTS
  height        \* [Item -> Nat]: an item is higher than what is in it

\* The items are trees, or share some: following child never comes back.
ASSUME HeightAssumption ==
  /\ height \in [Item -> Nat]
  /\ \A i \in Item : \A n \in DOMAIN kids[i] : height[kids[i][n]] < height[i]

Symbol == {"[", "]", "{", "}", ",", ":", "n", "s", " "}

\* A part of a text: its symbols, and the bytes they stand for.
Parts == [text: Seq(Symbol), bytes: Nat]
Part(text, bytes) == [text |-> text, bytes |-> bytes]
Nothing == Part(<< >>, 0)
a ++ b == Part(a.text \o b.text, a.bytes + b.bytes)

\* The parts one after the other, each with a separator behind it but the last,
\* which has what is given for it.
Listed(parts, separator, last) ==
  LET from[n \in 1 .. Len(parts) + 1] ==
        IF n > Len(parts) THEN Nothing
        ELSE parts[n] ++ ((IF n = Len(parts) THEN last ELSE separator) ++ from[n + 1])
  IN  from[1]

\* White space that is printed if the text is formatted: behind a comma, behind
\* a colon and where a line ends; and tabs where one begins.
Space(format) == IF format THEN Part(<<" ">>, 1) ELSE Nothing
Tabs(format, depth) == IF format THEN Part(<<" ">>, depth) ELSE Nothing

\* An item that is printed at some depth.
Layouts == [item: Item, format: BOOLEAN, depth: Nat]
At(i, format, depth) == [item |-> i, format |-> format, depth |-> depth]

\* The name of a member, up to its value.
Name(i, n, format) ==
  Part(<<"s">>, keysize[kids[i][n]] + 2) ++ (Part(<<":">>, 1) ++ Space(format))

\* Arrays are on one line; the members of an object, and the brace that closes
\* it, are on lines of their own.
JsonText[layout \in Layouts] ==
  LET i == layout.item
      f == layout.format
      d == layout.depth
      values == [n \in DOMAIN kids[i] |-> JsonText[At(kids[i][n], f, d + 1)]]
      members == [n \in DOMAIN kids[i] |-> Tabs(f, d + 1) ++ (Name(i, n, f) ++ values[n])]
      comma == Part(<<",">>, 1) ++ Space(f)
  IN  CASE kind[i] = "Array" ->
             Part(<<"[">>, 1) ++ (Listed(values, comma, Nothing) ++ Part(<<"]">>, 1))
        [] kind[i] = "Object" ->
             (Part(<<"{">>, 1) ++ Space(f))
             ++ (Listed(members, comma, Space(f)) ++ (Tabs(f, d) ++ Part(<<"}">>, 1)))
        [] kind[i] = "String" -> Part(<<"s">>, size[i] + 2)
        [] OTHER -> Part(<<"n">>, size[i])

\* No item in it has an invalid type.
Printable[i \in Item] ==
  /\ kind[i] # "Invalid"
  /\ kind[i] \in {"Array", "Object"} => \A n \in DOMAIN kids[i] : Printable[kids[i][n]]

-----------------------------------------------------------------------------
\* What a call returns is the JSON text of the item, whole, laid out as
\* documented, with a NUL behind it; an item with an invalid type has none.
TextIsPrinted ==
  status = "done" =>
    /\ Printable[root] /\ p.nul /\ p.depth = 0
    /\ Part(p.front \o p.back, p.offset + p.tail) = JsonText[At(root, p.format, 0)]

\* README.md:322 and cJSON.h:168 ask for five bytes more than the text needs
\* because the estimates are not exact.  One suffices: memory permitting, a call
\* fails only if the text, its NUL and one byte do not fit the buffer of the
\* client, or the INT_MAX bytes a buffer can grow to.
SlackSuffices ==
  status \in {"failing", "failed"} /\ ~starved /\ Printable[root] =>
    JsonText[At(root, p.format, 0)].bytes + 1 + 1 > IF p.noalloc THEN p.length ELSE IntMax
=============================================================================
