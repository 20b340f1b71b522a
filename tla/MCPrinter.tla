----------------------------- MODULE MCPrinter -----------------------------
(***************************************************************************)
(* The items TLC prints.  An item may stand below several others: the       *)
(* printer only reads.                                                      *)
(***************************************************************************)
EXTENDS PrintedText, TLC

MCLeaf == "lit" :> "Literal" @@ "num" :> "Number" @@ "str" :> "String" @@ "bad" :> "Invalid"
MCKids ==
  "lit" :> << >> @@ "num" :> << >> @@ "str" :> << >> @@ "bad" :> << >>
  @@ "array0" :> << >> @@ "array3" :> <<"num", "str", "array0">>
  @@ "object0" :> << >> @@ "object2" :> <<"array3", "num">>
  @@ "nested" :> <<"object2", "object0">>
  @@ "pair" :> <<"nested", "object2">> @@ "broken" :> <<"lit", "bad">>
MCItem == DOMAIN MCKids
MCKind ==
  [i \in MCItem |-> IF i \in DOMAIN MCLeaf THEN MCLeaf[i]
                    ELSE IF i \in {"array0", "array3", "nested", "pair"} THEN "Array" ELSE "Object"]
MCSize == [i \in MCItem |-> IF i = "lit" THEN 4 ELSE IF i = "num" THEN 1 ELSE 0]
MCKeysize == [i \in MCItem |-> IF i = "array3" THEN 1 ELSE 0]
MCHeight ==
  [i \in MCItem |->
     CASE i \in {"array3", "broken"} -> 1 [] i = "object2" -> 2 [] i = "nested" -> 3
       [] i = "pair" -> 4 [] OTHER -> 0]
MCLength == 0 .. IntMax
=============================================================================
