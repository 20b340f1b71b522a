----------------------------- MODULE JsonValues -----------------------------
(***************************************************************************)
(* cJSON documents as values: an item with the sequence of its children.   *)
(* Of the pointers only one is kept that a list does not determine, the    *)
(* prev of its first item: tail is the position it points to, which should *)
(* be the last one.  Items are designated by paths, sequences of positions;*)
(* the members of an object have names that differ.                        *)
(***************************************************************************)
EXTENDS Pointers

CONSTANTS
  CircularLimit   \* CJSON_CIRCULAR_LIMIT, the depth at which copying stops

ASSUME CircularAssumption == CircularLimit \in Nat \ {0}

NoString == <<-1>>             \* a char pointer that is NULL
None == [type |-> "None"]      \* a NULL item
NoPath == <<0>>                \* no item found
Stale == -1                    \* prev of the first item points to no item of the list

\* Then(value), the value being worked out once.
Let(value, Then(_)) == CHOOSE result \in {Then(v) : v \in {value}} : TRUE

\* An item of the given type without name and children.
Scalar(type, val) ==
  [type |-> type, string |-> NoString, val |-> val, kids |-> << >>, tail |-> 0]

CreateObject == Scalar("Object", 0)
CreateNull == Scalar("NULL", 0)

IsObject(item) == item.type = "Object"
IsArray(item) == item.type = "Array"

-----------------------------------------------------------------------------
(* Paths *)

RECURSIVE ItemAt(_, _)
ItemAt(item, path) ==
  IF path = << >> THEN item ELSE ItemAt(item.kids[path[1]], Tail(path))

\* The document with the item at a path replaced.
RECURSIVE PutAt(_, _, _)
PutAt(item, path, new) ==
  IF path = << >> THEN new
  ELSE [item EXCEPT !.kids[path[1]] = PutAt(@, Tail(path), new)]

RECURSIVE Paths(_)
Paths(item) ==
  {<< >>} \cup UNION {{<<n>> \o path : path \in Paths(item.kids[n])} : n \in DOMAIN item.kids}

-----------------------------------------------------------------------------
(* Lists *)

\* add_item_to_array(): the new item goes behind the one that the prev of the
\* first points to, and what was behind that is cut off; with a prev of NULL
\* the item is dropped.  A Stale prev points to freed memory, which the call
\* writes to; the list does not get the item then either.
add_item_to_array(list, item) ==
  IF list.kids = << >> THEN [list EXCEPT !.kids = <<item>>, !.tail = 1]
  ELSE IF list.tail <= 0 THEN list
  ELSE [list EXCEPT !.kids = Append(SubSeq(@, 1, list.tail), item),
                    !.tail = @ + 1]

cJSON_AddItemToObject(object, name, item) ==
  add_item_to_array(object, [item EXCEPT !.string = name])

\* The position of a member, 0 if there is none.
get_object_item(object, name, case_sensitive) ==
  SelectInSeq(object.kids,
              LAMBDA kid : compare_strings(kid.string, name, case_sensitive) = 0)

\* Mutant: the last item is taken out without telling the first.
UnlinkedAt(list, n) == [list EXCEPT !.kids = RemoveAt(@, n)]

\* cJSON_DetachItemViaPointer() and detach_item_from_array().  The item behind
\* takes over the prev of the one that goes, the first one that of the last.
DetachAt(list, n) ==
  LET last == Len(list.kids)
  IN  [list EXCEPT
         !.kids = RemoveAt(@, n),
         !.tail = IF last = 1 THEN 0
                  ELSE IF n = last THEN last - 1
                  ELSE IF @ = n THEN Stale
                  ELSE IF @ > n THEN @ - 1
                  ELSE @]

\* Mutant: no item can be inserted at the end.
InsertInside(array, which, item) ==
  IF which >= Len(array.kids) THEN [ok |-> FALSE, list |-> array]
  ELSE [ok |-> TRUE, list |-> [array EXCEPT !.kids = InsertAt(@, which + 1, item),
                                            !.tail = @ + 1]]

\* insert_item_in_array(), which counting from 0.
insert_item_in_array(array, which, item) ==
  IF which > Len(array.kids) THEN [ok |-> FALSE, list |-> array]
  ELSE IF which = Len(array.kids)
  THEN [ok |-> TRUE, list |-> add_item_to_array(array, item)]
  ELSE [ok |-> TRUE, list |-> [array EXCEPT !.kids = InsertAt(@, which + 1, item),
                                            !.tail = IF @ > which THEN @ + 1 ELSE @]]

-----------------------------------------------------------------------------
(* Sorting *)

RECURSIVE Merged(_, _, _)
Merged(first, second, case_sensitive) ==
  IF first = << >> \/ second = << >> THEN first \o second
  ELSE IF compare_strings(first[1].string, second[1].string, case_sensitive) < 0
  THEN <<first[1]>> \o Merged(Tail(first), second, case_sensitive)
  ELSE <<second[1]>> \o Merged(first, Tail(second), case_sensitive)

RECURSIVE sort_list(_, _)
sort_list(list, case_sensitive) ==
  LET middle == (Len(list) + 1) \div 2
  IN  IF \A n \in 1 .. Len(list) - 1 :
           compare_strings(list[n].string, list[n + 1].string, case_sensitive) < 0
      THEN list
      ELSE Merged(sort_list(SubSeq(list, 1, middle), case_sensitive),
                  sort_list(SubSeq(list, middle + 1, Len(list)), case_sensitive),
                  case_sensitive)

\* A new first item was first in the second half of a list: its prev is NULL.
\* The same first item keeps its prev, wherever that item is now.
sort_object(object, case_sensitive) ==
  LET sorted == sort_list(object.kids, case_sensitive)
      old_tail == object.kids[object.tail]
  IN  IF sorted = object.kids THEN object
      ELSE [object EXCEPT
              !.kids = sorted,
              !.tail = IF sorted[1] # object.kids[1] THEN 0
                       ELSE IF @ <= 0 THEN @
                       ELSE SelectInSeq(sorted, LAMBDA kid : kid = old_tail)]

-----------------------------------------------------------------------------
(* Comparing and copying *)

\* Whether the numbers or texts of two items of the same type are equal:
\* compare_json() takes any two items of type Raw for equal.
SameValue(a, b, types) == a.type \in types => a.val = b.val

\* compare_json() sorts the objects it compares, as far as it gets: it
\* returns what the two documents are afterwards.
RECURSIVE compare_json(_, _, _), CompareChildren(_, _, _, _)
compare_json(a, b, case_sensitive) ==
  LET x == IF IsObject(a) THEN sort_object(a, case_sensitive) ELSE a
      y == IF IsObject(b) THEN sort_object(b, case_sensitive) ELSE b
  IN  IF a = None \/ b = None \/ a.type # b.type
      THEN [same |-> FALSE, a |-> a, b |-> b]
      ELSE IF IsObject(a) \/ IsArray(a) THEN CompareChildren(x, y, 1, case_sensitive)
      ELSE [same |-> SameValue(a, b, {"Number", "String"}), a |-> a, b |-> b]

\* Two lists of children from position n on.
CompareChildren(a, b, n, case_sensitive) ==
  IF n > Len(a.kids) \/ n > Len(b.kids)
  THEN [same |-> Len(a.kids) = Len(b.kids), a |-> a, b |-> b]
  ELSE IF IsObject(a)
          /\ compare_strings(a.kids[n].string, b.kids[n].string, case_sensitive) # 0
  THEN [same |-> FALSE, a |-> a, b |-> b]
  ELSE LET child == compare_json(a.kids[n], b.kids[n], case_sensitive)
           x == [a EXCEPT !.kids[n] = child.a]
           y == [b EXCEPT !.kids[n] = child.b]
       IN  IF child.same THEN CompareChildren(x, y, n + 1, case_sensitive)
           ELSE [same |-> FALSE, a |-> x, b |-> y]

\* Mutant: members that only b has are not looked for.
RECURSIVE CompareOneWay(_, _, _)
CompareOneWay(a, b, case_sensitive) ==
  /\ a.type = b.type /\ a.type # "Invalid"
  /\ SameValue(a, b, {"Number", "String", "Raw"})
  /\ IsArray(a) => /\ Len(a.kids) = Len(b.kids)
                   /\ \A n \in DOMAIN a.kids :
                        CompareOneWay(a.kids[n], b.kids[n], case_sensitive)
  /\ IsObject(a) =>
       \A n \in DOMAIN a.kids :
         LET m == get_object_item(b, a.kids[n].string, case_sensitive)
         IN  m # 0 /\ CompareOneWay(a.kids[n], b.kids[m], case_sensitive)

\* cJSON_Compare() of two items that are not the same one.
RECURSIVE cJSON_Compare(_, _, _), CompareMembers(_, _, _)
cJSON_Compare(a, b, case_sensitive) ==
  /\ a.type = b.type /\ a.type # "Invalid"
  /\ SameValue(a, b, {"Number", "String", "Raw"})
  /\ IsArray(a) => /\ Len(a.kids) = Len(b.kids)
                   /\ \A n \in DOMAIN a.kids :
                        cJSON_Compare(a.kids[n], b.kids[n], case_sensitive)
  /\ IsObject(a) => CompareMembers(a, b, case_sensitive) /\ CompareMembers(b, a, case_sensitive)

CompareMembers(a, b, case_sensitive) ==
  \A n \in DOMAIN a.kids :
    LET m == get_object_item(b, a.kids[n].string, case_sensitive)
    IN  m # 0 /\ cJSON_Compare(a.kids[n], b.kids[m], case_sensitive)

RECURSIVE Depth(_)
Depth(item) ==
  IF item.kids = << >> THEN 0
  ELSE 1 + Max({Depth(item.kids[n]) : n \in DOMAIN item.kids})

\* Mutant: the prev of the first child is not set.
RECURSIVE CopiedForwards(_)
CopiedForwards(item) ==
  [item EXCEPT
     !.kids = FoldLeft(LAMBDA kids, kid : Append(kids, CopiedForwards(kid)), << >>, @),
     !.tail = 0]

\* A copy with all its descendants, each list linked anew.
RECURSIVE Copied(_)
Copied(item) ==
  [item EXCEPT
     !.kids = FoldLeft(LAMBDA kids, kid : Append(kids, Copied(kid)), << >>, @),
     !.tail = Len(item.kids)]

\* cJSON_Duplicate() with recurse, no allocation failing.
cJSON_Duplicate(item) == IF Depth(item) > CircularLimit THEN None ELSE Copied(item)

-----------------------------------------------------------------------------
(* JSON pointers *)

\* The position of the child that the first token of a pointer designates, 0
\* if there is none; the pointer comes without its first slash.
PointedChild(item, pointer, case_sensitive) ==
  LET token == decode_array_index_from_pointer(pointer)
  IN  IF IsArray(item) /\ token.ok /\ token.index < Len(item.kids) THEN token.index + 1
      ELSE IF IsObject(item)
      THEN SelectInSeq(item.kids, LAMBDA kid :
                         compare_pointers(kid.string, pointer, case_sensitive))
      ELSE 0

\* What is left of a pointer from its next slash on.
Further(pointer) ==
  LET slash == SelectInSeq(pointer, LAMBDA c : c = Slash)
  IN  IF slash = 0 THEN << >> ELSE SubSeq(pointer, slash, Len(pointer))

\* get_item_from_pointer(): the path to what a pointer designates.  Where the
\* text does not go on with a slash it ends, whatever follows.
RECURSIVE get_item_from_pointer(_, _, _)
get_item_from_pointer(item, pointer, case_sensitive) ==
  IF CharAt(pointer, 1) # Slash THEN << >>
  ELSE Let(Tail(pointer), LAMBDA rest :
         Let(PointedChild(item, rest, case_sensitive), LAMBDA position :
           LET found == get_item_from_pointer(item.kids[position], Further(rest), case_sensitive)
           IN  IF position = 0 \/ found = NoPath THEN NoPath ELSE <<position>> \o found))

\* The text of a pointer to the item at a path.
RECURSIVE cJSONUtils_FindPointerFromObjectTo(_, _)
cJSONUtils_FindPointerFromObjectTo(object, path) ==
  IF path = << >> THEN << >>
  ELSE <<Slash>>
       \o (IF IsArray(object) THEN Decimal(path[1] - 1)
           ELSE encode_string_as_pointer(object.kids[path[1]].string))
       \o cJSONUtils_FindPointerFromObjectTo(object.kids[path[1]], Tail(path))
=============================================================================
