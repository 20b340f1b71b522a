---------------------------- MODULE MCDocuments -----------------------------
(***************************************************************************)
(* Small documents, patches and pointers, and what RFC 6901, 6902 and 7396 *)
(* say of them.  A plain value has no order of members and no pointers:    *)
(* <<type, content>>, the content of an object a function of the names.    *)
(***************************************************************************)
EXTENDS Documents

RECURSIVE Plain(_)
Plain(item) ==
  CASE item.type = "Object" ->
         <<"Object", [name \in {item.kids[n].string : n \in DOMAIN item.kids} |->
            Plain(item.kids[get_object_item(item, name, TRUE)])]>>
    [] item.type = "Array" ->
         <<"Array", [n \in DOMAIN item.kids |-> Plain(item.kids[n])]>>
    [] OTHER -> <<item.type, item.val>>

Error == <<"Error", 0>>

\* Every list is closed: the prev of its first item is the last one.
RECURSIVE Sound(_)
Sound(item) ==
  item = None \/ (/\ item.tail = Len(item.kids)
                  /\ \A n \in DOMAIN item.kids : Sound(item.kids[n]))

-----------------------------------------------------------------------------
(* RFC 6901 *)

\* ~1 is a slash and ~0 a tilde, and no other escape exists.
RECURSIVE Unescaped(_)
Unescaped(token) ==
  IF token = << >> THEN << >>
  ELSE IF token[1] # Tilde THEN <<token[1]>> \o Unescaped(Tail(token))
  ELSE (IF CharAt(token, 2) = One THEN <<Slash>>
        ELSE IF CharAt(token, 2) = Zero THEN <<Tilde>> ELSE NoString)
       \o Unescaped(SubSeq(token, 3, Len(token)))

\* The tokens of a pointer as they are written.
RECURSIVE WrittenTokens(_)
WrittenTokens(pointer) ==
  IF pointer = << >> THEN << >>
  ELSE Append(WrittenTokens(ParentPointer(pointer)), ChildToken(pointer))

Tokens(pointer) ==
  LET written == WrittenTokens(pointer)
  IN  [n \in DOMAIN written |-> Unescaped(written[n])]

\* The number of an array index without a leading zero, or -1.
RfcIndex(token) ==
  IF \E n \in 0 .. 99 : token = Decimal(n)
  THEN CHOOSE n \in 0 .. 99 : token = Decimal(n) ELSE -1

\* What a token designates inside a plain value.
RfcChild(value, token) ==
  CASE value[1] = "Object" /\ token \in DOMAIN value[2] -> value[2][token]
    [] value[1] = "Array" /\ RfcIndex(token) \in 0 .. Len(value[2]) - 1 ->
         value[2][RfcIndex(token) + 1]
    [] OTHER -> Error

RfcGet(value, tokens) ==
  FoldLeft(LAMBDA v, token : IF v = Error THEN Error ELSE RfcChild(v, token), value, tokens)

\* The tokens that are no index of an element in RFC 6901 and that the code
\* reads as one: none at all, a digit with something above '9' behind it, a
\* number that no size_t holds.
TakenForIndex(token) ==
  \/ token = << >>
  \/ token[1] \in One .. Nine /\ \E n \in DOMAIN token : token[n] > Nine
  \/ RfcIndex(token) >= SizeCount

-----------------------------------------------------------------------------
(* RFC 6902 *)

Without(object, name) == [k \in DOMAIN object \ {name} |-> object[k]]
With(object, name, v) ==
  [k \in DOMAIN object \cup {name} |-> IF k = name THEN v ELSE object[k]]

\* value with f applied to its child at the first token, and so on.
RECURSIVE RfcAdd(_, _, _), RfcRemove(_, _)
RfcAdd(value, tokens, v) ==
  LET token == tokens[1]
      index == IF token = <<Dash>> THEN Len(value[2]) ELSE RfcIndex(token)
      child == RfcAdd(RfcChild(value, token), Tail(tokens), v)
  IN  IF tokens = << >> THEN v
      ELSE IF Len(tokens) > 1
      THEN IF RfcChild(value, token) = Error \/ child = Error THEN Error
           ELSE IF value[1] = "Object" THEN <<"Object", With(value[2], token, child)>>
           ELSE <<"Array", [value[2] EXCEPT ![RfcIndex(token) + 1] = child]>>
      ELSE IF value[1] = "Object" THEN <<"Object", With(value[2], token, v)>>
      ELSE IF value[1] = "Array" /\ index \in 0 .. Len(value[2])
      THEN <<"Array", InsertAt(value[2], index + 1, v)>>
      ELSE Error

RfcRemove(value, tokens) ==
  LET token == tokens[1]
      child == RfcRemove(RfcChild(value, token), Tail(tokens))
  IN  IF RfcChild(value, token) = Error THEN Error
      ELSE IF Len(tokens) > 1
      THEN IF child = Error THEN Error
           ELSE IF value[1] = "Object" THEN <<"Object", With(value[2], token, child)>>
           ELSE <<"Array", [value[2] EXCEPT ![RfcIndex(token) + 1] = child]>>
      ELSE IF value[1] = "Object" THEN <<"Object", Without(value[2], token)>>
      ELSE <<"Array", RemoveAt(value[2], RfcIndex(token) + 1)>>

\* The value after one patch, or Error.  To move a value is to remove it and
\* then to add it, even to a path inside the one it had.
RfcPatch(value, patch) ==
  LET path == Tokens(patch.path)
      from == Tokens(patch.from)
      new == Plain(patch.value)
  IN  IF patch.path = NoString \/ patch.op \notin Operations THEN Error
      ELSE IF patch.op \in {"add", "replace", "test"} /\ patch.value = None THEN Error
      ELSE IF patch.op \in {"move", "copy"} /\ patch.from = NoString THEN Error
      ELSE CASE patch.op = "add" -> RfcAdd(value, path, new)
             [] patch.op = "remove" -> RfcRemove(value, path)
             [] patch.op = "replace" ->
                  IF path = << >> THEN new
                  ELSE IF RfcRemove(value, path) = Error THEN Error
                  ELSE RfcAdd(RfcRemove(value, path), path, new)
             [] patch.op = "move" ->
                  IF RfcGet(value, from) = Error THEN Error
                  ELSE RfcAdd(RfcRemove(value, from), path, RfcGet(value, from))
             [] patch.op = "copy" ->
                  IF RfcGet(value, from) = Error THEN Error
                  ELSE RfcAdd(value, path, RfcGet(value, from))
             [] patch.op = "test" -> IF RfcGet(value, path) = new THEN value ELSE Error

-----------------------------------------------------------------------------
(* RFC 7396 *)

RECURSIVE RfcMerge(_, _)
RfcMerge(value, patch) ==
  LET old == IF value[1] = "Object" THEN value[2] ELSE [k \in {} |-> 0]
      kept == {k \in DOMAIN old \cup DOMAIN patch[2] :
                 ~(k \in DOMAIN patch[2] /\ patch[2][k][1] = "NULL")}
  IN  IF patch[1] # "Object" THEN patch
      ELSE <<"Object",
             [k \in kept |->
                IF k \notin DOMAIN patch[2] THEN old[k]
                ELSE RfcMerge(IF k \in DOMAIN old THEN old[k] ELSE Error, patch[2][k])]>>

\* value is the target, or lacks some members that the source has as well.
RECURSIVE LacksCommon(_, _, _)
LacksCommon(value, source, target) ==
  \/ value = target
  \/ /\ value[1] = "Object" /\ source[1] = "Object" /\ target[1] = "Object"
     /\ DOMAIN target[2] \ DOMAIN value[2] \subseteq DOMAIN source[2]
     /\ DOMAIN value[2] \subseteq DOMAIN target[2]
     /\ \A k \in DOMAIN value[2] :
          IF k \in DOMAIN source[2] THEN LacksCommon(value[2][k], source[2][k], target[2][k])
          ELSE value[2][k] = target[2][k]

\* A merge patch cannot make a member null.
RECURSIVE HasNullMember(_)
HasNullMember(item) ==
  \E n \in DOMAIN item.kids :
    \/ IsObject(item) /\ item.kids[n].type = "NULL"
    \/ HasNullMember(item.kids[n])

-----------------------------------------------------------------------------
(* What is kept apart in the properties *)

RECURSIVE NamesOf(_)
NamesOf(item) ==
  UNION {NamesOf(item.kids[n]) \cup {item.kids[n].string} : n \in DOMAIN item.kids}

\* No two of these names differ only in case.
NoCaseClash(names) ==
  \A s, t \in names : compare_strings(s, t, FALSE) = 0 => s = t

\* The order of strcmp() is the order without case as well.
SameOrder(names) ==
  \A s, t \in names : compare_strings(s, t, TRUE) < 0 <=> compare_strings(s, t, FALSE) < 0

\* The names that generate_merge_patch() sorts without case: below the first
\* level it does so in either mode.
SortedLoosely(item) ==
  IF call.case_sensitive THEN UNION {NamesOf(item.kids[n]) : n \in DOMAIN item.kids}
  ELSE NamesOf(item)

\* The last token comes out of decode_pointer_inplace() as it should.
Unmangled(pointer) ==
  decode_pointer_inplace(ChildToken(pointer)) = Unescaped(ChildToken(pointer))

Shallow(item) == item = None \/ Depth(item) <= CircularLimit

\* The requests to which the code does what RFC 6902 says: nothing is moved or
\* copied to the place of the whole document or removed from it, no escape is
\* decoded wrongly, no two names differ only in case.
InReach(object, patch) ==
  /\ Unmangled(patch.path) /\ Unmangled(patch.from)
  /\ NoCaseClash(NamesOf(object) \cup ToSet(Tokens(patch.path)) \cup ToSet(Tokens(patch.from)))
  /\ patch.op \in {"remove", "move", "copy"} => patch.path # << >>

Applied ==
  /\ call.name = "apply" /\ Len(call.patches) = 1
  /\ Sound(call.doc) /\ InReach(call.doc, call.patches[1])

-----------------------------------------------------------------------------
(* Properties *)

\* A patch is applied with success exactly when RFC 6902 says so, and gives
\* what it says, if the lists of the document are closed and no copy is
\* refused (apply_patch with all it calls, cJSON_Utils.c:807-1036).
PatchFollowsRfc ==
  Applied /\ call.refused = "none" /\ call.status \notin {6, 8} =>
    LET expected == RfcPatch(Plain(call.doc), call.patches[1])
    IN  /\ call.status = 0 <=> expected # Error
        /\ call.status = 0 => Plain(doc) = expected

\* A patch that fails, for whatever reason, leaves the document as it was, or
\* without what replace and move take out before they look for its new place,
\* be it inside what is taken out (the gotos to cleanup behind
\* cJSON_Utils.c:896 and :918).
FailureOnlyRemoves ==
  Applied /\ call.status # 0 =>
    LET patch == call.patches[1]
        gone == IF patch.op = "replace" THEN Tokens(patch.path) ELSE Tokens(patch.from)
    IN  \/ Plain(doc) = Plain(call.doc)
        \/ /\ patch.op \in {"replace", "move"}
           /\ Plain(doc) = RfcRemove(Plain(call.doc), gone)

\* The patches from one document to another, applied to a copy of the first as
\* it was, give the second; making them only reorders the two
\* (cJSONUtils_GeneratePatches and cJSONUtils_ApplyPatches).
PatchesLead ==
  /\ call.name = "generate"
  /\ Shallow(call.doc) /\ Shallow(call.other)
  /\ NoCaseClash(NamesOf(doc) \cup NamesOf(other))
  /\ \A n \in DOMAIN patches : Unmangled(patches[n].path)
  => LET applied == cJSONUtils_ApplyPatches(Copied(call.doc), patches, call.case_sensitive,
                                            "none")
     IN  /\ applied.status = 0
         /\ Plain(applied.object) = Plain(call.other)
         /\ Plain(doc) = Plain(call.doc) /\ Plain(other) = Plain(call.other)

\* Merging gives what RFC 7396 says (merge_patch, cJSON_Utils.c:1321-1379).
MergeFollowsRfc ==
  /\ call.name = "merge"
  /\ Sound(call.doc) /\ Shallow(call.other)
  /\ NoCaseClash(NamesOf(call.doc) \cup NamesOf(call.other))
  => Plain(doc) = RfcMerge(Plain(call.doc), Plain(call.other))

\* The merge patch from one document to another, merged into a copy of the
\* first as it was, gives the second; there is none only if they are equal.
\* Where members are sorted without case and that is another order than the one
\* of strcmp(), members that both documents have may be missing from what it
\* gives, and nothing else (generate_merge_patch and merge_patch).
MergePatchLeads ==
  /\ call.name = "generate_merge"
  /\ Shallow(call.doc) /\ Shallow(call.other) /\ ~HasNullMember(call.other)
  /\ NoCaseClash(NamesOf(call.doc) \cup NamesOf(call.other))
  => LET from == Plain(call.doc)
         to == Plain(call.other)
         reached == IF call.value = None THEN from
                    ELSE Plain(merge_patch(Copied(call.doc), call.value, call.case_sensitive))
     IN  /\ LacksCommon(reached, from, to)
         /\ SameOrder(SortedLoosely(call.doc) \cup SortedLoosely(call.other)) => reached = to

\* What RFC 6901 says a pointer designates is what is found.  Where it says
\* nothing, nothing is found, unless an array has met a token that the code
\* takes for an index (get_item_from_pointer, compare_pointers and
\* decode_array_index_from_pointer).
PointersFollowRfc ==
  LET tokens == Tokens(call.text)
      written == WrittenTokens(call.text)
      expected == RfcGet(Plain(doc), tokens)
  IN  call.name = "get" /\ NoCaseClash(NamesOf(doc) \cup ToSet(tokens)) =>
        IF expected # Error
        THEN call.path # NoPath /\ Plain(ItemAt(doc, call.path)) = expected
        ELSE call.path # NoPath =>
               \E n \in DOMAIN tokens :
                 /\ TakenForIndex(written[n])
                 /\ RfcGet(Plain(doc), SubSeq(tokens, 1, n - 1))[1] = "Array"

\* The pointer that is found to an item designates that item, for
\* cJSONUtils_GetPointerCaseSensitive and for RFC 6901.
FindLeadsBack ==
  call.name = "find" =>
    /\ get_item_from_pointer(doc, call.text, TRUE) = call.path
    /\ RfcGet(Plain(doc), Tokens(call.text)) = Plain(ItemAt(doc, call.path))

\* cJSON_Compare and compare_json, one looking names up, the other sorting,
\* agree, and with regard to case they are equality up to order.
ComparesAgree ==
  call.name = "compare" /\ NoCaseClash(NamesOf(doc)) /\ NoCaseClash(NamesOf(other)) =>
    /\ call.status = 1 <=> compare_json(doc, other, call.case_sensitive).same
    /\ call.case_sensitive => (call.status = 1 <=> Plain(doc) = Plain(other))

\* A copy is equal to the original, and all its lists are closed, even those
\* that a sort has left open in the original; there is none exactly of a
\* document with an item that is too deep (cJSON_Duplicate_rec).
CopyIsClosed ==
  call.name = "duplicate" =>
    IF \E path \in Paths(doc) : Len(path) > CircularLimit THEN other = None
    ELSE Sound(other) /\ Plain(other) = Plain(doc)

\* Only a call that sorts leaves a list whose first item does not know the
\* last one: sorting, generating, and the patch operation test, which sorts
\* what it compares (cJSON_Utils.c:834).
OnlySortingOpens ==
  [][Sound(doc) /\ ~Sound(doc') =>
       \/ call'.name \in {"sort", "generate", "generate_merge"}
       \/ \E n \in DOMAIN call'.patches : call'.patches[n].op = "test"]_vars

\* cJSON_Utils.h:33 and :37, "Implement RFC6901" and "Implement RFC6902": what
\* add has put at a path is found at that path.
AddedIsFound ==
  /\ call.name = "apply" /\ call.status = 0 /\ call.refused = "none"
  /\ Len(call.patches) = 1 /\ call.patches[1].op = "add"
  /\ Sound(call.doc) /\ ChildToken(call.patches[1].path) # <<Dash>>
  => get_item_from_pointer(doc, call.patches[1].path, call.case_sensitive) # NoPath

-----------------------------------------------------------------------------
(* The instance *)

nameA == <<97>>
nameB == <<98>>
nameC == <<99>>
upperA == <<65>>
upperB == <<66>>
slash == <<Slash>>
tilde == <<Tilde>>

Number(n) == Scalar("Number", n)
Array(kids) == [Scalar("Array", 0) EXCEPT !.kids = kids, !.tail = Len(kids)]

\* The object with these names and values, in this order.
Object(names, kids) ==
  [CreateObject EXCEPT
     !.kids = [n \in DOMAIN kids |-> [kids[n] EXCEPT !.string = names[n]]],
     !.tail = Len(kids)]

MCDocs ==
  {Number(1), CreateNull, CreateObject, Array(<< >>),
   Object(<<nameA>>, <<Number(1)>>),
   Object(<<nameB, nameA>>, <<Number(1), Number(2)>>),
   Object(<<nameA, nameC, nameB>>, <<Number(1), Number(2), Number(3)>>),
   Object(<<nameA, nameB>>,
          <<Object(<<nameB>>, <<Number(1)>>), Array(<<Number(1), Number(2)>>)>>),
   Object(<<nameB, nameA>>,
          <<Object(<<nameB, nameA>>, <<Number(2), CreateNull>>), Scalar("String", 1)>>),
   Array(<<Number(1), Number(2)>>),
   Array(<<Object(<<nameA>>, <<Number(1)>>), Object(<<nameB>>, <<Number(2)>>)>>),
   Array(<<Number(1), Number(2), Number(3)>>),
   Array([n \in 1 .. 22 |-> Number(n)]),
   Object(<<slash, tilde>>, <<Number(1), Object(<<tilde>>, <<Number(2)>>)>>),
   Object(<<upperA, nameB>>, <<Number(1), Number(2)>>),
   Object(<<nameA, upperB>>, <<Number(1), Number(2)>>),
   Object(<<upperB>>, <<Number(2)>>),
   Object(<< << >>, nameA>>, <<Number(1), Number(2)>>),
   Array(<<Array(<<Array(<<Number(1)>>)>>)>>)}

\* Pointers as texts: "", "/a", "/b", "/c", "/a/b", "/a/a", "/b/0", "/b/1", "/b/2", "/b/-",
\* "/0", "/1", "/2", "/01", "/-", "/1a", "/0/a", "/~0", "/~1", "/~0/~0".
MCPaths ==
  {<< >>} \cup
  {<<Slash>> \o t : t \in
     {nameA, nameB, nameC, nameA \o slash \o nameB, nameA \o slash \o nameA,
      nameB \o slash \o <<48>>, nameB \o slash \o <<49>>, nameB \o slash \o <<50>>,
      nameB \o slash \o <<Dash>>, <<48>>, <<49>>, <<50>>, <<48, 49>>, <<Dash>>, <<49, 97>>,
      <<48, Slash, 97>>, <<Tilde, 48>>, <<Tilde, 49>>, <<Tilde, 48, Slash, Tilde, 48>>}}

MCFroms ==
  {NoString} \cup
  {<<Slash>> \o t : t \in {nameA, nameB, nameA \o slash \o nameB, nameB \o slash \o <<48>>,
                           <<48>>, <<49>>}}

MCValues ==
  {None, Number(2), Object(<<nameB, nameA>>, <<Number(1), Number(2)>>)}

MCRequests ==
  {Patch(op, path, NoString, value) :
     op \in {"add", "replace", "test"}, path \in MCPaths, value \in MCValues}
  \cup {Patch("remove", path, NoString, None) : path \in MCPaths}
  \cup {Patch(op, path, from, None) : op \in {"move", "copy"}, path \in MCPaths, from \in MCFroms}
  \cup {Patch("add", NoString, NoString, Number(2)), Patch("invalid", nameA, NoString, Number(2))}

\* The paths, and "/", "/A", "/9", "/b/", "/~2", "/~", "/:", "/0/:", "/20", "/21", "/22",
\* "/0a", "/1:", "/1;", "/9:", "/1~1", "/2/0"; where SizeCount is 64, "/63" is the last
\* that does not wrap, "/64", "/65" and "/85" wrap into the long array, "/86" behind it.
MCQueries ==
  MCPaths \cup
  {<<Slash>> \o t : t \in
     {<< >>, upperA, <<57>>, nameB \o slash, <<Tilde, 50>>, <<Tilde>>, <<58>>, <<48, Slash, 58>>,
      <<50, 48>>, <<50, 49>>, <<50, 50>>, <<48, 97>>, <<49, 58>>, <<49, 59>>, <<57, 58>>,
      <<49, Tilde, 49>>, <<50, Slash, 48>>, <<54, 51>>, <<54, 52>>, <<54, 53>>, <<56, 53>>,
      <<56, 54>>}}
=============================================================================
