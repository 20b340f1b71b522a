------------------------------ MODULE Patches -------------------------------
(***************************************************************************)
(* JSON patches and merge patches of cJSON_Utils.c on the documents of     *)
(* JsonValues.  A patch is the record of its members op, path, from and    *)
(* value; a missing value is None, a missing string is NoString, and a path *)
(* or an op that is no string is the same as a missing one.                *)
(***************************************************************************)
EXTENDS JsonValues

Patch(op, path, from, value) == [op |-> op, path |-> path, from |-> from, value |-> value]

\* decode_patch_operation().
Operations == {"add", "remove", "replace", "move", "copy", "test"}

\* What apply_patch() leaves behind: a test sorts its value as well.
Done(status, object, patch) == [status |-> status, object |-> object, patch |-> patch]

-----------------------------------------------------------------------------
\* The pointer to the parent and the name or index of the child.
Split(path) ==
  [parent |-> ParentPointer(path), child |-> decode_pointer_inplace(ChildToken(path))]

\* The position of what the last token of a path designates, 0 for nothing.  A
\* member is looked for without regard to case in every mode.
DetachedPosition(parent, child) ==
  LET token == decode_array_index_from_pointer(child)
  IN  IF IsArray(parent) /\ token.ok /\ token.index < Len(parent.kids) THEN token.index + 1
      ELSE IF IsObject(parent) THEN get_object_item(parent, child, FALSE)
      ELSE 0

\* What is left of a document when the item that the last token of a path
\* designates is taken out, the parent being at a path that has been found.
DetachBelow(object, at, child) ==
  LET parent == ItemAt(object, at)
      position == DetachedPosition(parent, child)
  IN  IF at = NoPath \/ position = 0 THEN [item |-> None, object |-> object]
      ELSE [item |-> parent.kids[position],
            object |-> PutAt(object, at, DetachAt(parent, position))]

\* detach_path(): the item taken out and the document without it.  refused is
\* the allocation that fails, if any.
detach_path(object, path, case_sensitive, refused) ==
  IF refused = "detach" \/ LastSlash(path) = 0 THEN [item |-> None, object |-> object]
  ELSE Let(Split(path), LAMBDA split :
         Let(get_item_from_pointer(object, split.parent, case_sensitive), LAMBDA at :
           DetachBelow(object, at, split.child)))

\* The value becomes an element of an array: the status and the array.
AttachElement(array, child, value) ==
  LET token == decode_array_index_from_pointer(child)
      inserted == insert_item_in_array(array, token.index, value)
  IN  IF child = <<Dash>> THEN <<0, add_item_to_array(array, value)>>
      ELSE IF ~token.ok THEN <<11, array>>
      ELSE IF ~inserted.ok THEN <<10, array>>
      ELSE <<0, inserted.list>>

\* The value becomes a member of an object, in place of what has that name.  A
\* member that cannot be named is lost, and the status is 0 nevertheless.
AttachMember(object, child, value, case_sensitive, refused) ==
  LET old == get_object_item(object, child, case_sensitive)
      without == IF old = 0 THEN object ELSE DetachAt(object, old)
  IN  <<0, IF refused = "name" THEN without ELSE cJSON_AddItemToObject(without, child, value)>>

\* The value goes below the item at a path that has been found.
AttachBelow(object, at, child, patch, value, case_sensitive, refused) ==
  LET parent == ItemAt(object, at)
      attached == IF IsArray(parent) THEN AttachElement(parent, child, value)
                  ELSE IF IsObject(parent)
                  THEN AttachMember(parent, child, value, case_sensitive, refused)
                  ELSE <<9, parent>>
  IN  IF at = NoPath THEN Done(9, object, patch)
      ELSE Done(attached[1], PutAt(object, at, attached[2]), patch)

\* The last part of apply_patch(): value goes to the path of the patch.  If the
\* status is not 0 the value is deleted.
Attach(object, patch, value, case_sensitive, refused) ==
  IF refused = "split" \/ LastSlash(patch.path) = 0 THEN Done(9, object, patch)
  ELSE Let(Split(patch.path), LAMBDA split :
         Let(get_item_from_pointer(object, split.parent, case_sensitive), LAMBDA at :
           AttachBelow(object, at, split.child, patch, value, case_sensitive, refused)))

\* The operation test, with all that comparing sorts.
ApplyTest(object, patch, case_sensitive) ==
  Let(get_item_from_pointer(object, patch.path, case_sensitive), LAMBDA at :
    IF at = NoPath \/ patch.value = None THEN Done(1, object, patch)
    ELSE Let(compare_json(ItemAt(object, at), patch.value, case_sensitive), LAMBDA compared :
           Done(IF compared.same THEN 0 ELSE 1, PutAt(object, at, compared.a),
                [patch EXCEPT !.value = compared.b])))

\* remove, replace and add of the whole document.
ApplyToRoot(object, patch, refused) ==
  IF patch.op = "remove" THEN Done(0, Scalar("Invalid", 0), patch)
  ELSE IF patch.value = None THEN Done(7, object, patch)
  ELSE IF refused = "value" \/ cJSON_Duplicate(patch.value) = None
  THEN Done(8, object, patch)
  ELSE Done(0, [cJSON_Duplicate(patch.value) EXCEPT !.string = NoString], patch)

\* add and replace, the old value being gone in the second case.
ApplyValue(object, patch, case_sensitive, refused) ==
  IF patch.value = None THEN Done(7, object, patch)
  ELSE IF refused = "value" \/ cJSON_Duplicate(patch.value) = None THEN Done(8, object, patch)
  ELSE Attach(object, patch, cJSON_Duplicate(patch.value), case_sensitive, refused)

ApplyMove(object, patch, case_sensitive, refused) ==
  IF patch.from = NoString THEN Done(4, object, patch)
  ELSE Let(detach_path(object, patch.from, case_sensitive, refused), LAMBDA old :
         IF old.item = None THEN Done(5, object, patch)
         ELSE Attach(old.object, patch, old.item, case_sensitive, refused))

\* Mutant: what is copied is taken out as for move, and put back if all goes well.
CopyByMoving(object, patch, case_sensitive, refused) ==
  LET moved == ApplyMove(object, patch, case_sensitive, refused)
      old == detach_path(object, patch.from, case_sensitive, refused)
      back == Attach(moved.object, [patch EXCEPT !.path = patch.from], old.item, case_sensitive,
                     refused)
  IN  IF moved.status # 0 THEN moved ELSE [back EXCEPT !.patch = patch]

ApplyCopy(object, patch, case_sensitive, refused) ==
  IF patch.from = NoString THEN Done(4, object, patch)
  ELSE Let(get_item_from_pointer(object, patch.from, case_sensitive), LAMBDA at :
         LET copy == cJSON_Duplicate(ItemAt(object, at))
         IN  IF at = NoPath THEN Done(5, object, patch)
             ELSE IF refused = "value" \/ copy = None THEN Done(6, object, patch)
             ELSE Attach(object, patch, copy, case_sensitive, refused))

\* remove and replace take the old item out first.
ApplyToOld(object, patch, case_sensitive, refused) ==
  Let(detach_path(object, patch.path, case_sensitive, refused), LAMBDA old :
    IF old.item = None THEN Done(13, object, patch)
    ELSE IF patch.op = "remove" THEN Done(0, old.object, patch)
    ELSE ApplyValue(old.object, patch, case_sensitive, refused))

apply_patch(object, patch, case_sensitive, refused) ==
  IF patch.path = NoString THEN Done(2, object, patch)
  ELSE IF patch.op \notin Operations THEN Done(3, object, patch)
  ELSE IF patch.op = "test" THEN ApplyTest(object, patch, case_sensitive)
  ELSE IF patch.path = << >> /\ patch.op \in {"remove", "replace", "add"}
  THEN ApplyToRoot(object, patch, refused)
  ELSE IF patch.op \in {"remove", "replace"}
  THEN ApplyToOld(object, patch, case_sensitive, refused)
  ELSE IF patch.op = "move" THEN ApplyMove(object, patch, case_sensitive, refused)
  ELSE IF patch.op = "copy" THEN ApplyCopy(object, patch, case_sensitive, refused)
  ELSE ApplyValue(object, patch, case_sensitive, refused)

\* One patch after the other, until one fails.
cJSONUtils_ApplyPatches(object, patches, case_sensitive, refused) ==
  FoldLeft(LAMBDA sofar, n :
             IF sofar.status # 0 THEN sofar
             ELSE Let(apply_patch(sofar.object, sofar.patches[n], case_sensitive, refused),
                      LAMBDA one : [status |-> one.status, object |-> one.object,
                                    patches |-> [sofar.patches EXCEPT ![n] = one.patch]]),
           [status |-> 0, object |-> object, patches |-> patches],
           [n \in DOMAIN patches |-> n])

-----------------------------------------------------------------------------
(* Generating patches *)

\* compose_patch(): the patch for a member or element of what path designates,
\* or with no suffix for that item itself.
compose_patch(patches, op, path, suffix, value) ==
  Append(patches,
         Patch(op, IF suffix = NoString THEN path
                   ELSE path \o <<Slash>> \o encode_string_as_pointer(suffix),
               NoString, IF value = None THEN None ELSE cJSON_Duplicate(value)))

\* Mutant: the leftover elements are removed from the first one up.
PatchesForRest(patches, path, from, to) ==
  LET m == Len(from.kids)
      n == Len(to.kids)
      Removal(k) == Patch("remove", path \o <<Slash>> \o Decimal(n + k - 1), NoString, None)
      Addition(k) == Patch("add", path \o <<Slash, Dash>>, NoString, Copied(to.kids[m + k]))
  IN  patches \o [k \in 1 .. m - n |-> Removal(k)] \o [k \in 1 .. n - m |-> Addition(k)]

\* What one array has more than the other: elements are removed at the same
\* index again and again, and added at the end.
LeftoverPatches(patches, path, from, to) ==
  LET m == Len(from.kids)
      n == Len(to.kids)
      removed == FoldLeft(LAMBDA ps, k : compose_patch(ps, "remove", path, Decimal(n), None),
                          patches, [k \in 1 .. m - n |-> k])
  IN  FoldLeft(LAMBDA ps, k : compose_patch(ps, "add", path, <<Dash>>, to.kids[m + k]),
               removed, [k \in 1 .. n - m |-> k])

\* create_patches() sorts the objects it compares and returns what the two
\* documents are afterwards, with the patches.
RECURSIVE create_patches(_, _, _, _, _), ElementPatches(_, _, _, _, _, _),
          MemberPatches(_, _, _, _, _, _, _)
create_patches(patches, path, from, to, case_sensitive) ==
  IF from.type # to.type
     \/ ~SameValue(from, to, {"Number", "String"})
  THEN [patches |-> compose_patch(patches, "replace", path, NoString, to), from |-> from, to |-> to]
  ELSE IF IsArray(from) THEN ElementPatches(patches, path, from, to, 1, case_sensitive)
  ELSE IF IsObject(from)
  THEN MemberPatches(patches, path, sort_object(from, case_sensitive),
                     sort_object(to, case_sensitive), 1, 1, case_sensitive)
  ELSE [patches |-> patches, from |-> from, to |-> to]

\* The elements of two arrays from position n on.
ElementPatches(patches, path, from, to, n, case_sensitive) ==
  LET child == create_patches(patches, path \o <<Slash>> \o Decimal(n - 1),
                              from.kids[n], to.kids[n], case_sensitive)
  IN  IF n > Len(from.kids) \/ n > Len(to.kids)
      THEN [patches |-> LeftoverPatches(patches, path, from, to), from |-> from, to |-> to]
      ELSE ElementPatches(child.patches, path, [from EXCEPT !.kids[n] = child.from],
                          [to EXCEPT !.kids[n] = child.to], n + 1, case_sensitive)

\* The members of two sorted objects from positions m and n on.
MemberPatches(patches, path, from, to, m, n, case_sensitive) ==
  LET order == IF m > Len(from.kids) THEN 1
               ELSE IF n > Len(to.kids) THEN -1
               ELSE compare_strings(from.kids[m].string, to.kids[n].string, case_sensitive)
      child == create_patches(patches,
                 path \o <<Slash>> \o encode_string_as_pointer(from.kids[m].string),
                 from.kids[m], to.kids[n], case_sensitive)
  IN  IF m > Len(from.kids) /\ n > Len(to.kids)
      THEN [patches |-> patches, from |-> from, to |-> to]
      ELSE IF order = 0
      THEN MemberPatches(child.patches, path, [from EXCEPT !.kids[m] = child.from],
                         [to EXCEPT !.kids[n] = child.to], m + 1, n + 1, case_sensitive)
      ELSE IF order < 0
      THEN MemberPatches(compose_patch(patches, "remove", path, from.kids[m].string, None),
                         path, from, to, m + 1, n, case_sensitive)
      ELSE MemberPatches(compose_patch(patches, "add", path, to.kids[n].string, to.kids[n]),
                         path, from, to, m, n + 1, case_sensitive)

cJSONUtils_GeneratePatches(from, to, case_sensitive) ==
  create_patches(<< >>, << >>, from, to, case_sensitive)

-----------------------------------------------------------------------------
(* Merge patches *)

\* Mutant: the members of the patch replace those of the target whole.
MergeFlat(target, patch, case_sensitive) ==
  IF ~IsObject(patch) \/ ~IsObject(target) THEN cJSON_Duplicate(patch)
  ELSE FoldLeft(LAMBDA object, member :
                  LET old == get_object_item(object, member.string, case_sensitive)
                      without == IF old = 0 THEN object ELSE DetachAt(object, old)
                  IN  IF member.type = "NULL" THEN without
                      ELSE cJSON_AddItemToObject(without, member.string, Copied(member)),
                target, patch.kids)

\* merge_patch(): the target is used up, the result takes its place.  A member
\* that is patched goes to the end.  A patch of None gives None.
RECURSIVE merge_patch(_, _, _), MergeFrom(_, _, _, _)
merge_patch(target, patch, case_sensitive) ==
  IF patch = None THEN None
  ELSE IF ~IsObject(patch) THEN cJSON_Duplicate(patch)
  ELSE MergeFrom(IF IsObject(target) THEN target ELSE CreateObject, patch, 1, case_sensitive)

\* The members of the patch from position n on.
MergeFrom(target, patch, n, case_sensitive) ==
  LET member == patch.kids[n]
      old == get_object_item(target, member.string, case_sensitive)
      without == IF old = 0 THEN target ELSE DetachAt(target, old)
      new == merge_patch(IF old = 0 THEN None ELSE target.kids[old], member, case_sensitive)
  IN  IF n > Len(patch.kids) THEN target
      ELSE IF member.type = "NULL" THEN MergeFrom(without, patch, n + 1, case_sensitive)
      ELSE IF new = None THEN None
      ELSE MergeFrom(cJSON_AddItemToObject(without, member.string, new), patch, n + 1,
                     case_sensitive)

\* Mutant: the members that only the first document has are forgotten.
MergePatchOfTarget(from, to, case_sensitive) ==
  [patch |-> cJSON_Duplicate(to), from |-> from, to |-> to]

\* generate_merge_patch(): the names are compared with strcmp() in both modes,
\* and what is below a member always in the mode that ignores case.  No
\* difference gives None.
RECURSIVE generate_merge_patch(_, _, _), MergePatchFrom(_, _, _, _, _, _)
generate_merge_patch(from, to, case_sensitive) ==
  IF ~IsObject(from) \/ ~IsObject(to)
  THEN [patch |-> cJSON_Duplicate(to), from |-> from, to |-> to]
  ELSE MergePatchFrom(CreateObject, sort_object(from, case_sensitive),
                      sort_object(to, case_sensitive), 1, 1, case_sensitive)

\* The members of two sorted objects from positions m and n on.
MergePatchFrom(patch, from, to, m, n, case_sensitive) ==
  LET order == IF m > Len(from.kids) THEN 1
               ELSE IF n > Len(to.kids) THEN -1
               ELSE compare_strings(from.kids[m].string, to.kids[n].string, TRUE)
      compared == compare_json(from.kids[m], to.kids[n], case_sensitive)
      child == generate_merge_patch(compared.a, compared.b, FALSE)
      difference == IF compared.same THEN [patch |-> None, from |-> compared.a, to |-> compared.b]
                    ELSE child
      \* cJSON_AddItemToObject() refuses a NULL item.
      WithMember(name, item) == IF item = None THEN patch
                                ELSE cJSON_AddItemToObject(patch, name, item)
  IN  IF m > Len(from.kids) /\ n > Len(to.kids)
      THEN [patch |-> IF patch.kids = << >> THEN None ELSE patch, from |-> from, to |-> to]
      ELSE IF order < 0
      THEN MergePatchFrom(WithMember(from.kids[m].string, CreateNull), from, to, m + 1, n,
                          case_sensitive)
      ELSE IF order > 0
      THEN MergePatchFrom(WithMember(to.kids[n].string, cJSON_Duplicate(to.kids[n])), from, to,
                          m, n + 1, case_sensitive)
      ELSE MergePatchFrom(WithMember(to.kids[n].string, difference.patch),
                          [from EXCEPT !.kids[m] = difference.from],
                          [to EXCEPT !.kids[n] = difference.to], m + 1, n + 1, case_sensitive)
=============================================================================
