----------------------------- MODULE Documents ------------------------------
(***************************************************************************)
(* A client that holds up to two documents and an array of patches and     *)
(* calls the functions of cJSON_Utils.h, cJSON_Duplicate and cJSON_Compare *)
(* on them in any order.  A call is one step.                              *)
(***************************************************************************)
EXTENDS Patches

CONSTANTS
  Documents,    \* what the client parses
  Requests,     \* the patches it may apply one at a time
  Queries,      \* the pointers it looks up
  MaxCalls      \* bound: how many calls it makes

ASSUME ClientAssumption == MaxCalls \in Nat

VARIABLES
  doc,          \* its document
  other,        \* another one, or None
  patches,      \* its array of patches
  call,         \* the last call: arguments before it, and the result
  calls         \* how many calls there have been

vars == <<doc, other, patches, call, calls>>

\* The allocation that is refused in a call: the copy of the path that is
\* detached, of the value, of the path that is split, of the name of a member.
Refusals == {"none", "detach", "value", "split", "name"}

\* Those an operation of a patch may meet.
Allocations(op) ==
  CASE op = "remove" -> {"detach"}
    [] op = "replace" -> {"detach", "value", "split", "name"}
    [] op = "move" -> {"detach", "split", "name"}
    [] op \in {"add", "copy"} -> {"value", "split", "name"}
    [] OTHER -> {}

\* A call with what it was given and what it returned.
Call(name, case_sensitive, refused, text, status, path, value) ==
  [name |-> name, case_sensitive |-> case_sensitive, refused |-> refused,
   doc |-> doc, other |-> other, patches |-> patches,
   text |-> text, status |-> status, path |-> path, value |-> value]

NoCall == [name |-> "none", case_sensitive |-> TRUE, refused |-> "none",
           doc |-> None, other |-> None, patches |-> << >>,
           text |-> << >>, status |-> 0, path |-> NoPath, value |-> None]

\* Bound: MaxCalls.  With its document gone the client stops.
Count == calls < MaxCalls /\ doc # None /\ calls' = calls + 1

Init ==
  /\ doc \in Documents
  /\ other = None
  /\ patches = << >>
  /\ call = NoCall
  /\ calls = 0

\* Bound: what is parsed is used afterwards, and the client does not hold both
\* a second document and patches that it has parsed.
ToBeUsed == calls + 1 < MaxCalls /\ other = None /\ patches = << >>

\* cJSON_Parse() of another text.
Parse(value) ==
  /\ Count /\ ToBeUsed
  /\ other' = value
  /\ call' = Call("parse", TRUE, "none", << >>, 0, NoPath, None)
  /\ UNCHANGED <<doc, patches>>

\* cJSON_Parse() of an array of one patch.
ParsePatch(patch) ==
  /\ Count /\ ToBeUsed
  /\ patches' = <<patch>>
  /\ call' = Call("parse_patch", TRUE, "none", << >>, 0, NoPath, None)
  /\ UNCHANGED <<doc, other>>

ApplyPatches(case_sensitive, refused) ==
  /\ Count /\ patches # << >>
  /\ refused # "none" => \E n \in DOMAIN patches : refused \in Allocations(patches[n].op)
  /\ LET applied == cJSONUtils_ApplyPatches(doc, patches, case_sensitive, refused)
     IN  /\ doc' = applied.object
         /\ patches' = applied.patches
         /\ call' = Call("apply", case_sensitive, refused, << >>, applied.status, NoPath, None)
  /\ UNCHANGED other

GeneratePatches(case_sensitive) ==
  /\ Count /\ other # None /\ patches = << >>
  /\ LET made == cJSONUtils_GeneratePatches(doc, other, case_sensitive)
     IN  /\ doc' = made.from
         /\ other' = made.to
         /\ patches' = made.patches
  /\ call' = Call("generate", case_sensitive, "none", << >>, 0, NoPath, None)

\* The document is replaced by what cJSONUtils_MergePatch returns.
MergePatch(case_sensitive) ==
  /\ Count /\ other # None
  /\ doc' = merge_patch(doc, other, case_sensitive)
  /\ call' = Call("merge", case_sensitive, "none", << >>, 0, NoPath, None)
  /\ UNCHANGED <<other, patches>>

GenerateMergePatch(case_sensitive) ==
  /\ Count /\ other # None
  /\ LET made == generate_merge_patch(doc, other, case_sensitive)
     IN  /\ doc' = made.from
         /\ other' = made.to
         /\ call' = Call("generate_merge", case_sensitive, "none", << >>, 0, NoPath, made.patch)
  /\ UNCHANGED patches

SortObject(case_sensitive) ==
  /\ Count
  /\ doc' = sort_object(doc, case_sensitive)
  /\ call' = Call("sort", case_sensitive, "none", << >>, 0, NoPath, None)
  /\ UNCHANGED <<other, patches>>

\* cJSON_Duplicate with recurse.
Duplicate ==
  /\ Count /\ other = None
  /\ other' = cJSON_Duplicate(doc)
  /\ call' = Call("duplicate", TRUE, "none", << >>, 0, NoPath, None)
  /\ UNCHANGED <<doc, patches>>

Compare(case_sensitive) ==
  /\ Count /\ other # None
  /\ LET same == cJSON_Compare(doc, other, case_sensitive)
     IN  call' = Call("compare", case_sensitive, "none", << >>, IF same THEN 1 ELSE 0,
                      NoPath, None)
  /\ UNCHANGED <<doc, other, patches>>

\* cJSONUtils_GetPointer and cJSONUtils_GetPointerCaseSensitive.  Bound: it
\* asks while it holds nothing but the document, for no answer depends on more.
GetPointer(text, case_sensitive) ==
  /\ Count /\ other = None /\ patches = << >>
  /\ call' = Call("get", case_sensitive, "none", text, 0,
                  get_item_from_pointer(doc, text, case_sensitive), None)
  /\ UNCHANGED <<doc, other, patches>>

\* cJSONUtils_FindPointerFromObjectTo an item of the document, with the same
\* bound.
FindPointer(path) ==
  /\ Count /\ other = None /\ patches = << >>
  /\ call' = Call("find", TRUE, "none", cJSONUtils_FindPointerFromObjectTo(doc, path), 0,
                  path, None)
  /\ UNCHANGED <<doc, other, patches>>

Next ==
  \/ \E value \in Documents : Parse(value)
  \/ \E patch \in Requests : ParsePatch(patch)
  \/ \E case_sensitive \in BOOLEAN :
       \/ \E refused \in Refusals : ApplyPatches(case_sensitive, refused)
       \/ GeneratePatches(case_sensitive)
       \/ MergePatch(case_sensitive)
       \/ GenerateMergePatch(case_sensitive)
       \/ SortObject(case_sensitive)
       \/ Compare(case_sensitive)
       \/ \E text \in Queries : GetPointer(text, case_sensitive)
  \/ Duplicate
  \/ doc # None /\ \E path \in Paths(doc) : FindPointer(path)

Spec == Init /\ [][Next]_vars
=============================================================================
