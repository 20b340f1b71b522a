----------------------------- MODULE ItemForest -----------------------------
(***************************************************************************)
(* ItemTree as an implementation of JsonForest: what the pointers of a     *)
(* heap stand for.                                                         *)
(***************************************************************************)
EXTENDS ItemTree

\* The lists of a heap.
Kids(h) == [c \in Item |-> Children(h, c)]

Forest == INSTANCE JsonForest WITH
            items <- heap.live,
            roots <- held,
            kids  <- Kids(heap)

\* Every call does to the trees what JsonForest says, or nothing.
ForestSpec == Forest!Spec

\* An index means a place in the sequence of children, for every list, root and
\* index there is: inserting puts the item there, or at the end if the list is
\* shorter; replacing and detaching change that place and no other, and nothing
\* if the list is shorter (cJSON_InsertItemInArray, cJSON_ReplaceItemInArray and
\* cJSON_DetachItemFromArray).
IndexIsPlace ==
  \A c \in Item, which \in 0 .. Cardinality(Item) :
    LET list == Children(heap, c)
        place == which + 1
        there == place \in DOMAIN list
        item == get_array_item(heap, c, which)
        detached == cJSON_DetachItemViaPointer(heap, c, item)
    IN  Container(c) =>
          /\ IF there
             THEN /\ detached.ret = list[place]
                  /\ Children(detached.heap, c) = Forest!RemoveAt(list, place)
             ELSE detached = Returns(NULL, heap)
          /\ \A i \in held :
               LET inserted == cJSON_InsertItemInArray(heap, c, which, i)
                   replaced == cJSON_ReplaceItemViaPointer(heap, c, item, i)
               IN  CanAdopt(c, i) =>
                     /\ inserted.ret
                     /\ Children(inserted.heap, c) = IF there THEN Forest!InsertAt(list, place, i)
                                                     ELSE Append(list, i)
                     /\ IF there
                        THEN /\ replaced.ret
                             /\ Children(replaced.heap, c) = [list EXCEPT ![place] = i]
                        ELSE replaced = Returns(FALSE, heap)
=============================================================================
