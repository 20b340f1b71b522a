----------------------------- MODULE JsonForest -----------------------------
(***************************************************************************)
(* What the item functions of cJSON promise, without pointers: the client  *)
(* owns a set of roots; every container has a sequence of children; an     *)
(* item is a root or the child of one container, never both.               *)
(***************************************************************************)
EXTENDS SequencesExt

CONSTANT Item

VARIABLES
  items,        \* the items that exist
  roots,        \* the ones the client owns, and has to delete
  kids          \* kids[c] is the list of c, empty for what has none

vars == <<items, roots, kids>>

\* Everything below and including x: the least set closed under kids.
Family(x) ==
  {i \in Item :
     \A S \in SUBSET Item :
       (x \in S /\ \A c \in S : ToSet(kids[c]) \subseteq S) => i \in S}

Init == items = {} /\ roots = {} /\ kids = [i \in Item |-> << >>]

\* A call gives the client a new tree with the root r: every other item of it
\* is at one place in one list.
Create(r) ==
  LET new == items' \ items
  IN  /\ r \in new /\ roots' = roots \cup {r} /\ items \subseteq items'
      /\ \A c \in Item \ new : kids'[c] = kids[c]
      /\ Family(r)' = new
      /\ \A c \in new : r \notin ToSet(kids'[c])
      /\ \A c, d \in new : \A m \in DOMAIN kids'[c], n \in DOMAIN kids'[d] :
           kids'[c][m] = kids'[d][n] => c = d /\ m = n

\* A root becomes the child at position n.
Insert(c, n, i) ==
  /\ i \in roots /\ roots' = roots \ {i} /\ UNCHANGED items
  /\ n \in 1 .. Len(kids[c]) + 1
  /\ kids' = [kids EXCEPT ![c] = InsertAt(@, n, i)]
  /\ c \in items \ Family(i)

\* A new item is created as the last child.
AppendNew(c, i) ==
  /\ i \notin items /\ items' = items \cup {i} /\ UNCHANGED roots
  /\ c \in items /\ kids' = [kids EXCEPT ![c] = Append(@, i)]

\* The child at position n becomes a root.
Detach(c, n) ==
  /\ roots \subseteq roots' /\ roots # roots' /\ UNCHANGED items
  /\ n \in DOMAIN kids[c] /\ roots' = roots \cup {kids[c][n]}
  /\ kids' = [kids EXCEPT ![c] = RemoveAt(@, n)]

Forget(gone, k) ==
  /\ items' = items \ gone
  /\ kids' = [i \in Item |-> IF i \in gone THEN << >> ELSE k[i]]

\* The child at position n is deleted with all that is below it.
DeleteChild(c, n) ==
  /\ UNCHANGED roots /\ items # items'
  /\ n \in DOMAIN kids[c]
  /\ Forget(Family(kids[c][n]), [kids EXCEPT ![c] = RemoveAt(@, n)])

\* A root takes the place of the child at position n, which is deleted.
Replace(c, n, i) ==
  /\ i \in roots /\ roots' = roots \ {i} /\ items # items'
  /\ n \in DOMAIN kids[c]
  /\ Forget(Family(kids[c][n]), [kids EXCEPT ![c][n] = i])
  /\ c \in items \ Family(i)

DeleteRoot(i) ==
  /\ i \in roots /\ roots' = roots \ {i} /\ items # items'
  /\ Forget(Family(i), kids)

Next ==
  \/ \E r \in Item : DeleteRoot(r) \/ Create(r)
  \/ \E c, i \in Item : AppendNew(c, i)
  \/ \E c, i \in Item, n \in 1 .. Cardinality(Item) :
       Insert(c, n, i) \/ Replace(c, n, i)
  \/ \E c \in Item, n \in 1 .. Cardinality(Item) : Detach(c, n) \/ DeleteChild(c, n)

Spec == Init /\ [][Next]_vars
=============================================================================
