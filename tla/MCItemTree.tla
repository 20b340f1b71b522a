----------------------------- MODULE MCItemTree -----------------------------
(***************************************************************************)
(* The instances of ItemTree, ItemForest and Copying that TLC checks.      *)
(***************************************************************************)
EXTENDS Copying, ItemForest, TLC

CONSTANTS k1, k2

\* k2 is k1 in other letters, as "key" and "KEY".
MCLower == [k \in Key |-> k1]

MCSymmetry == Permutations(Item)
=============================================================================
