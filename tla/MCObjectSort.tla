---------------------------- MODULE MCObjectSort ----------------------------
(* Objects of up to four members named a, A, b or C, the order of strcmp()  *)
(* being A, C, a, b, c.                                                     *)
EXTENDS ObjectSort, TLC

CONSTANTS o, m1, m2, m3, m4, low_a, high_a, low_b, high_c, low_c

MCMembers == <<m1, m2, m3, m4>>
MCRank == high_a :> 1 @@ high_c :> 2 @@ low_a :> 3 @@ low_b :> 4 @@ low_c :> 5
MCLower == [k \in Key |-> IF k = high_a THEN low_a ELSE IF k = high_c THEN low_c ELSE k]
=============================================================================
