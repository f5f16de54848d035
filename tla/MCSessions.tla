------------------------------ MODULE MCSessions ------------------------------
(* Model checking Sessions: two users, three token pairs, a few seconds.     *)
EXTENDS Sessions, TLC

UserSymmetry == Permutations(Users)
=============================================================================
