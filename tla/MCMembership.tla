----------------------------- MODULE MCMembership -----------------------------
(* Model checking Membership: people with two addresses and two identities.  *)
EXTENDS Membership, TLC

LoginSymmetry == Permutations(Identities) \cup Permutations(Emails)
=============================================================================
