----------------------------- MODULE MCEstimates -----------------------------
(***************************************************************************)
(* Instances of Estimates for TLC.  The contents of estimates are          *)
(* interchangeable: nothing in the code compares one with another.         *)
(***************************************************************************)
EXTENDS Estimates, TLC

ContentSymmetry == Permutations(Contents)

\* A bound: one estimate at a time has a validity period that no date has.
OneIsDateless ==
    \A e, f \in DOMAIN estimates :
       {estimates[e].validDays, estimates[f].validDays} \subseteq DatelessDays
          => e = f
=============================================================================
