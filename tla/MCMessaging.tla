------------------------------ MODULE MCMessaging ------------------------------
(* Model checking Messaging: two tenants that may share a phone number.      *)
EXTENDS Messaging, TLC

TenantSymmetry == Permutations(Tenants)
=============================================================================
