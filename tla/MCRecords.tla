------------------------------- MODULE MCRecords ------------------------------
(* Model checking Records: two slugs, and few ids of any kind.               *)
EXTENDS Records, TLC
===============================================================================
