------------------------------ MODULE MCBootAb ------------------------------
(* The A/B boot table for TLC; the mutants are bugs its code could have.   *)
EXTENDS BootAbProperties
=============================================================================
