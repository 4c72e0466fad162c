-------------------------- MODULE MCRegistration --------------------------
(* Registration on small instances: one or two objects, three or four      *)
(* threads; application threads are alike.                                 *)
EXTENDS RegistrationClient, TLC

Symmetry == Permutations(Apps)
=============================================================================
