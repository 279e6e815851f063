----------------------------- MODULE MCKeyCache -----------------------------
(* KeyCache for TLC.  Administrators are interchangeable, and so are the  *)
(* policies.                                                             *)
EXTENDS KeyCache, TLC

Symmetry == Permutations(Admins) \cup Permutations(Policies)
=============================================================================
