----------------------------- MODULE MCAccounts -----------------------------
(* Accounts for TLC.  Request goroutines, like replicas, are alike.        *)
EXTENDS Accounts, TLC

ClientSymmetry == Permutations(Clients)
=============================================================================
