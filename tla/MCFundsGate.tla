---------------------------- MODULE MCFundsGate ----------------------------
(* FundsGate for TLC: two requests of one project and one of none, so the  *)
(* account and the project cap can be the tighter ceiling.                 *)
EXTENDS FundsGate, TLC

CONSTANTS r1, r2, r3, account, project

MCTiers == [r \in Requests |-> IF r = r3 THEN {account} ELSE {account, project}]
MCNeed == [r \in Requests |-> IF r = r3 THEN 2 ELSE 1]
MCCeiling == [s \in Scopes |-> IF s = account THEN 2 ELSE 1]

Symmetric == Permutations({r1, r2})
=============================================================================
