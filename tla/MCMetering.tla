----------------------------- MODULE MCMetering -----------------------------
(* A small instance of Metering for TLC: the requests are split over the   *)
(* keys by MCKeyOf, and the clock covers two hours plus the grace period.  *)
EXTENDS Metering, TLC

CONSTANTS r1, r2, r3, k1, k2, p1, p2

MCKeyOf == [r \in Requests |-> IF r = r3 /\ k2 \in Keys THEN k2 ELSE k1]

Symmetric == Permutations({r1, r2}) \cup Permutations({p1, p2})
=============================================================================
