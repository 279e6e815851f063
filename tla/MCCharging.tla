----------------------------- MODULE MCCharging -----------------------------
(* Charging for TLC: three requests in two groups of two consecutive hours,*)
(* the second hour opening a new month, at prices below and above a cent.  *)
EXTENDS Charging, TLC

CONSTANTS r1, r2, r3, g1, g2, b1, b2

MCGroupOf  == [r \in Requests |-> IF r = r3 THEN g2 ELSE g1]
MCBucketOf == [g \in Groups |-> IF g = g2 THEN b2 ELSE b1]
MCStartOf  == [b \in Buckets |-> IF b = b2 THEN 2 ELSE 1]
MCAt       == [r \in Requests |-> IF r = r3 THEN 2 ELSE 1]
MCCost     == [r \in Requests |-> IF r = r1 THEN 2 ELSE 3]
=============================================================================
