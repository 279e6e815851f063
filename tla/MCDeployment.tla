---------------------------- MODULE MCDeployment ----------------------------
(* Deployment for TLC.  Versions are interchangeable, so are replica       *)
(* counts: one of each stands for the first row.                           *)
EXTENDS Deployment

CONSTANTS FirstVersion, FirstCount

MCInit ==
    /\ Init
    /\ row.version = FirstVersion /\ row.replicas = FirstCount /\ row.autoscaled

MCSpec == MCInit /\ [][Next]_vars /\ Fairness

\* A service that runs already.
EstablishedSpec == MCInit /\ Established /\ [][Next]_vars /\ Fairness
=============================================================================
