---------------------------- MODULE MCBatchJobs ----------------------------
(* BatchJobs for TLC: two jobs, two replicas.  Job numbers are compared    *)
(* (created_at), so jobs are not interchangeable, and a temporal property  *)
(* is checked, so neither are workers.                                     *)
EXTENDS BatchJobs
=============================================================================
