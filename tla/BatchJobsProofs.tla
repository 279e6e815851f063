-------------------------- MODULE BatchJobsProofs --------------------------
(* Proofs about BatchJobs, for any number of jobs, workers, cancellations *)
(* and faults.                                                            *)
EXTENDS BatchJobs, TLAPS

\* Who knows the input file's key has read the row after UpdateBatchJob.
WorkerKeyOK(w) ==
    /\ worker[w].job # NoJob /\ worker[w].key => row[worker[w].job].key
    /\ worker[w].pc \in {"count", "finalize", "store", "keys", "complete"}
        => worker[w].key

RowKeyOK(j) ==
    /\ row[j].counted > 0 => row[j].key
    /\ creator[j] # "done" => ~row[j].key
    /\ creator[j] = "idle" <=> row[j].status = "none"
    /\ j \in cancelling => creator[j] # "idle"

KeyInv ==
    (\A w \in Workers : WorkerKeyOK(w)) /\ (\A j \in Jobs : RowKeyOK(j))

\* A job at work has been claimed, and rewritten since only if the worker
\* that has it cannot read its input.
HeldOK(w, j) ==
    Holds(w, j) =>
        /\ row[j].status # "none"
        /\ worker[w].key => row[j].status # "validating"

HeldInv == \A w \in Workers, j \in Jobs : HeldOK(w, j)

\* An undisturbed job has one worker at a time, and its row is as far as that
\* worker is.
SoleWorker(j) == \A v, w \in Workers : Holds(v, j) /\ Holds(w, j) => v = w

StatusOK(j) ==
    /\ row[j].status = "in_progress" => \E w \in Workers : Holds(w, j)
    /\ row[j].status \in {"none", "validating"} => row[j].counted = 0
    /\ row[j].status = "completed" => \A w \in Workers : ~Holds(w, j)

ProgressOK(w, j) ==
    Holds(w, j) =>
        /\ worker[w].pc \in {"fetch", "count", "fail"} => row[j].counted = 0
        /\ worker[w].pc \in {"finalize", "store", "keys", "complete"}
            => row[j].counted = 1
        /\ worker[w].pc \in {"keys", "complete"} => j \in results
        /\ worker[w].pc = "complete" => row[j].result

OutcomeOK(j) ==
    /\ row[j].counted <= 1
    /\ row[j].status = "completed" =>
        /\ row[j].counted = 1 /\ row[j].result
        /\ j \in results \/ row[j].expired \/ sweep = j

JobOK(j) ==
    /\ SoleWorker(j) /\ StatusOK(j) /\ OutcomeOK(j)
    /\ \A w \in Workers : ProgressOK(w, j)

PassInv == \A j \in Jobs \ disturbed : JobOK(j)

IInv == TypeOK /\ KeyInv /\ HeldInv /\ PassInv

-----------------------------------------------------------------------------
LEMMA RowsTyped == NoRow \in BatchJob /\ NewRow \in BatchJob
  BY DEF NoRow, NewRow, BatchJob, Statuses, Settled

LEMMA PassesTyped ==
    /\ Idle \in Passes /\ [Idle EXCEPT !.pc = "next"] \in Passes
    /\ Idle.pc = "idle" /\ Idle.job = NoJob /\ ~Idle.key
  BY DEF Idle, Passes, Seeking

\* What a write of j's row that may be lost does: the row's status, key,
\* counter, result, expiry and expired mark, if it is not.
Saved(j, s, k, c, r, e, x) ==
    /\ row' \in [Jobs -> BatchJob]
    /\ faults' \in 0 .. MaxFaults
    /\ disturbed \subseteq disturbed' /\ disturbed' \subseteq Jobs
    /\ \A i \in Jobs : i # j => row'[i] = row[i]
    /\ \/ /\ row'[j].status = s /\ (row'[j].key <=> k) /\ row'[j].counted = c
          /\ (row'[j].result <=> r) /\ row'[j].expiry = e
          /\ (row'[j].expired <=> x)
       \/ row'[j] = row[j] /\ j \in disturbed'

LEMMA SaveEffect ==
    ASSUME TypeOK, NEW j \in Jobs, NEW new \in BatchJob, Save(j, new)
    PROVE  Saved(j, new.status, new.key, new.counted, new.result, new.expiry,
                 new.expired)
  <1>1. CASE row' = [row EXCEPT ![j] = new] /\ UNCHANGED <<faults, disturbed>>
    <2>1. row' \in [Jobs -> BatchJob] /\ row'[j] = new
              /\ \A i \in Jobs : i # j => row'[i] = row[i]
      BY <1>1 DEF TypeOK
    <2> QED
      BY <1>1, <2>1 DEF TypeOK, Saved
  <1>2. CASE Fault /\ disturbed' = disturbed \cup {j} /\ UNCHANGED row
    <2>1. faults' \in 0 .. MaxFaults
      BY <1>2, ConstantsAssumption DEF TypeOK, Fault
    <2> QED
      BY <1>2, <2>1 DEF TypeOK, Saved
  <1> QED
    BY <1>1, <1>2 DEF Save

\* What a step of one worker does.
Moved(w, pc, job, key) ==
    /\ worker' \in [Workers -> Passes]
    /\ \A v \in Workers :
        worker'[v].job = NoJob <=> worker'[v].pc \in {"idle", "next"}
    /\ worker'[w].pc = pc /\ worker'[w].job = job /\ (worker'[w].key <=> key)
    /\ \A v \in Workers : v # w => worker'[v] = worker[v]

LEMMA StepEffect ==
    ASSUME TypeOK, NEW w \in Workers, NEW p \in Passes,
           p.job = NoJob <=> p.pc \in {"idle", "next"},
           worker' = [worker EXCEPT ![w] = p]
    PROVE  Moved(w, p.pc, p.job, p.key)
  BY DEF TypeOK, Moved

LEMMA MovesEffect ==
    ASSUME TypeOK, NEW w \in Workers, worker[w].pc \in Holding,
           NEW pc \in Holding, Moves(w, pc)
    PROVE  Moved(w, pc, worker[w].job, worker[w].key)
  <1>1. worker[w] \in Passes /\ worker[w].job # NoJob
    BY DEF TypeOK, Holding, Seeking
  <1>2. [worker[w] EXCEPT !.pc = pc] \in Passes
    BY <1>1 DEF Passes
  <1>3. worker' = [worker EXCEPT ![w] = [worker[w] EXCEPT !.pc = pc]]
    BY DEF Moves, TypeOK
  <1>4. [worker[w] EXCEPT !.pc = pc].job = worker[w].job
            /\ ([worker[w] EXCEPT !.pc = pc].key <=> worker[w].key)
            /\ [worker[w] EXCEPT !.pc = pc].pc = pc
    BY <1>1 DEF Passes
  <1>5. [worker[w] EXCEPT !.pc = pc].job = NoJob
            <=> [worker[w] EXCEPT !.pc = pc].pc \in {"idle", "next"}
    BY <1>1, <1>4 DEF Holding
  <1>6. Moved(w, [worker[w] EXCEPT !.pc = pc].pc,
              [worker[w] EXCEPT !.pc = pc].job, [worker[w] EXCEPT !.pc = pc].key)
    BY <1>2, <1>3, <1>5, StepEffect
  <1> QED
    BY <1>4, <1>6 DEF Moved

LEMMA RestsEffect ==
    ASSUME TypeOK, NEW w \in Workers, Rests(w)
    PROVE  Moved(w, "idle", NoJob, FALSE)
  <1>1. Moved(w, Idle.pc, Idle.job, Idle.key)
    BY PassesTyped, StepEffect DEF Rests
  <1> QED
    BY <1>1, PassesTyped DEF Moved

LEMMA NextEffect ==
    ASSUME TypeOK, NEW w \in Workers,
           worker' = [worker EXCEPT ![w] = [Idle EXCEPT !.pc = "next"]]
    PROVE  Moved(w, "next", NoJob, FALSE)
  <1> DEFINE p == [Idle EXCEPT !.pc = "next"]
  <1>1. p.job = NoJob /\ p.pc = "next" /\ ~p.key
    BY DEF Idle
  <1>2. Moved(w, p.pc, p.job, p.key)
    BY <1>1, PassesTyped, StepEffect
  <1> QED
    BY <1>1, <1>2 DEF Moved

LEMMA HolderTyped ==
    ASSUME TypeOK, NEW w \in Workers, worker[w].pc \in Holding \cup {"claim"}
    PROVE  worker[w].job \in Jobs /\ row[worker[w].job] \in BatchJob
               /\ worker[w] \in Passes
  BY DEF TypeOK, Passes, Holding, Seeking

LEMMA CountEffect ==
    ASSUME TypeOK, NEW w \in Workers, Count(w)
    PROVE  /\ worker[w].job \in Jobs /\ worker[w].pc = "count"
           /\ LET j == worker[w].job
              IN  Saved(j, row[j].status, row[j].key,
                         row[j].counted + 1, row[j].result,
                         row[j].expiry, row[j].expired)
           /\ Moved(w, "finalize", worker[w].job, worker[w].key)
           /\ UNCHANGED <<input, results, creator, cancelling, cancels, sweep>>
  <1> DEFINE j == worker[w].job
             new == [row[j] EXCEPT !.counted = @ + 1]
  <1>1. worker[w].pc \in Holding
    BY DEF Count, Holding
  <1>2. j \in Jobs /\ row[j] \in BatchJob
    BY <1>1, HolderTyped
  <1>3. new \in BatchJob
    BY <1>2 DEF BatchJob, Statuses, Settled
  <1>4. new.status = row[j].status /\ (new.key <=> row[j].key)
            /\ new.counted = row[j].counted + 1 /\ (new.result <=> row[j].result)
            /\ new.expiry = row[j].expiry /\ (new.expired <=> row[j].expired)
    BY <1>2 DEF BatchJob
  <1>5. Saved(j, new.status, new.key, new.counted, new.result, new.expiry,
              new.expired)
    BY <1>2, <1>3, SaveEffect DEF Count
  <1>6. Moved(w, "finalize", worker[w].job, worker[w].key)
    BY <1>1, MovesEffect DEF Count, Holding
  <1> QED
    BY <1>1, <1>2, <1>4, <1>5, <1>6 DEF Count, Saved

LEMMA FinalizeEffect ==
    ASSUME TypeOK, NEW w \in Workers, Finalize(w)
    PROVE  /\ worker[w].job \in Jobs /\ worker[w].pc = "finalize"
           /\ LET j == worker[w].job
              IN  Saved(j, "finalizing", row[j].key,
                         row[j].counted, row[j].result,
                         row[j].expiry, row[j].expired)
           /\ Moved(w, "store", worker[w].job, worker[w].key)
           /\ UNCHANGED <<input, results, creator, cancelling, cancels, sweep>>
  <1> DEFINE j == worker[w].job
             new == [row[j] EXCEPT !.status = "finalizing"]
  <1>1. worker[w].pc \in Holding
    BY DEF Finalize, Holding
  <1>2. j \in Jobs /\ row[j] \in BatchJob
    BY <1>1, HolderTyped
  <1>3. new \in BatchJob
    BY <1>2 DEF BatchJob, Statuses, Settled
  <1>4. new.status = "finalizing" /\ (new.key <=> row[j].key)
            /\ new.counted = row[j].counted /\ (new.result <=> row[j].result)
            /\ new.expiry = row[j].expiry /\ (new.expired <=> row[j].expired)
    BY <1>2 DEF BatchJob
  <1>5. Saved(j, new.status, new.key, new.counted, new.result, new.expiry,
              new.expired)
    BY <1>2, <1>3, SaveEffect DEF Finalize
  <1>6. Moved(w, "store", worker[w].job, worker[w].key)
    BY <1>1, MovesEffect DEF Finalize, Holding
  <1> QED
    BY <1>1, <1>2, <1>4, <1>5, <1>6 DEF Finalize, Saved

LEMMA SetFileKeysEffect ==
    ASSUME TypeOK, NEW w \in Workers, SetFileKeys(w)
    PROVE  /\ worker[w].job \in Jobs /\ worker[w].pc = "keys"
           /\ LET j == worker[w].job
              IN  Saved(j, row[j].status, row[j].key,
                         row[j].counted, TRUE,
                         row[j].expiry, row[j].expired)
           /\ Moved(w, "complete", worker[w].job, worker[w].key)
           /\ UNCHANGED <<input, results, creator, cancelling, cancels, sweep>>
  <1> DEFINE j == worker[w].job
             new == [row[j] EXCEPT !.result = TRUE]
  <1>1. worker[w].pc \in Holding
    BY DEF SetFileKeys, Holding
  <1>2. j \in Jobs /\ row[j] \in BatchJob
    BY <1>1, HolderTyped
  <1>3. new \in BatchJob
    BY <1>2 DEF BatchJob, Statuses, Settled
  <1>4. new.status = row[j].status /\ (new.key <=> row[j].key)
            /\ new.counted = row[j].counted /\ (new.result <=> TRUE)
            /\ new.expiry = row[j].expiry /\ (new.expired <=> row[j].expired)
    BY <1>2 DEF BatchJob
  <1>5. Saved(j, new.status, new.key, new.counted, new.result, new.expiry,
              new.expired)
    BY <1>2, <1>3, SaveEffect DEF SetFileKeys
  <1>6. Moved(w, "complete", worker[w].job, worker[w].key)
    BY <1>1, MovesEffect DEF SetFileKeys, Holding
  <1> QED
    BY <1>1, <1>2, <1>4, <1>5, <1>6 DEF SetFileKeys, Saved

LEMMA CompleteEffect ==
    ASSUME TypeOK, NEW w \in Workers, Complete(w)
    PROVE  /\ worker[w].job \in Jobs /\ worker[w].pc = "complete"
           /\ LET j == worker[w].job
              IN  Saved(j, "completed", row[j].key,
                         row[j].counted, row[j].result,
                         "set", row[j].expired)
           /\ Moved(w, "idle", NoJob, FALSE)
           /\ UNCHANGED <<input, results, creator, cancelling, cancels, sweep>>
  <1> DEFINE j == worker[w].job
             new == [row[j] EXCEPT !.status = "completed", !.expiry = "set"]
  <1>1. worker[w].pc \in Holding
    BY DEF Complete, Holding
  <1>2. j \in Jobs /\ row[j] \in BatchJob
    BY <1>1, HolderTyped
  <1>3. new \in BatchJob
    BY <1>2 DEF BatchJob, Statuses, Settled
  <1>4. new.status = "completed" /\ (new.key <=> row[j].key)
            /\ new.counted = row[j].counted /\ (new.result <=> row[j].result)
            /\ new.expiry = "set" /\ (new.expired <=> row[j].expired)
    BY <1>2 DEF BatchJob
  <1>5. Saved(j, new.status, new.key, new.counted, new.result, new.expiry,
              new.expired)
    BY <1>2, <1>3, SaveEffect DEF Complete
  <1>6. Moved(w, "idle", NoJob, FALSE)
    BY <1>1, RestsEffect DEF Complete, Holding
  <1> QED
    BY <1>1, <1>2, <1>4, <1>5, <1>6 DEF Complete, Saved

LEMMA FailEffect ==
    ASSUME TypeOK, NEW w \in Workers, Fail(w)
    PROVE  /\ worker[w].job \in Jobs /\ worker[w].pc = "fail"
           /\ LET j == worker[w].job
              IN  Saved(j, "failed", row[j].key,
                         row[j].counted, row[j].result,
                         row[j].expiry, row[j].expired)
           /\ Moved(w, "idle", NoJob, FALSE)
           /\ UNCHANGED <<input, results, creator, cancelling, cancels, sweep>>
  <1> DEFINE j == worker[w].job
             new == [row[j] EXCEPT !.status = "failed"]
  <1>1. worker[w].pc \in Holding
    BY DEF Fail, Holding
  <1>2. j \in Jobs /\ row[j] \in BatchJob
    BY <1>1, HolderTyped
  <1>3. new \in BatchJob
    BY <1>2 DEF BatchJob, Statuses, Settled
  <1>4. new.status = "failed" /\ (new.key <=> row[j].key)
            /\ new.counted = row[j].counted /\ (new.result <=> row[j].result)
            /\ new.expiry = row[j].expiry /\ (new.expired <=> row[j].expired)
    BY <1>2 DEF BatchJob
  <1>5. Saved(j, new.status, new.key, new.counted, new.result, new.expiry,
              new.expired)
    BY <1>2, <1>3, SaveEffect DEF Fail
  <1>6. Moved(w, "idle", NoJob, FALSE)
    BY <1>1, RestsEffect DEF Fail, Holding
  <1> QED
    BY <1>1, <1>2, <1>4, <1>5, <1>6 DEF Fail, Saved

LEMMA UpdateBatchJobEffect ==
    ASSUME TypeOK, NEW j \in Jobs, UpdateBatchJob(j)
    PROVE  /\ row[j] \in BatchJob
           /\ Saved(j, "validating", TRUE, 0, FALSE, "none", FALSE)
           /\ creator[j] = "update" /\ creator' = [creator EXCEPT ![j] = "done"]
           /\ UNCHANGED <<input, results, worker, cancelling, cancels, sweep>>
  <1> DEFINE new == [NewRow EXCEPT !.key = TRUE]
  <1>1. row[j] \in BatchJob /\ new \in BatchJob
    BY RowsTyped DEF TypeOK, BatchJob, Statuses, Settled
  <1>2. new.status = "validating" /\ (new.key <=> TRUE)
            /\ new.counted = 0 /\ (new.result <=> FALSE)
            /\ new.expiry = "none" /\ (new.expired <=> FALSE)
    BY <1>1 DEF BatchJob, NewRow, NoRow
  <1>3. Saved(j, new.status, new.key, new.counted, new.result, new.expiry,
              new.expired)
    BY <1>1, SaveEffect DEF UpdateBatchJob
  <1> QED
    BY <1>1, <1>2, <1>3 DEF Saved, UpdateBatchJob

LEMMA SetCancelledEffect ==
    ASSUME TypeOK, NEW j \in Jobs, SetCancelled(j)
    PROVE  /\ row[j] \in BatchJob
           /\ Saved(j, "cancelled", row[j].key,
                      row[j].counted, row[j].result,
                      row[j].expiry, row[j].expired)
           /\ j \in cancelling /\ cancelling' = cancelling \ {j}
           /\ UNCHANGED <<input, results, creator, worker, cancels, sweep>>
  <1> DEFINE new == [row[j] EXCEPT !.status = "cancelled"]
  <1>1. row[j] \in BatchJob /\ new \in BatchJob
    BY RowsTyped DEF TypeOK, BatchJob, Statuses, Settled
  <1>2. new.status = "cancelled" /\ (new.key <=> row[j].key)
            /\ new.counted = row[j].counted /\ (new.result <=> row[j].result)
            /\ new.expiry = row[j].expiry /\ (new.expired <=> row[j].expired)
    BY <1>1 DEF BatchJob, NewRow, NoRow
  <1>3. Saved(j, new.status, new.key, new.counted, new.result, new.expiry,
              new.expired)
    BY <1>1, SaveEffect DEF SetCancelled
  <1> QED
    BY <1>1, <1>2, <1>3 DEF Saved, SetCancelled

LEMMA MarkFilesExpiredEffect ==
    ASSUME TypeOK, NEW j \in Jobs, MarkFilesExpired(j)
    PROVE  /\ row[j] \in BatchJob
           /\ Saved(j, row[j].status, row[j].key,
                      row[j].counted, row[j].result,
                      row[j].expiry, TRUE)
           /\ sweep = j /\ sweep' = NoJob
           /\ UNCHANGED <<input, results, creator, worker, cancelling, cancels>>
  <1> DEFINE new == [row[j] EXCEPT !.expired = TRUE]
  <1>1. row[j] \in BatchJob /\ new \in BatchJob
    BY RowsTyped DEF TypeOK, BatchJob, Statuses, Settled
  <1>2. new.status = row[j].status /\ (new.key <=> row[j].key)
            /\ new.counted = row[j].counted /\ (new.result <=> row[j].result)
            /\ new.expiry = row[j].expiry /\ (new.expired <=> TRUE)
    BY <1>1 DEF BatchJob, NewRow, NoRow
  <1>3. Saved(j, new.status, new.key, new.counted, new.result, new.expiry,
              new.expired)
    BY <1>1, SaveEffect DEF MarkFilesExpired
  <1> QED
    BY <1>1, <1>2, <1>3 DEF Saved, MarkFilesExpired

\* A worker takes a job.
Took(w, j, key) ==
    /\ Moved(w, "fetch", j, key)
    /\ disturbed \subseteq disturbed' /\ disturbed' \subseteq Jobs
    /\ (\E v \in Workers : Holds(v, j)) => j \in disturbed'

LEMMA TakesEffect ==
    ASSUME TypeOK, NEW w \in Workers, NEW j \in Jobs, NEW key \in BOOLEAN,
           Takes(w, j, key)
    PROVE  Took(w, j, key)
  <1> DEFINE p == [pc |-> "fetch", job |-> j, key |-> key]
  <1>1. p \in Passes /\ p.job # NoJob /\ p.pc = "fetch"
    BY ConstantsAssumption DEF Passes, Holding
  <1>2. Moved(w, p.pc, p.job, p.key)
    BY <1>1, StepEffect DEF Takes
  <1>3. disturbed \subseteq disturbed' /\ disturbed' \subseteq Jobs
            /\ ((\E v \in Workers : Holds(v, j)) => j \in disturbed')
    BY DEF Takes, TypeOK
  <1> QED
    BY <1>2, <1>3 DEF Took

LEMMA ReadValidatingEffect ==
    ASSUME TypeOK, NEW w \in Workers, ReadValidating(w)
    PROVE  \/ \E key \in BOOLEAN : Moved(w, "next", NoJob, key)
           \/ \E k \in Jobs : Moved(w, "claim", k, row[k].key)
  <1>1. CASE Moves(w, "next")
    <2> DEFINE p == [worker[w] EXCEPT !.pc = "next"]
    <2>1. worker' = [worker EXCEPT ![w] = p]
      BY <1>1 DEF Moves, TypeOK
    <2>2. p \in Passes /\ p.job = NoJob /\ p.pc = "next"
      BY DEF ReadValidating, TypeOK, Passes, Seeking
    <2>3. Moved(w, p.pc, p.job, p.key)
      BY <2>1, <2>2, StepEffect
    <2>4. p.key \in BOOLEAN
      BY <2>2 DEF Passes
    <2> QED
      BY <2>2, <2>3, <2>4
  <1>2. ASSUME NEW k \in Jobs,
               worker' = [worker EXCEPT ![w] =
                             [pc |-> "claim", job |-> k, key |-> row[k].key]]
        PROVE  Moved(w, "claim", k, row[k].key)
    <2> DEFINE p == [pc |-> "claim", job |-> k, key |-> row[k].key]
    <2>1. p \in Passes /\ p.job # NoJob /\ p.pc = "claim"
      BY ConstantsAssumption DEF TypeOK, BatchJob, Passes, Seeking
    <2>2. Moved(w, p.pc, p.job, p.key)
      BY <1>2, <2>1, StepEffect
    <2> QED
      BY <2>2
  <1> QED
    BY <1>1, <1>2 DEF ReadValidating, WithStatus, Oldest

LEMMA ClaimEffect ==
    ASSUME TypeOK, NEW w \in Workers, Claim(w)
    PROVE  /\ worker[w].job \in Jobs /\ worker[w].pc = "claim"
           /\ UNCHANGED <<input, results, creator, cancelling, cancels, sweep>>
           /\ \/ LET j == worker[w].job
                 IN  /\ row[j].status = "validating"
                     /\ row'[j].status = "in_progress"
                     /\ row'[j].key <=> row[j].key
                     /\ row'[j].counted = row[j].counted
                     /\ \A i \in Jobs : i # j => row'[i] = row[i]
                     /\ row' \in [Jobs -> BatchJob]
                     /\ Took(w, j, worker[w].key)
              \/ /\ UNCHANGED <<row, disturbed>>
                 /\ Moved(w, "next", NoJob, FALSE)
  <1> DEFINE j == worker[w].job
  <1>1. j \in Jobs /\ worker[w] \in Passes /\ row[j] \in BatchJob
    BY HolderTyped DEF Claim
  <1>2. CASE row[j].status = "validating"
    <2>1. Takes(w, j, worker[w].key)
      BY <1>2 DEF Claim
    <2>2. row' = [row EXCEPT ![j] = [row[j] EXCEPT !.status = "in_progress"]]
      BY <1>2 DEF Claim, TypeOK
    <2>3. [row[j] EXCEPT !.status = "in_progress"] \in BatchJob
      BY <1>1 DEF BatchJob, Statuses
    <2>4. worker[w].key \in BOOLEAN
      BY <1>1 DEF Passes
    <2>5. Took(w, j, worker[w].key)
      BY <1>1, <2>1, <2>4, TakesEffect
    <2>6. row' \in [Jobs -> BatchJob]
              /\ row'[j] = [row[j] EXCEPT !.status = "in_progress"]
              /\ \A i \in Jobs : i # j => row'[i] = row[i]
      BY <1>1, <2>2, <2>3 DEF TypeOK
    <2>7. row'[j].status = "in_progress" /\ (row'[j].key <=> row[j].key)
              /\ row'[j].counted = row[j].counted
      BY <1>1, <2>6 DEF BatchJob
    <2> QED
      BY <1>1, <1>2, <2>5, <2>6, <2>7 DEF Claim
  <1>3. CASE row[j].status # "validating"
    BY <1>1, <1>3, NextEffect DEF Claim, TypeOK
  <1> QED
    BY <1>2, <1>3

LEMMA NextInProgressJobEffect ==
    ASSUME TypeOK, NEW w \in Workers, NextInProgressJob(w)
    PROVE  \/ Moved(w, "idle", NoJob, FALSE) /\ UNCHANGED disturbed
           \/ \E k \in Jobs : /\ row[k].status = "in_progress"
                              /\ Took(w, k, row[k].key)
  <1>1. CASE Rests(w) /\ UNCHANGED disturbed
    BY <1>1, RestsEffect
  <1>2. ASSUME NEW k \in Jobs, Takes(w, k, row[k].key)
        PROVE  Took(w, k, row[k].key)
    <2>1. row[k].key \in BOOLEAN
      BY DEF TypeOK, BatchJob
    <2> QED
      BY <1>2, <2>1, TakesEffect
  <1> QED
    BY <1>1, <1>2 DEF NextInProgressJob, WithStatus, Oldest

LEMMA FaultEffect ==
    ASSUME TypeOK, Fault
    PROVE  faults' \in 0 .. MaxFaults
  BY ConstantsAssumption DEF Fault, TypeOK

LEMMA SeekFailsEffect ==
    ASSUME TypeOK, NEW w \in Workers, SeekFails(w)
    PROVE  Moved(w, "next", NoJob, FALSE) \/ Moved(w, "idle", NoJob, FALSE)
  BY NextEffect, RestsEffect DEF SeekFails

LEMMA FetchEffect ==
    ASSUME TypeOK, NEW w \in Workers, Fetch(w)
    PROVE  /\ worker[w].job \in Jobs
           /\ faults' \in 0 .. MaxFaults
           /\ disturbed \subseteq disturbed' /\ disturbed' \subseteq Jobs
           /\ \/ /\ Moved(w, "count", worker[w].job, worker[w].key)
                 /\ worker[w].key
              \/ /\ Moved(w, "fail", worker[w].job, worker[w].key)
                 /\ UNCHANGED results
  <1>1. worker[w].job \in Jobs
    BY HolderTyped DEF Fetch, Holding
  <1>2. faults' \in 0 .. MaxFaults
    BY FaultEffect DEF Fetch, TypeOK
  <1>3. disturbed \subseteq disturbed' /\ disturbed' \subseteq Jobs
    BY <1>1 DEF Fetch, TypeOK
  <1>4. \/ Moves(w, "count") /\ worker[w].key
        \/ Moves(w, "fail") /\ UNCHANGED results
    BY DEF Fetch
  <1> QED
    BY <1>1, <1>2, <1>3, <1>4, MovesEffect DEF Fetch, Holding

LEMMA PutFilesEffect ==
    ASSUME TypeOK, NEW w \in Workers, PutFiles(w)
    PROVE  /\ worker[w].job \in Jobs
           /\ faults' \in 0 .. MaxFaults
           /\ disturbed \subseteq disturbed' /\ disturbed' \subseteq Jobs
           /\ \/ /\ Moved(w, "keys", worker[w].job, worker[w].key)
                 /\ results' = results \cup {worker[w].job}
              \/ /\ Moved(w, "fail", worker[w].job, worker[w].key)
                 /\ UNCHANGED results /\ worker[w].job \in disturbed'
  <1>1. worker[w].job \in Jobs
    BY HolderTyped DEF PutFiles, Holding
  <1>2. faults' \in 0 .. MaxFaults
    BY FaultEffect DEF PutFiles, TypeOK
  <1>3. disturbed \subseteq disturbed' /\ disturbed' \subseteq Jobs
    BY <1>1 DEF PutFiles, TypeOK
  <1>4. \/ Moves(w, "keys") /\ results' = results \cup {worker[w].job}
        \/ Moves(w, "fail") /\ UNCHANGED results /\ worker[w].job \in disturbed'
    BY DEF PutFiles
  <1> QED
    BY <1>1, <1>2, <1>3, <1>4, MovesEffect DEF PutFiles, Holding

LEMMA StopEffect ==
    ASSUME TypeOK, NEW w \in Workers, Stop(w)
    PROVE  /\ Moved(w, "idle", NoJob, FALSE) /\ faults' \in 0 .. MaxFaults
           /\ disturbed \subseteq disturbed' /\ disturbed' \subseteq Jobs
           /\ \A j \in Jobs : Holds(w, j) => j \in disturbed'
  <1>1. faults' \in 0 .. MaxFaults
    BY FaultEffect DEF Stop
  <1>2. Moved(w, "idle", NoJob, FALSE)
    BY RestsEffect DEF Stop
  <1> QED
    BY <1>1, <1>2 DEF Stop, TypeOK

\* Every step keeps the types.
LEMMA TypeStep ==
    ASSUME TypeOK, [Next]_vars
    PROVE  TypeOK'
<1>1. ASSUME NEW j \in Jobs, InsertBatchJob(j) PROVE TypeOK'
  BY <1>1, RowsTyped, ConstantsAssumption DEF InsertBatchJob, TypeOK
<1>2. ASSUME NEW j \in Jobs, PutInput(j) PROVE TypeOK'
  BY <1>2, RowsTyped, ConstantsAssumption DEF PutInput, TypeOK
<1>3. ASSUME NEW j \in Jobs, UpdateBatchJob(j) PROVE TypeOK'
  BY <1>3, UpdateBatchJobEffect DEF TypeOK, Saved
<1>4. ASSUME NEW j \in Jobs, CreateFails(j) PROVE TypeOK'
  BY <1>4, RowsTyped, ConstantsAssumption DEF CreateFails, Fault, TypeOK
<1>5. ASSUME NEW j \in Jobs, FindToCancel(j) PROVE TypeOK'
  BY <1>5, RowsTyped, ConstantsAssumption DEF FindToCancel, Cancellable, TypeOK
<1>6. ASSUME NEW j \in Jobs, SetCancelled(j) PROVE TypeOK'
  BY <1>6, SetCancelledEffect DEF TypeOK, Saved
<1>7. ASSUME NEW j \in Jobs, Age(j) PROVE TypeOK'
  <2>1. row' = [row EXCEPT ![j] = [row[j] EXCEPT !.expiry = "due"]]
    BY <1>7 DEF Age, TypeOK
  <2>2. [row[j] EXCEPT !.expiry = "due"] \in BatchJob
    BY DEF TypeOK, BatchJob
  <2> QED
    BY <1>7, <2>1, <2>2 DEF Age, TypeOK
<1>8. ASSUME NEW j \in Jobs, DeleteFiles(j) PROVE TypeOK'
  BY <1>8, RowsTyped, ConstantsAssumption DEF DeleteFiles, Expirable, TypeOK
<1>9. ASSUME NEW j \in Jobs, MarkFilesExpired(j) PROVE TypeOK'
  BY <1>9, MarkFilesExpiredEffect DEF TypeOK, Saved
<1>10. ASSUME NEW w \in Workers, ReadValidating(w) PROVE TypeOK'
  BY <1>10, ReadValidatingEffect DEF ReadValidating, TypeOK, Moved
<1>11. ASSUME NEW w \in Workers, Claim(w) PROVE TypeOK'
  BY <1>11, ClaimEffect DEF Claim, TypeOK, Moved, Took
<1>12. ASSUME NEW w \in Workers, NextInProgressJob(w) PROVE TypeOK'
  BY <1>12, NextInProgressJobEffect DEF NextInProgressJob, TypeOK, Moved, Took
<1>13. ASSUME NEW w \in Workers, SeekFails(w) PROVE TypeOK'
  BY <1>13, SeekFailsEffect, FaultEffect DEF SeekFails, TypeOK, Moved
<1>14. ASSUME NEW w \in Workers, Fetch(w) PROVE TypeOK'
  BY <1>14, FetchEffect DEF Fetch, TypeOK, Moved
<1>15. ASSUME NEW w \in Workers, Count(w) PROVE TypeOK'
  BY <1>15, CountEffect DEF TypeOK, Moved, Saved
<1>16. ASSUME NEW w \in Workers, Finalize(w) PROVE TypeOK'
  BY <1>16, FinalizeEffect DEF TypeOK, Moved, Saved
<1>17. ASSUME NEW w \in Workers, PutFiles(w) PROVE TypeOK'
  BY <1>17, PutFilesEffect DEF PutFiles, TypeOK, Moved
<1>18. ASSUME NEW w \in Workers, SetFileKeys(w) PROVE TypeOK'
  BY <1>18, SetFileKeysEffect DEF TypeOK, Moved, Saved
<1>19. ASSUME NEW w \in Workers, Complete(w) PROVE TypeOK'
  BY <1>19, CompleteEffect DEF TypeOK, Moved, Saved
<1>20. ASSUME NEW w \in Workers, Fail(w) PROVE TypeOK'
  BY <1>20, FailEffect DEF TypeOK, Moved, Saved
<1>21. ASSUME NEW w \in Workers, Stop(w) PROVE TypeOK'
  BY <1>21, StopEffect DEF Stop, TypeOK, Moved
<1>22. CASE UNCHANGED vars
  BY <1>22 DEF vars, TypeOK
<1> QED
  BY <1>1, <1>2, <1>3, <1>4, <1>5, <1>6, <1>7, <1>8, <1>9, <1>10, <1>11,
       <1>12, <1>13, <1>14, <1>15, <1>16, <1>17, <1>18, <1>19, <1>20, <1>21,
       <1>22 DEF Next, Pass

\* Every step keeps KeyInv.
LEMMA KeyInvStep ==
    ASSUME TypeOK, TypeOK', KeyInv, HeldInv, [Next]_vars
    PROVE  KeyInv'
<1>1. ASSUME NEW j \in Jobs, InsertBatchJob(j) PROVE KeyInv'
  <2>1. ASSUME NEW v \in Workers PROVE WorkerKeyOK(v)'
      BY <1>1 DEF InsertBatchJob, KeyInv, WorkerKeyOK, RowKeyOK, TypeOK,
           Passes, NewRow, NoRow
  <2>2. ASSUME NEW i \in Jobs PROVE RowKeyOK(i)'
      BY <1>1 DEF InsertBatchJob, KeyInv, WorkerKeyOK, RowKeyOK, TypeOK,
           BatchJob, NewRow, NoRow
  <2> QED
    BY <2>1, <2>2 DEF KeyInv
<1>2. ASSUME NEW j \in Jobs, PutInput(j) PROVE KeyInv'
  <2>1. ASSUME NEW v \in Workers PROVE WorkerKeyOK(v)'
      BY <1>2 DEF PutInput, KeyInv, WorkerKeyOK, RowKeyOK, TypeOK, Passes
  <2>2. ASSUME NEW i \in Jobs PROVE RowKeyOK(i)'
      BY <1>2 DEF PutInput, KeyInv, WorkerKeyOK, RowKeyOK, TypeOK, BatchJob
  <2> QED
    BY <2>1, <2>2 DEF KeyInv
<1>3. ASSUME NEW j \in Jobs, UpdateBatchJob(j) PROVE KeyInv'
  <2>1. ASSUME NEW v \in Workers PROVE WorkerKeyOK(v)'
      BY <1>3, UpdateBatchJobEffect DEF KeyInv, WorkerKeyOK, RowKeyOK, TypeOK,
           Passes, Saved
  <2>2. ASSUME NEW i \in Jobs PROVE RowKeyOK(i)'
      BY <1>3, UpdateBatchJobEffect DEF KeyInv, WorkerKeyOK, RowKeyOK, TypeOK,
           BatchJob, Saved
  <2> QED
    BY <2>1, <2>2 DEF KeyInv
<1>4. ASSUME NEW j \in Jobs, CreateFails(j) PROVE KeyInv'
  <2>1. ASSUME NEW v \in Workers PROVE WorkerKeyOK(v)'
      BY <1>4 DEF CreateFails, KeyInv, WorkerKeyOK, RowKeyOK, TypeOK, Passes
  <2>2. ASSUME NEW i \in Jobs PROVE RowKeyOK(i)'
      BY <1>4 DEF CreateFails, KeyInv, WorkerKeyOK, RowKeyOK, TypeOK, BatchJob
  <2> QED
    BY <2>1, <2>2 DEF KeyInv
<1>5. ASSUME NEW j \in Jobs, FindToCancel(j) PROVE KeyInv'
  <2>1. ASSUME NEW v \in Workers PROVE WorkerKeyOK(v)'
      BY <1>5 DEF FindToCancel, KeyInv, WorkerKeyOK, RowKeyOK, TypeOK, Passes
  <2>2. ASSUME NEW i \in Jobs PROVE RowKeyOK(i)'
      BY <1>5 DEF FindToCancel, KeyInv, WorkerKeyOK, RowKeyOK, TypeOK,
           BatchJob, Cancellable
  <2> QED
    BY <2>1, <2>2 DEF KeyInv
<1>6. ASSUME NEW j \in Jobs, SetCancelled(j) PROVE KeyInv'
  <2>1. ASSUME NEW v \in Workers PROVE WorkerKeyOK(v)'
      BY <1>6, SetCancelledEffect DEF KeyInv, WorkerKeyOK, RowKeyOK, TypeOK,
           Passes, Saved
  <2>2. ASSUME NEW i \in Jobs PROVE RowKeyOK(i)'
      BY <1>6, SetCancelledEffect DEF KeyInv, WorkerKeyOK, RowKeyOK, TypeOK,
           BatchJob, Saved
  <2> QED
    BY <2>1, <2>2 DEF KeyInv
<1>7. ASSUME NEW j \in Jobs, Age(j) PROVE KeyInv'
  <2>1. ASSUME NEW v \in Workers PROVE WorkerKeyOK(v)'
      BY <1>7 DEF Age, KeyInv, WorkerKeyOK, RowKeyOK, TypeOK, Passes
  <2>2. ASSUME NEW i \in Jobs PROVE RowKeyOK(i)'
      BY <1>7 DEF Age, KeyInv, WorkerKeyOK, RowKeyOK, TypeOK, BatchJob
  <2> QED
    BY <2>1, <2>2 DEF KeyInv
<1>8. ASSUME NEW j \in Jobs, DeleteFiles(j) PROVE KeyInv'
  <2>1. ASSUME NEW v \in Workers PROVE WorkerKeyOK(v)'
      BY <1>8 DEF DeleteFiles, KeyInv, WorkerKeyOK, RowKeyOK, TypeOK, Passes
  <2>2. ASSUME NEW i \in Jobs PROVE RowKeyOK(i)'
      BY <1>8 DEF DeleteFiles, KeyInv, WorkerKeyOK, RowKeyOK, TypeOK, BatchJob
  <2> QED
    BY <2>1, <2>2 DEF KeyInv
<1>9. ASSUME NEW j \in Jobs, MarkFilesExpired(j) PROVE KeyInv'
  <2>1. ASSUME NEW v \in Workers PROVE WorkerKeyOK(v)'
      BY <1>9, MarkFilesExpiredEffect DEF KeyInv, WorkerKeyOK, RowKeyOK,
           TypeOK, Passes, Saved
  <2>2. ASSUME NEW i \in Jobs PROVE RowKeyOK(i)'
      BY <1>9, MarkFilesExpiredEffect DEF KeyInv, WorkerKeyOK, RowKeyOK,
           TypeOK, BatchJob, Saved
  <2> QED
    BY <2>1, <2>2 DEF KeyInv
<1>10. ASSUME NEW w \in Workers, ReadValidating(w) PROVE KeyInv'
  <2>1. ASSUME NEW v \in Workers PROVE WorkerKeyOK(v)'
      BY <1>10, ReadValidatingEffect DEF ReadValidating, KeyInv, WorkerKeyOK,
           RowKeyOK, TypeOK, Passes, Moved
  <2>2. ASSUME NEW i \in Jobs PROVE RowKeyOK(i)'
      BY <1>10, ReadValidatingEffect DEF ReadValidating, KeyInv, WorkerKeyOK,
           RowKeyOK, TypeOK, BatchJob, Moved
  <2> QED
    BY <2>1, <2>2 DEF KeyInv
<1>11. ASSUME NEW w \in Workers, Claim(w) PROVE KeyInv'
  <2>1. ASSUME NEW v \in Workers PROVE WorkerKeyOK(v)'
      BY <1>11, ClaimEffect DEF KeyInv, WorkerKeyOK, RowKeyOK, TypeOK, Passes,
           Moved, Took
  <2>2. ASSUME NEW i \in Jobs PROVE RowKeyOK(i)'
      BY <1>11, ClaimEffect DEF KeyInv, WorkerKeyOK, RowKeyOK, TypeOK,
           BatchJob, Moved, Took
  <2> QED
    BY <2>1, <2>2 DEF KeyInv
<1>12. ASSUME NEW w \in Workers, NextInProgressJob(w) PROVE KeyInv'
  <2>1. ASSUME NEW v \in Workers PROVE WorkerKeyOK(v)'
      BY <1>12, NextInProgressJobEffect DEF NextInProgressJob, KeyInv,
           WorkerKeyOK, RowKeyOK, TypeOK, Passes, Moved, Took
  <2>2. ASSUME NEW i \in Jobs PROVE RowKeyOK(i)'
      BY <1>12, NextInProgressJobEffect DEF NextInProgressJob, KeyInv,
           WorkerKeyOK, RowKeyOK, TypeOK, BatchJob, Moved, Took
  <2> QED
    BY <2>1, <2>2 DEF KeyInv
<1>13. ASSUME NEW w \in Workers, SeekFails(w) PROVE KeyInv'
  <2>1. ASSUME NEW v \in Workers PROVE WorkerKeyOK(v)'
      BY <1>13, SeekFailsEffect DEF SeekFails, KeyInv, WorkerKeyOK, RowKeyOK,
           TypeOK, Passes, Moved
  <2>2. ASSUME NEW i \in Jobs PROVE RowKeyOK(i)'
      BY <1>13, SeekFailsEffect DEF SeekFails, KeyInv, WorkerKeyOK, RowKeyOK,
           TypeOK, BatchJob, Moved
  <2> QED
    BY <2>1, <2>2 DEF KeyInv
<1>14. ASSUME NEW w \in Workers, Fetch(w) PROVE KeyInv'
  <2>1. ASSUME NEW v \in Workers PROVE WorkerKeyOK(v)'
      BY <1>14, FetchEffect DEF Fetch, KeyInv, WorkerKeyOK, RowKeyOK, TypeOK,
           Passes, Moved
  <2>2. ASSUME NEW i \in Jobs PROVE RowKeyOK(i)'
      BY <1>14, FetchEffect DEF Fetch, KeyInv, WorkerKeyOK, RowKeyOK, TypeOK,
           BatchJob, Moved
  <2> QED
    BY <2>1, <2>2 DEF KeyInv
<1>15. ASSUME NEW w \in Workers, Count(w) PROVE KeyInv'
  <2>1. ASSUME NEW v \in Workers PROVE WorkerKeyOK(v)'
      BY <1>15, CountEffect DEF KeyInv, WorkerKeyOK, RowKeyOK, TypeOK, Passes,
           Saved, Moved
  <2>2. ASSUME NEW i \in Jobs PROVE RowKeyOK(i)'
      BY <1>15, CountEffect DEF KeyInv, WorkerKeyOK, RowKeyOK, HeldInv,
           HeldOK, Holds, Holding, TypeOK, BatchJob, Saved, Moved
  <2> QED
    BY <2>1, <2>2 DEF KeyInv
<1>16. ASSUME NEW w \in Workers, Finalize(w) PROVE KeyInv'
  <2>1. ASSUME NEW v \in Workers PROVE WorkerKeyOK(v)'
      BY <1>16, FinalizeEffect DEF KeyInv, WorkerKeyOK, RowKeyOK, TypeOK,
           Passes, Saved, Moved
  <2>2. ASSUME NEW i \in Jobs PROVE RowKeyOK(i)'
      BY <1>16, FinalizeEffect DEF KeyInv, WorkerKeyOK, RowKeyOK, HeldInv,
           HeldOK, Holds, Holding, TypeOK, BatchJob, Saved, Moved
  <2> QED
    BY <2>1, <2>2 DEF KeyInv
<1>17. ASSUME NEW w \in Workers, PutFiles(w) PROVE KeyInv'
  <2>1. ASSUME NEW v \in Workers PROVE WorkerKeyOK(v)'
      BY <1>17, PutFilesEffect DEF PutFiles, KeyInv, WorkerKeyOK, RowKeyOK,
           TypeOK, Passes, Moved
  <2>2. ASSUME NEW i \in Jobs PROVE RowKeyOK(i)'
      BY <1>17, PutFilesEffect DEF PutFiles, KeyInv, WorkerKeyOK, RowKeyOK,
           TypeOK, BatchJob, Moved
  <2> QED
    BY <2>1, <2>2 DEF KeyInv
<1>18. ASSUME NEW w \in Workers, SetFileKeys(w) PROVE KeyInv'
  <2>1. ASSUME NEW v \in Workers PROVE WorkerKeyOK(v)'
      BY <1>18, SetFileKeysEffect DEF KeyInv, WorkerKeyOK, RowKeyOK, TypeOK,
           Passes, Saved, Moved
  <2>2. ASSUME NEW i \in Jobs PROVE RowKeyOK(i)'
      BY <1>18, SetFileKeysEffect DEF KeyInv, WorkerKeyOK, RowKeyOK, HeldInv,
           HeldOK, Holds, Holding, TypeOK, BatchJob, Saved, Moved
  <2> QED
    BY <2>1, <2>2 DEF KeyInv
<1>19. ASSUME NEW w \in Workers, Complete(w) PROVE KeyInv'
  <2>1. ASSUME NEW v \in Workers PROVE WorkerKeyOK(v)'
      BY <1>19, CompleteEffect DEF KeyInv, WorkerKeyOK, RowKeyOK, TypeOK,
           Passes, Saved, Moved
  <2>2. ASSUME NEW i \in Jobs PROVE RowKeyOK(i)'
      BY <1>19, CompleteEffect DEF KeyInv, WorkerKeyOK, RowKeyOK, HeldInv,
           HeldOK, Holds, Holding, TypeOK, BatchJob, Saved, Moved
  <2> QED
    BY <2>1, <2>2 DEF KeyInv
<1>20. ASSUME NEW w \in Workers, Fail(w) PROVE KeyInv'
  <2>1. ASSUME NEW v \in Workers PROVE WorkerKeyOK(v)'
      BY <1>20, FailEffect DEF KeyInv, WorkerKeyOK, RowKeyOK, TypeOK, Passes,
           Saved, Moved
  <2>2. ASSUME NEW i \in Jobs PROVE RowKeyOK(i)'
      BY <1>20, FailEffect DEF KeyInv, WorkerKeyOK, RowKeyOK, HeldInv, HeldOK,
           Holds, Holding, TypeOK, BatchJob, Saved, Moved
  <2> QED
    BY <2>1, <2>2 DEF KeyInv
<1>21. ASSUME NEW w \in Workers, Stop(w) PROVE KeyInv'
  <2>1. ASSUME NEW v \in Workers PROVE WorkerKeyOK(v)'
      BY <1>21, StopEffect DEF Stop, KeyInv, WorkerKeyOK, RowKeyOK, TypeOK,
           Passes, Moved
  <2>2. ASSUME NEW i \in Jobs PROVE RowKeyOK(i)'
      BY <1>21, StopEffect DEF Stop, KeyInv, WorkerKeyOK, RowKeyOK, TypeOK,
           BatchJob, Moved
  <2> QED
    BY <2>1, <2>2 DEF KeyInv
<1>22. CASE UNCHANGED vars
  BY <1>22 DEF vars, KeyInv, WorkerKeyOK, RowKeyOK
<1> QED
  BY <1>1, <1>2, <1>3, <1>4, <1>5, <1>6, <1>7, <1>8, <1>9, <1>10, <1>11,
       <1>12, <1>13, <1>14, <1>15, <1>16, <1>17, <1>18, <1>19, <1>20, <1>21,
       <1>22 DEF Next, Pass

\* Every step keeps HeldInv.
LEMMA HeldInvStep ==
    ASSUME TypeOK, TypeOK', KeyInv, HeldInv, [Next]_vars
    PROVE  HeldInv'
<1>1. ASSUME NEW j \in Jobs, InsertBatchJob(j) PROVE HeldInv'
  <2>1. ASSUME NEW v \in Workers, NEW i \in Jobs PROVE HeldOK(v, i)'
    BY <1>1 DEF InsertBatchJob, NewRow, NoRow, HeldInv, HeldOK, Holds,
         Holding, KeyInv, WorkerKeyOK, RowKeyOK, TypeOK, BatchJob
  <2> QED
    BY <2>1 DEF HeldInv
<1>2. ASSUME NEW j \in Jobs, PutInput(j) PROVE HeldInv'
  <2>1. ASSUME NEW v \in Workers, NEW i \in Jobs PROVE HeldOK(v, i)'
    BY <1>2 DEF PutInput, HeldInv, HeldOK, Holds, Holding, KeyInv,
         WorkerKeyOK, RowKeyOK, TypeOK, BatchJob
  <2> QED
    BY <2>1 DEF HeldInv
<1>3. ASSUME NEW j \in Jobs, UpdateBatchJob(j) PROVE HeldInv'
  <2>1. ASSUME NEW v \in Workers, NEW i \in Jobs PROVE HeldOK(v, i)'
    BY <1>3, UpdateBatchJobEffect DEF Saved, HeldInv, HeldOK, Holds, Holding,
         KeyInv, WorkerKeyOK, RowKeyOK, TypeOK, BatchJob
  <2> QED
    BY <2>1 DEF HeldInv
<1>4. ASSUME NEW j \in Jobs, CreateFails(j) PROVE HeldInv'
  <2>1. ASSUME NEW v \in Workers, NEW i \in Jobs PROVE HeldOK(v, i)'
    BY <1>4 DEF CreateFails, HeldInv, HeldOK, Holds, Holding, KeyInv,
         WorkerKeyOK, RowKeyOK, TypeOK, BatchJob
  <2> QED
    BY <2>1 DEF HeldInv
<1>5. ASSUME NEW j \in Jobs, FindToCancel(j) PROVE HeldInv'
  <2>1. ASSUME NEW v \in Workers, NEW i \in Jobs PROVE HeldOK(v, i)'
    BY <1>5 DEF FindToCancel, HeldInv, HeldOK, Holds, Holding, KeyInv,
         WorkerKeyOK, RowKeyOK, TypeOK, BatchJob
  <2> QED
    BY <2>1 DEF HeldInv
<1>6. ASSUME NEW j \in Jobs, SetCancelled(j) PROVE HeldInv'
  <2>1. ASSUME NEW v \in Workers, NEW i \in Jobs PROVE HeldOK(v, i)'
    BY <1>6, SetCancelledEffect DEF Saved, HeldInv, HeldOK, Holds, Holding,
         KeyInv, WorkerKeyOK, RowKeyOK, TypeOK, BatchJob
  <2> QED
    BY <2>1 DEF HeldInv
<1>7. ASSUME NEW j \in Jobs, Age(j) PROVE HeldInv'
  <2>1. ASSUME NEW v \in Workers, NEW i \in Jobs PROVE HeldOK(v, i)'
    BY <1>7 DEF Age, HeldInv, HeldOK, Holds, Holding, KeyInv, WorkerKeyOK,
         RowKeyOK, TypeOK, BatchJob
  <2> QED
    BY <2>1 DEF HeldInv
<1>8. ASSUME NEW j \in Jobs, DeleteFiles(j) PROVE HeldInv'
  <2>1. ASSUME NEW v \in Workers, NEW i \in Jobs PROVE HeldOK(v, i)'
    BY <1>8 DEF DeleteFiles, Expirable, HeldInv, HeldOK, Holds, Holding,
         KeyInv, WorkerKeyOK, RowKeyOK, TypeOK, BatchJob
  <2> QED
    BY <2>1 DEF HeldInv
<1>9. ASSUME NEW j \in Jobs, MarkFilesExpired(j) PROVE HeldInv'
  <2>1. ASSUME NEW v \in Workers, NEW i \in Jobs PROVE HeldOK(v, i)'
    BY <1>9, MarkFilesExpiredEffect DEF Saved, HeldInv, HeldOK, Holds,
         Holding, KeyInv, WorkerKeyOK, RowKeyOK, TypeOK, BatchJob
  <2> QED
    BY <2>1 DEF HeldInv
<1>10. ASSUME NEW w \in Workers, ReadValidating(w) PROVE HeldInv'
  <2>1. ASSUME NEW v \in Workers, NEW i \in Jobs PROVE HeldOK(v, i)'
    BY <1>10, ReadValidatingEffect DEF ReadValidating, Moved, HeldInv, HeldOK,
         Holds, Holding, KeyInv, WorkerKeyOK, RowKeyOK, TypeOK, BatchJob
  <2> QED
    BY <2>1 DEF HeldInv
<1>11. ASSUME NEW w \in Workers, Claim(w) PROVE HeldInv'
  <2> DEFINE j == worker[w].job
  <2>1. CASE row[j].status = "validating" /\ Took(w, j, worker[w].key)
                /\ row'[j].status = "in_progress"
                /\ \A i \in Jobs : i # j => row'[i] = row[i]
    BY <2>1 DEF HeldInv, HeldOK, Holds, Took, Moved
  <2>2. CASE UNCHANGED row /\ Moved(w, "next", NoJob, FALSE)
    BY <2>2 DEF HeldInv, HeldOK, Holds, Holding, Moved
  <2> QED
    BY <1>11, <2>1, <2>2, ClaimEffect
<1>12. ASSUME NEW w \in Workers, NextInProgressJob(w) PROVE HeldInv'
  <2>1. ASSUME NEW v \in Workers, NEW i \in Jobs PROVE HeldOK(v, i)'
    BY <1>12, NextInProgressJobEffect DEF NextInProgressJob, Moved, Took,
         HeldInv, HeldOK, Holds, Holding, KeyInv, WorkerKeyOK, RowKeyOK,
         TypeOK, BatchJob
  <2> QED
    BY <2>1 DEF HeldInv
<1>13. ASSUME NEW w \in Workers, SeekFails(w) PROVE HeldInv'
  <2>1. ASSUME NEW v \in Workers, NEW i \in Jobs PROVE HeldOK(v, i)'
    BY <1>13, SeekFailsEffect DEF SeekFails, Moved, HeldInv, HeldOK, Holds,
         Holding, KeyInv, WorkerKeyOK, RowKeyOK, TypeOK, BatchJob
  <2> QED
    BY <2>1 DEF HeldInv
<1>14. ASSUME NEW w \in Workers, Fetch(w) PROVE HeldInv'
  <2>1. ASSUME NEW v \in Workers, NEW i \in Jobs PROVE HeldOK(v, i)'
    BY <1>14, FetchEffect DEF Fetch, Moved, HeldInv, HeldOK, Holds, Holding,
         KeyInv, WorkerKeyOK, RowKeyOK, TypeOK, BatchJob
  <2> QED
    BY <2>1 DEF HeldInv
<1>15. ASSUME NEW w \in Workers, Count(w) PROVE HeldInv'
  <2>1. ASSUME NEW v \in Workers, NEW i \in Jobs PROVE HeldOK(v, i)'
    BY <1>15, CountEffect DEF Saved, Moved, HeldInv, HeldOK, Holds, Holding,
         KeyInv, WorkerKeyOK, RowKeyOK, TypeOK, BatchJob
  <2> QED
    BY <2>1 DEF HeldInv
<1>16. ASSUME NEW w \in Workers, Finalize(w) PROVE HeldInv'
  <2>1. ASSUME NEW v \in Workers, NEW i \in Jobs PROVE HeldOK(v, i)'
    BY <1>16, FinalizeEffect DEF Saved, Moved, HeldInv, HeldOK, Holds,
         Holding, KeyInv, WorkerKeyOK, RowKeyOK, TypeOK, BatchJob
  <2> QED
    BY <2>1 DEF HeldInv
<1>17. ASSUME NEW w \in Workers, PutFiles(w) PROVE HeldInv'
  <2>1. ASSUME NEW v \in Workers, NEW i \in Jobs PROVE HeldOK(v, i)'
    BY <1>17, PutFilesEffect DEF PutFiles, Moved, HeldInv, HeldOK, Holds,
         Holding, KeyInv, WorkerKeyOK, RowKeyOK, TypeOK, BatchJob
  <2> QED
    BY <2>1 DEF HeldInv
<1>18. ASSUME NEW w \in Workers, SetFileKeys(w) PROVE HeldInv'
  <2>1. ASSUME NEW v \in Workers, NEW i \in Jobs PROVE HeldOK(v, i)'
    BY <1>18, SetFileKeysEffect DEF Saved, Moved, HeldInv, HeldOK, Holds,
         Holding, KeyInv, WorkerKeyOK, RowKeyOK, TypeOK, BatchJob
  <2> QED
    BY <2>1 DEF HeldInv
<1>19. ASSUME NEW w \in Workers, Complete(w) PROVE HeldInv'
  <2>1. ASSUME NEW v \in Workers, NEW i \in Jobs PROVE HeldOK(v, i)'
    BY <1>19, CompleteEffect DEF Saved, Moved, HeldInv, HeldOK, Holds,
         Holding, KeyInv, WorkerKeyOK, RowKeyOK, TypeOK, BatchJob
  <2> QED
    BY <2>1 DEF HeldInv
<1>20. ASSUME NEW w \in Workers, Fail(w) PROVE HeldInv'
  <2>1. ASSUME NEW v \in Workers, NEW i \in Jobs PROVE HeldOK(v, i)'
    BY <1>20, FailEffect DEF Saved, Moved, HeldInv, HeldOK, Holds, Holding,
         KeyInv, WorkerKeyOK, RowKeyOK, TypeOK, BatchJob
  <2> QED
    BY <2>1 DEF HeldInv
<1>21. ASSUME NEW w \in Workers, Stop(w) PROVE HeldInv'
  <2>1. ASSUME NEW v \in Workers, NEW i \in Jobs PROVE HeldOK(v, i)'
    BY <1>21, StopEffect DEF Stop, Moved, HeldInv, HeldOK, Holds, Holding,
         KeyInv, WorkerKeyOK, RowKeyOK, TypeOK, BatchJob
  <2> QED
    BY <2>1 DEF HeldInv
<1>22. CASE UNCHANGED vars
  BY <1>22 DEF vars, HeldInv, HeldOK, Holds
<1> QED
  BY <1>1, <1>2, <1>3, <1>4, <1>5, <1>6, <1>7, <1>8, <1>9, <1>10, <1>11,
       <1>12, <1>13, <1>14, <1>15, <1>16, <1>17, <1>18, <1>19, <1>20, <1>21,
       <1>22 DEF Next, Pass

\* Every step keeps PassInv.
LEMMA PassInvStep ==
    ASSUME TypeOK, TypeOK', KeyInv, HeldInv, PassInv, [Next]_vars
    PROVE  PassInv'
<1>1. ASSUME NEW j \in Jobs, InsertBatchJob(j) PROVE PassInv'
  <2>1. ASSUME NEW i \in Jobs, i \notin disturbed' PROVE JobOK(i)'
    <3>0. i \in Jobs \ disturbed /\ JobOK(i)
      BY <1>1, <2>1 DEF InsertBatchJob, NewRow, NoRow, PassInv, TypeOK
    <3>1. SoleWorker(i)'
      BY <1>1, <2>1, <3>0 DEF InsertBatchJob, NewRow, NoRow, PassInv, JobOK,
           HeldInv, HeldOK, Holds, Holding, KeyInv, WorkerKeyOK, RowKeyOK,
           TypeOK, SoleWorker, StatusOK, OutcomeOK, ProgressOK
    <3>2. StatusOK(i)'
      BY <1>1, <2>1, <3>0 DEF InsertBatchJob, NewRow, NoRow, PassInv, JobOK,
           HeldInv, HeldOK, Holds, Holding, KeyInv, WorkerKeyOK, RowKeyOK,
           TypeOK, SoleWorker, StatusOK, OutcomeOK, ProgressOK
    <3>3. OutcomeOK(i)'
      BY <1>1, <2>1, <3>0 DEF InsertBatchJob, NewRow, NoRow, PassInv, JobOK,
           HeldInv, HeldOK, Holds, Holding, KeyInv, WorkerKeyOK, RowKeyOK,
           TypeOK, SoleWorker, StatusOK, OutcomeOK, ProgressOK
    <3>4. ASSUME NEW v \in Workers PROVE ProgressOK(v, i)'
      BY <1>1, <2>1, <3>0 DEF InsertBatchJob, NewRow, NoRow, PassInv, JobOK,
           HeldInv, HeldOK, Holds, Holding, KeyInv, WorkerKeyOK, RowKeyOK,
           TypeOK, SoleWorker, StatusOK, OutcomeOK, ProgressOK
    <3> QED
      BY <3>1, <3>2, <3>3, <3>4 DEF JobOK
  <2> QED
    BY <2>1 DEF PassInv
<1>2. ASSUME NEW j \in Jobs, PutInput(j) PROVE PassInv'
  <2>1. ASSUME NEW i \in Jobs, i \notin disturbed' PROVE JobOK(i)'
    <3>0. i \in Jobs \ disturbed /\ JobOK(i)
      BY <1>2, <2>1 DEF PutInput, PassInv, TypeOK
    <3>1. SoleWorker(i)'
      BY <1>2, <2>1, <3>0 DEF PutInput, PassInv, JobOK, HeldInv, HeldOK,
           Holds, Holding, KeyInv, WorkerKeyOK, RowKeyOK, TypeOK, SoleWorker,
           StatusOK, OutcomeOK, ProgressOK
    <3>2. StatusOK(i)'
      BY <1>2, <2>1, <3>0 DEF PutInput, PassInv, JobOK, HeldInv, HeldOK,
           Holds, Holding, KeyInv, WorkerKeyOK, RowKeyOK, TypeOK, SoleWorker,
           StatusOK, OutcomeOK, ProgressOK
    <3>3. OutcomeOK(i)'
      BY <1>2, <2>1, <3>0 DEF PutInput, PassInv, JobOK, HeldInv, HeldOK,
           Holds, Holding, KeyInv, WorkerKeyOK, RowKeyOK, TypeOK, SoleWorker,
           StatusOK, OutcomeOK, ProgressOK
    <3>4. ASSUME NEW v \in Workers PROVE ProgressOK(v, i)'
      BY <1>2, <2>1, <3>0 DEF PutInput, PassInv, JobOK, HeldInv, HeldOK,
           Holds, Holding, KeyInv, WorkerKeyOK, RowKeyOK, TypeOK, SoleWorker,
           StatusOK, OutcomeOK, ProgressOK
    <3> QED
      BY <3>1, <3>2, <3>3, <3>4 DEF JobOK
  <2> QED
    BY <2>1 DEF PassInv
<1>3. ASSUME NEW j \in Jobs, UpdateBatchJob(j) PROVE PassInv'
  <2>1. ASSUME NEW i \in Jobs, i \notin disturbed' PROVE JobOK(i)'
    <3>0. i \in Jobs \ disturbed /\ JobOK(i)
      BY <1>3, UpdateBatchJobEffect, <2>1 DEF Saved, PassInv, TypeOK
    <3>1. SoleWorker(i)'
      BY <1>3, UpdateBatchJobEffect, <2>1, <3>0 DEF Saved, PassInv, JobOK,
           HeldInv, HeldOK, Holds, Holding, KeyInv, WorkerKeyOK, RowKeyOK,
           TypeOK, SoleWorker, StatusOK, OutcomeOK, ProgressOK
    <3>2. StatusOK(i)'
      BY <1>3, UpdateBatchJobEffect, <2>1, <3>0 DEF Saved, PassInv, JobOK,
           HeldInv, HeldOK, Holds, Holding, KeyInv, WorkerKeyOK, RowKeyOK,
           TypeOK, SoleWorker, StatusOK, OutcomeOK, ProgressOK
    <3>3. OutcomeOK(i)'
      BY <1>3, UpdateBatchJobEffect, <2>1, <3>0 DEF Saved, PassInv, JobOK,
           HeldInv, HeldOK, Holds, Holding, KeyInv, WorkerKeyOK, RowKeyOK,
           TypeOK, SoleWorker, StatusOK, OutcomeOK, ProgressOK
    <3>4. ASSUME NEW v \in Workers PROVE ProgressOK(v, i)'
      BY <1>3, UpdateBatchJobEffect, <2>1, <3>0 DEF Saved, PassInv, JobOK,
           HeldInv, HeldOK, Holds, Holding, KeyInv, WorkerKeyOK, RowKeyOK,
           TypeOK, SoleWorker, StatusOK, OutcomeOK, ProgressOK
    <3> QED
      BY <3>1, <3>2, <3>3, <3>4 DEF JobOK
  <2> QED
    BY <2>1 DEF PassInv
<1>4. ASSUME NEW j \in Jobs, CreateFails(j) PROVE PassInv'
  <2>1. ASSUME NEW i \in Jobs, i \notin disturbed' PROVE JobOK(i)'
    <3>0. i \in Jobs \ disturbed /\ JobOK(i)
      BY <1>4, <2>1 DEF CreateFails, PassInv, TypeOK
    <3>1. SoleWorker(i)'
      BY <1>4, <2>1, <3>0 DEF CreateFails, PassInv, JobOK, HeldInv, HeldOK,
           Holds, Holding, KeyInv, WorkerKeyOK, RowKeyOK, TypeOK, SoleWorker,
           StatusOK, OutcomeOK, ProgressOK
    <3>2. StatusOK(i)'
      BY <1>4, <2>1, <3>0 DEF CreateFails, PassInv, JobOK, HeldInv, HeldOK,
           Holds, Holding, KeyInv, WorkerKeyOK, RowKeyOK, TypeOK, SoleWorker,
           StatusOK, OutcomeOK, ProgressOK
    <3>3. OutcomeOK(i)'
      BY <1>4, <2>1, <3>0 DEF CreateFails, PassInv, JobOK, HeldInv, HeldOK,
           Holds, Holding, KeyInv, WorkerKeyOK, RowKeyOK, TypeOK, SoleWorker,
           StatusOK, OutcomeOK, ProgressOK
    <3>4. ASSUME NEW v \in Workers PROVE ProgressOK(v, i)'
      BY <1>4, <2>1, <3>0 DEF CreateFails, PassInv, JobOK, HeldInv, HeldOK,
           Holds, Holding, KeyInv, WorkerKeyOK, RowKeyOK, TypeOK, SoleWorker,
           StatusOK, OutcomeOK, ProgressOK
    <3> QED
      BY <3>1, <3>2, <3>3, <3>4 DEF JobOK
  <2> QED
    BY <2>1 DEF PassInv
<1>5. ASSUME NEW j \in Jobs, FindToCancel(j) PROVE PassInv'
  <2>1. ASSUME NEW i \in Jobs, i \notin disturbed' PROVE JobOK(i)'
    <3>0. i \in Jobs \ disturbed /\ JobOK(i)
      BY <1>5, <2>1 DEF FindToCancel, PassInv, TypeOK
    <3>1. SoleWorker(i)'
      BY <1>5, <2>1, <3>0 DEF FindToCancel, PassInv, JobOK, HeldInv, HeldOK,
           Holds, Holding, KeyInv, WorkerKeyOK, RowKeyOK, TypeOK, SoleWorker,
           StatusOK, OutcomeOK, ProgressOK
    <3>2. StatusOK(i)'
      BY <1>5, <2>1, <3>0 DEF FindToCancel, PassInv, JobOK, HeldInv, HeldOK,
           Holds, Holding, KeyInv, WorkerKeyOK, RowKeyOK, TypeOK, SoleWorker,
           StatusOK, OutcomeOK, ProgressOK
    <3>3. OutcomeOK(i)'
      BY <1>5, <2>1, <3>0 DEF FindToCancel, PassInv, JobOK, HeldInv, HeldOK,
           Holds, Holding, KeyInv, WorkerKeyOK, RowKeyOK, TypeOK, SoleWorker,
           StatusOK, OutcomeOK, ProgressOK
    <3>4. ASSUME NEW v \in Workers PROVE ProgressOK(v, i)'
      BY <1>5, <2>1, <3>0 DEF FindToCancel, PassInv, JobOK, HeldInv, HeldOK,
           Holds, Holding, KeyInv, WorkerKeyOK, RowKeyOK, TypeOK, SoleWorker,
           StatusOK, OutcomeOK, ProgressOK
    <3> QED
      BY <3>1, <3>2, <3>3, <3>4 DEF JobOK
  <2> QED
    BY <2>1 DEF PassInv
<1>6. ASSUME NEW j \in Jobs, SetCancelled(j) PROVE PassInv'
  <2>1. ASSUME NEW i \in Jobs, i \notin disturbed' PROVE JobOK(i)'
    <3>0. i \in Jobs \ disturbed /\ JobOK(i)
      BY <1>6, SetCancelledEffect, <2>1 DEF Saved, PassInv, TypeOK
    <3>1. SoleWorker(i)'
      BY <1>6, SetCancelledEffect, <2>1, <3>0 DEF Saved, PassInv, JobOK,
           HeldInv, HeldOK, Holds, Holding, KeyInv, WorkerKeyOK, RowKeyOK,
           TypeOK, SoleWorker, StatusOK, OutcomeOK, ProgressOK
    <3>2. StatusOK(i)'
      BY <1>6, SetCancelledEffect, <2>1, <3>0 DEF Saved, PassInv, JobOK,
           HeldInv, HeldOK, Holds, Holding, KeyInv, WorkerKeyOK, RowKeyOK,
           TypeOK, SoleWorker, StatusOK, OutcomeOK, ProgressOK
    <3>3. OutcomeOK(i)'
      BY <1>6, SetCancelledEffect, <2>1, <3>0 DEF Saved, PassInv, JobOK,
           HeldInv, HeldOK, Holds, Holding, KeyInv, WorkerKeyOK, RowKeyOK,
           TypeOK, SoleWorker, StatusOK, OutcomeOK, ProgressOK
    <3>4. ASSUME NEW v \in Workers PROVE ProgressOK(v, i)'
      BY <1>6, SetCancelledEffect, <2>1, <3>0 DEF Saved, PassInv, JobOK,
           HeldInv, HeldOK, Holds, Holding, KeyInv, WorkerKeyOK, RowKeyOK,
           TypeOK, SoleWorker, StatusOK, OutcomeOK, ProgressOK
    <3> QED
      BY <3>1, <3>2, <3>3, <3>4 DEF JobOK
  <2> QED
    BY <2>1 DEF PassInv
<1>7. ASSUME NEW j \in Jobs, Age(j) PROVE PassInv'
  <2>1. ASSUME NEW i \in Jobs, i \notin disturbed' PROVE JobOK(i)'
    <3>0. i \in Jobs \ disturbed /\ JobOK(i)
      BY <1>7, <2>1 DEF Age, PassInv, TypeOK
    <3>1. SoleWorker(i)'
      BY <1>7, <2>1, <3>0 DEF Age, PassInv, JobOK, HeldInv, HeldOK, Holds,
           Holding, KeyInv, WorkerKeyOK, RowKeyOK, TypeOK, SoleWorker,
           StatusOK, OutcomeOK, ProgressOK
    <3>2. StatusOK(i)'
      BY <1>7, <2>1, <3>0 DEF Age, PassInv, JobOK, HeldInv, HeldOK, Holds,
           Holding, KeyInv, WorkerKeyOK, RowKeyOK, TypeOK, SoleWorker,
           StatusOK, OutcomeOK, ProgressOK
    <3>3. OutcomeOK(i)'
      BY <1>7, <2>1, <3>0 DEF Age, PassInv, JobOK, HeldInv, HeldOK, Holds,
           Holding, KeyInv, WorkerKeyOK, RowKeyOK, TypeOK, SoleWorker,
           StatusOK, OutcomeOK, ProgressOK
    <3>4. ASSUME NEW v \in Workers PROVE ProgressOK(v, i)'
      BY <1>7, <2>1, <3>0 DEF Age, PassInv, JobOK, HeldInv, HeldOK, Holds,
           Holding, KeyInv, WorkerKeyOK, RowKeyOK, TypeOK, SoleWorker,
           StatusOK, OutcomeOK, ProgressOK
    <3> QED
      BY <3>1, <3>2, <3>3, <3>4 DEF JobOK
  <2> QED
    BY <2>1 DEF PassInv
<1>8. ASSUME NEW j \in Jobs, DeleteFiles(j) PROVE PassInv'
  <2>1. ASSUME NEW i \in Jobs, i \notin disturbed' PROVE JobOK(i)'
    <3>0. i \in Jobs \ disturbed /\ JobOK(i)
      BY <1>8, <2>1 DEF DeleteFiles, Expirable, PassInv, TypeOK
    <3>1. SoleWorker(i)'
      BY <1>8, <2>1, <3>0, ConstantsAssumption DEF DeleteFiles, Expirable,
           PassInv, JobOK, HeldInv, HeldOK, Holds, Holding, KeyInv,
           WorkerKeyOK, RowKeyOK, TypeOK, SoleWorker, StatusOK, OutcomeOK,
           ProgressOK
    <3>2. StatusOK(i)'
      BY <1>8, <2>1, <3>0, ConstantsAssumption DEF DeleteFiles, Expirable,
           PassInv, JobOK, HeldInv, HeldOK, Holds, Holding, KeyInv,
           WorkerKeyOK, RowKeyOK, TypeOK, SoleWorker, StatusOK, OutcomeOK,
           ProgressOK
    <3>3. OutcomeOK(i)'
      BY <1>8, <2>1, <3>0, ConstantsAssumption DEF DeleteFiles, Expirable,
           PassInv, JobOK, HeldInv, HeldOK, Holds, Holding, KeyInv,
           WorkerKeyOK, RowKeyOK, TypeOK, SoleWorker, StatusOK, OutcomeOK,
           ProgressOK
    <3>4. ASSUME NEW v \in Workers PROVE ProgressOK(v, i)'
      BY <1>8, <2>1, <3>0, ConstantsAssumption DEF DeleteFiles, Expirable,
           PassInv, JobOK, HeldInv, HeldOK, Holds, Holding, KeyInv,
           WorkerKeyOK, RowKeyOK, TypeOK, SoleWorker, StatusOK, OutcomeOK,
           ProgressOK
    <3> QED
      BY <3>1, <3>2, <3>3, <3>4 DEF JobOK
  <2> QED
    BY <2>1 DEF PassInv
<1>9. ASSUME NEW j \in Jobs, MarkFilesExpired(j) PROVE PassInv'
  <2>1. ASSUME NEW i \in Jobs, i \notin disturbed' PROVE JobOK(i)'
    <3>0. i \in Jobs \ disturbed /\ JobOK(i)
      BY <1>9, MarkFilesExpiredEffect, <2>1 DEF Saved, PassInv, TypeOK
    <3>1. SoleWorker(i)'
      BY <1>9, MarkFilesExpiredEffect, <2>1, <3>0 DEF Saved, PassInv, JobOK,
           HeldInv, HeldOK, Holds, Holding, KeyInv, WorkerKeyOK, RowKeyOK,
           TypeOK, SoleWorker, StatusOK, OutcomeOK, ProgressOK
    <3>2. StatusOK(i)'
      BY <1>9, MarkFilesExpiredEffect, <2>1, <3>0 DEF Saved, PassInv, JobOK,
           HeldInv, HeldOK, Holds, Holding, KeyInv, WorkerKeyOK, RowKeyOK,
           TypeOK, SoleWorker, StatusOK, OutcomeOK, ProgressOK
    <3>3. OutcomeOK(i)'
      BY <1>9, MarkFilesExpiredEffect, <2>1, <3>0 DEF Saved, PassInv, JobOK,
           HeldInv, HeldOK, Holds, Holding, KeyInv, WorkerKeyOK, RowKeyOK,
           TypeOK, SoleWorker, StatusOK, OutcomeOK, ProgressOK
    <3>4. ASSUME NEW v \in Workers PROVE ProgressOK(v, i)'
      BY <1>9, MarkFilesExpiredEffect, <2>1, <3>0 DEF Saved, PassInv, JobOK,
           HeldInv, HeldOK, Holds, Holding, KeyInv, WorkerKeyOK, RowKeyOK,
           TypeOK, SoleWorker, StatusOK, OutcomeOK, ProgressOK
    <3> QED
      BY <3>1, <3>2, <3>3, <3>4 DEF JobOK
  <2> QED
    BY <2>1 DEF PassInv
<1>10. ASSUME NEW w \in Workers, ReadValidating(w) PROVE PassInv'
  <2>1. ASSUME NEW i \in Jobs, i \notin disturbed' PROVE JobOK(i)'
    <3>0. i \in Jobs \ disturbed /\ JobOK(i)
      BY <1>10, ReadValidatingEffect, <2>1 DEF ReadValidating, Moved, PassInv,
           TypeOK
    <3>1. SoleWorker(i)'
      BY <1>10, ReadValidatingEffect, <2>1, <3>0 DEF ReadValidating, Moved,
           PassInv, JobOK, HeldInv, HeldOK, Holds, Holding, KeyInv,
           WorkerKeyOK, RowKeyOK, TypeOK, SoleWorker, StatusOK, OutcomeOK,
           ProgressOK
    <3>2. StatusOK(i)'
      BY <1>10, ReadValidatingEffect, <2>1, <3>0 DEF ReadValidating, Moved,
           PassInv, JobOK, HeldInv, HeldOK, Holds, Holding, KeyInv,
           WorkerKeyOK, RowKeyOK, TypeOK, SoleWorker, StatusOK, OutcomeOK,
           ProgressOK
    <3>3. OutcomeOK(i)'
      BY <1>10, ReadValidatingEffect, <2>1, <3>0 DEF ReadValidating, Moved,
           PassInv, JobOK, HeldInv, HeldOK, Holds, Holding, KeyInv,
           WorkerKeyOK, RowKeyOK, TypeOK, SoleWorker, StatusOK, OutcomeOK,
           ProgressOK
    <3>4. ASSUME NEW v \in Workers PROVE ProgressOK(v, i)'
      BY <1>10, ReadValidatingEffect, <2>1, <3>0 DEF ReadValidating, Moved,
           PassInv, JobOK, HeldInv, HeldOK, Holds, Holding, KeyInv,
           WorkerKeyOK, RowKeyOK, TypeOK, SoleWorker, StatusOK, OutcomeOK,
           ProgressOK
    <3> QED
      BY <3>1, <3>2, <3>3, <3>4 DEF JobOK
  <2> QED
    BY <2>1 DEF PassInv
<1>11. ASSUME NEW w \in Workers, Claim(w) PROVE PassInv'
  <2>1. ASSUME NEW i \in Jobs, i \notin disturbed' PROVE JobOK(i)'
    <3>0. i \in Jobs \ disturbed /\ JobOK(i)
      BY <1>11, ClaimEffect, <2>1 DEF Moved, Took, PassInv, TypeOK
    <3>1. SoleWorker(i)'
      BY <1>11, ClaimEffect, <2>1, <3>0 DEF Moved, Took, PassInv, JobOK,
           HeldInv, HeldOK, Holds, Holding, KeyInv, WorkerKeyOK, RowKeyOK,
           TypeOK, SoleWorker, StatusOK, OutcomeOK, ProgressOK
    <3>2. StatusOK(i)'
      BY <1>11, ClaimEffect, <2>1, <3>0 DEF Moved, Took, PassInv, JobOK,
           HeldInv, HeldOK, Holds, Holding, KeyInv, WorkerKeyOK, RowKeyOK,
           TypeOK, SoleWorker, StatusOK, OutcomeOK, ProgressOK
    <3>3. OutcomeOK(i)'
      BY <1>11, ClaimEffect, <2>1, <3>0 DEF Moved, Took, PassInv, JobOK,
           HeldInv, HeldOK, Holds, Holding, KeyInv, WorkerKeyOK, RowKeyOK,
           TypeOK, SoleWorker, StatusOK, OutcomeOK, ProgressOK
    <3>4. ASSUME NEW v \in Workers PROVE ProgressOK(v, i)'
      BY <1>11, ClaimEffect, <2>1, <3>0 DEF Moved, Took, PassInv, JobOK,
           HeldInv, HeldOK, Holds, Holding, KeyInv, WorkerKeyOK, RowKeyOK,
           TypeOK, SoleWorker, StatusOK, OutcomeOK, ProgressOK
    <3> QED
      BY <3>1, <3>2, <3>3, <3>4 DEF JobOK
  <2> QED
    BY <2>1 DEF PassInv
<1>12. ASSUME NEW w \in Workers, NextInProgressJob(w) PROVE PassInv'
  <2>1. ASSUME NEW i \in Jobs, i \notin disturbed' PROVE JobOK(i)'
    <3>0. i \in Jobs \ disturbed /\ JobOK(i)
      BY <1>12, NextInProgressJobEffect, <2>1 DEF NextInProgressJob, Moved,
           Took, PassInv, TypeOK
    <3>1. SoleWorker(i)'
      BY <1>12, NextInProgressJobEffect, <2>1, <3>0 DEF NextInProgressJob,
           Moved, Took, PassInv, JobOK, HeldInv, HeldOK, Holds, Holding,
           KeyInv, WorkerKeyOK, RowKeyOK, TypeOK, SoleWorker, StatusOK,
           OutcomeOK, ProgressOK
    <3>2. StatusOK(i)'
      BY <1>12, NextInProgressJobEffect, <2>1, <3>0 DEF NextInProgressJob,
           Moved, Took, PassInv, JobOK, HeldInv, HeldOK, Holds, Holding,
           KeyInv, WorkerKeyOK, RowKeyOK, TypeOK, SoleWorker, StatusOK,
           OutcomeOK, ProgressOK
    <3>3. OutcomeOK(i)'
      BY <1>12, NextInProgressJobEffect, <2>1, <3>0 DEF NextInProgressJob,
           Moved, Took, PassInv, JobOK, HeldInv, HeldOK, Holds, Holding,
           KeyInv, WorkerKeyOK, RowKeyOK, TypeOK, SoleWorker, StatusOK,
           OutcomeOK, ProgressOK
    <3>4. ASSUME NEW v \in Workers PROVE ProgressOK(v, i)'
      BY <1>12, NextInProgressJobEffect, <2>1, <3>0 DEF NextInProgressJob,
           Moved, Took, PassInv, JobOK, HeldInv, HeldOK, Holds, Holding,
           KeyInv, WorkerKeyOK, RowKeyOK, TypeOK, SoleWorker, StatusOK,
           OutcomeOK, ProgressOK
    <3> QED
      BY <3>1, <3>2, <3>3, <3>4 DEF JobOK
  <2> QED
    BY <2>1 DEF PassInv
<1>13. ASSUME NEW w \in Workers, SeekFails(w) PROVE PassInv'
  <2>1. \A v \in Workers, i \in Jobs : Holds(v, i)' <=> Holds(v, i)
    BY <1>13, SeekFailsEffect DEF SeekFails, Moved, Holds, Holding, Seeking
  <2>2. \A v \in Workers, i \in Jobs : Holds(v, i) => worker'[v] = worker[v]
    BY <1>13, SeekFailsEffect DEF SeekFails, Moved, Holds, Holding, Seeking
  <2>3. ASSUME NEW i \in Jobs, i \notin disturbed' PROVE JobOK(i)'
    <3>0. JobOK(i)
      BY <1>13, <2>3 DEF PassInv, SeekFails
    <3>1. SoleWorker(i)' /\ StatusOK(i)' /\ OutcomeOK(i)'
      BY <1>13, <2>1, <3>0
      DEF SeekFails, JobOK, SoleWorker, StatusOK, OutcomeOK
    <3>2. ASSUME NEW v \in Workers PROVE ProgressOK(v, i)'
      BY <1>13, <2>1, <2>2, <3>0 DEF SeekFails, JobOK, ProgressOK
    <3> QED
      BY <3>1, <3>2 DEF JobOK
  <2> QED
    BY <2>3 DEF PassInv
<1>14. ASSUME NEW w \in Workers, Fetch(w) PROVE PassInv'
  <2>1. ASSUME NEW i \in Jobs, i \notin disturbed' PROVE JobOK(i)'
    <3>0. i \in Jobs \ disturbed /\ JobOK(i)
      BY <1>14, FetchEffect, <2>1 DEF Fetch, Moved, PassInv, TypeOK
    <3>1. SoleWorker(i)'
      BY <1>14, FetchEffect, <2>1, <3>0 DEF Fetch, Moved, PassInv, JobOK,
           HeldInv, HeldOK, Holds, Holding, KeyInv, WorkerKeyOK, RowKeyOK,
           TypeOK, SoleWorker, StatusOK, OutcomeOK, ProgressOK
    <3>2. StatusOK(i)'
      BY <1>14, FetchEffect, <2>1, <3>0 DEF Fetch, Moved, PassInv, JobOK,
           HeldInv, HeldOK, Holds, Holding, KeyInv, WorkerKeyOK, RowKeyOK,
           TypeOK, SoleWorker, StatusOK, OutcomeOK, ProgressOK
    <3>3. OutcomeOK(i)'
      BY <1>14, FetchEffect, <2>1, <3>0 DEF Fetch, Moved, PassInv, JobOK,
           HeldInv, HeldOK, Holds, Holding, KeyInv, WorkerKeyOK, RowKeyOK,
           TypeOK, SoleWorker, StatusOK, OutcomeOK, ProgressOK
    <3>4. ASSUME NEW v \in Workers PROVE ProgressOK(v, i)'
      BY <1>14, FetchEffect, <2>1, <3>0 DEF Fetch, Moved, PassInv, JobOK,
           HeldInv, HeldOK, Holds, Holding, KeyInv, WorkerKeyOK, RowKeyOK,
           TypeOK, SoleWorker, StatusOK, OutcomeOK, ProgressOK
    <3> QED
      BY <3>1, <3>2, <3>3, <3>4 DEF JobOK
  <2> QED
    BY <2>1 DEF PassInv
<1>15. ASSUME NEW w \in Workers, Count(w) PROVE PassInv'
  <2>1. ASSUME NEW i \in Jobs, i \notin disturbed' PROVE JobOK(i)'
    <3>0. i \in Jobs \ disturbed /\ JobOK(i)
      BY <1>15, CountEffect, <2>1 DEF Saved, Moved, PassInv, TypeOK
    <3>1. SoleWorker(i)'
      BY <1>15, CountEffect, <2>1, <3>0 DEF Saved, Moved, PassInv, JobOK,
           HeldInv, HeldOK, Holds, Holding, KeyInv, WorkerKeyOK, RowKeyOK,
           TypeOK, SoleWorker, StatusOK, OutcomeOK, ProgressOK
    <3>2. StatusOK(i)'
      BY <1>15, CountEffect, <2>1, <3>0 DEF Saved, Moved, PassInv, JobOK,
           HeldInv, HeldOK, Holds, Holding, KeyInv, WorkerKeyOK, RowKeyOK,
           TypeOK, SoleWorker, StatusOK, OutcomeOK, ProgressOK
    <3>3. OutcomeOK(i)'
      BY <1>15, CountEffect, <2>1, <3>0 DEF Saved, Moved, PassInv, JobOK,
           HeldInv, HeldOK, Holds, Holding, KeyInv, WorkerKeyOK, RowKeyOK,
           TypeOK, SoleWorker, StatusOK, OutcomeOK, ProgressOK
    <3>4. ASSUME NEW v \in Workers PROVE ProgressOK(v, i)'
      BY <1>15, CountEffect, <2>1, <3>0 DEF Saved, Moved, PassInv, JobOK,
           HeldInv, HeldOK, Holds, Holding, KeyInv, WorkerKeyOK, RowKeyOK,
           TypeOK, SoleWorker, StatusOK, OutcomeOK, ProgressOK
    <3> QED
      BY <3>1, <3>2, <3>3, <3>4 DEF JobOK
  <2> QED
    BY <2>1 DEF PassInv
<1>16. ASSUME NEW w \in Workers, Finalize(w) PROVE PassInv'
  <2>1. ASSUME NEW i \in Jobs, i \notin disturbed' PROVE JobOK(i)'
    <3>0. i \in Jobs \ disturbed /\ JobOK(i)
      BY <1>16, FinalizeEffect, <2>1 DEF Saved, Moved, PassInv, TypeOK
    <3>1. SoleWorker(i)'
      BY <1>16, FinalizeEffect, <2>1, <3>0 DEF Saved, Moved, PassInv, JobOK,
           HeldInv, HeldOK, Holds, Holding, KeyInv, WorkerKeyOK, RowKeyOK,
           TypeOK, SoleWorker, StatusOK, OutcomeOK, ProgressOK
    <3>2. StatusOK(i)'
      BY <1>16, FinalizeEffect, <2>1, <3>0 DEF Saved, Moved, PassInv, JobOK,
           HeldInv, HeldOK, Holds, Holding, KeyInv, WorkerKeyOK, RowKeyOK,
           TypeOK, SoleWorker, StatusOK, OutcomeOK, ProgressOK
    <3>3. OutcomeOK(i)'
      BY <1>16, FinalizeEffect, <2>1, <3>0 DEF Saved, Moved, PassInv, JobOK,
           HeldInv, HeldOK, Holds, Holding, KeyInv, WorkerKeyOK, RowKeyOK,
           TypeOK, SoleWorker, StatusOK, OutcomeOK, ProgressOK
    <3>4. ASSUME NEW v \in Workers PROVE ProgressOK(v, i)'
      BY <1>16, FinalizeEffect, <2>1, <3>0 DEF Saved, Moved, PassInv, JobOK,
           HeldInv, HeldOK, Holds, Holding, KeyInv, WorkerKeyOK, RowKeyOK,
           TypeOK, SoleWorker, StatusOK, OutcomeOK, ProgressOK
    <3> QED
      BY <3>1, <3>2, <3>3, <3>4 DEF JobOK
  <2> QED
    BY <2>1 DEF PassInv
<1>17. ASSUME NEW w \in Workers, PutFiles(w) PROVE PassInv'
  <2>1. ASSUME NEW i \in Jobs, i \notin disturbed' PROVE JobOK(i)'
    <3>0. i \in Jobs \ disturbed /\ JobOK(i)
      BY <1>17, PutFilesEffect, <2>1 DEF PutFiles, Moved, PassInv, TypeOK
    <3>1. SoleWorker(i)'
      BY <1>17, PutFilesEffect, <2>1, <3>0 DEF PutFiles, Moved, PassInv,
           JobOK, HeldInv, HeldOK, Holds, Holding, KeyInv, WorkerKeyOK,
           RowKeyOK, TypeOK, SoleWorker, StatusOK, OutcomeOK, ProgressOK
    <3>2. StatusOK(i)'
      BY <1>17, PutFilesEffect, <2>1, <3>0 DEF PutFiles, Moved, PassInv,
           JobOK, HeldInv, HeldOK, Holds, Holding, KeyInv, WorkerKeyOK,
           RowKeyOK, TypeOK, SoleWorker, StatusOK, OutcomeOK, ProgressOK
    <3>3. OutcomeOK(i)'
      BY <1>17, PutFilesEffect, <2>1, <3>0 DEF PutFiles, Moved, PassInv,
           JobOK, HeldInv, HeldOK, Holds, Holding, KeyInv, WorkerKeyOK,
           RowKeyOK, TypeOK, SoleWorker, StatusOK, OutcomeOK, ProgressOK
    <3>4. ASSUME NEW v \in Workers PROVE ProgressOK(v, i)'
      BY <1>17, PutFilesEffect, <2>1, <3>0 DEF PutFiles, Moved, PassInv,
           JobOK, HeldInv, HeldOK, Holds, Holding, KeyInv, WorkerKeyOK,
           RowKeyOK, TypeOK, SoleWorker, StatusOK, OutcomeOK, ProgressOK
    <3> QED
      BY <3>1, <3>2, <3>3, <3>4 DEF JobOK
  <2> QED
    BY <2>1 DEF PassInv
<1>18. ASSUME NEW w \in Workers, SetFileKeys(w) PROVE PassInv'
  <2>1. ASSUME NEW i \in Jobs, i \notin disturbed' PROVE JobOK(i)'
    <3>0. i \in Jobs \ disturbed /\ JobOK(i)
      BY <1>18, SetFileKeysEffect, <2>1 DEF Saved, Moved, PassInv, TypeOK
    <3>1. SoleWorker(i)'
      BY <1>18, SetFileKeysEffect, <2>1, <3>0 DEF Saved, Moved, PassInv,
           JobOK, HeldInv, HeldOK, Holds, Holding, KeyInv, WorkerKeyOK,
           RowKeyOK, TypeOK, SoleWorker, StatusOK, OutcomeOK, ProgressOK
    <3>2. StatusOK(i)'
      BY <1>18, SetFileKeysEffect, <2>1, <3>0 DEF Saved, Moved, PassInv,
           JobOK, HeldInv, HeldOK, Holds, Holding, KeyInv, WorkerKeyOK,
           RowKeyOK, TypeOK, SoleWorker, StatusOK, OutcomeOK, ProgressOK
    <3>3. OutcomeOK(i)'
      BY <1>18, SetFileKeysEffect, <2>1, <3>0 DEF Saved, Moved, PassInv,
           JobOK, HeldInv, HeldOK, Holds, Holding, KeyInv, WorkerKeyOK,
           RowKeyOK, TypeOK, SoleWorker, StatusOK, OutcomeOK, ProgressOK
    <3>4. ASSUME NEW v \in Workers PROVE ProgressOK(v, i)'
      BY <1>18, SetFileKeysEffect, <2>1, <3>0 DEF Saved, Moved, PassInv,
           JobOK, HeldInv, HeldOK, Holds, Holding, KeyInv, WorkerKeyOK,
           RowKeyOK, TypeOK, SoleWorker, StatusOK, OutcomeOK, ProgressOK
    <3> QED
      BY <3>1, <3>2, <3>3, <3>4 DEF JobOK
  <2> QED
    BY <2>1 DEF PassInv
<1>19. ASSUME NEW w \in Workers, Complete(w) PROVE PassInv'
  <2>1. ASSUME NEW i \in Jobs, i \notin disturbed' PROVE JobOK(i)'
    <3>0. i \in Jobs \ disturbed /\ JobOK(i)
      BY <1>19, CompleteEffect, <2>1 DEF Saved, Moved, PassInv, TypeOK
    <3>1. SoleWorker(i)'
      BY <1>19, CompleteEffect, <2>1, <3>0 DEF Saved, Moved, PassInv, JobOK,
           HeldInv, HeldOK, Holds, Holding, KeyInv, WorkerKeyOK, RowKeyOK,
           TypeOK, SoleWorker, StatusOK, OutcomeOK, ProgressOK
    <3>2. StatusOK(i)'
      BY <1>19, CompleteEffect, <2>1, <3>0 DEF Saved, Moved, PassInv, JobOK,
           HeldInv, HeldOK, Holds, Holding, KeyInv, WorkerKeyOK, RowKeyOK,
           TypeOK, SoleWorker, StatusOK, OutcomeOK, ProgressOK
    <3>3. OutcomeOK(i)'
      BY <1>19, CompleteEffect, <2>1, <3>0 DEF Saved, Moved, PassInv, JobOK,
           HeldInv, HeldOK, Holds, Holding, KeyInv, WorkerKeyOK, RowKeyOK,
           TypeOK, SoleWorker, StatusOK, OutcomeOK, ProgressOK
    <3>4. ASSUME NEW v \in Workers PROVE ProgressOK(v, i)'
      BY <1>19, CompleteEffect, <2>1, <3>0 DEF Saved, Moved, PassInv, JobOK,
           HeldInv, HeldOK, Holds, Holding, KeyInv, WorkerKeyOK, RowKeyOK,
           TypeOK, SoleWorker, StatusOK, OutcomeOK, ProgressOK
    <3> QED
      BY <3>1, <3>2, <3>3, <3>4 DEF JobOK
  <2> QED
    BY <2>1 DEF PassInv
<1>20. ASSUME NEW w \in Workers, Fail(w) PROVE PassInv'
  <2>1. ASSUME NEW i \in Jobs, i \notin disturbed' PROVE JobOK(i)'
    <3>0. i \in Jobs \ disturbed /\ JobOK(i)
      BY <1>20, FailEffect, <2>1 DEF Saved, Moved, PassInv, TypeOK
    <3>1. SoleWorker(i)'
      BY <1>20, FailEffect, <2>1, <3>0 DEF Saved, Moved, PassInv, JobOK,
           HeldInv, HeldOK, Holds, Holding, KeyInv, WorkerKeyOK, RowKeyOK,
           TypeOK, SoleWorker, StatusOK, OutcomeOK, ProgressOK
    <3>2. StatusOK(i)'
      BY <1>20, FailEffect, <2>1, <3>0 DEF Saved, Moved, PassInv, JobOK,
           HeldInv, HeldOK, Holds, Holding, KeyInv, WorkerKeyOK, RowKeyOK,
           TypeOK, SoleWorker, StatusOK, OutcomeOK, ProgressOK
    <3>3. OutcomeOK(i)'
      BY <1>20, FailEffect, <2>1, <3>0 DEF Saved, Moved, PassInv, JobOK,
           HeldInv, HeldOK, Holds, Holding, KeyInv, WorkerKeyOK, RowKeyOK,
           TypeOK, SoleWorker, StatusOK, OutcomeOK, ProgressOK
    <3>4. ASSUME NEW v \in Workers PROVE ProgressOK(v, i)'
      BY <1>20, FailEffect, <2>1, <3>0 DEF Saved, Moved, PassInv, JobOK,
           HeldInv, HeldOK, Holds, Holding, KeyInv, WorkerKeyOK, RowKeyOK,
           TypeOK, SoleWorker, StatusOK, OutcomeOK, ProgressOK
    <3> QED
      BY <3>1, <3>2, <3>3, <3>4 DEF JobOK
  <2> QED
    BY <2>1 DEF PassInv
<1>21. ASSUME NEW w \in Workers, Stop(w) PROVE PassInv'
  <2>1. ASSUME NEW i \in Jobs, i \notin disturbed' PROVE JobOK(i)'
    <3>0. i \in Jobs \ disturbed /\ JobOK(i)
      BY <1>21, StopEffect, <2>1 DEF Stop, Moved, PassInv, TypeOK
    <3>1. SoleWorker(i)'
      BY <1>21, StopEffect, <2>1, <3>0 DEF Stop, Moved, PassInv, JobOK,
           HeldInv, HeldOK, Holds, Holding, KeyInv, WorkerKeyOK, RowKeyOK,
           TypeOK, SoleWorker, StatusOK, OutcomeOK, ProgressOK
    <3>2. StatusOK(i)'
      BY <1>21, StopEffect, <2>1, <3>0 DEF Stop, Moved, PassInv, JobOK,
           HeldInv, HeldOK, Holds, Holding, KeyInv, WorkerKeyOK, RowKeyOK,
           TypeOK, SoleWorker, StatusOK, OutcomeOK, ProgressOK
    <3>3. OutcomeOK(i)'
      BY <1>21, StopEffect, <2>1, <3>0 DEF Stop, Moved, PassInv, JobOK,
           HeldInv, HeldOK, Holds, Holding, KeyInv, WorkerKeyOK, RowKeyOK,
           TypeOK, SoleWorker, StatusOK, OutcomeOK, ProgressOK
    <3>4. ASSUME NEW v \in Workers PROVE ProgressOK(v, i)'
      BY <1>21, StopEffect, <2>1, <3>0 DEF Stop, Moved, PassInv, JobOK,
           HeldInv, HeldOK, Holds, Holding, KeyInv, WorkerKeyOK, RowKeyOK,
           TypeOK, SoleWorker, StatusOK, OutcomeOK, ProgressOK
    <3> QED
      BY <3>1, <3>2, <3>3, <3>4 DEF JobOK
  <2> QED
    BY <2>1 DEF PassInv
<1>22. CASE UNCHANGED vars
  BY <1>22 DEF vars, PassInv, JobOK, SoleWorker, StatusOK, OutcomeOK,
       ProgressOK, Holds
<1> QED
  BY <1>1, <1>2, <1>3, <1>4, <1>5, <1>6, <1>7, <1>8, <1>9, <1>10, <1>11,
       <1>12, <1>13, <1>14, <1>15, <1>16, <1>17, <1>18, <1>19, <1>20, <1>21,
       <1>22 DEF Next, Pass

-----------------------------------------------------------------------------
LEMMA InitIInv == Init => IInv
  BY ConstantsAssumption
  DEF Init, IInv, TypeOK, BatchJob, Statuses, NoRow, Passes, Idle, Seeking,
      Holding, KeyInv, WorkerKeyOK, RowKeyOK, HeldInv, HeldOK, Holds, PassInv,
      JobOK, SoleWorker, StatusOK, OutcomeOK, ProgressOK

LEMMA NextIInv == IInv /\ [Next]_vars => IInv'
  BY TypeStep, KeyInvStep, HeldInvStep, PassInvStep DEF IInv

LEMMA Inductive == Spec => []IInv
  BY InitIInv, NextIInv, PTL DEF Spec

\* The variables of services/batch keep their types.
THEOREM TypeCorrect == Spec => []TypeOK
  <1>1. IInv => TypeOK
    BY DEF IInv
  <1> QED
    BY <1>1, Inductive, PTL

\* However many replicas run a worker and whatever is cancelled, created or
\* lost meanwhile, a job that no second worker took and no fault touched is
\* counted once, and completed with its counters and its result.
THEOREM ProcessedOnce == Spec => []CountedExactlyOnce
  <1>1. IInv => CountedExactlyOnce
    BY DEF IInv, PassInv, JobOK, OutcomeOK, CountedExactlyOnce
  <1> QED
    BY <1>1, Inductive, PTL

\* UpdateBatchJob's zeroes never overwrite progress: who can count a job has
\* read the key that only UpdateBatchJob writes.
THEOREM CountersNeverDrop == Spec => CountersSurvive
  <1>1. ASSUME IInv, [Next]_vars PROVE ProgressKept
    <2>0. TypeOK /\ KeyInv
      BY <1>1 DEF IInv
    <2>1. ASSUME NEW j \in Jobs, UpdateBatchJob(j) PROVE ProgressKept
      BY <2>0, <2>1, UpdateBatchJobEffect
      DEF Saved, ProgressKept, KeyInv, RowKeyOK, TypeOK, BatchJob
    <2>2. ASSUME NEW j \in Jobs, InsertBatchJob(j) PROVE ProgressKept
      BY <2>0, <2>2
      DEF InsertBatchJob, NewRow, NoRow, ProgressKept, KeyInv, RowKeyOK,
          TypeOK, BatchJob
    <2>3. ASSUME NEW j \in Jobs, SetCancelled(j) PROVE ProgressKept
      BY <2>0, <2>3, SetCancelledEffect DEF Saved, ProgressKept, TypeOK,
           BatchJob
    <2>4. ASSUME NEW j \in Jobs, MarkFilesExpired(j) PROVE ProgressKept
      BY <2>0, <2>4, MarkFilesExpiredEffect
      DEF Saved, ProgressKept, TypeOK, BatchJob
    <2>5. ASSUME NEW j \in Jobs, Age(j) PROVE ProgressKept
      <3>1. [row[j] EXCEPT !.expiry = "due"].counted = row[j].counted
        BY <2>0 DEF TypeOK, BatchJob
      <3>2. row' = [row EXCEPT ![j] = [row[j] EXCEPT !.expiry = "due"]]
        BY <2>0, <2>5 DEF Age, TypeOK
      <3>3. \A i \in Jobs : row'[i].counted = row[i].counted
        BY <2>0, <3>1, <3>2 DEF TypeOK
      <3> QED
        BY <2>0, <3>3 DEF ProgressKept, TypeOK, BatchJob
    <2>6. ASSUME NEW w \in Workers, Claim(w) PROVE ProgressKept
      <3>1. \A i \in Jobs : row'[i].counted = row[i].counted
        BY <2>0, <2>6, ClaimEffect
      <3>2. \A i \in Jobs : row[i].counted \in Nat
        BY <2>0 DEF TypeOK, BatchJob
      <3> QED
        BY <3>1, <3>2 DEF ProgressKept
    <2>7. ASSUME NEW w \in Workers,
                 Count(w) \/ Finalize(w) \/ SetFileKeys(w) \/ Complete(w)
                     \/ Fail(w)
          PROVE  ProgressKept
      <3> DEFINE Kept == \A i \in Jobs : row'[i].counted >= row[i].counted
      <3>1. \A i \in Jobs : row[i].counted \in Nat
        BY <2>0 DEF TypeOK, BatchJob
      <3>2. Count(w) => Kept
        BY <2>0, <3>1, CountEffect DEF Saved
      <3>3. Finalize(w) => Kept
        BY <2>0, <3>1, FinalizeEffect DEF Saved
      <3>4. SetFileKeys(w) => Kept
        BY <2>0, <3>1, SetFileKeysEffect DEF Saved
      <3>5. Complete(w) => Kept
        BY <2>0, <3>1, CompleteEffect DEF Saved, Moved
      <3>6. Fail(w) => Kept
        BY <2>0, <3>1, FailEffect DEF Saved, Moved
      <3> QED
        BY <2>7, <3>2, <3>3, <3>4, <3>5, <3>6 DEF ProgressKept
    <2>8. CASE UNCHANGED row
      BY <2>0, <2>8 DEF ProgressKept, TypeOK, BatchJob
    <2>9. [Next]_vars =>
              \/ UNCHANGED row
              \/ \E j \in Jobs :
                    \/ UpdateBatchJob(j) \/ InsertBatchJob(j) \/ SetCancelled(j)
                    \/ MarkFilesExpired(j) \/ Age(j)
              \/ \E w \in Workers :
                    \/ Claim(w) \/ Count(w) \/ Finalize(w) \/ SetFileKeys(w)
                    \/ Complete(w) \/ Fail(w)
      BY DEF Next, Pass, vars, PutInput, CreateFails, FindToCancel, DeleteFiles,
             ReadValidating, NextInProgressJob, SeekFails, Fetch, PutFiles, Stop
    <2> QED
      BY <1>1, <2>1, <2>2, <2>3, <2>4, <2>5, <2>6, <2>7, <2>8, <2>9
  <1> QED
    BY <1>1, Inductive, PTL DEF Spec, CountersSurvive

\* What was settled between a worker's read and its claim stays settled.
THEOREM SettledLeftAlone == Spec => SettledNotTaken
  <1>1. ASSUME IInv, [Next]_vars PROVE TakenUnsettled
    <2>0. TypeOK
      BY <1>1 DEF IInv
    <2> SUFFICES ASSUME NEW w \in Workers, worker'[w].pc = "fetch",
                        worker[w].pc # "fetch"
                 PROVE  row[worker'[w].job].status \in
                            {"validating", "in_progress"}
      BY DEF TakenUnsettled
    <2>1. CASE UNCHANGED worker
      BY <2>1
    <2>2. ASSUME NEW v \in Workers, Pass(v) \/ Stop(v)
          PROVE  v = w /\ (Claim(w) \/ NextInProgressJob(w))
      <3>1. ReadValidating(v) => v # w \/ worker'[w].pc # "fetch"
        BY <2>0, ReadValidatingEffect DEF Moved
      <3>2. SeekFails(v) \/ Stop(v) => v # w \/ worker'[w].pc # "fetch"
        BY <2>0, SeekFailsEffect, StopEffect DEF Moved
      <3>3. Fetch(v) \/ PutFiles(v) => v # w \/ worker'[w].pc # "fetch"
        BY <2>0, FetchEffect, PutFilesEffect DEF Moved
      <3>4. Count(v) \/ Finalize(v) \/ SetFileKeys(v) \/ Complete(v) \/ Fail(v)
                => v # w \/ worker'[w].pc # "fetch"
        BY <2>0, CountEffect, FinalizeEffect, SetFileKeysEffect,
           CompleteEffect, FailEffect DEF Moved
      <3>5. Claim(v) \/ NextInProgressJob(v) \/ ReadValidating(v)
                => v = w \/ worker'[w] = worker[w]
        BY <2>0, ReadValidatingEffect, ClaimEffect, NextInProgressJobEffect
        DEF Moved, Took
      <3>6. SeekFails(v) \/ Stop(v) \/ Fetch(v) \/ PutFiles(v)
                => v = w \/ worker'[w] = worker[w]
        BY <2>0, SeekFailsEffect, StopEffect, FetchEffect, PutFilesEffect
        DEF Moved
      <3>7. Count(v) \/ Finalize(v) \/ SetFileKeys(v) \/ Complete(v) \/ Fail(v)
                => v = w \/ worker'[w] = worker[w]
        BY <2>0, CountEffect, FinalizeEffect, SetFileKeysEffect,
           CompleteEffect, FailEffect DEF Moved
      <3>8. v = w
        BY <2>2, <3>5, <3>6, <3>7 DEF Pass
      <3> QED
        BY <2>2, <3>1, <3>2, <3>3, <3>4, <3>8 DEF Pass
    <2>3. CASE Claim(w)
      BY <2>0, <2>3, ClaimEffect DEF Took, Moved
    <2>4. CASE NextInProgressJob(w)
      BY <2>0, <2>4, NextInProgressJobEffect DEF Took, Moved
    <2> QED
      BY <1>1, <2>1, <2>2, <2>3, <2>4
      DEF Next, vars, InsertBatchJob, PutInput, UpdateBatchJob, CreateFails,
          FindToCancel, SetCancelled, Age, DeleteFiles, MarkFilesExpired
  <1> QED
    BY <1>1, Inductive, PTL DEF Spec, SettledNotTaken

-----------------------------------------------------------------------------
(* The outcome of a job at rest. *)

\* Only the create call, a cancel call or the job's worker writes the outcome.
LEMMA OutcomeRow ==
    ASSUME TypeOK, [Next]_vars, NEW j \in Jobs, row[j].status \in Settled,
           AtRest(j)
    PROVE  /\ row'[j].status = row[j].status
           /\ row'[j].counted = row[j].counted
           /\ row'[j].result <=> row[j].result
  <1> DEFINE Same == /\ row'[j].status = row[j].status
                     /\ row'[j].counted = row[j].counted
                     /\ row'[j].result <=> row[j].result
  <1>0. CASE row'[j] = row[j]
    BY <1>0
  <1>1. ASSUME NEW i \in Jobs, InsertBatchJob(i) PROVE row'[j] = row[j]
    BY <1>1 DEF InsertBatchJob, AtRest, TypeOK
  <1>2. ASSUME NEW i \in Jobs, UpdateBatchJob(i) PROVE row'[j] = row[j]
    BY <1>2, UpdateBatchJobEffect DEF AtRest, Saved
  <1>3. ASSUME NEW i \in Jobs, SetCancelled(i) PROVE row'[j] = row[j]
    BY <1>3, SetCancelledEffect DEF AtRest, Saved
  <1>4. ASSUME NEW i \in Jobs, MarkFilesExpired(i) PROVE Same
    <2>1. CASE i = j
      BY <1>4, <2>1, MarkFilesExpiredEffect DEF Saved
    <2>2. CASE i # j
      BY <1>0, <1>4, <2>2, MarkFilesExpiredEffect DEF Saved
    <2> QED
      BY <2>1, <2>2
  <1>5. ASSUME NEW i \in Jobs, Age(i) PROVE Same
    <2>1. row' = [row EXCEPT ![i] = [row[i] EXCEPT !.expiry = "due"]]
      BY <1>5 DEF Age, TypeOK
    <2>2. row[i] \in BatchJob
      BY DEF TypeOK
    <2> QED
      BY <2>1, <2>2 DEF TypeOK, BatchJob
  <1>6. ASSUME NEW w \in Workers, Claim(w) PROVE row'[j] = row[j]
    BY <1>6, ClaimEffect DEF Settled
  <1>7. ASSUME NEW w \in Workers,
               Count(w) \/ Finalize(w) \/ SetFileKeys(w) \/ Complete(w)
                   \/ Fail(w)
        PROVE  row'[j] = row[j]
    <2>1. worker[w].job # j
      BY <1>7 DEF AtRest, Holds, Holding, Count, Finalize, SetFileKeys,
                  Complete, Fail
    <2>2. Count(w) \/ Finalize(w) => row'[j] = row[j]
      BY <2>1, CountEffect, FinalizeEffect DEF Saved
    <2>3. SetFileKeys(w) => row'[j] = row[j]
      BY <2>1, SetFileKeysEffect DEF Saved
    <2>4. Complete(w) \/ Fail(w) => row'[j] = row[j]
      BY <2>1, CompleteEffect, FailEffect DEF Saved
    <2> QED
      BY <1>7, <2>2, <2>3, <2>4
  <1>8. CASE UNCHANGED row
    BY <1>8
  <1> QED
    BY <1>0, <1>1, <1>2, <1>3, <1>4, <1>5, <1>6, <1>7, <1>8
    DEF Next, Pass, vars, PutInput, CreateFails, FindToCancel, DeleteFiles,
        ReadValidating, NextInProgressJob, SeekFails, Fetch, PutFiles, Stop

\* No worker takes a settled job, so none gets hold of it.
LEMMA SettledNotHeld ==
    ASSUME TypeOK, [Next]_vars, NEW j \in Jobs, row[j].status \in Settled,
           NEW w \in Workers, Holds(w, j)'
    PROVE  Holds(w, j)
  <1>0. CASE worker'[w] = worker[w]
    BY <1>0 DEF Holds
  <1>1. worker'[w].job = j /\ worker'[w].pc \in Holding
    BY DEF Holds
  <1>2. j # NoJob
    BY ConstantsAssumption
  <1>3. ASSUME NEW v \in Workers, Pass(v) \/ Stop(v), v # w
        PROVE  worker'[w] = worker[w]
    <2>1. ReadValidating(v) \/ Claim(v) \/ NextInProgressJob(v) \/ SeekFails(v)
              => worker'[w] = worker[w]
      BY <1>3, ReadValidatingEffect, ClaimEffect, NextInProgressJobEffect,
         SeekFailsEffect DEF Moved, Took
    <2>2. Fetch(v) \/ PutFiles(v) \/ Stop(v) => worker'[w] = worker[w]
      BY <1>3, FetchEffect, PutFilesEffect, StopEffect DEF Moved
    <2>3. Count(v) \/ Finalize(v) \/ SetFileKeys(v) \/ Complete(v) \/ Fail(v)
              => worker'[w] = worker[w]
      BY <1>3, CountEffect, FinalizeEffect, SetFileKeysEffect, CompleteEffect,
         FailEffect DEF Moved
    <2> QED
      BY <1>3, <2>1, <2>2, <2>3 DEF Pass
  <1>4. ASSUME Pass(w) \/ Stop(w) PROVE Holds(w, j)
    <2>1. ~ReadValidating(w)
      BY <1>1, <1>2, ReadValidatingEffect DEF Moved, Holding
    <2>2. ~Claim(w) /\ ~NextInProgressJob(w)
      BY <1>1, <1>2, ClaimEffect, NextInProgressJobEffect
      DEF Moved, Took, Settled
    <2>3. ~SeekFails(w) /\ ~Stop(w) /\ ~Complete(w) /\ ~Fail(w)
      BY <1>1, <1>2, SeekFailsEffect, StopEffect, CompleteEffect, FailEffect
      DEF Moved
    <2>4. Fetch(w) \/ PutFiles(w) => Holds(w, j)
      BY <1>1, FetchEffect, PutFilesEffect
      DEF Moved, Holds, Holding, Fetch, PutFiles
    <2>5. Count(w) \/ Finalize(w) \/ SetFileKeys(w) => Holds(w, j)
      BY <1>1, CountEffect, FinalizeEffect, SetFileKeysEffect
      DEF Moved, Holds, Holding, Count, Finalize, SetFileKeys
    <2> QED
      BY <1>4, <2>1, <2>2, <2>3, <2>4, <2>5 DEF Pass
  <1>5. CASE UNCHANGED worker
    BY <1>0, <1>5
  <1> QED
    BY <1>0, <1>3, <1>4, <1>5
    DEF Next, vars, InsertBatchJob, PutInput, UpdateBatchJob, CreateFails,
        FindToCancel, SetCancelled, Age, DeleteFiles, MarkFilesExpired

\* Nobody gets to work on a settled job at rest.
LEMMA RestStays ==
    ASSUME TypeOK, [Next]_vars, NEW j \in Jobs, row[j].status \in Settled,
           AtRest(j)
    PROVE  AtRest(j)'
  <1>1. \A w \in Workers : ~Holds(w, j)'
    BY SettledNotHeld DEF AtRest
  <1>2. creator'[j] = "done"
    <2>1. CASE UNCHANGED creator
      BY <2>1 DEF AtRest
    <2>2. ASSUME NEW i \in Jobs,
                 InsertBatchJob(i) \/ PutInput(i) \/ UpdateBatchJob(i)
                     \/ CreateFails(i)
          PROVE  creator'[j] = "done"
      BY <2>2 DEF AtRest, TypeOK, InsertBatchJob, PutInput, UpdateBatchJob,
                  CreateFails
    <2> QED
      BY <2>1, <2>2
      DEF Next, Pass, vars, FindToCancel, SetCancelled, Age, DeleteFiles,
          MarkFilesExpired, ReadValidating, Claim, NextInProgressJob, SeekFails,
          Fetch, Count, Finalize, PutFiles, SetFileKeys, Complete, Fail, Stop
  <1>3. j \notin cancelling'
    <2>1. CASE cancelling' \subseteq cancelling
      BY <2>1 DEF AtRest
    <2>2. ASSUME NEW i \in Jobs, FindToCancel(i) PROVE j \notin cancelling'
      BY <2>2 DEF FindToCancel, Cancellable, Settled, AtRest
    <2> QED
      BY <2>1, <2>2
      DEF Next, Pass, vars, InsertBatchJob, PutInput, UpdateBatchJob,
          CreateFails, SetCancelled, Age, DeleteFiles,
          MarkFilesExpired, ReadValidating, Claim, NextInProgressJob, SeekFails,
          Fetch, Count, Finalize, PutFiles, SetFileKeys, Complete, Fail, Stop
  <1> QED
    BY <1>1, <1>2, <1>3 DEF AtRest

\* No worker gets hold of a settled job, and one at rest keeps its outcome,
\* whatever replicas, cancellations, faults and retention do beside it.
THEOREM OutcomesFinal == Spec => OutcomeIsFinal
  <1>1. IInv /\ [Next]_vars => OutcomeKept
    BY OutcomeRow, SettledNotHeld, RestStays DEF IInv, OutcomeKept
  <1> QED
    BY <1>1, Inductive, PTL DEF Spec, OutcomeIsFinal
=============================================================================
