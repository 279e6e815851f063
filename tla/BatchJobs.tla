----------------------------- MODULE BatchJobs -----------------------------
(* The batch service (services/batch).  CreateBatchJob inserts a row,      *)
(* stores the input file and then writes the whole row again; each server  *)
(* replica runs a worker that promotes the oldest validating job, or takes *)
(* any job in progress, processes it and records the outcome; a            *)
(* cancellation reads a row and then writes its status; the retention      *)
(* runner deletes the files of old jobs.  They share the batch_jobs rows   *)
(* and the file store, and every write but the promotion is unconditional. *)
(*                                                                         *)
(* The requests of a job are processed as a whole: a pass over them adds   *)
(* one to "counted", which stands for the six progress counters.           *)
EXTENDS Integers

CONSTANTS
    Jobs,       \* the create calls, numbered by the created_at they choose
    Workers,    \* server replicas
    NoJob,
    MaxCancels, \* bound on the cancel calls
    MaxFaults   \* bound on failed writes, reads and crashes

ASSUME ConstantsAssumption ==
    /\ Jobs \subseteq Nat /\ NoJob \notin Jobs
    /\ MaxCancels \in Nat /\ MaxFaults \in Nat

VARIABLES
    row,        \* batch_jobs
    input,      \* the jobs whose input file is stored
    results,    \* the jobs whose result and error files are stored
    creator,    \* where each CreateBatchJob call is
    worker,     \* what each worker does, for which job
    cancelling, \* the jobs a cancel call found cancellable
    cancels,
    sweep,      \* the job whose files a retention pass just deleted
    faults,
    disturbed   \* history: jobs lost by a worker, or taken from one

vars == <<row, input, results, creator, worker, cancelling, cancels, sweep,
          faults, disturbed>>

-----------------------------------------------------------------------------
Settled == {"completed", "failed", "cancelled"}

Statuses == {"none", "validating", "in_progress", "finalizing"} \cup Settled

\* expiry: files_expire_at is null, in the future, or long past.
BatchJob == [status : Statuses, key : BOOLEAN, result : BOOLEAN,
             counted : Nat, expiry : {"none", "set", "due"},
             expired : BOOLEAN]

NoRow == [status |-> "none", key |-> FALSE, result |-> FALSE, counted |-> 0,
          expiry |-> "none", expired |-> FALSE]

\* What InsertBatchJob inserts: the key of the input file is not known yet.
NewRow == [NoRow EXCEPT !.status = "validating"]

\* key is that of the row as the worker read it.
Idle == [pc |-> "idle", job |-> NoJob, key |-> FALSE]

\* The steps of RunOnce before and after the worker has taken a job.
Seeking == {"claim", "next"}
Holding == {"fetch", "count", "finalize", "store", "keys", "complete",
            "fail"}

Passes == [pc : {"idle"} \cup Seeking \cup Holding, job : Jobs \cup {NoJob},
           key : BOOLEAN]

Holds(w, j) == worker[w].job = j /\ worker[w].pc \in Holding

Oldest(S) == {j \in S : \A k \in S : j <= k}

WithStatus(s) == {j \in Jobs : row[j].status = s}

Init ==
    /\ row = [j \in Jobs |-> NoRow]
    /\ input = {} /\ results = {}
    /\ creator = [j \in Jobs |-> "idle"]
    /\ worker = [w \in Workers |-> Idle]
    /\ cancelling = {} /\ cancels = 0
    /\ sweep = NoJob
    /\ faults = 0 /\ disturbed = {}

Fault == faults < MaxFaults /\ faults' = faults + 1

\* An update of j's row whose error is ignored.
Save(j, new) ==
    \/ row' = [row EXCEPT ![j] = new] /\ UNCHANGED <<faults, disturbed>>
    \/ Fault /\ disturbed' = disturbed \cup {j} /\ UNCHANGED row

Moves(w, pc) == worker' = [worker EXCEPT ![w].pc = pc]
Rests(w) == worker' = [worker EXCEPT ![w] = Idle]

-----------------------------------------------------------------------------
(* CreateBatchJob. *)

\* Mutant of InsertBatchJob: the key, known beforehand, is inserted.
InsertBatchJobWithKey(j) ==
    /\ creator[j] = "idle"
    /\ row' = [row EXCEPT ![j] = [NewRow EXCEPT !.key = TRUE]]
    /\ creator' = [creator EXCEPT ![j] = "put"]
    /\ UNCHANGED <<input, results, worker, cancelling, cancels, sweep, faults,
                   disturbed>>

InsertBatchJob(j) ==
    /\ creator[j] = "idle"
    /\ row' = [row EXCEPT ![j] = NewRow]
    /\ creator' = [creator EXCEPT ![j] = "put"]
    /\ UNCHANGED <<input, results, worker, cancelling, cancels, sweep, faults,
                   disturbed>>

PutInput(j) ==
    /\ creator[j] = "put"
    /\ input' = input \cup {j}
    /\ creator' = [creator EXCEPT ![j] = "update"]
    /\ UNCHANGED <<row, results, worker, cancelling, cancels, sweep, faults,
                   disturbed>>

\* The whole row as the call built it, whatever has become of it.
UpdateBatchJob(j) ==
    /\ creator[j] = "update"
    /\ Save(j, [NewRow EXCEPT !.key = TRUE])
    /\ creator' = [creator EXCEPT ![j] = "done"]
    /\ UNCHANGED <<input, results, worker, cancelling, cancels, sweep>>

\* PutInput fails, or the replica stops.
CreateFails(j) ==
    /\ creator[j] \in {"put", "update"}
    /\ Fault
    /\ creator' = [creator EXCEPT ![j] = "done"]
    /\ UNCHANGED <<row, input, results, worker, cancelling, cancels, sweep,
                   disturbed>>

-----------------------------------------------------------------------------
(* BatchWorker.RunOnce. *)

\* PromoteValidatingJob reads the oldest validating row ...
ReadValidating(w) ==
    /\ worker[w].pc = "idle"
    /\ LET waiting == WithStatus("validating")
       IN  IF waiting = {}
           THEN Moves(w, "next")
           ELSE \E j \in Oldest(waiting) :
                    worker' = [worker EXCEPT ![w] =
                        [pc |-> "claim", job |-> j, key |-> row[j].key]]
    /\ UNCHANGED <<row, input, results, creator, cancelling, cancels, sweep,
                   faults, disturbed>>

\* Worker w starts to process job j, as a row with this key.
Takes(w, j, key) ==
    /\ worker' = [worker EXCEPT ![w] = [pc |-> "fetch", job |-> j, key |-> key]]
    /\ disturbed' = IF \E v \in Workers : Holds(v, j)
                    THEN disturbed \cup {j} ELSE disturbed

\* Mutant of Claim: the update does not ask for the status it read.
ClaimAnyStatus(w) ==
    /\ worker[w].pc = "claim"
    /\ LET j == worker[w].job
       IN  row' = [row EXCEPT ![j].status = "in_progress"]
               /\ Takes(w, j, worker[w].key)
    /\ UNCHANGED <<input, results, creator, cancelling, cancels, sweep, faults>>

\* ... and claims it with an update on the condition that it still is.
Claim(w) ==
    /\ worker[w].pc = "claim"
    /\ LET j == worker[w].job
       IN  IF row[j].status = "validating"
           THEN /\ row' = [row EXCEPT ![j].status = "in_progress"]
                /\ Takes(w, j, worker[w].key)
           ELSE /\ worker' = [worker EXCEPT ![w] = [Idle EXCEPT !.pc = "next"]]
                /\ UNCHANGED <<row, disturbed>>
    /\ UNCHANGED <<input, results, creator, cancelling, cancels, sweep, faults>>

\* Mutant of NextInProgressJob: a worker keeps to what it promoted.
NoNextJob(w) ==
    /\ worker[w].pc = "next"
    /\ Rests(w)
    /\ UNCHANGED <<row, input, results, creator, cancelling, cancels, sweep,
                   faults, disturbed>>

\* Mutant of NextInProgressJob: RunOnce processes the job that is not there.
NextUnchecked(w) ==
    /\ worker[w].pc = "next"
    /\ LET running == WithStatus("in_progress")
       IN  IF running = {}
           THEN Moves(w, "fetch") /\ UNCHANGED disturbed
           ELSE \E j \in Oldest(running) : Takes(w, j, row[j].key)
    /\ UNCHANGED <<row, input, results, creator, cancelling, cancels, sweep,
                   faults>>

\* Nothing was claimed: NextInProgressJob, whoever is at work on it.
NextInProgressJob(w) ==
    /\ worker[w].pc = "next"
    /\ LET running == WithStatus("in_progress")
       IN  IF running = {}
           THEN Rests(w) /\ UNCHANGED disturbed
           ELSE \E j \in Oldest(running) : Takes(w, j, row[j].key)
    /\ UNCHANGED <<row, input, results, creator, cancelling, cancels, sweep,
                   faults>>

\* The statement of a seeking worker fails: the promotion falls through to
\* NextInProgressJob, whose failure ends the pass.
SeekFails(w) ==
    /\ worker[w].pc \in Seeking
    /\ Fault
    /\ IF worker[w].pc = "claim"
       THEN worker' = [worker EXCEPT ![w] = [Idle EXCEPT !.pc = "next"]]
       ELSE Rests(w)
    /\ UNCHANGED <<row, input, results, creator, cancelling, cancels, sweep,
                   disturbed>>

-----------------------------------------------------------------------------
(* BatchWorker.processJob. *)

\* The empty key names the store's directory: reading it is an error.
Fetch(w) ==
    /\ worker[w].pc = "fetch"
    /\ \/ /\ Moves(w, IF worker[w].key /\ worker[w].job \in input
                      THEN "count" ELSE "fail")
          /\ UNCHANGED <<faults, disturbed>>
       \/ Fault /\ Moves(w, "fail")
          /\ disturbed' = disturbed \cup {worker[w].job}
    /\ UNCHANGED <<row, input, results, creator, cancelling, cancels, sweep>>

\* The requests have run; IncrementCounters adds what they came to.
Count(w) ==
    /\ worker[w].pc = "count"
    /\ LET j == worker[w].job
       IN  Save(j, [row[j] EXCEPT !.counted = @ + 1])
    /\ Moves(w, "finalize")
    /\ UNCHANGED <<input, results, creator, cancelling, cancels, sweep>>

Finalize(w) ==
    /\ worker[w].pc = "finalize"
    /\ LET j == worker[w].job
       IN  Save(j, [row[j] EXCEPT !.status = "finalizing"])
    /\ Moves(w, "store")
    /\ UNCHANGED <<input, results, creator, cancelling, cancels, sweep>>

\* PutResult and PutError: both or an error.
PutFiles(w) ==
    /\ worker[w].pc = "store"
    /\ \/ /\ results' = results \cup {worker[w].job}
          /\ Moves(w, "keys")
          /\ UNCHANGED <<faults, disturbed>>
       \/ /\ Fault /\ Moves(w, "fail")
          /\ disturbed' = disturbed \cup {worker[w].job}
          /\ UNCHANGED results
    /\ UNCHANGED <<row, input, creator, cancelling, cancels, sweep>>

SetFileKeys(w) ==
    /\ worker[w].pc = "keys"
    /\ LET j == worker[w].job
       IN  Save(j, [row[j] EXCEPT !.result = TRUE])
    /\ Moves(w, "complete")
    /\ UNCHANGED <<input, results, creator, cancelling, cancels, sweep>>

Complete(w) ==
    /\ worker[w].pc = "complete"
    /\ LET j == worker[w].job
       IN  Save(j, [row[j] EXCEPT !.status = "completed", !.expiry = "set"])
    /\ Rests(w)
    /\ UNCHANGED <<input, results, creator, cancelling, cancels, sweep>>

\* SetStatus(failed), of an unreadable input or of files not stored; the
\* SetError that may follow only words it.
Fail(w) ==
    /\ worker[w].pc = "fail"
    /\ LET j == worker[w].job
       IN  Save(j, [row[j] EXCEPT !.status = "failed"])
    /\ Rests(w)
    /\ UNCHANGED <<input, results, creator, cancelling, cancels, sweep>>

\* The replica stops and comes back: nothing remembers its job.
Stop(w) ==
    /\ worker[w] # Idle
    /\ Fault
    /\ disturbed' = disturbed \cup {j \in Jobs : Holds(w, j)}
    /\ Rests(w)
    /\ UNCHANGED <<row, input, results, creator, cancelling, cancels, sweep>>

-----------------------------------------------------------------------------
(* CancelBatchJob and AdminCancelBatchJob: a read, then an update. *)

Cancellable(status) == status \in {"validating", "in_progress"}

FindToCancel(j) ==
    /\ cancels < MaxCancels /\ j \notin cancelling
    /\ Cancellable(row[j].status)
    /\ cancelling' = cancelling \cup {j}
    /\ cancels' = cancels + 1
    /\ UNCHANGED <<row, input, results, creator, worker, sweep, faults,
                   disturbed>>

SetCancelled(j) ==
    /\ j \in cancelling
    /\ Save(j, [row[j] EXCEPT !.status = "cancelled"])
    /\ cancelling' = cancelling \ {j}
    /\ UNCHANGED <<input, results, creator, worker, cancels, sweep>>

-----------------------------------------------------------------------------
(* BatchRetentionRunner.RetainOnce. *)

\* The files' term and the further one the runner grants have passed: weeks,
\* in which the calls and the passes over the job have ended.
Age(j) ==
    /\ row[j].expiry = "set"
    /\ \A w \in Workers : worker[w].job # j
    /\ j \notin cancelling
    /\ row' = [row EXCEPT ![j].expiry = "due"]
    /\ UNCHANGED <<input, results, creator, worker, cancelling, cancels, sweep,
                   faults, disturbed>>

Expirable(j) == row[j].status = "completed" /\ ~row[j].expired
                    /\ row[j].expiry = "due"

\* A row of FindExpiredFiles: its files go first, the mark follows.
DeleteFiles(j) ==
    /\ sweep = NoJob
    /\ Expirable(j)
    /\ results' = results \ {j}
    /\ sweep' = j
    /\ UNCHANGED <<row, input, creator, worker, cancelling, cancels, faults,
                   disturbed>>

MarkFilesExpired(j) ==
    /\ sweep = j
    /\ Save(j, [row[j] EXCEPT !.expired = TRUE])
    /\ sweep' = NoJob
    /\ UNCHANGED <<input, results, creator, worker, cancelling, cancels>>

-----------------------------------------------------------------------------
Pass(w) ==
    \/ ReadValidating(w) \/ Claim(w) \/ NextInProgressJob(w) \/ SeekFails(w)
    \/ Fetch(w) \/ Count(w) \/ Finalize(w) \/ PutFiles(w) \/ SetFileKeys(w)
    \/ Complete(w) \/ Fail(w)

Next ==
    \/ \E j \in Jobs :
        \/ InsertBatchJob(j) \/ PutInput(j) \/ UpdateBatchJob(j)
        \/ CreateFails(j)
        \/ FindToCancel(j) \/ SetCancelled(j)
        \/ Age(j) \/ DeleteFiles(j) \/ MarkFilesExpired(j)
    \/ \E w \in Workers : Pass(w) \/ Stop(w)

\* Run calls RunOnce on every tick, in a process Kubernetes restarts.  No
\* client call has to end.
Fairness == \A w \in Workers : WF_vars(Pass(w))

Spec == Init /\ [][Next]_vars /\ Fairness

-----------------------------------------------------------------------------
TypeOK ==
    /\ row \in [Jobs -> BatchJob]
    /\ input \subseteq Jobs /\ results \subseteq Jobs
    /\ creator \in [Jobs -> {"idle", "put", "update", "done"}]
    /\ worker \in [Workers -> Passes]
    /\ \A w \in Workers :
        worker[w].job = NoJob <=> worker[w].pc \in {"idle", "next"}
    /\ cancelling \subseteq Jobs /\ cancels \in 0 .. MaxCancels
    /\ sweep \in Jobs \cup {NoJob}
    /\ faults \in 0 .. MaxFaults /\ disturbed \subseteq Jobs

\* PromoteValidatingJob's conditional update is there so that a job is
\* processed once.  It is, unless a second worker took the job from under the
\* first (NextInProgressJob does not ask) or a write or a worker was lost:
\* its counters hold one pass, and a completed job shows its counters and
\* its result until retention deletes the files.  Cancellations and the
\* create call's rewrite of the row, at any point, do not change that.
CountedExactlyOnce ==
    \A j \in Jobs \ disturbed :
        /\ row[j].counted <= 1
        /\ row[j].status = "completed" =>
            /\ row[j].counted = 1 /\ row[j].result
            /\ j \in results \/ row[j].expired \/ sweep = j

\* UpdateBatchJob writes zero counters over whatever the row has, while
\* workers may already have promoted the job.  No progress is ever lost to
\* it, because a worker that read the row before it has no input to count.
ProgressKept ==
    \A j \in Jobs : row'[j].counted >= row[j].counted

CountersSurvive == [][ProgressKept]_vars

\* Nobody has work on the job in hand: its create call is over, no cancel call
\* has yet to write, no worker has it.
AtRest(j) ==
    /\ creator[j] = "done" /\ j \notin cancelling
    /\ \A w \in Workers : ~Holds(w, j)

\* The writes do not ask for a status, so a settled row may still be written:
\* a cancelled one is completed by the worker that has it.  But no worker,
\* whatever it read before or finds later, gets hold of a settled job, and once
\* the job is at rest its outcome is final: status, counters and result stay.
OutcomeKept ==
    \A j \in Jobs : row[j].status \in Settled =>
        /\ \A w \in Workers : Holds(w, j)' => Holds(w, j)
        /\ AtRest(j) => /\ row'[j].status = row[j].status
                        /\ row'[j].counted = row[j].counted
                        /\ row'[j].result <=> row[j].result
                        /\ AtRest(j)'

OutcomeIsFinal == [][OutcomeKept]_vars

\* A worker acts on a row it read earlier.  It starts to process a job only
\* while the row says that it is to be processed: what was completed, failed
\* or cancelled between the read and the claim is left alone.
TakenUnsettled ==
    \A w \in Workers :
        worker'[w].pc = "fetch" /\ worker[w].pc # "fetch"
            => row[worker'[w].job].status \in {"validating", "in_progress"}

SettledNotTaken == [][TakenUnsettled]_vars

\* Nothing picks up a job in finalizing but the worker that put it there.
Stranded(j) ==
    row[j].status = "finalizing" /\ \A w \in Workers : worker[w].job # j

\* Every job that was inserted ends, with an outcome or, when a worker or its
\* last write was lost, in finalizing: whether its create call finished or
\* not, whoever promoted it with or without its input, and through crashes,
\* after which NextInProgressJob finds it.
JobsEnd ==
    \A j \in Jobs :
        row[j].status # "none" ~>
            \/ row[j].status \in Settled
            \/ Stranded(j) /\ faults > 0
=============================================================================
