------------------------------ MODULE Metering ------------------------------
(***************************************************************************)
(* The metering service (services/metering): usage events of the data      *)
(* plane become vouchers, hourly settlement turns the vouchers of a closed *)
(* (api key, hour) bucket into one immutable usage record, and every       *)
(* record is announced to billing by a settlement event.                   *)
(*                                                                         *)
(* Several replicas of taas-server run the same runners against one        *)
(* database, so Runners is a set.  A transaction runs under READ COMMITTED *)
(* and is split where another transaction's commit can come between two of *)
(* its statements: SettleBucket is SettleAggregate (its SELECT) followed   *)
(* by SettleCommit (INSERT, re-SELECT, UPDATE, COMMIT; the unique index    *)
(* makes a concurrent INSERT of the same bucket wait for this COMMIT, so   *)
(* these statements behave as one step).                                   *)
(*                                                                         *)
(* Token sums are abstracted to the set of requests they sum over: a       *)
(* record's tokens and request count are functions of that set.            *)
(***************************************************************************)
EXTENDS Integers, FiniteSets

CONSTANTS
    Requests,    \* request ids of the gateway (the idempotency key)
    Invalid,     \* the requests whose event fails validateEvent
    Keys,        \* API keys
    KeyOf,       \* the API key of a request
    Runners,     \* one settlement runner per replica
    Readers,     \* callers of GetUsageSummary
    Workers,     \* metering.settlement.workers
    HourTicks,   \* clock ticks of an hour
    Grace,       \* metering.settlement.gracePeriod, in ticks
    VoucherTTL,  \* metering.retention.voucherTTL, in ticks
    BatchSize,   \* metering.retention.batchSize
    LastReport,  \* bound: no request completes after this tick
    MaxTime,     \* bound on the clock
    MaxFaults    \* bound on crashes, lost queues and failed steps

ASSUME ConstantsAssumption ==
    /\ KeyOf \in [Requests -> Keys]
    /\ Invalid \subseteq Requests
    /\ HourTicks \in Nat \ {0}
    /\ Grace \in Nat
    /\ VoucherTTL \in Nat
    /\ BatchSize \in Nat \ {0}
    /\ Workers \in Nat
    /\ LastReport \in Nat
    /\ MaxTime \in Nat
    /\ MaxFaults \in Nat

VARIABLES
    now,          \* the wall clock
    completedAt,  \* completedAt[r]: the completed_at of r's event, -1 before
    queue,        \* events in the queue of group "metering", unacked included
    voucher,      \* vouchers: "none", "pending" (not settled) or "settled"
    createdAt,    \* created_at of r's voucher
    purged,       \* history: requests whose voucher retention deleted
    recorded,     \* buckets with a usage_records row
    counted,      \* the vouchers a record's sums were computed from
    published,    \* records with settlement_event_published
    announced,    \* history: records whose settlement event was published
    phase,        \* where a runner is in SettleOnce
    todo,         \* the buckets of the pass still on the worker channel
    agg,          \* agg[p][b]: what a worker's SELECT summed
    busy,         \* buckets inside SettleBucket's transaction
    topub,        \* records of UnpublishedRecords not handled yet
    sent,         \* published records not yet marked
    summary,      \* summary[q]: what reader q has read so far
    faults        \* faults taken so far

tableVars   == <<voucher, createdAt, purged>>
recordVars  == <<recorded, counted, published>>
runnerVars  == <<phase, todo, agg, busy, topub, sent>>
vars == <<now, completedAt, queue, tableVars, recordVars, announced,
          runnerVars, summary, faults>>

-----------------------------------------------------------------------------
(* Hour buckets. *)

Times == 0 .. MaxTime

PeriodStart(t) == (t \div HourTicks) * HourTicks

Buckets == Keys \X {PeriodStart(t) : t \in Times}

BucketOf(r) == <<KeyOf[r], PeriodStart(completedAt[r])>>

\* SettleOnce only settles an hour that closed Grace ticks ago or earlier.
EligibleAnyHour(b) == TRUE
Eligible(b) == now >= b[2] + HourTicks + Grace

Pending == {r \in Requests : voucher[r] = "pending"}
Settled == {r \in Requests : voucher[r] = "settled"}

\* The rows SettleBucket's SELECT and UPDATE both address.
UnsettledOf(b) == {r \in Pending : BucketOf(r) = b}

Phases == {"idle", "settling", "publishing"}
NoSummary == [pc |-> "idle", settled |-> {}, pending |-> {}]

TypeOK ==
    /\ now \in Times
    /\ completedAt \in [Requests -> Times \cup {-1}]
    /\ queue \subseteq Requests
    /\ voucher \in [Requests -> {"none", "pending", "settled"}]
    /\ createdAt \in [Requests -> Times]
    /\ purged \subseteq Requests
    /\ recorded \subseteq Buckets
    /\ counted \in [Buckets -> SUBSET Requests]
    /\ published \subseteq recorded
    /\ announced \subseteq recorded
    /\ phase \in [Runners -> Phases]
    /\ todo \in [Runners -> SUBSET Buckets]
    /\ agg \in [Runners -> [Buckets -> SUBSET Requests]]
    /\ busy \in [Runners -> SUBSET Buckets]
    /\ \A p \in Runners, b \in Buckets : b \in busy[p] <=> agg[p][b] # {}
    /\ topub \in [Runners -> SUBSET Buckets]
    /\ sent \in [Runners -> SUBSET Buckets]
    /\ summary \in [Readers -> [pc : {"idle", "reading", "done"},
                                settled : SUBSET Requests,
                                pending : SUBSET Requests]]
    /\ faults \in 0 .. MaxFaults

Init ==
    /\ now = 0
    /\ completedAt = [r \in Requests |-> -1]
    /\ queue = {}
    /\ voucher = [r \in Requests |-> "none"]
    /\ createdAt = [r \in Requests |-> 0]
    /\ purged = {}
    /\ recorded = {}
    /\ counted = [b \in Buckets |-> {}]
    /\ published = {}
    /\ announced = {}
    /\ phase = [p \in Runners |-> "idle"]
    /\ todo = [p \in Runners |-> {}]
    /\ agg = [p \in Runners |-> [b \in Buckets |-> {}]]
    /\ busy = [p \in Runners |-> {}]
    /\ topub = [p \in Runners |-> {}]
    /\ sent = [p \in Runners |-> {}]
    /\ summary = [q \in Readers |-> NoSummary]
    /\ faults = 0

Fault == faults < MaxFaults /\ faults' = faults + 1

Tick ==
    /\ now < MaxTime
    /\ now' = now + 1
    /\ UNCHANGED <<completedAt, queue, tableVars, recordVars, announced,
                   runnerVars, summary, faults>>

-----------------------------------------------------------------------------
(* Ingestion. *)

\* The gateway's usage report of a finished request, published to
\* metering.events.  A report that fails to publish is dropped: "a billing
\* gap is cheaper than an outage".
RecordGatewayUsage(r) ==
    /\ completedAt[r] = -1
    /\ now <= LastReport
    /\ completedAt' = [completedAt EXCEPT ![r] = now]
    /\ \/ queue' = queue \cup {r} /\ UNCHANGED faults
       \/ Fault /\ UNCHANGED queue
    /\ UNCHANGED <<now, tableVars, recordVars, announced, runnerVars, summary>>

\* IngestVoucher: INSERT ... ON CONFLICT (request_id) DO NOTHING.
IngestVoucherBlind(r) ==
    /\ voucher' = [voucher EXCEPT ![r] = "pending"]
    /\ createdAt' = [createdAt EXCEPT ![r] = now]

IngestVoucher(r) ==
    IF voucher[r] = "none"
    THEN /\ voucher' = [voucher EXCEPT ![r] = "pending"]
         /\ createdAt' = [createdAt EXCEPT ![r] = now]
    ELSE UNCHANGED <<voucher, createdAt>>

\* handleEvent: validate, then the voucher.  The best-effort request log and
\* trace it writes afterwards are diagnostics that nothing here reads back.
HandleEvent(r) ==
    IF r \in Invalid THEN UNCHANGED <<voucher, createdAt>>
                     ELSE IngestVoucher(r)

\* EventConsumer.handle and the broker's acknowledgement.  The event stays
\* queued when the consumer dies between its commit and the ack.
ConsumeEvent(r) ==
    /\ r \in queue
    /\ HandleEvent(r)
    /\ \/ queue' = queue \ {r} /\ UNCHANGED faults
       \/ Fault /\ UNCHANGED queue
    /\ UNCHANGED <<now, completedAt, purged, recordVars, announced,
                   runnerVars, summary>>

\* The RPC of the same handler, for a client that reports (or repeats) an
\* event itself.
IngestMeteringEvent(r) ==
    /\ \/ /\ completedAt[r] = -1
          /\ now <= LastReport
          /\ completedAt' = [completedAt EXCEPT ![r] = now]
          /\ UNCHANGED faults
       \/ /\ completedAt[r] # -1
          /\ Fault
          /\ UNCHANGED completedAt
    /\ HandleEvent(r)
    /\ UNCHANGED <<now, queue, purged, recordVars, announced, runnerVars,
                   summary>>

\* The queue is declared auto-delete and not durable: when its last consumer
\* disconnects, the broker drops the queue with everything in it.
LoseQueue ==
    /\ queue # {}
    /\ Fault
    /\ queue' = {}
    /\ UNCHANGED <<now, completedAt, tableVars, recordVars, announced,
                   runnerVars, summary>>

-----------------------------------------------------------------------------
(* One settlement pass of a runner. *)

\* SettleOnce up to the worker channel: fetch the unsettled vouchers, group
\* them into eligible buckets.
SettleOnce(p) ==
    /\ phase[p] = "idle"
    /\ LET found == {r \in Pending : completedAt[r] < now}
       IN  /\ phase' = [phase EXCEPT ![p] = "settling"]
           /\ todo' = [todo EXCEPT ![p] =
                          {b \in {BucketOf(r) : r \in found} : Eligible(b)}]
    /\ UNCHANGED <<now, completedAt, queue, tableVars, recordVars, announced,
                   agg, busy, topub, sent, summary, faults>>

\* A worker takes a bucket and runs SettleBucket's SELECT.
SettleAggregateEmpty(p, b) ==
    /\ b \in todo[p]
    /\ Cardinality(busy[p]) < Workers
    /\ todo' = [todo EXCEPT ![p] = @ \ {b}]
    /\ agg' = [agg EXCEPT ![p][b] = UnsettledOf(b)]
    /\ busy' = [busy EXCEPT ![p] = @ \cup {b}]
    /\ UNCHANGED <<now, completedAt, queue, tableVars, recordVars, announced,
                   phase, topub, sent, summary, faults>>

SettleAggregate(p, b) ==
    /\ b \in todo[p]
    /\ Cardinality(busy[p]) < Workers
    /\ todo' = [todo EXCEPT ![p] = @ \ {b}]
    /\ IF UnsettledOf(b) = {}
       THEN UNCHANGED <<agg, busy>>     \* a concurrent pass won
       ELSE /\ agg' = [agg EXCEPT ![p][b] = UnsettledOf(b)]
            /\ busy' = [busy EXCEPT ![p] = @ \cup {b}]
    /\ UNCHANGED <<now, completedAt, queue, tableVars, recordVars, announced,
                   phase, topub, sent, summary, faults>>

\* INSERT ... ON CONFLICT (api_key_id, period_start) DO NOTHING: an existing
\* record is kept as it is.
InsertRecordUpsert(p, b) ==
    /\ recorded' = recorded \cup {b}
    /\ counted' = [counted EXCEPT ![b] = @ \cup agg[p][b]]

InsertRecord(p, b) ==
    IF b \in recorded
    THEN UNCHANGED <<recorded, counted>>
    ELSE /\ recorded' = recorded \cup {b}
         /\ counted' = [counted EXCEPT ![b] = agg[p][b]]

\* The UPDATE marks every voucher of the bucket that is unsettled now.
MarkVouchersNone(b) == UNCHANGED voucher

MarkVouchers(b) ==
    voucher' = [r \in Requests |->
                  IF r \in UnsettledOf(b) THEN "settled" ELSE voucher[r]]

SettleCommit(p, b) ==
    /\ b \in busy[p]
    /\ InsertRecord(p, b)
    /\ MarkVouchers(b)
    /\ busy' = [busy EXCEPT ![p] = @ \ {b}]
    /\ agg' = [agg EXCEPT ![p][b] = {}]
    /\ UNCHANGED <<now, completedAt, queue, createdAt, purged,
                   published, announced, phase, todo, topub, sent, summary,
                   faults>>

\* The transaction fails: logged, and left to the next pass.
SettleAbort(p, b) ==
    /\ b \in busy[p]
    /\ Fault
    /\ busy' = [busy EXCEPT ![p] = @ \ {b}]
    /\ agg' = [agg EXCEPT ![p][b] = {}]
    /\ UNCHANGED <<now, completedAt, queue, tableVars, recordVars, announced,
                   phase, todo, topub, sent, summary>>

\* wg.Wait() returned: publishUnpublished reads the unpublished records.
StartPublishing(p) ==
    /\ phase[p] = "settling"
    /\ todo[p] = {}
    /\ busy[p] = {}
    /\ phase' = [phase EXCEPT ![p] = "publishing"]
    /\ topub' = [topub EXCEPT ![p] = recorded \ published]
    /\ UNCHANGED <<now, completedAt, queue, tableVars, recordVars, announced,
                   todo, agg, busy, sent, summary, faults>>

\* Publish the next settlement event; a failure leaves the record to the
\* next pass.
PublishEventIgnoringErrors(p, b) ==
    /\ b \in topub[p]
    /\ sent[p] = {}
    /\ topub' = [topub EXCEPT ![p] = @ \ {b}]
    /\ sent' = [sent EXCEPT ![p] = {b}]
    /\ \/ announced' = announced \cup {b} /\ UNCHANGED faults
       \/ Fault /\ UNCHANGED announced
    /\ UNCHANGED <<now, completedAt, queue, tableVars, recordVars, phase,
                   todo, agg, busy, summary>>

PublishEvent(p, b) ==
    /\ b \in topub[p]
    /\ sent[p] = {}
    /\ topub' = [topub EXCEPT ![p] = @ \ {b}]
    /\ \/ /\ announced' = announced \cup {b}
          /\ sent' = [sent EXCEPT ![p] = {b}]
          /\ UNCHANGED faults
       \/ Fault /\ UNCHANGED <<announced, sent>>
    /\ UNCHANGED <<now, completedAt, queue, tableVars, recordVars, phase,
                   todo, agg, busy, summary>>

MarkPublished(p, b) ==
    /\ b \in sent[p]
    /\ \/ published' = published \cup {b} /\ UNCHANGED faults
       \/ UNCHANGED published /\ Fault
    /\ sent' = [sent EXCEPT ![p] = {}]
    /\ UNCHANGED <<now, completedAt, queue, tableVars, recorded, counted,
                   announced, phase, todo, agg, busy, topub, summary>>

EndPass(p) ==
    /\ phase[p] = "publishing"
    /\ topub[p] = {}
    /\ sent[p] = {}
    /\ phase' = [phase EXCEPT ![p] = "idle"]
    /\ UNCHANGED <<now, completedAt, queue, tableVars, recordVars, announced,
                   todo, agg, busy, topub, sent, summary, faults>>

\* The replica stops at any point of the pass: open transactions roll back.
Crash(p) ==
    /\ phase[p] # "idle"
    /\ Fault
    /\ phase' = [phase EXCEPT ![p] = "idle"]
    /\ todo' = [todo EXCEPT ![p] = {}]
    /\ agg' = [agg EXCEPT ![p] = [b \in Buckets |-> {}]]
    /\ busy' = [busy EXCEPT ![p] = {}]
    /\ topub' = [topub EXCEPT ![p] = {}]
    /\ sent' = [sent EXCEPT ![p] = {}]
    /\ UNCHANGED <<now, completedAt, queue, tableVars, recordVars, announced,
                   summary>>

-----------------------------------------------------------------------------
(* Retention. *)

\* SELECT id ... LIMIT batch: as many rows as there are, at most BatchSize.
IsBatch(S, rows) ==
    /\ S \subseteq rows
    /\ Cardinality(S) = IF Cardinality(rows) < BatchSize
                        THEN Cardinality(rows) ELSE BatchSize

ExpiredVouchersAnyState ==
    {r \in Pending \cup Settled : createdAt[r] < now - VoucherTTL}

ExpiredVouchers == {r \in Settled : createdAt[r] < now - VoucherTTL}

DeleteSettledBefore ==
    /\ ExpiredVouchers # {}
    /\ \E S \in SUBSET ExpiredVouchers :
         /\ IsBatch(S, ExpiredVouchers)
         /\ voucher' = [r \in Requests |->
                          IF r \in S THEN "none" ELSE voucher[r]]
         /\ purged' = purged \cup S
    /\ UNCHANGED <<now, completedAt, queue, createdAt, recordVars,
                   announced, runnerVars, summary, faults>>

-----------------------------------------------------------------------------
(* UsageSummary: the settled part (records) is read first, the pending     *)
(* part (unsettled vouchers) by later statements, with no transaction      *)
(* around them.                                                            *)

SettledUsage == UNION {counted[b] : b \in recorded}

\* The pending vouchers read before the records instead of after them.
ReadPartPendingFirst(s) ==
    IF s.pc = "reading"
    THEN [s EXCEPT !.pc = "done", !.settled = SettledUsage]
    ELSE [pc |-> "reading", settled |-> {}, pending |-> Pending]

ReadPart(s) ==
    IF s.pc = "reading"
    THEN [s EXCEPT !.pc = "done", !.pending = Pending]
    ELSE [pc |-> "reading", settled |-> SettledUsage, pending |-> {}]

UsageSummary(q) ==
    /\ summary' = [summary EXCEPT ![q] =
                      IF @.pc = "done" THEN NoSummary ELSE ReadPart(@)]
    /\ UNCHANGED <<now, completedAt, queue, tableVars, recordVars, announced,
                   runnerVars, faults>>

-----------------------------------------------------------------------------
Ingest == \E r \in Requests :
    RecordGatewayUsage(r) \/ ConsumeEvent(r) \/ IngestMeteringEvent(r)

Settle(p) == \E b \in Buckets :
    SettleAggregate(p, b) \/ SettleCommit(p, b) \/ SettleAbort(p, b)

Publish(p) == \E b \in Buckets : PublishEvent(p, b) \/ MarkPublished(p, b)

Next ==
    \/ Tick
    \/ Ingest
    \/ LoseQueue
    \/ \E p \in Runners :
         \/ SettleOnce(p) \/ Settle(p) \/ StartPublishing(p)
         \/ Publish(p) \/ EndPass(p) \/ Crash(p)
    \/ DeleteSettledBefore
    \/ \E q \in Readers : UsageSummary(q)

Spec == Init /\ [][Next]_vars

(* Fairness: the clock advances, the consumer keeps draining its queue and *)
(* the tickers keep starting passes whose steps terminate.  Users, the     *)
(* gateway, retention and faults promise nothing.                          *)
PassSteps(p) ==
    SettleOnce(p) \/ Settle(p) \/ StartPublishing(p) \/ Publish(p) \/ EndPass(p)

Fairness ==
    /\ WF_vars(Tick)
    /\ WF_vars(\E r \in Requests : ConsumeEvent(r))
    /\ \A p \in Runners : WF_vars(PassSteps(p))

LiveSpec == Spec /\ Fairness

-----------------------------------------------------------------------------
(* Properties. *)

\* A record's sums count only vouchers that are marked as settled (or that
\* retention deleted after they were): however passes of two replicas, their
\* rollbacks and late events interleave, no voucher that a record already
\* counted is ever offered to billing or to the summary again as pending.
CountedIsMarked ==
    \A b \in recorded : counted[b] \subseteq Settled \cup purged

\* A voucher is never marked settled, and so put within reach of retention,
\* without a usage record of its own key and hour behind it: usage that
\* retention may delete has billing evidence.
MarkedHasRecord ==
    \A r \in Settled \cup purged : BucketOf(r) \in recorded

\* The grace period does its work: a voucher written before its hour became
\* eligible is counted by the record it is marked with, whichever replica's
\* transaction commits and however many were rolled back before.
Timely(r) == createdAt[r] < BucketOf(r)[2] + HourTicks + Grace

TimelyVouchersAreCounted ==
    \A r \in Settled : Timely(r) => r \in counted[BucketOf(r)]

\* A usage record is never rewritten once committed: the settlement event,
\* re-published after a crash, always announces the same sums.
RecordsAreFrozen ==
    [][\A b \in recorded : b \in recorded' /\ counted'[b] = counted[b]]_vars

\* Settlement by the hour: vouchers are the items, usage records the sums.
Hours == INSTANCE SettleOnce
           WITH Items <- Requests, Groups <- Buckets,
                closed <- {b \in Buckets : Eligible(b)},
                prompt <- [b \in Buckets |-> {r \in UnsettledOf(b) : Timely(r)}],
                late   <- [b \in Buckets |-> {r \in UnsettledOf(b) : ~Timely(r)}],
                sealed <- recorded, sums <- counted

\* SettleBucket implements it under any number of replicas, with redelivered
\* events and retention: an hour is recorded once, with everything that was
\* there in time, and what is marked later is in no record at all.
SettlesOnce == Hours!Spec

\* A record flagged settlement_event_published has had its event published:
\* no crash point of publishUnpublished skips an announcement.
PublishedWasAnnounced == published \subseteq announced

\* GetUsageSummary reads records and vouchers in separate statements, yet
\* counts no request both as settled and as pending, whatever commits
\* between its reads.  (A request whose voucher retention deleted and that is
\* reported again is the one exception.)
SummaryCountsOnce ==
    \A q \in Readers : summary[q].pc = "done" =>
        summary[q].settled \cap summary[q].pending \subseteq purged

\* Every pending voucher is settled, through crashes, failed transactions
\* and competing replicas.
EveryVoucherSettles ==
    \A r \in Requests : voucher[r] = "pending" ~> voucher[r] # "pending"

\* Every usage record is announced to billing, whatever fails on the way.
EveryRecordAnnounced ==
    \A b \in Buckets : b \in recorded ~> b \in announced
=============================================================================
