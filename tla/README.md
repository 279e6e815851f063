# A TLA+ model of go-taas

go-taas is a Token-as-a-Service platform: tenants call LLM inference with API
keys, the platform meters their tokens, prices them and draws the price from
the tenant's account, and a controller runs the inference engines on
Kubernetes. This directory holds TLA+ modules of its core protocols, the TLC
configurations that check them on small instances, and proofs of the main
theorems for every instance.

    tlc -config Metering.cfg MCMetering      # and the other .cfg files
    tlapm MeteringProofs.tla                 # and the other proof modules

## 1. The system

All services live in one binary, `apps/taas-server`, deployed as several
identical replicas; every replica runs every background runner. They share one
PostgreSQL database (READ COMMITTED, through `pkg/database`), a Redis and a
RabbitMQ broker (`pkg/mq`). A second binary, `apps/controller`, reconciles
deployments on Kubernetes and talks to the server over the broker only. The
data plane is a gateway with a WASM plugin (`wasm/gateway`) which authenticates
requests and reports their usage.

| Component | State | Operations | Talks to |
|---|---|---|---|
| metering (`services/metering`) | vouchers, usage records with a published flag | ingest an event (queue, RPC), settle an hour, publish settlement events, retain, summarise | gateway reports -> queue `metering.events`; queue `settlements` -> billing |
| billing, charging (`services/billing`) | usage lines with accrual, charge records | ingest a line, price a bucket (settlement event, reconciliation), release stale accrual | both queues; the account |
| billing, accounts | account row with a version, ledger rows with idempotency keys, payment intents | open, recharge, refund, debit, deduct, change mode, reset cycle, pay an intent, auto-recharge | charging (deduction inside its transaction); admins |
| billing + auth, funds gate | holds in Redis | verify: read the account and the caps, reserve the worst case; expire | account, accrual, gateway |
| auth (`services/auth`) | API keys, verdicts in Redis and in the workers of the gateway, sessions, users | verify, create, revoke, restore, delete, update, scope, move | gateway |
| tenancy (`services/tenancy`) | organizations, projects, members, quotas | CRUD, quota checks | everyone |
| infer (`services/infer`) | deployments: desired and reported state, their trail | create, scale, version, topology, autoscaling, roll back, delete; apply status | queues to and from the controller |
| controller (`internal/controller`) | nothing durable but the cluster | reconcile one change at a time, wait for the engine, report | Kubernetes, queues |
| batch (`services/batch`) | jobs and their counters, input and result files | create, cancel, claim, process, finalize, retain | gateway, files |
| webhook, notification | subscriptions, deliveries with attempts | fan out, attempt, retry, redeliver | queues, tenants' endpoints |
| model, image, evaluation, optimization, prompt, routing, provider, runtime, fault, audit, vgpu, cluster, accelerator, tracing, observability | catalogues, projections, reports | mostly CRUD and periodic jobs | database |

`PROJECT.json` lists every component with its status.

What is hard in this code, and what each component has to guarantee:

- **Two replicas, no leader.** Every runner runs on every replica at once.
  Uniqueness comes from unique indexes with `ON CONFLICT DO NOTHING`, from
  conditional updates and from version counters. An hour must be settled once,
  a group charged once, and money deducted once per charge.
- **READ COMMITTED.** A transaction's statements see different committed
  states: an aggregate and the `UPDATE` that marks "the same" rows may disagree.
- **A broker that may forget.** Queues are auto-delete and not durable and
  publishes are unconfirmed. Events are lost, repeated and late. Everything
  that must happen needs a database scan behind it.
- **Two systems, no common commit.** Publish-then-flag, mark-then-credit.
- **Money.** Micros per charge, cents per account, a cycle that is reset.
- **Caches and holds** that are filled from a read that is already old.
- **Reports without sequence numbers**, applied in the order they arrive.

## 2. The modules

| Module | Models | Status |
|---|---|---|
| `Metering` | ingestion, settlement, publishing, retention, summary | done |
| `MCMetering` | its instance for TLC | done |
| `SettleOnce` | abstract: settlement by the hour, which both `Metering` and `Charging` implement | done |
| `MeteringProofs` | the inductive invariant and nine theorems, one the refinement | done |
| `Charging` | usage lines, PriceOnce, ChargeGroup, ApplyDeduction, reconciliation, cycle reset | done |
| `MCCharging` | its instance for TLC | done |
| `ChargingProofs` | lines and charges: the inductive invariant and seven theorems, one the refinement | done |
| `ChargingMoneyProofs` | the account: two stronger invariants and four theorems | done |
| `Accounts` | accounts, the idempotent ledger, refunds, debits, payment intents, auto-recharge | done |
| `MCAccounts` | its instance for TLC | done |
| `AccountsProofs` | the inductive invariants and seven theorems | done |
| `FundsGate` | verification of funds, reservations, accrual, charging, expiry | done |
| `MCFundsGate` | its instance for TLC | done |
| `FundsGateProofs` | the inductive invariant and four theorems | done |
| `KeyCache` | verification and key management around the Redis cache and the workers' caches | done |
| `MCKeyCache` | its instance for TLC | done |
| `KeyCacheProofs` | the inductive invariant and four theorems | done |
| `Deployment` | the calls that change a service, the change queue, the controller, the status reports | done |
| `ChangeStream` | abstract: desired-state changes are served in order, and none is dropped in silence | done |
| `MCDeployment` | the instance of `Deployment` for TLC | done |
| `DeploymentProofs` | the inductive invariants and four theorems, one the refinement | done |
| `BatchJobs` | create, claim, process, cancel, retain, over rows shared by replicas | done |
| `MCBatchJobs` | its instance for TLC | done |
| `BatchJobsProofs` | the inductive invariant and five theorems | done |
| `UsagePipeline` | `Metering` and `Charging` composed through the settlement event | not written: `SettleOnce` states what each half promises, and neither half relies on the event for safety |
| `WebhookDelivery` | attempts of several replicas over rows without a claim | not written |

The order is the order of the money: usage becomes evidence (`Metering`),
evidence becomes charges (`Charging`), charges move balances (`Accounts`),
balances admit requests (`FundsGate`), keys admit callers (`KeyCache`); the
lifecycle protocols follow. Modules that are proved about use no RECURSIVE
operator. A sum of money in `FundsGate` and in `Charging` is the number of its
units, so that theorems can speak of it.

### Metering

State: the `vouchers` table (`voucher`, `createdAt`, and the history variable
`purged` of what retention deleted), `usage_records` (`recorded`, `counted`,
`published`), the queue, and for each replica the state of its pass: the
worker channel (`todo`), the buckets inside `SettleBucket` with what their
`SELECT` summed (`busy`, `agg`), the unpublished records it read (`topub`) and
the one it has published and not yet flagged (`sent`). `completedAt` is the
time the gateway put on the event. A token sum is represented by the set of
requests it is taken over: two sums agree when the sets do.

| Action | Code |
|---|---|
| `RecordGatewayUsage` | `gateway_sink.go`, the event published or dropped |
| `ConsumeEvent`, `IngestMeteringEvent`, `HandleEvent`, `IngestVoucher` | `event_consumer.go`, `service.go`, `metering_repository.go`; a consumer that dies before the ack leaves the event queued |
| `LoseQueue` | `rabbitmq.go`, `QueueDeclare(durable false, auto-delete true)` |
| `SettleOnce`, `SettleAggregate`, `SettleCommit`, `SettleAbort` | `settlement_runner.go`, `SettleBucket` |
| `StartPublishing`, `PublishEvent`, `MarkPublished`, `EndPass` | `publishUnpublished`; the publish or the flag may fail |
| `Crash` | the replica stops anywhere in the pass |
| `DeleteSettledBefore` | `retention_runner.go`, one batch |
| `UsageSummary` | `GetUsageSummary`: records, then vouchers, in separate statements |

`SettleBucket` is two steps because the commit of another transaction between
its `SELECT` and its `UPDATE` changes what the `UPDATE` marks. Its `INSERT`,
`UPDATE` and `COMMIT` are one step: an `INSERT` of the same bucket by another
transaction waits on the unique index until this one ends. All replicas read
the same clock `now`; skew between replicas is not modelled.

`SettleOnce` says what settlement by the hour promises whoever settles: a group
of items is closed, sealed once with a sum that has every item offered before
the closing, and never summed again; what comes later may be in the sum, or is
retired uncounted. `Metering` implements it (`SettlesOnce`) with buckets as
groups: closed is `Eligible`, the prompt and the late items are the unsettled
vouchers written before and after it, sealed is `recorded` and the sums are
`counted`.

### Charging

State: `usage_lines` (`line`, `accruing`), `charge_records` (`charges`, with
the lines their amount was computed from in `billed`), the deduction rows
(`deducted`), the account row with its version, and for each goroutine that
runs `PriceOnce` the groups it read (`todo`, `snap`) and its open transaction
(`tx`: the group, the account as read, the cents computed). `timely` and
`credited` are history variables.

| Action | Code |
|---|---|
| `HandleMeteringEvent`, `IngestUsageLine` | `event_consumer.go`; accrual 0 when the price lookup fails |
| `HandleSettlement` | `settlements_consumer.go`, of an hour that metering has announced |
| `ReconcileOnce`, `WorkerTakes` | `reconciliation_runner.go`, with the release of stale accrual |
| `StartPriceOnce`, `AbandonPass`, `SkipGroup` | `PriceOnce` up to its loop, its early returns, and a group that fails before its transaction is open or while it converges |
| `ChargeGroupConverge` | `ChargeGroup` when the charge exists |
| `ChargeGroupBegin`, `ChargeGroupCommit`, `ChargeGroupConflict`, `ChargeGroupFail` | `ChargeGroup` with `ApplyDeduction`: the reads; the guarded `UPDATE`, the marking and the commit; the version conflict; any other failure |
| `OpenAccount`, `Recharge`, `UpdateAccount`, `ResetOnce` | the account's other writers |
| `Restart` | every replica restarts |

A request has a constant price `Cost[r]`; price versions and volume tiers are
left out. A charge's amount and a deduction are computed as in the code:
micros summed, the cycle's total rounded to cents, less what the cycle has
deducted. `releaseHold` is a no-op in the consumer (its service is built
without Redis) and is left out.

The two triggers have grace periods of their own: an hour is `Announced` after
metering's (`EventGrace`) and `Reconcilable` after billing's (`Grace`). Both
are five minutes unless configured, and nothing compares them, so the model
does not relate them either; an hour is `Eligible` after the shorter one.

`Charging` implements `SettleOnce` once more: groups are closed when their hour
is eligible, the items are uncharged lines (prompt when `timely`), the sums are
`billed`. `OpenedSpec` is `Spec` for an organization that has its account
before its first usage.

### Accounts

State: the account row (`account`: mode, balance, version), the append-only
`ledger`, the payment intents (`intent`), and for each goroutine the call it is
serving (`call`): the statement it is at (`pc`), the movement it makes, the
account it read, the attempts it has used, the intent it pays. A runner also
holds the accounts it has still to top up (`todo`). `answered` is a history
variable: the movements whose caller was told they succeeded.

| Action | Code |
|---|---|
| `CreateAccount`, `UpdateAccount` | `account_repository.go`; `UpdateAccount` stands for the cycle reset too, which is the same guarded write of other columns |
| `Recharge`, `Refund`, `RechargeOrganization`, `DebitOrganization` | the validations in `account_service.go`, each against the account as it is then |
| `Replay`, `LookUpMiss`, `ReadAccount`, `WriteBalance`, `DuplicateKey`, `RetryWrite` | the statements of `AccountRepository.Recharge` |
| `ApplyDeduction` | the outcome of a charge, whose inside is `Charging`'s |
| `CreatePaymentIntent`, `PayPaymentIntent`, `CheckPending`, `MarkIntentPaid` | `payment_service.go`, `MarkIntentPaid` as its `SELECT` and its unguarded `UPDATE`; then the intent is credited through `Recharge`'s statements |
| `RunOnce`, `AutoRechargeOne` | `auto_recharge_runner.go`; the intent's unique key is account and second |
| `FailCall`, `Restart` | a failed statement; all replicas stop |

The guarded `UPDATE` of `WriteBalance` locks the account row until the commit,
so it, the `INSERT` and the commit are one step. `RechargeOrganization` opens a
missing account and goes on to the movement in one step: the account is
committed by then, and everything after it is open to failure. Amounts of a
deduction are arbitrary here; `Charging` computes them. The caller's keys are
assumed not to look like `opening:...`, `payment:...` or `charge:...`
(`ConstantsAssumption`): the code does not refuse them, and with them a caller
could use up the key of somebody's payment.

`Charging` and `Accounts` describe the same account row from its two sides:
each has the other's writers as one-step actions.

### FundsGate

State: what each ceiling may spend before any charge (`funds`: the account's
balance or quota, the caps of owner, project and membership), what each
recorded request cost, whether it still accrues or was charged, the holds in
Redis, and for each verification under way how far it is in every scope
(`stage`) and what it has read there (`seen`, `seenFunds`). A sum that was read
is kept as the set of requests it is taken over. `loose` and `drained` are
history variables of the two exceptions the properties make.

| Action | Code |
|---|---|
| `Verify`, `ReadSettled`, `ReadAccrual`, `AccrualFails`, `TierFails` | `checkInferenceFunds` and `evaluateFunds`: the account row or a cap with its charges, then the accrual, each a statement of its own, each tier after the account |
| `Admit`, `Refuse`, `AdmitUnheld` | `evaluateAdmission` with the reserve script, and Redis failing before or after the script ran |
| `FailOpen` | the account cannot be read |
| `Record` | `handleMeteringEvent`: the line with its accrual, or with none when the price cannot be read; the hold stays |
| `Charge`, `ReleaseStaleAccrual` | `ChargeGroup` as one commit; the reconciliation's safety valve |
| `Raise`, `Expire` | a recharge or a raised cap; the sweep of holds |

The account is prepaid, or blocks at its quota: both are one ceiling that
charges use up. A gateway may repeat a request id until it was recorded.

### KeyCache

State: the key's row, the Redis entry of its digest, each worker's entry, the
verification calls with the time they started, the management calls between
their checks, their commit and their delete of the entry, and the clock.
`lastTrue` is a history variable: when the row last deserved each verdict. One
key and one model are followed, because both caches are keyed by them.

| Action | Code |
|---|---|
| `Dispatch`, `GiveUp`, `Answer` | `wasm/gateway/plugin.go`: no fresh entry, Envoy's timeout, the answer is stored |
| `CacheGet`, `FindKey`, `CacheSet`, `Abort` | `VerifyAPIKey`; only admissions are cached, a Redis error fails closed |
| `Check`, `Commit`, `NotFound`, `Invalidate` | the six key management calls: their `UPDATE` and then the best-effort delete |
| `Expire`, `Tick` | Redis drops the entry; time passes |

### Deployment

State: the row, the deployment trail, the call of each request goroutine (read,
committed), the change queue, the change the controller is reconciling, the
StormService and PodAutoscaler of the cluster, and the queue of status reports.
`told`, `lost`, `last` and `overlap` are history variables.

| Action | Code |
|---|---|
| `CreateInferenceService` .. `DeleteInferenceService` | the seven calls up to their `UPDATE`: what they read and what they will write |
| `Commit`, `DuplicateName`, `CommitFails` | the `UPDATE` or `INSERT` |
| `PublishChange`, `PublishFails` | the event built from the row the call read, and the trail |
| `ReportQueued`, `ApplyStorm`, `ApplyScaler`, `ReportStarting`, `ReportRunning`, `ApplyDelete` | `ApplyInferServiceChange`, step by step; "starting" is left out when an older pod answers first |
| `ReconcileFails`, `ReportFailure`, `ReportFailureFails` | an error on the way; its report, whose failure requeues the change |
| `LoseChanges` | the controller stops or loses its connection, and its queue is deleted; the step is the moment it is declared again, a handler that outlived its connection having finished before |
| `ApplyStatus` | a consumer applies one of the first reports |
| `LoseReports` | the last status consumer goes, and its queue with it |

`ChangeStream` is what the rest of the platform relies on: an abstract queue of
changes, what is served, what was reported as failed, and what went with its
queue. `Deployment` implements it with `waiting <- Outstanding`,
`served <- cluster.storm`, `rejected <- told`, `lost <- lost`
(`ChangesInOrder`). The queue may only be lost as a whole and on record, so a
change that is dropped in silence is no step of `ChangeStream`, not even when it
is the only one waiting.

### BatchJobs

State: the rows, the stored files, where each create call, worker, cancel call
and retention pass is, and the history variable `disturbed` of jobs that a
second worker took or a fault touched. The requests of a job are processed as a
whole: one `counted` stands for the progress counters.

| Action | Code |
|---|---|
| `InsertBatchJob`, `PutInput`, `UpdateBatchJob`, `CreateFails` | `CreateBatchJob`: insert, file, and the row written once more |
| `ReadValidating`, `Claim`, `NextInProgressJob`, `SeekFails` | `RunOnce` and `PromoteValidatingJob`, the read and the conditional update |
| `Fetch`, `Count`, `Finalize`, `PutFiles`, `SetFileKeys`, `Complete`, `Fail` | `processJob`, write by write |
| `Stop` | a replica stops or loses a write |
| `FindToCancel`, `SetCancelled` | `CancelBatchJob` and the operator's, read and unguarded write |
| `Age`, `DeleteFiles`, `MarkFilesExpired` | time and `RetainOnce` |

## 3. The runs

| Run | Checks | Shows |
|---|---|---|
| `metering` | `TypeOK`, `CountedIsMarked`, `TimelyVouchersAreCounted`, `SummaryCountsOnce`, `SettlesOnce` | settlement is safe under two replicas, duplicates, losses, one fault, retention, and implements `SettleOnce` |
| `metering_live` | `EveryVoucherSettles`, `EveryRecordAnnounced` | nothing stays unsettled or unannounced |
| `charging` | `TypeOK`, `BilledLinesAreCharged`, `AccrualIsInFlight`, `TimelyLinesAreBilled`, `NeverOverDeducts`, `BalanceNeverLost` | charging and deduction are safe under two triggers and four account writers |
| `charging_live` | `EveryLineCharged`, `SettlesOnce` | the reconciliation runner alone charges everything; both triggers together implement `SettleOnce` |
| `charging_month` | `ChargesAreDeducted` (violated) | the last hour of a month is never deducted |
| `accounts` | `TypeOK`, `KeysAreSpentOnce`, `SuccessIsRecorded`, `CreditedIntentIsPaid`, `BalanceIsLedgerSum`, `LedgerExplainsBalance`, `PaymentLostOnlyByFailure` | movements are applied once and recorded, every balance is the sum of its ledger rows, and a race alone loses no payment |
| `accounts_paid` | `PaidIntentIsCredited` (violated) | a paid intent may never be credited |
| `funds` | `TypeOK`, `NeverOvercommitted`, `RefusedHoldsNothing`, `DrainedIsRefused` | a burst of requests never commits more than any ceiling has, and usage of the open hour counts as spent |
| `keys` | `TypeOK`, `StalenessBounded`, `RejectionsBounded`, `InvalidationHolds` | how long a changed key is served on its old terms, and a restored one refused |
| `deployment` | `TypeOK`, `LastChangeLands`, `ChangesInOrder`, `StreamDrains`, `RolloutSettles` | changes are served in order, the queue drains, the last change is what runs in the end, and what the row says after calls that do not overlap |
| `deployment_revived` | `TerminatedIsFinal` (violated) | an established service is scaled and deleted; the "queued" report of the scale's change takes the row out of terminated |
| `batch` | `TypeOK`, `CountedExactlyOnce`, `CountersSurvive`, `OutcomeIsFinal`, `JobsEnd` | jobs are processed once and end, whatever is created, cancelled or stopped beside, no worker gets hold of a settled job, and the outcome of a job at rest stays |

The three violations are disagreements between the code and what its comments
and design documents say; `findings` in `PROJECT.json` quotes both sides. Beside
each stands what does hold, as a theorem: `PaymentLostOnlyByFailure` for
`accounts_paid`, `DeletionIsFinal` for `deployment_revived`, and
`NeverOverDeducts` with `DeductionsExact` for `charging_month`. The
properties that hold state exactly how far a protocol goes, and name their
exceptions:

- a voucher or line written before its hour became eligible is in the sum
  (`TimelyVouchersAreCounted`, `TimelyLinesAreBilled`; in charging, eligible for
  whichever trigger comes first); a late one never changes a record or a charge
  (`SettlesOnce`);
- `NeverOvercommitted` leaves out the admissions that did not see the whole
  position (`loose`): a read or reservation failed, a hold expired under its
  request, or another request was in no set the evaluation read and had lost
  its hold (`Missed`); `DrainedIsRefused` leaves out the evaluations that
  missed a charge between two reads, or whose scope was raised or released
  before they read it;
- `CountedExactlyOnce` leaves out jobs a second worker took, which
  `NextInProgressJob` lets happen; `JobsEnd` lets a job be stranded in
  finalizing only after a fault;
- `OutcomeIsFinal` says that no worker gets hold of a settled job, and that the
  outcome stays once no create call, cancel call or worker has the job in hand:
  until then a cancelled job may still be completed;
- `PaymentLostOnlyByFailure` lets a paid intent go uncredited only when a
  statement or replica fails, or when a call has lost `maxBalanceRetries` races;
- `LastChangeLands` says of any calls and faults that what the last accepted
  change asked for runs once everything is drained, unless that change was
  reported as failed or lost with its queue. That it is also what the row says
  needs calls that do not overlap, and no fault;
- `RolloutSettles` is about one status consumer and executions without a fault;
- `StalenessBounded` adds up both TTLs, the deadline and the wait, which is more
  than the documents promise (section 5).

### Bounds, and why they are enough

- `metering`: two requests of one key, two replicas with one worker, one
  reader; an hour is one tick, the grace period one tick, the clock runs to 3.
  The hazards are races of two passes over one bucket with a voucher arriving
  between two statements, so two of each suffice; `LastReport = 1` puts the
  requests in the same or in consecutive hours. `MaxFaults = 1` bounds crashes,
  failed transactions, lost reports, dropped queues and duplicated RPCs
  together. `VoucherTTL = 0` lets retention act as early as it can.
- `metering_live`: all reports in the first hour, the clock to 2, no symmetry,
  no readers, and a third request whose event is invalid.
- `charging`: three requests in two groups of consecutive hours, the second in
  a new month; four micros to the cent with prices 2 and 3, so that a charge
  may round to nothing and fractions carry. One consumer and one worker are the
  two triggers; the consumer's grace period is 0 and the worker's 1, so both may
  price the first hour and only the consumer the second. `MaxTouches = 1` bounds recharges and mode changes, `TopUp` is
  one cent.
- `charging_live`: two requests of one group, and the grace periods the other
  way round, otherwise the same.
- `accounts`: one account, one key of operators, one charge, one intent of the
  API; two request goroutines race on the key, the version and the intent, and
  a runner creates intents of its own. Amounts 1 and 2, so that two movements
  of one key may differ; two attempts (`maxBalanceRetries` is 8), so that a
  writer may lose once and may run out; three requests, so that a third one
  meets what two left behind; one fault. The clock has two seconds because an
  auto-recharge key carries one.
- `accounts_paid`: the same with fewer requests.
- `charging_month` and `deployment_revived` use the smallest instance in which
  the situation arises, and no faults: nothing has to fail for it.
  `deployment_revived` starts from an established service, with one goroutine
  and two calls.
- `funds`: three requests, two of one project whose cap is 1 and one of none,
  over an account of 2: two requests can race for the project, and two of
  different projects for the account. Requests reserve 1 or 2 and cost 0 to 2,
  so that one may cost less or more than it reserved. Three verifications, so
  that a request may be repeated while others run; one raise; one fault, which
  any of a failed read, a lost reservation, a missing price, a released accrual
  or an expired hold of a running request may use. 1.5 million states.
- `keys`: one call in flight at a time of one worker (calls meet through Redis
  only, and a given-up call goes on in its slot), two administrators, two policies,
  an expiry inside and one beyond the clock; both TTLs and the deadline are one
  tick, so every bound is passed by the time the clock ends at 4. The wait is
  0: an answer arrives in the tick of its question, or not. 2.1 million states.
- `deployment`: two goroutines and two calls, so that calls overlap or follow
  each other; two versions and counts; two reports queued, at which the
  controller waits; one fault. The service is new or established, by symmetry
  with the first version and count. One status consumer: the chart's
  `replicaCount` is 1 (with two, `RolloutSettles` does not hold).
- `batch`: two jobs and two replicas, so that a worker that loses a race has
  another job to take; one cancellation; one fault.

Deadlock is checked in every run but four. In `deployment`,
`deployment_revived`, `funds` and `keys` the calls and the clock are bounded and
the system may rest when they are used up.

### Fairness

`Metering!Fairness` assumes that time passes, that the consumer keeps
consuming, and that each runner's pass takes its next step: `Run` is a ticker
loop that starts the next pass whatever the last one returned, and every
statement of a pass returns or fails. `Charging!Fairness` assumes the same of
the reconciliation ticker, its workers and a pricer inside its loop. Nothing is
assumed of users, the gateway, settlement events, retention or faults; faults
are bounded, so a transaction cannot fail for ever. Version conflicts are not
bounded separately: each needs another writer's commit.

`Deployment!Fairness` assumes that a call that was started goes on to its end,
that the controller's loop handles the change in hand, and that a status
consumer takes the next report: each is a goroutine whose every step returns or
fails. `BatchJobs!Fairness` assumes that each worker takes its next step: `Run`
is a ticker loop and Kubernetes restarts a replica that stops. Create calls and
cancellations owe nothing: `JobsEnd` is about jobs whose create call never
finished, too. With finitely many jobs, an orphaned job in progress is found in
the end; an endless stream of new validating jobs, which `RunOnce` prefers,
could starve it. `FundsGate` and `KeyCache` have safety properties only.

## 4. The proofs

`MeteringProofs` proves, for any sets of requests, keys, replicas and readers,
any hour length, grace period, TTL, batch size and bounds
(`ConstantsAssumption` is the only assumption):

| Theorem | Property |
|---|---|
| `MeteringTypeCorrect` | `TypeOK` |
| `CountedStaysMarked` | `CountedIsMarked` |
| `MarkedKeepsRecord` | `MarkedHasRecord` (no run: a consequence of `SettlesOnce`'s step) |
| `TimelyCounted` | `TimelyVouchersAreCounted` |
| `FlaggedWasAnnounced` | `PublishedWasAnnounced` (its liveness half, `EveryRecordAnnounced`, is checked by a run) |
| `SummaryExact` | `SummaryCountsOnce` |
| `RecordsStayFrozen` | `RecordsAreFrozen` (no run: likewise) |
| `ImplementsSettleOnce` | `SettlesOnce` |
| `RecordedInOneHour` | `Hours!CountedOnce`, the abstract invariant, of the records |

None of the invariants but `PublishedWasAnnounced` is inductive alone. `IInv`
adds what the passes know:

- `Stamped`: a voucher, queued event or purged request has a completion time,
  so its bucket never changes (`CompletionStable`);
- `SummedIsPending`: what an open transaction summed is of its own bucket and
  pending, *unless another replica recorded the bucket meanwhile*. This is the
  heart: if the bucket has no record, the sum is still pending, and the commit
  that inserts the record marks all of it; if it has one, the commit keeps that
  record and counts nothing. Hence `CountedIsMarked`;
- `RecordedLate`: buckets in work or recorded are eligible, so a voucher that
  arrives for them is not timely (`LateIsNotTimely`);
- `TimelySummed`: an open transaction of a bucket without a record has summed
  all its timely pending vouchers, and a recorded bucket has none left. Hence
  `TimelyVouchersAreCounted`;
- `ReaderInv`: what a summary read as settled was marked, and marked vouchers
  never become pending except after retention;
- `SumsHere`: a record counts vouchers of its own bucket, and a bucket without
  a record counts nothing. Hence `RecordedInOneHour`, and with it the guard of
  the abstract `Offer`: an event that comes again belongs where it belonged
  (a repeated request keeps its hour, section 6);
- `PublisherInv`: a runner flags what it announced.

The refinement goes by what a step does to the tables: time closes groups (a
voucher keeps its side, prompt or late, because `timely` compares its writing
with its own hour), a new voucher is an `Offer`, a commit is a `Seal` when its
bucket has no record and a `Retire` when another replica recorded it first, and
every other step leaves the abstract state alone. `TimelySummed` is what the
`Seal` needs to sum all that is prompt, `SummedIsPending` what makes the rest
late.

Each conjunct has a lemma for `Next`, over four lemmas that say once what a
step may do to the tables (`VoucherStep`, `RecordStep`, `SumStep`, `WorkStep`).
`IInv` was checked by TLC on the instance of `Metering.cfg` before it was
proved.

`ChargingProofs` proves, for any sets of requests, groups and pricers, any
prices, any two grace periods and any bounds:

| Theorem | Property |
|---|---|
| `BilledStaysCharged` | `BilledLinesAreCharged` |
| `ChargedKeepsCharge` | `ChargedLineHasCharge` (no run) |
| `AccrualStaysInFlight` | `AccrualIsInFlight` |
| `TimelyBilled` | `TimelyLinesAreBilled` |
| `ChargesStayFrozen` | `ChargesAreFrozen` (no run) |
| `ImplementsSettleOnce` | `SettlesOnce` |
| `ChargedInOneHour` | `Hours!CountedOnce` of the charges |

Its `IInv` has the same heart, once more around a pricer's snapshot and its
open transaction: `TxInv` (an open transaction is on a group its pricer read,
that has no charge yet and that no other open transaction is on),
`SummedLines` (what a snapshot summed for a group are ingested lines of that
group), `PricedLate` (what is queued, read or charged was eligible) and
`TimelySummed` (no snapshot misses a timely uncharged line, and a charged group
has none left). Every action is one of six kinds of step that change something
(`QuietStep`, `IngestStep`, `ReadStep`, `BeginStep`, `CommitStep`,
`ConvergeStep`) or a `DropStep`, each stated by its effect on the tables; the
invariant is proved over the kinds, not over the actions. So is the refinement:
`IngestStep` offers, `CommitStep` seals, `ConvergeStep` retires. `SumsHere` (a
snapshot never holds an empty sum, and a group without a charge has billed
nothing) keeps a charge from being of nothing.

`ChargingMoneyProofs` continues it for the account, for any prices, any
MicrosPerCent and any schedule of recharges, mode changes, cycle resets and
failures:

| Theorem | Property |
|---|---|
| `ChargingTyped` | `TypeOK` |
| `NeverOverDeducted` | `NeverOverDeducts` |
| `BalanceStaysOnLedger` | `BalanceNeverLost` |
| `DeductionsStayExact` | `OpenedSpec => DeductionsExact` (no run: the runs start without an account) |

`MoneyInv` strengthens `IInv` with the meaning of the version guard,
`ReadIsCurrent` (a transaction whose version is still the account's read all of
the account as it is), and with `AccruedIsCovered`: a deduction that may still
commit, added to what the cycle has spent, is within the cycle's charges plus
its own. `NeverOverDeducts` is not inductive without it: between the read of
the ledger and the UPDATE other passes commit charges, which the deduction does
not know of. The argument is that they can only raise the total
(`CycleGrows`), that a commit of an organization with an account moves the
version, so that what was computed before is thrown away, and that the charge
the commit inserts adds its whole amount (`UnitsAdd`) before the deduction is
counted. Rounding enters by `CentsMono` only. The steps are classified by what
they do to the account (`MoneyStep`: kept, written by another writer, opened,
deducted from).

`DeductionsStayExact` is the other direction, no cent is left behind: each
deduction leaves what the cycle has deducted equal to the cycle's charges
rounded once, so rounding does not drift over charges. Its invariant, `AccruedIsExact`, says that
a transaction whose version is still the account's has computed all that the
cycle's charges have over its deductions: with an account, every commit of a charge moves the version. That is why
it speaks of `OpenedSpec`. A transaction that began before the account was
opened commits its charge without touching the version, and a deduction computed
beside it misses that charge until the next deduction takes it along. TLC
confirmed the property on the instance of `Charging.cfg` started from
`OpenedInit`, and `MoneyInv` was checked by TLC on the instance of
`Charging.cfg` before it was proved.

`AccountsProofs` proves, for any sets of accounts, keys, charges, intents,
clients and runners, and any amounts and bounds:

| Theorem | Property |
|---|---|
| `AccountsTypeCorrect` | `TypeOK` |
| `KeysSpentOnce` | `KeysAreSpentOnce` |
| `SuccessRecorded` | `SuccessIsRecorded` |
| `CreditedPaid` | `CreditedIntentIsPaid` |
| `LedgerExplains` | `LedgerExplainsBalance` |
| `BalanceSumsLedger` | `BalanceIsLedgerSum` |
| `PaymentsCovered` | `PaymentLostOnlyByFailure` |

`IInv` adds `ReadInv`, the meaning of the version counter (a writer whose
version is still current holds the current balance); `CallInv` (a movement
under way is an operator's under an operator's key, or the payment of an
intent that was marked paid); and `OpenInv` (intents, opening rows and pending
top-ups are of accounts that exist, and an account that does not exist holds
nothing). Four lemmas state what a step may do to an account, an intent, the
ledger and a call (`AccountEffect`, `IntentEffect`, `LedgerEffect`,
`CallEffect`). The assumption on the keys is used in `KeysApart` only.

`BalanceIsLedgerSum` cannot be a recursive sum in a module that is proved
about, so each row stands for the set of its cents: the balance is the number
of cents added less the number of cents taken. `SumInv` is that with
finiteness; a step adds at most one row (`StepExplained`), whose cents are its
own because it is new (`CentsAdd`), and one row moves the two counts by what it
moved the balance (`SumsMove`). `PaymentsCovered` is a statement about one
step: a call that carries a payment carries it on (`CarrierStays`) until it
ends, and it ends without a fault only by inserting the row, by meeting it
under the same key, or by giving up; an intent that becomes paid has its marker
as a carrier (`MarkerPays`).

`FundsGateProofs` proves, for any sets of requests and scopes, any needs,
ceilings and bounds:

| Theorem | Property |
|---|---|
| `TypeCorrect` | `TypeOK` |
| `BurstsFit` | `NeverOvercommitted` |
| `AllOrNothing` | `RefusedHoldsNothing` |
| `OpenHourCounts` | `DrainedIsRefused` |

A sum is the number of its units, so facts about sums are facts about the
cardinality of finite sets: a sum is monotonic (`SpendMono`), and no larger
than two sums that cover it (`SpendCover`). `IInv` adds `HoldInv` (a request
that runs on a whole position has all its holds), `ReadInv` (what was read was
recorded, and ceilings only grow) and `DrainInv` (an evaluation that started
with nothing left finds nothing left in what it has read and is about to read).
The heart is `WholeFits`: whatever is committed in a scope is in the set the
evaluation read or has a hold when the script runs.

`KeyCacheProofs` proves, for any sets of calls, workers, administrators and
policies, any TTLs and bounds, with and without reservations:

| Theorem | Property |
|---|---|
| `TypeCorrect` | `TypeOK` |
| `AdmissionsFresh` | `StalenessBounded` |
| `RejectionsFresh` | `RejectionsBounded` |
| `DeletesInvalidate` | `InvalidationHolds` |

Its `IInv` follows a verdict on its way: `ClockInv` (what the row deserves now
was last true now), `RedisInv` (an entry was true within the deadline before it
was written), `CallInv` (a call carries what was true after it began, or an
entry), `VMInv` (a worker's entry was one of those). `ReadInv` is the part
about changes that overlapped no read.

`DeploymentProofs` proves, for any number of goroutines, consumers, versions,
counts and faults, `TypeCorrect` (`TypeOK`), `ImplementsChangeStream`
(`ChangesInOrder`), `LastLands` (`LastChangeLands`) and `DeletesLast`
(`DeletionIsFinal`, which no run checks; TLC found it true on the instance of
`Deployment.cfg`). For the
refinement, every step of the calls, the queue and the controller is a
step of `ChangeStream` or leaves its variables alone. `IInv` adds `CountInv`
(a call publishes at most once, so ids are bounded), `IdInv` (no change waiting,
reported or lost is numbered above the last accepted one) and `ServedInv` (once applied, the
change in hand is what runs), which is what lets a change finish. `SerialInv`
adds that the last change accepted is the last one waiting, or runs, or was
reported, or was lost (`LastServed`, whatever fails and overlaps), and what holds
between the row and the stream when calls do not overlap (`OneCall`): a call's row is still the one it read, then the one it
wrote, but for the state (`CallFollowsRow`); and between calls the row is the
one the last change was made from (`LastFollowsRow`). The status reports,
applied in any order, touch none of these. `DeletesLast` needs `DeleteWrites`
only (a delete under way writes a terminated row): with nothing but deletes in
the calls, the queue and the controller's hand, and no report waiting, no step
writes another state or builds the service.

`BatchJobsProofs` proves, for any number of jobs, workers, cancellations and
faults, `TypeCorrect` (`TypeOK`), `ProcessedOnce` (`CountedExactlyOnce`),
`CountersNeverDrop` (`CountersSurvive`), `OutcomesFinal` (`OutcomeIsFinal`) and
`SettledLeftAlone` (`SettledNotTaken`, which no run checks). `IInv` adds `KeyInv` (who has read an input key read what
`UpdateBatchJob` wrote, so the rewrite is over), `HeldInv` (what a worker knows
of the job it holds) and `PassInv` (an undisturbed job has one holder, and its
row and files are as far as that holder). `OutcomesFinal` adds no invariant: a
job at rest is written by nobody (`OutcomeRow`), a claim and a search find only
rows that are not settled (`SettledNotHeld`), and so it stays at rest
(`RestStays`).

Every invariant, action property and refinement of the passing runs is a
theorem. Only model-checked: liveness (`EveryVoucherSettles`,
`EveryRecordAnnounced`, `EveryLineCharged`, `StreamDrains`, `RolloutSettles`,
`JobsEnd`; the prover has no rules for fairness or ENABLED), and the
violations. Not stated at all: what a sum over rows comes to in micros for
arbitrary many rows, beyond what counting units gives; it would need induction
over data.

## 5. Observed divergences

Three places where the code disagrees with what is said of it are runs
(`charging_month`, `accounts_paid`, `deployment_revived`). The others below
were met while modelling; the models follow the code.

- *Late usage.* A voucher whose hour was settled is marked with the record of
  its bucket and not counted (`metering_repository.go:199`);
  `metering_model.go:80` says the record counts the vouchers settled into it.
  In the same way a late usage line is marked charged by an amount that does
  not contain it (`billing_model.go:129`, `billing_repository.go:275`).
- *Cycle end.* `cycleAccrual` (`account_repository.go:318-341`) sums the charges
  from the start of the cycle with no upper end. A charge of the new month that
  is deducted before `ResetOnce` ran is summed again after the reset has set
  `spent` to zero, so it is deducted twice: 6 cents for charges of 3 and 0 in
  the instance TLC was given. It takes a reset runner that is late by more than
  an hour and its grace (it ticks by the minute, but waits for its first tick),
  so after an outage at most. `NeverOverDeducts` and `DeductionsExact` speak of
  one cycle.
- *Daily cap.* `auto_recharge_runner.go:11-14` and `account_model.go:54` bound
  auto-recharge by a daily cap; nothing reads it.
- *Release of holds.* `event_consumer.go:179-183`, `funds_holds.go:13-14` and
  `config/api.go:286-289` say that metering releases a hold. The queue consumer
  works on a service built without Redis, whose `releaseHold` does nothing: a
  recorded request counts twice until its hold's TTL.
- *Torn evaluation.* `account_repository.go:441-443` says settled and in-flight
  spend never overlap; they may also miss each other. A charge that commits
  between the read of the account and the read of the accrual is on neither
  side of that evaluation. The reservation covers output only, so a request may
  cost more than it held.
- *Key propagation.* `site/docs/architecture/api-key-management.md:284` and
  `:325`, `auth/service.go:291` and `wasm/gateway/config.go:36-38` give the
  worker's TTL as the bound for a revocation. A verification that read the row
  before the commit may write Redis after the delete: the bound that holds is
  `StalenessBounded`'s. `auth/service.go:745` says a restored key works on the
  next request; a worker may still hold its rejection.
- *Deployments.* The controller is said to resync periodically
  (`infer/service.go:1320`); nothing does, so a publish that fails leaves row
  and cluster apart. Scale, version and rollback events carry no autoscaling
  policy, and a reconcile without one deletes the PodAutoscaler although the
  row still says autoscaled. A rollback publishes an empty weight path
  (`deployment_event_diff.go:20`; `design/deployment-history-audit.md:56`,
  `:102`). The names of services are unique by a check before the insert.
  Overlapping calls publish specs without each other's fields, so row and
  cluster may disagree. `UpdateModelVersion`, `ApplyRollbackState` and
  `UpdateTopology` write a row that was terminated meanwhile. `values.yaml:761`
  says that each controller replica consumes the whole stream; they share one
  queue. Two status consumers may apply reports out of order.
- *Batch.* `batch_repository.go:178-181` promises a sole owner;
  `NextInProgressJob` gives a job to any worker. A cancellation is undone by the
  unconditional writes of the worker that processes the job
  (`design/batch-inference.md:50`, D3). A worker that stops in finalizing
  strands its job. Result files live twice their TTL: `RetainOnce` subtracts it
  from the clock and compares with `files_expire_at`, which contains it already
  (`architecture/batch-inference.md:159`). `failed` means "no requests
  processed" (D3), and is also set when the results cannot be stored. The worker
  is built without a meterer (AD4 says that successes are metered).

## 6. Not modelled

- The components marked `not_modelled` in `PROJECT.json`, with the reasons; the
  `note` of a partly modelled one says what is missing.
- Clock skew between replicas, and a database that loses committed data.
- Price versions, tiers, currencies and unpriced groups: the amount of a charge
  is a function of its lines here. In the code it also depends on the
  month-to-date volume at the time of the charge.
- Several organizations: accounts do not interact (`Accounts` and its proofs
  allow any number).
- `FundsGate`: the verdict cache of five seconds in `services/auth/funds.go`,
  which requests with a reservation pass by; gates without reservations;
  the postpaid "warn" policy, which has no ceiling; lowered caps, debits and the
  cycle reset, which change a ceiling downwards or start the sums afresh; late
  lines, which are charged at nothing; a request id used again after it was
  recorded; the rounding of charges to cents.
- `Metering`: a request id reported again with another completion time. A
  repeated event is the same event, and of a repeated RPC call the model keeps
  the time of the first; the refinement (an item belongs to one hour) and
  `RecordedInOneHour` rest on it.
- `KeyCache`: the refusal of a model outside the key's scope, the cache of
  model authorizations, and the funds check of the same call.
- `Deployment`: validation, quotas, images, clusters, slices and GPU fields,
  names across organizations; manifests, claims and inventory.
- `BatchJobs`: the daily quota (a check before the insert), the validation of
  the JSONL, listing and downloads, single requests and the text of errors.
  `DeleteFiles` is one sweep at a time that looks at the row again; in the code
  each replica sweeps over a list it read before. By then the files have been
  due for long and nothing else writes the job, so the passes delete the same
  files and set the same mark.
- Request logs, traces, audit events and notifications: best effort, never read
  by the modelled code.
