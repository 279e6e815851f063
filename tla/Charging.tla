------------------------------ MODULE Charging ------------------------------
(***************************************************************************)
(* The charging half of the billing service (services/billing): metering   *)
(* events become usage lines, PriceOnce turns the uncharged lines of an    *)
(* (api key, hour) bucket into one charge record per (model, card) group,  *)
(* and every new charge deducts from the organization's account in the     *)
(* same transaction.                                                       *)
(*                                                                         *)
(* PriceOnce is started by two triggers that may overlap: a settlement     *)
(* event of metering and the reconciliation runner, on every replica.      *)
(* Transactions run under READ COMMITTED and are split where a concurrent  *)
(* commit matters: PriceOnce reads the uncharged groups outside any        *)
(* transaction; ChargeGroup inserts the charge and reads the account       *)
(* (ChargeGroupBegin), then writes the account under its version guard,    *)
(* marks the lines and commits (ChargeGroupCommit).  The INSERT of a group *)
(* another open transaction has inserted waits for that transaction.       *)
(*                                                                         *)
(* Money is counted in micros (charges) and cents (the account), as in the *)
(* code; a request's price is the constant Cost[r].  A group's identity    *)
(* (organization, key, model, card, hour) is one value of Groups.          *)
(***************************************************************************)
EXTENDS Integers, FiniteSets, FiniteSetsExt

CONSTANTS
    Requests,     \* request ids (the idempotency key of usage lines)
    Groups,       \* (key, model, card, hour) groups
    Buckets,      \* (key, hour) buckets
    GroupOf,      \* the group of a request
    BucketOf,     \* the bucket of a group
    StartOf,      \* the first tick of a bucket's hour
    At,           \* completed_at of a request
    Cost,         \* what a request costs, in micros
    MicrosPerCent,
    Consumers,    \* settlements-consumer goroutines, over all replicas
    Workers,      \* reconciliation-worker goroutines, over all replicas
    HourTicks,
    MonthTicks,
    Grace,        \* billing.reconciliation.gracePeriod
    EventGrace,   \* metering.settlement.gracePeriod
    StaleAfter,   \* staleAccrualAfter
    TopUp,        \* cents of a recharge
    MaxTime,      \* bound on the clock
    MaxTouches,   \* bound on the recharges and mode changes
    MaxFaults     \* bound on failed transactions and crashes

ASSUME ConstantsAssumption ==
    /\ IsFiniteSet(Requests) /\ IsFiniteSet(Groups)
    /\ GroupOf \in [Requests -> Groups]
    /\ BucketOf \in [Groups -> Buckets]
    /\ StartOf \in [Buckets -> Nat]
    /\ At \in [Requests -> Nat]
    /\ Cost \in [Requests -> Nat]
    /\ {MicrosPerCent, HourTicks, MonthTicks} \subseteq Nat \ {0}
    /\ {Grace, EventGrace, StaleAfter, TopUp, MaxTime, MaxTouches, MaxFaults} \subseteq Nat

VARIABLES
    now,
    line,       \* usage_lines of r: "none", "open" (uncharged) or "charged"
    timely,     \* history: lines ingested before their hour was eligible
    accruing,   \* lines with accrual_micros # 0
    charges,    \* charge_records
    billed,     \* billed[g]: the lines a charge's amount was computed from
    deducted,   \* the deduction row "charge:<id>": its cents, -1 if none
    account,    \* the organization's account
    credited,   \* history: the sum of the account's recharge rows
    jobs,       \* buckets on the reconciliation runner's worker channel
    todo,       \* groups pricer p read and has still to charge
    snap,       \* snap[p][g]: the lines UnchargedGroups summed
    tx,         \* the open ChargeGroup transaction of pricer p
    touches,
    faults

lineVars   == <<line, timely, accruing>>
chargeVars == <<charges, billed, deducted>>
pricerVars == <<todo, snap, tx>>
vars == <<now, lineVars, chargeVars, account, credited, jobs, pricerVars,
          touches, faults>>

-----------------------------------------------------------------------------
(* Everything that runs PriceOnce. *)
Pricers == Consumers \cup Workers

(* Amounts. *)

\* An amount is the number of its micros: a sum is a union of micros.
Micros(lines) == UNION {{r} \X (1 .. Cost[r]) : r \in lines}

Amount(lines) == Cardinality(Micros(lines))

\* ROUND(SUM(amount) * 100): micros to the nearest cent.
Cents(micros) == (2 * micros + MicrosPerCent) \div (2 * MicrosPerCent)

MonthStart(t) == (t \div MonthTicks) * MonthTicks

PeriodStart(g) == StartOf[BucketOf[g]]

\* The charges of the account's current cycle.
InCycle(gs, since) == {g \in gs : PeriodStart(g) >= since}

ChargedMicros(gs) ==
    Cardinality(UNION {{g} \X Micros(billed[g]) : g \in gs})

UnchargedOf(g) == {r \in Requests : line[r] = "open" /\ GroupOf[r] = g}

\* Two configurations, of two services; nothing in the code relates them.
FirstGrace == IF EventGrace < Grace THEN EventGrace ELSE Grace

HourPending(b) == now < StartOf[b] + HourTicks + FirstGrace

\* From here on one of the two triggers may price the hour.
Eligible(b) == now >= StartOf[b] + HourTicks + FirstGrace

\* Metering announces an hour once it closed EventGrace ticks ago.
AnnouncedAnyHour(b) == TRUE
Announced(b) == now >= StartOf[b] + HourTicks + EventGrace

\* The reconciliation runner takes it once it closed Grace ticks ago.
Reconcilable(b) == now >= StartOf[b] + HourTicks + Grace

NoAccount == [open |-> FALSE, mode |-> "prepaid", balance |-> 0,
              used |-> 0, spent |-> 0, cycle |-> 0, version |-> 0]

Idle == [group |-> "none", read |-> NoAccount, accrued |-> 0]

AccountType ==
    [open : BOOLEAN, mode : {"prepaid", "postpaid"}, balance : Int,
     used : Nat, spent : Nat, cycle : Nat, version : Nat]

TypeOK ==
    /\ now \in 0 .. MaxTime
    /\ line \in [Requests -> {"none", "open", "charged"}]
    /\ timely \subseteq Requests
    /\ accruing \subseteq Requests
    /\ charges \subseteq Groups
    /\ billed \in [Groups -> SUBSET Requests]
    /\ deducted \in [Groups -> Nat \cup {-1}]
    /\ account \in AccountType
    /\ credited \in Nat
    /\ jobs \subseteq Buckets
    /\ todo \in [Pricers -> SUBSET Groups]
    /\ snap \in [Pricers -> [Groups -> SUBSET Requests]]
    /\ tx \in [Pricers -> [group : Groups \cup {"none"},
                           read : AccountType, accrued : Nat]]
    /\ \A p \in Pricers : tx[p] # Idle => tx[p].group \in todo[p]
    /\ touches \in 0 .. MaxTouches
    /\ faults \in 0 .. MaxFaults

InitWith(initial) ==
    /\ now = 0
    /\ line = [r \in Requests |-> "none"]
    /\ timely = {}
    /\ accruing = {}
    /\ charges = {}
    /\ billed = [g \in Groups |-> {}]
    /\ deducted = [g \in Groups |-> -1]
    /\ account = initial
    /\ credited = 0
    /\ jobs = {}
    /\ todo = [p \in Pricers |-> {}]
    /\ snap = [p \in Pricers |-> [g \in Groups |-> {}]]
    /\ tx = [p \in Pricers |-> Idle]
    /\ touches = 0
    /\ faults = 0

Init == InitWith(NoAccount)

Fault == faults < MaxFaults /\ faults' = faults + 1
Touch == touches < MaxTouches /\ touches' = touches + 1

Tick ==
    /\ now < MaxTime
    /\ now' = now + 1
    /\ UNCHANGED <<lineVars, chargeVars, account, credited, jobs, pricerVars,
                   touches, faults>>

-----------------------------------------------------------------------------
(* Usage lines. *)

\* handleMeteringEvent: price the line for the accrual (0 when the price
\* lookup fails) and insert it ON CONFLICT (request_id) DO NOTHING.  Events
\* may be redelivered at any time, and may arrive after their hour closed.
\* (releaseHold does nothing here: the consumer's service is built without
\* the Redis component, so it has no reserver.)
IngestUsageLineUpsert(r, priced) ==
    /\ line' = [line EXCEPT ![r] = "open"]
    /\ UNCHANGED timely
    /\ accruing' = IF priced THEN accruing \cup {r} ELSE accruing

IngestUsageLine(r, priced) ==
    IF line[r] = "none"
    THEN /\ line' = [line EXCEPT ![r] = "open"]
         /\ timely' = IF HourPending(BucketOf[GroupOf[r]])
                      THEN timely \cup {r} ELSE timely
         /\ accruing' = IF priced THEN accruing \cup {r} ELSE accruing
    ELSE UNCHANGED lineVars

HandleMeteringEvent(r) ==
    /\ At[r] <= now
    /\ \/ IngestUsageLine(r, TRUE) /\ UNCHANGED faults
       \/ IngestUsageLine(r, FALSE) /\ Fault
    /\ UNCHANGED <<now, chargeVars, account, credited, jobs, pricerVars,
                   touches>>

-----------------------------------------------------------------------------
(* Pricing one bucket. *)

\* PriceOnce up to its loop: UnchargedGroups.
StartPriceOnce(p, b) ==
    /\ todo[p] = {}
    /\ tx[p] = Idle
    /\ LET found == {g \in Groups : BucketOf[g] = b /\ UnchargedOf(g) # {}}
       IN  /\ todo' = [todo EXCEPT ![p] = found]
           /\ snap' = [snap EXCEPT ![p] = [g \in Groups |->
                          IF g \in found THEN UnchargedOf(g) ELSE {}]]
    /\ UNCHANGED <<now, lineVars, chargeVars, account, credited, tx, touches,
                   faults>>

\* SettlementsConsumer: metering announced the bucket (again, perhaps).  It
\* checks no grace period of its own.
HandleSettlement(p, b) ==
    /\ Announced(b)
    /\ StartPriceOnce(p, b)
    /\ UNCHANGED jobs

\* ReconcileOnce: release the accruals nothing retired in time, then queue
\* every reconcilable bucket with uncharged lines for the workers.
StaleLines ==
    {r \in accruing : line[r] = "open" /\ At[r] < now - StaleAfter}

ReconcileOnce ==
    /\ accruing' = accruing \ StaleLines
    /\ jobs' = jobs \cup
                 {b \in Buckets :
                    /\ Reconcilable(b)
                    /\ \E r \in Requests : /\ line[r] = "open"
                                          /\ BucketOf[GroupOf[r]] = b
                                          /\ At[r] < now - Grace}
    /\ UNCHANGED <<now, line, timely, chargeVars, account, credited,
                   pricerVars, touches, faults>>

WorkerTakes(p, b) ==
    /\ b \in jobs
    /\ jobs' = jobs \ {b}
    /\ StartPriceOnce(p, b)

\* cycleAccrual: the cycle's rounded total, the new charge included, less
\* what the cycle has deducted already; never negative.
CycleAccrualPerCharge(g, lines) == Cents(Amount(lines))

CycleAccrual(g, lines) ==
    LET cycle == InCycle(charges \ {g}, account.cycle)
        own   == IF PeriodStart(g) >= account.cycle THEN Amount(lines) ELSE 0
        total == Cents(ChargedMicros(cycle) + own)
    IN  IF total <= account.spent THEN 0 ELSE total - account.spent

\* The UPDATE marks every line of the group that is uncharged now, and
\* retires its accrual.
MarkChargedOnly(g) ==
    /\ line' = [r \in Requests |->
                  IF r \in UnchargedOf(g) THEN "charged" ELSE line[r]]
    /\ UNCHANGED <<timely, accruing>>

MarkCharged(g) ==
    /\ line' = [r \in Requests |->
                  IF r \in UnchargedOf(g) THEN "charged" ELSE line[r]]
    /\ accruing' = accruing \ UnchargedOf(g)
    /\ UNCHANGED timely

\* No other transaction holds an uncommitted charge of the group.
NotHeldNever(g) == TRUE
NotHeld(g) == \A q \in Pricers : tx[q].group # g

InsertCharge(g, lines) ==
    /\ charges' = charges \cup {g}
    /\ billed' = [billed EXCEPT ![g] = lines]

\* The loop is done with the group; what it read of it is forgotten.
Dequeue(p, g) ==
    /\ todo' = [todo EXCEPT ![p] = @ \ {g}]
    /\ snap' = [snap EXCEPT ![p][g] = {}]

\* The charge exists (another pass won): no deduction, only the marking.
ChargeGroupReturnsEarly(p, g) ==
    /\ g \in todo[p] /\ tx[p] = Idle
    /\ g \in charges
    /\ Dequeue(p, g)
    /\ UNCHANGED <<now, lineVars, chargeVars, account, credited, jobs, tx,
                   touches, faults>>

ChargeGroupConverge(p, g) ==
    /\ g \in todo[p] /\ tx[p] = Idle
    /\ g \in charges
    /\ MarkCharged(g)
    /\ Dequeue(p, g)
    /\ UNCHANGED <<now, chargeVars, account, credited, jobs, tx, touches,
                   faults>>

\* The account lookup, the INSERT of the charge and, when the organization
\* had an account at the lookup, ApplyDeduction's reads.  (PriceOnce keeps the
\* account it found for the rest of its groups; accounts are never deleted.)
ChargeGroupBegin(p, g) ==
    /\ g \in todo[p] /\ tx[p] = Idle
    /\ g \notin charges /\ NotHeld(g)
    /\ tx' = [tx EXCEPT ![p] =
                 [group |-> g, read |-> account,
                  accrued |-> IF account.open
                              THEN CycleAccrual(g, snap[p][g]) ELSE 0]]
    /\ UNCHANGED <<now, lineVars, chargeVars, account, credited, jobs, todo,
                   snap, touches, faults>>

\* ApplyDeduction's UPDATE writes what its SELECT read: prepaid pays from the
\* balance, postpaid accrues usage, both accrue spend.
DeductFromUsage(read, accrued) ==
    account' = [read EXCEPT
        !.balance = IF read.mode = "prepaid" THEN @ - accrued ELSE @,
        !.used    = IF read.mode = "prepaid" THEN @ ELSE @ - accrued,
        !.spent   = @ + accrued,
        !.version = @ + 1]

Deduct(read, accrued) ==
    account' = [read EXCEPT
        !.balance = IF read.mode = "prepaid" THEN @ - accrued ELSE @,
        !.used    = IF read.mode = "prepaid" THEN @ ELSE @ + accrued,
        !.spent   = @ + accrued,
        !.version = @ + 1]

VersionHoldsAlways(p) == TRUE
VersionHolds(p) == tx[p].read.open => account.version = tx[p].read.version

ChargeGroupCommit(p) ==
    /\ tx[p] # Idle
    /\ VersionHolds(p)
    /\ LET g == tx[p].group
       IN  /\ InsertCharge(g, snap[p][g])
           /\ IF tx[p].read.open
              THEN /\ deducted' = [deducted EXCEPT ![g] = tx[p].accrued]
                   /\ Deduct(tx[p].read, tx[p].accrued)
              ELSE UNCHANGED <<deducted, account>>
           /\ MarkCharged(g)
           /\ Dequeue(p, g)
    /\ tx' = [tx EXCEPT ![p] = Idle]
    /\ UNCHANGED <<now, credited, jobs, touches, faults>>

RollBack(p) ==
    /\ Dequeue(p, tx[p].group)
    /\ tx' = [tx EXCEPT ![p] = Idle]

\* "deduction version conflict": everything rolls back, and the group is
\* left to the next pass.
ChargeGroupConflict(p) ==
    /\ tx[p] # Idle
    /\ ~VersionHolds(p)
    /\ RollBack(p)
    /\ UNCHANGED <<now, lineVars, chargeVars, account, credited, jobs,
                   touches, faults>>

\* Any other failure of the group, before or inside the transaction.
ChargeGroupFail(p) ==
    /\ tx[p] # Idle
    /\ Fault
    /\ RollBack(p)
    /\ UNCHANGED <<now, lineVars, chargeVars, account, credited, jobs,
                   touches>>

\* A statement fails on the converge path: the error is logged, and the loop
\* goes on with the next group.
SkipGroup(p, g) ==
    /\ g \in todo[p] /\ tx[p] = Idle
    /\ Fault
    /\ Dequeue(p, g)
    /\ UNCHANGED <<now, lineVars, chargeVars, account, credited, jobs, tx,
                   touches>>

\* PriceOnce returns early (a failed query, its replica stopped).
AbandonPass(p) ==
    /\ todo[p] # {} /\ tx[p] = Idle
    /\ Fault
    /\ todo' = [todo EXCEPT ![p] = {}]
    /\ snap' = [snap EXCEPT ![p] = [g \in Groups |-> {}]]
    /\ UNCHANGED <<now, lineVars, chargeVars, account, credited, jobs, tx,
                   touches>>

\* Every replica restarts: transactions roll back, channels are gone.
Restart ==
    /\ jobs # {} \/ \E p \in Pricers : todo[p] # {} \/ tx[p] # Idle
    /\ Fault
    /\ jobs' = {}
    /\ todo' = [p \in Pricers |-> {}]
    /\ snap' = [p \in Pricers |-> [g \in Groups |-> {}]]
    /\ tx' = [p \in Pricers |-> Idle]
    /\ UNCHANGED <<now, lineVars, chargeVars, account, credited, touches>>

-----------------------------------------------------------------------------
(* The account's other writers. *)

\* CreateAccount, with an opening balance.
OpenAccount(mode) ==
    /\ ~account.open
    /\ account' = [account EXCEPT !.open = TRUE, !.mode = mode,
                                  !.balance = TopUp,
                                  !.cycle = MonthStart(now)]
    /\ credited' = TopUp
    /\ UNCHANGED <<now, lineVars, chargeVars, jobs, pricerVars, touches,
                   faults>>

Recharge ==
    /\ account.open
    /\ Touch
    /\ account' = [account EXCEPT !.balance = @ + TopUp, !.version = @ + 1]
    /\ credited' = credited + TopUp
    /\ UNCHANGED <<now, lineVars, chargeVars, jobs, pricerVars, faults>>

\* UpdateAccount replaces the mode (and limits that charging does not read).
UpdateAccount(mode) ==
    /\ account.open
    /\ mode # account.mode
    /\ Touch
    /\ account' = [account EXCEPT !.mode = mode, !.version = @ + 1]
    /\ UNCHANGED <<now, lineVars, chargeVars, credited, jobs, pricerVars,
                   faults>>

\* CycleResetRunner.ResetOnce: one guarded UPDATE.
ResetCycleNoSpent ==
    account' = [account EXCEPT !.used = 0, !.cycle = MonthStart(now),
                               !.version = @ + 1]

ResetCycle ==
    account' = [account EXCEPT !.used = 0, !.spent = 0,
                               !.cycle = MonthStart(now), !.version = @ + 1]

ResetOnce ==
    /\ account.open
    /\ account.cycle < MonthStart(now)
    /\ ResetCycle
    /\ UNCHANGED <<now, lineVars, chargeVars, credited, jobs, pricerVars,
                   touches, faults>>

-----------------------------------------------------------------------------
PricerStep(p) ==
    \/ ChargeGroupCommit(p)
    \/ ChargeGroupConflict(p)
    \/ \E g \in Groups : ChargeGroupConverge(p, g) \/ ChargeGroupBegin(p, g)

Next ==
    \/ Tick
    \/ \E r \in Requests : HandleMeteringEvent(r)
    \/ ReconcileOnce
    \/ \E p \in Pricers :
         \/ PricerStep(p)
         \/ ChargeGroupFail(p)
         \/ \E g \in Groups : SkipGroup(p, g)
         \/ AbandonPass(p)
    \/ \E b \in Buckets :
         \/ \E p \in Consumers : HandleSettlement(p, b)
         \/ \E p \in Workers : WorkerTakes(p, b)
    \/ Restart
    \/ \E m \in {"prepaid", "postpaid"} :
         OpenAccount(m) \/ UpdateAccount(m)
    \/ Recharge
    \/ ResetOnce

Spec == Init /\ [][Next]_vars

(* The organization opened its prepaid account before any usage. *)
OpenedInit == InitWith([NoAccount EXCEPT !.open = TRUE])

OpenedSpec == OpenedInit /\ [][Next]_vars

(* Fairness: time passes, the reconciliation ticker keeps firing and its   *)
(* workers run.  Nothing is assumed of settlement events.                  *)
Fairness ==
    /\ WF_vars(Tick)
    /\ WF_vars(ReconcileOnce)
    /\ \A p \in Pricers : WF_vars(PricerStep(p))
    /\ \A p \in Workers : WF_vars(\E b \in Buckets : WorkerTakes(p, b))

LiveSpec == Spec /\ Fairness

-----------------------------------------------------------------------------
(* Properties. *)

\* A line a charge was computed from is marked with it: no interleaving of
\* passes, rollbacks and replays leaves a billed line where a later charge
\* can count it again.
BilledLinesAreCharged ==
    \A g \in charges : \A r \in billed[g] :
        GroupOf[r] = g /\ line[r] = "charged"

\* Only a committed charge retires a line: whatever is marked charged has
\* the charge record of its own group behind it.
ChargedLineHasCharge ==
    \A r \in Requests : line[r] = "charged" => GroupOf[r] \in charges

\* Settled and in-flight spend never overlap: the accrual the funds gate
\* subtracts belongs to uncharged lines only (AccrualMicros).
AccrualIsInFlight ==
    \A r \in accruing : line[r] = "open"

Deductions == {g \in Groups : deducted[g] # -1}

\* The grace periods do their work on this side too, whichever is shorter: a
\* line ingested before either trigger may price its hour is in the amount of
\* the charge it is marked with.
TimelyLinesAreBilled ==
    \A r \in timely : line[r] = "charged" => r \in billed[GroupOf[r]]

\* The cycle's deductions never exceed the cycle's charges: concurrent
\* deductions, each computed from its own reading of the ledger, never take
\* the same cents twice within a cycle.
NeverOverDeducts ==
    account.spent <= Cents(ChargedMicros(InCycle(charges, account.cycle)))

\* Every deduction brings what the cycle has deducted to the cycle's charges,
\* rounded once: no cent is lost to rounding per charge, to a conflict or to
\* a recharge in between.  (The organization had its account from the start.)
DeductionsExact ==
    [][deducted' # deducted =>
         account'.spent
           = Cents(ChargedMicros(InCycle(charges, account.cycle)))']_vars

\* A committed charge never changes: neither its lines nor its deduction.
ChargesAreFrozen ==
    [][\A g \in charges : /\ g \in charges'
                          /\ billed'[g] = billed[g]
                          /\ deducted'[g] = deducted[g]]_vars

\* Settlement by the hour: usage lines are the items, charges the sums.
Hours == INSTANCE SettleOnce
           WITH Items <- Requests,
                closed <- {g \in Groups : Eligible(BucketOf[g])},
                prompt <- [g \in Groups |-> UnchargedOf(g) \cap timely],
                late   <- [g \in Groups |-> UnchargedOf(g) \ timely],
                sealed <- charges, sums <- billed

\* PriceOnce implements it under its two triggers, with redelivered events,
\* rollbacks and restarts: a group is charged once, for every line that was
\* there in time, and what is marked later is in no charge at all.
SettlesOnce == Hours!Spec

\* The account's balance moves only by its ledger: a deduction or recharge
\* is never lost to a concurrent writer's stale read.
BalanceNeverLost ==
    [][account'.balance - account.balance \in
         {0} \cup {credited' - credited}
             \cup {-(deducted'[g]) : g \in {x \in Groups :
                        deducted'[x] # deducted[x]}}]_vars

\* Every usage line is charged in the end, with settlement events lost,
\* version conflicts, failed transactions and restarts.
EveryLineCharged ==
    \A r \in Requests : line[r] = "open" ~> line[r] = "charged"

\* balance-quota.md AC4: the balance "decreases by the charged amounts and
\* each charge record has exactly one deduction transaction".  Summed over the
\* charges that have one, the deductions come to no less than the charges.
ChargesAreDeducted ==
    MapThenSumSet(LAMBDA g : deducted[g], Deductions)
        >= Cents(ChargedMicros(Deductions))
=============================================================================
