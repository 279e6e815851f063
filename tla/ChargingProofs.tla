--------------------------- MODULE ChargingProofs ---------------------------
(* Theorems of module Charging on lines and charges, for every number of   *)
(* requests, groups, buckets and pricers and every setting of the periods  *)
(* and prices.  No theorem here depends on an amount of money: those on    *)
(* the account are in ChargingMoneyProofs.                                 *)
EXTENDS Charging, TLAPS

-----------------------------------------------------------------------------
(* The inductive invariant, in named parts. *)

\* The types of everything but the account and the amounts.
Shapes ==
    /\ now \in Nat
    /\ line \in [Requests -> {"none", "open", "charged"}]
    /\ timely \subseteq Requests
    /\ accruing \subseteq Requests
    /\ charges \subseteq Groups
    /\ billed \in [Groups -> SUBSET Requests]
    /\ DOMAIN deducted = Groups
    /\ jobs \subseteq Buckets
    /\ todo \in [Pricers -> SUBSET Groups]
    /\ snap \in [Pricers -> [Groups -> SUBSET Requests]]
    /\ DOMAIN tx = Pricers

\* An open transaction charges a group its pricer read, which has no charge
\* yet and which no other open transaction charges.
TxInv ==
    \A p \in Pricers : tx[p] # Idle =>
        /\ tx[p].group \in todo[p]
        /\ tx[p].group \notin charges
        /\ \A q \in Pricers :
             q # p /\ tx[q] # Idle => tx[q].group # tx[p].group

\* What a pricer summed for a group are lines of that group.
SummedLines ==
    \A p \in Pricers : \A g \in Groups : \A r \in snap[p][g] :
        GroupOf[r] = g /\ line[r] # "none"

\* Hours are queued, priced and charged after their grace period.
PricedLate ==
    /\ \A b \in jobs : Eligible(b)
    /\ \A g \in charges : Eligible(BucketOf[g])
    /\ \A p \in Pricers : \A g \in todo[p] : Eligible(BucketOf[g])

\* No pricer's sum misses a timely uncharged line, and a charged group has
\* none left.
TimelySummed ==
    \A r \in timely :
        /\ line[r] # "none"
        /\ line[r] = "open" =>
             /\ GroupOf[r] \notin charges
             /\ \A p \in Pricers :
                  GroupOf[r] \in todo[p] => r \in snap[p][GroupOf[r]]

\* A pass reads groups that have something to charge; there is no amount
\* without a charge.
SumsHere ==
    /\ \A p \in Pricers : \A g \in todo[p] : snap[p][g] # {}
    /\ \A g \in Groups \ charges : billed[g] = {}

IInv ==
    /\ Shapes
    /\ SumsHere
    /\ TxInv
    /\ SummedLines
    /\ PricedLate
    /\ BilledLinesAreCharged
    /\ ChargedLineHasCharge
    /\ AccrualIsInFlight
    /\ TimelySummed
    /\ TimelyLinesAreBilled

-----------------------------------------------------------------------------
(* What a step may do, as far as lines and charges are concerned: seven     *)
(* kinds of steps, each weaker than the actions it stands for.              *)

\* The pricers keep what they know.
PricersKeep == todo' = todo /\ snap' = snap /\ tx' = tx

\* Some pricers drop groups, closing the transactions they had open on them.
PricersDrop ==
    \A p \in Pricers :
        /\ todo'[p] \subseteq todo[p]
        /\ \A g \in Groups : snap'[p][g] \subseteq snap[p][g]
        /\ \A g \in todo'[p] : snap'[p][g] = snap[p][g]
        /\ \/ tx'[p] = Idle
           \/ tx'[p] = tx[p] /\ todo'[p] = todo[p]

ChargesKeep == charges' = charges /\ billed' = billed /\ deducted' = deducted

\* The clock, the reconciliation ticker, the account's own writers.
QuietStep ==
    /\ now' \in Nat /\ now <= now'
    /\ line' = line /\ timely' = timely /\ accruing' \subseteq accruing
    /\ ChargesKeep /\ PricersKeep
    /\ jobs' \subseteq Buckets
    /\ \A b \in jobs' : b \in jobs \/ Eligible(b)

\* A line is ingested, once.
IngestStep(r) ==
    /\ line[r] = "none"
    /\ line' = [line EXCEPT ![r] = "open"]
    /\ timely' = IF HourPending(BucketOf[GroupOf[r]])
                 THEN timely \cup {r} ELSE timely
    /\ accruing' \subseteq accruing \cup {r}
    /\ ChargesKeep /\ PricersKeep
    /\ now' = now /\ jobs' = jobs

\* A pricer reads the uncharged groups of a bucket.
ReadStep(p, b) ==
    LET found == {g \in Groups : BucketOf[g] = b /\ UnchargedOf(g) # {}}
    IN  /\ Eligible(b)
        /\ tx[p] = Idle
        /\ todo' = [todo EXCEPT ![p] = found]
        /\ snap' = [snap EXCEPT ![p] = [g \in Groups |->
                       IF g \in found THEN UnchargedOf(g) ELSE {}]]
        /\ tx' = tx
        /\ UNCHANGED lineVars /\ ChargesKeep
        /\ now' = now /\ jobs' \subseteq jobs

\* A transaction opens on a group.
BeginStep(p, g) ==
    /\ g \in todo[p] /\ g \notin charges /\ NotHeld(g)
    /\ \E read, accrued :
         tx' = [tx EXCEPT ![p] = [group |-> g, read |-> read,
                                  accrued |-> accrued]]
    /\ todo' = todo /\ snap' = snap
    /\ UNCHANGED lineVars /\ ChargesKeep
    /\ now' = now /\ jobs' = jobs

\* A transaction commits its group's charge, with or without a deduction.
CommitStep(p, g) ==
    /\ tx[p] # Idle /\ g = tx[p].group
    /\ InsertCharge(g, snap[p][g])
    /\ \E c : deducted' = deducted \/ deducted' = [deducted EXCEPT ![g] = c]
    /\ MarkCharged(g)
    /\ PricersDrop
    /\ tx'[p] = Idle /\ \A q \in Pricers \ {p} : tx'[q] = tx[q]
    /\ now' = now /\ jobs' = jobs

\* A pricer marks the lines of a group that is charged already.
ConvergeStep(g) ==
    /\ g \in charges
    /\ MarkCharged(g)
    /\ ChargesKeep /\ PricersDrop
    /\ now' = now /\ jobs' = jobs

\* A rollback, an abandoned pass, a restart.
DropStep ==
    /\ UNCHANGED lineVars /\ ChargesKeep /\ PricersDrop
    /\ now' = now /\ jobs' \subseteq jobs

ChargingStep ==
    \/ QuietStep
    \/ \E r \in Requests : IngestStep(r)
    \/ \E p \in Pricers : \E b \in Buckets : ReadStep(p, b)
    \/ \E p \in Pricers : \E g \in Groups : BeginStep(p, g) \/ CommitStep(p, g)
    \/ \E g \in Groups : ConvergeStep(g)
    \/ DropStep
-----------------------------------------------------------------------------
(* Every action is one of these steps. *)

\* The ingestion handlers: a redelivered or repeated event changes nothing.
LEMMA IngestIsStep ==
    ASSUME Shapes, NEW r \in Requests, HandleMeteringEvent(r)
    PROVE  Shapes' /\ (IngestStep(r) \/ DropStep)
<1> USE DEF HandleMeteringEvent, IngestUsageLine, lineVars, chargeVars,
            pricerVars
<1>1. CASE line[r] = "none"
  <2>1. IngestStep(r)
      BY <1>1 DEF IngestStep, ChargesKeep, PricersKeep
  <2>2. Shapes' BY <1>1 DEF Shapes
  <2> QED BY <2>1, <2>2
<1>2. CASE line[r] # "none"
  <2>1. UNCHANGED <<now, lineVars, chargeVars, jobs, pricerVars>> BY <1>2
  <2>2. Shapes' BY <2>1 DEF Shapes
  <2>3. DropStep BY <2>1 DEF DropStep, ChargesKeep, PricersDrop
  <2> QED BY <2>2, <2>3
<1> QED BY <1>1, <1>2

\* Neither grace period is shorter than the first one.
LEMMA FirstGraceIsLeast ==
    FirstGrace \in Nat /\ FirstGrace <= Grace /\ FirstGrace <= EventGrace
BY ConstantsAssumption DEF FirstGrace

\* A trigger fires after its own grace period, so after the shorter one.
LEMMA TriggersAreLate ==
    ASSUME Shapes, NEW b \in Buckets, Announced(b) \/ Reconcilable(b)
    PROVE  Eligible(b)
<1>1. /\ StartOf[b] + HourTicks \in Int
      /\ Grace \in Int /\ EventGrace \in Int
    BY ConstantsAssumption
<1> QED BY <1>1, FirstGraceIsLeast DEF Announced, Reconcilable, Eligible, Shapes

\* The clock, the reconciliation ticker and the account's writers.
LEMMA QuietIsStep ==
    ASSUME Shapes,
           \/ Tick
           \/ ReconcileOnce
           \/ \E m \in {"prepaid", "postpaid"} :
                OpenAccount(m) \/ UpdateAccount(m)
           \/ Recharge
           \/ ResetOnce
    PROVE  Shapes' /\ QuietStep
<1> USE DEF lineVars, chargeVars, pricerVars, ChargesKeep, PricersKeep
<1>1. CASE Tick
  <2>1. now' \in Nat /\ now <= now' BY <1>1 DEF Tick, Shapes
  <2>2. Shapes' BY <1>1, <2>1 DEF Tick, Shapes
  <2>3. QuietStep BY <1>1, <2>1 DEF Tick, QuietStep, Shapes
  <2> QED BY <2>2, <2>3
<1>2. CASE ReconcileOnce
  <2>1. accruing' \subseteq accruing BY <1>2 DEF ReconcileOnce
  <2>2. jobs' \subseteq Buckets /\ \A b \in jobs' : b \in jobs \/ Eligible(b)
      BY <1>2, TriggersAreLate DEF ReconcileOnce, Shapes
  <2>3. now <= now BY DEF Shapes
  <2>4. QuietStep BY <1>2, <2>1, <2>2, <2>3 DEF ReconcileOnce, QuietStep, Shapes
  <2>5. Shapes' BY <1>2, <2>1, <2>2 DEF ReconcileOnce, Shapes
  <2> QED BY <2>4, <2>5
<1>3. CASE \/ \E m \in {"prepaid", "postpaid"} :
                OpenAccount(m) \/ UpdateAccount(m)
           \/ Recharge
           \/ ResetOnce
  <2>1. UNCHANGED <<now, lineVars, chargeVars, jobs, pricerVars>>
      BY <1>3 DEF OpenAccount, UpdateAccount, Recharge, ResetOnce
  <2>2. now <= now BY DEF Shapes
  <2>3. QuietStep BY <2>1, <2>2 DEF QuietStep, Shapes
  <2>4. Shapes' BY <2>1 DEF Shapes
  <2> QED BY <2>3, <2>4
<1> QED BY <1>1, <1>2, <1>3

\* The two triggers.  A worker prices a bucket the ticker found eligible.
LEMMA ReadIsStep ==
    ASSUME Shapes, PricedLate, NEW p \in Pricers, NEW b \in Buckets,
           HandleSettlement(p, b) \/ WorkerTakes(p, b)
    PROVE  Shapes' /\ ReadStep(p, b)
<1> USE DEF HandleSettlement, WorkerTakes, StartPriceOnce, lineVars, chargeVars
<1>1. Eligible(b) BY TriggersAreLate DEF PricedLate
<1>2. jobs' \subseteq jobs OBVIOUS
<1>3. ReadStep(p, b) BY <1>1, <1>2 DEF ReadStep, ChargesKeep
<1>4. /\ todo' \in [Pricers -> SUBSET Groups]
      /\ snap' \in [Pricers -> [Groups -> SUBSET Requests]]
  <2> DEFINE found == {g \in Groups : BucketOf[g] = b /\ UnchargedOf(g) # {}}
             sums  == [g \in Groups |->
                         IF g \in found THEN UnchargedOf(g) ELSE {}]
  <2>1. \A g \in Groups : UnchargedOf(g) \in SUBSET Requests
      BY DEF UnchargedOf
  <2>2. sums \in [Groups -> SUBSET Requests] BY <2>1
  <2>3. todo' = [todo EXCEPT ![p] = found] /\ snap' = [snap EXCEPT ![p] = sums]
      OBVIOUS
  <2>4. found \subseteq Groups OBVIOUS
  <2> HIDE DEF found, sums
  <2> QED BY <2>2, <2>3, <2>4 DEF Shapes
<1>5. Shapes' BY <1>2, <1>4 DEF Shapes
<1> QED BY <1>3, <1>5

\* Marking keeps the types.
LEMMA MarkedShapes ==
    ASSUME Shapes, NEW g \in Groups, MarkCharged(g)
    PROVE  /\ line' \in [Requests -> {"none", "open", "charged"}]
           /\ timely' \subseteq Requests
           /\ accruing' \subseteq Requests
BY DEF Shapes, MarkCharged

\* Leaving the loop's group behind drops it, and only it.
LEMMA DequeueDrops ==
    ASSUME Shapes, NEW p \in Pricers, NEW g \in Groups, Dequeue(p, g),
           \/ tx' = tx /\ tx[p] = Idle
           \/ tx' = [tx EXCEPT ![p] = Idle]
    PROVE  /\ todo' \in [Pricers -> SUBSET Groups]
           /\ snap' \in [Pricers -> [Groups -> SUBSET Requests]]
           /\ DOMAIN tx' = Pricers
           /\ tx'[p] = Idle
           /\ \A q \in Pricers \ {p} : tx'[q] = tx[q]
           /\ PricersDrop
<1>1. /\ todo' = [todo EXCEPT ![p] = todo[p] \ {g}]
      /\ snap' = [snap EXCEPT ![p][g] = {}]
    BY DEF Dequeue
<1>2. /\ todo' \in [Pricers -> SUBSET Groups]
      /\ snap' \in [Pricers -> [Groups -> SUBSET Requests]]
    BY <1>1 DEF Shapes
<1>3. /\ DOMAIN tx' = Pricers
      /\ tx'[p] = Idle
      /\ \A q \in Pricers \ {p} : tx'[q] = tx[q]
    BY DEF Shapes
<1>4. PricersDrop BY <1>1, <1>3 DEF PricersDrop, Shapes
<1> QED BY <1>2, <1>3, <1>4

\* ChargeGroup: its transaction, and its way out when the charge exists.
LEMMA ChargeIsStep ==
    ASSUME Shapes, TxInv, NEW p \in Pricers, PricerStep(p)
    PROVE  /\ Shapes'
           /\ \/ \E g \in Groups : BeginStep(p, g) \/ CommitStep(p, g)
              \/ \E g \in Groups : ConvergeStep(g)
              \/ DropStep
<1> USE DEF chargeVars
<1>1. ASSUME NEW g \in Groups, ChargeGroupConverge(p, g)
      PROVE  Shapes' /\ ConvergeStep(g)
  <2> USE <1>1 DEF ChargeGroupConverge
  <2>1. Shapes' BY MarkedShapes, DequeueDrops DEF Shapes
  <2>2. ConvergeStep(g) BY DequeueDrops DEF ConvergeStep, ChargesKeep
  <2> QED BY <2>1, <2>2
<1>2. ASSUME NEW g \in Groups, ChargeGroupBegin(p, g)
      PROVE  Shapes' /\ BeginStep(p, g)
  <2> USE <1>2 DEF ChargeGroupBegin
  <2>1. UNCHANGED <<now, lineVars, chargeVars, jobs, todo, snap>> OBVIOUS
  <2>2. \E accrued : tx' = [tx EXCEPT ![p] =
            [group |-> g, read |-> account, accrued |-> accrued]]
      OBVIOUS
  <2>3. Shapes' BY <2>1, <2>2 DEF Shapes, lineVars
  <2>4. BeginStep(p, g) BY <2>1, <2>2 DEF BeginStep, ChargesKeep
  <2> QED BY <2>3, <2>4
<1>3. ASSUME ChargeGroupCommit(p)
      PROVE  Shapes' /\ \E g \in Groups : CommitStep(p, g)
  <2> DEFINE g == tx[p].group
  <2>1. g \in Groups BY <1>3 DEF ChargeGroupCommit, TxInv, Shapes
  <2>2. /\ tx[p] # Idle
        /\ InsertCharge(g, snap[p][g])
        /\ MarkCharged(g)
        /\ Dequeue(p, g)
        /\ tx' = [tx EXCEPT ![p] = Idle]
        /\ now' = now /\ jobs' = jobs
      BY <1>3 DEF ChargeGroupCommit
  <2>3. \E c : deducted' = deducted \/ deducted' = [deducted EXCEPT ![g] = c]
      BY <1>3 DEF ChargeGroupCommit
  <2> HIDE DEF g
  <2>4. /\ todo' \in [Pricers -> SUBSET Groups]
        /\ snap' \in [Pricers -> [Groups -> SUBSET Requests]]
        /\ DOMAIN tx' = Pricers
        /\ tx'[p] = Idle
        /\ \A q \in Pricers \ {p} : tx'[q] = tx[q]
        /\ PricersDrop
      BY <2>1, <2>2, DequeueDrops
  <2>5. /\ charges' \subseteq Groups
        /\ billed' \in [Groups -> SUBSET Requests]
        /\ DOMAIN deducted' = Groups
      BY <2>1, <2>2, <2>3 DEF InsertCharge, Shapes
  <2>6. Shapes' BY <2>1, <2>2, <2>4, <2>5, MarkedShapes DEF Shapes
  <2>7. g = tx[p].group BY DEF g
  <2>8. CommitStep(p, g) BY <2>2, <2>3, <2>4, <2>7 DEF CommitStep
  <2> QED BY <2>1, <2>6, <2>8
<1>4. ASSUME ChargeGroupConflict(p) PROVE Shapes' /\ DropStep
  <2> USE <1>4 DEF ChargeGroupConflict, RollBack
  <2>1. tx[p].group \in Groups BY DEF TxInv, Shapes
  <2>2. Shapes' BY <2>1, DequeueDrops DEF Shapes, lineVars
  <2>3. DropStep BY <2>1, DequeueDrops DEF DropStep, ChargesKeep, Shapes
  <2> QED BY <2>2, <2>3
<1> QED BY <1>1, <1>2, <1>3, <1>4 DEF PricerStep

\* Failures: of one group, of a pass, of every replica.
LEMMA FailureIsStep ==
    ASSUME Shapes, TxInv,
           \/ \E p \in Pricers :
                \/ ChargeGroupFail(p) \/ AbandonPass(p)
                \/ \E g \in Groups : SkipGroup(p, g)
           \/ Restart
    PROVE  Shapes' /\ DropStep
<1> USE DEF chargeVars
<1>1. ASSUME NEW p \in Pricers, ChargeGroupFail(p) PROVE Shapes' /\ DropStep
  <2> USE <1>1 DEF ChargeGroupFail, RollBack
  <2>1. tx[p].group \in Groups BY DEF TxInv, Shapes
  <2>2. Shapes' BY <2>1, DequeueDrops DEF Shapes, lineVars
  <2>3. DropStep BY <2>1, DequeueDrops DEF DropStep, ChargesKeep, Shapes
  <2> QED BY <2>2, <2>3
<1>2. ASSUME NEW p \in Pricers, AbandonPass(p) PROVE Shapes' /\ DropStep
  <2> USE <1>2 DEF AbandonPass
  <2>1. Shapes' BY DEF Shapes, lineVars
  <2>2. PricersDrop BY DEF PricersDrop, Shapes
  <2>3. DropStep BY <2>2 DEF DropStep, ChargesKeep, Shapes
  <2> QED BY <2>1, <2>3
<1>3. ASSUME NEW p \in Pricers, NEW g \in Groups, SkipGroup(p, g)
      PROVE  Shapes' /\ DropStep
  <2> USE <1>3 DEF SkipGroup
  <2>1. Shapes' BY DequeueDrops DEF Shapes, lineVars
  <2>2. DropStep BY DequeueDrops DEF DropStep, ChargesKeep, Shapes
  <2> QED BY <2>1, <2>2
<1>4. CASE Restart
  <2> USE <1>4 DEF Restart
  <2>1. Shapes' BY DEF Shapes, lineVars
  <2>2. PricersDrop BY DEF PricersDrop, Shapes
  <2>3. DropStep BY <2>2 DEF DropStep, ChargesKeep, Shapes
  <2> QED BY <2>1, <2>3
<1> QED BY <1>1, <1>2, <1>3, <1>4

\* Every step of the specification is a step as classified above.
LEMMA NextIsStep ==
    ASSUME Shapes, TxInv, PricedLate, [Next]_vars
    PROVE  Shapes' /\ ChargingStep
<1>1. CASE UNCHANGED vars
  <2> USE <1>1 DEF vars, lineVars, chargeVars, pricerVars
  <2>1. Shapes' BY DEF Shapes
  <2>2. DropStep BY DEF DropStep, ChargesKeep, PricersDrop
  <2> QED BY <2>1, <2>2 DEF ChargingStep
<1>2. CASE Next
  <2>1. Consumers \subseteq Pricers /\ Workers \subseteq Pricers
      BY DEF Pricers
  <2> QED BY <1>2, <2>1, IngestIsStep, QuietIsStep, ReadIsStep, ChargeIsStep,
             FailureIsStep DEF Next, ChargingStep
<1> QED BY <1>1, <1>2

-----------------------------------------------------------------------------
(* Lines advance, charges stay. *)

\* A line only moves forward, and only a charge of its group retires it.
LEMMA LinesAdvance ==
    ASSUME Shapes, ChargingStep, NEW r \in Requests
    PROVE  \/ line'[r] = line[r]
           \/ line[r] = "none" /\ line'[r] = "open"
           \/ /\ line[r] = "open" /\ line'[r] = "charged"
              /\ GroupOf[r] \in charges'
<1>1. CASE QuietStep \/ DropStep BY <1>1 DEF QuietStep, DropStep, lineVars
<1>2. ASSUME NEW x \in Requests, IngestStep(x)
      PROVE  \/ line'[r] = line[r]
             \/ line[r] = "none" /\ line'[r] = "open"
  BY <1>2 DEF IngestStep, Shapes
<1>3. ASSUME NEW p \in Pricers, NEW b \in Buckets, ReadStep(p, b)
      PROVE  line'[r] = line[r]
  BY <1>3 DEF ReadStep, lineVars
<1>4. ASSUME NEW p \in Pricers, NEW g \in Groups, BeginStep(p, g)
      PROVE  line'[r] = line[r]
  BY <1>4 DEF BeginStep, lineVars
<1>5. ASSUME NEW g \in Groups, MarkCharged(g), g \in charges'
      PROVE  \/ line'[r] = line[r]
             \/ /\ line[r] = "open" /\ line'[r] = "charged"
                /\ GroupOf[r] \in charges'
  BY <1>5 DEF MarkCharged, UnchargedOf
<1>6. ASSUME NEW p \in Pricers, NEW g \in Groups, CommitStep(p, g)
      PROVE  MarkCharged(g) /\ g \in charges'
  BY <1>6 DEF CommitStep, InsertCharge
<1>7. ASSUME NEW g \in Groups, ConvergeStep(g)
      PROVE  MarkCharged(g) /\ g \in charges'
  BY <1>7 DEF ConvergeStep, ChargesKeep
<1> QED BY <1>1, <1>2, <1>3, <1>4, <1>5, <1>6, <1>7 DEF ChargingStep

\* A charge is inserted once and for all.
LEMMA ChargesStay ==
    ASSUME Shapes, TxInv, ChargingStep, NEW g \in charges
    PROVE  /\ g \in charges'
           /\ billed'[g] = billed[g]
           /\ deducted'[g] = deducted[g]
<1>1. CASE ChargesKeep BY <1>1 DEF ChargesKeep
<1>2. ASSUME NEW p \in Pricers, NEW h \in Groups, CommitStep(p, h)
      PROVE  /\ g \in charges'
             /\ billed'[g] = billed[g]
             /\ deducted'[g] = deducted[g]
  <2>1. h # g /\ g \in Groups BY <1>2 DEF CommitStep, TxInv, Shapes
  <2>2. InsertCharge(h, snap[p][h]) BY <1>2 DEF CommitStep
  <2>3. \E c : deducted' = deducted \/ deducted' = [deducted EXCEPT ![h] = c]
      BY <1>2 DEF CommitStep
  <2>4. deducted'[g] = deducted[g] BY <2>1, <2>3 DEF Shapes
  <2> QED BY <2>1, <2>2, <2>4 DEF InsertCharge, Shapes
<1> QED BY <1>1, <1>2
        DEF ChargingStep, QuietStep, IngestStep, ReadStep, BeginStep,
            ConvergeStep, DropStep

\* What is new among the charges is the group of a transaction.
LEMMA NewCharge ==
    ASSUME Shapes, TxInv, ChargingStep, NEW g \in charges' \ charges
    PROVE  \E p \in Pricers : CommitStep(p, g)
<1>1. ~ChargesKeep BY DEF ChargesKeep
<1>2. PICK p \in Pricers, h \in Groups : CommitStep(p, h)
    BY <1>1 DEF ChargingStep, QuietStep, IngestStep, ReadStep, BeginStep,
                ConvergeStep, DropStep
<1>3. h = g BY <1>2 DEF CommitStep, InsertCharge
<1> QED BY <1>2, <1>3

-----------------------------------------------------------------------------
(* The pricers. *)

\* Dropping groups keeps the transactions apart when no group is charged
\* that another transaction still works on.
LEMMA DropKeepsTx ==
    ASSUME Shapes, TxInv, PricersDrop,
           \A p \in Pricers : tx'[p] # Idle => tx[p].group \notin charges'
    PROVE  TxInv'
BY DEF TxInv, PricersDrop, Shapes

\* Open transactions stay apart: a group another transaction has inserted
\* makes the INSERT wait, and a commit closes its own transaction only.
LEMMA TxStep ==
    ASSUME Shapes, TxInv, ChargingStep
    PROVE  TxInv'
<1>1. CASE PricersKeep /\ ChargesKeep
  BY <1>1 DEF PricersKeep, ChargesKeep, TxInv
<1>2. ASSUME NEW p \in Pricers, NEW b \in Buckets, ReadStep(p, b)
      PROVE  TxInv'
  BY <1>2 DEF ReadStep, ChargesKeep, TxInv, Shapes
<1>3. ASSUME NEW p \in Pricers, NEW g \in Groups, BeginStep(p, g)
      PROVE  TxInv'
  <2>1. /\ tx'[p].group = g
        /\ \A q \in Pricers \ {p} : tx'[q] = tx[q]
      BY <1>3 DEF BeginStep, Shapes
  <2>2. todo' = todo /\ charges' = charges
      BY <1>3 DEF BeginStep, ChargesKeep
  <2>3. g \in todo[p] /\ g \notin charges /\ \A q \in Pricers : tx[q].group # g
      BY <1>3 DEF BeginStep, NotHeld
  <2> QED BY <2>1, <2>2, <2>3 DEF TxInv
<1>4. ASSUME NEW p \in Pricers, NEW g \in Groups, CommitStep(p, g)
      PROVE  TxInv'
  <2>1. charges' = charges \cup {g} /\ PricersDrop
      BY <1>4 DEF CommitStep, InsertCharge
  <2>2. ASSUME NEW q \in Pricers, tx'[q] # Idle
        PROVE  tx[q].group \notin charges'
    <3>1. q # p /\ tx[q] # Idle BY <1>4, <2>2 DEF CommitStep
    <3>2. tx[q].group # g /\ tx[q].group \notin charges
        BY <1>4, <3>1 DEF CommitStep, TxInv
    <3> QED BY <2>1, <3>2
  <2> QED BY <2>1, <2>2, DropKeepsTx
<1>5. ASSUME PricersDrop, ChargesKeep PROVE TxInv'
  BY <1>5, DropKeepsTx DEF TxInv, ChargesKeep, PricersDrop
<1> QED BY <1>1, <1>2, <1>3, <1>4, <1>5
        DEF ChargingStep, QuietStep, IngestStep, ConvergeStep, DropStep

\* A pricer's sum comes from its own read, and lines never go back.
LEMMA SummedStep ==
    ASSUME Shapes, SummedLines, ChargingStep
    PROVE  SummedLines'
<1>1. \A r \in Requests : line[r] # "none" => line'[r] # "none"
    BY LinesAdvance
<1>2. CASE \A p \in Pricers, g \in Groups : snap'[p][g] \subseteq snap[p][g]
  BY <1>1, <1>2 DEF SummedLines, Shapes
<1>3. ASSUME NEW p \in Pricers, NEW b \in Buckets, ReadStep(p, b)
      PROVE  SummedLines'
  <2>1. line' = line BY <1>3 DEF ReadStep, lineVars
  <2>2. \A q \in Pricers \ {p} : snap'[q] = snap[q]
      BY <1>3 DEF ReadStep, Shapes
  <2>3. \A g \in Groups : snap'[p][g] \subseteq UnchargedOf(g)
      BY <1>3 DEF ReadStep, Shapes
  <2> QED BY <2>1, <2>2, <2>3 DEF SummedLines, UnchargedOf
<1> QED BY <1>2, <1>3
        DEF ChargingStep, QuietStep, IngestStep, BeginStep, CommitStep,
            ConvergeStep, DropStep, PricersKeep, PricersDrop

\* Groups leave a pass with what it summed of them, and enter with something.
LEMMA SumsStep ==
    ASSUME Shapes, TxInv, SumsHere, ChargingStep
    PROVE  SumsHere'
<1>1. ASSUME NEW g \in Groups, g \notin charges' PROVE billed'[g] = {}
  <2>1. CASE ChargesKeep BY <1>1, <2>1 DEF ChargesKeep, SumsHere
  <2>2. ASSUME NEW p \in Pricers, NEW h \in Groups, CommitStep(p, h)
        PROVE  billed'[g] = {}
    BY <1>1, <2>2 DEF CommitStep, InsertCharge, SumsHere, Shapes
  <2> QED BY <2>1, <2>2
          DEF ChargingStep, QuietStep, IngestStep, ReadStep, BeginStep,
              ConvergeStep, DropStep
<1>2. ASSUME PricersDrop \/ (todo' = todo /\ snap' = snap)
      PROVE  \A p \in Pricers : \A g \in todo'[p] : snap'[p][g] # {}
  BY <1>2 DEF PricersDrop, SumsHere
<1>3. ASSUME NEW q \in Pricers, NEW b \in Buckets, ReadStep(q, b),
             NEW p \in Pricers, NEW g \in todo'[p]
      PROVE  snap'[p][g] # {}
  <2>1. CASE p # q
    BY <1>3, <2>1 DEF ReadStep, SumsHere, Shapes
  <2>2. CASE p = q
    <3>1. g \in Groups /\ UnchargedOf(g) # {} /\ snap'[p][g] = UnchargedOf(g)
        BY <1>3, <2>2 DEF ReadStep, Shapes
    <3> QED BY <3>1
  <2> QED BY <2>1, <2>2
<1>4. \A p \in Pricers : \A g \in todo'[p] : snap'[p][g] # {}
  BY <1>2, <1>3
     DEF ChargingStep, QuietStep, IngestStep, BeginStep, CommitStep,
         ConvergeStep, DropStep, PricersKeep
<1> QED BY <1>1, <1>4 DEF SumsHere

\* Hours stay eligible, and only eligible hours enter a queue or a pass.
LEMMA PricedLateStep ==
    ASSUME Shapes, TxInv, PricedLate, ChargingStep
    PROVE  PricedLate'
<1>1. now' >= now /\ now' \in Nat
    BY DEF ChargingStep, QuietStep, IngestStep, ReadStep, BeginStep,
           CommitStep, ConvergeStep, DropStep, Shapes
<1>2. \A b \in Buckets : Eligible(b) => Eligible(b)'
  <2>1. ASSUME NEW b \in Buckets PROVE StartOf[b] + HourTicks + FirstGrace \in Int
      BY ConstantsAssumption, FirstGraceIsLeast
  <2> QED BY <1>1, <2>1 DEF Eligible, Shapes
<1>3. \A b \in jobs' : Eligible(b)'
  <2>1. jobs' \subseteq Buckets /\ \A b \in jobs' : b \in jobs \/ Eligible(b)
      BY DEF ChargingStep, QuietStep, IngestStep, ReadStep, BeginStep,
             CommitStep, ConvergeStep, DropStep, Shapes
  <2> QED BY <1>2, <2>1 DEF PricedLate
<1>4. \A g \in Groups : BucketOf[g] \in Buckets BY ConstantsAssumption
<1>5. \A g \in charges' : Eligible(BucketOf[g])'
  <2>1. ASSUME NEW g \in charges' \ charges
        PROVE  g \in Groups /\ Eligible(BucketOf[g])
    <3>1. PICK p \in Pricers : CommitStep(p, g) BY NewCharge
    <3>2. g \in todo[p] BY <3>1 DEF CommitStep, TxInv
    <3> QED BY <3>2 DEF PricedLate, Shapes
  <2> QED BY <1>2, <1>4, <2>1 DEF PricedLate, Shapes
<1>6. \A p \in Pricers : \A g \in todo'[p] : g \in Groups /\ Eligible(BucketOf[g])'
  <2>1. CASE \A p \in Pricers : todo'[p] \subseteq todo[p]
    BY <1>2, <1>4, <2>1 DEF PricedLate, Shapes
  <2>2. ASSUME NEW q \in Pricers, NEW b \in Buckets, ReadStep(q, b),
               NEW p \in Pricers, NEW g \in todo'[p]
        PROVE  g \in Groups /\ Eligible(BucketOf[g])'
    <3>1. CASE p # q
      <4>1. g \in todo[p] BY <2>2, <3>1 DEF ReadStep, Shapes
      <4> QED BY <1>2, <1>4, <4>1 DEF PricedLate, Shapes
    <3>2. CASE p = q
      <4>1. g \in Groups /\ BucketOf[g] = b /\ Eligible(b)
          BY <2>2, <3>2 DEF ReadStep, Shapes
      <4> QED BY <1>2, <4>1
    <3> QED BY <3>1, <3>2
  <2> QED BY <2>1, <2>2
          DEF ChargingStep, QuietStep, IngestStep, BeginStep, CommitStep,
              ConvergeStep, DropStep, PricersKeep, PricersDrop
<1> QED BY <1>3, <1>5, <1>6 DEF PricedLate

-----------------------------------------------------------------------------
(* The properties. *)

\* A billed line was read uncharged or charged already, and the commit that
\* bills it marks it.
LEMMA BilledStep ==
    ASSUME Shapes, TxInv, SummedLines, BilledLinesAreCharged, ChargingStep
    PROVE  BilledLinesAreCharged'
<1> SUFFICES ASSUME NEW g \in charges', NEW r \in billed'[g]
             PROVE  GroupOf[r] = g /\ line'[r] = "charged"
    BY DEF BilledLinesAreCharged
<1>1. CASE g \in charges
  <2>1. r \in billed[g] /\ r \in Requests BY <1>1, ChargesStay DEF Shapes
  <2>2. GroupOf[r] = g /\ line[r] = "charged"
      BY <1>1, <2>1 DEF BilledLinesAreCharged
  <2> QED BY <2>1, <2>2, LinesAdvance
<1>2. CASE g \notin charges
  <2>1. PICK p \in Pricers : CommitStep(p, g) BY <1>2, NewCharge
  <2>2. g \in Groups /\ billed' = [billed EXCEPT ![g] = snap[p][g]]
      BY <2>1 DEF CommitStep, InsertCharge, TxInv, Shapes
  <2>3. r \in snap[p][g] /\ r \in Requests BY <2>2 DEF Shapes
  <2>4. GroupOf[r] = g /\ line[r] # "none" BY <2>2, <2>3 DEF SummedLines
  <2>5. MarkCharged(g) BY <2>1 DEF CommitStep
  <2>6. line'[r] = "charged"
      BY <2>3, <2>4, <2>5 DEF MarkCharged, UnchargedOf, Shapes
  <2> QED BY <2>4, <2>6
<1> QED BY <1>1, <1>2

\* Lines are retired by charges, and charges stay.
LEMMA ChargedStep ==
    ASSUME Shapes, TxInv, ChargedLineHasCharge, ChargingStep
    PROVE  ChargedLineHasCharge'
<1> SUFFICES ASSUME NEW r \in Requests, line'[r] = "charged"
             PROVE  GroupOf[r] \in charges'
    BY DEF ChargedLineHasCharge
<1>1. CASE line[r] = "charged"
  BY <1>1, ChargesStay DEF ChargedLineHasCharge
<1>2. CASE line[r] # "charged" BY <1>2, LinesAdvance
<1> QED BY <1>1, <1>2

\* The UPDATE that retires a line retires its accrual.
LEMMA AccrualStep ==
    ASSUME Shapes, AccrualIsInFlight, ChargingStep
    PROVE  AccrualIsInFlight'
<1>1. CASE line' = line /\ accruing' \subseteq accruing
  BY <1>1 DEF AccrualIsInFlight
<1>2. ASSUME NEW r \in Requests, IngestStep(r) PROVE AccrualIsInFlight'
  BY <1>2 DEF IngestStep, AccrualIsInFlight, Shapes
<1>3. ASSUME NEW g \in Groups, MarkCharged(g) PROVE AccrualIsInFlight'
  BY <1>3 DEF MarkCharged, UnchargedOf, AccrualIsInFlight, Shapes
<1> QED BY <1>1, <1>2, <1>3
        DEF ChargingStep, QuietStep, ReadStep, BeginStep, CommitStep,
            ConvergeStep, DropStep, lineVars

\* The accounts of timely lines survive the marking of a group that leaves
\* no timely line of it behind, when pricers only drop groups.
LEMMA TimelyKept ==
    ASSUME Shapes, TimelySummed,
           timely' = timely,
           \A r \in Requests : line'[r] = line[r] \/ line'[r] = "charged",
           \A r \in timely : line'[r] = "open" => GroupOf[r] \notin charges',
           PricersDrop \/ (todo' = todo /\ snap' = snap)
    PROVE  TimelySummed'
<1> SUFFICES ASSUME NEW r \in timely, r \in Requests
             PROVE  /\ line'[r] # "none"
                    /\ line'[r] = "open" =>
                         /\ GroupOf[r] \notin charges'
                         /\ \A p \in Pricers :
                              GroupOf[r] \in todo'[p] =>
                                r \in snap'[p][GroupOf[r]]
    BY DEF TimelySummed, Shapes
<1>1. line'[r] # "none" BY DEF TimelySummed
<1>2. ASSUME line'[r] = "open", NEW p \in Pricers, GroupOf[r] \in todo'[p]
      PROVE  r \in snap'[p][GroupOf[r]]
  <2>1. line[r] = "open" BY <1>2
  <2>2. GroupOf[r] \in todo[p] BY <1>2 DEF PricersDrop
  <2>3. r \in snap[p][GroupOf[r]] BY <2>1, <2>2 DEF TimelySummed
  <2>4. snap'[p][GroupOf[r]] = snap[p][GroupOf[r]] BY <1>2 DEF PricersDrop
  <2> QED BY <2>3, <2>4
<1> QED BY <1>1, <1>2

\* A line that is ingested late enters no sum it should have been in: its
\* hour was not priced, nor being priced, while it was pending.
LEMMA TimelyStep ==
    ASSUME Shapes, PricedLate, TimelySummed, ChargingStep
    PROVE  TimelySummed'
<1>1. ASSUME UNCHANGED <<line, timely>>, ChargesKeep,
             PricersDrop \/ (todo' = todo /\ snap' = snap)
      PROVE  TimelySummed'
  <2>1. \A r \in timely : line'[r] = "open" => GroupOf[r] \notin charges'
      BY <1>1 DEF TimelySummed, ChargesKeep
  <2> QED BY <1>1, <2>1, TimelyKept
<1>2. ASSUME NEW x \in Requests, IngestStep(x) PROVE TimelySummed'
  <2>1. /\ charges' = charges /\ todo' = todo /\ snap' = snap
        /\ \A r \in Requests \ {x} : line'[r] = line[r]
        /\ line'[x] = "open" /\ line[x] = "none"
      BY <1>2 DEF IngestStep, ChargesKeep, PricersKeep, Shapes
  <2>2. x \notin timely BY <2>1 DEF TimelySummed
  <2>3. CASE timely' = timely
    BY <2>1, <2>2, <2>3 DEF TimelySummed, Shapes
  <2>4. CASE timely' = timely \cup {x} /\ HourPending(BucketOf[GroupOf[x]])
    <3>1. BucketOf[GroupOf[x]] \in Buckets BY ConstantsAssumption
    <3>2. ~Eligible(BucketOf[GroupOf[x]])
      <4>1. StartOf[BucketOf[GroupOf[x]]] + HourTicks + FirstGrace \in Int
          BY <3>1, ConstantsAssumption, FirstGraceIsLeast
      <4> QED BY <2>4, <4>1 DEF HourPending, Eligible, Shapes
    <3>3. /\ GroupOf[x] \notin charges
          /\ \A p \in Pricers : GroupOf[x] \notin todo[p]
        BY <3>2 DEF PricedLate
    <3> QED BY <2>1, <2>2, <2>4, <3>3 DEF TimelySummed, Shapes
  <2> QED BY <1>2, <2>3, <2>4 DEF IngestStep
<1>3. ASSUME NEW p \in Pricers, NEW b \in Buckets, ReadStep(p, b)
      PROVE  TimelySummed'
  <2>1. /\ line' = line /\ timely' = timely /\ charges' = charges
        /\ \A q \in Pricers \ {p} : todo'[q] = todo[q] /\ snap'[q] = snap[q]
      BY <1>3 DEF ReadStep, ChargesKeep, lineVars, Shapes
  <2>2. \A g \in todo'[p] : g \in Groups /\ snap'[p][g] = UnchargedOf(g)
      BY <1>3 DEF ReadStep, Shapes
  <2>3. \A r \in timely : line[r] = "open" => r \in UnchargedOf(GroupOf[r])
      BY DEF UnchargedOf, Shapes
  <2> QED BY <2>1, <2>2, <2>3 DEF TimelySummed
<1>4. ASSUME NEW p \in Pricers, NEW g \in Groups, BeginStep(p, g)
      PROVE  TimelySummed'
  BY <1>1, <1>4 DEF BeginStep, lineVars
<1>5. ASSUME NEW g \in Groups, MarkCharged(g), PricersDrop,
             charges' \subseteq charges \cup {g}
      PROVE  TimelySummed'
  <2>1. timely' = timely BY <1>5 DEF MarkCharged
  <2>2. \A r \in Requests : line'[r] = line[r] \/ line'[r] = "charged"
      BY <1>5 DEF MarkCharged
  <2>3. \A r \in timely : line'[r] = "open" => GroupOf[r] \notin charges'
      BY <1>5 DEF MarkCharged, UnchargedOf, TimelySummed, Shapes
  <2> QED BY <1>5, <2>1, <2>2, <2>3, TimelyKept
<1>6. CASE QuietStep \/ DropStep
  BY <1>1, <1>6 DEF QuietStep, DropStep, PricersKeep, lineVars
<1>7. ASSUME NEW p \in Pricers, NEW g \in Groups, CommitStep(p, g)
      PROVE  TimelySummed'
  <2>1. MarkCharged(g) /\ PricersDrop /\ charges' \subseteq charges \cup {g}
      BY <1>7 DEF CommitStep, InsertCharge
  <2> QED BY <1>5, <2>1
<1>8. ASSUME NEW g \in Groups, ConvergeStep(g) PROVE TimelySummed'
  <2>1. MarkCharged(g) /\ PricersDrop /\ charges' \subseteq charges \cup {g}
      BY <1>8 DEF ConvergeStep, ChargesKeep
  <2> QED BY <1>5, <2>1
<1> QED BY <1>2, <1>3, <1>4, <1>6, <1>7, <1>8 DEF ChargingStep

\* A timely line is marked by the commit of the charge whose sum it is in.
LEMMA TimelyBilledStep ==
    ASSUME Shapes, TxInv, SummedLines, PricedLate, TimelySummed,
           ChargedLineHasCharge, TimelyLinesAreBilled, ChargingStep
    PROVE  TimelyLinesAreBilled'
<1> SUFFICES ASSUME NEW r \in timely', line'[r] = "charged"
             PROVE  r \in billed'[GroupOf[r]]
    BY DEF TimelyLinesAreBilled
<1>1. r \in Requests /\ r \in timely
  <2>1. CASE timely' = timely BY <2>1 DEF Shapes
  <2>2. ASSUME NEW x \in Requests, IngestStep(x) PROVE r \in timely
    <3>1. line'[x] = "open" BY <2>2 DEF IngestStep, Shapes
    <3> QED BY <2>2, <3>1 DEF IngestStep
  <2> QED BY <2>1, <2>2
          DEF ChargingStep, QuietStep, ReadStep, BeginStep, CommitStep,
              ConvergeStep, DropStep, MarkCharged, lineVars, Shapes
<1>2. CASE line[r] = "charged"
  <2>1. GroupOf[r] \in charges BY <1>1, <1>2 DEF ChargedLineHasCharge
  <2>2. r \in billed[GroupOf[r]] BY <1>1, <1>2 DEF TimelyLinesAreBilled
  <2> QED BY <2>1, <2>2, ChargesStay
<1>3. CASE line[r] # "charged"
  <2>1. line[r] = "open" /\ GroupOf[r] \in charges' BY <1>1, <1>3, LinesAdvance
  <2>2. GroupOf[r] \notin charges BY <1>1, <2>1 DEF TimelySummed
  <2>3. PICK p \in Pricers : CommitStep(p, GroupOf[r])
      BY <2>1, <2>2, NewCharge
  <2>4. GroupOf[r] \in todo[p] /\ GroupOf[r] \in Groups
      BY <2>3 DEF CommitStep, TxInv, Shapes
  <2>5. r \in snap[p][GroupOf[r]] BY <1>1, <2>1, <2>4 DEF TimelySummed
  <2>6. billed' = [billed EXCEPT ![GroupOf[r]] = snap[p][GroupOf[r]]]
      BY <2>3 DEF CommitStep, InsertCharge
  <2> QED BY <2>4, <2>5, <2>6 DEF Shapes
<1> QED BY <1>2, <1>3

-----------------------------------------------------------------------------
(* The theorems. *)

\* Every initial account, open or not: nothing is charged yet.
LEMMA IInvInit == ASSUME NEW initial, InitWith(initial) PROVE IInv
<1> USE DEF InitWith
<1>1. Shapes BY DEF Shapes
<1>2. TxInv BY DEF TxInv
<1>3. SummedLines BY DEF SummedLines
<1>4. PricedLate BY DEF PricedLate
<1>5. BilledLinesAreCharged BY DEF BilledLinesAreCharged
<1>6. ChargedLineHasCharge BY DEF ChargedLineHasCharge
<1>7. AccrualIsInFlight BY DEF AccrualIsInFlight
<1>8. TimelySummed BY DEF TimelySummed
<1>9. TimelyLinesAreBilled BY DEF TimelyLinesAreBilled
<1>10. SumsHere BY DEF SumsHere
<1> QED BY <1>1, <1>2, <1>3, <1>4, <1>5, <1>6, <1>7, <1>8, <1>9, <1>10
        DEF IInv

\* Every step keeps the invariant.
LEMMA IInvNext == IInv /\ [Next]_vars => IInv'
<1> SUFFICES ASSUME IInv, [Next]_vars PROVE IInv' OBVIOUS
<1> USE DEF IInv
<1>1. Shapes' /\ ChargingStep BY NextIsStep
<1>2. TxInv' BY <1>1, TxStep
<1>3. SummedLines' BY <1>1, SummedStep
<1>4. PricedLate' BY <1>1, PricedLateStep
<1>5. BilledLinesAreCharged' BY <1>1, BilledStep
<1>6. ChargedLineHasCharge' BY <1>1, ChargedStep
<1>7. AccrualIsInFlight' BY <1>1, AccrualStep
<1>8. TimelySummed' BY <1>1, TimelyStep
<1>9. TimelyLinesAreBilled' BY <1>1, TimelyBilledStep
<1>10. SumsHere' BY <1>1, SumsStep
<1> QED BY <1>1, <1>2, <1>3, <1>4, <1>5, <1>6, <1>7, <1>8, <1>9, <1>10

\* The invariant holds throughout.
THEOREM ChargingInvariant == Spec => []IInv
<1>1. Init => IInv BY IInvInit DEF Init
<1> QED BY <1>1, IInvNext, PTL DEF Spec

\* No interleaving of passes, rollbacks and replays leaves a billed line
\* where a later charge can count it again (ChargeGroup, MarkCharged).
THEOREM BilledStaysCharged == Spec => []BilledLinesAreCharged
<1>1. IInv => BilledLinesAreCharged BY DEF IInv
<1> QED BY <1>1, ChargingInvariant, PTL

\* Whatever is marked charged has the charge of its own group (MarkCharged).
THEOREM ChargedKeepsCharge == Spec => []ChargedLineHasCharge
<1>1. IInv => ChargedLineHasCharge BY DEF IInv
<1> QED BY <1>1, ChargingInvariant, PTL

\* The accrual the funds gate subtracts belongs to uncharged lines only
\* (MarkCharged, ReleaseStaleAccrual, AccrualMicros).
THEOREM AccrualStaysInFlight == Spec => []AccrualIsInFlight
<1>1. IInv => AccrualIsInFlight BY DEF IInv
<1> QED BY <1>1, ChargingInvariant, PTL

\* A line ingested before its hour became eligible is in the amount of the
\* charge it is marked with (PriceOnce and its triggers' grace period).
THEOREM TimelyBilled == Spec => []TimelyLinesAreBilled
<1>1. IInv => TimelyLinesAreBilled BY DEF IInv
<1> QED BY <1>1, ChargingInvariant, PTL

\* A committed charge keeps its lines and its deduction for ever
\* (InsertChargeOnce, ApplyDeduction).
THEOREM ChargesStayFrozen == Spec => ChargesAreFrozen
<1>1. IInv /\ [Next]_vars =>
        \A g \in charges : /\ g \in charges'
                           /\ billed'[g] = billed[g]
                           /\ deducted'[g] = deducted[g]
    BY NextIsStep, ChargesStay DEF IInv
<1> QED BY <1>1, ChargingInvariant, PTL DEF Spec, ChargesAreFrozen

-----------------------------------------------------------------------------
(* Settlement by the hour: every step of charging is a step of SettleOnce, *)
(* or none.                                                                *)

Closed == {g \in Groups : Eligible(BucketOf[g])}
Prompt == [g \in Groups |-> UnchargedOf(g) \cap timely]
Late   == [g \in Groups |-> UnchargedOf(g) \ timely]

\* Nothing is closed, ingested or charged at first: an hour lasts a tick.
LEMMA InitHours == Init => Hours!Init
<1> SUFFICES ASSUME Init PROVE Hours!Init OBVIOUS
<1> USE DEF Init, InitWith
<1>1. ASSUME NEW g \in Groups PROVE ~Eligible(BucketOf[g])
  <2>1. /\ StartOf[BucketOf[g]] \in Nat
        /\ HourTicks \in Nat \ {0} /\ FirstGrace \in Nat
      BY ConstantsAssumption, FirstGraceIsLeast
  <2> QED BY <2>1 DEF Eligible
<1>2. \A g \in Groups : UnchargedOf(g) = {} BY DEF UnchargedOf
<1> QED BY <1>1, <1>2 DEF Hours!Init, Hours!Nothing

\* What waits depends on the lines and the history only.
LEMMA NothingMoves ==
    ASSUME line' = line, timely' = timely
    PROVE  Prompt' = Prompt /\ Late' = Late
BY DEF Prompt, Late, UnchargedOf

\* The clock closes hours.
LEMMA QuietCloses ==
    ASSUME IInv, QuietStep
    PROVE  \E gs \in SUBSET Groups : Hours!Close(gs)
<1>1. Closed \subseteq Closed'
  <2>1. ASSUME NEW g \in Groups
        PROVE  Eligible(BucketOf[g]) => Eligible(BucketOf[g])'
    <3>1. StartOf[BucketOf[g]] + HourTicks + FirstGrace \in Int
        BY ConstantsAssumption, FirstGraceIsLeast
    <3> QED BY <3>1 DEF Eligible, QuietStep, IInv, Shapes
  <2> QED BY <2>1 DEF Closed
<1>2. Closed' \in SUBSET Groups BY DEF Closed
<1>3. Prompt' = Prompt /\ Late' = Late BY NothingMoves DEF QuietStep
<1>4. charges' = charges /\ billed' = billed BY DEF QuietStep, ChargesKeep
<1>5. Hours!Close(Closed')
    BY <1>1, <1>3, <1>4 DEF Hours!Close, Closed, Prompt, Late
<1> QED BY <1>2, <1>5

\* A new line is offered to its group, which is closed exactly when the line
\* is late.
LEMMA IngestOffers ==
    ASSUME IInv, NEW r \in Requests, IngestStep(r)
    PROVE  Hours!Offer(r, GroupOf[r])
<1> DEFINE g == GroupOf[r]
<1>1. Shapes BY DEF IInv
<1>2. g \in Groups /\ BucketOf[g] \in Buckets BY ConstantsAssumption
<1>3. HourPending(BucketOf[g]) <=> g \notin Closed
  <2>1. StartOf[BucketOf[g]] + HourTicks + FirstGrace \in Int
      BY <1>2, ConstantsAssumption, FirstGraceIsLeast
  <2> QED BY <1>1, <1>2, <2>1 DEF HourPending, Closed, Eligible, Shapes
<1>4. /\ line[r] = "none"
      /\ line' = [line EXCEPT ![r] = "open"]
      /\ timely' = IF g \in Closed THEN timely ELSE timely \cup {r}
      /\ now' = now /\ charges' = charges /\ billed' = billed
    BY <1>3 DEF IngestStep, ChargesKeep
<1>5. r \notin timely BY <1>4 DEF IInv, TimelySummed
<1>6. \A h \in Groups : r \notin Prompt[h] \cup Late[h] \cup billed[h]
  <2>1. ASSUME NEW h \in Groups PROVE r \notin billed[h]
    <3>1. CASE h \in charges
      BY <1>4, <3>1 DEF IInv, BilledLinesAreCharged
    <3>2. CASE h \notin charges BY <3>2 DEF IInv, SumsHere
    <3> QED BY <3>1, <3>2
  <2> QED BY <1>4, <2>1 DEF Prompt, Late, UnchargedOf
<1>7. Closed' = Closed BY <1>4 DEF Closed, Eligible
<1>8. ASSUME NEW h \in Groups
      PROVE  /\ UnchargedOf(h)' = IF h = g THEN UnchargedOf(h) \cup {r}
                                           ELSE UnchargedOf(h)
             /\ r \notin UnchargedOf(h)
  BY <1>1, <1>4 DEF UnchargedOf, Shapes
<1> HIDE DEF g
<1>9. CASE g \in Closed
  <2>1. ASSUME NEW h \in Groups
        PROVE  /\ Prompt'[h] = Prompt[h]
               /\ Late'[h] = IF h = g THEN Late[h] \cup {r} ELSE Late[h]
    <3>1. timely' = timely BY <1>4, <1>9
    <3>2. /\ Prompt'[h] = UnchargedOf(h)' \cap timely'
          /\ Late'[h] = UnchargedOf(h)' \ timely'
          /\ Prompt[h] = UnchargedOf(h) \cap timely
          /\ Late[h] = UnchargedOf(h) \ timely
        BY DEF Prompt, Late
    <3> QED BY <1>5, <1>8, <3>1, <3>2
  <2>2. Prompt' = Prompt /\ Late' = [Late EXCEPT ![g] = @ \cup {r}]
      BY <1>2, <2>1 DEF Prompt, Late
  <2> QED BY <1>4, <1>6, <1>7, <1>9, <2>2
      DEF Hours!Offer, Hours!BelongsTo, Closed, Prompt, Late, g
<1>10. CASE g \notin Closed
  <2>1. ASSUME NEW h \in Groups
        PROVE  /\ Late'[h] = Late[h]
               /\ Prompt'[h] = IF h = g THEN Prompt[h] \cup {r} ELSE Prompt[h]
    <3>1. timely' = timely \cup {r} BY <1>4, <1>10
    <3>2. /\ Prompt'[h] = UnchargedOf(h)' \cap timely'
          /\ Late'[h] = UnchargedOf(h)' \ timely'
          /\ Prompt[h] = UnchargedOf(h) \cap timely
          /\ Late[h] = UnchargedOf(h) \ timely
        BY DEF Prompt, Late
    <3> QED BY <1>5, <1>8, <3>1, <3>2
  <2>2. Late' = Late /\ Prompt' = [Prompt EXCEPT ![g] = @ \cup {r}]
      BY <1>2, <2>1 DEF Prompt, Late
  <2> QED BY <1>4, <1>6, <1>7, <1>10, <2>2
      DEF Hours!Offer, Hours!BelongsTo, Closed, Prompt, Late, g
<1> QED BY <1>9, <1>10

\* Marking a group retires what waits in it, and nothing else.
LEMMA MarkingRetires ==
    ASSUME NEW g \in Groups, MarkCharged(g)
    PROVE  /\ Prompt' = [Prompt EXCEPT ![g] = {}]
           /\ Late' = [Late EXCEPT ![g] = {}]
<1>1. ASSUME NEW h \in Groups
      PROVE  UnchargedOf(h)' = IF h = g THEN {} ELSE UnchargedOf(h)
  BY DEF MarkCharged, UnchargedOf
<1>2. timely' = timely BY DEF MarkCharged
<1> QED BY <1>1, <1>2 DEF Prompt, Late

\* A committed charge seals its group with a sum that has every prompt line.
LEMMA CommitSeals ==
    ASSUME IInv, NEW p \in Pricers, NEW g \in Groups, CommitStep(p, g)
    PROVE  Hours!Seal(g)
<1>1. /\ InsertCharge(g, snap[p][g]) /\ MarkCharged(g) /\ now' = now
      /\ tx[p] # Idle /\ g = tx[p].group
    BY DEF CommitStep
<1>2. g \in todo[p] /\ g \notin charges BY <1>1 DEF IInv, TxInv
<1>3. g \in Closed BY <1>2 DEF IInv, PricedLate, Closed
<1>4. Closed' = Closed BY <1>1 DEF Closed, Eligible
<1>5. /\ Prompt' = [Prompt EXCEPT ![g] = {}]
      /\ Late' = [Late EXCEPT ![g] = {}]
    BY <1>1, MarkingRetires
<1> DEFINE S == snap[p][g] \cap Late[g]
<1>6. snap[p][g] \subseteq Requests BY DEF IInv, Shapes
<1>7. ASSUME NEW r \in snap[p][g] PROVE r \in UnchargedOf(g)
  <2>1. r \in Requests /\ GroupOf[r] = g /\ line[r] # "none"
      BY <1>6 DEF IInv, SummedLines
  <2>2. line[r] # "charged"
      BY <1>2, <2>1 DEF IInv, ChargedLineHasCharge
  <2> QED BY <2>1, <2>2 DEF UnchargedOf, IInv, Shapes
<1>8. Prompt[g] \subseteq snap[p][g]
    BY <1>2 DEF Prompt, UnchargedOf, IInv, TimelySummed
<1>9. snap[p][g] = Prompt[g] \cup S
    BY <1>7, <1>8 DEF Prompt, Late
<1>10. snap[p][g] # {} BY <1>2 DEF IInv, SumsHere
<1>11. /\ charges' = charges \cup {g}
       /\ billed' = [billed EXCEPT ![g] = Prompt[g] \cup S]
    BY <1>1, <1>9 DEF InsertCharge
<1>12. S \in SUBSET Late[g] /\ Prompt[g] \cup S # {} BY <1>9, <1>10
<1> HIDE DEF S
<1>13. \E T \in SUBSET Late[g] :
          /\ Prompt[g] \cup T # {}
          /\ billed' = [billed EXCEPT ![g] = Prompt[g] \cup T]
    BY <1>11, <1>12
<1> QED BY <1>2, <1>3, <1>4, <1>5, <1>11, <1>13
    DEF Hours!Seal, Closed, Prompt, Late

\* The early return of ChargeGroup finds late lines only.
LEMMA ConvergeRetires ==
    ASSUME IInv, NEW g \in Groups, ConvergeStep(g)
    PROVE  Hours!Retire(g)
<1>1. /\ g \in charges /\ MarkCharged(g) /\ now' = now
      /\ charges' = charges /\ billed' = billed
    BY DEF ConvergeStep, ChargesKeep
<1>2. Closed' = Closed BY <1>1 DEF Closed, Eligible
<1>3. Prompt[g] = {} BY <1>1 DEF Prompt, UnchargedOf, IInv, TimelySummed
<1>4. Prompt' = Prompt BY <1>1, <1>3, MarkingRetires DEF Prompt
<1> QED BY <1>1, <1>2, <1>4, MarkingRetires
    DEF Hours!Retire, Closed, Prompt, Late

\* Every step maps to a step or a stutter.
LEMMA NextHours == IInv /\ [Next]_vars => [Hours!Next]_(Hours!svars)
<1> SUFFICES ASSUME IInv, [Next]_vars PROVE [Hours!Next]_(Hours!svars)
    OBVIOUS
<1>1. ChargingStep BY NextIsStep DEF IInv
<1>2. CASE QuietStep BY <1>2, QuietCloses DEF Hours!Next
<1>3. ASSUME NEW r \in Requests, IngestStep(r)
      PROVE  [Hours!Next]_(Hours!svars)
  <2>1. GroupOf[r] \in Groups BY ConstantsAssumption
  <2> QED BY <1>3, <2>1, IngestOffers DEF Hours!Next
<1>4. ASSUME NEW p \in Pricers, NEW g \in Groups, CommitStep(p, g)
      PROVE  [Hours!Next]_(Hours!svars)
  BY <1>4, CommitSeals DEF Hours!Next
<1>5. ASSUME NEW g \in Groups, ConvergeStep(g)
      PROVE  [Hours!Next]_(Hours!svars)
  BY <1>5, ConvergeRetires DEF Hours!Next
<1>6. ASSUME UNCHANGED lineVars, ChargesKeep, now' = now
      PROVE  UNCHANGED Hours!svars
  <2>1. Closed' = Closed BY <1>6 DEF Closed, Eligible
  <2>2. Prompt' = Prompt /\ Late' = Late
      BY <1>6, NothingMoves DEF lineVars
  <2> QED BY <1>6, <2>1, <2>2
      DEF Hours!svars, Closed, Prompt, Late, ChargesKeep
<1> QED BY <1>1, <1>2, <1>3, <1>4, <1>5, <1>6
        DEF ChargingStep, ReadStep, BeginStep, DropStep

\* Charging implements settlement by the hour: whichever trigger starts a
\* pass on whichever replica, a group is charged once, after its grace period,
\* for every line that was there in time.
THEOREM ImplementsSettleOnce == Spec => SettlesOnce
BY ChargingInvariant, InitHours, NextHours, PTL
   DEF SettlesOnce, Hours!Spec, Spec

\* No request is in the amounts of two charges.
THEOREM ChargedInOneHour == Spec => []Hours!CountedOnce
<1>1. IInv => Hours!CountedOnce
  <2> SUFFICES ASSUME IInv, NEW g \in Groups, NEW h \in Groups, g # h,
                      NEW r \in billed[g] \cap billed[h]
               PROVE  FALSE
      BY DEF Hours!CountedOnce
  <2>1. g \in charges /\ h \in charges BY DEF IInv, SumsHere
  <2> QED BY <2>1 DEF IInv, BilledLinesAreCharged
<1> QED BY <1>1, ChargingInvariant, PTL
=============================================================================
