------------------------- MODULE ChargingMoneyProofs -------------------------
(* Theorems of module Charging on the account, for every number of         *)
(* requests, groups, buckets and pricers, every price and every schedule   *)
(* of recharges, mode changes, cycle resets and failures.                  *)
(*                                                                         *)
(* An amount is the number of its micros, so that facts about sums are     *)
(* facts about the cardinality of finite sets.  The lines, the charges and *)
(* the transactions are those of ChargingProofs, whose invariant this one  *)
(* strengthens.                                                            *)
EXTENDS ChargingProofs, FiniteSetTheorems

-----------------------------------------------------------------------------
(* The inductive invariant, in named parts. *)

\* A transaction that read an account still at its version read all of it:
\* every writer of an open account moves the version on.
ReadIsCurrent ==
    \A p \in Pricers : tx[p].read.open =>
        /\ account.open
        /\ tx[p].read.version <= account.version
        /\ tx[p].read.version = account.version => tx[p].read = account

\* What transaction p's own charge adds to the account's cycle.
OwnMicros(p) ==
    IF PeriodStart(tx[p].group) >= account.cycle
    THEN Amount(snap[p][tx[p].group]) ELSE 0

\* A deduction that may still commit is covered by the cycle's charges, its
\* own included; the charges may have grown since it was computed.
AccruedIsCovered ==
    \A p \in Pricers :
        (tx[p].read.open /\ tx[p].read.version = account.version) =>
            \/ tx[p].accrued = 0
            \/ account.spent + tx[p].accrued
                 <= Cents(ChargedMicros(InCycle(charges, account.cycle))
                            + OwnMicros(p))

\* Nothing writes an account before it is opened.
UnopenedIsBlank == ~account.open => account = NoAccount /\ credited = 0

UnchargedIsUndeducted ==
    \A g \in Groups : g \notin charges => deducted[g] = -1

\* The types ChargingProofs has no use for.
MoneyTypes ==
    /\ now \in 0 .. MaxTime
    /\ deducted \in [Groups -> Nat \cup {-1}]
    /\ account \in AccountType
    /\ credited \in Nat
    /\ tx \in [Pricers -> [group : Groups \cup {"none"},
                           read : AccountType, accrued : Nat]]
    /\ touches \in 0 .. MaxTouches
    /\ faults \in 0 .. MaxFaults

MoneyInv ==
    /\ IInv
    /\ MoneyTypes
    /\ ReadIsCurrent
    /\ AccruedIsCovered
    /\ UnopenedIsBlank
    /\ UnchargedIsUndeducted
    /\ NeverOverDeducts

-----------------------------------------------------------------------------
(* Rounding. *)

\* Division by a positive number stays within the naturals and is monotonic.
LEMMA DivNat ==
    ASSUME NEW a \in Nat, NEW b \in Nat \ {0}
    PROVE  a \div b \in Nat
<1> DEFINE q == a \div b
<1>1. q \in Int OBVIOUS
<1>2. a = b * q + (a % b) /\ a % b \in 0 .. b - 1 OBVIOUS
<1> HIDE DEF q
<1>3. q >= 0
  <2> SUFFICES ASSUME q <= -1 PROVE FALSE BY <1>1
  <2>1. b * q <= b * (-1) BY <1>1
  <2> QED BY <1>1, <1>2, <2>1
<1> QED BY <1>1, <1>3 DEF q

LEMMA DivMono ==
    ASSUME NEW a \in Nat, NEW c \in Nat, a <= c, NEW b \in Nat \ {0}
    PROVE  a \div b <= c \div b
<1> DEFINE q == a \div b
           s == c \div b
<1>1. q \in Int /\ s \in Int OBVIOUS
<1>2. a = b * q + (a % b) /\ a % b \in 0 .. b - 1 OBVIOUS
<1>3. c = b * s + (c % b) /\ c % b \in 0 .. b - 1 OBVIOUS
<1> HIDE DEF q, s
<1>4. q <= s
  <2> SUFFICES ASSUME s + 1 <= q PROVE FALSE BY <1>1
  <2>1. b * (s + 1) <= b * q BY <1>1
  <2>2. b * (s + 1) = b * s + b BY <1>1
  <2> QED BY <1>1, <1>2, <1>3, <2>1, <2>2
<1> QED BY <1>4 DEF q, s

LEMMA CentsNat == ASSUME NEW m \in Nat PROVE Cents(m) \in Nat
<1> DEFINE a == 2 * m + MicrosPerCent
           b == 2 * MicrosPerCent
<1>1. a \in Nat /\ b \in Nat \ {0} BY ConstantsAssumption
<1> HIDE DEF a, b
<1>2. a \div b \in Nat BY <1>1, DivNat
<1> QED BY <1>2 DEF Cents, a, b

LEMMA CentsMono ==
    ASSUME NEW m \in Nat, NEW n \in Nat, m <= n
    PROVE  Cents(m) <= Cents(n)
<1> DEFINE a == 2 * m + MicrosPerCent
           c == 2 * n + MicrosPerCent
           b == 2 * MicrosPerCent
<1>1. a \in Nat /\ c \in Nat /\ a <= c /\ b \in Nat \ {0}
    BY ConstantsAssumption
<1> HIDE DEF a, b, c
<1>2. a \div b <= c \div b BY <1>1, DivMono
<1> QED BY <1>2 DEF Cents, a, b, c

\* A month's start is a time.
LEMMA MonthStartNat == ASSUME NEW t \in Nat PROVE MonthStart(t) \in Nat
<1> DEFINE q == t \div MonthTicks
<1>1. MonthTicks \in Nat /\ q \in Nat BY ConstantsAssumption, DivNat
<1> HIDE DEF q
<1>2. q * MonthTicks \in Nat BY <1>1
<1> QED BY <1>2 DEF MonthStart, q

-----------------------------------------------------------------------------
(* Sums. *)

\* The micros of the groups gs, billed as b says.
UnitsOf(gs, b) == UNION {{g} \X Micros(b[g]) : g \in gs}

LEMMA ChargedIsUnits ==
    \A gs : ChargedMicros(gs) = Cardinality(UnitsOf(gs, billed))
BY DEF ChargedMicros, UnitsOf

LEMMA CycleNext ==
    ChargedMicros(InCycle(charges, account.cycle))'
      = Cardinality(UnitsOf(InCycle(charges', account'.cycle), billed'))
BY DEF ChargedMicros, UnitsOf, InCycle

LEMMA UnitsMember ==
    ASSUME NEW gs, NEW b, NEW u
    PROVE  u \in UnitsOf(gs, b) <=> \E g \in gs : u \in {g} \X Micros(b[g])
BY DEF UnitsOf

\* The union of a finite family of finite sets is finite.
LEMMA FamilyFinite ==
    ASSUME NEW S, IsFiniteSet(S), NEW f, f = [x \in S |-> f[x]],
           \A x \in S : IsFiniteSet(f[x])
    PROVE  IsFiniteSet(UNION {f[x] : x \in S})
<1> DEFINE M == {f[x] : x \in S}
<1>1. f \in Surjection(S, M)
  <2>1. f \in [S -> M] OBVIOUS
  <2>2. \A t \in M : \E x \in S : f[x] = t OBVIOUS
  <2> HIDE DEF M
  <2> QED BY <2>1, <2>2 DEF Surjection
<1>2. \A T \in M : IsFiniteSet(T) OBVIOUS
<1> HIDE DEF M
<1>3. IsFiniteSet(M) BY <1>1, FS_Surjection
<1>4. IsFiniteSet(UNION M) BY <1>2, <1>3, FS_UNION
<1> QED BY <1>4 DEF M

LEMMA MicrosFinite ==
    ASSUME NEW L \in SUBSET Requests
    PROVE  IsFiniteSet(Micros(L)) /\ Amount(L) \in Nat
<1> DEFINE f == [r \in L |-> {r} \X (1 .. Cost[r])]
<1>1. IsFiniteSet(L) BY ConstantsAssumption, FS_Subset
<1>2. ASSUME NEW r \in L PROVE IsFiniteSet(f[r])
  <2>1. Cost[r] \in Int /\ 1 \in Int BY ConstantsAssumption
  <2>2. IsFiniteSet(1 .. Cost[r]) BY <2>1, FS_Interval
  <2>3. IsFiniteSet({r}) BY FS_Singleton
  <2>4. IsFiniteSet({r} \X (1 .. Cost[r])) BY <2>2, <2>3, FS_Product
  <2> QED BY <2>4
<1>3. f = [r \in L |-> f[r]] OBVIOUS
<1>4. Micros(L) = UNION {f[r] : r \in L} BY DEF Micros
<1> HIDE DEF f
<1>5. IsFiniteSet(Micros(L)) BY <1>1, <1>2, <1>3, <1>4, FamilyFinite
<1> QED BY <1>5, FS_CardinalityType DEF Amount

LEMMA UnitsFinite ==
    ASSUME NEW gs \in SUBSET Groups, NEW b \in [Groups -> SUBSET Requests]
    PROVE  /\ IsFiniteSet(UnitsOf(gs, b))
           /\ Cardinality(UnitsOf(gs, b)) \in Nat
<1> DEFINE f == [g \in gs |-> {g} \X Micros(b[g])]
<1>1. IsFiniteSet(gs) BY ConstantsAssumption, FS_Subset
<1>2. ASSUME NEW g \in gs PROVE IsFiniteSet(f[g])
  <2>1. b[g] \in SUBSET Requests OBVIOUS
  <2>2. IsFiniteSet(Micros(b[g])) BY <2>1, MicrosFinite
  <2>3. IsFiniteSet({g}) BY FS_Singleton
  <2>4. IsFiniteSet({g} \X Micros(b[g])) BY <2>2, <2>3, FS_Product
  <2> QED BY <2>4
<1>3. f = [g \in gs |-> f[g]] OBVIOUS
<1>4. UnitsOf(gs, b) = UNION {f[g] : g \in gs} BY DEF UnitsOf
<1> HIDE DEF f
<1>5. IsFiniteSet(UnitsOf(gs, b)) BY <1>1, <1>2, <1>3, <1>4, FamilyFinite
<1> QED BY <1>5, FS_CardinalityType

\* A sum does not shrink when charges are added and the old ones stay.
LEMMA UnitsMono ==
    ASSUME NEW gs \in SUBSET Groups, NEW hs \in SUBSET Groups, gs \subseteq hs,
           NEW b \in [Groups -> SUBSET Requests],
           NEW c \in [Groups -> SUBSET Requests],
           \A g \in gs : c[g] = b[g]
    PROVE  Cardinality(UnitsOf(gs, b)) <= Cardinality(UnitsOf(hs, c))
<1>1. UnitsOf(gs, b) \subseteq UnitsOf(hs, c) BY UnitsMember
<1>2. IsFiniteSet(UnitsOf(hs, c)) BY UnitsFinite
<1> QED BY <1>1, <1>2, FS_Subset

\* A new charge adds its whole amount.
LEMMA UnitsAdd ==
    ASSUME NEW gs \in SUBSET Groups, NEW g \in Groups \ gs,
           NEW b \in [Groups -> SUBSET Requests],
           NEW c \in [Groups -> SUBSET Requests],
           \A h \in gs : c[h] = b[h]
    PROVE  Cardinality(UnitsOf(gs, b)) + Amount(c[g])
             = Cardinality(UnitsOf(gs \cup {g}, c))
<1> DEFINE A == UnitsOf(gs, b)
           M == Micros(c[g])
           B == {g} \X M
           C == UnitsOf(gs \cup {g}, c)
<1>1. IsFiniteSet(A) /\ Cardinality(A) \in Nat BY UnitsFinite
<1>2. IsFiniteSet(M) /\ Cardinality(M) \in Nat
    BY MicrosFinite DEF Amount
<1>3. IsFiniteSet(B) /\ Cardinality(B) = Cardinality(M)
  <2>1. IsFiniteSet({g}) /\ Cardinality({g}) = 1 BY FS_Singleton
  <2> HIDE DEF M
  <2>2. /\ IsFiniteSet({g} \X M)
        /\ Cardinality({g} \X M) = Cardinality({g}) * Cardinality(M)
      BY <1>2, <2>1, FS_Product
  <2> QED BY <1>2, <2>1, <2>2
<1>4. A \cap B = {}
  <2> SUFFICES ASSUME NEW u \in A, u \in B PROVE FALSE OBVIOUS
  <2>1. PICK h \in gs : u \in {h} \X Micros(b[h]) BY UnitsMember
  <2>2. u[1] = h /\ u[1] = g BY <2>1
  <2> QED BY <2>2
<1>5. A \cup B = C
  <2>1. A \subseteq C BY UnitsMember
  <2>2. B \subseteq C BY UnitsMember
  <2>3. C \subseteq A \cup B BY UnitsMember
  <2> QED BY <2>1, <2>2, <2>3
<1>6. Amount(c[g]) = Cardinality(M) BY DEF Amount
<1> HIDE DEF A, B, C, M
<1>7. Cardinality(A \cup B) = Cardinality(A) + Cardinality(B)
  <2>1. Cardinality(A \cap B) = 0 BY <1>4, FS_EmptySet
  <2>2. Cardinality(A \cup B)
          = Cardinality(A) + Cardinality(B) - Cardinality(A \cap B)
      BY <1>1, <1>3, FS_Union
  <2> QED BY <1>1, <1>2, <1>3, <2>1, <2>2
<1> QED BY <1>3, <1>5, <1>6, <1>7 DEF A, C

-----------------------------------------------------------------------------
(* The amounts the actions compute. *)

\* The charges of a cycle, and what they come to.
LEMMA InCycleNat ==
    ASSUME Shapes, NEW since
    PROVE  /\ InCycle(charges, since) \in SUBSET Groups
           /\ ChargedMicros(InCycle(charges, since)) \in Nat
<1>1. InCycle(charges, since) \in SUBSET Groups BY DEF InCycle, Shapes
<1>2. billed \in [Groups -> SUBSET Requests] BY DEF Shapes
<1> QED BY <1>1, <1>2, UnitsFinite, ChargedIsUnits

\* What cycleAccrual returns is never negative, and whatever it lets the
\* account be charged is covered by the cycle's total; it is what the total
\* lacks when the cycle has not deducted more than its charges so far.
LEMMA CycleAccrualCovered ==
    ASSUME Shapes, account \in AccountType,
           NEW g \in Groups \ charges, NEW L \in SUBSET Requests
    PROVE  LET own == IF PeriodStart(g) >= account.cycle
                      THEN Amount(L) ELSE 0
           IN  /\ CycleAccrual(g, L) \in Nat
               /\ \/ CycleAccrual(g, L) = 0
                  \/ account.spent + CycleAccrual(g, L)
                       <= Cents(ChargedMicros(InCycle(charges, account.cycle))
                                  + own)
               /\ NeverOverDeducts =>
                    account.spent + CycleAccrual(g, L)
                      = Cents(ChargedMicros(InCycle(charges, account.cycle))
                                + own)
<1> DEFINE own   == IF PeriodStart(g) >= account.cycle THEN Amount(L) ELSE 0
           sum   == ChargedMicros(InCycle(charges, account.cycle))
           total == Cents(sum + own)
<1>1. charges \ {g} = charges OBVIOUS
<1>2. own \in Nat BY MicrosFinite
<1>3. sum \in Nat BY InCycleNat
<1>4. CycleAccrual(g, L) =
        IF total <= account.spent THEN 0 ELSE total - account.spent
    BY <1>1 DEF CycleAccrual
<1> HIDE DEF own, sum
<1>5. sum + own \in Nat BY <1>2, <1>3
<1>6. total \in Nat BY <1>5, CentsNat
<1>7. account.spent \in Nat BY DEF AccountType
<1>8. NeverOverDeducts => account.spent <= total
  <2>1. /\ sum <= sum + own /\ Cents(sum) \in Nat
        /\ Cents(sum) <= Cents(sum + own)
      BY <1>2, <1>3, <1>5, CentsNat, CentsMono
  <2> QED BY <1>6, <1>7, <2>1 DEF NeverOverDeducts, sum
<1> HIDE DEF total
<1>9. /\ CycleAccrual(g, L) \in Nat
      /\ CycleAccrual(g, L) = 0 \/ account.spent + CycleAccrual(g, L) <= total
      /\ NeverOverDeducts => account.spent + CycleAccrual(g, L) = total
    BY <1>4, <1>6, <1>7, <1>8
<1> QED BY <1>9 DEF own, sum, total

LEMMA NoAccountTyped == NoAccount \in AccountType /\ ~NoAccount.open
BY DEF NoAccount, AccountType

LEMMA IdleTyped ==
    /\ Idle \in [group : Groups \cup {"none"}, read : AccountType,
                 accrued : Nat]
    /\ ~Idle.read.open
BY NoAccountTyped DEF Idle

-----------------------------------------------------------------------------
(* What a step may do to the account: four kinds of steps. *)

MoneyKeeps == account' = account /\ credited' = credited /\ deducted' = deducted

\* A writer other than ApplyDeduction moves an open account's version.
WriterStep ==
    /\ account.open /\ account'.open
    /\ account'.version = account.version + 1
    /\ \/ account'.spent = account.spent /\ account'.cycle = account.cycle
       \/ account'.spent = 0
    /\ account'.balance - account.balance = credited' - credited
    /\ deducted' = deducted /\ tx' = tx

OpenStep ==
    /\ ~account.open /\ account'.open
    /\ account'.spent = account.spent
    /\ account'.version = account.version
    /\ account'.balance = credited'
    /\ deducted' = deducted /\ tx' = tx

\* ApplyDeduction's UPDATE under its version guard.
DeductStep(p) ==
    /\ ChargeGroupCommit(p)
    /\ tx[p].read.open
    /\ tx[p].read.version = account.version

\* A transaction that is open after the step was open before it, or reads now.
TxKeeps(p) ==
    \/ tx'[p] = Idle
    \/ tx'[p] = tx[p]

MoneyStep ==
    \/ MoneyKeeps /\ \A p \in Pricers : TxKeeps(p)
    \/ \E p \in Pricers, g \in Groups :
         ChargeGroupBegin(p, g) /\ MoneyKeeps
    \/ WriterStep
    \/ OpenStep
    \/ \E p \in Pricers : DeductStep(p)


\* Each kind of UPDATE keeps the account's type.
LEMMA OpenedTyped ==
    ASSUME NEW a \in AccountType, NEW m \in {"prepaid", "postpaid"},
           NEW b \in Int, NEW c \in Nat
    PROVE  [a EXCEPT !.open = TRUE, !.mode = m, !.balance = b, !.cycle = c]
             \in AccountType
BY DEF AccountType

LEMMA RechargedTyped ==
    ASSUME NEW a \in AccountType, NEW b \in Int, NEW v \in Nat
    PROVE  [a EXCEPT !.balance = b, !.version = v] \in AccountType
BY DEF AccountType

LEMMA SwitchedTyped ==
    ASSUME NEW a \in AccountType, NEW m \in {"prepaid", "postpaid"},
           NEW v \in Nat
    PROVE  [a EXCEPT !.mode = m, !.version = v] \in AccountType
BY DEF AccountType

LEMMA ResetTyped ==
    ASSUME NEW a \in AccountType, NEW c \in Nat, NEW v \in Nat
    PROVE  [a EXCEPT !.used = 0, !.spent = 0, !.cycle = c, !.version = v]
             \in AccountType
BY DEF AccountType

LEMMA DeductedTyped ==
    ASSUME NEW a \in AccountType, NEW b \in Int, NEW u \in Nat,
           NEW n \in Nat, NEW v \in Nat
    PROVE  [a EXCEPT !.balance = b, !.used = u, !.spent = n, !.version = v]
             \in AccountType
BY DEF AccountType

LEMMA FieldsTyped ==
    ASSUME NEW a \in AccountType
    PROVE  /\ a.open \in BOOLEAN /\ a.balance \in Int /\ a.used \in Nat
           /\ a.spent \in Nat /\ a.cycle \in Nat /\ a.version \in Nat
BY DEF AccountType

\* The account's writers.
LEMMA WritersAreMoneySteps ==
    ASSUME MoneyTypes,
           \/ \E m \in {"prepaid", "postpaid"} :
                OpenAccount(m) \/ UpdateAccount(m)
           \/ Recharge
           \/ ResetOnce
    PROVE  MoneyTypes' /\ MoneyStep
<1> DEFINE a == account
<1>1. a \in AccountType /\ a = account BY DEF MoneyTypes
<1>2. MonthStart(now) \in Nat BY MonthStartNat DEF MoneyTypes
<1>3. TopUp \in Nat /\ TopUp \in Int BY ConstantsAssumption
<1> DEFINE month == MonthStart(now)
<1>4. month \in Nat /\ month = MonthStart(now) BY <1>2
<1> HIDE DEF a, month
<1>5. /\ a.balance + TopUp \in Int /\ a.version + 1 \in Nat
      /\ a.balance \in Int /\ a.spent \in Nat /\ a.version \in Nat
    BY <1>1, <1>3, FieldsTyped
<1>6. ASSUME NEW m \in {"prepaid", "postpaid"}, OpenAccount(m)
      PROVE  MoneyTypes' /\ OpenStep
  <2>1. account' = [a EXCEPT !.open = TRUE, !.mode = m, !.balance = TopUp,
                             !.cycle = month]
      BY <1>1, <1>4, <1>6 DEF OpenAccount
  <2>2. account' \in AccountType BY <1>1, <1>3, <1>4, <2>1, OpenedTyped
  <2>3. /\ UNCHANGED <<now, deducted, tx, touches, faults>>
        /\ credited' = TopUp /\ ~a.open
      BY <1>1, <1>6 DEF OpenAccount, chargeVars, pricerVars
  <2>4. MoneyTypes' BY <1>3, <2>2, <2>3 DEF MoneyTypes
  <2>5. /\ account'.open /\ account'.spent = a.spent
        /\ account'.version = a.version /\ account'.balance = TopUp
      BY <1>1, <2>1 DEF AccountType
  <2> QED BY <1>1, <2>3, <2>4, <2>5 DEF OpenStep
<1>7. ASSUME NEW m \in {"prepaid", "postpaid"}, UpdateAccount(m)
      PROVE  MoneyTypes' /\ WriterStep
  <2>1. account' = [a EXCEPT !.mode = m, !.version = a.version + 1]
      BY <1>1, <1>7 DEF UpdateAccount
  <2>2. account' \in AccountType BY <1>1, <1>5, <2>1, SwitchedTyped
  <2>3. /\ UNCHANGED <<now, deducted, tx, credited, faults>>
        /\ touches < MaxTouches /\ touches' = touches + 1 /\ a.open
      BY <1>1, <1>7 DEF UpdateAccount, Touch, chargeVars, pricerVars
  <2>4. MoneyTypes' BY <2>2, <2>3, ConstantsAssumption DEF MoneyTypes
  <2>5. /\ account'.open = a.open /\ account'.spent = a.spent
        /\ account'.cycle = a.cycle /\ account'.version = a.version + 1
        /\ account'.balance = a.balance
      BY <1>1, <2>1 DEF AccountType
  <2>6. account'.balance - account.balance = credited' - credited
      BY <1>1, <1>5, <2>3, <2>5 DEF MoneyTypes
  <2> QED BY <1>1, <2>3, <2>4, <2>5, <2>6 DEF WriterStep
<1>8. ASSUME Recharge PROVE MoneyTypes' /\ WriterStep
  <2>1. account' = [a EXCEPT !.balance = a.balance + TopUp,
                             !.version = a.version + 1]
      BY <1>1, <1>8 DEF Recharge
  <2>2. account' \in AccountType BY <1>1, <1>5, <2>1, RechargedTyped
  <2>3. /\ UNCHANGED <<now, deducted, tx, faults>>
        /\ credited' = credited + TopUp
        /\ touches < MaxTouches /\ touches' = touches + 1 /\ a.open
      BY <1>1, <1>8 DEF Recharge, Touch, chargeVars, pricerVars
  <2>4. MoneyTypes' BY <2>2, <2>3, ConstantsAssumption DEF MoneyTypes
  <2>5. /\ account'.open = a.open /\ account'.spent = a.spent
        /\ account'.cycle = a.cycle /\ account'.version = a.version + 1
        /\ account'.balance = a.balance + TopUp
      BY <1>1, <2>1 DEF AccountType
  <2>6. account'.balance - account.balance = credited' - credited
      BY <1>1, <1>3, <1>5, <2>3, <2>5 DEF MoneyTypes
  <2> QED BY <1>1, <2>3, <2>4, <2>5, <2>6 DEF WriterStep
<1>9. ASSUME ResetOnce PROVE MoneyTypes' /\ WriterStep
  <2>1. account' = [a EXCEPT !.used = 0, !.spent = 0, !.cycle = month,
                             !.version = a.version + 1]
      BY <1>1, <1>4, <1>9 DEF ResetOnce, ResetCycle
  <2>2. account' \in AccountType BY <1>1, <1>4, <1>5, <2>1, ResetTyped
  <2>3. UNCHANGED <<now, deducted, tx, credited, touches, faults>> /\ a.open
      BY <1>1, <1>9 DEF ResetOnce, chargeVars, pricerVars
  <2>4. MoneyTypes' BY <2>2, <2>3 DEF MoneyTypes
  <2>5. /\ account'.open = a.open /\ account'.spent = 0
        /\ account'.version = a.version + 1 /\ account'.balance = a.balance
      BY <1>1, <2>1 DEF AccountType
  <2>6. account'.balance - account.balance = credited' - credited
      BY <1>1, <1>5, <2>3, <2>5 DEF MoneyTypes
  <2> QED BY <1>1, <2>3, <2>4, <2>5, <2>6 DEF WriterStep
<1> QED BY <1>6, <1>7, <1>8, <1>9 DEF MoneyStep

\* Clock, ticker, ingestion and the two triggers leave the money alone.
LEMMA OthersAreMoneySteps ==
    ASSUME MoneyTypes,
           \/ Tick
           \/ \E r \in Requests : HandleMeteringEvent(r)
           \/ ReconcileOnce
           \/ \E b \in Buckets :
                \/ \E p \in Consumers : HandleSettlement(p, b)
                \/ \E p \in Workers : WorkerTakes(p, b)
    PROVE  MoneyTypes' /\ MoneyStep
<1>1. UNCHANGED <<deducted, account, credited, tx, touches>>
    BY DEF Tick, HandleMeteringEvent, ReconcileOnce, HandleSettlement,
           WorkerTakes, StartPriceOnce, chargeVars, pricerVars
<1>2. now' \in 0 .. MaxTime
  <2>1. CASE Tick BY <2>1, ConstantsAssumption DEF Tick, MoneyTypes
  <2>2. CASE now' = now BY <2>2 DEF MoneyTypes
  <2> QED BY <2>1, <2>2
          DEF HandleMeteringEvent, ReconcileOnce, HandleSettlement,
              WorkerTakes, StartPriceOnce
<1>3. faults' \in 0 .. MaxFaults
  <2>1. CASE Fault BY <2>1, ConstantsAssumption DEF Fault, MoneyTypes
  <2>2. CASE faults' = faults BY <2>2 DEF MoneyTypes
  <2> QED BY <2>1, <2>2
          DEF Tick, HandleMeteringEvent, ReconcileOnce, HandleSettlement,
              WorkerTakes, StartPriceOnce
<1>4. MoneyTypes' BY <1>1, <1>2, <1>3 DEF MoneyTypes
<1>5. MoneyStep BY <1>1 DEF MoneyStep, MoneyKeeps, TxKeeps
<1> QED BY <1>4, <1>5

\* The ways out of ChargeGroup without a deduction, and the failures.
LEMMA DropsAreMoneySteps ==
    ASSUME MoneyTypes,
           \/ \E p \in Pricers :
                \/ ChargeGroupConflict(p) \/ ChargeGroupFail(p)
                \/ AbandonPass(p)
                \/ \E g \in Groups : ChargeGroupConverge(p, g) \/ SkipGroup(p, g)
           \/ Restart
    PROVE  MoneyTypes' /\ MoneyStep
<1>1. UNCHANGED <<now, deducted, account, credited, touches>>
    BY DEF ChargeGroupConflict, ChargeGroupFail, AbandonPass,
           ChargeGroupConverge, SkipGroup, Restart, chargeVars
<1>2. faults' \in 0 .. MaxFaults
  <2>1. CASE Fault BY <2>1, ConstantsAssumption DEF Fault, MoneyTypes
  <2>2. CASE faults' = faults BY <2>2 DEF MoneyTypes
  <2> QED BY <2>1, <2>2
          DEF ChargeGroupConflict, ChargeGroupFail, AbandonPass,
              ChargeGroupConverge, SkipGroup, Restart
<1>3. \/ tx' = tx
      \/ \E p \in Pricers : tx' = [tx EXCEPT ![p] = Idle]
      \/ tx' = [p \in Pricers |-> Idle]
    BY DEF ChargeGroupConflict, ChargeGroupFail, AbandonPass,
           ChargeGroupConverge, SkipGroup, Restart, RollBack
<1> DEFINE TxType == [group : Groups \cup {"none"}, read : AccountType,
                      accrued : Nat]
<1>4. tx \in [Pricers -> TxType] BY DEF MoneyTypes
<1>5. Idle \in TxType BY IdleTyped
<1> HIDE DEF TxType
<1>6. tx' \in [Pricers -> TxType] BY <1>3, <1>4, <1>5
<1>7. \A p \in Pricers : TxKeeps(p) BY <1>3, <1>4 DEF TxKeeps
<1>8. MoneyTypes' BY <1>1, <1>2, <1>6 DEF MoneyTypes, TxType
<1>9. MoneyStep BY <1>1, <1>7 DEF MoneyStep, MoneyKeeps
<1> QED BY <1>8, <1>9

\* A transaction reads the account.
LEMMA BeginIsMoneyStep ==
    ASSUME Shapes, MoneyTypes, NEW p \in Pricers, NEW g \in Groups,
           ChargeGroupBegin(p, g)
    PROVE  MoneyTypes' /\ MoneyStep
<1> DEFINE accrued == IF account.open THEN CycleAccrual(g, snap[p][g]) ELSE 0
           t == [group |-> g, read |-> account, accrued |-> accrued]
<1>1. UNCHANGED <<now, deducted, account, credited, touches, faults>>
    BY DEF ChargeGroupBegin, chargeVars
<1>2. snap[p][g] \in SUBSET Requests BY DEF Shapes
<1>3. g \in Groups \ charges BY DEF ChargeGroupBegin
<1>4. account \in AccountType BY DEF MoneyTypes
<1>5. CycleAccrual(g, snap[p][g]) \in Nat
    BY <1>2, <1>3, <1>4, CycleAccrualCovered
<1>6. accrued \in Nat BY <1>5
<1>7. tx' = [tx EXCEPT ![p] = t] BY DEF ChargeGroupBegin
<1> HIDE DEF accrued
<1> DEFINE TxType == [group : Groups \cup {"none"}, read : AccountType,
                      accrued : Nat]
<1>8. t \in TxType BY <1>4, <1>6
<1>9. tx \in [Pricers -> TxType] BY DEF MoneyTypes
<1> HIDE DEF TxType, t
<1>10. tx' \in [Pricers -> TxType] BY <1>7, <1>8, <1>9
<1>11. MoneyTypes' BY <1>1, <1>10 DEF MoneyTypes, TxType
<1>12. MoneyStep BY <1>1 DEF MoneyStep, MoneyKeeps
<1> QED BY <1>11, <1>12

\* What the committed deduction did: the account it read was the account.
LEMMA DeductEffect ==
    ASSUME Shapes, TxInv, MoneyTypes, ReadIsCurrent,
           NEW p \in Pricers, DeductStep(p)
    PROVE  LET g == tx[p].group
               n == tx[p].accrued
           IN  /\ g \in Groups \ charges /\ n \in Nat
               /\ charges' = charges \cup {g} /\ billed'[g] = snap[p][g]
               /\ deducted' = [deducted EXCEPT ![g] = n]
               /\ account' \in AccountType /\ account'.open /\ account.open
               /\ account'.version = account.version + 1
               /\ account'.spent = account.spent + n
               /\ account'.cycle = account.cycle
               /\ account'.balance \in {account.balance, account.balance - n}
               /\ UNCHANGED <<now, credited, touches, faults>>
               /\ tx' = [tx EXCEPT ![p] = Idle]
<1> DEFINE g == tx[p].group
           n == tx[p].accrued
           a == account
           b == IF a.mode = "prepaid" THEN a.balance - n ELSE a.balance
           u == IF a.mode = "prepaid" THEN a.used ELSE a.used + n
<1>1. tx[p] # Idle /\ ChargeGroupCommit(p)
    BY DEF DeductStep, ChargeGroupCommit
<1>2. g \in Groups \ charges BY <1>1 DEF TxInv, Shapes
<1>3. n \in Nat BY DEF MoneyTypes
<1>4. tx[p].read = a /\ a.open BY DEF DeductStep, ReadIsCurrent
<1>5. /\ charges' = charges \cup {g}
      /\ billed' = [billed EXCEPT ![g] = snap[p][g]]
      /\ deducted' = [deducted EXCEPT ![g] = n]
      /\ Deduct(tx[p].read, n)
      /\ UNCHANGED <<now, credited, touches, faults>>
      /\ tx' = [tx EXCEPT ![p] = Idle]
    BY <1>1, <1>4 DEF ChargeGroupCommit, InsertCharge
<1>6. billed'[g] = snap[p][g] BY <1>2, <1>5 DEF Shapes
<1>7. account' = [a EXCEPT !.balance = b, !.used = u, !.spent = a.spent + n,
                           !.version = a.version + 1]
    BY <1>4, <1>5 DEF Deduct
<1>8. a \in AccountType BY DEF MoneyTypes
<1>9. a.balance \in Int /\ a.used \in Nat /\ a.spent \in Nat /\ a.version \in Nat
    BY <1>8, FieldsTyped
<1>10. b \in Int /\ u \in Nat /\ a.spent + n \in Nat /\ a.version + 1 \in Nat
    BY <1>3, <1>9
<1>11. b \in {a.balance, a.balance - n} OBVIOUS
<1>12. a = account OBVIOUS
<1> HIDE DEF g, n, a, b, u
<1>13. account' \in AccountType BY <1>7, <1>8, <1>10, DeductedTyped
<1>14. /\ account'.open = a.open /\ account'.spent = a.spent + n
       /\ account'.cycle = a.cycle /\ account'.version = a.version + 1
       /\ account'.balance = b
    BY <1>7, <1>8 DEF AccountType
<1>15. /\ g \in Groups \ charges /\ n \in Nat
       /\ charges' = charges \cup {g} /\ billed'[g] = snap[p][g]
       /\ deducted' = [deducted EXCEPT ![g] = n]
       /\ account' \in AccountType /\ account'.open /\ account.open
       /\ account'.version = account.version + 1
       /\ account'.spent = account.spent + n
       /\ account'.cycle = account.cycle
       /\ account'.balance \in {account.balance, account.balance - n}
       /\ UNCHANGED <<now, credited, touches, faults>>
       /\ tx' = [tx EXCEPT ![p] = Idle]
    BY <1>2, <1>3, <1>4, <1>5, <1>6, <1>11, <1>12, <1>13, <1>14
<1> QED BY <1>15 DEF g, n

\* A commit deducts, or there was no account to deduct from.
LEMMA CommitIsMoneyStep ==
    ASSUME Shapes, TxInv, MoneyTypes, ReadIsCurrent,
           NEW p \in Pricers, ChargeGroupCommit(p)
    PROVE  MoneyTypes' /\ MoneyStep
<1> DEFINE TxType == [group : Groups \cup {"none"}, read : AccountType,
                      accrued : Nat]
<1>1. tx \in [Pricers -> TxType] /\ Idle \in TxType
    BY IdleTyped DEF MoneyTypes
<1>2. tx' = [tx EXCEPT ![p] = Idle]
      /\ UNCHANGED <<now, credited, touches, faults>>
    BY DEF ChargeGroupCommit
<1> HIDE DEF TxType
<1>3. tx' \in [Pricers -> TxType] BY <1>1, <1>2
<1>4. CASE tx[p].read.open
  <2>1. DeductStep(p) BY <1>4 DEF DeductStep, ChargeGroupCommit, VersionHolds
  <2> DEFINE g == tx[p].group
             n == tx[p].accrued
  <2>2. /\ account' \in AccountType /\ g \in Groups /\ n \in Nat
        /\ deducted' = [deducted EXCEPT ![g] = n]
      BY <2>1, DeductEffect
  <2> HIDE DEF g, n
  <2>3. deducted' \in [Groups -> Nat \cup {-1}] BY <2>2 DEF MoneyTypes
  <2>4. MoneyTypes' BY <1>2, <1>3, <2>2, <2>3 DEF MoneyTypes, TxType
  <2> QED BY <2>1, <2>4 DEF MoneyStep
<1>5. CASE ~tx[p].read.open
  <2>1. account' = account /\ deducted' = deducted
      BY <1>5 DEF ChargeGroupCommit
  <2>2. MoneyTypes' BY <1>2, <1>3, <2>1 DEF MoneyTypes, TxType
  <2>3. \A q \in Pricers : TxKeeps(q) BY <1>1, <1>2 DEF TxKeeps
  <2> QED BY <1>2, <2>1, <2>2, <2>3 DEF MoneyStep, MoneyKeeps
<1> QED BY <1>4, <1>5

\* Every step of the specification is a step as classified above.
LEMMA NextIsMoneyStep ==
    ASSUME Shapes, TxInv, MoneyTypes, ReadIsCurrent, [Next]_vars
    PROVE  MoneyTypes' /\ MoneyStep
<1>1. CASE UNCHANGED vars
  <2>1. UNCHANGED <<now, deducted, account, credited, tx, touches, faults>>
      BY <1>1 DEF vars, chargeVars, pricerVars
  <2>2. MoneyTypes' BY <2>1 DEF MoneyTypes
  <2>3. MoneyStep BY <2>1 DEF MoneyStep, MoneyKeeps, TxKeeps
  <2> QED BY <2>2, <2>3
<1>2. CASE Next
  BY <1>2, WritersAreMoneySteps, OthersAreMoneySteps, DropsAreMoneySteps,
     BeginIsMoneyStep, CommitIsMoneyStep DEF Next, PricerStep
<1> QED BY <1>1, <1>2

-----------------------------------------------------------------------------
(* The reads. *)

LEMMA ReadsStay ==
    ASSUME Shapes, TxInv, MoneyTypes, ReadIsCurrent, MoneyStep
    PROVE  ReadIsCurrent'
<1> SUFFICES ASSUME NEW q \in Pricers, tx'[q].read.open
             PROVE  /\ account'.open
                    /\ tx'[q].read.version <= account'.version
                    /\ tx'[q].read.version = account'.version
                         => tx'[q].read = account'
    BY DEF ReadIsCurrent
<1>1. tx'[q] # Idle BY IdleTyped
<1>2. account.version \in Nat BY FieldsTyped DEF MoneyTypes
<1>3. tx[q].read.version \in Nat
    BY FieldsTyped DEF MoneyTypes
<1>4. CASE MoneyKeeps /\ tx'[q] = tx[q]
  BY <1>4 DEF MoneyKeeps, ReadIsCurrent
<1>5. ASSUME NEW p \in Pricers, NEW g \in Groups, ChargeGroupBegin(p, g),
             MoneyKeeps, p # q
      PROVE  tx'[q] = tx[q]
  BY <1>5 DEF ChargeGroupBegin, MoneyTypes
<1>6. ASSUME NEW g \in Groups, ChargeGroupBegin(q, g), MoneyKeeps
      PROVE  tx'[q].read = account /\ account' = account
  BY <1>6 DEF ChargeGroupBegin, MoneyTypes, MoneyKeeps
<1>7. CASE \E g \in Groups : ChargeGroupBegin(q, g) /\ MoneyKeeps
  BY <1>2, <1>6, <1>7
<1>8. CASE WriterStep
  <2>1. /\ tx'[q] = tx[q] /\ account'.open
        /\ account'.version = account.version + 1
      BY <1>8 DEF WriterStep
  <2>2. tx[q].read.version <= account.version BY <2>1 DEF ReadIsCurrent
  <2> QED BY <1>2, <1>3, <2>1, <2>2
<1>9. CASE OpenStep BY <1>9 DEF OpenStep, ReadIsCurrent
<1>10. ASSUME NEW p \in Pricers, DeductStep(p)
       PROVE  /\ account'.open
              /\ tx'[q].read.version <= account'.version
              /\ tx'[q].read.version # account'.version
  <2>1. /\ account'.open /\ account'.version = account.version + 1
        /\ tx' = [tx EXCEPT ![p] = Idle]
      BY <1>10, DeductEffect
  <2>2. tx'[q] = tx[q] BY <1>1, <2>1 DEF MoneyTypes
  <2>3. tx[q].read.version <= account.version BY <2>2 DEF ReadIsCurrent
  <2> QED BY <1>2, <1>3, <2>1, <2>2, <2>3
<1> QED BY <1>1, <1>4, <1>5, <1>7, <1>8, <1>9, <1>10 DEF MoneyStep, TxKeeps

-----------------------------------------------------------------------------
(* The deductions. *)

\* A pricer keeps what it summed while its transaction is open.
LEMMA SnapKept ==
    ASSUME Shapes, TxInv, ChargingStep,
           NEW q \in Pricers, tx[q] # Idle, tx'[q] = tx[q]
    PROVE  snap'[q][tx[q].group] = snap[q][tx[q].group]
<1>1. tx[q].group \in todo[q] /\ tx[q].group \in Groups BY DEF TxInv, Shapes
<1>2. CASE snap' = snap BY <1>2
<1>3. CASE PricersDrop BY <1>1, <1>3 DEF PricersDrop
<1>4. ASSUME NEW p \in Pricers, NEW b \in Buckets, ReadStep(p, b)
      PROVE  snap'[q] = snap[q]
  BY <1>4 DEF ReadStep, Shapes
<1> QED BY <1>2, <1>3, <1>4
        DEF ChargingStep, QuietStep, IngestStep, BeginStep, CommitStep,
            ConvergeStep, DropStep, PricersKeep

\* A cycle's total never shrinks.
LEMMA CycleGrows ==
    ASSUME Shapes, Shapes', TxInv, ChargingStep,
           account'.cycle = account.cycle
    PROVE  /\ ChargedMicros(InCycle(charges, account.cycle)) \in Nat
           /\ ChargedMicros(InCycle(charges, account.cycle))' \in Nat
           /\ ChargedMicros(InCycle(charges, account.cycle))
                <= ChargedMicros(InCycle(charges, account.cycle))'
<1> DEFINE gs == InCycle(charges, account.cycle)
           hs == InCycle(charges', account'.cycle)
<1>1. charges \subseteq charges' /\ \A g \in charges : billed'[g] = billed[g]
    BY ChargesStay
<1>2. gs \in SUBSET Groups /\ hs \in SUBSET Groups /\ gs \subseteq hs
    BY <1>1 DEF InCycle, Shapes
<1>3. \A g \in gs : billed'[g] = billed[g] BY <1>1 DEF InCycle
<1>4. /\ billed \in [Groups -> SUBSET Requests]
      /\ billed' \in [Groups -> SUBSET Requests]
    BY DEF Shapes
<1>5. ChargedMicros(gs) = Cardinality(UnitsOf(gs, billed)) BY ChargedIsUnits
<1>6. ChargedMicros(InCycle(charges, account.cycle))'
        = Cardinality(UnitsOf(hs, billed'))
    BY CycleNext
<1> HIDE DEF gs, hs
<1>7. /\ Cardinality(UnitsOf(gs, billed)) \in Nat
      /\ Cardinality(UnitsOf(hs, billed')) \in Nat
      /\ Cardinality(UnitsOf(gs, billed)) <= Cardinality(UnitsOf(hs, billed'))
    BY <1>2, <1>3, <1>4, UnitsFinite, UnitsMono
<1> QED BY <1>5, <1>6, <1>7 DEF gs, hs

\* So its own charge adds what it added.
LEMMA OwnKept ==
    ASSUME Shapes, TxInv, ChargingStep, account' = account,
           NEW q \in Pricers, tx[q] # Idle, tx'[q] = tx[q]
    PROVE  OwnMicros(q)' = OwnMicros(q)
<1>1. snap'[q][tx[q].group] = snap[q][tx[q].group] BY SnapKept
<1>2. Amount(snap[q][tx[q].group])' = Amount(snap[q][tx[q].group])
    BY <1>1 DEF Amount, Micros
<1> QED BY <1>2 DEF OwnMicros, PeriodStart

\* What covers a deduction keeps covering it while charges are added.
LEMMA CoveredKept ==
    ASSUME Shapes, Shapes', TxInv, MoneyTypes, AccruedIsCovered, ChargingStep,
           account' = account,
           NEW q \in Pricers, tx'[q] = tx[q], tx[q].read.open,
           tx[q].read.version = account.version
    PROVE  \/ tx[q].accrued = 0
           \/ account.spent + tx[q].accrued
                <= Cents(ChargedMicros(InCycle(charges, account.cycle))'
                           + OwnMicros(q)')
<1> DEFINE sum  == ChargedMicros(InCycle(charges, account.cycle))
           next == ChargedMicros(InCycle(charges, account.cycle))'
           own  == OwnMicros(q)
<1>1. tx[q] # Idle BY IdleTyped
<1>2. OwnMicros(q)' = own BY <1>1, OwnKept
<1>3. own \in Nat
  <2>1. tx[q].group \in Groups BY <1>1 DEF TxInv, Shapes
  <2>2. snap[q][tx[q].group] \in SUBSET Requests BY <2>1 DEF Shapes
  <2> QED BY <2>2, MicrosFinite DEF OwnMicros
<1>4. sum \in Nat /\ next \in Nat /\ sum <= next BY CycleGrows
<1>5. tx[q].accrued = 0 \/ account.spent + tx[q].accrued <= Cents(sum + own)
    BY DEF AccruedIsCovered
<1>6. account.spent \in Nat /\ tx[q].accrued \in Nat
    BY FieldsTyped DEF MoneyTypes
<1> HIDE DEF sum, next, own
<1>7. sum + own \in Nat /\ next + own \in Nat /\ sum + own <= next + own
    BY <1>3, <1>4
<1>8. /\ Cents(sum + own) \in Nat /\ Cents(next + own) \in Nat
      /\ Cents(sum + own) <= Cents(next + own)
    BY <1>7, CentsNat, CentsMono
<1>9. \/ tx[q].accrued = 0
      \/ account.spent + tx[q].accrued <= Cents(next + own)
    BY <1>5, <1>6, <1>8
<1> QED BY <1>2, <1>9 DEF next

\* A deduction that may still commit was computed from the account as it is.
LEMMA AccruedStays ==
    ASSUME Shapes, Shapes', TxInv, MoneyTypes, ReadIsCurrent,
           AccruedIsCovered, ChargingStep, MoneyStep
    PROVE  AccruedIsCovered'
<1> DEFINE next == ChargedMicros(InCycle(charges, account.cycle))'
<1> SUFFICES ASSUME NEW q \in Pricers, tx'[q].read.open,
                    tx'[q].read.version = account'.version
             PROVE  \/ tx'[q].accrued = 0
                    \/ account'.spent + tx'[q].accrued
                         <= Cents(next + OwnMicros(q)')
    BY DEF AccruedIsCovered, Cents
<1>1. tx'[q] # Idle BY IdleTyped
<1>2. account.version \in Nat BY FieldsTyped DEF MoneyTypes
<1>3. CASE MoneyKeeps /\ tx'[q] = tx[q]
  <2>1. account' = account BY <1>3 DEF MoneyKeeps
  <2> QED BY <1>3, <2>1, CoveredKept
<1>4. ASSUME NEW p \in Pricers, NEW g \in Groups, ChargeGroupBegin(p, g),
             MoneyKeeps, p # q
      PROVE  tx'[q] = tx[q]
  BY <1>4 DEF ChargeGroupBegin, MoneyTypes
<1>5. ASSUME NEW g \in Groups, ChargeGroupBegin(q, g), MoneyKeeps
      PROVE  \/ tx'[q].accrued = 0
             \/ account'.spent + tx'[q].accrued
                  <= Cents(next + OwnMicros(q)')
  <2> DEFINE L   == snap[q][g]
             n   == CycleAccrual(g, L)
             sum == ChargedMicros(InCycle(charges, account.cycle))
             own == IF PeriodStart(g) >= account.cycle THEN Amount(L) ELSE 0
  <2>1. /\ account' = account /\ charges' = charges /\ billed' = billed
        /\ snap' = snap /\ g \in Groups \ charges
      BY <1>5 DEF ChargeGroupBegin, MoneyKeeps, chargeVars
  <2>2. /\ tx'[q].group = g /\ tx'[q].read = account
        /\ tx'[q].accrued = IF account.open THEN n ELSE 0
      BY <1>5 DEF ChargeGroupBegin, MoneyTypes
  <2>3. L \in SUBSET Requests /\ account \in AccountType
      BY DEF Shapes, MoneyTypes
  <2>4. n = 0 \/ account.spent + n <= Cents(sum + own)
      BY <2>1, <2>3, CycleAccrualCovered
  <2>5. next = sum
      BY <2>1 DEF ChargedMicros, InCycle
  <2>6. OwnMicros(q)' = own
    <3>1. Amount(snap[q][tx[q].group])' = Amount(L)
        BY <2>1, <2>2 DEF Amount, Micros
    <3> QED BY <2>1, <2>2, <3>1 DEF OwnMicros, PeriodStart
  <2> HIDE DEF L, n, sum, own, next
  <2> QED BY <2>1, <2>2, <2>4, <2>5, <2>6
<1>6. CASE WriterStep
  <2>1. tx'[q] = tx[q] /\ account'.version = account.version + 1
      BY <1>6 DEF WriterStep
  <2>2. tx[q].read.version <= account.version BY <2>1 DEF ReadIsCurrent
  <2> QED BY <1>2, <2>1, <2>2
<1>7. CASE OpenStep BY <1>7 DEF OpenStep, ReadIsCurrent
<1>8. ASSUME NEW p \in Pricers, DeductStep(p) PROVE FALSE
  <2>1. /\ account'.version = account.version + 1
        /\ tx' = [tx EXCEPT ![p] = Idle]
      BY <1>8, DeductEffect
  <2>2. tx'[q] = tx[q] BY <1>1, <2>1 DEF MoneyTypes
  <2>3. tx[q].read.version <= account.version BY <2>2 DEF ReadIsCurrent
  <2> QED BY <1>2, <2>1, <2>2, <2>3
<1> HIDE DEF next
<1> QED BY <1>1, <1>3, <1>4, <1>5, <1>6, <1>7, <1>8 DEF MoneyStep, TxKeeps

\* A committed deduction's charge adds its own amount to the cycle's.
LEMMA DeductAdds ==
    ASSUME Shapes, Shapes', TxInv, MoneyTypes, ReadIsCurrent, ChargingStep,
           NEW p \in Pricers, DeductStep(p)
    PROVE  /\ OwnMicros(p) \in Nat
           /\ ChargedMicros(InCycle(charges, account.cycle)) + OwnMicros(p)
                = ChargedMicros(InCycle(charges, account.cycle))'
<1> DEFINE g   == tx[p].group
           gs  == InCycle(charges, account.cycle)
           hs  == InCycle(charges', account'.cycle)
           own == OwnMicros(p)
           sum == ChargedMicros(gs)
           next == ChargedMicros(InCycle(charges, account.cycle))'
<1>1. /\ g \in Groups \ charges
      /\ charges' = charges \cup {g} /\ billed'[g] = snap[p][g]
      /\ account'.cycle = account.cycle
    BY DeductEffect
<1>2. gs \in SUBSET Groups /\ gs \subseteq charges BY DEF InCycle, Shapes
<1>3. \A h \in gs : billed'[h] = billed[h] BY <1>2, ChargesStay
<1>4. /\ billed \in [Groups -> SUBSET Requests]
      /\ billed' \in [Groups -> SUBSET Requests]
    BY DEF Shapes
<1>5. sum = Cardinality(UnitsOf(gs, billed)) BY ChargedIsUnits
<1>6. next = Cardinality(UnitsOf(hs, billed')) BY CycleNext
<1>7. CASE PeriodStart(g) >= account.cycle
  <2>1. hs = gs \cup {g} BY <1>1, <1>7 DEF InCycle
  <2>2. own = Amount(billed'[g]) BY <1>1, <1>7 DEF OwnMicros
  <2>3. own \in Nat BY <1>1, <1>4, <2>2, MicrosFinite
  <2> HIDE DEF g, gs, hs, own, sum, next
  <2>4. g \in Groups \ gs BY <1>1, <1>2
  <2>5. sum + own = next
      BY <1>2, <1>3, <1>4, <1>5, <1>6, <2>1, <2>2, <2>4, UnitsAdd
  <2> QED BY <2>3, <2>5 DEF gs, own, sum, next
<1>8. CASE ~(PeriodStart(g) >= account.cycle)
  <2>1. own = 0 BY <1>8 DEF OwnMicros
  <2>2. hs = gs BY <1>1, <1>8 DEF InCycle
  <2> HIDE DEF g, gs, hs, own, sum, next
  <2>3. UnitsOf(gs, billed) = UnitsOf(hs, billed')
    <3>1. UnitsOf(gs, billed) \subseteq UnitsOf(gs, billed')
        BY <1>3, UnitsMember
    <3>2. UnitsOf(gs, billed') \subseteq UnitsOf(gs, billed)
        BY <1>3, UnitsMember
    <3> QED BY <2>2, <3>1, <3>2
  <2>4. Cardinality(UnitsOf(gs, billed)) \in Nat BY <1>2, <1>4, UnitsFinite
  <2>5. sum + own = next BY <1>5, <1>6, <2>1, <2>3, <2>4
  <2> QED BY <2>1, <2>5 DEF gs, own, sum, next
<1> QED BY <1>7, <1>8

\* The commit adds its charge to the cycle's, and no more than it to the
\* account.
LEMMA NeverOverStays ==
    ASSUME Shapes, Shapes', TxInv, MoneyTypes, MoneyTypes', ReadIsCurrent,
           AccruedIsCovered, UnopenedIsBlank, NeverOverDeducts,
           ChargingStep, MoneyStep
    PROVE  NeverOverDeducts'
<1> DEFINE sum  == ChargedMicros(InCycle(charges, account.cycle))
           next == ChargedMicros(InCycle(charges, account.cycle))'
<1> SUFFICES account'.spent <= Cents(next)
    BY DEF NeverOverDeducts, Cents
<1>1. account.spent \in Nat /\ account'.spent \in Nat
    BY FieldsTyped DEF MoneyTypes
<1>2. account.spent <= Cents(sum) BY DEF NeverOverDeducts
<1>3. sum \in Nat BY InCycleNat
<1>4. next \in Nat
  <2>1. InCycle(charges', account'.cycle) \in SUBSET Groups
      BY DEF InCycle, Shapes
  <2>2. billed' \in [Groups -> SUBSET Requests] BY DEF Shapes
  <2> QED BY <2>1, <2>2, UnitsFinite, CycleNext
<1>5. Cents(next) \in Nat /\ Cents(sum) \in Nat BY <1>3, <1>4, CentsNat
<1>6. account'.cycle = account.cycle => Cents(sum) <= Cents(next)
    BY <1>3, <1>4, CycleGrows, CentsMono
<1> HIDE DEF sum, next
<1>7. CASE account'.spent = account.spent /\ account'.cycle = account.cycle
  BY <1>1, <1>2, <1>5, <1>6, <1>7
<1>8. CASE account'.spent = 0 BY <1>5, <1>8
<1>9. CASE MoneyKeeps BY <1>7, <1>9 DEF MoneyKeeps
<1>10. CASE WriterStep BY <1>7, <1>8, <1>10 DEF WriterStep
<1>11. CASE OpenStep
  BY <1>8, <1>11 DEF OpenStep, UnopenedIsBlank, NoAccount
<1>12. ASSUME NEW p \in Pricers, DeductStep(p)
       PROVE  account'.spent <= Cents(next)
  <2> DEFINE g  == tx[p].group
             n  == tx[p].accrued
             own == OwnMicros(p)
  <2>1. /\ g \in Groups \ charges /\ n \in Nat
        /\ account'.spent = account.spent + n
        /\ account'.cycle = account.cycle
      BY <1>12, DeductEffect
  <2>2. n = 0 \/ account.spent + n <= Cents(sum + own)
      BY <1>12 DEF DeductStep, AccruedIsCovered, sum
  <2>3. sum + own = next /\ own \in Nat
      BY <1>12, DeductAdds DEF sum, next
  <2> HIDE DEF g, n, own
  <2>4. CASE n = 0 BY <1>1, <1>7, <2>1, <2>4
  <2>5. CASE account.spent + n <= Cents(sum + own)
    <3>1. sum + own \in Nat BY <1>3, <2>3
    <3>2. Cents(sum + own) \in Nat /\ Cents(sum + own) <= Cents(next)
        BY <1>4, <2>3, <3>1, CentsNat, CentsMono
    <3> QED BY <1>1, <1>5, <2>1, <2>5, <3>2
  <2> QED BY <2>2, <2>4, <2>5
<1> QED BY <1>9, <1>10, <1>11, <1>12 DEF MoneyStep

\* An account stays open, and only a commit adds a deduction.
LEMMA BlankStays ==
    ASSUME Shapes, TxInv, MoneyTypes, ReadIsCurrent, UnopenedIsBlank, MoneyStep
    PROVE  UnopenedIsBlank'
<1>1. CASE MoneyKeeps BY <1>1 DEF MoneyKeeps, UnopenedIsBlank
<1>2. CASE WriterStep \/ OpenStep
  BY <1>2 DEF WriterStep, OpenStep, UnopenedIsBlank
<1>3. ASSUME NEW p \in Pricers, DeductStep(p) PROVE UnopenedIsBlank'
  <2>1. account'.open BY <1>3, DeductEffect
  <2> QED BY <2>1 DEF UnopenedIsBlank
<1> QED BY <1>1, <1>2, <1>3 DEF MoneyStep

LEMMA UndeductedStays ==
    ASSUME Shapes, TxInv, MoneyTypes, ReadIsCurrent, UnchargedIsUndeducted,
           ChargingStep, MoneyStep
    PROVE  UnchargedIsUndeducted'
<1>1. charges \subseteq charges' BY ChargesStay
<1>2. CASE deducted' = deducted BY <1>1, <1>2 DEF UnchargedIsUndeducted
<1>3. ASSUME NEW p \in Pricers, DeductStep(p) PROVE UnchargedIsUndeducted'
  <2> DEFINE g == tx[p].group
             n == tx[p].accrued
  <2>1. /\ charges' = charges \cup {g}
        /\ deducted' = [deducted EXCEPT ![g] = n]
      BY <1>3, DeductEffect
  <2> HIDE DEF g, n
  <2> QED BY <2>1 DEF UnchargedIsUndeducted, MoneyTypes
<1> QED BY <1>2, <1>3 DEF MoneyStep, MoneyKeeps, WriterStep, OpenStep

-----------------------------------------------------------------------------
(* The theorems. *)

\* No account, or one that nothing has been deducted from.
LEMMA MoneyInit ==
    ASSUME NEW initial \in AccountType, initial.spent = 0,
           initial.open \/ initial = NoAccount,
           InitWith(initial)
    PROVE  MoneyInv
<1>1. IInv BY IInvInit
<1> USE DEF InitWith
<1>2. MoneyTypes
  <2>1. /\ MaxTime \in Nat /\ MaxTouches \in Nat /\ MaxFaults \in Nat
      BY ConstantsAssumption
  <2> QED BY <2>1, NoAccountTyped, IdleTyped DEF MoneyTypes
<1>3. ReadIsCurrent BY IdleTyped DEF ReadIsCurrent
<1>4. AccruedIsCovered BY IdleTyped DEF AccruedIsCovered
<1>5. UnopenedIsBlank BY DEF UnopenedIsBlank
<1>6. UnchargedIsUndeducted BY DEF UnchargedIsUndeducted
<1>7. NeverOverDeducts
  <2>1. Shapes BY <1>1 DEF IInv
  <2> DEFINE sum == ChargedMicros(InCycle(charges, account.cycle))
  <2>2. sum \in Nat BY <2>1, InCycleNat
  <2> HIDE DEF sum
  <2>3. Cents(sum) \in Nat BY <2>2, CentsNat
  <2>4. account.spent = 0 BY DEF NoAccount
  <2> QED BY <2>3, <2>4 DEF NeverOverDeducts, sum
<1> QED BY <1>1, <1>2, <1>3, <1>4, <1>5, <1>6, <1>7 DEF MoneyInv

LEMMA MoneyNext == MoneyInv /\ [Next]_vars => MoneyInv'
<1> SUFFICES ASSUME MoneyInv, [Next]_vars PROVE MoneyInv' OBVIOUS
<1> USE DEF MoneyInv
<1>1. Shapes /\ TxInv /\ PricedLate BY DEF IInv
<1>2. IInv' BY IInvNext
<1>3. Shapes' /\ ChargingStep BY <1>1, NextIsStep
<1>4. MoneyTypes' /\ MoneyStep BY <1>1, NextIsMoneyStep
<1>5. ReadIsCurrent' BY <1>1, <1>4, ReadsStay
<1>6. AccruedIsCovered' BY <1>1, <1>3, <1>4, AccruedStays
<1>7. UnopenedIsBlank' BY <1>1, <1>4, BlankStays
<1>8. UnchargedIsUndeducted' BY <1>1, <1>3, <1>4, UndeductedStays
<1>9. NeverOverDeducts' BY <1>1, <1>3, <1>4, NeverOverStays
<1> QED BY <1>2, <1>4, <1>5, <1>6, <1>7, <1>8, <1>9

\* The invariant holds throughout.
THEOREM MoneyInvariant == Spec => []MoneyInv
<1>1. Init => MoneyInv
    BY MoneyInit, NoAccountTyped DEF Init, NoAccount
<1> QED BY <1>1, MoneyNext, PTL DEF Spec

\* The state keeps its types: what the account, its reads and its deductions
\* are computed from never leaves them (ApplyDeduction, ResetOnce).
THEOREM ChargingTyped == Spec => []TypeOK
<1>1. MoneyInv => TypeOK
    BY DEF MoneyInv, MoneyTypes, IInv, Shapes, TxInv, TypeOK
<1> QED BY <1>1, MoneyInvariant, PTL

\* The cycle's deductions never exceed the cycle's charges, whatever the
\* transactions read and in whatever order they commit (cycleAccrual,
\* ApplyDeduction's version guard, ResetOnce).
THEOREM NeverOverDeducted == Spec => []NeverOverDeducts
<1>1. MoneyInv => NeverOverDeducts BY DEF MoneyInv
<1> QED BY <1>1, MoneyInvariant, PTL

\* The balance moves only by its ledger: no writer of the account overwrites
\* a deduction or a recharge it did not read (ApplyDeduction, Recharge,
\* UpdateAccount, ResetOnce).
THEOREM BalanceStaysOnLedger == Spec => BalanceNeverLost
<1> DEFINE Moves ==
      account'.balance - account.balance \in
         {0} \cup {credited' - credited}
             \cup {-(deducted'[g]) : g \in {x \in Groups :
                        deducted'[x] # deducted[x]}}
<1>1. MoneyInv /\ [Next]_vars => Moves
  <2> SUFFICES ASSUME MoneyInv, [Next]_vars PROVE Moves OBVIOUS
  <2> USE DEF MoneyInv
  <2>1. Shapes /\ TxInv BY DEF IInv
  <2>2. MoneyTypes' /\ MoneyStep BY <2>1, NextIsMoneyStep
  <2>3. /\ account.balance \in Int /\ account'.balance \in Int
        /\ credited \in Nat /\ credited' \in Nat
      BY <2>2, FieldsTyped DEF MoneyTypes
  <2>4. CASE MoneyKeeps BY <2>3, <2>4 DEF MoneyKeeps
  <2>5. CASE WriterStep BY <2>5 DEF WriterStep
  <2>6. CASE OpenStep
    <3>1. account.balance = 0 /\ credited = 0
        BY <2>6 DEF OpenStep, UnopenedIsBlank, NoAccount
    <3>2. account'.balance = credited' BY <2>6 DEF OpenStep
    <3> QED BY <2>3, <3>1, <3>2
  <2>7. ASSUME NEW p \in Pricers, DeductStep(p) PROVE Moves
    <3> DEFINE g == tx[p].group
               n == tx[p].accrued
    <3>1. /\ g \in Groups \ charges /\ n \in Nat
          /\ deducted' = [deducted EXCEPT ![g] = n]
          /\ account'.balance \in {account.balance, account.balance - n}
        BY <2>1, <2>7, DeductEffect
    <3> HIDE DEF g, n
    <3>2. deducted'[g] = n /\ deducted[g] = -1
        BY <3>1 DEF UnchargedIsUndeducted, MoneyTypes
    <3>3. deducted'[g] # deducted[g] BY <3>1, <3>2
    <3>4. \/ account'.balance - account.balance = 0
          \/ account'.balance - account.balance = -(deducted'[g])
        BY <2>3, <3>1, <3>2
    <3> QED BY <3>1, <3>3, <3>4
  <2> QED BY <2>2, <2>4, <2>5, <2>6, <2>7 DEF MoneyStep
<1> QED BY <1>1, MoneyInvariant, PTL DEF Spec, BalanceNeverLost

-----------------------------------------------------------------------------
(* An organization that has its account from the start: every charge comes *)
(* with a deduction, so an open transaction at the account's version has   *)
(* seen every charge of the cycle.                                         *)

ReadsOpen == account.open /\ \A p \in Pricers : tx[p] # Idle => tx[p].read.open

\* A deduction that may still commit is exactly what the cycle's charges,
\* its own included, have over what the cycle has deducted.
AccruedIsExact ==
    \A p \in Pricers :
        (tx[p].read.open /\ tx[p].read.version = account.version) =>
            account.spent + tx[p].accrued
              = Cents(ChargedMicros(InCycle(charges, account.cycle))
                        + OwnMicros(p))

OpenedInv == MoneyInv /\ ReadsOpen /\ AccruedIsExact

LEMMA OpenedIsExact == OpenedInit => OpenedInv
<1> SUFFICES ASSUME OpenedInit PROVE OpenedInv OBVIOUS
<1> DEFINE initial == [NoAccount EXCEPT !.open = TRUE]
<1>1. /\ initial \in AccountType /\ initial.spent = 0 /\ initial.open
      /\ InitWith(initial)
  <2>1. InitWith(initial) BY DEF OpenedInit
  <2>2. ASSUME NEW a \in AccountType
        PROVE  /\ [a EXCEPT !.open = TRUE] \in AccountType
               /\ [a EXCEPT !.open = TRUE].spent = a.spent
               /\ [a EXCEPT !.open = TRUE].open
      BY <2>2 DEF AccountType
  <2>3. NoAccount.spent = 0 BY DEF NoAccount
  <2>4. initial \in AccountType /\ initial.spent = 0 /\ initial.open
      BY <2>2, <2>3, NoAccountTyped
  <2> QED BY <2>1, <2>4
<1>2. account = initial /\ tx = [p \in Pricers |-> Idle]
    BY <1>1 DEF InitWith
<1> HIDE DEF initial
<1>3. MoneyInv BY <1>1, MoneyInit
<1>4. ReadsOpen BY <1>1, <1>2 DEF ReadsOpen
<1>5. AccruedIsExact BY <1>2, IdleTyped DEF AccruedIsExact
<1> QED BY <1>3, <1>4, <1>5 DEF OpenedInv

\* A step commits a deduction, or leaves charges and deductions alone.
LEMMA ChargesMoveByDeduction ==
    ASSUME ReadsOpen, [Next]_vars
    PROVE  \/ \E p \in Pricers : DeductStep(p)
           \/ charges' = charges /\ billed' = billed /\ deducted' = deducted
<1>1. ASSUME NEW p \in Pricers, ChargeGroupCommit(p) PROVE DeductStep(p)
  BY <1>1 DEF ChargeGroupCommit, VersionHolds, DeductStep, ReadsOpen
<1>2. \/ \E p \in Pricers : ChargeGroupCommit(p)
      \/ UNCHANGED chargeVars
  BY DEF Next, vars, Tick, HandleMeteringEvent, ReconcileOnce, PricerStep,
         ChargeGroupConflict, ChargeGroupConverge, ChargeGroupBegin,
         ChargeGroupFail, SkipGroup, AbandonPass, HandleSettlement, WorkerTakes,
         StartPriceOnce, Restart, OpenAccount, UpdateAccount, Recharge,
         ResetOnce
<1> QED BY <1>1, <1>2 DEF chargeVars

\* The account stays open, and transactions read it open.
LEMMA ReadsOpenStay ==
    ASSUME Shapes, TxInv, MoneyTypes, ReadIsCurrent, ReadsOpen, MoneyStep
    PROVE  ReadsOpen'
<1>1. CASE MoneyKeeps /\ \A p \in Pricers : TxKeeps(p)
  BY <1>1 DEF MoneyKeeps, TxKeeps, ReadsOpen
<1>2. ASSUME NEW p \in Pricers, NEW g \in Groups, ChargeGroupBegin(p, g),
             MoneyKeeps
      PROVE  ReadsOpen'
  <2>1. tx'[p].read = account /\ \A q \in Pricers \ {p} : tx'[q] = tx[q]
      BY <1>2 DEF ChargeGroupBegin, MoneyTypes
  <2> QED BY <1>2, <2>1 DEF MoneyKeeps, ReadsOpen
<1>3. CASE WriterStep BY <1>3 DEF WriterStep, ReadsOpen
<1>4. CASE OpenStep BY <1>4 DEF OpenStep, ReadsOpen
<1>5. ASSUME NEW p \in Pricers, DeductStep(p) PROVE ReadsOpen'
  <2>1. account'.open /\ tx' = [tx EXCEPT ![p] = Idle]
      BY <1>5, DeductEffect
  <2>2. \A q \in Pricers : tx'[q] = Idle \/ tx'[q] = tx[q]
      BY <2>1 DEF MoneyTypes
  <2> QED BY <2>1, <2>2 DEF ReadsOpen
<1> QED BY <1>1, <1>2, <1>3, <1>4, <1>5 DEF MoneyStep

\* Charges of the cycle come with a new version of the account, so the
\* transactions that have not seen them cannot commit.
LEMMA ExactStays ==
    ASSUME Shapes, TxInv, MoneyTypes, ReadIsCurrent, ReadsOpen,
           AccruedIsExact, NeverOverDeducts, ChargingStep, MoneyStep,
           [Next]_vars
    PROVE  AccruedIsExact'
<1> DEFINE sum  == ChargedMicros(InCycle(charges, account.cycle))
           next == ChargedMicros(InCycle(charges, account.cycle))'
<1> SUFFICES ASSUME NEW q \in Pricers, tx'[q].read.open,
                    tx'[q].read.version = account'.version
             PROVE  account'.spent + tx'[q].accrued
                      = Cents(next + OwnMicros(q)')
    BY DEF AccruedIsExact, Cents
<1>1. tx'[q] # Idle BY IdleTyped
<1>2. account.version \in Nat BY FieldsTyped DEF MoneyTypes
<1>3. ASSUME charges' = charges, billed' = billed, account' = account
      PROVE  next = sum
  BY <1>3 DEF ChargedMicros, InCycle
<1>4. ASSUME charges' = charges, billed' = billed, MoneyKeeps, tx'[q] = tx[q]
      PROVE  account'.spent + tx'[q].accrued = Cents(next + OwnMicros(q)')
  <2>1. account' = account BY <1>4 DEF MoneyKeeps
  <2>2. OwnMicros(q)' = OwnMicros(q) BY <1>1, <1>4, <2>1, OwnKept
  <2>3. account.spent + tx[q].accrued = Cents(sum + OwnMicros(q))
      BY <1>4, <2>1 DEF AccruedIsExact
  <2>4. next = sum BY <1>3, <1>4, <2>1
  <2> HIDE DEF sum, next
  <2> QED BY <1>4, <2>1, <2>2, <2>3, <2>4
<1>5. ASSUME NEW p \in Pricers, NEW g \in Groups, ChargeGroupBegin(p, g),
             MoneyKeeps, p # q
      PROVE  tx'[q] = tx[q]
  BY <1>5 DEF ChargeGroupBegin, MoneyTypes
<1>6. ASSUME NEW g \in Groups, ChargeGroupBegin(q, g), MoneyKeeps
      PROVE  account'.spent + tx'[q].accrued = Cents(next + OwnMicros(q)')
  <2> DEFINE L   == snap[q][g]
             n   == CycleAccrual(g, L)
             own == IF PeriodStart(g) >= account.cycle THEN Amount(L) ELSE 0
  <2>1. /\ account' = account /\ charges' = charges /\ billed' = billed
        /\ snap' = snap /\ g \in Groups \ charges
      BY <1>6 DEF ChargeGroupBegin, MoneyKeeps, chargeVars
  <2>2. tx'[q].group = g /\ tx'[q].accrued = n
      BY <1>6 DEF ChargeGroupBegin, MoneyTypes, ReadsOpen
  <2>3. L \in SUBSET Requests /\ account \in AccountType
      BY DEF Shapes, MoneyTypes
  <2>4. account.spent + n = Cents(sum + own)
      BY <2>1, <2>3, CycleAccrualCovered
  <2>5. next = sum BY <1>3, <2>1
  <2>6. OwnMicros(q)' = own
    <3>1. Amount(snap[q][tx[q].group])' = Amount(L)
        BY <2>1, <2>2 DEF Amount, Micros
    <3> QED BY <2>1, <2>2, <3>1 DEF OwnMicros, PeriodStart
  <2> HIDE DEF L, n, sum, own, next
  <2> QED BY <2>1, <2>2, <2>4, <2>5, <2>6
<1>7. CASE WriterStep
  <2>1. tx'[q] = tx[q] /\ account'.version = account.version + 1
      BY <1>7 DEF WriterStep
  <2>2. tx[q].read.version <= account.version BY <2>1 DEF ReadIsCurrent
  <2> QED BY <1>2, <2>1, <2>2
<1>8. ASSUME NEW p \in Pricers, DeductStep(p) PROVE FALSE
  <2>1. /\ account'.version = account.version + 1
        /\ tx' = [tx EXCEPT ![p] = Idle]
      BY <1>8, DeductEffect
  <2>2. tx'[q] = tx[q] BY <1>1, <2>1 DEF MoneyTypes
  <2>3. tx[q].read.version <= account.version BY <2>2 DEF ReadIsCurrent
  <2> QED BY <1>2, <2>1, <2>2, <2>3
<1>9. ~OpenStep BY DEF OpenStep, ReadsOpen
<1>10. charges' = charges /\ billed' = billed
    BY <1>8, ChargesMoveByDeduction
<1> HIDE DEF sum, next
<1> QED BY <1>1, <1>4, <1>5, <1>6, <1>7, <1>8, <1>9, <1>10
        DEF MoneyStep, TxKeeps

\* Such an organization's deductions follow its charges to the cent: what a
\* cycle has deducted is, after each deduction, the cycle's charges rounded
\* once, whatever conflicts, rollbacks, recharges and mode changes came in
\* between (cycleAccrual, ApplyDeduction's version guard).
THEOREM DeductionsStayExact == OpenedSpec => DeductionsExact
<1>1. OpenedInv /\ [Next]_vars => OpenedInv'
  <2> SUFFICES ASSUME OpenedInv, [Next]_vars PROVE OpenedInv' OBVIOUS
  <2> USE DEF OpenedInv, MoneyInv
  <2>1. Shapes /\ TxInv /\ PricedLate BY DEF IInv
  <2>2. ChargingStep /\ MoneyStep BY <2>1, NextIsStep, NextIsMoneyStep
  <2>3. ReadsOpen' BY <2>1, <2>2, ReadsOpenStay
  <2>4. AccruedIsExact' BY <2>1, <2>2, ExactStays
  <2> QED BY <2>3, <2>4, MoneyNext
<1>2. OpenedInv /\ [Next]_vars =>
        (deducted' # deducted =>
           account'.spent
             = Cents(ChargedMicros(InCycle(charges, account.cycle)))')
  <2> DEFINE sum  == ChargedMicros(InCycle(charges, account.cycle))
             next == ChargedMicros(InCycle(charges, account.cycle))'
  <2> SUFFICES ASSUME OpenedInv, [Next]_vars, deducted' # deducted
               PROVE  account'.spent = Cents(next)
      BY DEF Cents
  <2> USE DEF OpenedInv, MoneyInv
  <2>1. Shapes /\ Shapes' /\ TxInv /\ PricedLate
      BY NextIsStep DEF IInv
  <2>2. ChargingStep BY <2>1, NextIsStep
  <2>3. PICK p \in Pricers : DeductStep(p) BY ChargesMoveByDeduction
  <2>4. account'.spent = account.spent + tx[p].accrued
      BY <2>1, <2>3, DeductEffect
  <2>5. account.spent + tx[p].accrued = Cents(sum + OwnMicros(p))
      BY <2>3 DEF AccruedIsExact, DeductStep
  <2>6. sum + OwnMicros(p) = next BY <2>1, <2>2, <2>3, DeductAdds
  <2> HIDE DEF sum, next
  <2> QED BY <2>4, <2>5, <2>6
<1> QED BY <1>1, <1>2, OpenedIsExact, PTL DEF OpenedSpec, DeductionsExact
=============================================================================
