----------------------------- MODULE FundsGate -----------------------------
(* The funds gate of one organization (services/billing, account_service   *)
(* and funds_holds).  A verification reads what is settled and what is     *)
(* accrued in every scope that constrains its request (the account, and    *)
(* the caps of its owner, project and membership), in statements of their  *)
(* own, and then asks a Redis script to hold the request's worst-case cost *)
(* in all of them.  The request runs; metering records it as an accrual;   *)
(* charging moves the accrual into the settled spend.  Holds expire.       *)
(*                                                                         *)
(* An amount that was read is kept as the set of requests it sums.         *)
EXTENDS Integers, FiniteSets

CONSTANTS
    Requests,     \* admissions, by the request id metering will record
    Scopes,       \* the ceilings of the organization
    Account,      \* the scope of the account itself
    Tiers,        \* the scopes that constrain each request
    Need,         \* reserveMicros of each request; 0 when it is unpriced
    Ceiling,      \* what each scope may spend at first
    MaxAmount,    \* bound on what a request needs or costs
    MaxTries,     \* bound on verifications
    MaxRaises,    \* bound on recharges and raised caps
    MaxFaults     \* bound on failed reads, reservations and lost holds

ASSUME ConstantsAssumption ==
    /\ IsFiniteSet(Requests) /\ Account \in Scopes
    /\ Tiers \in [Requests -> SUBSET Scopes]
    /\ \A r \in Requests : Account \in Tiers[r]
    /\ MaxAmount \in Nat /\ MaxTries \in Nat /\ MaxRaises \in Nat
    /\ MaxFaults \in Nat
    /\ Need \in [Requests -> 0 .. MaxAmount]
    /\ Ceiling \in [Scopes -> Nat]

VARIABLES
    funds,      \* balance and caps, before any charge
    cost,       \* what each recorded request cost
    recorded,   \* the requests with a usage line
    accruing,   \* those whose line accrues: its cost is in the open hour
    charged,    \* those whose line was charged
    admitted,   \* the requests the gate let through
    holds,      \* scope and request of every hold in Redis
    stage,      \* how far the evaluation of each request is, per scope
    seen,       \* the requests whose cost it has read, per scope
    seenFunds,  \* the balance or cap it has read
    tries, raises, faults,
    loose,      \* history: admitted on less than the whole position
    drained     \* history: evaluations of a scope that had nothing left

vars == <<funds, cost, recorded, accruing, charged, admitted, holds, stage,
          seen, seenFunds, tries, raises, faults, loose, drained>>

-----------------------------------------------------------------------------
Amounts == 0 .. MaxAmount

\* idle: no evaluation is under way; unbound: a failed read, no ceiling.
Stages == {"idle", "unread", "settled", "read", "unbound"}

Within(s) == {r \in Requests : s \in Tiers[r]}

\* The sum of amount over S, as the number of units in it.
Spend(S, amount) ==
    Cardinality({u \in S \X (1 .. MaxAmount) : u[2] <= amount[u[1]]})

Holders(s) == {r \in Requests : <<s, r>> \in holds}

Evaluating(r) == stage[r][Account] # "idle"

Bounds(r) == {s \in Tiers[r] : stage[r][s] = "read"}

Available(r, s) == seenFunds[r][s] - Spend(seen[r][s], cost)

Init ==
    /\ funds = Ceiling
    /\ cost = [r \in Requests |-> 0]
    /\ recorded = {} /\ accruing = {} /\ charged = {} /\ admitted = {}
    /\ holds = {}
    /\ stage = [r \in Requests |-> [s \in Scopes |-> "idle"]]
    /\ seen = [r \in Requests |-> [s \in Scopes |-> {}]]
    /\ seenFunds = [r \in Requests |-> [s \in Scopes |-> 0]]
    /\ tries = 0 /\ raises = 0 /\ faults = 0
    /\ loose = {} /\ drained = {}

Fault == faults < MaxFaults /\ faults' = faults + 1

-----------------------------------------------------------------------------
(* evaluateFunds, for an account that is prepaid or blocks at its quota. *)

\* Nothing is left of scope s, counting what is not charged yet.
Drained(s) == funds[s] <= Spend((charged \cup accruing) \cap Within(s), cost)

\* A verification names its request.  A gateway may repeat it.
Verify(r) ==
    /\ tries < MaxTries /\ r \notin recorded
    /\ ~Evaluating(r)
    /\ stage' = [stage EXCEPT ![r] = [s \in Scopes |->
                    IF s \in Tiers[r] THEN "unread" ELSE "idle"]]
    /\ seen' = [seen EXCEPT ![r] = [s \in Scopes |-> {}]]
    /\ seenFunds' = [seenFunds EXCEPT ![r] = [s \in Scopes |-> 0]]
    /\ tries' = tries + 1
    /\ drained' = drained \cup {<<r, s>> : s \in {t \in Tiers[r] : Drained(t)}}
    /\ UNCHANGED <<funds, cost, recorded, accruing, charged, admitted, holds,
                   raises, faults, loose>>

\* The account comes first, each scope's settled spend before its accrual.
Turn(r, s) ==
    /\ s \in Tiers[r]
    /\ s # Account => stage[r][Account] = "read"
    /\ \A t \in Tiers[r] : stage[r][t] # "settled" \/ t = s

\* The account row (its balance is net of charges), or the cap of a tier and
\* the sum of its charges.
ReadSettled(r, s) ==
    /\ Turn(r, s) /\ stage[r][s] = "unread"
    /\ seenFunds' = [seenFunds EXCEPT ![r][s] = funds[s]]
    /\ seen' = [seen EXCEPT ![r][s] = charged \cap Within(s)]
    /\ stage' = [stage EXCEPT ![r][s] = "settled"]
    /\ UNCHANGED <<funds, cost, recorded, accruing, charged, admitted, holds,
                   tries, raises, faults, loose, drained>>

\* Mutant of ReadAccrual: only the settled spend counts.
ReadNoAccrual(r, s) ==
    /\ Turn(r, s) /\ stage[r][s] = "settled"
    /\ stage' = [stage EXCEPT ![r][s] = "read"]
    /\ UNCHANGED <<funds, cost, recorded, accruing, charged, admitted, holds,
                   seen, seenFunds, tries, raises, faults, loose, drained>>

\* AccrualMicros: the lines that are not charged when it runs.
ReadAccrual(r, s) ==
    /\ Turn(r, s) /\ stage[r][s] = "settled"
    /\ seen' = [seen EXCEPT ![r][s] = @ \cup (accruing \cap Within(s))]
    /\ stage' = [stage EXCEPT ![r][s] = "read"]
    /\ UNCHANGED <<funds, cost, recorded, accruing, charged, admitted, holds,
                   seenFunds, tries, raises, faults, loose, drained>>

\* scopedAccrual counts an accrual it cannot read as none.
AccrualFails(r, s) ==
    /\ Turn(r, s) /\ stage[r][s] = "settled"
    /\ Fault
    /\ stage' = [stage EXCEPT ![r][s] = "read"]
    /\ drained' = drained \ {<<r, s>>}
    /\ UNCHANGED <<funds, cost, recorded, accruing, charged, admitted, holds,
                   seen, seenFunds, tries, raises, loose>>

\* A tier whose cap or spend cannot be read constrains nothing.
TierFails(r, s) ==
    /\ Turn(r, s) /\ s # Account /\ stage[r][s] = "unread"
    /\ Fault
    /\ stage' = [stage EXCEPT ![r][s] = "unbound"]
    /\ drained' = drained \ {<<r, s>>}
    /\ UNCHANGED <<funds, cost, recorded, accruing, charged, admitted, holds,
                   seen, seenFunds, tries, raises, loose>>

-----------------------------------------------------------------------------
(* evaluateAdmission and the reserve script. *)

Evaluated(r) == \A s \in Tiers[r] : stage[r][s] \in {"read", "unbound"}

Allowed(r) == \A s \in Bounds(r) : Available(r, s) > 0

\* Mutant of Fits: the holds of the others are not counted.
FitsAlone(r) == \A s \in Bounds(r) : Need[r] <= Available(r, s)

\* The script's own arithmetic.  A repeated request replaces its holds.
Fits(r) ==
    \A s \in Bounds(r) :
        Spend(Holders(s) \ {r}, Need) + Need[r] <= Available(r, s)

Taken(r) == holds \cup (Bounds(r) \X {r})

\* The evaluation of r ends: seen and seenFunds are dropped.
Ends(r) ==
    /\ stage' = [stage EXCEPT ![r] = [s \in Scopes |-> "idle"]]
    /\ seen' = [seen EXCEPT ![r] = [s \in Scopes |-> {}]]
    /\ seenFunds' = [seenFunds EXCEPT ![r] = [s \in Scopes |-> 0]]
    /\ drained' = {d \in drained : d[1] # r}

\* The evaluation missed another request: when it read the scope the request
\* was not recorded, did not accrue or was just being charged, and its hold
\* is gone since.
Missed(r) ==
    \E s \in Tiers[r] :
        \E q \in (recorded \cap Within(s)) \ {r} :
            q \notin seen[r][s] /\ q \notin Holders(s)

\* An admission that saw the whole position, or one that did not.
Whole(r) == Bounds(r) = Tiers[r] /\ ~Missed(r)

\* Mutant of Refuse: the holds are taken scope by scope until one refuses.
RefuseHolding(r) ==
    /\ Evaluating(r) /\ Evaluated(r)
    /\ ~(Allowed(r) /\ (Need[r] > 0 => Fits(r)))
    /\ holds' = holds \cup
          {<<s, r>> : s \in {t \in Bounds(r) : Need[r] <= Available(r, t)}}
    /\ Ends(r)
    /\ UNCHANGED <<funds, cost, recorded, accruing, charged, admitted, tries,
                   raises, faults, loose>>

Refuse(r) ==
    /\ Evaluating(r) /\ Evaluated(r)
    /\ ~(Allowed(r) /\ (Need[r] > 0 => Fits(r)))
    /\ Ends(r)
    /\ UNCHANGED <<funds, cost, recorded, accruing, charged, admitted, holds,
                   tries, raises, faults, loose>>

\* An unpriced request holds nothing.
Admit(r) ==
    /\ Evaluating(r) /\ Evaluated(r)
    /\ Allowed(r) /\ (Need[r] > 0 => Fits(r))
    /\ holds' = IF Need[r] > 0 THEN Taken(r) ELSE holds
    /\ admitted' = admitted \cup {r}
    /\ loose' = IF Whole(r) THEN loose \ {r} ELSE loose \cup {r}
    /\ Ends(r)
    /\ UNCHANGED <<funds, cost, recorded, accruing, charged, tries, raises,
                   faults>>

\* Redis fails: the request is admitted on the accrual alone.  The script may
\* have run before its answer was lost.
AdmitUnheld(r) ==
    /\ Evaluating(r) /\ Evaluated(r)
    /\ Allowed(r) /\ Need[r] > 0
    /\ Fault
    /\ holds' \in {holds, IF Fits(r) THEN Taken(r) ELSE holds}
    /\ admitted' = admitted \cup {r}
    /\ loose' = loose \cup {r}
    /\ Ends(r)
    /\ UNCHANGED <<funds, cost, recorded, accruing, charged, tries, raises>>

\* The account cannot be read: checkInferenceFunds lets the request through.
FailOpen(r) ==
    /\ Evaluating(r) /\ stage[r][Account] = "unread"
    /\ Fault
    /\ admitted' = admitted \cup {r}
    /\ loose' = loose \cup {r}
    /\ Ends(r)
    /\ UNCHANGED <<funds, cost, recorded, accruing, charged, holds, tries,
                   raises>>

-----------------------------------------------------------------------------
(* What happens beside the evaluations. *)

\* Mutant of Record: a line of a request that was not admitted.
RecordAny(r) ==
    /\ r \in Requests \ recorded
    /\ \E c \in Amounts : cost' = [cost EXCEPT ![r] = c]
    /\ recorded' = recorded \cup {r}
    /\ accruing' = accruing \cup {r}
    /\ UNCHANGED <<funds, charged, admitted, holds, stage, seen, seenFunds,
                   tries, raises, faults, loose, drained>>

\* The billing consumer ingests the line with its accrual, or with none when
\* the price cannot be read.  Its releaseHold does nothing, for the consumer's
\* service has no Redis: the hold stays.
Record(r) ==
    /\ r \in admitted \ recorded
    /\ \E c \in Amounts : cost' = [cost EXCEPT ![r] = c]
    /\ recorded' = recorded \cup {r}
    /\ \/ accruing' = accruing \cup {r} /\ UNCHANGED faults
       \/ Fault /\ UNCHANGED accruing
    /\ UNCHANGED <<funds, charged, admitted, holds, stage, seen, seenFunds,
                   tries, raises, loose, drained>>

\* A group is charged: its lines are marked, their accrual is reset and the
\* balance moves, in one transaction.  Who has read the balance and not yet
\* the accrual misses it.
Charge(r) ==
    /\ r \in recorded \ charged
    /\ charged' = charged \cup {r}
    /\ accruing' = accruing \ {r}
    /\ drained' = {d \in drained :
                       ~(stage[d[1]][d[2]] = "settled" /\ r \in Within(d[2]))}
    /\ UNCHANGED <<funds, cost, recorded, admitted, holds, stage, seen,
                   seenFunds, tries, raises, faults, loose>>

\* Charging has failed for long: the accrual of its oldest lines is given up.
ReleaseStaleAccrual(S) ==
    /\ S # {} /\ Fault
    /\ accruing' = accruing \ S
    /\ drained' = {d \in drained : stage[d[1]][d[2]] = "read"}
    /\ UNCHANGED <<funds, cost, recorded, charged, admitted, holds, stage,
                   seen, seenFunds, tries, raises, loose>>

\* A recharge, or a raised cap.
Raise(s) ==
    /\ raises < MaxRaises
    /\ raises' = raises + 1
    /\ funds' = [funds EXCEPT ![s] = @ + 1]
    /\ drained' = {d \in drained : d[2] # s \/ stage[d[1]][s] # "unread"}
    /\ UNCHANGED <<cost, recorded, accruing, charged, admitted, holds, stage,
                   seen, seenFunds, tries, faults, loose>>

\* The TTL of a hold has passed, or Redis has lost it; a request that still
\* runs is then covered by nothing.
Expire(s, r) ==
    /\ <<s, r>> \in holds
    /\ IF r \in recorded THEN UNCHANGED <<faults, loose>>
                         ELSE Fault /\ loose' = loose \cup {r}
    /\ holds' = holds \ {<<s, r>>}
    /\ UNCHANGED <<funds, cost, recorded, accruing, charged, admitted, stage,
                   seen, seenFunds, tries, raises, drained>>

-----------------------------------------------------------------------------
Evaluation(r) ==
    \/ Verify(r) \/ Refuse(r) \/ Admit(r) \/ AdmitUnheld(r) \/ FailOpen(r)
    \/ \E s \in Scopes :
        \/ ReadSettled(r, s) \/ ReadAccrual(r, s)
        \/ AccrualFails(r, s) \/ TierFails(r, s)

Next ==
    \/ \E r \in Requests : Evaluation(r) \/ Record(r) \/ Charge(r)
    \/ \E s \in Scopes : Raise(s)
    \/ \E s \in Scopes, r \in Requests : Expire(s, r)
    \/ \E S \in SUBSET accruing : ReleaseStaleAccrual(S)

Spec == Init /\ [][Next]_vars

-----------------------------------------------------------------------------
TypeOK ==
    /\ funds \in [Scopes -> Nat]
    /\ cost \in [Requests -> Amounts]
    /\ recorded \subseteq admitted /\ charged \subseteq recorded
    /\ accruing \subseteq recorded \ charged
    /\ admitted \subseteq Requests /\ loose \subseteq Requests
    /\ holds \subseteq Scopes \X Requests
    /\ stage \in [Requests -> [Scopes -> Stages]]
    /\ seen \in [Requests -> [Scopes -> SUBSET Requests]]
    /\ seenFunds \in [Requests -> [Scopes -> Nat]]
    /\ tries \in 0 .. MaxTries /\ raises \in 0 .. MaxRaises
    /\ faults \in 0 .. MaxFaults
    /\ drained \subseteq Requests \X Scopes

\* What an admitted request commits: its reservation until it is recorded,
\* and then no more than that of its cost.
Covered == [r \in Requests |-> IF r \in recorded /\ cost[r] < Need[r]
                               THEN cost[r] ELSE Need[r]]

\* funds_holds.go: "the check and the spend are not atomic.  A reservation
\* closes that race."  However many requests are verified at once, what was
\* admitted in a scope never commits more than the scope has, counting every
\* request that is running, recorded or charged, except those the gate let
\* through without the whole position: a failed read or reservation, a hold
\* that expired under its request, a charge or an expiry between its reads.
NeverOvercommitted ==
    \A s \in Scopes :
        Spend((admitted \ loose) \cap Within(s), Covered) <= funds[s]

\* The script takes all holds of a request or none: a request that was
\* refused by one scope blocks nobody in the others.
RefusedHoldsNothing == \A h \in holds : h[2] \in admitted

\* Usage that is not charged yet is spent: a request whose evaluation starts
\* when one of its scopes has nothing left is refused, although settled spend
\* and accrual are read one after the other while lines are recorded and
\* charged.  (Unless it misses a charge, a read fails, the scope is raised or
\* its accrual released before it was read.)
DrainedRefused ==
    \A d \in drained :
        d[1] \in admitted' \ admitted => faults' # faults

DrainedIsRefused == [][DrainedRefused]_vars
=============================================================================
