-------------------------- MODULE FundsGateProofs --------------------------
(* Proofs about FundsGate, for any number of requests, scopes, tries and   *)
(* faults.  A sum of amounts is the number of their units, so that facts   *)
(* about sums are facts about the cardinality of finite sets.              *)
EXTENDS FundsGate, FiniteSetTheorems, TLAPS

Units(S, amount) == {u \in S \X (1 .. MaxAmount) : u[2] <= amount[u[1]]}

AmountsOf == [Requests -> Amounts]

LEMMA SpendIsUnits == \A S, a : Spend(S, a) = Cardinality(Units(S, a))
  BY DEF Spend, Units

LEMMA UnitsFinite ==
    ASSUME NEW S \in SUBSET Requests, NEW a
    PROVE  /\ IsFiniteSet(Units(S, a))
           /\ Cardinality(Units(S, a)) \in Nat
           /\ Spend(S, a) \in Nat
<1>1. IsFiniteSet(S)
  BY ConstantsAssumption, FS_Subset
<1>2. IsFiniteSet(1 .. MaxAmount)
  BY ConstantsAssumption, FS_Interval
<1>3. IsFiniteSet(S \X (1 .. MaxAmount))
  BY <1>1, <1>2, FS_Product
<1>4. Units(S, a) \subseteq S \X (1 .. MaxAmount)
  BY DEF Units
<1>5. IsFiniteSet(Units(S, a))
  BY <1>3, <1>4, FS_Subset
<1> QED
  BY <1>5, FS_CardinalityType, SpendIsUnits

\* A sum does not shrink when the set or its amounts grow.
LEMMA SpendMono ==
    ASSUME NEW S \in SUBSET Requests, NEW T \in SUBSET Requests, S \subseteq T,
           NEW a \in AmountsOf, NEW b \in AmountsOf,
           \A r \in S : a[r] <= b[r]
    PROVE  Spend(S, a) <= Spend(T, b)
<1>1. Units(S, a) \subseteq Units(T, b)
  BY ConstantsAssumption DEF Units, AmountsOf, Amounts
<1>2. IsFiniteSet(Units(T, b))
  BY UnitsFinite
<1> QED
  BY <1>1, <1>2, FS_Subset, SpendIsUnits

\* What is covered by two sets of amounts is at most their sum.
LEMMA SpendCover ==
    ASSUME NEW S \in SUBSET Requests, NEW a,
           NEW T \in SUBSET Requests, NEW b,
           NEW U \in SUBSET Requests, NEW c,
           Units(S, a) \subseteq Units(T, b) \cup Units(U, c)
    PROVE  Spend(S, a) <= Spend(T, b) + Spend(U, c)
<1> DEFINE B == Units(T, b)
           C == Units(U, c)
<1>1. IsFiniteSet(B) /\ IsFiniteSet(C)
      /\ Cardinality(B) \in Nat /\ Cardinality(C) \in Nat
  BY UnitsFinite
<1> HIDE DEF B, C
<1>2. /\ IsFiniteSet(B \cup C)
      /\ Cardinality(B \cup C) =
           Cardinality(B) + Cardinality(C) - Cardinality(B \cap C)
  BY <1>1, FS_Union
<1>3. Cardinality(B \cap C) \in Nat
  BY <1>1, FS_Subset, FS_CardinalityType
<1>4. Cardinality(Units(S, a)) <= Cardinality(B \cup C)
      /\ Cardinality(Units(S, a)) \in Nat
  BY <1>2, FS_Subset, UnitsFinite DEF B, C
<1>5. Cardinality(B \cup C) \in Nat
  BY <1>2, FS_CardinalityType
<1>6. Cardinality(Units(S, a)) <= Cardinality(B) + Cardinality(C)
  BY <1>1, <1>2, <1>3, <1>4, <1>5
<1> QED
  BY <1>6, SpendIsUnits DEF B, C

LEMMA SpendOne ==
    ASSUME NEW r \in Requests, NEW a \in AmountsOf
    PROVE  Spend({r}, a) = a[r]
<1>1. a[r] \in Nat /\ a[r] <= MaxAmount /\ MaxAmount \in Nat
  BY ConstantsAssumption DEF AmountsOf, Amounts
<1>2. Units({r}, a) = {r} \X (1 .. a[r])
  <2>1. Units({r}, a) \subseteq {r} \X (1 .. a[r])
    BY <1>1 DEF Units
  <2>2. {r} \X (1 .. a[r]) \subseteq Units({r}, a)
    BY <1>1 DEF Units
  <2> QED
    BY <2>1, <2>2
<1> DEFINE n == a[r]
           I == 1 .. n
<1>3. IsFiniteSet({r}) /\ Cardinality({r}) = 1
  BY FS_Singleton
<1>4. IsFiniteSet(I) /\ Cardinality(I) = IF 1 > n THEN 0 ELSE n - 1 + 1
  <2>1. 1 \in Int /\ n \in Int
    BY <1>1
  <2> HIDE DEF n
  <2> QED
    BY <2>1, FS_Interval
<1>5. Cardinality(I) = n
  BY <1>1, <1>4
<1>6. Cardinality({r} \X I) = Cardinality({r}) * Cardinality(I)
  <2> HIDE DEF I, n
  <2> QED
    BY <1>3, <1>4, FS_Product
<1>7. Cardinality({r} \X I) = n
  BY <1>1, <1>3, <1>5, <1>6
<1>8. Cardinality(Units({r}, a)) = n
  BY <1>2, <1>7
<1> QED
  BY <1>8, SpendIsUnits

LEMMA NeedTyped == Need \in AmountsOf
  BY ConstantsAssumption DEF AmountsOf, Amounts

LEMMA CoveredTyped ==
    ASSUME TypeOK
    PROVE  /\ Covered \in AmountsOf
           /\ \A r \in Requests : Covered[r] <= Need[r]
           /\ \A r \in recorded : Covered[r] <= cost[r]
  BY ConstantsAssumption DEF TypeOK, Covered, AmountsOf, Amounts

-----------------------------------------------------------------------------
LEMMA TypeInit == Init => TypeOK
  BY ConstantsAssumption DEF Init, TypeOK, Stages, Amounts

LEMMA TypeNext == TypeOK /\ [Next]_vars => TypeOK'
<1> SUFFICES ASSUME TypeOK, [Next]_vars PROVE TypeOK'
  OBVIOUS
<1> USE ConstantsAssumption
<1>1. ASSUME NEW r \in Requests, Verify(r) PROVE TypeOK'
  BY <1>1 DEF TypeOK, Stages, Verify
<1>2. ASSUME NEW r \in Requests, Refuse(r) PROVE TypeOK'
  BY <1>2 DEF TypeOK, Stages, Refuse, Ends
<1>3. ASSUME NEW r \in Requests, Admit(r) PROVE TypeOK'
  BY <1>3 DEF TypeOK, Stages, Admit, Ends, Taken, Bounds
<1>4. ASSUME NEW r \in Requests, AdmitUnheld(r) PROVE TypeOK'
  BY <1>4 DEF TypeOK, Stages, AdmitUnheld, Fault, Ends, Taken, Bounds
<1>5. ASSUME NEW r \in Requests, FailOpen(r) PROVE TypeOK'
  BY <1>5 DEF TypeOK, Stages, FailOpen, Fault, Ends
<1>6. ASSUME NEW r \in Requests, Record(r) PROVE TypeOK'
  BY <1>6 DEF TypeOK, Stages, Record, Amounts, Fault
<1>7. ASSUME NEW r \in Requests, Charge(r) PROVE TypeOK'
  BY <1>7 DEF TypeOK, Stages, Charge
<1>8. ASSUME NEW r \in Requests, NEW s \in Scopes, ReadSettled(r, s)
     PROVE TypeOK'
  BY <1>8 DEF TypeOK, Stages, ReadSettled
<1>9. ASSUME NEW r \in Requests, NEW s \in Scopes, ReadAccrual(r, s)
     PROVE TypeOK'
  BY <1>9 DEF TypeOK, Stages, ReadAccrual
<1>10. ASSUME NEW r \in Requests, NEW s \in Scopes, AccrualFails(r, s)
     PROVE TypeOK'
  BY <1>10 DEF TypeOK, Stages, AccrualFails, Fault
<1>11. ASSUME NEW r \in Requests, NEW s \in Scopes, TierFails(r, s)
     PROVE TypeOK'
  BY <1>11 DEF TypeOK, Stages, TierFails, Fault
<1>12. ASSUME NEW r \in Requests, NEW s \in Scopes, Expire(s, r) PROVE TypeOK'
  BY <1>12 DEF TypeOK, Stages, Expire, Fault
<1>13. ASSUME NEW s \in Scopes, Raise(s) PROVE TypeOK'
  BY <1>13 DEF TypeOK, Stages, Raise
<1>14. ASSUME NEW S \in SUBSET accruing, ReleaseStaleAccrual(S) PROVE TypeOK'
  BY <1>14 DEF TypeOK, Stages, ReleaseStaleAccrual, Fault
<1>15. CASE UNCHANGED vars
  BY <1>15 DEF TypeOK, vars
<1> QED
  BY <1>1, <1>2, <1>3, <1>4, <1>5, <1>6, <1>7, <1>8, <1>9, <1>10, <1>11,
       <1>12, <1>13, <1>14, <1>15 DEF Next, Evaluation

\* Every hold is that of an admitted request, and a request that runs on a
\* whole position has all its holds.
HoldInv ==
    /\ RefusedHoldsNothing
    /\ \A q \in admitted \ (loose \cup recorded) :
        Need[q] > 0 => \A s \in Tiers[q] : <<s, q>> \in holds

\* What an evaluation has read was recorded, and ceilings only grow.
ReadInv ==
    \A r \in Requests, s \in Scopes :
        /\ seen[r][s] \subseteq recorded \cap Within(s)
        /\ seenFunds[r][s] <= funds[s]
        /\ stage[r][s] # "idle" => Evaluating(r)

LEMMA HoldNext == TypeOK /\ HoldInv /\ [Next]_vars => HoldInv'
<1> SUFFICES ASSUME TypeOK, HoldInv, [Next]_vars PROVE HoldInv'
  OBVIOUS
<1>1. ASSUME NEW r \in Requests, Verify(r) PROVE HoldInv'
  BY <1>1, ConstantsAssumption DEF Verify, HoldInv, RefusedHoldsNothing, TypeOK
<1>2. ASSUME NEW r \in Requests, Refuse(r) PROVE HoldInv'
  BY <1>2, ConstantsAssumption DEF Refuse, Ends, HoldInv, RefusedHoldsNothing,
     TypeOK
<1>3. ASSUME NEW r \in Requests, Admit(r) PROVE HoldInv'
  BY <1>3, ConstantsAssumption DEF Admit, Ends, Taken, Bounds, Whole, HoldInv,
     RefusedHoldsNothing, TypeOK
<1>4. ASSUME NEW r \in Requests, AdmitUnheld(r) PROVE HoldInv'
  BY <1>4, ConstantsAssumption DEF AdmitUnheld, Ends, Taken, Bounds, HoldInv,
     RefusedHoldsNothing, TypeOK
<1>5. ASSUME NEW r \in Requests, FailOpen(r) PROVE HoldInv'
  BY <1>5, ConstantsAssumption DEF FailOpen, Ends, HoldInv,
     RefusedHoldsNothing, TypeOK
<1>6. ASSUME NEW r \in Requests, Record(r) PROVE HoldInv'
  BY <1>6, ConstantsAssumption DEF Record, HoldInv, RefusedHoldsNothing, TypeOK
<1>7. ASSUME NEW r \in Requests, Charge(r) PROVE HoldInv'
  BY <1>7, ConstantsAssumption DEF Charge, HoldInv, RefusedHoldsNothing, TypeOK
<1>8. ASSUME NEW r \in Requests, NEW s \in Scopes, ReadSettled(r, s)
     PROVE HoldInv'
  BY <1>8, ConstantsAssumption DEF ReadSettled, HoldInv, RefusedHoldsNothing,
     TypeOK
<1>9. ASSUME NEW r \in Requests, NEW s \in Scopes, ReadAccrual(r, s)
     PROVE HoldInv'
  BY <1>9, ConstantsAssumption DEF ReadAccrual, HoldInv, RefusedHoldsNothing,
     TypeOK
<1>10. ASSUME NEW r \in Requests, NEW s \in Scopes, AccrualFails(r, s)
     PROVE HoldInv'
  BY <1>10, ConstantsAssumption DEF AccrualFails, HoldInv,
     RefusedHoldsNothing, TypeOK
<1>11. ASSUME NEW r \in Requests, NEW s \in Scopes, TierFails(r, s)
     PROVE HoldInv'
  BY <1>11, ConstantsAssumption DEF TierFails, HoldInv, RefusedHoldsNothing,
     TypeOK
<1>12. ASSUME NEW r \in Requests, NEW s \in Scopes, Expire(s, r)
     PROVE HoldInv'
  BY <1>12, ConstantsAssumption DEF Expire, HoldInv, RefusedHoldsNothing, TypeOK
<1>13. ASSUME NEW s \in Scopes, Raise(s) PROVE HoldInv'
  BY <1>13, ConstantsAssumption DEF Raise, HoldInv, RefusedHoldsNothing, TypeOK
<1>14. ASSUME NEW S \in SUBSET accruing, ReleaseStaleAccrual(S) PROVE HoldInv'
  BY <1>14, ConstantsAssumption DEF ReleaseStaleAccrual, HoldInv,
     RefusedHoldsNothing, TypeOK
<1>15. CASE UNCHANGED vars
  BY <1>15 DEF vars, HoldInv, RefusedHoldsNothing, TypeOK
<1> QED
  BY <1>1, <1>2, <1>3, <1>4, <1>5, <1>6, <1>7, <1>8, <1>9, <1>10, <1>11,
     <1>12, <1>13, <1>14, <1>15 DEF Next, Evaluation

LEMMA ReadNext == TypeOK /\ ReadInv /\ [Next]_vars => ReadInv'
<1> SUFFICES ASSUME TypeOK, ReadInv, [Next]_vars PROVE ReadInv'
  OBVIOUS
<1>1. ASSUME NEW r \in Requests, Verify(r) PROVE ReadInv'
  BY <1>1, ConstantsAssumption DEF Verify, ReadInv, TypeOK, Within, Evaluating
<1>2. ASSUME NEW r \in Requests, Refuse(r) PROVE ReadInv'
  BY <1>2, ConstantsAssumption DEF Refuse, Ends, ReadInv, TypeOK, Within,
     Evaluating
<1>3. ASSUME NEW r \in Requests, Admit(r) PROVE ReadInv'
  BY <1>3, ConstantsAssumption DEF Admit, Ends, Taken, Bounds, ReadInv,
     TypeOK, Within, Evaluating
<1>4. ASSUME NEW r \in Requests, AdmitUnheld(r) PROVE ReadInv'
  BY <1>4, ConstantsAssumption DEF AdmitUnheld, Ends, Taken, Bounds, ReadInv,
     TypeOK, Within, Evaluating
<1>5. ASSUME NEW r \in Requests, FailOpen(r) PROVE ReadInv'
  BY <1>5, ConstantsAssumption DEF FailOpen, Ends, ReadInv, TypeOK, Within,
     Evaluating
<1>6. ASSUME NEW r \in Requests, Record(r) PROVE ReadInv'
  BY <1>6, ConstantsAssumption DEF Record, ReadInv, TypeOK, Within, Evaluating
<1>7. ASSUME NEW r \in Requests, Charge(r) PROVE ReadInv'
  BY <1>7, ConstantsAssumption DEF Charge, ReadInv, TypeOK, Within, Evaluating
<1>8. ASSUME NEW r \in Requests, NEW s \in Scopes, ReadSettled(r, s)
     PROVE ReadInv'
  BY <1>8, ConstantsAssumption DEF ReadSettled, ReadInv, TypeOK, Within,
     Evaluating
<1>9. ASSUME NEW r \in Requests, NEW s \in Scopes, ReadAccrual(r, s)
     PROVE ReadInv'
  BY <1>9, ConstantsAssumption DEF ReadAccrual, ReadInv, TypeOK, Within,
     Evaluating
<1>10. ASSUME NEW r \in Requests, NEW s \in Scopes, AccrualFails(r, s)
     PROVE ReadInv'
  BY <1>10, ConstantsAssumption DEF AccrualFails, ReadInv, TypeOK, Within,
     Evaluating
<1>11. ASSUME NEW r \in Requests, NEW s \in Scopes, TierFails(r, s)
     PROVE ReadInv'
  BY <1>11, ConstantsAssumption DEF TierFails, ReadInv, TypeOK, Within,
     Evaluating
<1>12. ASSUME NEW r \in Requests, NEW s \in Scopes, Expire(s, r)
     PROVE ReadInv'
  BY <1>12, ConstantsAssumption DEF Expire, ReadInv, TypeOK, Within, Evaluating
<1>13. ASSUME NEW s \in Scopes, Raise(s) PROVE ReadInv'
  BY <1>13, ConstantsAssumption DEF Raise, ReadInv, TypeOK, Within, Evaluating
<1>14. ASSUME NEW S \in SUBSET accruing, ReleaseStaleAccrual(S) PROVE ReadInv'
  BY <1>14, ConstantsAssumption DEF ReleaseStaleAccrual, ReadInv, TypeOK,
     Within, Evaluating
<1>15. CASE UNCHANGED vars
  BY <1>15 DEF vars, ReadInv, TypeOK, Within, Evaluating
<1> QED
  BY <1>1, <1>2, <1>3, <1>4, <1>5, <1>6, <1>7, <1>8, <1>9, <1>10, <1>11,
     <1>12, <1>13, <1>14, <1>15 DEF Next, Evaluation

\* The heart of the argument: an admission that saw the whole position fits
\* beside all that is committed in each of its scopes.  The commitments are
\* covered by what it has read and what others hold when the script runs.
LEMMA WholeFits ==
    ASSUME TypeOK, HoldInv, ReadInv, NEW r \in Requests, Whole(r), Fits(r),
           NEW s \in Tiers[r]
    PROVE  Spend(((admitted \ loose) \cap Within(s)) \ {r}, Covered) + Need[r]
             <= funds[s]
<1> DEFINE L == ((admitted \ loose) \cap Within(s)) \ {r}
           H == Holders(s) \ {r}
           R == seen[r][s]
<1>1. s \in Scopes /\ s \in Bounds(r)
  BY ConstantsAssumption DEF Whole
<1>2. /\ L \in SUBSET Requests /\ H \in SUBSET Requests
      /\ R \in SUBSET Requests
  BY <1>1 DEF TypeOK, Holders, Within
<1>3. Units(L, Covered) \subseteq Units(R, cost) \cup Units(H, Need)
  <2> SUFFICES ASSUME NEW q \in L, NEW i \in 1 .. MaxAmount, i <= Covered[q]
               PROVE  \/ q \in R /\ i <= cost[q]
                      \/ q \in H /\ i <= Need[q]
    BY DEF Units
  <2>1. /\ q \in Requests /\ s \in Tiers[q] /\ q # r
        /\ q \in admitted \ loose
    BY <1>2 DEF Within
  <2>2. /\ Covered[q] \in Nat /\ Need[q] \in Nat /\ cost[q] \in Nat
        /\ Covered[q] <= Need[q] /\ i \in Nat /\ i > 0
        /\ q \in recorded => Covered[q] <= cost[q]
    BY <2>1, CoveredTyped, ConstantsAssumption
       DEF TypeOK, AmountsOf, Amounts
  <2>3. CASE q \in R
    BY <2>2, <2>3, <1>1 DEF ReadInv
  <2>4. CASE q \notin R /\ q \in recorded
    BY <2>1, <2>2, <2>4 DEF Whole, Missed, Within, Holders
  <2>5. CASE q \notin R /\ q \notin recorded
    BY <2>1, <2>2, <2>5 DEF HoldInv, Holders
  <2> QED
    BY <2>3, <2>4, <2>5
<1>4. Spend(L, Covered) <= Spend(R, cost) + Spend(H, Need)
  BY <1>2, <1>3, SpendCover
<1>5. Spend(H, Need) + Need[r] <= seenFunds[r][s] - Spend(R, cost)
  BY <1>1 DEF Fits, Available
<1>6. /\ Spend(L, Covered) \in Nat /\ Spend(R, cost) \in Nat
      /\ Spend(H, Need) \in Nat
  BY <1>2, UnitsFinite
<1>7. /\ Need[r] \in Nat /\ seenFunds[r][s] \in Nat /\ funds[s] \in Nat
      /\ seenFunds[r][s] <= funds[s]
  BY <1>1, ConstantsAssumption DEF TypeOK, Amounts, ReadInv
<1> QED
  BY <1>4, <1>5, <1>6, <1>7

\* Commitments in s, of which a step may not make more than there is.
Committed(s) == (admitted \ loose) \cap Within(s)

\* A step that commits no more requests, and none of them to more.
LEMMA CommitsNoMore ==
    ASSUME TypeOK, TypeOK', NeverOvercommitted, NEW s \in Scopes,
           Committed(s)' \subseteq Committed(s),
           \A r \in Committed(s)' : Covered'[r] <= Covered[r],
           funds[s] <= funds'[s]
    PROVE  Spend(Committed(s)', Covered') <= funds'[s]
<1>1. Committed(s) \in SUBSET Requests /\ Committed(s)' \in SUBSET Requests
  BY DEF TypeOK, Committed, Within
<1>2. Covered \in AmountsOf /\ Covered' \in AmountsOf
  BY ConstantsAssumption DEF TypeOK, Covered, AmountsOf, Amounts
<1>3. Spend(Committed(s)', Covered') <= Spend(Committed(s), Covered)
  BY <1>1, <1>2, SpendMono
<1>4. Spend(Committed(s), Covered) <= funds[s]
  BY DEF NeverOvercommitted, Committed
<1>5. /\ Spend(Committed(s)', Covered') \in Nat
      /\ Spend(Committed(s), Covered) \in Nat
      /\ funds[s] \in Nat /\ funds'[s] \in Nat
  BY <1>1, UnitsFinite DEF TypeOK
<1> QED
  BY <1>3, <1>4, <1>5

LEMMA AdmitCommits ==
    ASSUME TypeOK, TypeOK', HoldInv, ReadInv, NeverOvercommitted,
           NEW r \in Requests, Admit(r), NEW s \in Scopes
    PROVE  Spend(Committed(s)', Covered') <= funds'[s]
<1>1. Covered' = Covered /\ funds' = funds
  BY DEF Admit, Covered
<1>2. CASE ~(Whole(r) /\ s \in Tiers[r])
  <2>1. Committed(s)' \subseteq Committed(s)
    BY <1>2 DEF Admit, Committed, Within
  <2>2. \A q \in Requests : Covered[q] <= Covered[q]
    BY CoveredTyped DEF AmountsOf, Amounts
  <2>3. funds[s] <= funds[s] /\ Committed(s)' \in SUBSET Requests
    BY DEF TypeOK, Committed, Within
  <2> QED
    BY <1>1, <2>1, <2>2, <2>3, CommitsNoMore
<1>3. CASE Whole(r) /\ s \in Tiers[r]
  <2> DEFINE L == Committed(s) \ {r}
  <2>1. L \in SUBSET Requests /\ Committed(s)' = L \cup {r}
    BY <1>3 DEF Admit, Committed, Within, TypeOK
  <2>2. Spend(L, Covered) + Need[r] <= funds[s]
    <3>1. CASE Need[r] > 0
      BY <1>3, <3>1, WholeFits DEF Admit, Committed
    <3>2. CASE ~(Need[r] > 0)
      <4>1. Need[r] = 0
        BY <3>2, ConstantsAssumption DEF Amounts
      <4>2. Spend(L, Covered) <= Spend(Committed(s), Covered)
        <5>1. \A q \in L : Covered[q] <= Covered[q]
          BY <2>1, CoveredTyped DEF AmountsOf, Amounts
        <5>2. Committed(s) \in SUBSET Requests /\ L \subseteq Committed(s)
          BY DEF TypeOK, Committed, Within
        <5> QED
          BY <2>1, <5>1, <5>2, CoveredTyped, SpendMono
      <4>3. Spend(Committed(s), Covered) <= funds[s]
        BY DEF NeverOvercommitted, Committed
      <4>4. /\ Spend(L, Covered) \in Nat /\ funds[s] \in Nat
            /\ Spend(Committed(s), Covered) \in Nat
        BY <2>1, UnitsFinite DEF TypeOK, Committed, Within
      <4> QED
        BY <4>1, <4>2, <4>3, <4>4
    <3> QED
      BY <3>1, <3>2
  <2>3. Units(L \cup {r}, Covered)
          \subseteq Units(L, Covered) \cup Units({r}, Covered)
    BY DEF Units
  <2>4. Spend(L \cup {r}, Covered) <= Spend(L, Covered) + Spend({r}, Covered)
    <3>1. L \cup {r} \in SUBSET Requests /\ {r} \in SUBSET Requests
      BY <2>1
    <3> QED
      BY <2>1, <2>3, <3>1, SpendCover
  <2>5. Spend({r}, Covered) <= Need[r] /\ Spend({r}, Covered) \in Nat
    BY CoveredTyped, SpendOne DEF AmountsOf, Amounts
  <2>6. L \cup {r} \in SUBSET Requests
    BY <2>1
  <2>7. Spend(L \cup {r}, Covered) \in Nat /\ Spend(L, Covered) \in Nat
    BY <2>1, <2>6, UnitsFinite
  <2>8. Need[r] \in Nat /\ funds[s] \in Nat
    BY ConstantsAssumption DEF TypeOK, Amounts
  <2> HIDE DEF L
  <2> QED
    BY <1>1, <2>1, <2>2, <2>4, <2>5, <2>7, <2>8
<1> QED
  BY <1>2, <1>3

\* Usage lines are written by Record alone, and ceilings only grow.
LEMMA StepEffects ==
    ASSUME TypeOK, [Next]_vars
    PROVE  /\ (\E r \in Requests : Record(r)) \/ UNCHANGED <<recorded, cost>>
           /\ \A s \in Scopes : funds[s] <= funds'[s]
<1> DEFINE P == /\ (\E r \in Requests : Record(r)) \/ UNCHANGED <<recorded, cost>>
                /\ \A s \in Scopes : funds[s] <= funds'[s]
<1>0. \A s \in Scopes : funds[s] \in Nat /\ funds[s] <= funds[s]
  BY DEF TypeOK
<1>1. ASSUME NEW r \in Requests, Verify(r) PROVE P
  BY <1>0, <1>1 DEF Verify
<1>2. ASSUME NEW r \in Requests, Refuse(r) PROVE P
  BY <1>0, <1>2 DEF Refuse
<1>3. ASSUME NEW r \in Requests, Admit(r) PROVE P
  BY <1>0, <1>3 DEF Admit
<1>4. ASSUME NEW r \in Requests, AdmitUnheld(r) PROVE P
  BY <1>0, <1>4 DEF AdmitUnheld
<1>5. ASSUME NEW r \in Requests, FailOpen(r) PROVE P
  BY <1>0, <1>5 DEF FailOpen
<1>6. ASSUME NEW r \in Requests, Record(r) PROVE P
  BY <1>0, <1>6 DEF Record
<1>7. ASSUME NEW r \in Requests, Charge(r) PROVE P
  BY <1>0, <1>7 DEF Charge
<1>8. ASSUME NEW r \in Requests, NEW s \in Scopes,
           ReadSettled(r, s) \/ ReadAccrual(r, s) \/ AccrualFails(r, s)
             \/ TierFails(r, s) \/ Expire(s, r)
     PROVE P
  BY <1>0, <1>8 DEF ReadSettled, ReadAccrual, AccrualFails, TierFails, Expire
<1>9. ASSUME NEW s \in Scopes, Raise(s) PROVE P
  BY <1>0, <1>9 DEF Raise, TypeOK
<1>10. ASSUME NEW S \in SUBSET accruing, ReleaseStaleAccrual(S) PROVE P
  BY <1>0, <1>10 DEF ReleaseStaleAccrual
<1>11. CASE UNCHANGED vars
  BY <1>0, <1>11 DEF vars
<1> QED
  BY <1>1, <1>2, <1>3, <1>4, <1>5, <1>6, <1>7, <1>8, <1>9, <1>10, <1>11
     DEF Next, Evaluation

LEMMA CommitNext ==
    TypeOK /\ HoldInv /\ ReadInv /\ NeverOvercommitted /\ [Next]_vars
        => NeverOvercommitted'
<1> SUFFICES ASSUME TypeOK, HoldInv, ReadInv, NeverOvercommitted, [Next]_vars,
                    NEW s \in Scopes
             PROVE  Spend(Committed(s)', Covered') <= funds'[s]
  BY DEF NeverOvercommitted, Committed
<1>1. TypeOK'
  BY TypeNext
<1>2. CASE \E r \in Requests : Admit(r)
  BY <1>1, <1>2, AdmitCommits
<1>3. CASE ~\E r \in Requests : Admit(r)
  <2>1. /\ Committed(s)' \subseteq Committed(s)
        /\ Committed(s)' \in SUBSET Requests
    BY <1>3, <1>1 DEF Next, vars, Evaluation, Verify, Refuse, AdmitUnheld,
       FailOpen,
       ReadSettled, ReadAccrual, AccrualFails, TierFails, Record, Charge,
       ReleaseStaleAccrual, Raise, Expire, Committed, Within, TypeOK
  <2>2. \A q \in Requests : Covered'[q] <= Covered[q]
    <3>1. CASE UNCHANGED <<recorded, cost>>
      BY <3>1, CoveredTyped DEF Covered, AmountsOf, Amounts
    <3>2. CASE \E r \in Requests : Record(r)
      <4>1. PICK r \in Requests : Record(r)
        BY <3>2
      <4>2. PICK c \in Amounts : cost' = [cost EXCEPT ![r] = c]
        BY <4>1 DEF Record
      <4>3. \A q \in Requests : Need[q] \in Nat /\ cost[q] \in Nat
        BY ConstantsAssumption DEF TypeOK, Amounts
      <4>4. Covered'[r] <= Covered[r]
        BY <4>1, <4>2, <4>3 DEF Record, Covered, TypeOK, Amounts
      <4>5. \A q \in Requests \ {r} : Covered'[q] = Covered[q]
        BY <4>1, <4>2, <4>3 DEF Record, Covered, TypeOK, Amounts
      <4> QED
        BY <4>4, <4>5, CoveredTyped DEF AmountsOf, Amounts
    <3> QED
      BY <3>1, <3>2, StepEffects
  <2>3. funds[s] <= funds'[s]
    BY StepEffects
  <2> QED
    BY <1>1, <2>1, <2>2, <2>3, CommitsNoMore
<1> QED
  BY <1>2, <1>3

\* An evaluation that started with nothing left in s keeps finding nothing,
\* wherever it is: what it has read and what it is about to read exhaust s.
DrainOK(r, s) ==
    /\ s \in Tiers[r] /\ stage[r][s] \in {"unread", "settled", "read"}
    /\ stage[r][s] = "unread" => Drained(s)
    /\ stage[r][s] = "settled" =>
        seenFunds[r][s] <= Spend(seen[r][s] \cup (accruing \cap Within(s)), cost)
    /\ stage[r][s] = "read" => seenFunds[r][s] <= Spend(seen[r][s], cost)

DrainInv ==
    \A r \in Requests, s \in Scopes : <<r, s>> \in drained => DrainOK(r, s)

\* A step after which r is as far in s as before and nothing is counted less.
LEMMA StillDrained ==
    ASSUME TypeOK, TypeOK', ReadInv, [Next]_vars,
           NEW r \in Requests, NEW s \in Scopes, DrainOK(r, s),
           stage'[r][s] = stage[r][s], seen'[r][s] = seen[r][s],
           seenFunds'[r][s] = seenFunds[r][s],
           \A q \in recorded : cost'[q] = cost[q],
           stage[r][s] = "unread" =>
               /\ funds'[s] = funds[s]
               /\ charged \cup accruing \subseteq charged' \cup accruing',
           stage[r][s] = "settled" =>
               accruing \cap Within(s) \subseteq accruing'
    PROVE  DrainOK(r, s)'
<1> DEFINE A == (charged \cup accruing) \cap Within(s)
           B == seen[r][s] \cup (accruing \cap Within(s))
           C == seen[r][s]
<1>1. /\ A \in SUBSET Requests /\ B \in SUBSET Requests
      /\ C \in SUBSET Requests /\ A' \in SUBSET Requests
      /\ B' \in SUBSET Requests
      /\ cost \in AmountsOf /\ cost' \in AmountsOf
  BY DEF TypeOK, Within, AmountsOf
<1>2. C \subseteq recorded /\ B \subseteq recorded /\ A \subseteq recorded
  BY DEF ReadInv, TypeOK
<1>3. /\ stage[r][s] = "unread" => A \subseteq A'
      /\ stage[r][s] = "settled" => B \subseteq B'
  BY DEF Within
<1>4. \A q \in recorded : cost[q] <= cost'[q]
  BY DEF TypeOK, Amounts
<1>5. /\ stage[r][s] = "unread" => Spend(A, cost) <= Spend(A', cost')
      /\ stage[r][s] = "settled" => Spend(B, cost) <= Spend(B', cost')
      /\ Spend(C, cost) <= Spend(C, cost')
  <2>1. ASSUME stage[r][s] = "unread" PROVE Spend(A, cost) <= Spend(A', cost')
    BY <2>1, <1>1, <1>2, <1>3, <1>4, SpendMono
  <2>2. ASSUME stage[r][s] = "settled" PROVE Spend(B, cost) <= Spend(B', cost')
    BY <2>2, <1>1, <1>2, <1>3, <1>4, SpendMono
  <2>3. Spend(C, cost) <= Spend(C, cost')
    BY <1>1, <1>2, <1>4, SpendMono
  <2> QED
    BY <2>1, <2>2, <2>3
<1>6. /\ Spend(A, cost) \in Nat /\ Spend(A', cost') \in Nat
      /\ Spend(B, cost) \in Nat /\ Spend(B', cost') \in Nat
      /\ Spend(C, cost) \in Nat /\ Spend(C, cost') \in Nat
  BY <1>1, UnitsFinite
<1>7. seenFunds[r][s] \in Nat /\ funds[s] \in Nat
  BY DEF TypeOK
<1>8. CASE stage[r][s] = "unread"
  BY <1>5, <1>6, <1>7, <1>8 DEF DrainOK, Drained
<1>9. CASE stage[r][s] = "settled"
  BY <1>5, <1>6, <1>7, <1>9 DEF DrainOK, Drained
<1>10. CASE stage[r][s] = "read"
  BY <1>5, <1>6, <1>7, <1>10 DEF DrainOK, Drained
<1> QED
  BY <1>8, <1>9, <1>10 DEF DrainOK

LEMMA DrainNext == TypeOK /\ ReadInv /\ DrainInv /\ [Next]_vars => DrainInv'
<1> SUFFICES ASSUME TypeOK, ReadInv, DrainInv, [Next]_vars,
                    NEW q \in Requests, NEW t \in Scopes,
                    <<q, t>> \in drained'
             PROVE  DrainOK(q, t)'
  BY DEF DrainInv
<1>0. TypeOK'
  BY TypeNext
<1>1. ASSUME NEW r \in Requests, Verify(r) PROVE DrainOK(q, t)'
  <2>1. CASE q = r
    <3>1. <<q, t>> \notin drained
      BY <1>1, <2>1 DEF Verify, DrainInv, DrainOK, ReadInv
    <3>2. t \in Tiers[r] /\ Drained(t)
      BY <1>1, <2>1, <3>1 DEF Verify
    <3>3. stage'[q][t] = "unread" /\ Drained(t)'
      BY <1>1, <2>1, <3>2 DEF Verify, TypeOK, Drained, Within
    <3> QED
      BY <2>1, <3>2, <3>3 DEF DrainOK
  <2>2. CASE q # r
    <3>1. DrainOK(q, t)
      BY <1>1, <2>2 DEF Verify, DrainInv
    <3>2. /\ stage'[q][t] = stage[q][t] /\ seen'[q][t] = seen[q][t]
          /\ seenFunds'[q][t] = seenFunds[q][t]
      BY <1>1, <2>2 DEF Verify, TypeOK
    <3>3. UNCHANGED <<recorded, cost, funds, charged, accruing>>
      BY <1>1 DEF Verify
    <3> QED
      BY <1>0, <3>1, <3>2, <3>3, StillDrained
  <2> QED
    BY <2>1, <2>2
<1>2. ASSUME NEW r \in Requests, Refuse(r) PROVE DrainOK(q, t)'
  <2>1. DrainOK(q, t) /\ q # r
    BY <1>2 DEF Refuse, Ends, DrainInv
  <2>2. /\ stage'[q][t] = stage[q][t] /\ seen'[q][t] = seen[q][t]
        /\ seenFunds'[q][t] = seenFunds[q][t]
    BY <1>2, <2>1 DEF Refuse, Ends, TypeOK
  <2>3. UNCHANGED <<recorded, cost, funds, charged, accruing>>
    BY <1>2 DEF Refuse
  <2> QED
    BY <1>0, <2>1, <2>2, <2>3, StillDrained
<1>3. ASSUME NEW r \in Requests, Admit(r) PROVE DrainOK(q, t)'
  <2>1. DrainOK(q, t) /\ q # r
    BY <1>3 DEF Admit, Ends, DrainInv
  <2>2. /\ stage'[q][t] = stage[q][t] /\ seen'[q][t] = seen[q][t]
        /\ seenFunds'[q][t] = seenFunds[q][t]
    BY <1>3, <2>1 DEF Admit, Ends, TypeOK
  <2>3. UNCHANGED <<recorded, cost, funds, charged, accruing>>
    BY <1>3 DEF Admit
  <2> QED
    BY <1>0, <2>1, <2>2, <2>3, StillDrained
<1>4. ASSUME NEW r \in Requests, AdmitUnheld(r) PROVE DrainOK(q, t)'
  <2>1. DrainOK(q, t) /\ q # r
    BY <1>4 DEF AdmitUnheld, Ends, DrainInv
  <2>2. /\ stage'[q][t] = stage[q][t] /\ seen'[q][t] = seen[q][t]
        /\ seenFunds'[q][t] = seenFunds[q][t]
    BY <1>4, <2>1 DEF AdmitUnheld, Ends, TypeOK
  <2>3. UNCHANGED <<recorded, cost, funds, charged, accruing>>
    BY <1>4 DEF AdmitUnheld
  <2> QED
    BY <1>0, <2>1, <2>2, <2>3, StillDrained
<1>5. ASSUME NEW r \in Requests, FailOpen(r) PROVE DrainOK(q, t)'
  <2>1. DrainOK(q, t) /\ q # r
    BY <1>5 DEF FailOpen, Ends, DrainInv
  <2>2. /\ stage'[q][t] = stage[q][t] /\ seen'[q][t] = seen[q][t]
        /\ seenFunds'[q][t] = seenFunds[q][t]
    BY <1>5, <2>1 DEF FailOpen, Ends, TypeOK
  <2>3. UNCHANGED <<recorded, cost, funds, charged, accruing>>
    BY <1>5 DEF FailOpen
  <2> QED
    BY <1>0, <2>1, <2>2, <2>3, StillDrained
<1>6. ASSUME NEW r \in Requests, Record(r) PROVE DrainOK(q, t)'
  <2>1. DrainOK(q, t)
    BY <1>6 DEF Record, DrainInv
  <2>2. \A i \in recorded : cost'[i] = cost[i]
    BY <1>6 DEF Record, TypeOK
  <2> QED
    BY <1>0, <1>6, <2>1, <2>2, StillDrained DEF Record
<1>7. ASSUME NEW r \in Requests, Charge(r) PROVE DrainOK(q, t)'
  <2>1. DrainOK(q, t) /\ ~(stage[q][t] = "settled" /\ r \in Within(t))
    BY <1>7 DEF Charge, DrainInv
  <2>2. stage[q][t] = "settled" =>
          accruing \cap Within(t) \subseteq accruing'
    BY <1>7, <2>1 DEF Charge
  <2>3. UNCHANGED <<recorded, cost, funds, stage, seen, seenFunds>>
    BY <1>7 DEF Charge
  <2>4. charged \cup accruing \subseteq charged' \cup accruing'
    BY <1>7 DEF Charge
  <2> QED
    BY <1>0, <2>1, <2>2, <2>3, <2>4, StillDrained
<1>8. ASSUME NEW r \in Requests, NEW s \in Scopes, ReadSettled(r, s)
     PROVE DrainOK(q, t)'
  <2>1. DrainOK(q, t)
    BY <1>8 DEF ReadSettled, DrainInv
  <2>2. CASE q = r /\ t = s
    <3>1. stage'[q][t] = "settled" /\ seenFunds'[q][t] = funds[t]
          /\ seen'[q][t] = charged \cap Within(t) /\ stage[q][t] = "unread"
      BY <1>8, <2>2 DEF ReadSettled, TypeOK
    <3>2. UNCHANGED <<charged, accruing, cost>>
      BY <1>8 DEF ReadSettled
    <3>3. seen'[q][t] \cup (accruing' \cap Within(t))
            = (charged \cup accruing) \cap Within(t)
      BY <3>1, <3>2
    <3>4. /\ funds[t] <= Spend((charged \cup accruing) \cap Within(t), cost)
          /\ t \in Tiers[q]
      BY <2>1, <3>1 DEF DrainOK, Drained
    <3>5. Within(t)' = Within(t)
      BY DEF Within
    <3> QED
      BY <3>1, <3>2, <3>3, <3>4, <3>5 DEF DrainOK
  <2>3. CASE ~(q = r /\ t = s)
    <3>1. /\ stage'[q][t] = stage[q][t] /\ seen'[q][t] = seen[q][t]
          /\ seenFunds'[q][t] = seenFunds[q][t]
      BY <1>8, <2>3 DEF ReadSettled, TypeOK
    <3>2. UNCHANGED <<recorded, cost, funds, charged, accruing>>
      BY <1>8 DEF ReadSettled
    <3> QED
      BY <1>0, <2>1, <3>1, <3>2, StillDrained
  <2> QED
    BY <2>2, <2>3
<1>9. ASSUME NEW r \in Requests, NEW s \in Scopes, ReadAccrual(r, s)
     PROVE DrainOK(q, t)'
  <2>1. DrainOK(q, t)
    BY <1>9 DEF ReadAccrual, DrainInv
  <2>2. CASE q = r /\ t = s
    <3>1. stage'[q][t] = "read" /\ seenFunds'[q][t] = seenFunds[q][t]
          /\ seen'[q][t] = seen[q][t] \cup (accruing \cap Within(t))
          /\ stage[q][t] = "settled"
      BY <1>9, <2>2 DEF ReadAccrual, TypeOK
    <3>2. UNCHANGED cost
      BY <1>9 DEF ReadAccrual
    <3> QED
      BY <2>1, <3>1, <3>2 DEF DrainOK
  <2>3. CASE ~(q = r /\ t = s)
    <3>1. /\ stage'[q][t] = stage[q][t] /\ seen'[q][t] = seen[q][t]
          /\ seenFunds'[q][t] = seenFunds[q][t]
      BY <1>9, <2>3 DEF ReadAccrual, TypeOK
    <3>2. UNCHANGED <<recorded, cost, funds, charged, accruing>>
      BY <1>9 DEF ReadAccrual
    <3> QED
      BY <1>0, <2>1, <3>1, <3>2, StillDrained
  <2> QED
    BY <2>2, <2>3
<1>10. ASSUME NEW r \in Requests, NEW s \in Scopes, AccrualFails(r, s)
     PROVE DrainOK(q, t)'
  <2>1. DrainOK(q, t)
    BY <1>10 DEF AccrualFails, DrainInv
  <2>2. CASE q = r /\ t = s
    BY <1>10, <2>2 DEF AccrualFails
  <2>3. CASE ~(q = r /\ t = s)
    <3>1. /\ stage'[q][t] = stage[q][t] /\ seen'[q][t] = seen[q][t]
          /\ seenFunds'[q][t] = seenFunds[q][t]
      BY <1>10, <2>3 DEF AccrualFails, TypeOK
    <3>2. UNCHANGED <<recorded, cost, funds, charged, accruing>>
      BY <1>10 DEF AccrualFails
    <3> QED
      BY <1>0, <2>1, <3>1, <3>2, StillDrained
  <2> QED
    BY <2>2, <2>3
<1>11. ASSUME NEW r \in Requests, NEW s \in Scopes, TierFails(r, s)
     PROVE DrainOK(q, t)'
  <2>1. DrainOK(q, t)
    BY <1>11 DEF TierFails, DrainInv
  <2>2. CASE q = r /\ t = s
    BY <1>11, <2>2 DEF TierFails
  <2>3. CASE ~(q = r /\ t = s)
    <3>1. /\ stage'[q][t] = stage[q][t] /\ seen'[q][t] = seen[q][t]
          /\ seenFunds'[q][t] = seenFunds[q][t]
      BY <1>11, <2>3 DEF TierFails, TypeOK
    <3>2. UNCHANGED <<recorded, cost, funds, charged, accruing>>
      BY <1>11 DEF TierFails
    <3> QED
      BY <1>0, <2>1, <3>1, <3>2, StillDrained
  <2> QED
    BY <2>2, <2>3
<1>12. ASSUME NEW s \in Scopes, Raise(s) PROVE DrainOK(q, t)'
  <2>1. DrainOK(q, t) /\ (t = s => stage[q][t] # "unread")
    BY <1>12 DEF Raise, DrainInv
  <2>2. stage[q][t] = "unread" => funds'[t] = funds[t]
    BY <1>12, <2>1 DEF Raise, TypeOK
  <2>3. UNCHANGED <<recorded, cost, charged, accruing, stage, seen, seenFunds>>
    BY <1>12 DEF Raise
  <2> QED
    BY <1>0, <2>1, <2>2, <2>3, StillDrained
<1>13. ASSUME NEW s \in Scopes, NEW r \in Requests, Expire(s, r)
     PROVE DrainOK(q, t)'
  <2>1. DrainOK(q, t)
    BY <1>13 DEF Expire, DrainInv
  <2> QED
    BY <1>0, <1>13, <2>1, StillDrained DEF Expire
<1>14. CASE UNCHANGED vars
  <2>1. DrainOK(q, t)
    BY <1>14 DEF vars, DrainInv
  <2> QED
    BY <1>0, <1>14, <2>1, StillDrained DEF vars
<1>15. ASSUME NEW S \in SUBSET accruing, ReleaseStaleAccrual(S)
     PROVE DrainOK(q, t)'
  <2>1. DrainOK(q, t) /\ stage[q][t] = "read"
    BY <1>15 DEF ReleaseStaleAccrual, DrainInv
  <2>2. UNCHANGED <<recorded, cost, funds, stage, seen, seenFunds>>
    BY <1>15 DEF ReleaseStaleAccrual
  <2> QED
    BY <1>0, <2>1, <2>2, StillDrained
<1> QED
  BY <1>1, <1>2, <1>3, <1>4, <1>5, <1>6, <1>7, <1>8, <1>9, <1>10, <1>11,
     <1>12, <1>13, <1>14, <1>15 DEF Next, Evaluation

\* Such an evaluation is not allowed, by the account rule or by its cap.
LEMMA DrainedStep ==
    ASSUME TypeOK, ReadInv, DrainInv, [Next]_vars
    PROVE  DrainedRefused
<1> SUFFICES ASSUME NEW r \in Requests, NEW s \in Scopes,
                    <<r, s>> \in drained, r \in admitted', r \notin admitted
             PROVE  faults' # faults
  BY DEF DrainedRefused, TypeOK
<1>1. CASE Admit(r)
  <2>1. s \in Tiers[r] /\ stage[r][s] = "read"
    BY <1>1 DEF Admit, Evaluated, DrainInv, DrainOK
  <2>2. seenFunds[r][s] <= Spend(seen[r][s], cost)
    BY <2>1 DEF DrainInv, DrainOK
  <2>3. seenFunds[r][s] - Spend(seen[r][s], cost) > 0
    BY <1>1, <2>1 DEF Admit, Allowed, Bounds, Available
  <2>4. Spend(seen[r][s], cost) \in Nat /\ seenFunds[r][s] \in Nat
    BY UnitsFinite DEF TypeOK
  <2> QED
    BY <2>2, <2>3, <2>4
<1>2. CASE AdmitUnheld(r) \/ FailOpen(r)
  BY <1>2 DEF AdmitUnheld, FailOpen, Fault, TypeOK
<1> QED
  BY <1>1, <1>2 DEF Next, vars, Evaluation, Verify, Refuse, Admit, AdmitUnheld,
     FailOpen, ReadSettled, ReadAccrual, AccrualFails, TierFails, Record,
     Charge, ReleaseStaleAccrual, Raise, Expire

-----------------------------------------------------------------------------
\* The inductive invariant.
IInv ==
    TypeOK /\ HoldInv /\ ReadInv /\ NeverOvercommitted /\ DrainInv

LEMMA IInvInit == Init => IInv
<1> SUFFICES ASSUME Init PROVE IInv
  OBVIOUS
<1>1. TypeOK
  BY TypeInit
<1>2. HoldInv /\ ReadInv /\ DrainInv
  BY ConstantsAssumption DEF Init, HoldInv, RefusedHoldsNothing, ReadInv,
     DrainInv
<1>3. NeverOvercommitted
  <2> SUFFICES ASSUME NEW s \in Scopes
               PROVE  Spend((admitted \ loose) \cap Within(s), Covered) <= funds[s]
    BY DEF NeverOvercommitted
  <2>1. Units((admitted \ loose) \cap Within(s), Covered) = {}
    BY DEF Init, Units
  <2>2. funds[s] \in Nat
    BY <1>1 DEF TypeOK
  <2> QED
    BY <2>1, <2>2, FS_EmptySet, SpendIsUnits
<1> QED
  BY <1>1, <1>2, <1>3 DEF IInv

LEMMA IInvNext == IInv /\ [Next]_vars => IInv'
  BY TypeNext, HoldNext, ReadNext, CommitNext, DrainNext DEF IInv

LEMMA Inductive == Spec => []IInv
  BY IInvInit, IInvNext, PTL DEF Spec

\* Type correctness for any number of requests, scopes and faults.
THEOREM TypeCorrect == Spec => []TypeOK
<1>1. IInv => TypeOK
  BY DEF IInv
<1> QED
  BY Inductive, <1>1, PTL

\* evaluateAdmission and the reserve script: whatever is verified, recorded,
\* charged and expires at the same time, the admissions that saw the whole
\* position commit no scope beyond what it has.
THEOREM BurstsFit == Spec => []NeverOvercommitted
<1>1. IInv => NeverOvercommitted
  BY DEF IInv
<1> QED
  BY Inductive, <1>1, PTL

\* The reserve script leaves nothing of a request it refuses.
THEOREM AllOrNothing == Spec => []RefusedHoldsNothing
<1>1. IInv => RefusedHoldsNothing
  BY DEF IInv, HoldInv
<1> QED
  BY Inductive, <1>1, PTL

\* evaluateFunds: usage that was recorded and not charged when an evaluation
\* starts counts as spent, although it is read in pieces.
THEOREM OpenHourCounts == Spec => DrainedIsRefused
<1>1. IInv /\ [Next]_vars => [DrainedRefused]_vars
  BY DrainedStep DEF IInv
<1> QED
  BY Inductive, <1>1, PTL DEF Spec, DrainedIsRefused
=============================================================================
