--------------------------- MODULE MeteringProofs ---------------------------
(* Theorems of module Metering, for every number of requests, keys,        *)
(* replicas and readers and every setting of the periods.                  *)
EXTENDS Metering, TLAPS

-----------------------------------------------------------------------------
(* The inductive invariant, in named parts. *)

\* What is queued, stored or purged carries a completion time, so its bucket
\* is known and never changes again.
Stamped ==
    \A r \in Requests :
        r \in queue \/ voucher[r] # "none" \/ r \in purged => completedAt[r] # -1

\* A publisher works on committed records, and marks what it announced.
PublisherInv ==
    \A p \in Runners : topub[p] \subseteq recorded /\ sent[p] \subseteq announced

Typed == TypeOK /\ Stamped /\ PublisherInv

\* What a worker summed is of the bucket it settles, and still pending
\* unless another replica has recorded the bucket meanwhile.
SummedIsPending ==
    \A p \in Runners : \A b \in Buckets : \A r \in agg[p][b] :
        /\ completedAt[r] # -1
        /\ BucketOf(r) = b
        /\ voucher[r] = "pending" \/ b \in recorded

\* A reader's first read saw marked vouchers only.
ReaderInv ==
    \A q \in Readers :
        /\ summary[q].settled \subseteq Settled \cup purged
        /\ summary[q].pc = "done" =>
             summary[q].settled \cap summary[q].pending \subseteq purged

\* Buckets are worked on and recorded after their grace period.
RecordedLate ==
    /\ \A b \in recorded : Eligible(b)
    /\ \A p \in Runners : \A b \in todo[p] \cup busy[p] : Eligible(b)

\* A worker's sum misses no timely voucher of an unrecorded bucket, and a
\* recorded bucket has no timely voucher left.
TimelySummed ==
    \A r \in Requests : voucher[r] = "pending" /\ Timely(r) =>
        /\ BucketOf(r) \notin recorded
        /\ \A p \in Runners : BucketOf(r) \in busy[p] => r \in agg[p][BucketOf(r)]

\* A record sums vouchers of its own bucket; there is no sum without one.
SumsHere ==
    \A b \in Buckets :
        /\ b \notin recorded => counted[b] = {}
        /\ \A r \in counted[b] : completedAt[r] # -1 /\ BucketOf(r) = b

IInv ==
    /\ Typed
    /\ SumsHere
    /\ SummedIsPending
    /\ CountedIsMarked
    /\ MarkedHasRecord
    /\ PublishedWasAnnounced
    /\ ReaderInv
    /\ RecordedLate
    /\ TimelySummed
    /\ TimelyVouchersAreCounted

-----------------------------------------------------------------------------
(* Buckets. *)

\* The bucket of a request that completed exists, and the hour it names is an
\* integer (PeriodStart rounds a tick down to its hour).
LEMMA BucketTyped ==
    ASSUME TypeOK, NEW r \in Requests, completedAt[r] # -1
    PROVE  BucketOf(r) \in Buckets
<1>1. KeyOf[r] \in Keys BY ConstantsAssumption
<1>2. completedAt[r] \in Times BY DEF TypeOK
<1> QED BY <1>1, <1>2 DEF BucketOf, Buckets

\* A bucket's hour is an integer, so its eligibility is arithmetic.
LEMMA HourTyped ==
    ASSUME NEW b \in Buckets
    PROVE  b[2] \in Int /\ b[2] + HourTicks + Grace \in Int
<1>1. PICK t \in Times : b[2] = PeriodStart(t) BY DEF Buckets
<1>2. t \in Int /\ HourTicks \in Nat \ {0} /\ Grace \in Int
    BY ConstantsAssumption DEF Times
<1>3. PeriodStart(t) \in Int
  <2>1. t \div HourTicks \in Int BY <1>2
  <2> QED BY <1>2, <2>1 DEF PeriodStart
<1> QED BY <1>1, <1>2, <1>3

-----------------------------------------------------------------------------
(* Types. *)

\* The initial state is well typed.
LEMMA TypedInit == Init => Typed
<1> SUFFICES ASSUME Init PROVE Typed OBVIOUS
<1> USE ConstantsAssumption DEF Init
<1>1. TypeOK BY DEF TypeOK, Times, Phases, NoSummary
<1>2. Stamped BY DEF Stamped
<1>3. PublisherInv BY DEF PublisherInv
<1> QED BY <1>1, <1>2, <1>3 DEF Typed

\* The clock step keeps the types.
LEMMA TypedTick == Typed /\ Tick => Typed'
<1> SUFFICES ASSUME Typed, Tick PROVE Typed' OBVIOUS
<1> USE ConstantsAssumption DEF Typed, Tick, tableVars, recordVars, runnerVars
<1>1. TypeOK' BY DEF TypeOK, Times
<1>2. Stamped' BY DEF Stamped
<1>3. PublisherInv' BY DEF PublisherInv
<1> QED BY <1>1, <1>2, <1>3

\* The handler creates at most the pending voucher of its own request.
LEMMA HandleEventEffect ==
    ASSUME TypeOK, NEW r \in Requests, HandleEvent(r)
    PROVE  /\ voucher' \in [Requests -> {"none", "pending", "settled"}]
           /\ createdAt' \in [Requests -> Times]
           /\ \A x \in Requests :
                \/ voucher'[x] = voucher[x] /\ createdAt'[x] = createdAt[x]
                \/ /\ x = r
                   /\ voucher[x] = "none"
                   /\ voucher'[x] = "pending"
                   /\ createdAt'[x] = now
<1>1. CASE r \in Invalid \/ voucher[r] # "none"
  <2>1. voucher' = voucher /\ createdAt' = createdAt
      BY <1>1 DEF HandleEvent, IngestVoucher
  <2> QED BY <2>1 DEF TypeOK
<1>2. CASE r \notin Invalid /\ voucher[r] = "none"
  <2>1. /\ voucher' = [voucher EXCEPT ![r] = "pending"]
        /\ createdAt' = [createdAt EXCEPT ![r] = now]
      BY <1>2 DEF HandleEvent, IngestVoucher
  <2> QED BY <1>2, <2>1 DEF TypeOK
<1> QED BY <1>1, <1>2

\* Ingestion (gateway report, consumer, RPC) and a lost queue keep the types.
LEMMA TypedIngest == Typed /\ (Ingest \/ LoseQueue) => Typed'
<1> USE ConstantsAssumption
        DEF Typed, Fault, tableVars, recordVars, runnerVars
<1>1. ASSUME Typed, NEW r \in Requests, RecordGatewayUsage(r) PROVE Typed'
  <2> USE <1>1 DEF RecordGatewayUsage
  <2>1. TypeOK' BY DEF TypeOK, Times
  <2>2. Stamped' BY DEF Stamped, TypeOK, Times
  <2>3. PublisherInv' BY DEF PublisherInv
  <2> QED BY <2>1, <2>2, <2>3
<1>2. ASSUME Typed, NEW r \in Requests, ConsumeEvent(r) PROVE Typed'
  <2> USE <1>2 DEF ConsumeEvent
  <2>1. TypeOK' BY HandleEventEffect DEF TypeOK, Times
  <2>2. Stamped' BY HandleEventEffect DEF Stamped, TypeOK, Times
  <2>3. PublisherInv' BY DEF PublisherInv
  <2> QED BY <2>1, <2>2, <2>3
<1>3. ASSUME Typed, NEW r \in Requests, IngestMeteringEvent(r) PROVE Typed'
  <2> USE <1>3 DEF IngestMeteringEvent
  <2>1. completedAt' \in [Requests -> Times \cup {-1}]
    BY DEF TypeOK, Times
  <2>2. faults' \in 0 .. MaxFaults BY DEF TypeOK
  <2>3. TypeOK' BY <2>1, <2>2, HandleEventEffect DEF TypeOK
  <2>4. Stamped'
    <3>1. completedAt'[r] # -1 BY DEF TypeOK, Times
    <3>2. \A x \in Requests \ {r} : completedAt'[x] = completedAt[x]
        BY DEF TypeOK
    <3>3. \A x \in Requests \ {r} : voucher'[x] = voucher[x]
        BY HandleEventEffect
    <3>4. queue' = queue /\ purged' = purged OBVIOUS
    <3>5. \A x \in Requests \ {r} :
            x \in queue \/ voucher[x] # "none" \/ x \in purged =>
                completedAt[x] # -1
        BY DEF Stamped
    <3> HIDE <1>3
    <3> QED BY <3>1, <3>2, <3>3, <3>4, <3>5 DEF Stamped
  <2>5. PublisherInv' BY DEF PublisherInv
  <2> QED BY <2>3, <2>4, <2>5
<1>4. ASSUME Typed, LoseQueue PROVE Typed'
  <2> USE <1>4 DEF LoseQueue
  <2>1. TypeOK' BY DEF TypeOK, Times
  <2>2. Stamped' BY DEF Stamped
  <2>3. PublisherInv' BY DEF PublisherInv
  <2> QED BY <2>1, <2>2, <2>3
<1> QED BY <1>1, <1>2, <1>3, <1>4 DEF Ingest

\* The UPDATE settles pending vouchers of its bucket, and nothing else.
LEMMA MarkVouchersEffect ==
    ASSUME TypeOK, NEW b \in Buckets, MarkVouchers(b)
    PROVE  /\ voucher' \in [Requests -> {"none", "pending", "settled"}]
           /\ \A x \in Requests :
                IF voucher[x] = "pending" /\ BucketOf(x) = b
                THEN voucher'[x] = "settled"
                ELSE voucher'[x] = voucher[x]
BY DEF TypeOK, MarkVouchers, UnsettledOf, Pending

\* SettleBucket's transaction, committed or rolled back, keeps the types.
LEMMA TypedSettle ==
    ASSUME Typed, NEW p \in Runners, SettleOnce(p) \/ Settle(p)
    PROVE  Typed'
<1> USE ConstantsAssumption
        DEF Typed, Fault, tableVars, recordVars, runnerVars
<1>1. CASE SettleOnce(p)
  <2> DEFINE taken == {b \in {BucketOf(r) : r \in {x \in Pending :
                                completedAt[x] < now}} : Eligible(b)}
  <2>1. taken \subseteq Buckets BY BucketTyped DEF Pending, Stamped
  <2>2. todo' = [todo EXCEPT ![p] = taken] BY <1>1 DEF SettleOnce
  <2>3. todo' \in [Runners -> SUBSET Buckets]
      BY <2>1, <2>2 DEF TypeOK
  <2>4. phase' \in [Runners -> Phases] BY <1>1 DEF SettleOnce, TypeOK, Phases
  <2>5. TypeOK' BY <1>1, <2>3, <2>4 DEF SettleOnce, TypeOK
  <2>6. Stamped' BY <1>1 DEF SettleOnce, Stamped
  <2>7. PublisherInv' BY <1>1 DEF SettleOnce, PublisherInv
  <2> QED BY <2>5, <2>6, <2>7
<1>2. ASSUME NEW b \in Buckets, SettleAggregate(p, b) PROVE Typed'
  <2> USE <1>2 DEF SettleAggregate
  <2>1. UnsettledOf(b) \in SUBSET Requests BY DEF UnsettledOf, Pending
  <2>2. todo' \in [Runners -> SUBSET Buckets] BY DEF TypeOK
  <2>3. /\ agg' \in [Runners -> [Buckets -> SUBSET Requests]]
        /\ busy' \in [Runners -> SUBSET Buckets]
        /\ \A q \in Runners, c \in Buckets : c \in busy'[q] <=> agg'[q][c] # {}
    <3>1. CASE UnsettledOf(b) = {} BY <3>1 DEF TypeOK
    <3>2. CASE UnsettledOf(b) # {}
      <4>1. /\ agg' = [agg EXCEPT ![p][b] = UnsettledOf(b)]
            /\ busy' = [busy EXCEPT ![p] = @ \cup {b}]
          BY <3>2
      <4> HIDE <1>2
      <4> QED BY <3>2, <4>1, <2>1 DEF TypeOK
    <3> QED BY <3>1, <3>2
  <2>4. TypeOK' BY <2>2, <2>3 DEF TypeOK
  <2>5. Stamped' BY DEF Stamped
  <2>6. PublisherInv' BY DEF PublisherInv
  <2> QED BY <2>4, <2>5, <2>6
<1>3. ASSUME NEW b \in Buckets, SettleCommit(p, b) PROVE Typed'
  <2> USE <1>3 DEF SettleCommit
  <2>1. /\ recorded' = recorded \cup {b}
        /\ counted' \in [Buckets -> SUBSET Requests]
    <3>1. InsertRecord(p, b) /\ agg[p][b] \subseteq Requests BY DEF TypeOK
    <3>2. CASE b \in recorded BY <3>1, <3>2 DEF InsertRecord, TypeOK
    <3>3. CASE b \notin recorded BY <3>1, <3>3 DEF InsertRecord, TypeOK
    <3> QED BY <3>2, <3>3
  <2>2. /\ agg' \in [Runners -> [Buckets -> SUBSET Requests]]
        /\ busy' \in [Runners -> SUBSET Buckets]
        /\ \A q \in Runners, c \in Buckets : c \in busy'[q] <=> agg'[q][c] # {}
      BY DEF TypeOK
  <2>3. TypeOK' BY <2>1, <2>2, MarkVouchersEffect DEF TypeOK
  <2>4. Stamped' BY MarkVouchersEffect DEF Stamped
  <2>5. PublisherInv' BY <2>1 DEF PublisherInv
  <2> QED BY <2>3, <2>4, <2>5
<1>4. ASSUME NEW b \in Buckets, SettleAbort(p, b) PROVE Typed'
  <2> USE <1>4 DEF SettleAbort
  <2>1. /\ agg' \in [Runners -> [Buckets -> SUBSET Requests]]
        /\ busy' \in [Runners -> SUBSET Buckets]
        /\ \A q \in Runners, c \in Buckets : c \in busy'[q] <=> agg'[q][c] # {}
      BY DEF TypeOK
  <2>2. faults' \in 0 .. MaxFaults BY DEF TypeOK
  <2>3. TypeOK' BY <2>1, <2>2 DEF TypeOK
  <2>4. Stamped' BY DEF Stamped
  <2>5. PublisherInv' BY DEF PublisherInv
  <2> QED BY <2>3, <2>4, <2>5
<1> QED BY <1>1, <1>2, <1>3, <1>4 DEF Settle

\* publishUnpublished and the ends of a pass keep the types.
LEMMA TypedPublish ==
    ASSUME Typed, NEW p \in Runners,
           StartPublishing(p) \/ Publish(p) \/ EndPass(p) \/ Crash(p)
    PROVE  Typed'
<1> USE ConstantsAssumption
        DEF Typed, Fault, tableVars, recordVars, runnerVars
<1>1. CASE StartPublishing(p)
  <2> USE <1>1 DEF StartPublishing
  <2>1. TypeOK' BY DEF TypeOK, Phases
  <2>2. Stamped' BY DEF Stamped
  <2>3. PublisherInv' BY DEF PublisherInv, TypeOK
  <2> QED BY <2>1, <2>2, <2>3
<1>2. ASSUME NEW b \in Buckets, PublishEvent(p, b) PROVE Typed'
  <2> USE <1>2 DEF PublishEvent
  <2>1. faults' \in 0 .. MaxFaults BY DEF TypeOK
  <2>2. announced \subseteq announced' /\ announced' \subseteq recorded
      BY DEF TypeOK, PublisherInv
  <2>3. /\ topub' \in [Runners -> SUBSET Buckets]
        /\ sent' \in [Runners -> SUBSET Buckets]
    <3>1. topub' \in [Runners -> SUBSET Buckets] BY DEF TypeOK
    <3>2. sent \in [Runners -> SUBSET Buckets] BY DEF TypeOK
    <3>3. sent' = sent \/ sent' = [sent EXCEPT ![p] = {b}] OBVIOUS
    <3>4. sent' \in [Runners -> SUBSET Buckets] BY <3>2, <3>3
    <3> QED BY <3>1, <3>4
  <2>4. TypeOK' BY <2>1, <2>2, <2>3 DEF TypeOK
  <2>5. Stamped' BY DEF Stamped
  <2>6. PublisherInv' BY <2>2 DEF PublisherInv, TypeOK
  <2> QED BY <2>4, <2>5, <2>6
<1>3. ASSUME NEW b \in Buckets, MarkPublished(p, b) PROVE Typed'
  <2> USE <1>3 DEF MarkPublished
  <2>1. TypeOK' BY DEF TypeOK, PublisherInv
  <2>2. Stamped' BY DEF Stamped
  <2>3. PublisherInv' BY DEF PublisherInv, TypeOK
  <2> QED BY <2>1, <2>2, <2>3
<1>4. CASE EndPass(p)
  <2> USE <1>4 DEF EndPass
  <2>1. TypeOK' BY DEF TypeOK, Phases
  <2>2. Stamped' BY DEF Stamped
  <2>3. PublisherInv' BY DEF PublisherInv
  <2> QED BY <2>1, <2>2, <2>3
<1>5. CASE Crash(p)
  <2> USE <1>5 DEF Crash
  <2>1. TypeOK' BY DEF TypeOK, Phases
  <2>2. Stamped' BY DEF Stamped
  <2>3. PublisherInv' BY DEF PublisherInv, TypeOK
  <2> QED BY <2>1, <2>2, <2>3
<1> QED BY <1>1, <1>2, <1>3, <1>4, <1>5 DEF Publish

\* Retention and GetUsageSummary keep the types.
LEMMA TypedRest ==
    ASSUME Typed, DeleteSettledBefore \/ \E q \in Readers : UsageSummary(q)
    PROVE  Typed'
<1> USE DEF Typed, tableVars, recordVars, runnerVars
<1>1. CASE DeleteSettledBefore
  <2>1. PICK S \in SUBSET ExpiredVouchers :
          /\ voucher' = [r \in Requests |->
                           IF r \in S THEN "none" ELSE voucher[r]]
          /\ purged' = purged \cup S
      BY <1>1 DEF DeleteSettledBefore
  <2>2. S \subseteq Settled BY DEF ExpiredVouchers
  <2>3. TypeOK' BY <1>1, <2>1, <2>2 DEF DeleteSettledBefore, TypeOK, Settled
  <2>4. Stamped'
      BY <1>1, <2>1, <2>2 DEF DeleteSettledBefore, Stamped, TypeOK, Settled
  <2>5. PublisherInv' BY <1>1 DEF DeleteSettledBefore, PublisherInv
  <2> QED BY <2>3, <2>4, <2>5
<1>2. ASSUME NEW q \in Readers, UsageSummary(q) PROVE Typed'
  <2> USE <1>2 DEF UsageSummary
  <2>1. SettledUsage \in SUBSET Requests /\ Pending \in SUBSET Requests
      BY DEF SettledUsage, Pending, TypeOK
  <2>2. summary' \in [Readers -> [pc : {"idle", "reading", "done"},
                                  settled : SUBSET Requests,
                                  pending : SUBSET Requests]]
    <3> DEFINE Summaries == [pc : {"idle", "reading", "done"},
                             settled : SUBSET Requests,
                             pending : SUBSET Requests]
    <3>1. summary \in [Readers -> Summaries] BY DEF TypeOK
    <3>2. NoSummary \in Summaries BY DEF NoSummary
    <3>3. ASSUME NEW s \in Summaries PROVE ReadPart(s) \in Summaries
      <4>1. CASE s.pc = "reading" BY <4>1, <2>1 DEF ReadPart
      <4>2. CASE s.pc # "reading" BY <4>2, <2>1 DEF ReadPart
      <4> QED BY <4>1, <4>2
    <3> HIDE DEF Summaries
    <3>4. summary' = [summary EXCEPT ![q] =
                        IF @.pc = "done" THEN NoSummary ELSE ReadPart(@)]
        OBVIOUS
    <3>5. summary' \in [Readers -> Summaries] BY <3>1, <3>2, <3>3, <3>4
    <3> QED BY <3>5 DEF Summaries
  <2>3. TypeOK' BY <2>2 DEF TypeOK
  <2>4. Stamped' BY DEF Stamped
  <2>5. PublisherInv' BY DEF PublisherInv
  <2> QED BY <2>3, <2>4, <2>5
<1> QED BY <1>1, <1>2

\* Every step keeps the types.
LEMMA TypedNext == Typed /\ [Next]_vars => Typed'
<1> SUFFICES ASSUME Typed, [Next]_vars PROVE Typed' OBVIOUS
<1>1. CASE UNCHANGED vars
  BY <1>1 DEF Typed, TypeOK, Stamped, PublisherInv, vars, tableVars,
     recordVars, runnerVars
<1>2. CASE Next
  BY <1>2, TypedTick, TypedIngest, TypedSettle, TypedPublish, TypedRest
  DEF Next
<1> QED BY <1>1, <1>2

\* Type correctness of the metering service: every record, pass and summary
\* stays within its type, and a worker's bucket always has vouchers to sum.
THEOREM MeteringTypeCorrect == Spec => []TypeOK
<1>1. Spec => []Typed BY TypedInit, TypedNext, PTL DEF Spec
<1>2. Typed => TypeOK BY DEF Typed
<1> QED BY <1>1, <1>2, PTL

-----------------------------------------------------------------------------
(* What one step may do to each table.  These lemmas go through every      *)
(* action, so the actions are expanded in this section only.               *)

USE DEF Next, vars, tableVars, recordVars, runnerVars, Tick, Ingest,
        RecordGatewayUsage, ConsumeEvent, IngestMeteringEvent, LoseQueue,
        SettleOnce, Settle, SettleAggregate, SettleCommit, SettleAbort,
        StartPublishing, Publish, PublishEvent, MarkPublished, EndPass, Crash,
        DeleteSettledBefore, UsageSummary

\* A completion time never changes, so neither does a voucher's bucket.
LEMMA CompletionStable ==
    ASSUME TypeOK, [Next]_vars, NEW r \in Requests, completedAt[r] # -1
    PROVE  completedAt'[r] = completedAt[r] /\ BucketOf(r)' = BucketOf(r)
BY DEF TypeOK, BucketOf

\* The clock never goes back.
LEMMA TimePasses ==
    ASSUME TypeOK, [Next]_vars
    PROVE  now <= now'
BY DEF TypeOK, Times

\* No step takes back a record or an announcement, and only settled vouchers
\* are purged.
LEMMA TablesGrow ==
    ASSUME TypeOK, [Next]_vars
    PROVE  /\ recorded \subseteq recorded'
           /\ announced \subseteq announced'
           /\ purged \subseteq purged'
           /\ purged' \subseteq purged \cup Settled
BY DEF InsertRecord, ExpiredVouchers

\* The life of a voucher: written pending now, settled with a record of its
\* bucket, purged.
LEMMA VoucherStep ==
    ASSUME TypeOK, [Next]_vars, NEW r \in Requests
    PROVE  \/ voucher'[r] = voucher[r] /\ createdAt'[r] = createdAt[r]
           \/ /\ voucher[r] = "none" /\ voucher'[r] = "pending"
              /\ createdAt'[r] = now /\ now' = now
           \/ /\ voucher[r] = "pending" /\ voucher'[r] = "settled"
              /\ createdAt'[r] = createdAt[r]
              /\ \E p \in Runners, b \in Buckets :
                    SettleCommit(p, b) /\ BucketOf(r) = b
           \/ /\ voucher[r] = "settled" /\ voucher'[r] = "none"
              /\ r \in purged'
              /\ createdAt'[r] = createdAt[r]
<1>1. ASSUME NEW x \in Requests, ConsumeEvent(x) \/ IngestMeteringEvent(x)
      PROVE  \/ voucher'[r] = voucher[r] /\ createdAt'[r] = createdAt[r]
             \/ /\ voucher[r] = "none" /\ voucher'[r] = "pending"
                /\ createdAt'[r] = now /\ now' = now
  BY <1>1, HandleEventEffect
<1>2. ASSUME NEW p \in Runners, NEW b \in Buckets, SettleCommit(p, b)
      PROVE  \/ voucher'[r] = voucher[r] /\ createdAt'[r] = createdAt[r]
             \/ /\ voucher[r] = "pending" /\ voucher'[r] = "settled"
                /\ createdAt'[r] = createdAt[r]
                /\ BucketOf(r) = b
  BY <1>2, MarkVouchersEffect
<1>3. CASE DeleteSettledBefore
  BY <1>3 DEF ExpiredVouchers, Settled, TypeOK
<1>4. CASE UNCHANGED tableVars BY <1>4
<1> QED BY <1>1, <1>2, <1>3, <1>4

\* Records and sums change in SettleCommit only.
LEMMA RecordStep ==
    ASSUME [Next]_vars
    PROVE  \/ recorded' = recorded /\ counted' = counted
           \/ \E p \in Runners, b \in Buckets : SettleCommit(p, b)
OBVIOUS

\* A worker keeps its sum until its transaction ends, and starts with the
\* unsettled vouchers of an eligible bucket.
LEMMA SumStep ==
    ASSUME TypeOK, [Next]_vars, NEW p \in Runners, NEW b \in Buckets
    PROVE  \/ agg'[p][b] = agg[p][b]
           \/ agg'[p][b] = {}
           \/ /\ agg'[p][b] = UnsettledOf(b)
              /\ UNCHANGED <<completedAt, voucher, createdAt, recorded>>
<1>1. ASSUME NEW q \in Runners, NEW c \in Buckets, SettleAggregate(q, c)
      PROVE  agg' = agg \/ agg' = [agg EXCEPT ![q][c] = UnsettledOf(c)]
  BY <1>1
<1>2. ASSUME NEW q \in Runners, NEW c \in Buckets,
             SettleCommit(q, c) \/ SettleAbort(q, c)
      PROVE  agg' = [agg EXCEPT ![q][c] = {}]
  BY <1>2
<1>3. ASSUME NEW q \in Runners, Crash(q)
      PROVE  agg' = [agg EXCEPT ![q] = [c \in Buckets |-> {}]]
  BY <1>3
<1>4. \/ agg' = agg
      \/ \E q \in Runners : Crash(q)
      \/ \E q \in Runners, c \in Buckets :
            SettleAggregate(q, c) \/ SettleCommit(q, c) \/ SettleAbort(q, c)
  OBVIOUS
<1>5. CASE agg' = agg BY <1>5
<1>6. ASSUME NEW q \in Runners, Crash(q)
      PROVE  agg'[p][b] = agg[p][b] \/ agg'[p][b] = {}
  BY <1>3, <1>6 DEF TypeOK
<1>7. ASSUME NEW q \in Runners, NEW c \in Buckets,
             SettleCommit(q, c) \/ SettleAbort(q, c)
      PROVE  agg'[p][b] = agg[p][b] \/ agg'[p][b] = {}
  BY <1>2, <1>7 DEF TypeOK
<1>8. ASSUME NEW q \in Runners, NEW c \in Buckets, SettleAggregate(q, c)
      PROVE  \/ agg'[p][b] = agg[p][b]
             \/ /\ agg'[p][b] = UnsettledOf(b)
                /\ UNCHANGED <<completedAt, voucher, createdAt, recorded>>
  <2>1. UNCHANGED <<completedAt, voucher, createdAt, recorded>> BY <1>8
  <2> QED BY <1>1, <1>8, <2>1 DEF TypeOK
<1> QED BY <1>4, <1>5, <1>6, <1>7, <1>8

\* A pass works on buckets it found eligible.
LEMMA WorkStep ==
    ASSUME TypeOK, [Next]_vars, NEW p \in Runners,
           NEW b \in todo'[p] \cup busy'[p]
    PROVE  b \in todo[p] \cup busy[p] \/ Eligible(b)
<1>1. ASSUME NEW q \in Runners, SettleOnce(q)
      PROVE  b \in todo[p] \cup busy[p] \/ Eligible(b)
  BY <1>1 DEF TypeOK
<1>2. ASSUME NEW q \in Runners, NEW c \in Buckets, SettleAggregate(q, c)
      PROVE  b \in todo[p] \cup busy[p]
  <2>1. /\ c \in todo[q]
        /\ todo' = [todo EXCEPT ![q] = @ \ {c}]
        /\ busy' = busy \/ busy' = [busy EXCEPT ![q] = @ \cup {c}]
      BY <1>2
  <2>2. todo'[p] \subseteq todo[p] BY <2>1 DEF TypeOK
  <2>3. busy'[p] \subseteq busy[p] \cup todo[p] BY <2>1 DEF TypeOK
  <2> QED BY <2>2, <2>3
<1>3. ASSUME NEW q \in Runners, NEW c \in Buckets,
             SettleCommit(q, c) \/ SettleAbort(q, c)
      PROVE  b \in todo[p] \cup busy[p]
  <2>1. todo' = todo /\ busy' = [busy EXCEPT ![q] = @ \ {c}] BY <1>3
  <2>2. busy'[p] \subseteq busy[p] BY <2>1 DEF TypeOK
  <2> QED BY <2>1, <2>2
<1>4. ASSUME NEW q \in Runners, Crash(q)
      PROVE  b \in todo[p] \cup busy[p]
  BY <1>4 DEF TypeOK
<1>5. CASE UNCHANGED <<todo, busy>> BY <1>5
<1>6. \/ UNCHANGED <<todo, busy>>
      \/ \E q \in Runners : SettleOnce(q) \/ Crash(q)
      \/ \E q \in Runners, c \in Buckets :
            SettleAggregate(q, c) \/ SettleCommit(q, c) \/ SettleAbort(q, c)
  OBVIOUS
<1> QED BY <1>1, <1>2, <1>3, <1>4, <1>5, <1>6

\* MarkPublished flags only a record whose event its runner has sent.
LEMMA PublishedStep ==
    ASSUME [Next]_vars
    PROVE  \/ published' = published
           \/ \E p \in Runners : \E b \in sent[p] :
                published' = published \cup {b}
OBVIOUS

HIDE DEF Next, vars, tableVars, recordVars, runnerVars, Tick, Ingest,
         RecordGatewayUsage, ConsumeEvent, IngestMeteringEvent, LoseQueue,
         SettleOnce, Settle, SettleAggregate, SettleCommit, SettleAbort,
         StartPublishing, Publish, PublishEvent, MarkPublished, EndPass, Crash,
         DeleteSettledBefore, UsageSummary

-----------------------------------------------------------------------------
(* The inductive invariant. *)

\* The invariant holds before the first event.
LEMMA IInvInit == Init => IInv
<1> SUFFICES ASSUME Init PROVE IInv OBVIOUS
<1>1. Typed BY TypedInit
<1>2. Settled = {} /\ Pending = {} BY DEF Init, Settled, Pending
<1> QED BY <1>1, <1>2 DEF IInv, Init, SumsHere, SummedIsPending, CountedIsMarked,
     MarkedHasRecord, PublishedWasAnnounced, ReaderInv, RecordedLate,
     TimelySummed, TimelyVouchersAreCounted, NoSummary, Settled

\* Eligibility is never lost.
LEMMA EligibleStable ==
    ASSUME TypeOK, TypeOK', [Next]_vars, NEW b \in Buckets, Eligible(b)
    PROVE  Eligible(b)'
<1>1. now <= now' BY TimePasses
<1>2. b[2] + HourTicks + Grace \in Int BY HourTyped
<1>3. now \in Int /\ now' \in Int BY ConstantsAssumption DEF TypeOK, Times
<1> QED BY <1>1, <1>2, <1>3 DEF Eligible

\* What an open transaction summed stays pending until some replica commits
\* a record of its bucket.
LEMMA SummedIsPendingNext == IInv /\ [Next]_vars => SummedIsPending'
<1> SUFFICES ASSUME IInv, [Next]_vars,
                    NEW p \in Runners, NEW b \in Buckets, NEW r \in agg'[p][b]
             PROVE  /\ completedAt'[r] # -1
                    /\ BucketOf(r)' = b
                    /\ voucher'[r] = "pending" \/ b \in recorded'
    BY DEF SummedIsPending
<1>1. TypeOK /\ TypeOK' /\ Stamped BY TypedNext DEF IInv, Typed
<1>2. r \in Requests BY <1>1 DEF TypeOK
<1>3. CASE r \in agg[p][b]
  <2>1. /\ completedAt[r] # -1
        /\ BucketOf(r) = b
        /\ voucher[r] = "pending" \/ b \in recorded
      BY <1>3 DEF IInv, SummedIsPending
  <2>2. completedAt'[r] # -1 /\ BucketOf(r)' = b
      BY <1>1, <1>2, <2>1, CompletionStable
  <2>3. recorded \subseteq recorded' BY <1>1, TablesGrow
  <2>4. ASSUME NEW q \in Runners, SettleCommit(q, b) PROVE b \in recorded'
      BY <2>4 DEF SettleCommit, InsertRecord
  <2>5. voucher'[r] = "pending" \/ b \in recorded'
      BY <1>1, <1>2, <2>1, <2>3, <2>4, VoucherStep
  <2> QED BY <2>2, <2>5
<1>4. CASE r \in UnsettledOf(b) /\ UNCHANGED <<completedAt, voucher>>
  <2>1. voucher[r] = "pending" /\ BucketOf(r) = b
      BY <1>4 DEF UnsettledOf, Pending
  <2>2. completedAt[r] # -1 BY <1>1, <1>2, <2>1 DEF Stamped
  <2> QED BY <1>4, <2>1, <2>2 DEF BucketOf
<1> QED BY <1>1, <1>3, <1>4, SumStep

\* Marked or purged is for good.
LEMMA MarkedStable ==
    ASSUME TypeOK, [Next]_vars PROVE Settled \cup purged \subseteq (Settled \cup purged)'
BY VoucherStep, TablesGrow DEF Settled, TypeOK

\* MarkVouchers runs only with the record of its bucket in place.
LEMMA MarkedHasRecordNext == IInv /\ [Next]_vars => MarkedHasRecord'
<1> SUFFICES ASSUME IInv, [Next]_vars, NEW r \in (Settled \cup purged)'
             PROVE  BucketOf(r)' \in recorded'
    BY DEF MarkedHasRecord
<1>1. TypeOK /\ TypeOK' /\ Stamped BY TypedNext DEF IInv, Typed
<1>2. r \in Requests BY <1>1 DEF TypeOK, Settled
<1>3. recorded \subseteq recorded' BY <1>1, TablesGrow
<1>4. CASE r \in Settled \cup purged
  <2>1. BucketOf(r) \in recorded BY <1>4 DEF IInv, MarkedHasRecord
  <2>2. completedAt[r] # -1 BY <1>2, <1>4 DEF IInv, Typed, Stamped, Settled
  <2> QED BY <1>1, <1>2, <1>3, <2>1, <2>2, CompletionStable
<1>5. CASE r \notin Settled \cup purged
  <2>1. voucher'[r] = "settled" /\ voucher[r] # "settled"
      BY <1>1, <1>2, <1>5, TablesGrow DEF Settled
  <2>2. PICK p \in Runners, b \in Buckets : SettleCommit(p, b) /\ BucketOf(r) = b
      BY <1>1, <1>2, <2>1, VoucherStep
  <2>3. voucher[r] = "pending" BY <1>1, <1>2, <2>1, VoucherStep
  <2>4. BucketOf(r)' = BucketOf(r)
      BY <1>1, <1>2, <2>3, CompletionStable DEF Stamped
  <2> QED BY <2>2, <2>4 DEF SettleCommit, InsertRecord
<1> QED BY <1>4, <1>5

\* The transaction that counts a voucher marks it, and marking is for good.
LEMMA CountedIsMarkedNext == IInv /\ [Next]_vars => CountedIsMarked'
<1> SUFFICES ASSUME IInv, [Next]_vars, NEW b \in recorded'
             PROVE  counted'[b] \subseteq (Settled \cup purged)'
    BY DEF CountedIsMarked
<1>1. TypeOK BY DEF IInv, Typed
<1>2. Settled \cup purged \subseteq (Settled \cup purged)'
    BY <1>1, MarkedStable
<1>3. CASE b \in recorded /\ counted'[b] = counted[b]
  BY <1>2, <1>3 DEF IInv, CountedIsMarked
<1>4. ASSUME NEW p \in Runners, SettleCommit(p, b), b \notin recorded
      PROVE  counted'[b] \subseteq Settled'
  <2>1. b \in Buckets BY <1>4, <1>1 DEF SettleCommit, TypeOK
  <2>2. counted'[b] = agg[p][b]
      BY <1>4, <1>1, <2>1 DEF SettleCommit, InsertRecord, TypeOK
  <2>3. ASSUME NEW r \in agg[p][b] PROVE voucher'[r] = "settled"
    <3>1. r \in Requests BY <1>1, <2>1 DEF TypeOK
    <3>2. voucher[r] = "pending" /\ BucketOf(r) = b
        BY <1>4, <2>1 DEF IInv, SummedIsPending
    <3> QED BY <1>1, <1>4, <2>1, <3>1, <3>2, MarkVouchersEffect
         DEF SettleCommit
  <2>4. agg[p][b] \subseteq Requests BY <1>1, <2>1 DEF TypeOK
  <2> QED BY <2>2, <2>3, <2>4 DEF Settled
<1>5. ASSUME NEW p \in Runners, NEW c \in Buckets, SettleCommit(p, c),
             ~(b \in recorded /\ counted'[b] = counted[b])
      PROVE  c = b /\ b \notin recorded
  <2>1. InsertRecord(p, c) BY <1>5 DEF SettleCommit
  <2>2. c \notin recorded BY <1>5, <2>1 DEF InsertRecord
  <2>3. /\ recorded' = recorded \cup {c}
        /\ counted' = [counted EXCEPT ![c] = agg[p][c]]
      BY <2>1, <2>2 DEF InsertRecord
  <2> QED BY <1>1, <1>5, <2>2, <2>3 DEF TypeOK
<1> QED BY <1>3, <1>4, <1>5, RecordStep

\* A record is summed once, from what its worker's SELECT returned.
LEMMA SumsHereNext == IInv /\ [Next]_vars => SumsHere'
<1> SUFFICES ASSUME IInv, [Next]_vars, NEW b \in Buckets
             PROVE  /\ b \notin recorded' => counted'[b] = {}
                    /\ \A r \in counted'[b] :
                         completedAt'[r] # -1 /\ BucketOf(r)' = b
    BY DEF SumsHere
<1>1. TypeOK BY DEF IInv, Typed
<1>2. ASSUME NEW r \in Requests, completedAt[r] # -1, BucketOf(r) = b
      PROVE  completedAt'[r] # -1 /\ BucketOf(r)' = b
  BY <1>1, <1>2, CompletionStable
<1>3. CASE counted'[b] = counted[b]
  <2>1. counted[b] \subseteq Requests BY <1>1 DEF TypeOK
  <2> QED BY <1>1, <1>2, <1>3, <2>1, TablesGrow DEF IInv, SumsHere
<1>4. ASSUME NEW p \in Runners, SettleCommit(p, b), b \notin recorded
      PROVE  /\ b \in recorded'
             /\ counted'[b] = agg[p][b]
             /\ \A r \in agg[p][b] : completedAt[r] # -1 /\ BucketOf(r) = b
             /\ agg[p][b] \subseteq Requests
  BY <1>1, <1>4 DEF SettleCommit, InsertRecord, TypeOK, IInv, SummedIsPending
<1>5. ASSUME NEW p \in Runners, NEW c \in Buckets, SettleCommit(p, c),
             ~(c = b /\ b \notin recorded)
      PROVE  counted'[b] = counted[b]
  BY <1>1, <1>5 DEF SettleCommit, InsertRecord, TypeOK
<1> QED BY <1>2, <1>3, <1>4, <1>5, RecordStep

\* The flag is set after the publish, by the runner that published.
LEMMA PublishedWasAnnouncedNext ==
    IInv /\ [Next]_vars => PublishedWasAnnounced'
<1> SUFFICES ASSUME IInv, [Next]_vars PROVE published' \subseteq announced'
    BY DEF PublishedWasAnnounced
<1>1. announced \subseteq announced' BY TablesGrow DEF IInv, Typed
<1>2. published \subseteq announced BY DEF IInv, PublishedWasAnnounced
<1>3. \A p \in Runners : sent[p] \subseteq announced
    BY DEF IInv, Typed, PublisherInv
<1> QED BY <1>1, <1>2, <1>3, PublishedStep

\* A summary that read a request as settled never meets it pending later,
\* unless retention deleted its voucher in between.
LEMMA ReaderInvNext == IInv /\ [Next]_vars => ReaderInv'
<1> SUFFICES ASSUME IInv, [Next]_vars PROVE ReaderInv' OBVIOUS
<1>1. TypeOK /\ TypeOK' BY TypedNext DEF IInv, Typed
<1>2. Settled \cup purged \subseteq (Settled \cup purged)'
    BY <1>1, MarkedStable
<1>3. purged \subseteq purged' BY <1>1, TablesGrow
<1>4. CASE summary' = summary
  BY <1>2, <1>3, <1>4 DEF IInv, ReaderInv
<1>5. ASSUME NEW q \in Readers, UsageSummary(q) PROVE ReaderInv'
  <2>1. SettledUsage \subseteq Settled \cup purged
      BY DEF SettledUsage, IInv, CountedIsMarked
  <2>2. Pending \cap Settled = {} BY DEF Pending, Settled
  <2>3. summary' = [summary EXCEPT ![q] =
                      IF @.pc = "done" THEN NoSummary ELSE ReadPart(@)]
      BY <1>5 DEF UsageSummary
  <2>4. ASSUME NEW x \in Readers, x # q PROVE summary'[x] = summary[x]
      BY <1>1, <2>3, <2>4 DEF TypeOK
  <2>5. /\ summary'[q].settled \subseteq Settled \cup purged
        /\ summary'[q].pc = "done" =>
             summary'[q].settled \cap summary'[q].pending \subseteq purged
    <3>1. summary[q].settled \subseteq Settled \cup purged
        BY DEF IInv, ReaderInv
    <3>2. CASE summary[q].pc = "done"
      BY <1>1, <2>3, <3>2 DEF TypeOK, NoSummary
    <3>3. CASE summary[q].pc = "reading"
      <4>1. /\ summary'[q].settled = summary[q].settled
            /\ summary'[q].pending = Pending
          BY <1>1, <2>3, <3>3 DEF TypeOK, ReadPart
      <4> QED BY <2>2, <3>1, <4>1
    <3>4. CASE summary[q].pc = "idle"
      <4>1. /\ summary'[q].settled = SettledUsage
            /\ summary'[q].pc = "reading"
          BY <1>1, <2>3, <3>4 DEF TypeOK, ReadPart
      <4> QED BY <2>1, <4>1
    <3> QED BY <1>1, <3>2, <3>3, <3>4 DEF TypeOK
  <2> QED BY <1>2, <1>3, <2>4, <2>5 DEF IInv, ReaderInv
<1>6. summary' = summary \/ \E q \in Readers : UsageSummary(q)
  BY DEF Next, vars, tableVars, recordVars, runnerVars, Tick, Ingest,
     RecordGatewayUsage, ConsumeEvent, IngestMeteringEvent, LoseQueue,
     SettleOnce, Settle, SettleAggregate, SettleCommit, SettleAbort,
     StartPublishing, Publish, PublishEvent, MarkPublished, EndPass, Crash,
     DeleteSettledBefore
<1> QED BY <1>4, <1>5, <1>6

\* Records exist for eligible hours only, since passes work on eligible hours.
LEMMA RecordedLateNext == IInv /\ [Next]_vars => RecordedLate'
<1> SUFFICES ASSUME IInv, [Next]_vars PROVE RecordedLate' OBVIOUS
<1>1. TypeOK /\ TypeOK' BY TypedNext DEF IInv, Typed
<1>2. ASSUME NEW b \in recorded' PROVE Eligible(b)
  <2>1. CASE b \in recorded BY <2>1 DEF IInv, RecordedLate
  <2>2. CASE b \notin recorded
    <3>1. PICK p \in Runners, c \in Buckets : SettleCommit(p, c)
        BY <2>2, RecordStep
    <3>2. c = b /\ b \in busy[p]
        BY <2>2, <3>1 DEF SettleCommit, InsertRecord
    <3> QED BY <3>2 DEF IInv, RecordedLate
  <2> QED BY <2>1, <2>2
<1>3. ASSUME NEW p \in Runners, NEW b \in todo'[p] \cup busy'[p]
      PROVE  Eligible(b)
  BY <1>1, WorkStep DEF IInv, RecordedLate
<1>4. recorded' \subseteq Buckets
      /\ \A p \in Runners : todo'[p] \cup busy'[p] \subseteq Buckets
  BY <1>1 DEF TypeOK
<1> QED BY <1>1, <1>2, <1>3, <1>4, EligibleStable DEF RecordedLate

\* A voucher written now is late for every eligible bucket.
LEMMA LateIsNotTimely ==
    ASSUME TypeOK', NEW r \in Requests, completedAt'[r] # -1,
           createdAt'[r] = now', Eligible(BucketOf(r))'
    PROVE  ~Timely(r)'
<1> DEFINE b == BucketOf(r)'
<1>1. KeyOf[r] \in Keys /\ completedAt'[r] \in Times
    BY ConstantsAssumption DEF TypeOK
<1>2. b \in Buckets BY <1>1 DEF BucketOf, Buckets
<1>3. b[2] + HourTicks + Grace \in Int BY <1>2, HourTyped
<1>4. now' \in Int BY ConstantsAssumption DEF TypeOK, Times
<1>5. now' >= b[2] + HourTicks + Grace BY DEF Eligible
<1> QED BY <1>3, <1>4, <1>5 DEF Timely

\* An open transaction of a bucket without a record summed every timely
\* pending voucher of the bucket: none can arrive after the SELECT.
LEMMA TimelySummedNext == IInv /\ [Next]_vars => TimelySummed'
<1> SUFFICES ASSUME IInv, [Next]_vars, NEW r \in Requests,
                    voucher'[r] = "pending", Timely(r)'
             PROVE  /\ BucketOf(r)' \notin recorded'
                    /\ \A p \in Runners : BucketOf(r)' \in busy'[p] =>
                         r \in agg'[p][BucketOf(r)']
    BY DEF TimelySummed
<1>1. TypeOK /\ TypeOK' /\ Stamped /\ Stamped'
    BY TypedNext DEF IInv, Typed
<1>2. completedAt'[r] # -1 BY <1>1 DEF Stamped
<1>3. RecordedLate' BY RecordedLateNext
<1>4. CASE voucher[r] = "pending" /\ createdAt'[r] = createdAt[r]
  <2> DEFINE b == BucketOf(r)
  <2>1. completedAt[r] # -1 BY <1>1, <1>4 DEF Stamped
  <2>2. BucketOf(r)' = b BY <1>1, <2>1, CompletionStable
  <2>3. b \in Buckets BY <1>1, <2>1, BucketTyped
  <2>4. Timely(r) BY <1>4, <2>2 DEF Timely
  <2>5. /\ b \notin recorded
        /\ \A p \in Runners : b \in busy[p] => r \in agg[p][b]
      BY <1>4, <2>4 DEF IInv, TimelySummed
  <2>6. b \notin recorded'
    <3>1. ASSUME NEW p \in Runners, NEW c \in Buckets, SettleCommit(p, c)
          PROVE  b \notin recorded'
      <4>1. MarkVouchers(c) /\ InsertRecord(p, c)
          BY <3>1 DEF SettleCommit
      <4>2. b # c BY <1>1, <1>4, <4>1, MarkVouchersEffect
      <4> QED BY <2>5, <4>1, <4>2 DEF InsertRecord
    <3> QED BY <2>5, <3>1, RecordStep
  <2>7. ASSUME NEW p \in Runners, b \in busy'[p] PROVE r \in agg'[p][b]
    <3>1. agg'[p][b] # {} BY <1>1, <2>3, <2>7 DEF TypeOK
    <3>2. CASE agg'[p][b] = agg[p][b]
      <4>1. b \in busy[p] BY <1>1, <2>3, <3>1, <3>2 DEF TypeOK
      <4> QED BY <2>5, <3>2, <4>1
    <3>3. CASE agg'[p][b] = UnsettledOf(b)
      BY <1>4, <3>3 DEF UnsettledOf, Pending
    <3> QED BY <1>1, <2>3, <3>1, <3>2, <3>3, SumStep
  <2> QED BY <2>2, <2>6, <2>7
<1>5. CASE createdAt'[r] = now /\ now' = now
  <2>1. ~Eligible(BucketOf(r))'
      BY <1>1, <1>2, <1>5, LateIsNotTimely
  <2> QED BY <1>3, <2>1 DEF RecordedLate
<1> QED BY <1>1, <1>4, <1>5, VoucherStep

\* A commit marks timely vouchers only together with the record counting them.
LEMMA TimelyCountedNext == IInv /\ [Next]_vars => TimelyVouchersAreCounted'
<1> SUFFICES ASSUME IInv, [Next]_vars, NEW r \in Requests,
                    voucher'[r] = "settled", Timely(r)'
             PROVE  r \in counted'[BucketOf(r)']
    BY DEF TimelyVouchersAreCounted, Settled
<1>1. TypeOK /\ TypeOK' /\ Stamped BY TypedNext DEF IInv, Typed
<1>2. voucher[r] # "none" /\ createdAt'[r] = createdAt[r]
    BY <1>1, VoucherStep
<1>3. completedAt[r] # -1 BY <1>1, <1>2 DEF Stamped
<1> DEFINE b == BucketOf(r)
<1>4. BucketOf(r)' = b BY <1>1, <1>3, CompletionStable
<1>5. Timely(r) BY <1>2, <1>4 DEF Timely
<1>6. CASE voucher[r] = "settled"
  <2>1. r \in counted[b] /\ b \in recorded
      BY <1>5, <1>6 DEF IInv, TimelyVouchersAreCounted, MarkedHasRecord, Settled
  <2>2. ASSUME NEW p \in Runners, NEW c \in Buckets, SettleCommit(p, c)
        PROVE  counted'[b] = counted[b]
      BY <1>1, <2>1, <2>2 DEF SettleCommit, InsertRecord, TypeOK
  <2> QED BY <1>4, <2>1, <2>2, RecordStep
<1>7. CASE voucher[r] = "pending"
  <2>1. PICK p \in Runners, c \in Buckets : SettleCommit(p, c) /\ b = c
      BY <1>1, <1>7, VoucherStep
  <2>2. b \notin recorded BY <1>5, <1>7 DEF IInv, TimelySummed
  <2>3. r \in agg[p][b]
      BY <1>5, <1>7, <2>1 DEF IInv, TimelySummed, SettleCommit
  <2>4. counted'[b] = agg[p][b]
      BY <1>1, <2>1, <2>2 DEF SettleCommit, InsertRecord, TypeOK
  <2> QED BY <1>4, <2>3, <2>4
<1> QED BY <1>1, <1>2, <1>6, <1>7 DEF TypeOK

\* The invariant is inductive.
LEMMA IInvNext == IInv /\ [Next]_vars => IInv'
<1> SUFFICES ASSUME IInv, [Next]_vars PROVE IInv' OBVIOUS
<1>1. Typed' BY TypedNext DEF IInv
<1> QED BY <1>1, SumsHereNext, SummedIsPendingNext, CountedIsMarkedNext, MarkedHasRecordNext,
     PublishedWasAnnouncedNext, ReaderInvNext, RecordedLateNext,
     TimelySummedNext, TimelyCountedNext DEF IInv

\* The invariant holds in every reachable state.
LEMMA IInvAlways == Spec => []IInv
BY IInvInit, IInvNext, PTL DEF Spec

-----------------------------------------------------------------------------
(* The theorems. *)

\* However settlement passes, rollbacks, crashes and late events interleave,
\* a voucher a record counted is never pending again (SettleBucket's insert,
\* sum and mark commit together).
THEOREM CountedStaysMarked == Spec => []CountedIsMarked
<1>1. IInv => CountedIsMarked BY DEF IInv
<1> QED BY <1>1, IInvAlways, PTL

\* A voucher marked settled, or deleted by retention, has the usage record of
\* its key and hour behind it.
THEOREM MarkedKeepsRecord == Spec => []MarkedHasRecord
<1>1. IInv => MarkedHasRecord BY DEF IInv
<1> QED BY <1>1, IInvAlways, PTL

\* A voucher written before its hour's grace period ended is counted by the
\* record it is marked with, for every grace period and number of replicas.
THEOREM TimelyCounted == Spec => []TimelyVouchersAreCounted
<1>1. IInv => TimelyVouchersAreCounted BY DEF IInv
<1> QED BY <1>1, IInvAlways, PTL

\* publishUnpublished never flags a record whose event was not published.
THEOREM FlaggedWasAnnounced == Spec => []PublishedWasAnnounced
<1>1. IInv => PublishedWasAnnounced BY DEF IInv
<1> QED BY <1>1, IInvAlways, PTL

\* GetUsageSummary, reading in two statements, counts no unpurged request
\* both as settled and as pending.
THEOREM SummaryExact == Spec => []SummaryCountsOnce
<1>1. IInv => SummaryCountsOnce
    BY DEF IInv, ReaderInv, SummaryCountsOnce
<1> QED BY <1>1, IInvAlways, PTL

\* A committed usage record is never rewritten or removed.
THEOREM RecordsStayFrozen == Spec => RecordsAreFrozen
<1>1. TypeOK /\ [Next]_vars =>
        [\A b \in recorded : b \in recorded' /\ counted'[b] = counted[b]]_vars
  <2> SUFFICES ASSUME TypeOK, [Next]_vars, NEW b \in recorded
               PROVE  b \in recorded' /\ counted'[b] = counted[b]
      OBVIOUS
  <2>1. ASSUME NEW p \in Runners, NEW c \in Buckets, SettleCommit(p, c)
        PROVE  b \in recorded' /\ counted'[b] = counted[b]
      BY <2>1 DEF SettleCommit, InsertRecord, TypeOK
  <2> QED BY <2>1, RecordStep
<1> QED BY <1>1, MeteringTypeCorrect, PTL DEF Spec, RecordsAreFrozen

-----------------------------------------------------------------------------
(* Settlement by the hour: every step of the service is a step of          *)
(* SettleOnce, or none.                                                    *)

Closed == {b \in Buckets : Eligible(b)}
Prompt == [b \in Buckets |-> {r \in UnsettledOf(b) : Timely(r)}]
Late   == [b \in Buckets |-> {r \in UnsettledOf(b) : ~Timely(r)}]

\* Where a voucher waits is told by its own row.
LEMMA WaitsAt ==
    ASSUME NEW b \in Buckets, NEW r \in Requests
    PROVE  /\ r \in Prompt[b] <=>
                /\ voucher[r] = "pending" /\ BucketOf(r) = b /\ Timely(r)
           /\ r \in Late[b] <=>
                /\ voucher[r] = "pending" /\ BucketOf(r) = b /\ ~Timely(r)
BY DEF Prompt, Late, UnsettledOf, Pending

\* A row that keeps its state, or was and is not pending, waits where it did.
LEMMA WaitsStill ==
    ASSUME Typed, Typed', [Next]_vars, NEW r \in Requests, NEW b \in Buckets,
           \/ voucher'[r] = voucher[r] /\ createdAt'[r] = createdAt[r]
           \/ voucher[r] # "pending" /\ voucher'[r] # "pending"
    PROVE  (r \in Prompt'[b] <=> r \in Prompt[b])
           /\ (r \in Late'[b] <=> r \in Late[b])
<1>1. CASE voucher[r] = "pending" /\ voucher'[r] = "pending"
  <2>1. completedAt[r] # -1 BY <1>1 DEF Typed, Stamped
  <2>2. BucketOf(r)' = BucketOf(r) BY <2>1, CompletionStable DEF Typed
  <2>3. Timely(r)' <=> Timely(r) BY <1>1, <2>2 DEF Timely
  <2> QED BY <1>1, <2>2, <2>3 DEF Prompt, Late, UnsettledOf, Pending
<1>2. CASE voucher[r] # "pending" /\ voucher'[r] # "pending"
  BY <1>2 DEF Prompt, Late, UnsettledOf, Pending
<1> QED BY <1>1, <1>2

\* When that holds of every row, nothing moves.
LEMMA NothingMoves ==
    ASSUME Typed, Typed', [Next]_vars,
           \A r \in Requests :
              \/ voucher'[r] = voucher[r] /\ createdAt'[r] = createdAt[r]
              \/ voucher[r] # "pending" /\ voucher'[r] # "pending"
    PROVE  Prompt' = Prompt /\ Late' = Late
<1>1. ASSUME NEW b \in Buckets
      PROVE  Prompt'[b] = Prompt[b] /\ Late'[b] = Late[b]
  <2>1. /\ Prompt[b] \subseteq Requests /\ Late[b] \subseteq Requests
        /\ Prompt'[b] \subseteq Requests /\ Late'[b] \subseteq Requests
      BY DEF Prompt, Late, UnsettledOf, Pending
  <2> QED BY <2>1, WaitsStill
<1> QED BY <1>1 DEF Prompt, Late

\* Nothing is closed, offered or summed at first: an hour lasts a tick or more.
LEMMA InitHours == Init => Hours!Init
<1> SUFFICES ASSUME Init PROVE Hours!Init OBVIOUS
<1>1. ASSUME NEW b \in Buckets PROVE ~Eligible(b)
  <2>1. PICK t \in Times : b[2] = PeriodStart(t) BY DEF Buckets
  <2>2. t \in Nat /\ HourTicks \in Nat \ {0} /\ Grace \in Nat
      BY ConstantsAssumption DEF Times
  <2>3. t \div HourTicks \in Nat BY <2>2
  <2>4. b[2] \in Nat BY <2>1, <2>2, <2>3 DEF PeriodStart
  <2> QED BY <2>2, <2>4 DEF Init, Eligible
<1>2. \A b \in Buckets : UnsettledOf(b) = {}
  BY DEF Init, UnsettledOf, Pending
<1> QED BY <1>1, <1>2 DEF Init, Hours!Init, Hours!Nothing

\* The clock closes hours.
LEMMA TickCloses ==
    ASSUME IInv, IInv', Tick
    PROVE  \E gs \in SUBSET Buckets : Hours!Close(gs)
<1>1. Typed /\ Typed' BY DEF IInv
<1>2. [Next]_vars BY DEF Next
<1>3. UNCHANGED <<voucher, createdAt, recorded, counted>>
    BY DEF Tick, tableVars, recordVars
<1>4. Prompt' = Prompt /\ Late' = Late BY <1>1, <1>2, <1>3, NothingMoves
<1>5. Closed \subseteq Closed'
    BY <1>1, <1>2, EligibleStable DEF Closed, Typed
<1>6. Closed' \in SUBSET Buckets BY DEF Closed
<1>7. Hours!Close(Closed')
    BY <1>3, <1>4, <1>5 DEF Hours!Close, Closed, Prompt, Late
<1> QED BY <1>6, <1>7

\* The first event of a request offers its voucher to its bucket, which is
\* closed exactly when the voucher is late; a repeated one moves nothing.
LEMMA EventOffers ==
    ASSUME IInv, IInv', NEW r \in Requests,
           ConsumeEvent(r) \/ IngestMeteringEvent(r)
    PROVE  \/ UNCHANGED Hours!svars
           \/ \E b \in Buckets : Hours!Offer(r, b)
<1>1. Typed /\ Typed' /\ TypeOK /\ TypeOK' BY DEF IInv, Typed
<1>2. [Next]_vars BY DEF Next, Ingest
<1>3. now' = now /\ UNCHANGED <<recorded, counted>>
    BY DEF ConsumeEvent, IngestMeteringEvent, recordVars
<1>4. HandleEvent(r) BY DEF ConsumeEvent, IngestMeteringEvent
<1>5. Closed' = Closed BY <1>3 DEF Closed, Eligible
<1>6. CASE voucher'[r] = voucher[r] /\ createdAt'[r] = createdAt[r]
  <2>1. Prompt' = Prompt /\ Late' = Late
      BY <1>1, <1>2, <1>4, <1>6, HandleEventEffect, NothingMoves
  <2> QED BY <1>3, <1>5, <2>1 DEF Hours!svars, Closed, Prompt, Late
<1>7. CASE voucher[r] = "none" /\ voucher'[r] = "pending" /\ createdAt'[r] = now
  <2> DEFINE b == BucketOf(r)'
  <2>1. completedAt'[r] # -1 BY <1>1, <1>7 DEF Typed, Stamped
  <2>2. b \in Buckets
    <3>1. KeyOf[r] \in Keys BY ConstantsAssumption
    <3>2. completedAt'[r] \in Times BY <1>1, <2>1 DEF TypeOK
    <3> QED BY <3>1, <3>2 DEF BucketOf, Buckets
  <2>3. Timely(r)' <=> b \notin Closed
    <3>1. now \in Int BY <1>1, ConstantsAssumption DEF TypeOK, Times
    <3>2. b[2] + HourTicks + Grace \in Int BY <2>2, HourTyped
    <3> QED BY <1>3, <1>7, <2>2, <3>1, <3>2 DEF Timely, Closed, Eligible
  <2>4. \A c \in Buckets :
          /\ r \notin Prompt[c] \cup Late[c]
          /\ r \in counted[c] => c = b
    <3> SUFFICES ASSUME NEW c \in Buckets
                 PROVE  /\ r \notin Prompt[c] \cup Late[c]
                        /\ r \in counted[c] => c = b
        OBVIOUS
    <3>1. r \notin Prompt[c] \cup Late[c] BY <1>7, WaitsAt
    <3>2. ASSUME r \in counted[c] PROVE c = b
        BY <1>1, <1>2, <3>2, CompletionStable DEF IInv, SumsHere
    <3> QED BY <3>1, <3>2
  <2>5. ASSUME NEW c \in Buckets, NEW x \in Requests, x # r \/ c # b
        PROVE  /\ x \in Prompt'[c] <=> x \in Prompt[c]
               /\ x \in Late'[c] <=> x \in Late[c]
    <3>1. CASE x # r
      BY <1>1, <1>2, <1>4, <3>1, HandleEventEffect, WaitsStill
    <3>2. CASE x = r /\ c # b
      <4>1. x \notin Prompt'[c] \cup Late'[c]
          BY <3>2 DEF Prompt, Late, UnsettledOf
      <4> QED BY <2>4, <3>2, <4>1
    <3> QED BY <2>5, <3>1, <3>2
  <2>6. /\ r \in Prompt'[b] <=> b \notin Closed
        /\ r \in Late'[b] <=> b \in Closed
      BY <1>7, <2>2, <2>3 DEF Prompt, Late, UnsettledOf, Pending
  <2>7. \A c \in Buckets : /\ Prompt[c] \subseteq Requests
                           /\ Late[c] \subseteq Requests
                           /\ Prompt'[c] \subseteq Requests
                           /\ Late'[c] \subseteq Requests
      BY DEF Prompt, Late, UnsettledOf, Pending
  <2> HIDE DEF b
  <2>8. /\ Prompt = [c \in Buckets |-> Prompt[c]]
        /\ Late = [c \in Buckets |-> Late[c]]
        /\ Prompt' = [c \in Buckets |-> Prompt'[c]]
        /\ Late' = [c \in Buckets |-> Late'[c]]
      BY DEF Prompt, Late
  <2>9. IF b \in Closed
        THEN Late' = [Late EXCEPT ![b] = @ \cup {r}] /\ Prompt' = Prompt
        ELSE Prompt' = [Prompt EXCEPT ![b] = @ \cup {r}] /\ Late' = Late
    <3>1. CASE b \in Closed
      <4>1. ASSUME NEW c \in Buckets
            PROVE  /\ Prompt'[c] = Prompt[c]
                   /\ Late'[c] = IF c = b THEN Late[c] \cup {r} ELSE Late[c]
        <5>1. CASE c = b
          <6>1. ASSUME NEW x \in Requests
                PROVE  /\ x \in Prompt'[c] <=> x \in Prompt[c]
                       /\ x \in Late'[c] <=> x = r \/ x \in Late[c]
            <7>1. CASE x = r BY <2>4, <2>6, <3>1, <5>1, <7>1
            <7>2. CASE x # r BY <2>5, <7>2
            <7> QED BY <7>1, <7>2
          <6> QED BY <2>7, <5>1, <6>1
        <5>2. CASE c # b BY <2>5, <2>7, <5>2
        <5> QED BY <5>1, <5>2
      <4> QED BY <2>8, <3>1, <4>1
    <3>2. CASE b \notin Closed
      <4>1. ASSUME NEW c \in Buckets
            PROVE  /\ Late'[c] = Late[c]
                   /\ Prompt'[c] = IF c = b THEN Prompt[c] \cup {r}
                                            ELSE Prompt[c]
        <5>1. CASE c = b
          <6>1. ASSUME NEW x \in Requests
                PROVE  /\ x \in Late'[c] <=> x \in Late[c]
                       /\ x \in Prompt'[c] <=> x = r \/ x \in Prompt[c]
            <7>1. CASE x = r BY <2>4, <2>6, <3>2, <5>1, <7>1
            <7>2. CASE x # r BY <2>5, <7>2
            <7> QED BY <7>1, <7>2
          <6> QED BY <2>7, <5>1, <6>1
        <5>2. CASE c # b BY <2>5, <2>7, <5>2
        <5> QED BY <5>1, <5>2
      <4> QED BY <2>8, <3>2, <4>1
    <3> QED BY <3>1, <3>2
  <2>10. \A c \in Buckets :
            r \in Prompt[c] \cup Late[c] \cup counted[c] => c = b
      BY <2>4
  <2>11. Hours!Offer(r, b)
      BY <1>3, <1>5, <2>9, <2>10
      DEF Hours!Offer, Hours!BelongsTo, Closed, Prompt, Late
  <2> QED BY <2>2, <2>11
<1> QED BY <1>1, <1>4, <1>6, <1>7, HandleEventEffect

\* A committed transaction seals its bucket with a sum that has every prompt
\* voucher, or finds it sealed and with late ones only left.
LEMMA CommitSeals ==
    ASSUME IInv, IInv', NEW p \in Runners, NEW b \in Buckets,
           SettleCommit(p, b)
    PROVE  Hours!Seal(b) \/ Hours!Retire(b)
<1>1. Typed /\ Typed' /\ TypeOK BY DEF IInv, Typed
<1>2. [Next]_vars BY DEF Next, Settle
<1>3. MarkVouchers(b) /\ InsertRecord(p, b) /\ b \in busy[p]
      /\ now' = now /\ createdAt' = createdAt
    BY DEF SettleCommit
<1>4. Closed' = Closed BY <1>3 DEF Closed, Eligible
<1>5. b \in Closed BY <1>3 DEF IInv, RecordedLate, Closed
<1>6. /\ Prompt' = [Prompt EXCEPT ![b] = {}]
      /\ Late' = [Late EXCEPT ![b] = {}]
  <2>1. ASSUME NEW x \in Requests, NEW c \in Buckets
        PROVE  /\ x \in Prompt'[c] <=> c # b /\ x \in Prompt[c]
               /\ x \in Late'[c] <=> c # b /\ x \in Late[c]
    <3>1. CASE voucher[x] = "pending" /\ BucketOf(x) = b
      <4>1. voucher'[x] = "settled" BY <1>1, <1>3, <3>1, MarkVouchersEffect
      <4> QED BY <3>1, <4>1, WaitsAt DEF Prompt, Late, UnsettledOf, Pending
    <3>2. CASE ~(voucher[x] = "pending" /\ BucketOf(x) = b)
      <4>1. voucher'[x] = voucher[x] BY <1>1, <1>3, <3>2, MarkVouchersEffect
      <4>2. x \in Prompt[c] \cup Late[c] => c # b BY <3>2, WaitsAt
      <4> QED BY <1>1, <1>2, <1>3, <4>1, <4>2, WaitsStill
    <3> QED BY <3>1, <3>2
  <2>2. \A c \in Buckets : /\ Prompt[c] \subseteq Requests
                           /\ Late[c] \subseteq Requests
                           /\ Prompt'[c] \subseteq Requests
                           /\ Late'[c] \subseteq Requests
      BY DEF Prompt, Late, UnsettledOf, Pending
  <2>3. ASSUME NEW c \in Buckets
        PROVE  /\ Prompt'[c] = IF c = b THEN {} ELSE Prompt[c]
               /\ Late'[c] = IF c = b THEN {} ELSE Late[c]
      BY <2>1, <2>2
  <2>4. /\ Prompt = [c \in Buckets |-> Prompt[c]]
        /\ Late = [c \in Buckets |-> Late[c]]
        /\ Prompt' = [c \in Buckets |-> Prompt'[c]]
        /\ Late' = [c \in Buckets |-> Late'[c]]
      BY DEF Prompt, Late
  <2> QED BY <2>3, <2>4
<1>7. CASE b \in recorded
  <2>1. Prompt[b] = {} BY <1>7, WaitsAt DEF IInv, TimelySummed, Prompt,
                            UnsettledOf, Pending
  <2>2. Prompt' = Prompt BY <1>6, <2>1 DEF Prompt
  <2>3. UNCHANGED <<recorded, counted>> BY <1>3, <1>7 DEF InsertRecord
  <2>4. Hours!Retire(b)
      BY <1>4, <1>6, <1>7, <2>2, <2>3 DEF Hours!Retire, Closed, Prompt, Late
  <2> QED BY <2>4
<1>8. CASE b \notin recorded
  <2> DEFINE S == agg[p][b] \cap Late[b]
  <2>1. agg[p][b] # {} BY <1>1, <1>3 DEF TypeOK
  <2>2. agg[p][b] \subseteq Requests BY <1>1 DEF TypeOK
  <2>3. Prompt[b] \subseteq agg[p][b]
      BY <1>3 DEF IInv, TimelySummed, Prompt, UnsettledOf, Pending
  <2>4. agg[p][b] \subseteq Prompt[b] \cup Late[b]
      BY <1>8, <2>2, WaitsAt DEF IInv, SummedIsPending
  <2>5. agg[p][b] = Prompt[b] \cup S BY <2>3, <2>4
  <2>6. /\ recorded' = recorded \cup {b}
        /\ counted' = [counted EXCEPT ![b] = Prompt[b] \cup S]
      BY <1>3, <1>8, <2>5 DEF InsertRecord
  <2>7. S \in SUBSET Late[b] /\ Prompt[b] \cup S # {} BY <2>1, <2>5
  <2> HIDE DEF S
  <2>8. \E T \in SUBSET Late[b] :
          /\ Prompt[b] \cup T # {}
          /\ counted' = [counted EXCEPT ![b] = Prompt[b] \cup T]
      BY <2>6, <2>7
  <2>9. Hours!Seal(b)
      BY <1>4, <1>5, <1>6, <1>8, <2>6, <2>8
      DEF Hours!Seal, Closed, Prompt, Late
  <2> QED BY <2>9
<1> QED BY <1>7, <1>8

\* Every other step keeps the clock, the records and what waits.
LEMMA OthersStay ==
    ASSUME IInv, IInv', [Next]_vars, ~Tick,
           \A r \in Requests : ~ConsumeEvent(r) /\ ~IngestMeteringEvent(r),
           \A p \in Runners, b \in Buckets : ~SettleCommit(p, b)
    PROVE  UNCHANGED Hours!svars
<1>1. Typed /\ Typed' /\ TypeOK BY DEF IInv, Typed
<1>2. now' = now /\ UNCHANGED <<recorded, counted>>
  BY DEF Next, vars, tableVars, recordVars, runnerVars, Ingest,
     RecordGatewayUsage, LoseQueue, SettleOnce, Settle, SettleAggregate,
     SettleAbort, StartPublishing, Publish, PublishEvent, MarkPublished,
     EndPass, Crash, DeleteSettledBefore, UsageSummary
<1>3. UNCHANGED tableVars \/ DeleteSettledBefore
  BY DEF Next, vars, tableVars, recordVars, runnerVars, Ingest,
     RecordGatewayUsage, LoseQueue, SettleOnce, Settle, SettleAggregate,
     SettleAbort, StartPublishing, Publish, PublishEvent, MarkPublished,
     EndPass, Crash, UsageSummary
<1>4. \A r \in Requests :
        \/ voucher'[r] = voucher[r] /\ createdAt'[r] = createdAt[r]
        \/ voucher[r] # "pending" /\ voucher'[r] # "pending"
  <2>1. CASE UNCHANGED tableVars BY <2>1 DEF tableVars
  <2>2. CASE DeleteSettledBefore
    BY <1>1, <2>2 DEF DeleteSettledBefore, ExpiredVouchers, Settled, TypeOK
  <2> QED BY <1>3, <2>1, <2>2
<1>5. Prompt' = Prompt /\ Late' = Late BY <1>1, <1>4, NothingMoves
<1>6. Closed' = Closed BY <1>2 DEF Closed, Eligible
<1> QED BY <1>2, <1>5, <1>6 DEF Hours!svars, Closed, Prompt, Late

\* Every step maps to a step or a stutter.
LEMMA NextHours == IInv /\ IInv' /\ [Next]_vars => [Hours!Next]_(Hours!svars)
<1> SUFFICES ASSUME IInv, IInv', [Next]_vars
             PROVE  [Hours!Next]_(Hours!svars)
    OBVIOUS
<1>1. CASE Tick BY <1>1, TickCloses DEF Hours!Next
<1>2. ASSUME NEW r \in Requests, ConsumeEvent(r) \/ IngestMeteringEvent(r)
      PROVE  [Hours!Next]_(Hours!svars)
  BY <1>2, EventOffers DEF Hours!Next
<1>3. ASSUME NEW p \in Runners, NEW b \in Buckets, SettleCommit(p, b)
      PROVE  [Hours!Next]_(Hours!svars)
  BY <1>3, CommitSeals DEF Hours!Next
<1> QED BY <1>1, <1>2, <1>3, OthersStay

\* The metering service implements settlement by the hour: over any number of
\* replicas, redelivered events, rolled back transactions and retention runs,
\* a bucket is recorded once, after its grace period, with every voucher that
\* was there in time, and no voucher is ever in two records.
THEOREM ImplementsSettleOnce == Spec => SettlesOnce
<1> QED BY IInvAlways, InitHours, NextHours, PTL
        DEF SettlesOnce, Hours!Spec, Spec

\* No request is in the sums of two usage records: it is billed by one hour.
THEOREM RecordedInOneHour == Spec => []Hours!CountedOnce
<1>1. IInv => Hours!CountedOnce BY DEF IInv, SumsHere, Hours!CountedOnce
<1> QED BY <1>1, IInvAlways, PTL
=============================================================================
