--------------------------- MODULE KeyCacheProofs ---------------------------
(* Theorems of module KeyCache, for every number of calls, workers and      *)
(* administrators, every length of the TTLs and the deadlines, and any      *)
(* number of changes and faults: how long the gateway may act on what is no *)
(* longer true.                                                             *)
EXTENDS KeyCache, TLAPS

-----------------------------------------------------------------------------
(* The inductive invariant, in named parts. *)

\* What the row deserves now was last true now, nothing was later.
ClockInv ==
    /\ lastTrue[Truth(row, now)] = now
    /\ \A v \in Verdicts : lastTrue[v] <= now

\* An entry was read within the call that wrote it.
RedisInv ==
    redis # None =>
        /\ now <= redis.until
        /\ redis.until <= lastTrue[redis.verdict] + VerifyDeadline + RedisTTL

\* A call carries what was true after it began, or an entry of Redis.
CallInv ==
    \A s \in Slots : call[s].pc # "idle" =>
        /\ call[s].vm \in VMs
        /\ call[s].at <= now
        /\ call[s].pc = "read" =>
              /\ call[s].verdict # Denied
              /\ call[s].at <= lastTrue[call[s].verdict]
        /\ call[s].pc = "judged" =>
              call[s].at <= lastTrue[call[s].verdict]
                            + (IF call[s].verdict = Denied THEN 0
                               ELSE VerifyDeadline + RedisTTL)

VMInv ==
    \A w \in VMs : vm[w] # None =>
        vm[w].fetchedAt <= lastTrue[vm[w].verdict] + VerifyTimeout
                           + (IF vm[w].verdict = Denied THEN 0
                              ELSE VerifyDeadline + RedisTTL)

\* A call no change overlapped carries the policy of the row.
ReadInv ==
    \A s \in Slots : call[s].pc = "read" /\ ~call[s].overlapped
                     => row.state = "live" /\ call[s].verdict = row.policy

AdminInv == \A a \in Admins : admin[a].pc # "idle" => admin[a].req \in Requests

IInv == TypeOK /\ AdminInv /\ ClockInv /\ RedisInv /\ CallInv /\ VMInv

-----------------------------------------------------------------------------
(* Small facts. *)

LEMMA TruthTyped ==
    ASSUME NEW r \in Rows, NEW t
    PROVE  /\ Truth(r, t) \in Verdicts
           /\ Truth(r, t) # Denied =>
                 /\ Truth(r, t) \in Policies
                 /\ r.state = "live" /\ Truth(r, t) = r.policy
  BY DEF Truth, Rows, Verdicts

LEMMA NoCallTyped == NoCall \in CallType /\ NoCall.pc = "idle" /\ ~NoCall.waiting
  BY ConstantsAssumption DEF NoCall, CallType, Times, Verdicts

LEMMA JudgedTyped ==
    ASSUME NEW c \in CallType, NEW v \in Verdicts
    PROVE  /\ Judged(c, v) \in CallType
           /\ Judged(c, v) \in
                {NoCall, [c EXCEPT !.pc = "judged", !.verdict = v, !.overlapped = FALSE]}
           /\ Judged(c, v).pc \in {"idle", "judged"}
  BY NoCallTyped DEF Judged, CallType, NoCall

LEMMA EntryTyped ==
    ASSUME NEW e \in VMEntries \cup {None}, NEW v \in Verdicts, now \in Times
    PROVE  /\ Store(e, v) \in VMEntries \cup {None}
           /\ Store(e, v) \in {e, [verdict |-> v, fetchedAt |-> now]}
  BY DEF Store, VMEntries

LEMMA ChangedTyped ==
    ASSUME row \in Rows, NEW r \in Requests
    PROVE  Changed(r) \in Rows
  BY DEF Changed, Rows, Requests, Ops

LEMMA SoiledTyped ==
    ASSUME redis \in RedisEntries \cup {None}, Soiled(redis) # None
    PROVE  /\ redis # None
           /\ Soiled(redis) = [redis EXCEPT !.clean = FALSE]
           /\ Soiled(redis) \in RedisEntries
           /\ Soiled(redis).verdict = redis.verdict
           /\ Soiled(redis).until = redis.until
           /\ ~Soiled(redis).clean
  BY DEF Soiled, RedisEntries

-----------------------------------------------------------------------------
(* Type correctness. *)

LEMMA TypedInit == Init => TypeOK /\ AdminInv
  <1> SUFFICES ASSUME Init PROVE TypeOK /\ AdminInv
    OBVIOUS
  <1>1. row \in Rows /\ row.policy \in Policies /\ now \in Times
    BY ConstantsAssumption DEF Init, Rows, Times
  <1>2. lastTrue \in [Verdicts -> Times \cup {Never}]
    BY <1>1, ConstantsAssumption DEF Init, Verdicts, Times
  <1>3. admin \in [Admins -> AdminType] /\ AdminInv
    BY DEF Init, AdminType, NoAdmin, AdminInv
  <1> QED
    BY <1>1, <1>2, <1>3, NoCallTyped, ConstantsAssumption DEF Init, TypeOK

LEMMA RecordTyped ==
    ASSUME lastTrue \in [Verdicts -> Times \cup {Never}], now' \in Times,
           row' \in Rows, Record
    PROVE  /\ lastTrue' \in [Verdicts -> Times \cup {Never}]
           /\ Truth(row', now') \in Verdicts
           /\ lastTrue'[Truth(row', now')] = now'
           /\ \A v \in Verdicts : v # Truth(row', now') => lastTrue'[v] = lastTrue[v]
  <1>1. Truth(row', now') \in Verdicts
    BY TruthTyped
  <1> QED
    BY <1>1 DEF Record

\* The steps of one call.
LEMMA TypedVerification ==
    ASSUME TypeOK, CallInv, NEW s \in Slots, Verification(s)
    PROVE  TypeOK'
  <1> USE DEF TypeOK
  <1>0. /\ call[s] \in CallType /\ now \in Times /\ \A w \in VMs : vm[w] \in VMEntries \cup {None}
        /\ call[s].verdict \in Verdicts
    BY DEF CallType
  <1>1. ASSUME NEW w \in VMs, Dispatch(s, w) PROVE TypeOK'
    <2>1. [NoCall EXCEPT !.pc = "asked", !.at = now, !.vm = w, !.waiting = TRUE] \in CallType
      BY <1>0, NoCallTyped DEF CallType, NoCall
    <2> QED
      BY <1>1, <2>1 DEF Dispatch
  <1>2. CASE GiveUp(s)
    <2>1. [call[s] EXCEPT !.waiting = FALSE] \in CallType
      BY <1>0 DEF CallType
    <2> QED
      BY <1>2, <2>1, NoCallTyped DEF GiveUp
  <1>3. CASE Answer(s)
    <2>1. Store(vm[call[s].vm], call[s].verdict) \in VMEntries \cup {None}
      BY <1>0, <1>3, EntryTyped DEF Answer, CallInv
    <2> QED
      BY <1>3, <2>1, NoCallTyped DEF Answer
  <1>4. CASE CacheGet(s)
    <2>1. [call[s] EXCEPT !.pc = "missed"] \in CallType
      BY <1>0 DEF CallType
    <2>2. redis # None => Judged(call[s], redis.verdict) \in CallType
      BY <1>0, JudgedTyped DEF RedisEntries, Verdicts
    <2> QED
      BY <1>4, <2>1, <2>2 DEF CacheGet
  <1>5. CASE FindKey(s)
    <2>1. Truth(row, now) \in Verdicts
      BY TruthTyped
    <2>2. [call[s] EXCEPT !.pc = "read", !.verdict = Truth(row, now)] \in CallType
      BY <1>0, <2>1 DEF CallType
    <2>3. Judged(call[s], Truth(row, now)) \in CallType
      BY <1>0, <2>1, JudgedTyped
    <2> QED
      BY <1>5, <2>2, <2>3 DEF FindKey
  <1>6. CASE CacheSet(s)
    <2>1. Judged(call[s], call[s].verdict) \in CallType
      BY <1>0, JudgedTyped
    <2>2. call[s].verdict \in Policies /\ (~call[s].overlapped) \in BOOLEAN
      <3>1. call[s].verdict # Denied
        BY <1>6 DEF CacheSet, CallInv
      <3>2. call[s].verdict \in Policies
        BY <1>0, <3>1 DEF Verdicts
      <3>3. (~call[s].overlapped) \in BOOLEAN
        OBVIOUS
      <3> QED
        BY <3>2, <3>3
    <2>3. now + RedisTTL \in Nat
      BY <1>0, ConstantsAssumption DEF Times
    <2>4. [verdict |-> call[s].verdict, until |-> now + RedisTTL,
           clean |-> ~call[s].overlapped] \in RedisEntries
      BY <2>2, <2>3 DEF RedisEntries
    <2>5. redis' \in RedisEntries \cup {None} /\ faults' \in 0 .. MaxFaults
      BY <1>6, <2>4, ConstantsAssumption DEF CacheSet, Fault, NoFault
    <2> QED
      BY <1>6, <2>1, <2>5 DEF CacheSet
  <1>7. CASE Abort(s)
    BY <1>7, NoCallTyped DEF Abort
  <1> QED
    BY <1>1, <1>2, <1>3, <1>4, <1>5, <1>6, <1>7 DEF Verification

\* The steps of one administrator.
LEMMA TypedManagement ==
    ASSUME TypeOK, AdminInv, NEW a \in Admins, Management(a)
    PROVE  TypeOK' /\ AdminInv'
  <1> USE DEF TypeOK
  <1>0. NoAdmin \in AdminType /\ NoAdmin.pc = "idle" /\ admin[a] \in AdminType
    BY DEF NoAdmin, AdminType
  <1>1. ASSUME NEW r \in Requests, Check(a, r) PROVE TypeOK' /\ AdminInv'
    <2>1. [pc |-> "checked", req |-> r] \in AdminType
      BY DEF AdminType
    <2>2. changes' \in 0 .. MaxChanges
      BY <1>1, ConstantsAssumption DEF Check
    <2> QED
      BY <1>1, <2>1, <2>2 DEF Check, AdminInv
  <1>2. CASE Commit(a)
    <2>1. admin[a].req \in Requests
      BY <1>2 DEF Commit, AdminInv
    <2>2. row' \in Rows /\ now' \in Times
      BY <1>2, <2>1, ChangedTyped DEF Commit
    <2>3. lastTrue' \in [Verdicts -> Times \cup {Never}]
      BY <1>2, <2>2, RecordTyped DEF Commit
    <2>4. [admin[a] EXCEPT !.pc = "committed"] \in AdminType
      BY <1>0 DEF AdminType
    <2>5. admin' \in [Admins -> AdminType]
      BY <1>0, <1>2, <2>4 DEF Commit
    <2>6. \A s \in Slots :
            [call[s] EXCEPT !.overlapped = @ \/ call[s].pc = "read"] \in CallType
      BY DEF CallType
    <2>7. call' \in [Slots -> CallType]
      BY <1>2, <2>6 DEF Commit
    <2>8. AdminInv'
      BY <1>0, <1>2, <2>1 DEF Commit, AdminInv, AdminType
    <2> QED
      BY <1>2, <2>2, <2>3, <2>5, <2>7, <2>8 DEF Commit
  <1>3. CASE NotFound(a)
    BY <1>0, <1>3 DEF NotFound, AdminInv
  <1>4. CASE Invalidate(a)
    <2>1. redis' \in RedisEntries \cup {None} /\ faults' \in 0 .. MaxFaults
      BY <1>4, SoiledTyped, ConstantsAssumption DEF Invalidate, Fault, NoFault
    <2> QED
      BY <1>0, <1>4, <2>1 DEF Invalidate, AdminInv
  <1> QED
    BY <1>1, <1>2, <1>3, <1>4 DEF Management

LEMMA TypedNext ==
    ASSUME TypeOK, AdminInv, CallInv, [Next]_vars
    PROVE  TypeOK' /\ AdminInv'
  <1>1. ASSUME NEW s \in Slots, Verification(s) PROVE TypeOK' /\ AdminInv'
    <2>1. admin' = admin
      BY <1>1 DEF Verification, Dispatch, GiveUp, Answer, CacheGet, FindKey, CacheSet, Abort
    <2> QED
      BY <1>1, <2>1, TypedVerification DEF AdminInv
  <1>2. ASSUME NEW a \in Admins, Management(a) PROVE TypeOK' /\ AdminInv'
    BY <1>2, TypedManagement
  <1>3. CASE Expire
    BY <1>3 DEF Expire, TypeOK, AdminInv
  <1>4. CASE Tick
    <2>1. now' \in Times /\ row' \in Rows
      BY <1>4, ConstantsAssumption DEF Tick, TypeOK, Times
    <2>2. lastTrue' \in [Verdicts -> Times \cup {Never}]
      BY <1>4, <2>1, RecordTyped DEF Tick, TypeOK
    <2> QED
      BY <1>4, <2>1, <2>2 DEF Tick, TypeOK, AdminInv
  <1>5. CASE UNCHANGED vars
    BY <1>5 DEF vars, TypeOK, AdminInv
  <1> QED
    BY <1>1, <1>2, <1>3, <1>4, <1>5 DEF Next

-----------------------------------------------------------------------------
(* How old what the caches hold may be. *)

\* Histories are ticks up to now, and only grow.
LEMMA HistoryGrows ==
    ASSUME TypeOK, AdminInv, CallInv, ClockInv, [Next]_vars
    PROVE  /\ now' \in Nat /\ now \in Nat /\ now <= now'
           /\ \A v \in Verdicts : /\ lastTrue[v] \in Int /\ lastTrue'[v] \in Int
                                 /\ lastTrue[v] <= lastTrue'[v]
           /\ ClockInv'
  <1>1. TypeOK'
    BY TypedNext
  <1>2. now \in Nat /\ now' \in Nat /\ Never \in Int
    BY <1>1, ConstantsAssumption DEF TypeOK, Times, Never, Propagation
  <1>3. \A v \in Verdicts : lastTrue[v] \in Int /\ lastTrue'[v] \in Int
    BY <1>1, <1>2, ConstantsAssumption DEF TypeOK, Times
  <1>4. now' = now \/ now' = now + 1
    BY DEF Next, vars, Tick, Expire, Verification, Dispatch, GiveUp, Answer, CacheGet,
           FindKey, CacheSet, Abort, Management, Check, Commit, NotFound, Invalidate
  <1>5. \/ Record
        \/ UNCHANGED <<row, now, lastTrue>>
    BY DEF Next, vars, Tick, Expire, Verification, Dispatch, GiveUp, Answer, CacheGet,
           FindKey, CacheSet, Abort, Management, Check, Commit, NotFound, Invalidate
  <1>6. CASE Record
    <2>1. /\ Truth(row', now') \in Verdicts
          /\ lastTrue'[Truth(row', now')] = now'
          /\ \A v \in Verdicts : v # Truth(row', now') => lastTrue'[v] = lastTrue[v]
      BY <1>1, <1>6, RecordTyped DEF TypeOK
    <2> QED
      BY <1>2, <1>3, <1>4, <2>1 DEF ClockInv
  <1>7. CASE UNCHANGED <<row, now, lastTrue>>
    <2>1. Truth(row', now') = Truth(row, now)
      BY <1>7
    <2> QED
      BY <1>2, <1>3, <1>7, <2>1 DEF ClockInv
  <1> QED
    BY <1>5, <1>6, <1>7

\* The numbers the proofs below add up.
LEMMA Numbers ==
    ASSUME TypeOK
    PROVE  /\ {RedisTTL, WasmTTL, VerifyTimeout, VerifyDeadline} \subseteq Nat
           /\ \A s \in Slots : call[s].at \in Nat /\ call[s].verdict \in Verdicts
           /\ redis # None => redis.until \in Nat /\ redis.verdict \in Policies
                              /\ redis.verdict \in Verdicts /\ redis.verdict # Denied
           /\ \A w \in VMs : vm[w] # None =>
                 vm[w].fetchedAt \in Nat /\ vm[w].verdict \in Verdicts
  BY ConstantsAssumption DEF TypeOK, CallType, Times, RedisEntries, VMEntries, Verdicts

LEMMA RedisBound ==
    ASSUME IInv, [Next]_vars
    PROVE  RedisInv'
  <1> USE DEF IInv
  <1>0. /\ now' \in Nat /\ now \in Nat /\ now <= now'
        /\ \A v \in Verdicts : /\ lastTrue[v] \in Int /\ lastTrue'[v] \in Int
                              /\ lastTrue[v] <= lastTrue'[v]
    BY HistoryGrows
  <1>1. CASE redis' = redis /\ now' = now
    BY <1>0, <1>1, Numbers DEF RedisInv
  <1>2. ASSUME NEW s \in Slots, CacheSet(s), redis' # redis PROVE RedisInv'
    <2>1. /\ now' = now /\ redis'.until = now + RedisTTL
          /\ redis'.verdict = call[s].verdict
      BY <1>2 DEF CacheSet
    <2>2. /\ now <= call[s].at + VerifyDeadline
          /\ call[s].at <= lastTrue[call[s].verdict]
      BY <1>2 DEF CacheSet, Working, CallInv
    <2> QED
      BY <1>0, <2>1, <2>2, Numbers DEF RedisInv
  <1>3. ASSUME NEW a \in Admins, Invalidate(a) PROVE RedisInv'
    <2>1. redis' = None \/ redis' = Soiled(redis)
      BY <1>3 DEF Invalidate
    <2>2. redis' # None => /\ redis # None
                           /\ redis'.verdict = redis.verdict
                           /\ redis'.until = redis.until
      BY <2>1, SoiledTyped DEF TypeOK
    <2>3. now' = now
      BY <1>3 DEF Invalidate
    <2> QED
      BY <1>0, <2>2, <2>3, Numbers DEF RedisInv
  <1>4. CASE Expire
    BY <1>4 DEF Expire, RedisInv
  <1>5. CASE Tick
    BY <1>0, <1>5, Numbers DEF Tick, RedisInv
  <1>6. \/ redis' = redis /\ now' = now
        \/ \E s \in Slots : CacheSet(s) /\ redis' # redis
        \/ \E a \in Admins : Invalidate(a)
        \/ Expire \/ Tick
    BY DEF Next, vars, Verification, Dispatch, GiveUp, Answer, CacheGet,
           FindKey, CacheSet, Abort, Management, Check, Commit, NotFound
  <1> QED
    BY <1>1, <1>2, <1>3, <1>4, <1>5, <1>6

\* CallInv and VMInv for one call and one worker.
CallSound(c) ==
    c.pc # "idle" =>
        /\ c.vm \in VMs
        /\ c.at <= now
        /\ c.pc = "read" => c.verdict # Denied /\ c.at <= lastTrue[c.verdict]
        /\ c.pc = "judged" =>
              c.at <= lastTrue[c.verdict]
                      + (IF c.verdict = Denied THEN 0 ELSE VerifyDeadline + RedisTTL)

\* What a call carries stays sound as time passes.
LEMMA SoundLasts ==
    ASSUME IInv, [Next]_vars, NEW s \in Slots, CallSound(call[s])
    PROVE  call[s].pc # "idle" =>
        /\ call[s].vm \in VMs
        /\ call[s].at <= now'
        /\ call[s].pc = "read" => /\ call[s].verdict # Denied
                                  /\ call[s].at <= lastTrue'[call[s].verdict]
        /\ call[s].pc = "judged" =>
              call[s].at <= lastTrue'[call[s].verdict]
                      + (IF call[s].verdict = Denied THEN 0 ELSE VerifyDeadline + RedisTTL)
  BY HistoryGrows, Numbers DEF IInv, CallSound

LEMMA CallBound ==
    ASSUME IInv, [Next]_vars
    PROVE  CallInv'
  <1> USE DEF IInv
  <1>0. /\ now' \in Nat /\ now \in Nat /\ now <= now'
        /\ \A v \in Verdicts : /\ lastTrue[v] \in Int /\ lastTrue'[v] \in Int
                              /\ lastTrue[v] <= lastTrue'[v]
    BY HistoryGrows
  <1>1. \A s \in Slots : CallSound(call[s])
    BY DEF CallInv, CallSound
  <1>2. \A s \in Slots : call'[s].pc = "idle" \/ CallSound(call[s])'
    <2> SUFFICES ASSUME NEW s \in Slots, call'[s].pc # "idle" PROVE CallSound(call[s])'
      OBVIOUS
    <2>0. call[s] \in CallType
      BY DEF TypeOK
    <2>1. CASE call'[s] = call[s]
      BY <1>1, <2>1, SoundLasts DEF CallSound
    <2>2. ASSUME NEW w \in VMs, Dispatch(s, w) PROVE CallSound(call[s])'
      <3>1. call'[s] = [NoCall EXCEPT !.pc = "asked", !.at = now, !.vm = w, !.waiting = TRUE]
        BY <2>2 DEF Dispatch, TypeOK
      <3>2. call'[s].pc = "asked" /\ call'[s].at = now /\ call'[s].vm = w
        BY <3>1, NoCallTyped DEF NoCall
      <3> QED
        BY <1>0, <3>2 DEF CallSound
    <2>3. CASE GiveUp(s)
      <3>1. call'[s] = [call[s] EXCEPT !.waiting = FALSE]
        BY <2>0, <2>3, NoCallTyped DEF GiveUp, TypeOK
      <3>2. /\ call'[s].pc = call[s].pc /\ call'[s].vm = call[s].vm
            /\ call'[s].at = call[s].at /\ call'[s].verdict = call[s].verdict
        BY <2>0, <3>1 DEF CallType
      <3> QED
        BY <1>1, <3>2, SoundLasts DEF CallSound
    <2>4. ASSUME CacheGet(s) \/ FindKey(s), call'[s].pc = "judged" PROVE CallSound(call[s])'
      <3>1. PICK v \in Verdicts :
              /\ call'[s] = Judged(call[s], v)
              /\ \/ redis # None /\ v = redis.verdict
                 \/ v = Denied /\ v = Truth(row, now)
        <4>1. CASE CacheGet(s) /\ redis # None
          BY <4>1, Numbers DEF CacheGet, TypeOK
        <4>2. CASE CacheGet(s) /\ redis = None
          BY <2>0, <2>4, <4>2 DEF CacheGet, TypeOK, CallType
        <4>3. CASE FindKey(s) /\ Truth(row, now) = Denied
          BY <4>3 DEF FindKey, TypeOK, Verdicts
        <4>4. CASE FindKey(s) /\ Truth(row, now) # Denied
          BY <2>0, <2>4, <4>4 DEF FindKey, TypeOK, CallType
        <4> QED
          BY <2>4, <4>1, <4>2, <4>3, <4>4
      <3>2. call'[s] = [call[s] EXCEPT !.pc = "judged", !.verdict = v, !.overlapped = FALSE]
        BY <2>0, <2>4, <3>1, JudgedTyped, NoCallTyped
      <3>3. /\ call'[s].pc = "judged" /\ call'[s].verdict = v
            /\ call'[s].at = call[s].at /\ call'[s].vm = call[s].vm
        BY <2>0, <3>2 DEF CallType
      <3>4. call[s].pc # "idle" /\ call[s].at <= now /\ call[s].vm \in VMs
        BY <1>1, <2>4 DEF CacheGet, FindKey, CallSound
      <3>5. call[s].at <= lastTrue[v] + (IF v = Denied THEN 0 ELSE VerifyDeadline + RedisTTL)
        <4>1. CASE redis # None /\ v = redis.verdict
          <5>1. /\ redis.until \in Nat /\ v # Denied /\ call[s].at \in Nat
                /\ lastTrue[v] \in Int /\ VerifyDeadline + RedisTTL \in Nat
            BY <1>0, <4>1, Numbers
          <5>2. now <= redis.until /\ redis.until <= lastTrue[v] + VerifyDeadline + RedisTTL
            BY <4>1 DEF RedisInv
          <5>3. call[s].at <= lastTrue[v] + (VerifyDeadline + RedisTTL)
            BY <1>0, <3>4, <5>1, <5>2, Numbers
          <5> QED
            BY <5>1, <5>3
        <4>2. CASE v = Denied /\ v = Truth(row, now)
          BY <1>0, <3>4, <4>2, Numbers DEF ClockInv
        <4> QED
          BY <3>1, <4>1, <4>2
      <3> QED
        BY <1>0, <3>3, <3>4, <3>5, Numbers DEF CallSound
    <2>5. ASSUME CacheGet(s), call'[s].pc # "judged" PROVE CallSound(call[s])'
      <3>1. call'[s] = [call[s] EXCEPT !.pc = "missed"]
        <4>1. redis # None => call'[s] = Judged(call[s], redis.verdict)
          BY <2>5 DEF CacheGet, TypeOK
        <4>2. redis = None
          BY <2>0, <2>5, <4>1, JudgedTyped, Numbers
        <4> QED
          BY <2>5, <4>2 DEF CacheGet, TypeOK
      <3>2. call'[s].pc = "missed" /\ call'[s].at = call[s].at /\ call'[s].vm = call[s].vm
        BY <2>0, <3>1 DEF CallType
      <3> QED
        BY <1>0, <1>1, <2>5, <3>2, Numbers DEF CallSound, CacheGet
    <2>6. ASSUME FindKey(s), call'[s].pc # "judged" PROVE CallSound(call[s])'
      <3>1. /\ call'[s] = [call[s] EXCEPT !.pc = "read", !.verdict = Truth(row, now)]
            /\ Truth(row, now) # Denied
        <4>1. Truth(row, now) = Denied => call'[s] = Judged(call[s], Truth(row, now))
          BY <2>6 DEF FindKey, TypeOK
        <4>2. Truth(row, now) # Denied
          <5>1. Truth(row, now) \in Verdicts
            BY TruthTyped DEF TypeOK
          <5>2. Judged(call[s], Truth(row, now)).pc \in {"idle", "judged"}
            BY <2>0, <5>1, JudgedTyped
          <5> QED
            BY <2>6, <4>1, <5>2
        <4> QED
          BY <2>6, <4>2 DEF FindKey, TypeOK
      <3>2. /\ call'[s].pc = "read" /\ call'[s].at = call[s].at /\ call'[s].vm = call[s].vm
            /\ call'[s].verdict = Truth(row, now) /\ call'[s].verdict \in Verdicts
        BY <2>0, <3>1, TruthTyped DEF CallType, TypeOK
      <3>3. lastTrue[call'[s].verdict] = now
        BY <3>2 DEF ClockInv
      <3> QED
        BY <1>0, <1>1, <2>6, <3>1, <3>2, <3>3, Numbers DEF CallSound, FindKey
    <2>7. CASE CacheSet(s)
      <3>1. call'[s] = [call[s] EXCEPT !.pc = "judged", !.verdict = call[s].verdict,
                                       !.overlapped = FALSE]
        BY <2>0, <2>7, JudgedTyped, NoCallTyped, Numbers DEF CacheSet, TypeOK
      <3>2. /\ call'[s].pc = "judged" /\ call'[s].verdict = call[s].verdict
            /\ call'[s].at = call[s].at /\ call'[s].vm = call[s].vm
        BY <2>0, <3>1 DEF CallType
      <3>3. call[s].pc = "read"
        BY <2>7 DEF CacheSet
      <3> QED
        BY <1>0, <1>1, <3>2, <3>3, Numbers DEF CallSound
    <2>8. ASSUME NEW a \in Admins, Commit(a) PROVE CallSound(call[s])'
      <3>1. call'[s] = [call[s] EXCEPT !.overlapped = @ \/ call[s].pc = "read"]
        BY <2>8 DEF Commit
      <3>2. /\ call'[s].pc = call[s].pc /\ call'[s].vm = call[s].vm
            /\ call'[s].at = call[s].at /\ call'[s].verdict = call[s].verdict
        BY <2>0, <3>1 DEF CallType
      <3> QED
        BY <1>1, <3>2, SoundLasts DEF CallSound
    <2>9. CASE Answer(s) \/ Abort(s)
      BY <2>9, NoCallTyped DEF Answer, Abort, TypeOK
    <2>10. \/ call'[s] = call[s]
           \/ \E w \in VMs : Dispatch(s, w)
           \/ GiveUp(s) \/ CacheGet(s) \/ FindKey(s) \/ CacheSet(s)
           \/ Answer(s) \/ Abort(s)
           \/ \E a \in Admins : Commit(a)
      <3>1. ASSUME NEW t \in Slots, Verification(t), t # s PROVE call'[s] = call[s]
        BY <3>1 DEF Verification, Dispatch, GiveUp, Answer, CacheGet, FindKey, CacheSet,
                    Abort, TypeOK
      <3>2. ASSUME NEW a \in Admins, Management(a) PROVE Commit(a) \/ call' = call
        BY <3>2 DEF Management, Check, NotFound, Invalidate
      <3>3. ASSUME Expire \/ Tick \/ UNCHANGED vars PROVE call' = call
        BY <3>3 DEF Expire, Tick, vars
      <3> QED
        BY <3>1, <3>2, <3>3 DEF Next, Verification
    <2> QED
      BY <2>1, <2>2, <2>3, <2>4, <2>5, <2>6, <2>7, <2>8, <2>9, <2>10
  <1> QED
    BY <1>2 DEF CallSound, CallInv

LEMMA VMBound ==
    ASSUME IInv, [Next]_vars
    PROVE  VMInv'
  <1> USE DEF IInv
  <1>0. /\ now' \in Nat /\ now \in Nat /\ now <= now'
        /\ \A v \in Verdicts : /\ lastTrue[v] \in Int /\ lastTrue'[v] \in Int
                              /\ lastTrue[v] <= lastTrue'[v]
    BY HistoryGrows
  <1>1. CASE vm' = vm
    BY <1>0, <1>1, Numbers DEF VMInv
  <1>2. ASSUME NEW s \in Slots, Answer(s) PROVE VMInv'
    <2> DEFINE u == call[s].vm
               v == call[s].verdict
    <2>1. u \in VMs /\ v \in Verdicts /\ call[s].at \in Nat
      BY <1>2, Numbers DEF Answer, CallInv
    <2>2. vm' = [vm EXCEPT ![u] = Store(vm[u], v)]
      BY <1>2 DEF Answer
    <2>3. Store(vm[u], v) \in {vm[u], [verdict |-> v, fetchedAt |-> now]}
      BY <2>1, EntryTyped DEF TypeOK
    <2>4. now <= lastTrue[v] + VerifyTimeout
                 + (IF v = Denied THEN 0 ELSE VerifyDeadline + RedisTTL)
      BY <1>0, <1>2, <2>1, Numbers DEF Answer, CallInv
    <2> SUFFICES ASSUME NEW w \in VMs, vm'[w] # None
                 PROVE  vm'[w].fetchedAt <= lastTrue'[vm'[w].verdict] + VerifyTimeout
                           + (IF vm'[w].verdict = Denied THEN 0
                              ELSE VerifyDeadline + RedisTTL)
      BY DEF VMInv
    <2>5. CASE vm'[w] = vm[w]
      BY <1>0, <2>5, Numbers DEF VMInv
    <2>6. CASE vm'[w] = [verdict |-> v, fetchedAt |-> now]
      <3>1. vm'[w].verdict = v /\ vm'[w].fetchedAt = now
        BY <2>6
      <3> QED
        BY <1>0, <2>1, <2>4, <3>1, Numbers
    <2> QED
      BY <2>2, <2>3, <2>5, <2>6 DEF TypeOK
  <1>3. vm' = vm \/ \E s \in Slots : Answer(s)
    BY DEF Next, vars, Verification, Dispatch, GiveUp, CacheGet, FindKey, CacheSet,
           Abort, Management, Check, Commit, NotFound, Invalidate, Expire, Tick
  <1> QED
    BY <1>1, <1>2, <1>3

-----------------------------------------------------------------------------
LEMMA Inductive == Spec => []IInv
  <1>1. Init => IInv
    <2> SUFFICES ASSUME Init PROVE IInv
      OBVIOUS
    <2>1. TypeOK /\ AdminInv
      BY TypedInit
    <2>2. ClockInv
      <3>1. Truth(row, now) = row.policy /\ row.policy \in Verdicts /\ now = 0
        <4>1. /\ now = 0 /\ row.state = "live" /\ row.policy \in Policies
              /\ row.expires \in Expiries
          BY DEF Init
        <4>2. \A e \in Expiries : 0 <= e
          BY ConstantsAssumption
        <4>3. now <= row.expires
          BY <4>1, <4>2
        <4> QED
          BY <4>1, <4>3 DEF Truth, Verdicts
      <3>2. Never \in Int /\ Never <= 0
        BY ConstantsAssumption DEF Never, Propagation
      <3> QED
        BY <3>1, <3>2 DEF Init, ClockInv
    <2>3. CallInv /\ RedisInv /\ VMInv
      BY NoCallTyped DEF Init, CallInv, RedisInv, VMInv
    <2> QED
      BY <2>1, <2>2, <2>3 DEF IInv
  <1>2. IInv /\ [Next]_vars => IInv'
    BY TypedNext, HistoryGrows, RedisBound, CallBound, VMBound DEF IInv
  <1> QED
    BY <1>1, <1>2, PTL DEF Spec

\* Every value of the state has its type, the histories included.
THEOREM TypeCorrect == Spec => []TypeOK
  BY Inductive, PTL DEF IInv

\* A revoked, expired, deleted or changed key is admitted on its old terms no
\* longer than the Redis TTL, the platform's deadline, the plugin's wait and
\* the worker's TTL together (VerifyAPIKey, storeVerdict, cachedVerdict).
THEOREM AdmissionsFresh == Spec => []StalenessBounded
  <1>1. IInv => StalenessBounded
    <2> SUFFICES ASSUME IInv, NEW w \in VMs, Reuses(w), vm[w].verdict # Denied
                 PROVE  now <= lastTrue[vm[w].verdict] + Propagation
      BY DEF StalenessBounded
    <2>1. /\ now \in Nat /\ vm[w] # None /\ vm[w].verdict \in Verdicts
          /\ vm[w].fetchedAt \in Nat /\ now - vm[w].fetchedAt <= WasmTTL
      BY Numbers DEF IInv, TypeOK, Times, Reuses
    <2>2. lastTrue[vm[w].verdict] \in Int
      BY <2>1, ConstantsAssumption DEF IInv, TypeOK, Times, Never, Propagation
    <2>3. vm[w].fetchedAt <= lastTrue[vm[w].verdict] + VerifyTimeout
                             + (VerifyDeadline + RedisTTL)
      BY <2>1 DEF IInv, VMInv
    <2> QED
      BY <2>1, <2>2, <2>3, ConstantsAssumption DEF Propagation
  <1> QED
    BY <1>1, Inductive, PTL

\* A rejection is reused no longer than the plugin's wait and the worker's
\* TTL, whatever Redis does: VerifyAPIKey caches no rejection there.
THEOREM RejectionsFresh == Spec => []RejectionsBounded
  <1>1. IInv => RejectionsBounded
    <2> SUFFICES ASSUME IInv, NEW w \in VMs, Reuses(w), vm[w].verdict = Denied
                 PROVE  now <= lastTrue[Denied] + VerifyTimeout + WasmTTL
      BY DEF RejectionsBounded
    <2>1. /\ now \in Nat /\ vm[w] # None /\ Denied \in Verdicts
          /\ vm[w].fetchedAt \in Nat /\ now - vm[w].fetchedAt <= WasmTTL
      BY Numbers DEF IInv, TypeOK, Times, Reuses
    <2>2. lastTrue[Denied] \in Int
      BY <2>1, ConstantsAssumption DEF IInv, TypeOK, Times, Never, Propagation
    <2>3. vm[w].fetchedAt <= lastTrue[Denied] + VerifyTimeout
      BY <2>1, <2>2, ConstantsAssumption DEF IInv, VMInv
    <2> QED
      BY <2>1, <2>2, <2>3, ConstantsAssumption
  <1> QED
    BY <1>1, Inductive, PTL

-----------------------------------------------------------------------------
(* What a delete of the Redis entry guarantees. *)

LEMMA ReadsSound ==
    ASSUME IInv, ReadInv, [Next]_vars
    PROVE  ReadInv'
  <1> USE DEF IInv
  <1> SUFFICES ASSUME NEW s \in Slots, call'[s].pc = "read", ~call'[s].overlapped
               PROVE  row'.state = "live" /\ call'[s].verdict = row'.policy
    BY DEF ReadInv
  <1>0. call[s] \in CallType
    BY DEF TypeOK
  <1>1. ASSUME NEW a \in Admins, Commit(a) PROVE FALSE
    <2>1. call'[s] = [call[s] EXCEPT !.overlapped = @ \/ call[s].pc = "read"]
      BY <1>1 DEF Commit
    <2>2. call'[s].pc = call[s].pc
      BY <1>0, <2>1 DEF CallType
    <2>3. call'[s].overlapped = (call[s].overlapped \/ call[s].pc = "read")
      BY <1>0, <2>1 DEF CallType
    <2> QED
      BY <2>2, <2>3
  <1>2. ASSUME row' = row PROVE row'.state = "live" /\ call'[s].verdict = row'.policy
    <2>1. CASE call'[s] = call[s]
      BY <1>2, <2>1 DEF ReadInv
    <2>2. CASE FindKey(s)
      <3>1. Truth(row, now) \in Verdicts
        BY TruthTyped DEF TypeOK
      <3>2. Truth(row, now) # Denied
        <4>1. Truth(row, now) = Denied => call'[s] = Judged(call[s], Truth(row, now))
          BY <2>2 DEF FindKey, TypeOK
        <4>2. Judged(call[s], Truth(row, now)).pc \in {"idle", "judged"}
          BY <1>0, <3>1, JudgedTyped
        <4> QED
          BY <4>1, <4>2
      <3>3. call'[s] = [call[s] EXCEPT !.pc = "read", !.verdict = Truth(row, now)]
        BY <2>2, <3>2 DEF FindKey, TypeOK
      <3>4. call'[s].verdict = Truth(row, now)
        BY <1>0, <3>3 DEF CallType
      <3> QED
        BY <1>2, <3>2, <3>4, TruthTyped DEF TypeOK
    <2>3. ASSUME NEW w \in VMs, Dispatch(s, w) PROVE FALSE
      <3>1. call'[s] = [NoCall EXCEPT !.pc = "asked", !.at = now, !.vm = w, !.waiting = TRUE]
        BY <2>3 DEF Dispatch, TypeOK
      <3>2. call'[s].pc = "asked"
        BY <3>1 DEF NoCall
      <3> QED
        BY <3>2
    <2>4. CASE GiveUp(s)
      <3>1. call'[s] = [call[s] EXCEPT !.waiting = FALSE]
        BY <1>0, <2>4, NoCallTyped DEF GiveUp, TypeOK
      <3>2. /\ call'[s].pc = call[s].pc /\ call'[s].verdict = call[s].verdict
            /\ call'[s].overlapped = call[s].overlapped
        BY <1>0, <3>1 DEF CallType
      <3> QED
        BY <1>2, <3>2 DEF ReadInv
    <2>5. CASE CacheGet(s)
      <3>1. redis # None => call'[s] = Judged(call[s], redis.verdict)
        BY <2>5 DEF CacheGet, TypeOK
      <3>2. redis = None => call'[s] = [call[s] EXCEPT !.pc = "missed"]
        BY <2>5 DEF CacheGet, TypeOK
      <3>3. call'[s].pc # "read"
        BY <1>0, <3>1, <3>2, JudgedTyped, Numbers DEF CallType
      <3> QED
        BY <3>3
    <2>6. CASE CacheSet(s)
      <3>1. call'[s] = Judged(call[s], call[s].verdict)
        BY <2>6 DEF CacheSet, TypeOK
      <3> QED
        BY <1>0, <3>1, JudgedTyped, Numbers
    <2>7. CASE Answer(s) \/ Abort(s)
      BY <2>7, NoCallTyped DEF Answer, Abort, TypeOK
    <2>8. \/ call'[s] = call[s]
          \/ \E w \in VMs : Dispatch(s, w)
          \/ GiveUp(s) \/ CacheGet(s) \/ FindKey(s) \/ CacheSet(s)
          \/ Answer(s) \/ Abort(s)
      <3>1. ASSUME NEW t \in Slots, Verification(t), t # s PROVE call'[s] = call[s]
        BY <3>1 DEF Verification, Dispatch, GiveUp, Answer, CacheGet, FindKey, CacheSet,
                    Abort, TypeOK
      <3>2. ASSUME NEW a \in Admins, Management(a) PROVE call' = call
        BY <1>1, <3>2 DEF Management, Check, NotFound, Invalidate
      <3>3. ASSUME Expire \/ Tick \/ UNCHANGED vars PROVE call' = call
        BY <3>3 DEF Expire, Tick, vars
      <3> QED
        BY <3>1, <3>2, <3>3 DEF Next, Verification
    <2> QED
      BY <2>1, <2>2, <2>3, <2>4, <2>5, <2>6, <2>7, <2>8
  <1>3. row' = row \/ \E a \in Admins : Commit(a)
    BY DEF Next, vars, Verification, Dispatch, GiveUp, Answer, CacheGet, FindKey, CacheSet,
           Abort, Management, Check, NotFound, Invalidate, Expire, Tick
  <1> QED
    BY <1>1, <1>2, <1>3

LEMMA InvalidationLasts ==
    ASSUME IInv, ReadInv, InvalidationHolds, [Next]_vars
    PROVE  InvalidationHolds'
  <1> USE DEF IInv
  <1> DEFINE Pending == \E a \in Admins : admin[a].pc = "committed"
  <1> SUFFICES ASSUME redis' # None, redis'.clean, ~Pending'
               PROVE  row'.state = "live" /\ redis'.verdict = row'.policy
    BY DEF InvalidationHolds
  <1>1. ASSUME NEW a \in Admins, Invalidate(a) PROVE FALSE
    BY <1>1, SoiledTyped DEF Invalidate, TypeOK
  <1>2. ASSUME NEW a \in Admins, Commit(a) PROVE FALSE
    <2>1. admin[a].pc = "checked" /\ admin[a] \in AdminType
      BY <1>2 DEF Commit, TypeOK
    <2>2. CASE ~ReturnsEarly(admin[a].req)
      <3>1. admin'[a] = [admin[a] EXCEPT !.pc = "committed"]
        BY <1>2, <2>2 DEF Commit, TypeOK
      <3>2. admin'[a].pc = "committed"
        BY <2>1, <3>1 DEF AdminType
      <3> QED
        BY <3>2
    <2>3. CASE ReturnsEarly(admin[a].req)
      <3>1. admin' = [admin EXCEPT ![a] = NoAdmin]
        BY <1>2, <2>3 DEF Commit
      <3>2. ~Pending
        BY <2>1, <3>1 DEF TypeOK, NoAdmin
      <3>3. redis # None /\ redis.clean
        BY <1>2 DEF Commit
      <3> QED
        BY <2>3, <3>2, <3>3 DEF ReturnsEarly, InvalidationHolds
    <2> QED
      BY <2>2, <2>3
  <1>3. ASSUME NEW s \in Slots, CacheSet(s), redis' # redis
        PROVE row'.state = "live" /\ redis'.verdict = row'.policy
    <2>1. /\ redis' = [verdict |-> call[s].verdict, until |-> now + RedisTTL,
                       clean |-> ~call[s].overlapped]
          /\ call[s].pc = "read" /\ row' = row
      BY <1>3 DEF CacheSet
    <2>2. redis'.clean = ~call[s].overlapped /\ redis'.verdict = call[s].verdict
      BY <2>1
    <2> QED
      BY <2>1, <2>2 DEF ReadInv
  <1>4. ASSUME redis' = redis, row' = row, Pending' = Pending
        PROVE  row'.state = "live" /\ redis'.verdict = row'.policy
    BY <1>4 DEF InvalidationHolds
  <1>5. \/ \E a \in Admins : Invalidate(a)
        \/ \E a \in Admins : Commit(a)
        \/ \E s \in Slots : CacheSet(s) /\ redis' # redis
        \/ redis' = redis /\ row' = row /\ Pending' = Pending
    <2>1. ASSUME NEW s \in Slots, Verification(s)
          PROVE  \/ CacheSet(s) /\ redis' # redis
                 \/ redis' = redis /\ row' = row /\ Pending' = Pending
      BY <2>1 DEF Verification, Dispatch, GiveUp, Answer, CacheGet, FindKey, CacheSet, Abort
    <2>2. ASSUME NEW a \in Admins, NotFound(a) \/ \E r \in Requests : Check(a, r)
          PROVE  redis' = redis /\ row' = row /\ Pending' = Pending
      <3>1. /\ redis' = redis /\ row' = row
            /\ admin[a].pc # "committed" /\ admin'[a].pc # "committed"
            /\ \A b \in Admins : b # a => admin'[b] = admin[b]
        BY <2>2 DEF NotFound, Check, TypeOK, NoAdmin
      <3> QED
        BY <3>1
    <2>3. CASE Expire
      BY <2>3 DEF Expire
    <2>4. CASE Tick \/ UNCHANGED vars
      BY <2>4 DEF Tick, vars
    <2> QED
      BY <2>1, <2>2, <2>3, <2>4 DEF Next, Management
  <1> QED
    BY <1>1, <1>2, <1>3, <1>4, <1>5

\* An entry of Redis outlives a change of the key only if a verification
\* read the row before the change, or a delete was lost: the management
\* calls delete it after they commit.
THEOREM DeletesInvalidate == Spec => []InvalidationHolds
  <1>1. Init => ReadInv /\ InvalidationHolds
    BY NoCallTyped DEF Init, ReadInv, InvalidationHolds
  <1>2. IInv /\ ReadInv /\ InvalidationHolds /\ [Next]_vars => ReadInv' /\ InvalidationHolds'
    BY ReadsSound, InvalidationLasts
  <1> QED
    BY <1>1, <1>2, Inductive, PTL DEF Spec
=============================================================================
