------------------------------ MODULE KeyCache ------------------------------
(* How a change of an API key reaches the gateway.  The platform verifies  *)
(* a key through a positive cache in Redis (services/auth/service.go,      *)
(* VerifyAPIKey); every WASM worker of the gateway keeps the platform's    *)
(* answers, rejections included, in its own shared data                    *)
(* (wasm/gateway/plugin.go).  An administrator's call commits the row and  *)
(* then deletes the Redis entry; nothing reaches the workers.              *)
(*                                                                         *)
(* One key and one model are followed: both caches are keyed by them.      *)
(* What a verdict carries (limits, owner, model scope) is a policy.        *)
EXTENDS Integers

CONSTANTS
    Slots,          \* verification calls the gateway may have in flight
    VMs,            \* WASM workers: shared data is per VM
    Admins,         \* goroutines of the key management calls
    Policies,       \* what a valid key may do
    Expiries,       \* the expiries keys are given; MaxTime is none
    Denied,         \* the rejection of a revoked, expired or unknown key
    None,           \* no cache entry
    RedisTTL,       \* Auth.APIKeyCacheTTL
    WasmTTL,        \* CacheTTLMs, in the seconds it is compared in
    VerifyTimeout,  \* VerifyTimeoutMs: how long the plugin waits
    VerifyDeadline, \* gatewayVerifyDeadline: how long the platform works
    Reserving,      \* the funds gate reserves: an admission is not reused
    MaxTime,        \* bound on the clock
    MaxChanges,     \* bound on the management calls
    MaxFaults       \* bound on failed writes to Redis

ASSUME ConstantsAssumption ==
    /\ {RedisTTL, WasmTTL, VerifyTimeout, VerifyDeadline} \subseteq Nat
    /\ {MaxTime, MaxChanges, MaxFaults} \subseteq Nat
    /\ Expiries \subseteq 0 .. MaxTime
    /\ Denied \notin Policies
    /\ None \notin Policies \cup {Denied}
    /\ Reserving \in BOOLEAN

VARIABLES
    row,        \* the key's row in api_keys
    redis,      \* the entry of the key's digest
    vm,         \* each worker's entry for the key and the model
    call,       \* the verification calls
    admin,      \* the management calls
    now,
    lastTrue,   \* history: when the row last deserved each verdict
    changes,
    faults

vars == <<row, redis, vm, call, admin, now, lastTrue, changes, faults>>

-----------------------------------------------------------------------------
Verdicts == Policies \cup {Denied}
Times == 0 .. MaxTime

Rows == [state : {"live", "revoked", "deleted"}, policy : Policies,
         expires : Expiries]

\* clean: no change of the row committed between the read and the write of
\* the entry, and no delete of the entry was lost since.
RedisEntries == [verdict : Policies, until : Nat, clean : BOOLEAN]

VMEntries == [verdict : Verdicts, fetchedAt : Times]

NoCall == [pc |-> "idle", at |-> 0, vm |-> None, waiting |-> FALSE,
           verdict |-> Denied, overlapped |-> FALSE]

CallType == [pc : {"idle", "asked", "missed", "read", "judged"}, at : Times,
             vm : VMs \cup {None}, waiting : BOOLEAN, verdict : Verdicts,
             overlapped : BOOLEAN]

Ops == {"revoke", "restore", "delete", "update", "scope", "ownership"}
Requests == [op : Ops, policy : Policies, expires : Expiries]
AdminType == [pc : {"idle", "checked", "committed"}, req : Requests \cup {None}]
NoAdmin == [pc |-> "idle", req |-> None]

\* What a row deserves: VerifyAPIKey's checks, in order.
Truth(r, t) == IF r.state = "live" /\ t <= r.expires THEN r.policy ELSE Denied

\* The longest a change of the key may stay unknown to the gateway.
Propagation == RedisTTL + VerifyDeadline + VerifyTimeout + WasmTTL
Never == -(Propagation + 1)

Record == lastTrue' = [lastTrue EXCEPT ![Truth(row', now')] = now']

Fault == faults < MaxFaults /\ faults' = faults + 1
NoFault == UNCHANGED faults

TypeOK ==
    /\ row \in Rows
    /\ redis \in RedisEntries \cup {None}
    /\ vm \in [VMs -> VMEntries \cup {None}]
    /\ call \in [Slots -> CallType]
    /\ admin \in [Admins -> AdminType]
    /\ now \in Times
    /\ lastTrue \in [Verdicts -> Times \cup {Never}]
    /\ changes \in 0 .. MaxChanges
    /\ faults \in 0 .. MaxFaults

Init ==
    /\ row \in [state : {"live"}, policy : Policies, expires : Expiries]
    /\ redis = None
    /\ vm = [w \in VMs |-> None]
    /\ call = [s \in Slots |-> NoCall]
    /\ admin = [a \in Admins |-> NoAdmin]
    /\ now = 0
    /\ lastTrue = [v \in Verdicts |-> IF v = row.policy THEN 0 ELSE Never]
    /\ changes = 0 /\ faults = 0

-----------------------------------------------------------------------------
(* The gateway plugin *)

\* cachedVerdict: a worker reuses its entry, a rejection as well.
Reuses(w) == vm[w] # None /\ now - vm[w].fetchedAt <= WasmTTL

\* A request whose worker has no fresh entry asks the platform.
Dispatch(s, w) ==
    /\ call[s].pc = "idle" /\ ~Reuses(w)
    /\ call' = [call EXCEPT ![s] = [NoCall EXCEPT !.pc = "asked", !.at = now,
                                                  !.vm = w, !.waiting = TRUE]]
    /\ UNCHANGED <<row, redis, vm, admin, now, lastTrue, changes, faults>>

\* Envoy's timeout: the request gets a 503, the platform may still work.
GiveUp(s) ==
    /\ call[s].waiting /\ now >= call[s].at + VerifyTimeout
    /\ call' = [call EXCEPT ![s] =
                  IF @.pc = "judged" THEN NoCall ELSE [@ EXCEPT !.waiting = FALSE]]
    /\ UNCHANGED <<row, redis, vm, admin, now, lastTrue, changes, faults>>

\* storeVerdict: an admission that reserved funds is for one request only.
Store(entry, v) ==
    IF Reserving /\ v # Denied THEN entry ELSE [verdict |-> v, fetchedAt |-> now]

\* OnHttpCallResponse with an answer.
Answer(s) ==
    /\ call[s].pc = "judged" /\ now <= call[s].at + VerifyTimeout
    /\ vm' = [vm EXCEPT ![call[s].vm] = Store(@, call[s].verdict)]
    /\ call' = [call EXCEPT ![s] = NoCall]
    /\ UNCHANGED <<row, redis, admin, now, lastTrue, changes, faults>>

-----------------------------------------------------------------------------
(* VerifyAPIKey on the platform *)

\* The handler works on in a context of its own.
WorkingUnbounded(s) == call[s].at <= now

\* The handler's context is alive.
Working(s) == now <= call[s].at + VerifyDeadline

\* The platform has its verdict; nobody waits for it after a timeout.
Judged(c, v) ==
    IF c.waiting THEN [c EXCEPT !.pc = "judged", !.verdict = v, !.overlapped = FALSE]
    ELSE NoCall

\* A Redis error fails closed: see Abort.
CacheGet(s) ==
    /\ call[s].pc = "asked" /\ Working(s)
    /\ call' = IF redis = None
               THEN [call EXCEPT ![s].pc = "missed"]
               ELSE [call EXCEPT ![s] = Judged(@, redis.verdict)]
    /\ UNCHANGED <<row, redis, vm, admin, now, lastTrue, changes, faults>>

\* Rejections are cached like the other verdicts.
FindKeyCachingRejections(s) ==
    /\ call[s].pc = "missed" /\ Working(s)
    /\ call' = [call EXCEPT ![s].pc = "read", ![s].verdict = Truth(row, now)]
    /\ UNCHANGED <<row, redis, vm, admin, now, lastTrue, changes, faults>>

\* A rejection is answered at once: only positive verdicts are cached.
FindKey(s) ==
    /\ call[s].pc = "missed" /\ Working(s)
    /\ LET v == Truth(row, now)
       IN call' = [call EXCEPT ![s] =
                     IF v = Denied THEN Judged(@, v)
                     ELSE [@ EXCEPT !.pc = "read", !.verdict = v]]
    /\ UNCHANGED <<row, redis, vm, admin, now, lastTrue, changes, faults>>

\* A failed write is only logged.
CacheSet(s) ==
    /\ call[s].pc = "read" /\ Working(s)
    /\ \/ /\ redis' = [verdict |-> call[s].verdict, until |-> now + RedisTTL,
                       clean |-> ~call[s].overlapped]
          /\ NoFault
       \/ Fault /\ UNCHANGED redis
    /\ call' = [call EXCEPT ![s] = Judged(@, @.verdict)]
    /\ UNCHANGED <<row, vm, admin, now, lastTrue, changes>>

\* Redis, the database or the platform fails, or the deadline passes: 503,
\* never an admission.
Abort(s) ==
    /\ call[s].pc # "idle"
    /\ call' = [call EXCEPT ![s] = NoCall]
    /\ UNCHANGED <<row, redis, vm, admin, now, lastTrue, changes, faults>>

-----------------------------------------------------------------------------
(* Key management: RevokeAPIKey, RestoreAPIKey, DeleteAPIKey, UpdateAPIKey, *)
(* UpdateAPIKeyScope and UpdateAPIKeyOwnership                             *)

\* requireKeyManage, and the checks made on the row it read.
Check(a, r) ==
    /\ admin[a].pc = "idle" /\ changes < MaxChanges
    /\ row.state # "deleted"
    /\ r.op = "restore" => now <= row.expires
    /\ r.op = "update" => now < r.expires
    /\ r.op # "update" => r.expires = row.expires
    /\ r.op \in {"revoke", "restore", "delete"} => r.policy = row.policy
    /\ admin' = [admin EXCEPT ![a] = [pc |-> "checked", req |-> r]]
    /\ changes' = changes + 1
    /\ UNCHANGED <<row, redis, vm, call, now, lastTrue, faults>>

\* The columns each call's UPDATE names.
Changed(r) ==
    CASE r.op = "revoke" -> [row EXCEPT !.state = "revoked"]
      [] r.op = "restore" -> [row EXCEPT !.state = "live"]
      [] r.op = "delete" -> [row EXCEPT !.state = "deleted"]
      [] r.op = "update" -> [row EXCEPT !.policy = r.policy, !.expires = r.expires]
      [] OTHER -> [row EXCEPT !.policy = r.policy]

\* UpdateAPIKeyScope leaves the cache alone.
ReturnsEarlyAlways(r) == r.op = "scope"

\* UpdateAPIKeyScope answers an error for a revoked key, after the commit.
ReturnsEarly(r) == r.op = "scope" /\ row.state = "revoked"

Commit(a) ==
    /\ admin[a].pc = "checked" /\ row.state # "deleted"
    /\ row' = Changed(admin[a].req)
    /\ admin' = [admin EXCEPT ![a] =
                   IF ReturnsEarly(@.req) THEN NoAdmin ELSE [@ EXCEPT !.pc = "committed"]]
    /\ call' = [s \in Slots |-> [call[s] EXCEPT !.overlapped = @ \/ call[s].pc = "read"]]
    /\ UNCHANGED <<redis, vm, now, changes, faults>>
    /\ Record

\* The row is gone: "not found", and the cache is left alone.
NotFound(a) ==
    /\ admin[a].pc = "checked" /\ row.state = "deleted"
    /\ admin' = [admin EXCEPT ![a] = NoAdmin]
    /\ UNCHANGED <<row, redis, vm, call, now, lastTrue, changes, faults>>

Soiled(entry) == IF entry = None THEN None ELSE [entry EXCEPT !.clean = FALSE]

\* cache.Delete; its failure, or a crash before it, changes nothing else.
Invalidate(a) ==
    /\ admin[a].pc = "committed"
    /\ \/ redis' = None /\ NoFault
       \/ redis' = Soiled(redis) /\ Fault
    /\ admin' = [admin EXCEPT ![a] = NoAdmin]
    /\ UNCHANGED <<row, vm, call, now, lastTrue, changes>>

-----------------------------------------------------------------------------
\* Redis drops an entry whose TTL has passed, before the next tick.
Expire ==
    /\ redis # None /\ now >= redis.until
    /\ redis' = None
    /\ UNCHANGED <<row, vm, call, admin, now, lastTrue, changes, faults>>

Tick ==
    /\ now < MaxTime
    /\ redis # None => now < redis.until
    /\ now' = now + 1
    /\ UNCHANGED <<row, redis, vm, call, admin, changes, faults>>
    /\ Record

Verification(s) ==
    \/ \E w \in VMs : Dispatch(s, w)
    \/ GiveUp(s)
    \/ Answer(s)
    \/ CacheGet(s)
    \/ FindKey(s)
    \/ CacheSet(s)
    \/ Abort(s)

Management(a) ==
    \/ \E r \in Requests : Check(a, r)
    \/ Commit(a)
    \/ NotFound(a)
    \/ Invalidate(a)

Next ==
    \/ \E s \in Slots : Verification(s)
    \/ \E a \in Admins : Management(a)
    \/ Expire
    \/ Tick

Spec == Init /\ [][Next]_vars

-----------------------------------------------------------------------------
(* Properties *)

\* An admission a worker still reuses was deserved no longer ago than the
\* two TTLs and the two time limits of a call together: a verification that
\* was slow, a Redis delete that failed and calls that overlap change
\* nothing about it.
StalenessBounded ==
    \A w \in VMs :
        Reuses(w) /\ vm[w].verdict # Denied
        => now <= lastTrue[vm[w].verdict] + Propagation

\* A rejection is never served longer than the worker's TTL and the wait for
\* the answer: Redis holds no rejections, so a restored key works again
\* sooner than a revoked key stops working.
RejectionsBounded ==
    \A w \in VMs :
        Reuses(w) /\ vm[w].verdict = Denied
        => now <= lastTrue[Denied] + VerifyTimeout + WasmTTL

\* Once every change's delete of the Redis entry is through, Redis holds
\* nothing but what the row says, unless a verification read the row before
\* the change and wrote after the delete, or a delete was lost.
InvalidationHolds ==
    redis # None /\ redis.clean /\ (\A a \in Admins : admin[a].pc # "committed")
    => row.state = "live" /\ redis.verdict = row.policy
=============================================================================
