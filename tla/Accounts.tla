------------------------------ MODULE Accounts ------------------------------
(* The funding side of the billing service (services/billing): accounts,   *)
(* their append-only ledger with its idempotency keys, operator movements  *)
(* (Recharge, Refund, RechargeOrganization, DebitOrganization), payment    *)
(* intents and the auto-recharge runner.                                   *)
(*                                                                         *)
(* A call is a goroutine that validates a request against the account it   *)
(* reads, and then runs AccountRepository.Recharge: look the key up, read  *)
(* the account, write the balance under its version guard, re-read and     *)
(* retry on a conflict, insert the row.  The UPDATE locks the account row  *)
(* until the commit, so the write, the INSERT and the commit are one step; *)
(* everything between two statements before it is open to other calls.     *)
EXTENDS Integers, FiniteSets

CONSTANTS
    Accounts,    \* one per organization
    Keys,        \* idempotency keys of operators and callers
    Charges,     \* charge ids
    Intents,     \* payment intents created through the API
    Amounts,     \* cents of a movement
    Clients,     \* request goroutines, over all replicas
    Runners,     \* auto-recharge runners, one per replica
    Threshold,   \* auto_recharge_threshold_cents
    TopUp,       \* auto_recharge_topup_cents
    MaxRetries,  \* maxBalanceRetries
    MaxTime,     \* bound on the clock
    MaxCalls,    \* bound on requests
    MaxFaults    \* bound on failed statements and crashes

Times == 0 .. MaxTime

\* The runner's intents are keyed by account and second.
AllIntents == Intents \cup (Accounts \X Times)

OpeningKey(a) == <<"opening", a>>
PaymentKey(i) == <<"payment", i>>
ChargeKey(g) == <<"charge", g>>

SystemKeys == {OpeningKey(a) : a \in Accounts}
                \cup {PaymentKey(i) : i \in AllIntents}
                \cup {ChargeKey(g) : g \in Charges}

LedgerKeys == Keys \cup SystemKeys

\* Callers do not choose keys of the form "payment:..." or "charge:...".
ASSUME ConstantsAssumption ==
    /\ Amounts \subseteq Nat \ {0}
    /\ {Threshold, MaxTime, MaxCalls, MaxFaults} \subseteq Nat
    /\ {TopUp, MaxRetries} \subseteq Nat \ {0}
    /\ Keys \cap SystemKeys = {}

VARIABLES
    now,
    account,   \* the accounts table
    ledger,    \* the transactions table: [row, moved, after]
    intent,    \* payment_intents
    call,      \* the call each goroutine is serving
    todo,      \* accounts an auto-recharge pass has still to top up
    answered,  \* history: movements whose caller was told they succeeded
    calls,
    faults

vars == <<now, account, ledger, intent, call, todo, answered, calls, faults>>

-----------------------------------------------------------------------------
Callers == Clients \cup Runners

Movements == [account : Accounts, type : {"recharge", "refund", "deduction"},
              amount : Nat, key : LedgerKeys]

AccountType == [mode : {"none", "prepaid", "postpaid"}, balance : Int,
                version : Nat]

\* The organization has no account.
Closed == [mode |-> "none", balance |-> 0, version |-> 0]
Open(a) == account[a].mode # "none"

Movement(a, type, m, k) == [account |-> a, type |-> type, amount |-> m, key |-> k]

Nobody == <<>>
NoIntent == [status |-> "none", account |-> Nobody, amount |-> 0]
NoMovement == Movement(Nobody, "recharge", 0, Nobody)

\* A call holds the movement it makes ("begin", "read", "write": the statement
\* it is at) or the intent it marks ("mark", "marking").
NoCall == [pc |-> "idle", row |-> NoMovement, read |-> Closed, tries |-> 0,
           intent |-> Nobody]

CallType == [pc : {"idle", "mark", "marking", "begin", "read", "write"},
             row : Movements \cup {NoMovement}, read : AccountType,
             tries : 0 .. MaxRetries, intent : AllIntents \cup {Nobody}]

WellFormed(x) ==
    /\ x.pc \in {"read", "write"} \/ x.tries = 0
    /\ x.pc = "read" => x.tries < MaxRetries
    /\ x.pc \in {"begin", "read", "write"} => x.row \in Movements
    /\ x.pc \in {"mark", "marking"} => x.intent \in AllIntents

TypeOK ==
    /\ now \in Times
    /\ account \in [Accounts -> AccountType]
    /\ ledger \subseteq [row : Movements, moved : Int, after : Int]
    /\ intent \in [AllIntents ->
                     [status : {"none", "pending", "paid"},
                      account : Accounts \cup {Nobody}, amount : Nat]]
    /\ call \in [Callers -> CallType]
    /\ \A c \in Callers :
         /\ WellFormed(call[c])
         /\ call[c].pc \in {"mark", "marking"} =>
              intent[call[c].intent].status # "none"
    /\ \A i \in AllIntents :
         intent[i].status # "none" => intent[i].account \in Accounts
    /\ todo \in [Runners -> SUBSET Accounts]
    /\ answered \subseteq Movements
    /\ calls \in 0 .. MaxCalls
    /\ faults \in 0 .. MaxFaults

Init ==
    /\ now = 0
    /\ account = [a \in Accounts |-> Closed]
    /\ ledger = {}
    /\ intent = [i \in AllIntents |-> NoIntent]
    /\ call = [c \in Callers |-> NoCall]
    /\ todo = [p \in Runners |-> {}]
    /\ answered = {}
    /\ calls = 0
    /\ faults = 0

Tick ==
    /\ now < MaxTime
    /\ now' = now + 1
    /\ UNCHANGED <<account, ledger, intent, call, todo, answered, calls, faults>>

Request == calls < MaxCalls /\ calls' = calls + 1
Fault == faults < MaxFaults /\ faults' = faults + 1

-----------------------------------------------------------------------------
(* Accounts. *)

CreateAccountUnlogged(a, mode, opening) ==
    /\ ~Open(a)
    /\ mode = "postpaid" => opening = 0
    /\ account' = [account EXCEPT ![a].mode = mode, ![a].balance = opening]
    /\ UNCHANGED <<now, ledger, intent, call, todo, answered, calls, faults>>

\* CreateAccount, with an opening balance (its own ledger row) or without;
\* a second creation of an organization's account inserts nothing and fails.
CreateAccount(a, mode, opening) ==
    /\ ~Open(a)
    /\ mode = "postpaid" => opening = 0
    /\ account' = [account EXCEPT ![a].mode = mode, ![a].balance = opening]
    /\ ledger' = IF opening = 0 THEN ledger ELSE ledger \cup
                   {[row   |-> Movement(a, "recharge", opening, OpeningKey(a)),
                     moved |-> opening, after |-> opening]}
    /\ UNCHANGED <<now, intent, call, todo, answered, calls, faults>>

\* UpdateAccount and ResetOnce: guarded writes that do not touch the balance.
UpdateAccount(a, mode) ==
    /\ Open(a)
    /\ Request
    /\ account' = [account EXCEPT ![a].mode = mode, ![a].version = @ + 1]
    /\ UNCHANGED <<now, ledger, intent, call, todo, answered, faults>>

Used(k) == \E e \in ledger : e.row.key = k

\* A settled charge deducts (see module Charging): prepaid pays from the
\* balance, postpaid does not.  A conflicting attempt rolls back.
ApplyDeduction(a, g, m) ==
    /\ Open(a)
    /\ ~Used(ChargeKey(g))
    /\ Request
    /\ LET moved == IF account[a].mode = "prepaid" THEN -m ELSE 0
           after == account[a].balance + moved
       IN  /\ account' = [account EXCEPT ![a].balance = after,
                                         ![a].version = @ + 1]
           /\ ledger' = ledger \cup
                {[row |-> Movement(a, "deduction", m, ChargeKey(g)),
                  moved |-> moved, after |-> after]}
    /\ UNCHANGED <<now, intent, call, todo, answered, faults>>

-----------------------------------------------------------------------------
(* Operator movements: the validation, against the account as it is now. *)

Start(c, row) ==
    /\ call[c].pc = "idle"
    /\ Request
    /\ call' = [call EXCEPT ![c] = [NoCall EXCEPT !.pc = "begin", !.row = row]]

\* Recharge and Refund, for the organization's own prepaid account.
Recharge(c, a, k, m) ==
    /\ account[a].mode = "prepaid"
    /\ Start(c, Movement(a, "recharge", m, k))
    /\ UNCHANGED <<now, account, ledger, intent, todo, answered, faults>>

Refund(c, a, k, m) ==
    /\ account[a].mode = "prepaid"
    /\ Start(c, Movement(a, "refund", m, k))
    /\ UNCHANGED <<now, account, ledger, intent, todo, answered, faults>>

\* The administrator's RechargeOrganization credits any mode, and creates the
\* account when there is none.
RechargeOrganization(c, a, k, m) ==
    /\ account' = [account EXCEPT ![a].mode = IF Open(a) THEN @ ELSE "prepaid"]
    /\ Start(c, Movement(a, "recharge", m, k))
    /\ UNCHANGED <<now, ledger, intent, todo, answered, faults>>

\* DebitOrganization takes no more than the prepaid balance it read.
DebitOrganization(c, a, k, m) ==
    /\ Open(a)
    /\ account[a].mode = "prepaid" => m <= account[a].balance
    /\ Start(c, Movement(a, "refund", m, k))
    /\ UNCHANGED <<now, account, ledger, intent, todo, answered, faults>>

-----------------------------------------------------------------------------
(* AccountRepository.Recharge. *)

Hang(c) == call' = [call EXCEPT ![c] = NoCall]

\* The idempotency lookup found the key: the same movement is answered with
\* the row there is, any other is refused.
SameIgnoringAmount(x, y) == x.account = y.account /\ x.type = y.type
Same(x, y) == x.account = y.account /\ x.type = y.type /\ x.amount = y.amount

Replay(c) ==
    /\ call[c].pc = "begin"
    /\ \E e \in ledger :
         /\ e.row.key = call[c].row.key
         /\ answered' = IF Same(e.row, call[c].row)
                        THEN answered \cup {call[c].row} ELSE answered
    /\ Hang(c)
    /\ UNCHANGED <<now, account, ledger, intent, todo, calls, faults>>

LookUpMiss(c) ==
    /\ call[c].pc = "begin"
    /\ ~Used(call[c].row.key)
    /\ call' = [call EXCEPT ![c].pc = "read"]
    /\ UNCHANGED <<now, account, ledger, intent, todo, answered, calls, faults>>

ReadAccount(c) ==
    /\ call[c].pc = "read"
    /\ call' = [call EXCEPT ![c].pc = "write", ![c].tries = @ + 1,
                            ![c].read = account[call[c].row.account]]
    /\ UNCHANGED <<now, account, ledger, intent, todo, answered, calls, faults>>

Delta(row) == IF row.type = "recharge" THEN row.amount ELSE -row.amount

CurrentAlways(c) == TRUE
Current(c) == account[call[c].row.account].version = call[c].read.version

InsertRowTwice(row, after) ==
    ledger' = ledger \cup {[row |-> row, moved |-> Delta(row), after |-> after]}

\* The unique index refuses a second row of one key.
InsertRow(row, after) ==
    /\ ~Used(row.key)
    /\ ledger' = ledger \cup {[row |-> row, moved |-> Delta(row), after |-> after]}

\* The guarded UPDATE, the INSERT and the commit.
WriteBalance(c) ==
    /\ call[c].pc = "write"
    /\ Current(c)
    /\ LET row   == call[c].row
           after == call[c].read.balance + Delta(row)
       IN  /\ account' = [account EXCEPT ![row.account].balance = after,
                                         ![row.account].version =
                                            call[c].read.version + 1]
           /\ InsertRow(row, after)
           /\ answered' = answered \cup {row}
    /\ Hang(c)
    /\ UNCHANGED <<now, intent, todo, calls, faults>>

\* Another call inserted the key after the lookup: everything rolls back.
DuplicateKey(c) ==
    /\ call[c].pc = "write"
    /\ Current(c)
    /\ Used(call[c].row.key)
    /\ Hang(c)
    /\ UNCHANGED <<now, account, ledger, intent, todo, answered, calls, faults>>

RetryNever(c) ==
    /\ call[c].pc = "write"
    /\ ~Current(c)
    /\ Hang(c)
    /\ UNCHANGED <<now, account, ledger, intent, todo, answered, calls, faults>>

RetryForever(c) ==
    /\ call[c].pc = "write"
    /\ ~Current(c)
    /\ call' = [call EXCEPT ![c].pc = "read"]
    /\ UNCHANGED <<now, account, ledger, intent, todo, answered, calls, faults>>

\* A version conflict: retry with the fresh row, maxBalanceRetries times.
RetryWrite(c) ==
    /\ call[c].pc = "write"
    /\ ~Current(c)
    /\ IF call[c].tries < MaxRetries
       THEN call' = [call EXCEPT ![c].pc = "read"]
       ELSE Hang(c)
    /\ UNCHANGED <<now, account, ledger, intent, todo, answered, calls, faults>>

-----------------------------------------------------------------------------
(* Payment intents. *)

CreatePaymentIntent(i, a, m) ==
    /\ account[a].mode = "prepaid"
    /\ intent[i].status = "none"
    /\ Request
    /\ intent' = [intent EXCEPT ![i] =
                    [status |-> "pending", account |-> a, amount |-> m]]
    /\ UNCHANGED <<now, account, ledger, call, todo, answered, faults>>

\* PayPaymentIntent, up to MarkIntentPaid.  An intent that is paid already
\* is answered as it is.
PayPaymentIntent(c, i) ==
    /\ call[c].pc = "idle"
    /\ intent[i].status = "pending"
    /\ Request
    /\ call' = [call EXCEPT ![c] = [NoCall EXCEPT !.pc = "mark", !.intent = i]]
    /\ UNCHANGED <<now, account, ledger, intent, todo, answered, faults>>

\* MarkIntentPaid's guard is a SELECT, its UPDATE is unguarded: two calls
\* may pass the guard together.
CheckPending(c) ==
    /\ call[c].pc = "mark"
    /\ IF intent[call[c].intent].status = "pending"
       THEN call' = [call EXCEPT ![c].pc = "marking"]
       ELSE Hang(c)
    /\ UNCHANGED <<now, account, ledger, intent, todo, answered, calls, faults>>

PaymentOf(i) ==
    Movement(intent[i].account, "recharge", intent[i].amount, PaymentKey(i))

MarkIntentPaidOnly(c) ==
    /\ call[c].pc = "marking"
    /\ call' = [call EXCEPT ![c].pc = "begin",
                            ![c].row = PaymentOf(call[c].intent)]
    /\ UNCHANGED <<now, account, ledger, intent, todo, answered, calls, faults>>

MarkIntentPaid(c) ==
    /\ call[c].pc = "marking"
    /\ intent' = [intent EXCEPT ![call[c].intent].status = "paid"]
    /\ call' = [call EXCEPT ![c].pc = "begin",
                            ![c].row = PaymentOf(call[c].intent)]
    /\ UNCHANGED <<now, account, ledger, todo, answered, calls, faults>>

-----------------------------------------------------------------------------
(* AutoRechargeRunner. *)

Candidates == {a \in Accounts : /\ account[a].mode = "prepaid"
                                /\ account[a].balance < Threshold}

RunOnce(p) ==
    /\ todo[p] = {} /\ call[p].pc = "idle"
    /\ todo' = [todo EXCEPT ![p] = Candidates]
    /\ UNCHANGED <<now, account, ledger, intent, call, answered, calls, faults>>

\* autoRechargeOne: a fresh intent, paid at once.  A second intent of the
\* same account and second violates the unique key, and the top-up fails.
AutoRechargeOne(p, a) ==
    /\ a \in todo[p] /\ call[p].pc = "idle"
    /\ todo' = [todo EXCEPT ![p] = @ \ {a}]
    /\ LET i == <<a, now>>
       IN  IF intent[i].status = "none"
           THEN /\ intent' = [intent EXCEPT ![i] =
                     [status |-> "pending", account |-> a, amount |-> TopUp]]
                /\ call' = [call EXCEPT ![p] =
                     [NoCall EXCEPT !.pc = "mark", !.intent = i]]
           ELSE UNCHANGED <<intent, call>>
    /\ UNCHANGED <<now, account, ledger, answered, calls, faults>>

-----------------------------------------------------------------------------
\* A statement fails: the open transaction rolls back and the call ends.
FailCall(c) ==
    /\ call[c].pc # "idle"
    /\ Fault
    /\ Hang(c)
    /\ UNCHANGED <<now, account, ledger, intent, todo, answered, calls>>

\* Every replica restarts, between any two transactions or inside one.
Restart ==
    /\ \E c \in Callers : call[c].pc # "idle"
    /\ Fault
    /\ call' = [c \in Callers |-> NoCall]
    /\ todo' = [p \in Runners |-> {}]
    /\ UNCHANGED <<now, account, ledger, intent, answered, calls>>

CallStep(c) ==
    \/ Replay(c) \/ LookUpMiss(c) \/ ReadAccount(c)
    \/ WriteBalance(c) \/ DuplicateKey(c) \/ RetryWrite(c)
    \/ CheckPending(c) \/ MarkIntentPaid(c)

Next ==
    \/ Tick
    \/ \E a \in Accounts, mode \in {"prepaid", "postpaid"} :
         \/ \E opening \in Amounts \cup {0} : CreateAccount(a, mode, opening)
         \/ UpdateAccount(a, mode)
    \/ \E a \in Accounts, g \in Charges, m \in Amounts : ApplyDeduction(a, g, m)
    \/ \E c \in Clients, a \in Accounts, k \in Keys, m \in Amounts :
         \/ Recharge(c, a, k, m) \/ Refund(c, a, k, m)
         \/ RechargeOrganization(c, a, k, m) \/ DebitOrganization(c, a, k, m)
    \/ \E i \in Intents, a \in Accounts, m \in Amounts :
         CreatePaymentIntent(i, a, m)
    \/ \E c \in Clients, i \in AllIntents : PayPaymentIntent(c, i)
    \/ \E p \in Runners :
         RunOnce(p) \/ \E a \in Accounts : AutoRechargeOne(p, a)
    \/ \E c \in Callers : CallStep(c) \/ FailCall(c)
    \/ Restart

Spec == Init /\ [][Next]_vars

-----------------------------------------------------------------------------
(* Properties. *)

\* The balance is the sum of the account's ledger rows, what they add less
\* what they take, however movements, deductions and retries interleave.  A
\* sum is the number of its cents.
RowsOf(a) == {e \in ledger : e.row.account = a}
Added(a) == UNION {{e} \X (1 .. e.moved) : e \in RowsOf(a)}
Taken(a) == UNION {{e} \X (1 .. -e.moved) : e \in RowsOf(a)}

BalanceIsLedgerSum ==
    \A a \in Accounts :
        account[a].balance = Cardinality(Added(a)) - Cardinality(Taken(a))

\* The ledger explains the balance: rows are never changed or removed, a new
\* row records what it did to the balance, and no balance moves without one.
\* A lost update, a movement applied twice and one half-applied all break it.
LedgerExplainsBalance ==
    [][/\ ledger \subseteq ledger'
       /\ \A e \in ledger' \ ledger :
            /\ e.after = account'[e.row.account].balance
            /\ e.after = account[e.row.account].balance + e.moved
       /\ \A a \in Accounts :
            account'[a].balance # account[a].balance =>
               \E e \in ledger' \ ledger : e.row.account = a]_vars

\* The idempotency key is spent once, whatever calls race on it: no two
\* ledger rows share it.
KeysAreSpentOnce ==
    \A e, f \in ledger : e.row.key = f.row.key => e = f

\* A caller is told that its movement succeeded only when the ledger holds
\* this movement, and not another one under its key.
SuccessIsRecorded ==
    \A row \in answered : \E e \in ledger : e.row = row

\* The account is credited for an intent only after the intent was marked
\* paid, and with the intent's amount.
CreditedIntentIsPaid ==
    \A i \in AllIntents : \A e \in ledger :
        e.row.key = PaymentKey(i) =>
            intent[i].status = "paid" /\ e.row = PaymentOf(i)

\* What PayPaymentIntent does guarantee: from the moment an intent is marked
\* paid, it is credited or some call is on its way to credit it, however calls
\* race on the intent and the key, until a statement or a replica fails, or a
\* call loses the version guard maxBalanceRetries times.
Paying(c, i) ==
    /\ call[c].pc \in {"begin", "read", "write"}
    /\ call[c].row.key = PaymentKey(i)

Covered(i) == Used(PaymentKey(i)) \/ \E c \in Callers : Paying(c, i)

GivesUp(c) == call[c].pc = "write" /\ call[c].tries = MaxRetries /\ ~Current(c)

PaymentLostOnlyByFailure ==
    [][\A i \in AllIntents :
          intent'[i].status = "paid" /\ ~Covered(i)' =>
             \/ intent[i].status = "paid" /\ ~Covered(i)
             \/ faults' > faults
             \/ \E c \in Callers : Paying(c, i) /\ GivesUp(c)]_vars

\* payment_service.go: PayPaymentIntent "credits the account exactly once": a
\* paid intent is credited, or a call is still on its way to credit it.
PaidIntentIsCredited ==
    \A i \in AllIntents : intent[i].status = "paid" =>
        \/ Used(PaymentKey(i))
        \/ \E c \in Callers : call[c].intent = i
=============================================================================
