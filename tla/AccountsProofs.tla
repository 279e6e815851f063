--------------------------- MODULE AccountsProofs ---------------------------
(* Theorems of module Accounts, for every number of accounts, keys,        *)
(* intents, clients and runners and every amount and bound.                *)
EXTENDS Accounts, FiniteSetTheorems, TLAPS

-----------------------------------------------------------------------------
(* The inductive invariant, in named parts. *)

Working(c) == call[c].pc \in {"begin", "read", "write"}

\* A movement under way is of an existing account, and is an operator's or
\* the payment of an intent that was marked paid.
CallInv ==
    \A c \in Callers : Working(c) =>
        /\ Open(call[c].row.account)
        /\ \/ call[c].row.key \in Keys
           \/ \E i \in AllIntents : /\ intent[i].status = "paid"
                                    /\ call[c].row = PaymentOf(i)

\* A writer read the current balance, or the version tells it that it did not.
ReadInv ==
    \A c \in Callers : call[c].pc = "write" =>
        LET a == call[c].row.account IN
        /\ call[c].read.version <= account[a].version
        /\ call[c].read.version = account[a].version =>
             call[c].read.balance = account[a].balance

\* Intents, opening rows and pending top-ups are of accounts that exist; an
\* account that does not holds nothing.
OpenInv ==
    /\ \A i \in AllIntents :
         intent[i].status # "none" => Open(intent[i].account)
    /\ \A e \in ledger : \A a \in Accounts :
         e.row.key = OpeningKey(a) => Open(a)
    /\ \A p \in Runners : \A a \in todo[p] : Open(a)
    /\ \A a \in Accounts : Open(a) \/ account[a].balance = 0

IInv ==
    /\ TypeOK
    /\ CallInv
    /\ ReadInv
    /\ OpenInv
    /\ KeysAreSpentOnce
    /\ SuccessIsRecorded
    /\ CreditedIntentIsPaid

-----------------------------------------------------------------------------
(* Keys. *)

\* Every kind of row has keys of its own.
LEMMA KeysApart ==
    /\ \A a \in Accounts : OpeningKey(a) \in SystemKeys
    /\ \A i \in AllIntents : PaymentKey(i) \in SystemKeys
    /\ \A g \in Charges : ChargeKey(g) \in SystemKeys
    /\ \A k \in Keys : k \notin SystemKeys
    /\ \A a, i : OpeningKey(a) # PaymentKey(i)
    /\ \A a, g : OpeningKey(a) # ChargeKey(g)
    /\ \A i, g : PaymentKey(i) # ChargeKey(g)
    /\ \A i, j : PaymentKey(i) = PaymentKey(j) => i = j
    /\ \A a, b : OpeningKey(a) = OpeningKey(b) => a = b
<1>1. /\ \A a \in Accounts : OpeningKey(a) \in SystemKeys
      /\ \A i \in AllIntents : PaymentKey(i) \in SystemKeys
      /\ \A g \in Charges : ChargeKey(g) \in SystemKeys
    BY DEF SystemKeys
<1>2. \A k \in Keys : k \notin SystemKeys BY ConstantsAssumption
<1>3. /\ \A a, i : OpeningKey(a) # PaymentKey(i)
      /\ \A a, g : OpeningKey(a) # ChargeKey(g)
      /\ \A i, g : PaymentKey(i) # ChargeKey(g)
    BY DEF OpeningKey, PaymentKey, ChargeKey
<1>4. /\ \A i, j : PaymentKey(i) = PaymentKey(j) => i = j
      /\ \A a, b : OpeningKey(a) = OpeningKey(b) => a = b
    BY DEF OpeningKey, PaymentKey
<1> QED BY <1>1, <1>2, <1>3, <1>4

\* A movement is its four fields.
LEMMA MovementTyped ==
    ASSUME NEW a \in Accounts, NEW m \in Nat, NEW k \in LedgerKeys,
           NEW type \in {"recharge", "refund", "deduction"}
    PROVE  Movement(a, type, m, k) \in Movements
BY DEF Movement, Movements

\* Two movements that agree on every field are the same movement.
LEMMA SameMovement ==
    ASSUME NEW x \in Movements, NEW y \in Movements, Same(x, y), x.key = y.key
    PROVE  x = y
BY DEF Same, Movements

\* The payment of an existing intent is a movement.
LEMMA PaymentTyped ==
    ASSUME TypeOK, NEW i \in AllIntents, intent[i].status # "none"
    PROVE  /\ PaymentOf(i) \in Movements
           /\ PaymentOf(i).key = PaymentKey(i)
           /\ PaymentOf(i).account = intent[i].account
<1>1. PaymentKey(i) \in LedgerKeys BY KeysApart DEF LedgerKeys
<1>2. intent[i].account \in Accounts /\ intent[i].amount \in Nat BY DEF TypeOK
<1>3. PaymentOf(i) \in Movements BY <1>1, <1>2, MovementTyped DEF PaymentOf
<1> QED BY <1>3 DEF PaymentOf, Movement

\* An idle goroutine's slot is well typed.
LEMMA NoCallTyped ==
    NoCall \in CallType
BY ConstantsAssumption DEF NoCall, Closed, AccountType, CallType

-----------------------------------------------------------------------------
(* Types. *)

\* The initial state is well typed.
LEMMA TypedInit == Init => TypeOK
<1> SUFFICES ASSUME Init PROVE TypeOK OBVIOUS
<1>1. account \in [Accounts -> AccountType] BY DEF Init, Closed, AccountType
<1>2. intent \in [AllIntents ->
                    [status : {"none", "pending", "paid"},
                     account : Accounts \cup {Nobody}, amount : Nat]]
    BY DEF Init, NoIntent
<1>3. call \in [Callers -> CallType]
    BY NoCallTyped DEF Init
<1>4. \A c \in Callers : call[c].pc = "idle" /\ WellFormed(call[c])
    BY DEF Init, NoCall, WellFormed
<1>5. \A i \in AllIntents : intent[i].status = "none" BY DEF Init, NoIntent
<1>6. now \in Times /\ calls \in 0 .. MaxCalls /\ faults \in 0 .. MaxFaults
    BY ConstantsAssumption DEF Init, Times
<1> QED BY <1>1, <1>2, <1>3, <1>4, <1>5, <1>6 DEF Init, TypeOK

\* The bounds of the model are respected.
LEMMA BoundsTyped ==
    ASSUME TypeOK
    PROVE  /\ Request => calls' \in 0 .. MaxCalls
           /\ Fault => faults' \in 0 .. MaxFaults
BY ConstantsAssumption DEF TypeOK, Request, Fault

\* An account that is opened is well typed.
LEMMA OpenedTyped ==
    ASSUME NEW x \in AccountType, NEW mode \in {"prepaid", "postpaid"},
           NEW b \in Int
    PROVE  [x EXCEPT !.mode = mode, !.balance = b] \in AccountType
BY DEF AccountType

\* The accounts' own operations keep the types.
LEMMA TypedAccounts ==
    ASSUME TypeOK, NEW a \in Accounts,
           \/ \E mode \in {"prepaid", "postpaid"} :
                \/ \E opening \in Amounts \cup {0} : CreateAccount(a, mode, opening)
                \/ UpdateAccount(a, mode)
           \/ \E g \in Charges, m \in Amounts : ApplyDeduction(a, g, m)
    PROVE  TypeOK'
<1>1. account[a] \in AccountType BY DEF TypeOK
<1>2. ASSUME NEW mode \in {"prepaid", "postpaid"},
             NEW opening \in Amounts \cup {0}, CreateAccount(a, mode, opening)
      PROVE  TypeOK'
  <2>1. opening \in Nat /\ opening \in Int BY ConstantsAssumption
  <2>2. account' \in [Accounts -> AccountType]
    <3>1. account' = [account EXCEPT ![a] =
                        [account[a] EXCEPT !.mode = mode, !.balance = opening]]
        BY <1>2 DEF CreateAccount, TypeOK
    <3>2. [account[a] EXCEPT !.mode = mode, !.balance = opening] \in AccountType
        BY <1>1, <2>1, OpenedTyped
    <3> QED BY <3>1, <3>2 DEF TypeOK
  <2>3. ledger' \subseteq [row : Movements, moved : Int, after : Int]
    <3>1. Movement(a, "recharge", opening, OpeningKey(a)) \in Movements
        BY <2>1, KeysApart, MovementTyped DEF LedgerKeys
    <3>2. CASE opening = 0 BY <1>2, <3>2 DEF CreateAccount, TypeOK
    <3>3. CASE opening # 0
      <4>1. ledger' = ledger \cup
              {[row   |-> Movement(a, "recharge", opening, OpeningKey(a)),
                moved |-> opening, after |-> opening]}
          BY <1>2, <3>3 DEF CreateAccount
      <4> QED BY <2>1, <3>1, <4>1 DEF TypeOK
    <3> QED BY <3>2, <3>3
  <2> QED BY <1>2, <2>2, <2>3 DEF CreateAccount, TypeOK
<1>3. ASSUME NEW mode \in {"prepaid", "postpaid"}, UpdateAccount(a, mode)
      PROVE  TypeOK'
  <2>1. account' \in [Accounts -> AccountType]
      BY <1>1, <1>3 DEF UpdateAccount, AccountType, TypeOK
  <2>2. calls' \in 0 .. MaxCalls BY <1>3, BoundsTyped DEF UpdateAccount
  <2> QED BY <1>3, <2>1, <2>2 DEF UpdateAccount, TypeOK
<1>4. ASSUME NEW g \in Charges, NEW m \in Amounts, ApplyDeduction(a, g, m)
      PROVE  TypeOK'
  <2> DEFINE moved == IF account[a].mode = "prepaid" THEN -m ELSE 0
             after == account[a].balance + moved
  <2>1. m \in Nat /\ moved \in Int /\ after \in Int
      BY <1>1, ConstantsAssumption DEF AccountType
  <2>2. account' = [account EXCEPT ![a].balance = after, ![a].version = @ + 1]
      BY <1>4 DEF ApplyDeduction
  <2>3. ledger' = ledger \cup
            {[row |-> Movement(a, "deduction", m, ChargeKey(g)),
              moved |-> moved, after |-> after]}
      BY <1>4 DEF ApplyDeduction
  <2> HIDE DEF moved, after
  <2>4. account' \in [Accounts -> AccountType]
      BY <1>1, <2>1, <2>2 DEF AccountType, TypeOK
  <2>5. Movement(a, "deduction", m, ChargeKey(g)) \in Movements
      BY <2>1, KeysApart, MovementTyped DEF LedgerKeys
  <2>6. ledger' \subseteq [row : Movements, moved : Int, after : Int]
      BY <2>1, <2>3, <2>5 DEF TypeOK
  <2>7. calls' \in 0 .. MaxCalls BY <1>4, BoundsTyped DEF ApplyDeduction
  <2> QED BY <1>4, <2>4, <2>6, <2>7 DEF ApplyDeduction, TypeOK
<1> QED BY <1>2, <1>3, <1>4

\* A slot a goroutine may leave behind.
GoodCall(x) == x \in CallType /\ WellFormed(x)

\* A call slot is well typed before a step, and after it when it is set to a
\* well-typed value.
LEMMA CallTyped ==
    ASSUME TypeOK, NEW c \in Callers, NEW x, GoodCall(x),
           call' = [call EXCEPT ![c] = x],
           \A i \in AllIntents : intent[i].status # "none" =>
                                   intent'[i].status # "none",
           x.pc \in {"mark", "marking"} => intent'[x.intent].status # "none"
    PROVE  /\ call' \in [Callers -> CallType]
           /\ \A d \in Callers :
                /\ WellFormed(call'[d])
                /\ call'[d].pc \in {"mark", "marking"} =>
                     intent'[call'[d].intent].status # "none"
<1>1. call \in [Callers -> CallType] BY DEF TypeOK, CallType
<1>2. call' \in [Callers -> CallType] BY <1>1 DEF GoodCall
<1>3. call'[c] = x /\ \A d \in Callers \ {c} : call'[d] = call[d] BY <1>1
<1>4. ASSUME NEW d \in Callers
      PROVE  /\ WellFormed(call'[d])
             /\ call'[d].pc \in {"mark", "marking"} =>
                  intent'[call'[d].intent].status # "none"
  <2>1. CASE d = c BY <1>3, <2>1 DEF GoodCall
  <2>2. CASE d # c
    <3>1. call'[d] = call[d] BY <1>3, <2>2
    <3>2. WellFormed(call[d]) BY DEF TypeOK
    <3>3. call[d].pc \in {"mark", "marking"} =>
            /\ call[d].intent \in AllIntents
            /\ intent[call[d].intent].status # "none"
        BY <3>2 DEF TypeOK, WellFormed
    <3> QED BY <3>1, <3>2, <3>3
  <2> QED BY <2>1, <2>2
<1> QED BY <1>2, <1>4

\* A step that only sets its caller's slot keeps the types.
LEMMA SlotTyped ==
    ASSUME TypeOK, NEW c \in Callers, NEW x, GoodCall(x),
           call' = [call EXCEPT ![c] = x],
           UNCHANGED <<now, account, ledger, intent>>,
           x.pc \in {"mark", "marking"} => intent[x.intent].status # "none",
           todo' \in [Runners -> SUBSET Accounts],
           answered' \subseteq Movements,
           calls' \in 0 .. MaxCalls, faults' \in 0 .. MaxFaults
    PROVE  TypeOK'
<1>1. /\ call' \in [Callers -> CallType]
      /\ \A d \in Callers :
           /\ WellFormed(call'[d])
           /\ call'[d].pc \in {"mark", "marking"} =>
                intent'[call'[d].intent].status # "none"
    BY CallTyped
<1> QED BY <1>1 DEF TypeOK, CallType

\* An idle slot is well typed.
LEMMA IdleCall == GoodCall(NoCall) /\ NoCall.pc = "idle"
BY NoCallTyped DEF WellFormed, GoodCall, CallType, NoCall

\* A call that begins with a movement is well typed.
LEMMA StartTyped ==
    ASSUME TypeOK, NEW c \in Callers, NEW row \in Movements, Start(c, row)
    PROVE  /\ call' \in [Callers -> CallType]
           /\ \E x : /\ GoodCall(x) /\ x.pc = "begin" /\ x.row = row
                     /\ call' = [call EXCEPT ![c] = x]
           /\ calls' \in 0 .. MaxCalls
<1> DEFINE x == [NoCall EXCEPT !.pc = "begin", !.row = row]
<1>1. GoodCall(x) /\ x.pc = "begin" /\ x.row = row
    BY NoCallTyped DEF WellFormed, GoodCall, CallType, NoCall
<1>2. call' = [call EXCEPT ![c] = x] /\ calls' \in 0 .. MaxCalls
    BY BoundsTyped DEF Start
<1> HIDE DEF x
<1> QED BY <1>1, <1>2 DEF TypeOK, CallType, GoodCall

\* Operator movements keep the types.
LEMMA TypedMovements ==
    ASSUME TypeOK, NEW c \in Clients, NEW a \in Accounts, NEW k \in Keys,
           NEW m \in Amounts,
           \/ Recharge(c, a, k, m) \/ Refund(c, a, k, m)
           \/ RechargeOrganization(c, a, k, m) \/ DebitOrganization(c, a, k, m)
    PROVE  TypeOK'
<1>1. c \in Callers /\ m \in Nat /\ k \in LedgerKeys
    BY ConstantsAssumption DEF Callers, LedgerKeys
<1>2. PICK type \in {"recharge", "refund", "deduction"} :
        Start(c, Movement(a, type, m, k))
    BY DEF Recharge, Refund, RechargeOrganization, DebitOrganization
<1> DEFINE row == Movement(a, type, m, k)
<1>3. row \in Movements BY <1>1, MovementTyped
<1>4. PICK x : /\ GoodCall(x) /\ x.pc = "begin" /\ x.row = row
               /\ call' = [call EXCEPT ![c] = x]
    BY <1>1, <1>2, <1>3, StartTyped
<1>5. calls' \in 0 .. MaxCalls BY <1>1, <1>2, <1>3, StartTyped
<1>6. UNCHANGED <<now, ledger, intent, todo, answered, faults>>
    BY DEF Recharge, Refund, RechargeOrganization, DebitOrganization
<1>7. account' \in [Accounts -> AccountType]
  <2>1. \/ account' = account
        \/ account' = [account EXCEPT ![a].mode = "prepaid"]
        \/ account' = [account EXCEPT ![a].mode = @]
      BY DEF Recharge, Refund, RechargeOrganization, DebitOrganization
  <2> QED BY <2>1 DEF TypeOK, AccountType
<1>8. /\ call' \in [Callers -> CallType]
      /\ \A d \in Callers :
           /\ WellFormed(call'[d])
           /\ call'[d].pc \in {"mark", "marking"} =>
                intent'[call'[d].intent].status # "none"
    BY <1>1, <1>4, <1>6, CallTyped
<1> QED BY <1>5, <1>6, <1>7, <1>8 DEF TypeOK, CallType

\* AccountRepository.Recharge keeps the types: its lookup, its attempts.
LEMMA TypedRecharge ==
    ASSUME TypeOK, NEW c \in Callers,
           \/ Replay(c) \/ LookUpMiss(c) \/ ReadAccount(c)
           \/ DuplicateKey(c) \/ RetryWrite(c)
    PROVE  TypeOK'
<1>1. /\ call[c] \in CallType
      /\ call[c].pc \in {"begin", "read", "write"} => call[c].row \in Movements
    BY DEF WellFormed, TypeOK, CallType
<1>2. /\ todo \in [Runners -> SUBSET Accounts] /\ answered \subseteq Movements
      /\ calls \in 0 .. MaxCalls /\ faults \in 0 .. MaxFaults
    BY DEF TypeOK
<1>3. CASE Replay(c)
  <2>1. answered' \subseteq Movements BY <1>1, <1>2, <1>3 DEF Replay
  <2> QED BY <1>2, <1>3, <2>1, IdleCall, SlotTyped DEF Replay, Hang
<1>4. CASE DuplicateKey(c)
  BY <1>2, <1>4, IdleCall, SlotTyped DEF DuplicateKey, Hang
<1>5. CASE LookUpMiss(c)
  <2> DEFINE x == [call[c] EXCEPT !.pc = "read"]
  <2>1. call[c].pc = "begin" /\ WellFormed(call[c]) BY <1>5 DEF LookUpMiss, TypeOK
  <2>2. GoodCall(x) /\ x.pc = "read"
      BY <1>1, <2>1, ConstantsAssumption DEF GoodCall, WellFormed, CallType
  <2>3. call' = [call EXCEPT ![c] = x] BY <1>5 DEF LookUpMiss, TypeOK
  <2> HIDE DEF x
  <2> QED BY <1>2, <1>5, <2>2, <2>3, SlotTyped DEF LookUpMiss
<1>6. CASE ReadAccount(c)
  <2> DEFINE x == [call[c] EXCEPT !.pc = "write", !.tries = @ + 1,
                                  !.read = account[call[c].row.account]]
  <2>1. call[c].pc = "read" /\ WellFormed(call[c]) BY <1>6 DEF ReadAccount, TypeOK
  <2>2. call[c].row \in Movements /\ account[call[c].row.account] \in AccountType
      BY <1>1, <2>1 DEF Movements, TypeOK
  <2>3. call[c].tries + 1 \in 0 .. MaxRetries
      BY <1>1, <2>1, ConstantsAssumption DEF WellFormed, CallType
  <2>4. GoodCall(x) /\ x.pc = "write"
      BY <1>1, <2>1, <2>2, <2>3 DEF GoodCall, WellFormed, CallType
  <2>5. call' = [call EXCEPT ![c] = x] BY <1>6 DEF ReadAccount, TypeOK
  <2> HIDE DEF x
  <2> QED BY <1>2, <1>6, <2>4, <2>5, SlotTyped DEF ReadAccount
<1>7. CASE RetryWrite(c)
  <2>1. CASE call[c].tries < MaxRetries
    <3> DEFINE x == [call[c] EXCEPT !.pc = "read"]
    <3>1. call[c].pc = "write" /\ WellFormed(call[c])
        BY <1>7 DEF RetryWrite, TypeOK
    <3>2. GoodCall(x) /\ x.pc = "read"
        BY <1>1, <2>1, <3>1 DEF GoodCall, WellFormed, CallType
    <3>3. call' = [call EXCEPT ![c] = x] BY <1>7, <2>1 DEF RetryWrite, TypeOK
    <3> HIDE DEF x
    <3> QED BY <1>2, <1>7, <3>2, <3>3, SlotTyped DEF RetryWrite
  <2>2. CASE ~(call[c].tries < MaxRetries)
    BY <1>2, <1>7, <2>2, IdleCall, SlotTyped DEF RetryWrite, Hang
  <2> QED BY <2>1, <2>2
<1> QED BY <1>3, <1>4, <1>5, <1>6, <1>7

\* The write keeps the types.
LEMMA TypedWrite ==
    ASSUME TypeOK, NEW c \in Callers, WriteBalance(c)
    PROVE  TypeOK'
<1> DEFINE row == call[c].row
           after == call[c].read.balance + Delta(row)
<1>1. row \in Movements /\ row.account \in Accounts /\ row.amount \in Nat
    BY DEF WellFormed, WriteBalance, TypeOK, Movements
<1>2. /\ call[c].read \in AccountType
      /\ account[row.account] \in AccountType
    BY <1>1 DEF WellFormed, CallType, TypeOK
<1>3. Delta(row) \in Int /\ after \in Int
    BY <1>1, <1>2 DEF Delta, AccountType
<1>4. /\ account' = [account EXCEPT ![row.account].balance = after,
                                    ![row.account].version =
                                       call[c].read.version + 1]
      /\ ledger' = ledger \cup
           {[row |-> row, moved |-> Delta(row), after |-> after]}
      /\ answered' = answered \cup {row}
      /\ call' = [call EXCEPT ![c] = NoCall]
      /\ UNCHANGED <<now, intent, todo, calls, faults>>
    BY DEF WriteBalance, InsertRow, Hang
<1> HIDE DEF row, after
<1>5. account' \in [Accounts -> AccountType]
  <2>1. call[c].read.version + 1 \in Nat BY <1>2 DEF AccountType
  <2>2. [account[row.account] EXCEPT !.balance = after,
                                     !.version = call[c].read.version + 1]
          \in AccountType
      BY <1>2, <1>3, <2>1 DEF AccountType
  <2>3. account' = [account EXCEPT ![row.account] =
          [account[row.account] EXCEPT !.balance = after,
                                       !.version = call[c].read.version + 1]]
      BY <1>1, <1>4 DEF TypeOK
  <2> QED BY <2>2, <2>3 DEF TypeOK
<1>6. ledger' \subseteq [row : Movements, moved : Int, after : Int]
    BY <1>1, <1>3, <1>4 DEF TypeOK
<1>7. answered' \subseteq Movements BY <1>1, <1>4 DEF TypeOK
<1>8. /\ call' \in [Callers -> CallType]
      /\ \A d \in Callers :
           /\ WellFormed(call'[d])
           /\ call'[d].pc \in {"mark", "marking"} =>
                intent'[call'[d].intent].status # "none"
    BY <1>4, IdleCall, CallTyped
<1> QED BY <1>4, <1>5, <1>6, <1>7, <1>8 DEF TypeOK, CallType

\* Setting an intent keeps the types.
LEMMA IntentTyped ==
    ASSUME TypeOK, NEW i \in AllIntents, NEW x,
           x \in [status : {"pending", "paid"}, account : Accounts, amount : Nat],
           intent' = [intent EXCEPT ![i] = x]
    PROVE  /\ intent' \in [AllIntents ->
                             [status : {"none", "pending", "paid"},
                              account : Accounts \cup {Nobody}, amount : Nat]]
           /\ \A j \in AllIntents :
                /\ intent'[j].status # "none" => intent'[j].account \in Accounts
                /\ intent[j].status # "none" => intent'[j].status # "none"
           /\ intent'[i].status # "none"
BY DEF TypeOK

\* Intents, their payment and the runner keep the types.
LEMMA TypedIntents ==
    ASSUME TypeOK,
           \/ \E i \in Intents, a \in Accounts, m \in Amounts :
                CreatePaymentIntent(i, a, m)
           \/ \E c \in Clients, i \in AllIntents : PayPaymentIntent(c, i)
           \/ \E p \in Runners :
                RunOnce(p) \/ \E a \in Accounts : AutoRechargeOne(p, a)
           \/ \E c \in Callers : CheckPending(c) \/ MarkIntentPaid(c)
    PROVE  TypeOK'
<1> DEFINE Rows == [status : {"pending", "paid"}, account : Accounts, amount : Nat]
<1>1. /\ todo \in [Runners -> SUBSET Accounts] /\ answered \subseteq Movements
      /\ calls \in 0 .. MaxCalls /\ faults \in 0 .. MaxFaults /\ now \in Times
    BY DEF TypeOK
<1>2. ASSUME NEW i \in Intents, NEW a \in Accounts, NEW m \in Amounts,
             CreatePaymentIntent(i, a, m)
      PROVE  TypeOK'
  <2> DEFINE x == [status |-> "pending", account |-> a, amount |-> m]
  <2>1. x \in Rows BY ConstantsAssumption
  <2>2. i \in AllIntents BY DEF AllIntents
  <2>3. intent' = [intent EXCEPT ![i] = x] BY <1>2 DEF CreatePaymentIntent
  <2>4. calls' \in 0 .. MaxCalls BY <1>2, BoundsTyped DEF CreatePaymentIntent
  <2> HIDE DEF x
  <2> QED BY <1>2, <2>1, <2>2, <2>3, <2>4, IntentTyped
          DEF CreatePaymentIntent, TypeOK
<1>3. ASSUME NEW c \in Clients, NEW i \in AllIntents, PayPaymentIntent(c, i)
      PROVE  TypeOK'
  <2> DEFINE x == [NoCall EXCEPT !.pc = "mark", !.intent = i]
  <2>1. GoodCall(x) /\ x.intent = i
      BY NoCallTyped DEF WellFormed, GoodCall, CallType, NoCall
  <2>2. call' = [call EXCEPT ![c] = x] /\ intent[i].status # "none"
      BY <1>3 DEF PayPaymentIntent
  <2>3. calls' \in 0 .. MaxCalls BY <1>3, BoundsTyped DEF PayPaymentIntent
  <2>4. c \in Callers BY DEF Callers
  <2> HIDE DEF x
  <2> QED BY <1>1, <1>3, <2>1, <2>2, <2>3, <2>4, SlotTyped DEF PayPaymentIntent
<1>4. ASSUME NEW p \in Runners, RunOnce(p) PROVE TypeOK'
  <2>1. todo' \in [Runners -> SUBSET Accounts]
      BY <1>1, <1>4 DEF RunOnce, Candidates
  <2> QED BY <1>4, <2>1 DEF RunOnce, TypeOK
<1>5. ASSUME NEW p \in Runners, NEW a \in Accounts, AutoRechargeOne(p, a)
      PROVE  TypeOK'
  <2> DEFINE i == <<a, now>>
             x == [status |-> "pending", account |-> a, amount |-> TopUp]
             y == [NoCall EXCEPT !.pc = "mark", !.intent = i]
  <2>1. i \in AllIntents BY <1>1 DEF AllIntents
  <2>2. p \in Callers BY DEF Callers
  <2>3. todo' \in [Runners -> SUBSET Accounts]
      BY <1>1, <1>5 DEF AutoRechargeOne
  <2>4. CASE intent[i].status # "none"
    <3>1. UNCHANGED <<intent, call>> BY <1>5, <2>4 DEF AutoRechargeOne
    <3> QED BY <1>5, <2>3, <3>1 DEF AutoRechargeOne, TypeOK
  <2>5. CASE intent[i].status = "none"
    <3>1. x \in Rows BY ConstantsAssumption
    <3>2. GoodCall(y) /\ y.intent = i
        BY <2>1, NoCallTyped DEF WellFormed, GoodCall, CallType, NoCall
    <3>3. intent' = [intent EXCEPT ![i] = x] /\ call' = [call EXCEPT ![p] = y]
        BY <1>5, <2>5 DEF AutoRechargeOne
    <3> HIDE DEF i, x, y
    <3>4. /\ intent' \in [AllIntents ->
                            [status : {"none", "pending", "paid"},
                             account : Accounts \cup {Nobody}, amount : Nat]]
          /\ \A j \in AllIntents :
               /\ intent'[j].status # "none" => intent'[j].account \in Accounts
               /\ intent[j].status # "none" => intent'[j].status # "none"
          /\ intent'[i].status # "none"
        BY <2>1, <3>1, <3>3, IntentTyped
    <3>5. /\ call' \in [Callers -> CallType]
          /\ \A d \in Callers :
               /\ WellFormed(call'[d])
               /\ call'[d].pc \in {"mark", "marking"} =>
                    intent'[call'[d].intent].status # "none"
        BY <2>2, <3>2, <3>3, <3>4, CallTyped
    <3> QED BY <1>5, <2>3, <3>4, <3>5 DEF AutoRechargeOne, TypeOK, CallType
  <2> QED BY <2>4, <2>5
<1>6. ASSUME NEW c \in Callers, CheckPending(c) PROVE TypeOK'
  <2>1. /\ call[c] \in CallType /\ call[c].intent \in AllIntents
        /\ intent[call[c].intent].status # "none"
        /\ call[c].tries = 0
      BY <1>6 DEF WellFormed, CheckPending, TypeOK, CallType
  <2>2. CASE intent[call[c].intent].status = "pending"
    <3> DEFINE x == [call[c] EXCEPT !.pc = "marking"]
    <3>1. GoodCall(x) /\ x.intent = call[c].intent
        BY <2>1 DEF WellFormed, GoodCall, CallType
    <3>2. call' = [call EXCEPT ![c] = x]
        BY <1>6, <2>2 DEF CheckPending, TypeOK
    <3> HIDE DEF x
    <3> QED BY <1>1, <1>6, <2>1, <3>1, <3>2, SlotTyped DEF CheckPending
  <2>3. CASE intent[call[c].intent].status # "pending"
    BY <1>1, <1>6, <2>3, IdleCall, SlotTyped DEF CheckPending, Hang
  <2> QED BY <2>2, <2>3
<1>7. ASSUME NEW c \in Callers, MarkIntentPaid(c) PROVE TypeOK'
  <2> DEFINE i == call[c].intent
             x == [intent[i] EXCEPT !.status = "paid"]
             y == [call[c] EXCEPT !.pc = "begin", !.row = PaymentOf(i)]
  <2>1. /\ call[c] \in CallType /\ i \in AllIntents
        /\ intent[i].status # "none" /\ call[c].tries = 0
      BY <1>7 DEF MarkIntentPaid, WellFormed, TypeOK, CallType
  <2>2. x \in Rows BY <2>1 DEF TypeOK
  <2>3. PaymentOf(i) \in Movements BY <2>1, PaymentTyped
  <2>4. GoodCall(y) /\ y.pc = "begin" BY <2>1, <2>3 DEF WellFormed, GoodCall, CallType
  <2>5. intent' = [intent EXCEPT ![i] = x] /\ call' = [call EXCEPT ![c] = y]
      BY <1>7, <2>1 DEF MarkIntentPaid, TypeOK
  <2> HIDE DEF i, x, y
  <2>6. /\ intent' \in [AllIntents ->
                          [status : {"none", "pending", "paid"},
                           account : Accounts \cup {Nobody}, amount : Nat]]
        /\ \A j \in AllIntents :
             /\ intent'[j].status # "none" => intent'[j].account \in Accounts
             /\ intent[j].status # "none" => intent'[j].status # "none"
      BY <2>1, <2>2, <2>5, IntentTyped
  <2>7. /\ call' \in [Callers -> CallType]
        /\ \A d \in Callers :
             /\ WellFormed(call'[d])
             /\ call'[d].pc \in {"mark", "marking"} =>
                  intent'[call'[d].intent].status # "none"
      BY <2>4, <2>5, <2>6, CallTyped
  <2> QED BY <1>7, <2>6, <2>7 DEF MarkIntentPaid, TypeOK, CallType
<1> QED BY <1>2, <1>3, <1>4, <1>5, <1>6, <1>7

\* Every step keeps the types.
LEMMA TypedNext == TypeOK /\ [Next]_vars => TypeOK'
<1> SUFFICES ASSUME TypeOK, [Next]_vars PROVE TypeOK' OBVIOUS
<1>1. CASE UNCHANGED vars BY <1>1 DEF TypeOK, vars
<1>2. CASE Tick
  <2>1. now' \in Times BY <1>2, ConstantsAssumption DEF Tick, TypeOK, Times
  <2> QED BY <1>2, <2>1 DEF Tick, TypeOK
<1>3. ASSUME NEW c \in Callers, FailCall(c) PROVE TypeOK'
  <2>1. faults' \in 0 .. MaxFaults BY <1>3, BoundsTyped DEF FailCall
  <2>2. /\ todo \in [Runners -> SUBSET Accounts] /\ answered \subseteq Movements
        /\ calls \in 0 .. MaxCalls
      BY DEF TypeOK
  <2> QED BY <1>3, <2>1, <2>2, IdleCall, SlotTyped DEF FailCall, Hang
<1>4. CASE Restart
  <2>1. faults' \in 0 .. MaxFaults BY <1>4, BoundsTyped DEF Restart
  <2>2. /\ call' \in [Callers -> CallType]
        /\ \A c \in Callers : call'[c].pc = "idle" /\ WellFormed(call'[c])
      BY <1>4, IdleCall DEF Restart, GoodCall
  <2> QED BY <1>4, <2>1, <2>2 DEF Restart, TypeOK
<1> QED BY <1>1, <1>2, <1>3, <1>4, TypedAccounts, TypedMovements,
           TypedRecharge, TypedWrite, TypedIntents DEF Next, CallStep

-----------------------------------------------------------------------------
(* What a step may do to the tables. *)

\* Accounts are never closed; their versions never fall, and an open
\* account's balance moves only with its version.
AccountMoves(a) ==
    /\ Open(a) => Open(a)'
    /\ account[a].version <= account'[a].version
    /\ \/ account'[a].balance = account[a].balance
       \/ Open(a) /\ account[a].version < account'[a].version
       \/ ~Open(a) /\ Open(a)'

\* Every step moves every account this way.
LEMMA AccountEffect ==
    ASSUME TypeOK, CallInv, [Next]_vars, NEW a \in Accounts
    PROVE  AccountMoves(a)
<1>1. account[a] \in AccountType BY DEF TypeOK
<1>2. CASE UNCHANGED account BY <1>1, <1>2 DEF AccountMoves, Open, AccountType
<1>3. ASSUME NEW b \in Accounts, NEW mode \in {"prepaid", "postpaid"},
             UpdateAccount(b, mode)
      PROVE  AccountMoves(a)
  BY <1>1, <1>3 DEF AccountMoves, UpdateAccount, Open, AccountType, TypeOK
<1>4. ASSUME NEW b \in Accounts, NEW mode \in {"prepaid", "postpaid"},
             NEW opening \in Amounts \cup {0}, CreateAccount(b, mode, opening)
      PROVE  AccountMoves(a)
  <2>1. a # b => account'[a] = account[a] BY <1>4 DEF CreateAccount, TypeOK
  <2>2. account'[a].version = account[a].version
      BY <1>4 DEF CreateAccount, TypeOK
  <2>3. a = b => ~Open(a) /\ Open(a)'
      BY <1>1, <1>4 DEF CreateAccount, Open, TypeOK, AccountType
  <2> QED BY <1>1, <2>1, <2>2, <2>3 DEF AccountMoves, Open, AccountType
<1>5. ASSUME NEW b \in Accounts, NEW g \in Charges, NEW m \in Amounts,
             ApplyDeduction(b, g, m)
      PROVE  AccountMoves(a)
  BY <1>1, <1>5 DEF AccountMoves, ApplyDeduction, Open, AccountType, TypeOK
<1>6. ASSUME NEW c \in Clients, NEW b \in Accounts, NEW k \in Keys,
             NEW m \in Amounts, RechargeOrganization(c, b, k, m)
      PROVE  AccountMoves(a)
  BY <1>1, <1>6 DEF AccountMoves, RechargeOrganization, Open, AccountType, TypeOK
<1>7. ASSUME NEW c \in Callers, WriteBalance(c) PROVE AccountMoves(a)
  <2> DEFINE b == call[c].row.account
  <2>1. b \in Accounts /\ call[c].read.version = account[b].version
      BY <1>7 DEF WellFormed, CallType, WriteBalance, Current, TypeOK, Movements
  <2>2. \E x : account' = [account EXCEPT ![b].balance = x,
                                          ![b].version = account[b].version + 1]
      BY <1>7, <2>1 DEF WriteBalance
  <2>3. Open(b) BY <1>7 DEF WriteBalance, CallInv, Working
  <2> HIDE DEF b
  <2> QED BY <1>1, <2>1, <2>2, <2>3 DEF AccountMoves, Open, AccountType, TypeOK
<1> QED BY <1>2, <1>3, <1>4, <1>5, <1>6, <1>7
        DEF Next, CallStep, vars, Tick, Recharge, Refund, DebitOrganization,
            Replay, LookUpMiss, ReadAccount, DuplicateKey, RetryWrite,
            CheckPending,
            MarkIntentPaid, CreatePaymentIntent, PayPaymentIntent, RunOnce,
            AutoRechargeOne, FailCall, Restart

\* Intents keep their account and amount, and a paid one stays paid.
LEMMA IntentEffect ==
    ASSUME TypeOK, [Next]_vars, NEW i \in AllIntents, intent[i].status # "none"
    PROVE  /\ intent'[i].status # "none"
           /\ intent'[i].account = intent[i].account
           /\ intent[i].status = "paid" => intent'[i].status = "paid"
           /\ PaymentOf(i)' = PaymentOf(i)
<1> SUFFICES /\ intent'[i].status # "none"
             /\ intent'[i].account = intent[i].account
             /\ intent'[i].amount = intent[i].amount
             /\ intent[i].status = "paid" => intent'[i].status = "paid"
    BY DEF PaymentOf
<1>1. CASE UNCHANGED intent BY <1>1
<1>2. ASSUME NEW j \in AllIntents, intent[j].status = "none",
             \E x : intent' = [intent EXCEPT ![j] = x]
      PROVE  intent'[i] = intent[i]
  BY <1>2 DEF TypeOK
<1>3. ASSUME NEW c \in Callers, MarkIntentPaid(c)
      PROVE  /\ intent'[i].status # "none"
             /\ intent'[i].account = intent[i].account
             /\ intent'[i].amount = intent[i].amount
             /\ intent[i].status = "paid" => intent'[i].status = "paid"
  BY <1>3 DEF MarkIntentPaid, TypeOK
<1>4. ASSUME NEW j \in Intents, NEW a \in Accounts, NEW m \in Amounts,
             CreatePaymentIntent(j, a, m)
      PROVE  intent'[i] = intent[i]
  BY <1>2, <1>4 DEF CreatePaymentIntent, AllIntents
<1>5. ASSUME NEW p \in Runners, NEW a \in Accounts, AutoRechargeOne(p, a)
      PROVE  intent'[i] = intent[i]
  <2>1. <<a, now>> \in AllIntents BY DEF AllIntents, TypeOK
  <2> QED BY <1>2, <1>5, <2>1 DEF AutoRechargeOne
<1> QED BY <1>1, <1>3, <1>4, <1>5
        DEF Next, CallStep, vars, Tick, Recharge, Refund, DebitOrganization,
            RechargeOrganization, CreateAccount, UpdateAccount, ApplyDeduction,
            Replay, LookUpMiss, ReadAccount, DuplicateKey, RetryWrite,
            CheckPending,
            WriteBalance, PayPaymentIntent, RunOnce, FailCall, Restart

\* The row a step inserts, if any: an opening balance, a deduction or the
\* movement of a call; and what it did to the balance of its account.
RowOf(e) ==
    \/ \E a \in Accounts : /\ e.row.account = a /\ e.row.key = OpeningKey(a)
                           /\ ~Open(a) /\ Open(a)'
    \/ \E g \in Charges : e.row.key = ChargeKey(g)
    \/ \E c \in Callers : Working(c) /\ e.row = call[c].row

\* A step inserts at most one row, of a key no row has.
LEMMA LedgerEffect ==
    ASSUME TypeOK, OpenInv, [Next]_vars
    PROVE  \/ ledger' = ledger
           \/ \E e : /\ ledger' = ledger \cup {e}
                     /\ ~Used(e.row.key)
                     /\ RowOf(e)
<1>1. ASSUME NEW a \in Accounts, NEW mode \in {"prepaid", "postpaid"},
             NEW opening \in Amounts \cup {0}, CreateAccount(a, mode, opening),
             ledger' # ledger
      PROVE  \E e : ledger' = ledger \cup {e} /\ ~Used(e.row.key) /\ RowOf(e)
  <2> DEFINE e == [row   |-> Movement(a, "recharge", opening, OpeningKey(a)),
                   moved |-> opening, after |-> opening]
  <2>1. ledger' = ledger \cup {e} BY <1>1 DEF CreateAccount
  <2>2. e.row.account = a /\ e.row.key = OpeningKey(a) BY DEF Movement
  <2>3. ~Used(OpeningKey(a)) BY <1>1 DEF CreateAccount, OpenInv, Used
  <2>4. ~Open(a) /\ Open(a)' BY <1>1 DEF CreateAccount, Open, TypeOK
  <2> HIDE DEF e
  <2>5. RowOf(e) BY <2>2, <2>4 DEF RowOf
  <2> QED BY <2>1, <2>2, <2>3, <2>5
<1>2. ASSUME NEW a \in Accounts, NEW g \in Charges, NEW m \in Amounts,
             ApplyDeduction(a, g, m)
      PROVE  \E e : ledger' = ledger \cup {e} /\ ~Used(e.row.key) /\ RowOf(e)
  <2>1. PICK moved, after : ledger' = ledger \cup
            {[row |-> Movement(a, "deduction", m, ChargeKey(g)),
              moved |-> moved, after |-> after]}
      BY <1>2 DEF ApplyDeduction
  <2> DEFINE e == [row |-> Movement(a, "deduction", m, ChargeKey(g)),
                   moved |-> moved, after |-> after]
  <2>2. e.row.key = ChargeKey(g) BY DEF Movement
  <2>3. ~Used(ChargeKey(g)) BY <1>2 DEF ApplyDeduction
  <2> HIDE DEF e
  <2>4. RowOf(e) BY <2>2 DEF RowOf
  <2> QED BY <2>1, <2>2, <2>3, <2>4 DEF e
<1>3. ASSUME NEW c \in Callers, WriteBalance(c)
      PROVE  \E e : ledger' = ledger \cup {e} /\ ~Used(e.row.key) /\ RowOf(e)
  <2>1. PICK after : /\ ~Used(call[c].row.key)
                     /\ ledger' = ledger \cup
                          {[row |-> call[c].row, moved |-> Delta(call[c].row),
                            after |-> after]}
      BY <1>3 DEF WriteBalance, InsertRow
  <2> DEFINE e == [row |-> call[c].row, moved |-> Delta(call[c].row),
                   after |-> after]
  <2>2. e.row = call[c].row /\ Working(c) BY <1>3 DEF WriteBalance, Working
  <2>3. ledger' = ledger \cup {e} BY <2>1
  <2> HIDE DEF e
  <2>4. RowOf(e) BY <2>2 DEF RowOf
  <2> QED BY <2>1, <2>2, <2>3, <2>4
<1> QED BY <1>1, <1>2, <1>3
        DEF Next, CallStep, vars, Tick, Recharge, Refund, DebitOrganization,
            RechargeOrganization, UpdateAccount, CreatePaymentIntent,
            AutoRechargeOne, Replay, LookUpMiss, ReadAccount, DuplicateKey,
            RetryWrite,
            CheckPending, MarkIntentPaid, PayPaymentIntent, RunOnce, FailCall,
            Restart

\* What a step may do to a call: leave it, end it, move it on before its
\* movement begins, begin an operator's movement or a payment, read the
\* account.
LEMMA CallEffect ==
    ASSUME TypeOK, [Next]_vars, NEW c \in Callers
    PROVE  \/ call'[c] = call[c]
           \/ call'[c].pc \in {"idle", "mark", "marking"}
           \/ /\ call'[c].pc = "begin"
              /\ call'[c].row.account \in Accounts
              /\ account'[call'[c].row.account].mode # "none"
              /\ call'[c].row.key \in Keys
           \/ /\ call'[c].pc = "begin"
              /\ \E i \in AllIntents : /\ intent[i].status # "none"
                                       /\ intent'[i].status = "paid"
                                       /\ call'[c].row = PaymentOf(i)
           \/ /\ Working(c) /\ call'[c].pc = "read"
              /\ call'[c].row = call[c].row
           \/ /\ Working(c) /\ call'[c].pc = "write"
              /\ call'[c].row = call[c].row
              /\ call'[c].read = account[call[c].row.account]
              /\ account' = account
<1> DEFINE Moved ==
      \/ call'[c] = call[c]
      \/ call'[c].pc \in {"idle", "mark", "marking"}
      \/ /\ call'[c].pc = "begin"
         /\ call'[c].row.account \in Accounts
         /\ account'[call'[c].row.account].mode # "none"
         /\ call'[c].row.key \in Keys
      \/ /\ call'[c].pc = "begin"
         /\ \E i \in AllIntents : /\ intent[i].status # "none"
                                  /\ intent'[i].status = "paid"
                                  /\ call'[c].row = PaymentOf(i)
      \/ /\ Working(c) /\ call'[c].pc = "read"
         /\ call'[c].row = call[c].row
      \/ /\ Working(c) /\ call'[c].pc = "write"
         /\ call'[c].row = call[c].row
         /\ call'[c].read = account[call[c].row.account]
         /\ account' = account
<1>1. CASE UNCHANGED call BY <1>1
<1>2. ASSUME NEW d \in Callers, NEW x, call' = [call EXCEPT ![d] = x]
      PROVE  call'[c] = call[c] \/ (c = d /\ call'[c] = x)
  BY <1>2 DEF TypeOK
<1>3. ASSUME NEW d \in Callers, Hang(d) PROVE Moved
  <2>1. NoCall.pc = "idle" BY DEF NoCall
  <2> QED BY <1>2, <1>3, <2>1 DEF Hang
<1>4. ASSUME NEW d \in Clients, NEW a \in Accounts, NEW k \in Keys,
             NEW m \in Amounts,
             \/ Recharge(d, a, k, m) \/ Refund(d, a, k, m)
             \/ RechargeOrganization(d, a, k, m) \/ DebitOrganization(d, a, k, m)
      PROVE  Moved
  <2>1. PICK type \in {"recharge", "refund"} : Start(d, Movement(a, type, m, k))
      BY <1>4 DEF Recharge, Refund, RechargeOrganization, DebitOrganization
  <2>2. account'[a].mode # "none"
    <3>1. account[a].mode \in {"none", "prepaid", "postpaid"}
        BY DEF TypeOK, AccountType
    <3>2. CASE RechargeOrganization(d, a, k, m)
      BY <3>1, <3>2 DEF RechargeOrganization, Open, TypeOK
    <3>3. CASE Recharge(d, a, k, m) \/ Refund(d, a, k, m)
      BY <3>3 DEF Recharge, Refund
    <3>4. CASE DebitOrganization(d, a, k, m)
      BY <3>4 DEF DebitOrganization, Open
    <3> QED BY <1>4, <3>2, <3>3, <3>4
  <2> DEFINE x == [NoCall EXCEPT !.pc = "begin", !.row = Movement(a, type, m, k)]
  <2>3. x.pc = "begin" /\ x.row.account = a /\ x.row.key = k
      BY DEF NoCall, Movement
  <2>4. call' = [call EXCEPT ![d] = x] BY <2>1 DEF Start
  <2>5. d \in Callers BY DEF Callers
  <2> HIDE DEF x
  <2>6. call'[c] = call[c] \/ call'[c] = x BY <1>2, <2>4, <2>5
  <2>7. CASE call'[c] = call[c] BY <2>7
  <2>8. CASE call'[c] = x BY <2>2, <2>3, <2>8
  <2> QED BY <2>6, <2>7, <2>8
<1>5. ASSUME NEW d \in Clients, NEW i \in AllIntents, PayPaymentIntent(d, i)
      PROVE  Moved
  <2> DEFINE x == [NoCall EXCEPT !.pc = "mark", !.intent = i]
  <2>1. x.pc = "mark" BY DEF NoCall
  <2>2. call' = [call EXCEPT ![d] = x] BY <1>5 DEF PayPaymentIntent
  <2>3. d \in Callers BY DEF Callers
  <2> HIDE DEF x
  <2> QED BY <1>2, <2>1, <2>2, <2>3
<1>6. ASSUME NEW p \in Runners, NEW a \in Accounts, AutoRechargeOne(p, a),
             ~UNCHANGED call
      PROVE  Moved
  <2> DEFINE x == [NoCall EXCEPT !.pc = "mark", !.intent = <<a, now>>]
  <2>1. x.pc = "mark" BY DEF NoCall
  <2>2. call' = [call EXCEPT ![p] = x] BY <1>6 DEF AutoRechargeOne
  <2>3. p \in Callers BY DEF Callers
  <2> HIDE DEF x
  <2> QED BY <1>2, <2>1, <2>2, <2>3
<1>7. ASSUME NEW d \in Callers, CheckPending(d) PROVE Moved
  <2>1. CASE Hang(d) BY <1>3, <2>1
  <2>2. CASE call' = [call EXCEPT ![d].pc = "marking"]
    BY <1>7, <2>2 DEF CheckPending, TypeOK
  <2> QED BY <1>7, <2>1, <2>2 DEF CheckPending
<1>8. ASSUME NEW d \in Callers, MarkIntentPaid(d) PROVE Moved
  <2> DEFINE i == call[d].intent
  <2>1. i \in AllIntents /\ intent[i].status # "none"
      BY <1>8 DEF WellFormed, CallType, MarkIntentPaid, TypeOK
  <2>2. intent'[i].status = "paid" BY <1>8, <2>1 DEF MarkIntentPaid, TypeOK
  <2>3. \/ call'[c] = call[c]
        \/ call'[c].pc = "begin" /\ call'[c].row = PaymentOf(i)
      BY <1>8 DEF MarkIntentPaid, TypeOK
  <2> HIDE DEF i
  <2> QED BY <2>1, <2>2, <2>3
<1>9. ASSUME NEW d \in Callers,
             LookUpMiss(d) \/ ReadAccount(d) \/ RetryWrite(d)
      PROVE  Moved
  <2>1. CASE Hang(d) BY <1>3, <2>1
  <2>2. CASE ~Hang(d)
    <3>1. /\ \A b \in Callers \ {d} : call'[b] = call[b]
          /\ Working(d) /\ call'[d].row = call[d].row
          /\ \/ call'[d].pc = "read"
             \/ /\ call'[d].pc = "write"
                /\ call'[d].read = account[call[d].row.account]
                /\ account' = account
        BY <1>9, <2>2 DEF LookUpMiss, ReadAccount, RetryWrite, Working, TypeOK,
                          CallType
    <3> QED BY <3>1
  <2> QED BY <2>1, <2>2
<1>10. CASE Restart BY <1>10 DEF Restart, NoCall
<1>11. Moved
  BY <1>1, <1>3, <1>4, <1>5, <1>6, <1>7, <1>8, <1>9, <1>10
     DEF Next, CallStep, vars, Tick, CreateAccount, UpdateAccount,
         ApplyDeduction, CreatePaymentIntent, Replay, DuplicateKey,
         WriteBalance, RunOnce, FailCall
<1> QED BY <1>11

\* A new intent, and an account a runner will top up, is of an open account.
LEMMA IntentsAreOpen ==
    ASSUME TypeOK, OpenInv, [Next]_vars
    PROVE  /\ \A i \in AllIntents :
                intent'[i].status # "none" =>
                  \/ intent[i].status # "none"
                  \/ Open(intent'[i].account) /\ intent'[i].account \in Accounts
           /\ \A p \in Runners : \A a \in todo'[p] : Open(a) /\ a \in Accounts
<1>1. \A p \in Runners : \A a \in todo[p] : Open(a) /\ a \in Accounts
    BY DEF OpenInv, TypeOK
<1>2. ASSUME NEW j \in Intents, NEW a \in Accounts, NEW m \in Amounts,
             CreatePaymentIntent(j, a, m), NEW i \in AllIntents,
             intent'[i].status # "none", intent[i].status = "none"
      PROVE  Open(intent'[i].account) /\ intent'[i].account \in Accounts
  <2>1. i = j BY <1>2 DEF CreatePaymentIntent, TypeOK
  <2>2. intent'[i].account = a BY <1>2, <2>1 DEF CreatePaymentIntent, TypeOK
  <2> QED BY <1>2, <2>2 DEF CreatePaymentIntent, Open
<1>3. ASSUME NEW p \in Runners, NEW a \in Accounts, AutoRechargeOne(p, a),
             NEW i \in AllIntents,
             intent'[i].status # "none", intent[i].status = "none"
      PROVE  Open(intent'[i].account) /\ intent'[i].account \in Accounts
  <2> DEFINE x == [status |-> "pending", account |-> a, amount |-> TopUp]
  <2>1. intent' = [intent EXCEPT ![<<a, now>>] = x]
      BY <1>3 DEF AutoRechargeOne
  <2>2. intent'[i] = x BY <1>3, <2>1 DEF TypeOK
  <2>3. Open(a) BY <1>1, <1>3 DEF AutoRechargeOne
  <2> QED BY <2>2, <2>3
<1>4. ASSUME NEW c \in Callers, MarkIntentPaid(c), NEW i \in AllIntents,
             intent'[i].status # "none"
      PROVE  intent[i].status # "none"
  BY <1>4 DEF MarkIntentPaid, TypeOK
<1>5. \A i \in AllIntents :
        intent'[i].status # "none" =>
          \/ intent[i].status # "none"
          \/ Open(intent'[i].account) /\ intent'[i].account \in Accounts
  BY <1>2, <1>3, <1>4
     DEF Next, CallStep, vars, Tick, Recharge, Refund, DebitOrganization,
         RechargeOrganization, CreateAccount, UpdateAccount, ApplyDeduction,
         Replay, LookUpMiss, ReadAccount, DuplicateKey, RetryWrite,
         CheckPending,
         WriteBalance, AutoRechargeOne, PayPaymentIntent, RunOnce, FailCall,
         Restart
<1>6. ASSUME NEW p \in Runners, RunOnce(p)
      PROVE  \A q \in Runners : \A a \in todo'[q] : Open(a) /\ a \in Accounts
  BY <1>1, <1>6 DEF RunOnce, Candidates, Open, TypeOK
<1>7. ASSUME NEW p \in Runners, NEW b \in Accounts, AutoRechargeOne(p, b)
      PROVE  \A q \in Runners : \A a \in todo'[q] : Open(a) /\ a \in Accounts
  BY <1>1, <1>7 DEF AutoRechargeOne, TypeOK
<1>8. \A p \in Runners : \A a \in todo'[p] : Open(a) /\ a \in Accounts
  BY <1>1, <1>6, <1>7
     DEF Next, CallStep, vars, Tick, Recharge, Refund, DebitOrganization,
         RechargeOrganization, CreateAccount, UpdateAccount, ApplyDeduction,
         Replay, LookUpMiss, ReadAccount, DuplicateKey, RetryWrite,
         CheckPending,
         WriteBalance, MarkIntentPaid, CreatePaymentIntent, PayPaymentIntent,
         FailCall, Restart
<1> QED BY <1>5, <1>8

-----------------------------------------------------------------------------
(* The invariant is inductive. *)

\* What a call is doing stays justified.
LEMMA CallInvNext ==
    ASSUME TypeOK, CallInv, OpenInv, [Next]_vars
    PROVE  CallInv'
<1> SUFFICES ASSUME NEW c \in Callers, Working(c)'
             PROVE  /\ Open(call[c].row.account)'
                    /\ \/ call'[c].row.key \in Keys
                       \/ \E i \in AllIntents : /\ intent'[i].status = "paid"
                                                /\ call'[c].row = PaymentOf(i)'
    BY DEF CallInv
<1>1. call'[c].pc \in {"begin", "read", "write"} BY DEF Working
<1>2. ASSUME Working(c), call'[c].row = call[c].row
      PROVE  /\ account'[call'[c].row.account].mode # "none"
             /\ \/ call'[c].row.key \in Keys
                \/ \E i \in AllIntents : /\ intent'[i].status = "paid"
                                         /\ call'[c].row = PaymentOf(i)'
  <2>1. call[c].row.account \in Accounts
      BY <1>2 DEF WellFormed, CallType, Working, TypeOK, Movements
  <2>2. account'[call[c].row.account].mode # "none"
      BY <1>2, <2>1, AccountEffect DEF CallInv, AccountMoves, Open
  <2>3. \A i \in AllIntents : intent[i].status = "paid" =>
          intent'[i].status = "paid" /\ PaymentOf(i)' = PaymentOf(i)
      BY IntentEffect
  <2> QED BY <1>2, <2>2, <2>3 DEF CallInv
<1>3. ASSUME NEW i \in AllIntents, intent[i].status # "none",
             intent'[i].status = "paid", call'[c].row = PaymentOf(i)
      PROVE  /\ account'[call'[c].row.account].mode # "none"
             /\ call'[c].row = PaymentOf(i)'
  <2>1. intent[i].account \in Accounts /\ call'[c].row.account = intent[i].account
      BY <1>3, PaymentTyped DEF TypeOK
  <2>2. Open(intent[i].account) BY <1>3 DEF OpenInv
  <2>3. account'[intent[i].account].mode # "none"
      BY <2>1, <2>2, AccountEffect DEF AccountMoves, Open
  <2>4. PaymentOf(i)' = PaymentOf(i) BY <1>3, IntentEffect
  <2> QED BY <1>3, <2>1, <2>3, <2>4
<1>4. /\ account'[call'[c].row.account].mode # "none"
      /\ \/ call'[c].row.key \in Keys
         \/ \E i \in AllIntents : /\ intent'[i].status = "paid"
                                  /\ call'[c].row = PaymentOf(i)'
  <2>1. CASE call'[c] = call[c] BY <1>1, <1>2, <2>1 DEF Working
  <2>2. CASE /\ call'[c].pc = "begin"
             /\ \E i \in AllIntents : /\ intent[i].status # "none"
                                      /\ intent'[i].status = "paid"
                                      /\ call'[c].row = PaymentOf(i)
    BY <1>3, <2>2
  <2> QED BY <1>1, <1>2, <2>1, <2>2, CallEffect
<1> QED BY <1>4 DEF Open

\* What a writer read stays current, or its version gives it away.
LEMMA ReadInvNext ==
    ASSUME TypeOK, CallInv, ReadInv, [Next]_vars
    PROVE  ReadInv'
<1> SUFFICES ASSUME NEW c \in Callers, call'[c].pc = "write"
             PROVE  LET a == call'[c].row.account IN
                    /\ call'[c].read.version <= account'[a].version
                    /\ call'[c].read.version = account'[a].version =>
                         call'[c].read.balance = account'[a].balance
    BY DEF ReadInv
<1> DEFINE a == call[c].row.account
<1>1. CASE call'[c] = call[c]
  <2>1. Working(c) /\ call[c].pc = "write" BY <1>1 DEF Working
  <2>2. a \in Accounts /\ Open(a)
      BY <2>1 DEF WellFormed, CallType, CallInv, Working, TypeOK, Movements
  <2>3. AccountMoves(a) BY <2>2, AccountEffect
  <2>4. /\ call[c].read.version \in Nat /\ account[a].version \in Nat
        /\ account'[a].version \in Nat
      BY <2>2, TypedNext DEF WellFormed, CallType, TypeOK, AccountType
  <2>5. /\ call[c].read.version <= account[a].version
        /\ call[c].read.version = account[a].version =>
             call[c].read.balance = account[a].balance
      BY <2>1 DEF ReadInv
  <2>6. account[a].version <= account'[a].version BY <2>3 DEF AccountMoves
  <2>7. \/ account'[a].balance = account[a].balance
        \/ account[a].version < account'[a].version
      BY <2>2, <2>3 DEF AccountMoves
  <2> HIDE DEF a
  <2>8. /\ call[c].read.version <= account'[a].version
        /\ call[c].read.version = account'[a].version =>
             call[c].read.balance = account'[a].balance
      BY <2>4, <2>5, <2>6, <2>7
  <2> QED BY <1>1, <2>8 DEF a
<1>2. CASE /\ Working(c) /\ call'[c].row = call[c].row
           /\ call'[c].read = account[call[c].row.account]
           /\ account' = account
  <2>1. a \in Accounts /\ account[a].version \in Nat
      BY <1>2 DEF WellFormed, CallType, Working, TypeOK, Movements, AccountType
  <2> QED BY <1>2, <2>1
<1> QED BY <1>1, <1>2, CallEffect

\* Intents, opening rows and top-ups stay of open accounts, and an account
\* that is still closed still holds nothing.
LEMMA OpenInvNext ==
    ASSUME TypeOK, CallInv, OpenInv, [Next]_vars
    PROVE  OpenInv'
<1>1. \A a \in Accounts : Open(a) => account'[a].mode # "none"
    BY AccountEffect DEF AccountMoves, Open
<1>2. ASSUME NEW i \in AllIntents, intent'[i].status # "none"
      PROVE  account'[intent'[i].account].mode # "none"
  <2>1. CASE intent[i].status # "none"
    <3>1. intent'[i].account = intent[i].account BY <2>1, IntentEffect
    <3>2. Open(intent[i].account) /\ intent[i].account \in Accounts
        BY <2>1 DEF OpenInv, TypeOK
    <3> QED BY <1>1, <3>1, <3>2
  <2>2. CASE intent[i].status = "none" BY <1>1, <1>2, <2>2, IntentsAreOpen
  <2> QED BY <2>1, <2>2
<1>3. ASSUME NEW e \in ledger', NEW a \in Accounts, e.row.key = OpeningKey(a)
      PROVE  account'[a].mode # "none"
  <2>1. CASE e \in ledger BY <1>1, <1>3, <2>1 DEF OpenInv
  <2>2. CASE e \notin ledger
    <3>1. RowOf(e) BY <2>2, LedgerEffect
    <3>2. CASE \E b \in Accounts : e.row.key = OpeningKey(b) /\ Open(b)'
      BY <1>3, <3>2, KeysApart DEF Open
    <3>3. CASE \E g \in Charges : e.row.key = ChargeKey(g)
      BY <1>3, <3>3, KeysApart
    <3>4. ASSUME NEW c \in Callers, Working(c), e.row = call[c].row
          PROVE  FALSE
      <4>1. e.row.key \notin Keys BY <1>3, KeysApart
      <4>2. PICK i \in AllIntents : /\ intent[i].status = "paid"
                                    /\ call[c].row = PaymentOf(i)
          BY <3>4, <4>1 DEF CallInv
      <4>3. e.row.key = PaymentKey(i) BY <3>4, <4>2, PaymentTyped
      <4> QED BY <1>3, <4>3, KeysApart
    <3> QED BY <3>1, <3>2, <3>3, <3>4 DEF RowOf
  <2> QED BY <2>1, <2>2
<1>4. \A p \in Runners : \A a \in todo'[p] : account'[a].mode # "none"
    BY <1>1, IntentsAreOpen
<1>5. \A a \in Accounts : account'[a].mode # "none" \/ account'[a].balance = 0
    BY AccountEffect DEF AccountMoves, OpenInv, Open
<1> QED BY <1>2, <1>3, <1>4, <1>5 DEF OpenInv, Open

\* A key is inserted only when no row holds it.
LEMMA KeysSpentNext ==
    ASSUME TypeOK, OpenInv, KeysAreSpentOnce, [Next]_vars
    PROVE  KeysAreSpentOnce'
<1>1. CASE ledger' = ledger BY <1>1 DEF KeysAreSpentOnce
<1>2. CASE \E e : ledger' = ledger \cup {e} /\ ~Used(e.row.key)
  BY <1>2 DEF KeysAreSpentOnce, Used
<1> QED BY <1>1, <1>2, LedgerEffect

\* Rows stay, and a caller is answered with the row of its own movement.
LEMMA SuccessNext ==
    ASSUME TypeOK, OpenInv, SuccessIsRecorded, [Next]_vars
    PROVE  SuccessIsRecorded'
<1>1. ledger \subseteq ledger' BY LedgerEffect
<1> SUFFICES ASSUME NEW row \in answered', row \notin answered
             PROVE  \E e \in ledger' : e.row = row
    BY <1>1 DEF SuccessIsRecorded
<1>2. ASSUME NEW c \in Callers, Replay(c) PROVE \E e \in ledger' : e.row = row
  <2>1. PICK e \in ledger :
          /\ e.row.key = call[c].row.key
          /\ answered' = IF Same(e.row, call[c].row)
                         THEN answered \cup {call[c].row} ELSE answered
      BY <1>2 DEF Replay
  <2>2. row = call[c].row /\ Same(e.row, call[c].row) BY <2>1
  <2>3. e.row \in Movements /\ call[c].row \in Movements
      BY <1>2 DEF WellFormed, CallType, Replay, TypeOK
  <2>4. e.row = row BY <2>1, <2>2, <2>3, SameMovement
  <2> QED BY <1>1, <2>4
<1>3. ASSUME NEW c \in Callers, WriteBalance(c)
      PROVE  \E e \in ledger' : e.row = row
  <2>1. row = call[c].row BY <1>3 DEF WriteBalance
  <2>2. PICK after : ledger' = ledger \cup
          {[row |-> call[c].row, moved |-> Delta(call[c].row), after |-> after]}
      BY <1>3 DEF WriteBalance, InsertRow
  <2> DEFINE e == [row |-> call[c].row, moved |-> Delta(call[c].row),
                   after |-> after]
  <2>3. e \in ledger' /\ e.row = row BY <2>1, <2>2
  <2> HIDE DEF e
  <2> QED BY <2>3
<1> QED BY <1>2, <1>3
        DEF Next, CallStep, vars, Tick, Recharge, Refund, DebitOrganization,
            RechargeOrganization, CreateAccount, UpdateAccount, ApplyDeduction,
            LookUpMiss, ReadAccount, DuplicateKey, RetryWrite, CheckPending,
            MarkIntentPaid,
            CreatePaymentIntent, AutoRechargeOne, PayPaymentIntent, RunOnce,
            FailCall, Restart

\* A payment's row is inserted for a paid intent, which stays paid.
LEMMA CreditedNext ==
    ASSUME TypeOK, CallInv, OpenInv, CreditedIntentIsPaid, [Next]_vars
    PROVE  CreditedIntentIsPaid'
<1> SUFFICES ASSUME NEW i \in AllIntents, NEW e \in ledger',
                    e.row.key = PaymentKey(i)
             PROVE  intent'[i].status = "paid" /\ e.row = PaymentOf(i)'
    BY DEF CreditedIntentIsPaid
<1>1. intent[i].status = "paid" /\ e.row = PaymentOf(i)
  <2>1. CASE e \in ledger BY <2>1 DEF CreditedIntentIsPaid
  <2>2. CASE e \notin ledger
    <3>1. RowOf(e) BY <2>2, LedgerEffect
    <3>2. \E c \in Callers : Working(c) /\ e.row = call[c].row
        BY <3>1, KeysApart DEF RowOf
    <3>3. e.row.key \notin Keys BY KeysApart
    <3>4. PICK j \in AllIntents : intent[j].status = "paid" /\ e.row = PaymentOf(j)
        BY <3>2, <3>3 DEF CallInv
    <3>5. PaymentKey(j) = PaymentKey(i) BY <3>4, PaymentTyped
    <3>6. i = j BY <3>5, KeysApart
    <3> QED BY <3>4, <3>6
  <2> QED BY <2>1, <2>2
<1> QED BY <1>1, IntentEffect

\* The initial state satisfies the invariant.
LEMMA IInvInit == Init => IInv
<1> SUFFICES ASSUME Init PROVE IInv OBVIOUS
<1>1. TypeOK BY TypedInit
<1>2. \A c \in Callers : call[c].pc = "idle" BY DEF Init, NoCall
<1>3. CallInv /\ ReadInv BY <1>2 DEF CallInv, ReadInv, Working
<1>4. OpenInv BY DEF Init, OpenInv, Closed, NoIntent
<1>5. KeysAreSpentOnce /\ SuccessIsRecorded /\ CreditedIntentIsPaid
    BY DEF Init, KeysAreSpentOnce, SuccessIsRecorded, CreditedIntentIsPaid
<1> QED BY <1>1, <1>3, <1>4, <1>5 DEF IInv

\* Every step keeps the invariant.
LEMMA IInvNext == IInv /\ [Next]_vars => IInv'
<1> SUFFICES ASSUME IInv, [Next]_vars PROVE IInv' OBVIOUS
<1>1. /\ TypeOK /\ CallInv /\ ReadInv /\ OpenInv
      /\ KeysAreSpentOnce /\ SuccessIsRecorded /\ CreditedIntentIsPaid
    BY DEF IInv
<1>2. TypeOK' BY <1>1, TypedNext
<1>3. CallInv' /\ ReadInv' /\ OpenInv'
    BY <1>1, CallInvNext, ReadInvNext, OpenInvNext
<1>4. KeysAreSpentOnce' /\ SuccessIsRecorded' /\ CreditedIntentIsPaid'
    BY <1>1, KeysSpentNext, SuccessNext, CreditedNext
<1> QED BY <1>2, <1>3, <1>4 DEF IInv

\* The parts together hold in every reachable state.
LEMMA AccountsInvariant == Spec => []IInv
BY IInvInit, IInvNext, PTL DEF Spec

-----------------------------------------------------------------------------
(* The theorems. *)

\* Every reachable state is well typed: in particular no attempt exceeds
\* maxBalanceRetries, and no intent under way is missing.
THEOREM AccountsTypeCorrect == Spec => []TypeOK
<1>1. IInv => TypeOK BY DEF IInv
<1> QED BY <1>1, AccountsInvariant, PTL

\* No two ledger rows share an idempotency key, however calls race and retry.
THEOREM KeysSpentOnce == Spec => []KeysAreSpentOnce
<1>1. IInv => KeysAreSpentOnce BY DEF IInv
<1> QED BY <1>1, AccountsInvariant, PTL

\* A movement whose caller was told it succeeded is in the ledger.
THEOREM SuccessRecorded == Spec => []SuccessIsRecorded
<1>1. IInv => SuccessIsRecorded BY DEF IInv
<1> QED BY <1>1, AccountsInvariant, PTL

\* A credited intent is marked paid, and credited with its own amount.
THEOREM CreditedPaid == Spec => []CreditedIntentIsPaid
<1>1. IInv => CreditedIntentIsPaid BY DEF IInv
<1> QED BY <1>1, AccountsInvariant, PTL

\* One step's effect on the ledger and the balances.
Explained ==
    /\ ledger \subseteq ledger'
    /\ \A e \in ledger' \ ledger :
         /\ e.after = account'[e.row.account].balance
         /\ e.after = account[e.row.account].balance + e.moved
    /\ \A a \in Accounts :
         account'[a].balance # account[a].balance =>
            \E e \in ledger' \ ledger : e.row.account = a

\* A fresh row that records its account's new balance explains the step.
LEMMA RowExplains ==
    ASSUME NEW a \in Accounts, NEW e, ~Used(e.row.key), e.row.account = a,
           ledger' = ledger \cup {e},
           \A b \in Accounts \ {a} : account'[b].balance = account[b].balance,
           e.after = account'[a].balance,
           e.after = account[a].balance + e.moved
    PROVE  Explained
<1>1. e \notin ledger BY DEF Used
<1> QED BY <1>1 DEF Explained

\* Every step is explained by the ledger.
LEMMA StepExplained == IInv /\ [Next]_vars => Explained
<1> SUFFICES ASSUME IInv, [Next]_vars PROVE Explained OBVIOUS
<1>1. TypeOK /\ CallInv /\ ReadInv /\ OpenInv BY DEF IInv
<1>2. ASSUME ledger' = ledger,
             \A a \in Accounts : account'[a].balance = account[a].balance
      PROVE  Explained
  BY <1>2 DEF Explained
<1>3. ASSUME NEW a \in Accounts, NEW mode \in {"prepaid", "postpaid"},
             NEW opening \in Amounts \cup {0}, CreateAccount(a, mode, opening)
      PROVE  Explained
  <2> DEFINE e == [row   |-> Movement(a, "recharge", opening, OpeningKey(a)),
                   moved |-> opening, after |-> opening]
  <2>1. /\ account'[a].balance = opening
        /\ \A b \in Accounts \ {a} : account'[b].balance = account[b].balance
      BY <1>1, <1>3 DEF CreateAccount, TypeOK, AccountType
  <2>2. account[a].balance = 0 /\ opening \in Nat
      BY <1>1, <1>3, ConstantsAssumption DEF CreateAccount, OpenInv
  <2>3. CASE opening = 0
    <3>1. ledger' = ledger BY <1>3, <2>3 DEF CreateAccount
    <3> QED BY <1>2, <2>1, <2>2, <2>3, <3>1
  <2>4. CASE opening # 0
    <3>1. ledger' = ledger \cup {e} BY <1>3, <2>4 DEF CreateAccount
    <3>2. e.row.account = a /\ e.row.key = OpeningKey(a) BY DEF Movement
    <3>3. ~Used(e.row.key)
        BY <1>1, <1>3, <3>2 DEF CreateAccount, OpenInv, Used
    <3>4. e.after = account'[a].balance /\ e.after = account[a].balance + e.moved
        BY <2>1, <2>2
    <3> HIDE DEF e
    <3> QED BY <2>1, <3>1, <3>2, <3>3, <3>4, RowExplains
  <2> QED BY <2>3, <2>4
<1>4. ASSUME NEW a \in Accounts, NEW g \in Charges, NEW m \in Amounts,
             ApplyDeduction(a, g, m)
      PROVE  Explained
  <2> DEFINE moved == IF account[a].mode = "prepaid" THEN -m ELSE 0
             after == account[a].balance + moved
             e == [row |-> Movement(a, "deduction", m, ChargeKey(g)),
                   moved |-> moved, after |-> after]
  <2>1. ledger' = ledger \cup {e} BY <1>4 DEF ApplyDeduction
  <2>2. account' = [account EXCEPT ![a].balance = after, ![a].version = @ + 1]
      BY <1>4 DEF ApplyDeduction
  <2>3. e.row.account = a /\ e.row.key = ChargeKey(g) BY DEF Movement
  <2>4. ~Used(e.row.key) BY <1>4, <2>3 DEF ApplyDeduction
  <2>5. e.after = after /\ e.after = account[a].balance + e.moved OBVIOUS
  <2> HIDE DEF e, after
  <2>6. /\ account'[a].balance = after
        /\ \A b \in Accounts \ {a} : account'[b].balance = account[b].balance
      BY <1>1, <2>2 DEF TypeOK, AccountType
  <2> QED BY <2>1, <2>3, <2>4, <2>5, <2>6, RowExplains
<1>5. ASSUME NEW c \in Callers, WriteBalance(c) PROVE Explained
  <2> DEFINE row == call[c].row
             a == row.account
             after == call[c].read.balance + Delta(row)
             e == [row |-> row, moved |-> Delta(row), after |-> after]
  <2>1. ledger' = ledger \cup {e} /\ ~Used(e.row.key)
      BY <1>5 DEF WriteBalance, InsertRow
  <2>2. a \in Accounts BY <1>1, <1>5 DEF WellFormed, CallType, WriteBalance, TypeOK, Movements
  <2>3. call[c].read.balance = account[a].balance
      BY <1>1, <1>5 DEF WriteBalance, Current, ReadInv
  <2>4. /\ e.row.account = a /\ e.after = after
        /\ e.after = account[a].balance + e.moved
      BY <2>3
  <2>5. \E v : account' = [account EXCEPT ![a].balance = after, ![a].version = v]
      BY <1>5 DEF WriteBalance
  <2> HIDE DEF e, after, a
  <2>6. /\ account'[a].balance = after
        /\ \A b \in Accounts \ {a} : account'[b].balance = account[b].balance
      BY <1>1, <2>2, <2>5 DEF TypeOK, AccountType
  <2> QED BY <2>1, <2>2, <2>4, <2>6, RowExplains
<1>6. ASSUME NEW a \in Accounts, NEW mode \in {"prepaid", "postpaid"},
             UpdateAccount(a, mode)
      PROVE  Explained
  <2>1. \A b \in Accounts : account'[b].balance = account[b].balance
      BY <1>1, <1>6 DEF UpdateAccount, TypeOK, AccountType
  <2> QED BY <1>2, <1>6, <2>1 DEF UpdateAccount
<1>7. ASSUME NEW c \in Clients, NEW a \in Accounts, NEW k \in Keys,
             NEW m \in Amounts, RechargeOrganization(c, a, k, m)
      PROVE  Explained
  <2>1. \A b \in Accounts : account'[b].balance = account[b].balance
      BY <1>1, <1>7 DEF RechargeOrganization, TypeOK, AccountType
  <2> QED BY <1>2, <1>7, <2>1 DEF RechargeOrganization
<1>8. CASE UNCHANGED <<account, ledger>> BY <1>2, <1>8
<1> QED BY <1>3, <1>4, <1>5, <1>6, <1>7, <1>8
        DEF Next, CallStep, vars, Tick, Recharge, Refund, DebitOrganization,
            Replay, LookUpMiss, ReadAccount, DuplicateKey, RetryWrite,
          CheckPending,
            MarkIntentPaid, CreatePaymentIntent, PayPaymentIntent, RunOnce,
            AutoRechargeOne, FailCall, Restart

-----------------------------------------------------------------------------
(* The balance is the sum of the ledger. *)

\* A sum is of finitely many cents.
SumInv ==
    \A a \in Accounts :
        /\ IsFiniteSet(Added(a)) /\ IsFiniteSet(Taken(a))
        /\ account[a].balance = Cardinality(Added(a)) - Cardinality(Taken(a))

\* A row's cents are its own.
LEMMA CentsAdd ==
    ASSUME NEW A, IsFiniteSet(A), NEW e, NEW m \in Int, \A u \in A : u[1] # e
    PROVE  /\ IsFiniteSet(A \cup ({e} \X (1 .. m)))
           /\ Cardinality(A \cup ({e} \X (1 .. m)))
                = Cardinality(A) + (IF m > 0 THEN m ELSE 0)
<1> DEFINE B == {e} \X (1 .. m)
<1>1. /\ IsFiniteSet(1 .. m)
      /\ Cardinality(1 .. m) = IF m > 0 THEN m ELSE 0
    BY FS_Interval
<1>2. IsFiniteSet({e}) /\ Cardinality({e}) = 1 BY FS_Singleton
<1>3. IsFiniteSet(B) /\ Cardinality(B) = 1 * Cardinality(1 .. m)
    BY <1>1, <1>2, FS_Product
<1>4. A \cap B = {}
  <2> SUFFICES ASSUME NEW u \in A, u \in B PROVE FALSE OBVIOUS
  <2>1. u[1] = e OBVIOUS
  <2> QED BY <2>1
<1> HIDE DEF B
<1>5. Cardinality(A \cap B) = 0 BY <1>4, FS_EmptySet
<1>6. /\ IsFiniteSet(A \cup B)
      /\ Cardinality(A \cup B)
           = Cardinality(A) + Cardinality(B) - Cardinality(A \cap B)
    BY <1>3, FS_Union
<1>7. Cardinality(A) \in Nat BY FS_CardinalityType
<1> QED BY <1>1, <1>3, <1>5, <1>6, <1>7 DEF B

\* A new row adds its cents to its account's sums and to no other's.
LEMMA SumsMove ==
    ASSUME NEW e, e \notin ledger, ledger' = ledger \cup {e}, NEW a
    PROVE  IF e.row.account = a
           THEN /\ Added(a)' = Added(a) \cup ({e} \X (1 .. e.moved))
                /\ Taken(a)' = Taken(a) \cup ({e} \X (1 .. -e.moved))
                /\ \A u \in Added(a) \cup Taken(a) : u[1] # e
           ELSE Added(a)' = Added(a) /\ Taken(a)' = Taken(a)
<1>1. CASE e.row.account = a
  <2>1. RowsOf(a)' = RowsOf(a) \cup {e} BY <1>1 DEF RowsOf
  <2>2. e \notin RowsOf(a) BY DEF RowsOf
  <2>3. Added(a)' = Added(a) \cup ({e} \X (1 .. e.moved))
      BY <2>1 DEF Added
  <2>4. Taken(a)' = Taken(a) \cup ({e} \X (1 .. -e.moved))
      BY <2>1 DEF Taken
  <2>5. \A u \in Added(a) \cup Taken(a) : u[1] # e
      BY <2>2 DEF Added, Taken
  <2> QED BY <1>1, <2>3, <2>4, <2>5
<1>2. CASE e.row.account # a
  <2>1. RowsOf(a)' = RowsOf(a) BY <1>2 DEF RowsOf
  <2> QED BY <1>2, <2>1 DEF Added, Taken
<1> QED BY <1>1, <1>2

\* An empty ledger sums to nothing.
LEMMA SumInit == Init => SumInv
<1> SUFFICES ASSUME Init, NEW a \in Accounts
             PROVE  /\ IsFiniteSet(Added(a)) /\ IsFiniteSet(Taken(a))
                    /\ account[a].balance
                         = Cardinality(Added(a)) - Cardinality(Taken(a))
    BY DEF SumInv
<1>1. Added(a) = {} /\ Taken(a) = {} BY DEF Init, Added, Taken, RowsOf
<1>2. account[a].balance = 0 BY DEF Init, Closed
<1> QED BY <1>1, <1>2, FS_EmptySet

\* Whatever moves the balance moves the sum as far.
LEMMA SumNext == IInv /\ IInv' /\ SumInv /\ [Next]_vars => SumInv'
<1> SUFFICES ASSUME IInv, IInv', SumInv, [Next]_vars, NEW a \in Accounts
             PROVE  /\ IsFiniteSet(Added(a)') /\ IsFiniteSet(Taken(a)')
                    /\ account'[a].balance
                         = Cardinality(Added(a)') - Cardinality(Taken(a)')
    BY DEF SumInv
<1>1. Explained BY StepExplained
<1>2. /\ IsFiniteSet(Added(a)) /\ IsFiniteSet(Taken(a))
      /\ account[a].balance = Cardinality(Added(a)) - Cardinality(Taken(a))
    BY DEF SumInv
<1>3. CASE ledger' = ledger
  <2>1. account'[a].balance = account[a].balance BY <1>1, <1>3 DEF Explained
  <2>2. Added(a)' = Added(a) /\ Taken(a)' = Taken(a)
      BY <1>3 DEF Added, Taken, RowsOf
  <2> QED BY <1>2, <2>1, <2>2
<1>4. ASSUME NEW e, ledger' = ledger \cup {e}, ~Used(e.row.key)
      PROVE  /\ IsFiniteSet(Added(a)') /\ IsFiniteSet(Taken(a)')
             /\ account'[a].balance
                  = Cardinality(Added(a)') - Cardinality(Taken(a)')
  <2>1. e \notin ledger BY <1>4 DEF Used
  <2>2. e.moved \in Int BY <1>4 DEF IInv, TypeOK
  <2>3. CASE e.row.account = a
    <3>1. account'[a].balance = account[a].balance + e.moved
        BY <1>1, <1>4, <2>1, <2>3 DEF Explained
    <3>2. /\ Added(a)' = Added(a) \cup ({e} \X (1 .. e.moved))
          /\ Taken(a)' = Taken(a) \cup ({e} \X (1 .. -e.moved))
          /\ \A u \in Added(a) \cup Taken(a) : u[1] # e
        BY <1>4, <2>1, <2>3, SumsMove
    <3> DEFINE A == Added(a)
               T == Taken(a)
               down == -e.moved
    <3>3. /\ \A u \in A : u[1] # e
          /\ \A u \in T : u[1] # e
          /\ IsFiniteSet(A) /\ IsFiniteSet(T)
          /\ e.moved \in Int /\ down \in Int
        BY <1>2, <2>2, <3>2
    <3> HIDE DEF A, T, down
    <3>4. /\ IsFiniteSet(A \cup ({e} \X (1 .. e.moved)))
          /\ Cardinality(A \cup ({e} \X (1 .. e.moved)))
               = Cardinality(A) + (IF e.moved > 0 THEN e.moved ELSE 0)
        BY <3>3, CentsAdd
    <3>5. /\ IsFiniteSet(T \cup ({e} \X (1 .. down)))
          /\ Cardinality(T \cup ({e} \X (1 .. down)))
               = Cardinality(T) + (IF down > 0 THEN down ELSE 0)
        BY <3>3, CentsAdd
    <3>6. Cardinality(Added(a)) \in Nat /\ Cardinality(Taken(a)) \in Nat
        BY <1>2, FS_CardinalityType
    <3> QED BY <1>2, <2>2, <3>1, <3>2, <3>4, <3>5, <3>6 DEF A, T, down
  <2>4. CASE e.row.account # a
    <3>1. account'[a].balance = account[a].balance
        BY <1>1, <1>4, <2>4 DEF Explained
    <3>2. Added(a)' = Added(a) /\ Taken(a)' = Taken(a)
        BY <1>4, <2>1, <2>4, SumsMove
    <3> QED BY <1>2, <3>1, <3>2
  <2> QED BY <2>3, <2>4
<1>5. TypeOK /\ OpenInv BY DEF IInv
<1> QED BY <1>3, <1>4, <1>5, LedgerEffect

\* The ledger explains every step of every balance: no lost update, no
\* movement applied twice, half-applied or unrecorded, with any number of
\* concurrent callers.
THEOREM LedgerExplains == Spec => LedgerExplainsBalance
<1>1. [][Explained]_vars => LedgerExplainsBalance
    BY DEF LedgerExplainsBalance, Explained
<1> QED BY <1>1, StepExplained, AccountsInvariant, PTL DEF Spec

\* Every balance is the sum of its ledger rows: nobody's movement is lost to
\* or repeated by anybody else's, however many race on the account.
THEOREM BalanceSumsLedger == Spec => []BalanceIsLedgerSum
<1>1. SumInv => BalanceIsLedgerSum BY DEF SumInv, BalanceIsLedgerSum
<1> QED BY <1>1, SumInit, SumNext, AccountsInvariant, PTL DEF Spec

-----------------------------------------------------------------------------
(* Payments. *)

\* A call on its way to credit an intent goes on, credits it, finds it
\* credited, fails or gives up.
LEMMA CarrierStays ==
    ASSUME TypeOK, [Next]_vars, NEW i \in AllIntents, NEW c \in Callers,
           Paying(c, i)
    PROVE  \/ Paying(c, i)'
           \/ Used(PaymentKey(i))'
           \/ faults' > faults
           \/ GivesUp(c)
<1> DEFINE Goal == \/ Paying(c, i)'
                   \/ Used(PaymentKey(i))'
                   \/ faults' > faults
                   \/ GivesUp(c)
<1>1. CASE call'[c] = call[c] BY <1>1 DEF Paying
<1>2. call[c].pc \notin {"idle", "mark", "marking"} BY DEF Paying
<1>3. ASSUME NEW d \in Callers, NEW x, call' = [call EXCEPT ![d] = x], d # c
      PROVE  Goal
  <2>1. call'[c] = call[c] BY <1>3 DEF TypeOK
  <2> QED BY <1>1, <2>1
<1>4. ASSUME NEW d \in Callers, CallStep(d) PROVE Goal
  <2>1. CASE d # c
    <3>1. \E x : call' = [call EXCEPT ![d] = x]
        BY <1>4 DEF CallStep, Replay, LookUpMiss, ReadAccount, WriteBalance,
                    DuplicateKey, RetryWrite, CheckPending, MarkIntentPaid, Hang
    <3> QED BY <1>3, <2>1, <3>1
  <2>2. CASE d = c
    <3>1. CASE Replay(c) BY <3>1 DEF Replay, Paying, Used
    <3>2. CASE LookUpMiss(c) \/ ReadAccount(c)
      <4>1. call'[c].pc \in {"read", "write"} /\ call'[c].row = call[c].row
          BY <3>2 DEF LookUpMiss, ReadAccount, TypeOK, CallType
      <4> QED BY <4>1 DEF Paying, PaymentKey
    <3>3. CASE WriteBalance(c)
      <4>1. PICK after : ledger' = ledger \cup
              {[row |-> call[c].row, moved |-> Delta(call[c].row),
                after |-> after]}
          BY <3>3 DEF WriteBalance, InsertRow
      <4> DEFINE e == [row |-> call[c].row, moved |-> Delta(call[c].row),
                       after |-> after]
      <4>2. e \in ledger' /\ e.row = call[c].row BY <4>1
      <4> HIDE DEF e
      <4>3. e.row.key = PaymentKey(i) BY <4>2 DEF Paying
      <4> QED BY <4>2, <4>3 DEF Used, PaymentKey
    <3>4. CASE DuplicateKey(c) BY <3>4 DEF DuplicateKey, Paying, Used
    <3>5. CASE RetryWrite(c)
      <4>1. CASE call[c].tries < MaxRetries
        BY <3>5, <4>1 DEF RetryWrite, Paying, TypeOK, CallType
      <4>2. CASE ~(call[c].tries < MaxRetries)
        <5>1. call[c].tries \in 0 .. MaxRetries BY DEF TypeOK, CallType
        <5>2. call[c].tries = MaxRetries
            BY <4>2, <5>1, ConstantsAssumption
        <5> QED BY <3>5, <5>2 DEF RetryWrite, GivesUp
      <4> QED BY <4>1, <4>2
    <3> QED BY <1>2, <1>4, <2>2, <3>1, <3>2, <3>3, <3>4, <3>5
            DEF CallStep, CheckPending, MarkIntentPaid
  <2> QED BY <2>1, <2>2
<1>5. CASE Fault BY <1>5 DEF Fault, TypeOK
<1>6. ASSUME NEW d \in Clients, NEW a \in Accounts, NEW k \in Keys,
             NEW m \in Amounts,
             \/ Recharge(d, a, k, m) \/ Refund(d, a, k, m)
             \/ RechargeOrganization(d, a, k, m) \/ DebitOrganization(d, a, k, m)
      PROVE  Goal
  <2>1. \E row : Start(d, row)
      BY <1>6 DEF Recharge, Refund, RechargeOrganization, DebitOrganization
  <2>2. d \in Callers BY DEF Callers
  <2> QED BY <1>2, <1>3, <2>1, <2>2 DEF Start
<1>7. ASSUME NEW d \in Clients, NEW j \in AllIntents, PayPaymentIntent(d, j)
      PROVE  Goal
  <2>1. d \in Callers BY DEF Callers
  <2> QED BY <1>2, <1>3, <1>7, <2>1 DEF PayPaymentIntent
<1>8. ASSUME NEW p \in Runners, NEW a \in Accounts, AutoRechargeOne(p, a)
      PROVE  Goal
  <2>1. p \in Callers BY DEF Callers
  <2>2. CASE UNCHANGED call BY <1>1, <2>2
  <2>3. CASE call' = [call EXCEPT ![p] =
                        [NoCall EXCEPT !.pc = "mark", !.intent = <<a, now>>]]
    BY <1>2, <1>3, <1>8, <2>1, <2>3 DEF AutoRechargeOne
  <2> QED BY <1>8, <2>2, <2>3 DEF AutoRechargeOne
<1>9. Goal
  BY <1>1, <1>4, <1>5, <1>6, <1>7, <1>8
     DEF Next, vars, Tick, CreateAccount, UpdateAccount, ApplyDeduction,
         CreatePaymentIntent, RunOnce, FailCall, Restart
<1> QED BY <1>9

\* Whoever marks an intent paid is on its way to credit it.
LEMMA MarkerPays ==
    ASSUME TypeOK, [Next]_vars, NEW i \in AllIntents,
           intent'[i].status = "paid", intent[i].status # "paid"
    PROVE  \E c \in Callers : Paying(c, i)'
<1>1. ASSUME NEW c \in Callers, MarkIntentPaid(c)
      PROVE  \E d \in Callers : Paying(d, i)'
  <2>1. call[c].intent = i BY <1>1 DEF MarkIntentPaid, TypeOK
  <2>2. call'[c].pc = "begin" /\ call'[c].row = PaymentOf(i)
      BY <1>1, <2>1 DEF MarkIntentPaid, TypeOK, CallType
  <2>3. PaymentOf(i).key = PaymentKey(i) BY DEF PaymentOf, Movement
  <2> QED BY <2>2, <2>3 DEF Paying, PaymentKey
<1>2. ASSUME NEW j \in Intents, NEW a \in Accounts, NEW m \in Amounts,
             CreatePaymentIntent(j, a, m)
      PROVE  FALSE
  BY <1>2 DEF CreatePaymentIntent, TypeOK
<1>3. ASSUME NEW p \in Runners, NEW a \in Accounts, AutoRechargeOne(p, a)
      PROVE  FALSE
  <2>1. \/ intent' = intent
        \/ intent' = [intent EXCEPT ![<<a, now>>] =
                        [status |-> "pending", account |-> a, amount |-> TopUp]]
      BY <1>3 DEF AutoRechargeOne
  <2> DEFINE x == [status |-> "pending", account |-> a, amount |-> TopUp]
  <2>2. x.status = "pending" OBVIOUS
  <2> HIDE DEF x
  <2>3. intent'[i] = intent[i] \/ intent'[i] = x
    <3>1. CASE intent' = intent BY <3>1
    <3>2. CASE intent' = [intent EXCEPT ![<<a, now>>] = x]
      BY <3>2 DEF TypeOK
    <3> QED BY <2>1, <3>1, <3>2 DEF x
  <2> QED BY <2>2, <2>3
<1> QED BY <1>1, <1>2, <1>3
        DEF Next, CallStep, vars, Tick, CreateAccount, UpdateAccount,
            ApplyDeduction, Recharge, Refund, RechargeOrganization,
            DebitOrganization, Replay, LookUpMiss, ReadAccount, WriteBalance,
            DuplicateKey, RetryWrite, CheckPending, PayPaymentIntent, RunOnce,
            FailCall, Restart

\* A paid intent stays covered: with all races of its payers, the runner and
\* other movements, only a failure or an exhausted retry leaves it uncredited.
THEOREM PaymentsCovered == Spec => PaymentLostOnlyByFailure
<1> DEFINE Kept ==
      \A i \in AllIntents :
          intent'[i].status = "paid" /\ ~Covered(i)' =>
             \/ intent[i].status = "paid" /\ ~Covered(i)
             \/ faults' > faults
             \/ \E c \in Callers : Paying(c, i) /\ GivesUp(c)
<1>1. IInv /\ [Next]_vars => Kept
  <2> SUFFICES ASSUME IInv, [Next]_vars, NEW i \in AllIntents,
                      intent'[i].status = "paid", ~Covered(i)'
               PROVE  \/ intent[i].status = "paid" /\ ~Covered(i)
                      \/ faults' > faults
                      \/ \E c \in Callers : Paying(c, i) /\ GivesUp(c)
      OBVIOUS
  <2>1. TypeOK /\ OpenInv BY DEF IInv
  <2>2. intent[i].status = "paid"
    <3> SUFFICES ASSUME intent[i].status # "paid" PROVE FALSE OBVIOUS
    <3>1. \E c \in Callers : Paying(c, i)' BY <2>1, MarkerPays
    <3> QED BY <3>1 DEF Covered
  <2>3. ~Used(PaymentKey(i))' /\ \A c \in Callers : ~Paying(c, i)'
      BY DEF Covered
  <2>4. ~Used(PaymentKey(i))
    <3>1. ledger \subseteq ledger' BY <2>1, LedgerEffect
    <3> QED BY <2>3, <3>1 DEF Used, PaymentKey
  <2>5. ASSUME NEW c \in Callers, Paying(c, i)
        PROVE  faults' > faults \/ GivesUp(c)
    BY <2>1, <2>3, <2>5, CarrierStays
  <2> QED BY <2>2, <2>4, <2>5 DEF Covered
<1>2. [][Kept]_vars => PaymentLostOnlyByFailure
    BY DEF PaymentLostOnlyByFailure
<1> QED BY <1>1, <1>2, AccountsInvariant, PTL DEF Spec
=============================================================================
