---------------------------- MODULE TransferRules ----------------------------
(***************************************************************************)
(* What a transfer of the five-bells ledger is, and what one request may   *)
(* turn it into: the pure part of src/src/models/transfers.js, with the    *)
(* state dictionary of five-bells-shared it relies on.  Nothing here has a *)
(* state; Ledger and LedgerServer extend this module.                      *)
(*                                                                         *)
(* The content a client may never change (debits, credits, conditions,     *)
(* expires_at) is a function of the transfer's id, given as constants: a   *)
(* PUT with another content under a known id is refused whatever the state *)
(* (updateTransferObject's final comparison), so no action submits one.    *)
(***************************************************************************)
EXTENDS Integers, FiniteSets, Functions

CONSTANTS
    Accounts,         \* account names
    Admin,            \* the user with is_admin; every other user owns an account
    Transfers,        \* transfer ids
    Debit,            \* Debit[t]: a function from the debited accounts to amounts
    Credit,           \* Credit[t]: a function from the credited accounts to amounts
    HasExecution,     \* the transfers with an execution_condition
    HasCancellation,  \* the transfers with a cancellation_condition
    ExpiresAt,        \* ExpiresAt[t]: the expires_at of a transfer, or NoTime
    CreditAuth,       \* the features.hasCreditAuth flag of the configuration
    InitialBalance,   \* balances before the first transfer
    MinBalance        \* minimum_allowed_balance of each account

NoTime == -1

ASSUME ContentAssumption ==
    /\ \A t \in Transfers :
          /\ DOMAIN Debit[t] \subseteq Accounts
          /\ DOMAIN Credit[t] \subseteq Accounts
          /\ \A a \in DOMAIN Debit[t] : Debit[t][a] \in Int
          /\ \A a \in DOMAIN Credit[t] : Credit[t][a] \in Int
    /\ HasExecution \subseteq Transfers
    /\ HasCancellation \subseteq Transfers
    /\ ExpiresAt \in [Transfers -> Nat \cup {NoTime}]
    /\ CreditAuth \in BOOLEAN
    /\ Admin \notin Accounts
    /\ Accounts \cap Transfers = {}

(* There are as many accounts and transfers as their tables have rows.       *)
ASSUME FinitenessAssumption == IsFiniteSet(Accounts) /\ IsFiniteSet(Transfers)

ASSUME BalanceAssumption ==
    /\ InitialBalance \in [Accounts -> Int]
    /\ MinBalance \in [Accounts -> Int]
    /\ \A a \in Accounts : InitialBalance[a] >= MinBalance[a]

------------------------------------------------------------------------------
(* The transfer states and the sets the code tests them against.           *)

States == {"nonexistent", "proposed", "prepared", "executed", "rejected"}
FinalStates == {"executed", "rejected"}
ValidExecutionStates == {"prepared"}
ValidCancellationStates == {"proposed", "prepared"}

Reasons == {"none", "cancelled", "expired"}
Conditions == {"none", "execution", "cancellation"}
Moves == {"hold", "disburse", "return"}

Users == Accounts \cup {Admin}
Debtors(t) == DOMAIN Debit[t]
Creditors(t) == DOMAIN Credit[t]

(* The `authorized: true` marks a transfer can carry, one per debit and per  *)
(* credit.                                                                   *)
Marks(t) == ({"debit"} \X Debtors(t)) \cup ({"credit"} \X Creditors(t))
AllMarks == {"debit", "credit"} \X Accounts

(* What the tables hold of one transfer: its row in L_TRANSFERS, the flags   *)
(* of its L_TRANSFER_ADJUSTMENTS and the condition its L_FULFILLMENTS row    *)
(* met ("none" when it has none).                                            *)
Rows == [state : States, auth : SUBSET AllMarks, rejectedBy : SUBSET Accounts,
         reason : Reasons, executedAt : Int, fulfillment : Conditions]

NoRow == [state |-> "nonexistent", auth |-> {}, rejectedBy |-> {},
          reason |-> "none", executedAt |-> NoTime, fulfillment |-> "none"]

------------------------------------------------------------------------------
(* Amounts.                                                                *)

Positive(amounts) == \A a \in DOMAIN amounts : amounts[a] > 0

(* Faulty variant: the totals are not compared.                              *)
ValidAmountsUnbalanced(t) == Positive(Debit[t]) /\ Positive(Credit[t])

ValidAmounts(t) ==
    /\ Positive(Debit[t])
    /\ Positive(Credit[t])
    /\ SumFunction(Debit[t]) = SumFunction(Credit[t])

DebitOf(t, a) == IF a \in Debtors(t) THEN Debit[t][a] ELSE 0
CreditOf(t, a) == IF a \in Creditors(t) THEN Credit[t][a] ELSE 0

(* What the statements of lib/holds.js add to the balance of one account.    *)
Change(t, moves, a) ==
    (IF "hold" \in moves THEN -DebitOf(t, a) ELSE 0)
    + (IF "disburse" \in moves THEN CreditOf(t, a) ELSE 0)
    + (IF "return" \in moves THEN DebitOf(t, a) ELSE 0)

(* The accounts those statements update, and lock until the commit.          *)
AccountsOf(t, moves) ==
    (IF moves \cap {"hold", "return"} # {} THEN Debtors(t) ELSE {})
    \cup (IF "disburse" \in moves THEN Creditors(t) ELSE {})

------------------------------------------------------------------------------
(* Requests.  One record serves the three kinds: PUT /transfers/:id (which   *)
(* is also what a rejection becomes), PUT /transfers/:id/fulfillment and the *)
(* expiry of a watched transfer.                                             *)

Jobs == [op : {"put", "fulfill", "expire"}, id : Transfers, by : Users,
         auth : SUBSET AllMarks, rejectedBy : SUBSET Accounts,
         reason : Reasons, condition : Conditions]

NotExpired(t, now) == ExpiresAt[t] # NoTime => now <= ExpiresAt[t]

IsFinal(state) == state \in FinalStates

(* Faulty variant: only the credits are looked at.                           *)
IsAuthorizedByCreditors(t, auth) ==
    CreditAuth => {"credit"} \X Creditors(t) \subseteq auth

IsAuthorized(t, auth) ==
    /\ {"debit"} \X Debtors(t) \subseteq auth
    /\ CreditAuth => {"credit"} \X Creditors(t) \subseteq auth

(* updateTransferObject: the submitted object must contain every mark stored *)
(* before it and may add some; the rejection reason must be the stored one.  *)
Mergeable(old, job) ==
    old.state # "nonexistent" =>
        /\ old.auth \subseteq job.auth
        /\ old.rejectedBy \subseteq job.rejectedBy
        /\ old.reason = job.reason

(* Faulty variant of Permitted: a party may add the marks of the others.     *)
PermittedToParties(t, old, job) ==
    job.by # Admin => job.by \in Debtors(t) \cup Creditors(t)

(* validateIsAffectedAccount and validateAuthorizationsAndRejections: anyone *)
(* but an admin is a party, and adds marks of its own account only.          *)
Permitted(t, old, job) ==
    job.by # Admin =>
        /\ job.by \in Debtors(t) \cup Creditors(t)
        /\ \A mark \in job.auth \ old.auth : mark[2] = job.by
        /\ job.rejectedBy \ old.rejectedBy \subseteq {job.by}

PutAccepted(t, old, job) == Mergeable(old, job) /\ Permitted(t, old, job)

------------------------------------------------------------------------------
(* The three stages a PUT passes through: to prepared when every required    *)
(* mark is there, to executed when nothing else is awaited, to rejected when *)
(* a credit is.                                                              *)

StateOnArrival(old) ==
    IF old.state = "nonexistent" THEN "proposed" ELSE old.state

Prepares(t, old, job) ==
    StateOnArrival(old) = "proposed" /\ IsAuthorized(t, job.auth)

StateIfPrepared(t, old, job) ==
    IF Prepares(t, old, job) THEN "prepared" ELSE StateOnArrival(old)

Executes(t, old, job) ==
    StateIfPrepared(t, old, job) = "prepared" /\ t \notin HasExecution

StateIfExecuted(t, old, job) ==
    IF Executes(t, old, job) THEN "executed" ELSE StateIfPrepared(t, old, job)

Rejects(t, old, job) ==
    StateIfExecuted(t, old, job) # "rejected" /\ job.rejectedBy # {}

(* processCreditRejection throws outside the valid cancellation states.      *)
RejectionAllowed(t, old, job) ==
    Rejects(t, old, job) =>
        StateIfExecuted(t, old, job) \in ValidCancellationStates

(* Faulty variant: the rejection of a prepared transfer forgets the refund.  *)
PutMovesWithoutReturn(t, old, job) ==
    (IF Prepares(t, old, job) THEN {"hold"} ELSE {})
    \cup (IF Executes(t, old, job) THEN {"disburse"} ELSE {})

PutMoves(t, old, job) ==
    (IF Prepares(t, old, job) THEN {"hold"} ELSE {})
    \cup (IF Executes(t, old, job) THEN {"disburse"} ELSE {})
    \cup (IF Rejects(t, old, job) /\ StateIfExecuted(t, old, job) = "prepared"
          THEN {"return"} ELSE {})

PutRow(t, old, job, now) ==
    [state |-> IF Rejects(t, old, job) THEN "rejected"
               ELSE StateIfExecuted(t, old, job),
     auth |-> job.auth,
     rejectedBy |-> job.rejectedBy,
     reason |-> IF Rejects(t, old, job) THEN "cancelled" ELSE job.reason,
     executedAt |-> IF Executes(t, old, job) THEN now ELSE old.executedAt,
     fulfillment |-> old.fulfillment]

------------------------------------------------------------------------------
(* Fulfilments.  A fulfilment that matches neither condition is refused with *)
(* no effect; `condition` names the one it matches.                          *)

MatchesCondition(t, condition) ==
    \/ condition = "execution" /\ t \in HasExecution
    \/ condition = "cancellation" /\ t \in HasCancellation

(* The same fulfilment again: answered from the database.  For a rejected    *)
(* transfer getFulfillment throws, so only executions are replayed.          *)
IsReplay(old, condition) ==
    condition = "execution" /\ old.state = "executed"

FulfillAllowed(old, condition) ==
    \/ condition = "execution" /\ old.state \in ValidExecutionStates
    \/ condition = "cancellation" /\ old.state \in ValidCancellationStates

(* Faulty variant: a cancellation refunds what was never held, too.          *)
FulfillMovesAlwaysReturn(old, condition) ==
    IF condition = "execution" THEN {"disburse"} ELSE {"return"}

FulfillMoves(old, condition) ==
    IF condition = "execution" THEN {"disburse"}
    ELSE IF old.state = "prepared" THEN {"return"} ELSE {}

FulfillRow(old, condition, validatedAt) ==
    IF condition = "execution"
    THEN [old EXCEPT !.state = "executed", !.executedAt = validatedAt,
                     !.fulfillment = condition]
    ELSE [old EXCEPT !.state = "rejected", !.reason = "cancelled",
                     !.fulfillment = condition]

------------------------------------------------------------------------------
(* Expiry.                                                                 *)

(* Faulty variant: only prepared transfers are given up.                     *)
ExpirableIfPrepared(old) == old.state = "prepared"

Expirable(old) == old.state # "nonexistent" /\ ~IsFinal(old.state)

ExpireMoves(old) == IF old.state = "prepared" THEN {"return"} ELSE {}

(* Faulty variant: the reason ends up in the state.                          *)
ExpireRowAsState(old) == [old EXCEPT !.state = "expired"]

ExpireRow(old) == [old EXCEPT !.state = "rejected", !.reason = "expired"]
=============================================================================
