-------------------------------- MODULE Ledger --------------------------------
(***************************************************************************)
(* What the ledger promises, one step per transition of a transfer.  The   *)
(* balances, the state of a transfer and the condition its fulfilment met  *)
(* change together or not at all; there are no requests, transactions,     *)
(* clocks or failures here.  LedgerServer implements this module.          *)
(***************************************************************************)
EXTENDS TransferRules

VARIABLES
    state,        \* state[t]: the state of a transfer
    balance,      \* balance[a]: the spendable balance of an account
    fulfillment   \* fulfillment[t]: the condition that was met, or "none"

vars == <<state, balance, fulfillment>>

(* Unfinished: neither final nor waiting for a condition.                    *)
Open(t) == state[t] \in {"nonexistent", "proposed"}

(* Faulty variant of Covered: the balance is compared before the debit.      *)
CoveredBefore(t) == \A a \in Debtors(t) : balance[a] >= MinBalance[a]

(* Every sender can give up its debit (the CHECK on L_ACCOUNTS.BALANCE).     *)
Covered(t) == \A a \in Debtors(t) : balance[a] - Debit[t][a] >= MinBalance[a]

Become(t, s) == state' = [state EXCEPT ![t] = s]

Pay(t, moves) ==
    balance' = [a \in Accounts |-> balance[a] + Change(t, moves, a)]

Init ==
    /\ state = [t \in Transfers |-> "nonexistent"]
    /\ balance = InitialBalance
    /\ fulfillment = [t \in Transfers |-> "none"]

(* A transfer is known but some of its senders have not agreed yet.          *)
Propose(t) ==
    /\ state[t] = "nonexistent"
    /\ ValidAmounts(t)
    /\ Become(t, "proposed")
    /\ UNCHANGED <<balance, fulfillment>>

(* Everybody agreed to a transfer with an execution condition: the money is  *)
(* taken from the senders and held.                                          *)
Prepare(t) ==
    /\ Open(t)
    /\ ValidAmounts(t)
    /\ t \in HasExecution
    /\ Covered(t)
    /\ Become(t, "prepared")
    /\ Pay(t, {"hold"})
    /\ UNCHANGED fulfillment

(* Faulty variant of ExecuteAtOnce: the condition is not awaited.            *)
ExecuteUnconditionally(t) ==
    /\ Open(t)
    /\ ValidAmounts(t)
    /\ Covered(t)
    /\ Become(t, "executed")
    /\ Pay(t, {"hold", "disburse"})
    /\ UNCHANGED fulfillment

(* Everybody agreed to a transfer without one: it is prepared and executed   *)
(* in one step.                                                              *)
ExecuteAtOnce(t) ==
    /\ Open(t)
    /\ ValidAmounts(t)
    /\ t \notin HasExecution
    /\ Covered(t)
    /\ Become(t, "executed")
    /\ Pay(t, {"hold", "disburse"})
    /\ UNCHANGED fulfillment

(* The execution condition is met: the held money goes to the receivers.     *)
Execute(t) ==
    /\ state[t] = "prepared"
    /\ Become(t, "executed")
    /\ Pay(t, {"disburse"})
    /\ fulfillment' = [fulfillment EXCEPT ![t] = "execution"]

(* The cancellation condition is met: the held money, if any, goes back.     *)
Cancel(t) ==
    /\ state[t] \in {"proposed", "prepared"}
    /\ t \in HasCancellation
    /\ Become(t, "rejected")
    /\ Pay(t, IF state[t] = "prepared" THEN {"return"} ELSE {})
    /\ fulfillment' = [fulfillment EXCEPT ![t] = "cancellation"]

(* Faulty variant of Reject: an executed transfer can be declined.           *)
RejectExecuted(t) ==
    /\ state[t] # "rejected"
    /\ ValidAmounts(t)
    /\ Become(t, "rejected")
    /\ Pay(t, IF state[t] = "prepared" THEN {"return"} ELSE {})
    /\ UNCHANGED fulfillment

(* A receiver declines, or the transfer expires.                             *)
Reject(t) ==
    /\ ~IsFinal(state[t])
    /\ ValidAmounts(t)
    /\ Become(t, "rejected")
    /\ Pay(t, IF state[t] = "prepared" THEN {"return"} ELSE {})
    /\ UNCHANGED fulfillment

Move(t) ==
    \/ Propose(t)
    \/ Prepare(t)
    \/ ExecuteAtOnce(t)
    \/ Execute(t)
    \/ Cancel(t)
    \/ Reject(t)


Next == \E t \in Transfers : Move(t)

Spec == Init /\ [][Next]_vars

------------------------------------------------------------------------------
(* The state, the balances and the recorded fulfilments have their types.    *)
TypeOK ==
    /\ state \in [Transfers -> States]
    /\ balance \in [Accounts -> Int]
    /\ fulfillment \in [Transfers -> Conditions]

(* No account is ever taken below its minimum, whatever the order in which   *)
(* holds, disbursals and refunds reach it (the CHECK of sql/pg/1-2.sql and   *)
(* the positive amounts of validatePositiveAmounts).                         *)
NoOverdraft == \A a \in Accounts : balance[a] >= MinBalance[a]

HeldBy(t) == IF state[t] = "prepared" THEN SumFunction(Debit[t]) ELSE 0

(* Money is neither created nor destroyed: what the accounts can spend and   *)
(* what prepared transfers hold add up to what there was                     *)
(* (validateCreditAndDebitAmounts, lib/holds.js).                            *)
MoneyConserved ==
    SumFunction(balance) + SumFunction([t \in Transfers |-> HeldBy(t)])
        = SumFunction(InitialBalance)

(* A transfer that awaits a condition is paid out exactly when the           *)
(* fulfilment of that condition is on record.                                *)
PaidIffFulfilled ==
    \A t \in HasExecution :
        state[t] = "executed" <=> fulfillment[t] = "execution"

(* A final transfer stays as it is, with its fulfilment.                     *)
FinalForever ==
    [][\A t \in Transfers : IsFinal(state[t]) =>
          state'[t] = state[t] /\ fulfillment'[t] = fulfillment[t]]_vars
=============================================================================
