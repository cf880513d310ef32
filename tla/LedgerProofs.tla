----------------------------- MODULE LedgerProofs -----------------------------
(***************************************************************************)
(* What the abstract ledger guarantees for every finite set of accounts    *)
(* and transfers, whatever their contents: the balances, the money, the    *)
(* fulfilments, and what its receipts are good for.                        *)
(***************************************************************************)
EXTENDS Receipts, TransferRulesProofs, TLAPS

(* Every known transfer passed validateCreditAndDebitAmounts: without it a   *)
(* negative credit could take a receiver below its minimum.                  *)
KnownIsValid == \A t \in Transfers : state[t] # "nonexistent" => ValidAmounts(t)

------------------------------------------------------------------------------
(* The variables keep their types.                                           *)
THEOREM TypeCorrect == Spec => []TypeOK
<1>1. Init => TypeOK
    BY BalanceAssumption DEF Init, TypeOK, States, Conditions
<1>2. TypeOK /\ [Next]_vars => TypeOK'
  <2> SUFFICES ASSUME TypeOK, [Next]_vars PROVE TypeOK'
      OBVIOUS
  <2>1. CASE UNCHANGED vars
      BY <2>1 DEF TypeOK, vars
  <2>2. ASSUME NEW t \in Transfers, NEW s \in States, Become(t, s)
        PROVE  state' \in [Transfers -> States]
      BY <2>2 DEF TypeOK, Become
  <2>3. ASSUME NEW t \in Transfers, NEW moves, Pay(t, moves)
        PROVE  balance' \in [Accounts -> Int]
      BY <2>3, ChangeType DEF TypeOK, Pay
  <2>4. ASSUME NEW t \in Transfers, Propose(t) PROVE TypeOK'
      BY <2>2, <2>4 DEF TypeOK, Propose, States
  <2>5. ASSUME NEW t \in Transfers, Prepare(t) PROVE TypeOK'
      BY <2>2, <2>3, <2>5 DEF TypeOK, Prepare, States
  <2>6. ASSUME NEW t \in Transfers, ExecuteAtOnce(t) PROVE TypeOK'
      BY <2>2, <2>3, <2>6 DEF TypeOK, ExecuteAtOnce, States
  <2>7. ASSUME NEW t \in Transfers, Execute(t) PROVE TypeOK'
      BY <2>2, <2>3, <2>7 DEF TypeOK, Execute, States, Conditions
  <2>8. ASSUME NEW t \in Transfers, Cancel(t) PROVE TypeOK'
      BY <2>2, <2>3, <2>8 DEF TypeOK, Cancel, States, Conditions
  <2>9. ASSUME NEW t \in Transfers, Reject(t) PROVE TypeOK'
      BY <2>2, <2>3, <2>9 DEF TypeOK, Reject, States
  <2>10. QED
      BY <2>1, <2>4, <2>5, <2>6, <2>7, <2>8, <2>9 DEF Next, Move
<1>3. QED
    BY <1>1, <1>2, PTL DEF Spec

------------------------------------------------------------------------------
(* Only validated transfers become known, and what is known stays as it is.  *)
LEMMA KnownStayValid == Spec => []KnownIsValid
<1>1. Init => KnownIsValid
    BY DEF Init, KnownIsValid
<1>2. TypeOK /\ KnownIsValid /\ [Next]_vars => KnownIsValid'
    BY DEF TypeOK, KnownIsValid, Next, Move, vars, Become, Open,
           Propose, Prepare, ExecuteAtOnce, Execute, Cancel, Reject
<1>3. QED
    BY <1>1, <1>2, TypeCorrect, PTL DEF Spec

------------------------------------------------------------------------------
(* No account falls below its minimum_allowed_balance.  Known transfers have *)
(* positive amounts, so that disbursals and refunds raise balances; only a   *)
(* hold lowers one, and Covered guards it.                                   *)
THEOREM BalancesCovered == Spec => []NoOverdraft
<1>1. Init => NoOverdraft
    BY BalanceAssumption DEF Init, NoOverdraft
<1>2. TypeOK /\ KnownIsValid /\ NoOverdraft /\ [Next]_vars => NoOverdraft'
  <2> SUFFICES ASSUME TypeOK, KnownIsValid, NoOverdraft, [Next]_vars
               PROVE  NoOverdraft'
      OBVIOUS
  <2>1. CASE UNCHANGED vars
      BY <2>1 DEF vars, NoOverdraft
  <2>2. ASSUME NEW t \in Transfers, NEW moves, Pay(t, moves), ValidAmounts(t),
               "hold" \notin moves
        PROVE  NoOverdraft'
    <3> SUFFICES ASSUME NEW a \in Accounts PROVE balance'[a] >= MinBalance[a]
        BY DEF NoOverdraft
    <3>1. Change(t, moves, a) \in Int /\ Change(t, moves, a) >= 0
        BY <2>2, ChangeType, ChangeBound
    <3>2. balance'[a] = balance[a] + Change(t, moves, a)
        BY <2>2 DEF Pay
    <3>3. QED
        BY <3>1, <3>2, BalanceAssumption DEF TypeOK, NoOverdraft
  <2>3. ASSUME NEW t \in Transfers, NEW moves, Pay(t, moves), ValidAmounts(t),
               Covered(t)
        PROVE  NoOverdraft'
    <3> SUFFICES ASSUME NEW a \in Accounts PROVE balance'[a] >= MinBalance[a]
        BY DEF NoOverdraft
    <3>1. Change(t, moves, a) \in Int /\ Change(t, moves, a) >= -DebitOf(t, a)
        BY <2>3, ChangeType, ChangeBound
    <3>2. balance'[a] = balance[a] + Change(t, moves, a)
        BY <2>3 DEF Pay
    <3>3. DebitOf(t, a) \in Int /\ balance[a] - DebitOf(t, a) >= MinBalance[a]
        BY <2>3, ContentAssumption, BalanceAssumption
           DEF Covered, DebitOf, Debtors, TypeOK, NoOverdraft
    <3>4. QED
        BY <3>1, <3>2, <3>3, BalanceAssumption DEF TypeOK
  <2>4. ASSUME NEW t \in Transfers, Propose(t) PROVE NoOverdraft'
      BY <2>4 DEF Propose, NoOverdraft
  <2>5. ASSUME NEW t \in Transfers, Prepare(t) PROVE NoOverdraft'
      BY <2>3, <2>5 DEF Prepare
  <2>6. ASSUME NEW t \in Transfers, ExecuteAtOnce(t) PROVE NoOverdraft'
      BY <2>3, <2>6 DEF ExecuteAtOnce
  <2>7. ASSUME NEW t \in Transfers, Execute(t) PROVE NoOverdraft'
      BY <2>2, <2>7 DEF Execute, KnownIsValid
  <2>8. ASSUME NEW t \in Transfers, Cancel(t) PROVE NoOverdraft'
      BY <2>2, <2>8 DEF Cancel, KnownIsValid
  <2>9. ASSUME NEW t \in Transfers, Reject(t) PROVE NoOverdraft'
      BY <2>2, <2>9 DEF Reject
  <2>10. QED
      BY <2>1, <2>4, <2>5, <2>6, <2>7, <2>8, <2>9 DEF Next, Move
<1>3. QED
    BY <1>1, <1>2, TypeCorrect, KnownStayValid, PTL DEF Spec

------------------------------------------------------------------------------
(* The money in the accounts and in the prepared transfers is constant.  A   *)
(* hold moves the total debit from the one to the other, a refund moves it   *)
(* back, and a disbursal pays the total credit, which is as much for every   *)
(* known transfer.                                                           *)
THEOREM MoneyIsConserved == Spec => []MoneyConserved
<1> DEFINE held == [t \in Transfers |-> HeldBy(t)]
<1>1. Init => MoneyConserved
  <2> SUFFICES ASSUME Init PROVE MoneyConserved
      OBVIOUS
  <2>1. \A t \in Transfers : held[t] = 0
      BY DEF Init, HeldBy
  <2>2. SumFunctionOnSet(held, Transfers) = SumFunctionOnSet(held, {})
      BY <2>1, FinitenessAssumption, SumOutside
  <2>3. SumFunction(held) = 0
      BY <2>2, SumEmpty DEF SumFunction
  <2>4. SumFunction(InitialBalance) \in Int
      BY FinitenessAssumption, BalanceAssumption, SumType DEF SumFunction
  <2>5. QED
      BY <2>3, <2>4 DEF Init, MoneyConserved
<1>2. TypeOK /\ KnownIsValid /\ MoneyConserved /\ [Next]_vars => MoneyConserved'
  <2> SUFFICES ASSUME TypeOK, KnownIsValid, MoneyConserved, [Next]_vars
               PROVE  MoneyConserved'
      OBVIOUS
  <2>1. CASE UNCHANGED vars
      BY <2>1 DEF vars, MoneyConserved, HeldBy
  <2>2. ASSUME NEW t \in Transfers, NEW s \in States, Become(t, s)
        PROVE  SumFunction(held') = SumFunction(held) - HeldBy(t)
                   + (IF s = "prepared" THEN TotalDebit(t) ELSE 0)
    <3>1. \A u \in Transfers : held[u] \in Int /\ held'[u] \in Int
        BY TotalsType DEF HeldBy, TotalDebit
    <3>2. \A u \in Transfers \ {t} : held'[u] = held[u]
        BY <2>2 DEF TypeOK, Become, HeldBy
    <3>3. held[t] = HeldBy(t) /\ held'[t] = IF s = "prepared" THEN TotalDebit(t) ELSE 0
        BY <2>2 DEF TypeOK, Become, HeldBy, TotalDebit
    <3>4. DOMAIN held = Transfers /\ DOMAIN held' = Transfers
        OBVIOUS
    <3> HIDE DEF held
    <3>5. SumFunctionOnSet(held', Transfers)
              = SumFunctionOnSet(held, Transfers) - held[t] + held'[t]
        BY <3>1, <3>2, FinitenessAssumption, SumUpdate
    <3>6. QED
        BY <3>3, <3>4, <3>5 DEF SumFunction
  <2>3. SumFunction(balance) \in Int /\ SumFunction(held) \in Int
    <3>1. /\ \A a \in Accounts : balance[a] \in Int
          /\ \A t \in Transfers : held[t] \in Int
        BY TotalsType DEF TypeOK, HeldBy, TotalDebit
    <3>2. DOMAIN balance = Accounts /\ DOMAIN held = Transfers
        BY DEF TypeOK
    <3> HIDE DEF held
    <3>3. QED
        BY <3>1, <3>2, FinitenessAssumption, SumType DEF SumFunction
  (* Whatever the step moves must be what the transfer holds less, or more.  *)
  <2>4. ASSUME NEW t \in Transfers, NEW s \in States, NEW moves,
               Become(t, s), Pay(t, moves),
               HeldBy(t) = (IF "hold" \in moves THEN -TotalDebit(t) ELSE 0)
                           + (IF "disburse" \in moves THEN TotalCredit(t) ELSE 0)
                           + (IF "return" \in moves THEN TotalDebit(t) ELSE 0)
                           + (IF s = "prepared" THEN TotalDebit(t) ELSE 0)
        PROVE  MoneyConserved'
    <3> DEFINE change == (IF "hold" \in moves THEN -TotalDebit(t) ELSE 0)
                         + (IF "disburse" \in moves THEN TotalCredit(t) ELSE 0)
                         + (IF "return" \in moves THEN TotalDebit(t) ELSE 0)
               holds == IF s = "prepared" THEN TotalDebit(t) ELSE 0
    <3>1. balance \in [Accounts -> Int]
        BY DEF TypeOK
    <3>2. SumFunction(balance') = SumFunction(balance)
                 + (IF "hold" \in moves THEN -TotalDebit(t) ELSE 0)
                 + (IF "disburse" \in moves THEN TotalCredit(t) ELSE 0)
                 + (IF "return" \in moves THEN TotalDebit(t) ELSE 0)
        BY <2>4, <3>1, PaySum DEF Pay
    <3>3. TotalDebit(t) \in Int /\ TotalCredit(t) \in Int
        BY TotalsType
    <3>4. SumFunction(held') = SumFunction(held) - HeldBy(t) + holds
        BY <2>2, <2>4
    <3>5. change \in Int /\ holds \in Int /\ HeldBy(t) = change + holds
        BY <2>4, <3>3
    <3>6. SumFunction(balance') = SumFunction(balance) + change
        BY <2>3, <3>2, <3>3
    <3>7. MoneyConserved <=> SumFunction(balance) + SumFunction(held)
                                 = SumFunction(InitialBalance)
        BY DEF MoneyConserved
    <3>8. MoneyConserved' <=> SumFunction(balance') + SumFunction(held')
                                  = SumFunction(InitialBalance)
        BY DEF MoneyConserved
    <3> HIDE DEF change, holds, held
    <3>9. SumFunction(balance') + SumFunction(held')
              = SumFunction(balance) + SumFunction(held)
        BY <2>3, <3>4, <3>5, <3>6
    <3>10. QED
        BY <3>7, <3>8, <3>9
  <2> HIDE DEF held
  <2>5. ASSUME NEW t \in Transfers
        PROVE  /\ TotalDebit(t) \in Int /\ TotalCredit(t) \in Int
               /\ state[t] = "prepared" => HeldBy(t) = TotalDebit(t)
               /\ state[t] # "prepared" => HeldBy(t) = 0
               /\ ValidAmounts(t) => TotalCredit(t) = TotalDebit(t)
      BY TotalsType DEF HeldBy, TotalDebit, TotalCredit, ValidAmounts
  <2>6. ASSUME NEW t \in Transfers, Propose(t) PROVE MoneyConserved'
    <3>1. state[t] = "nonexistent" /\ Become(t, "proposed") /\ balance' = balance
        BY <2>6 DEF Propose
    <3>2. \A u \in Transfers : HeldBy(u)' = HeldBy(u)
        BY <3>1 DEF TypeOK, Become, HeldBy
    <3>3. QED
        BY <3>1, <3>2 DEF MoneyConserved
  <2>7. ASSUME NEW t \in Transfers, Prepare(t) PROVE MoneyConserved'
    <3>1. state[t] # "prepared" /\ Become(t, "prepared") /\ Pay(t, {"hold"})
        BY <2>7 DEF Prepare, Open
    <3>2. QED
        BY <2>4, <2>5, <3>1 DEF States
  <2>8. ASSUME NEW t \in Transfers, ExecuteAtOnce(t) PROVE MoneyConserved'
    <3>1. /\ state[t] # "prepared" /\ ValidAmounts(t)
          /\ Become(t, "executed") /\ Pay(t, {"hold", "disburse"})
        BY <2>8 DEF ExecuteAtOnce, Open
    <3>2. QED
        BY <2>4, <2>5, <3>1 DEF States
  <2>9. ASSUME NEW t \in Transfers, Execute(t) PROVE MoneyConserved'
    <3>1. /\ state[t] = "prepared" /\ ValidAmounts(t)
          /\ Become(t, "executed") /\ Pay(t, {"disburse"})
        BY <2>9 DEF Execute, KnownIsValid
    <3>2. QED
        BY <2>4, <2>5, <3>1 DEF States
  <2>10. ASSUME NEW t \in Transfers, Become(t, "rejected"),
                Pay(t, IF state[t] = "prepared" THEN {"return"} ELSE {})
         PROVE  MoneyConserved'
      BY <2>4, <2>5, <2>10 DEF States
  <2>11. ASSUME NEW t \in Transfers, Cancel(t) PROVE MoneyConserved'
      BY <2>10, <2>11 DEF Cancel
  <2>12. ASSUME NEW t \in Transfers, Reject(t) PROVE MoneyConserved'
      BY <2>10, <2>12 DEF Reject
  <2>13. QED
      BY <2>1, <2>6, <2>7, <2>8, <2>9, <2>11, <2>12 DEF Next, Move
<1>3. QED
    BY <1>1, <1>2, TypeCorrect, KnownStayValid, PTL DEF Spec

------------------------------------------------------------------------------
(* A conditional transfer is paid out exactly when its execution fulfilment  *)
(* is on record.  Cancel would break it for a transfer already executed; the *)
(* states it starts from exclude that.                                       *)
THEOREM PaidOnlyIfFulfilled == Spec => []PaidIffFulfilled
<1>1. Init => PaidIffFulfilled
    BY ContentAssumption DEF Init, PaidIffFulfilled
<1>2. TypeOK /\ PaidIffFulfilled /\ [Next]_vars => PaidIffFulfilled'
    BY ContentAssumption
       DEF TypeOK, PaidIffFulfilled, Next, Move, vars, Become, Open, IsFinal,
           FinalStates, Propose, Prepare, ExecuteAtOnce, Execute, Cancel, Reject
<1>3. QED
    BY <1>1, <1>2, TypeCorrect, PTL DEF Spec

(* A final transfer and its fulfilment never change.                         *)
THEOREM FinalIsForever == Spec => FinalForever
<1> DEFINE Stays == \A t \in Transfers : IsFinal(state[t]) =>
                        state'[t] = state[t] /\ fulfillment'[t] = fulfillment[t]
<1>1. TypeOK /\ [Next]_vars => [Stays]_vars
    BY DEF TypeOK, Next, Move, Become, Open, IsFinal, FinalStates,
           Propose, Prepare, ExecuteAtOnce, Execute, Cancel, Reject
<1>2. QED
    BY <1>1, TypeCorrect, PTL DEF Spec, FinalForever

------------------------------------------------------------------------------
(* What was shown of a transfer are states of transfers.                     *)
ShownType == shown \in [Transfers -> SUBSET States]

(* Asking for receipts changes nothing of the ledger.                        *)
LEMMA ReceiptsAreReads == ReceiptsSpec => Spec
<1>1. ReceiptsInit => Init
    BY DEF ReceiptsInit
<1>2. [ReceiptsNext]_receiptVars => [Next]_vars
    BY DEF ReceiptsNext, GetReceipt, receiptVars
<1>3. QED
    BY <1>1, <1>2, PTL DEF ReceiptsSpec, Spec

(* A receipt of a final state holds when it is made, by PaidIffFulfilled,    *)
(* and ever after, since the ledger leaves final transfers alone.            *)
THEOREM ReceiptsCorrect == ReceiptsSpec => []FinalReceiptsHold
<1> DEFINE IInv == ShownType /\ FinalReceiptsHold
           Stays == \A t \in Transfers : IsFinal(state[t]) =>
                        state'[t] = state[t] /\ fulfillment'[t] = fulfillment[t]
<1>1. ReceiptsInit => IInv
    BY DEF ReceiptsInit, ShownType, FinalReceiptsHold
<1>2. TypeOK /\ PaidIffFulfilled /\ IInv /\ [Stays]_vars /\ [ReceiptsNext]_receiptVars
          => IInv'
  <2> SUFFICES ASSUME TypeOK, PaidIffFulfilled, IInv, [Stays]_vars,
                      [ReceiptsNext]_receiptVars
               PROVE  IInv'
      OBVIOUS
  <2>1. CASE UNCHANGED shown
    <3>1. ShownType'
        BY <2>1 DEF ShownType
    <3>2. ASSUME NEW t \in Transfers, NEW s \in shown[t] \cap FinalStates
          PROVE  state'[t] = s /\ fulfillment'[t] = fulfillment[t]
        BY DEF FinalReceiptsHold, IsFinal, vars
    <3>3. QED
        BY <2>1, <3>1, <3>2 DEF FinalReceiptsHold
  <2>2. ASSUME NEW t \in Transfers, NEW condition, GetReceipt(t, condition)
        PROVE  IInv'
    <3>1. /\ state' = state /\ fulfillment' = fulfillment
          /\ shown' = [shown EXCEPT ![t] = @ \cup {state[t]}]
        BY <2>2 DEF GetReceipt, Revealed, vars
    <3>2. ShownType'
        BY <3>1 DEF ShownType, TypeOK
    <3>3. ASSUME NEW u \in Transfers, NEW s \in shown'[u] \cap FinalStates
          PROVE  /\ state[u] = s
                 /\ s = "executed" /\ u \in HasExecution => fulfillment[u] = "execution"
      <4>1. CASE s \in shown[u]
          BY <4>1 DEF FinalReceiptsHold
      <4>2. CASE s \notin shown[u]
        <5>1. u = t /\ s = state[t]
            BY <3>1, <4>2 DEF ShownType
        <5>2. QED
            BY <5>1 DEF PaidIffFulfilled
      <4>3. QED
          BY <4>1, <4>2
    <3>4. QED
        BY <3>1, <3>2, <3>3 DEF FinalReceiptsHold
  <2>3. QED
      BY <2>1, <2>2 DEF ReceiptsNext, receiptVars
<1>3. QED
    BY <1>1, <1>2, ReceiptsAreReads, TypeCorrect, PaidOnlyIfFulfilled, FinalIsForever,
       PTL DEF ReceiptsSpec, FinalForever
=============================================================================
