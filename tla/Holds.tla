--------------------------------- MODULE Holds ---------------------------------
(***************************************************************************)
(* The database transactions of the ledger statement by statement:         *)
(* adjustBalance and its callers in src/src/lib/holds.js between the       *)
(* writes of L_TRANSFERS and L_FULFILLMENTS by src/src/models/transfers.js *)
(* and src/src/lib/transferExpiryMonitor.js.                               *)
(*                                                                         *)
(* LedgerServer takes all writes of a transaction in one step.  Here each  *)
(* UPDATE takes the lock of one row, in the order the code issues them,    *)
(* with the amount the code has in hand at that point: the hold subtracts  *)
(* a JavaScript number, the others add a decimal string that may have been *)
(* through one.  Transactions wait for each other's rows, PostgreSQL       *)
(* breaks a circle of waiting ones with 40P01, and adjustBalance reports   *)
(* whatever is not a 40001 as want of funds.                               *)
(*                                                                         *)
(* There is no clock: an expiry may start at any time.  The L_ENTRIES row  *)
(* inserted beside each UPDATE is LedgerServer's.                          *)
(***************************************************************************)
EXTENDS TransferRules

CONSTANTS
    Procs,           \* the calls of setTransfer, fulfillTransfer, expireTransfer
    Job,             \* Job[p]: what call p asks for
    NameRank,        \* NameRank[a]: the place of an account in the order of names
    AsNumber(_),     \* Number(amount) printed again, in the ledger's smallest unit
    MaxRetries       \* MaxRetries[op]: DB_RETRIES_CREATE, DB_RETRIES_FULFILL, DB_RETRIES

ASSUME HoldsAssumption ==
    /\ Job \in [Procs -> Jobs]
    /\ NameRank \in [Accounts -> Nat]
    /\ \A a, b \in Accounts : NameRank[a] = NameRank[b] => a = b
    /\ \A t \in Transfers :
          /\ \A a \in Debtors(t) : AsNumber(Debit[t][a]) \in Int
          /\ \A a \in Creditors(t) : AsNumber(Credit[t][a]) \in Int
    /\ MaxRetries \in [{"put", "fulfill", "expire"} -> Nat]

VARIABLES
    row,        \* row[t]: the committed tables, as seen from transfer t
    balance,    \* balance[a]: the committed L_ACCOUNTS.BALANCE
    pc,         \* pc[p]: "new", "begin", "run" or "done"
    snap,       \* snap[p]: what p's transaction read of its transfer
    todo,       \* todo[p]: the statements it has yet to execute
    done,       \* done[p]: the statements it has executed
    missed,     \* missed[p]: the rows others committed since its snapshot
    tries,      \* tries[p]: its retries so far
    outcome     \* outcome[p]: how the call ended

tables == <<row, balance>>
vars == <<tables, pc, snap, todo, done, missed, tries, outcome>>

Outcomes == {"none", "ok", "refused", "short", "busy", "error"}

Init ==
    /\ row = [t \in Transfers |-> NoRow]
    /\ balance = InitialBalance
    /\ pc = [p \in Procs |-> "new"]
    /\ snap = [p \in Procs |-> NoRow]
    /\ todo = [p \in Procs |-> {}]
    /\ done = [p \in Procs |-> {}]
    /\ missed = [p \in Procs |-> {}]
    /\ tries = [p \in Procs |-> 0]
    /\ outcome = [p \in Procs |-> "none"]

------------------------------------------------------------------------------
(* The statements of a transaction.                                        *)

Id(p) == Job[p].id
Op(p) == Job[p].op

MovesOf(p, old) ==
    CASE Op(p) = "put" -> PutMoves(Id(p), old, Job[p])
      [] Op(p) = "fulfill" -> FulfillMoves(old, Job[p].condition)
      [] Op(p) = "expire" -> ExpireMoves(old)

(* holdFunds and returnHeldFunds run over the debits, disburseFunds over the *)
(* credits.                                                                  *)
Parties(t, move) == IF move = "disburse" THEN Creditors(t) ELSE Debtors(t)

AllStatements ==
    (Moves \X Accounts) \cup ({"transfer", "fulfillment"} \X Transfers)

TableRows ==
    ({"account"} \X Accounts) \cup ({"transfer", "fulfillment"} \X Transfers)

Adjusts(s) == s[1] \in Moves

RowOf(s) == IF Adjusts(s) THEN <<"account", s[2]>> ELSE s

(* What p executes when it has read `old`.                                   *)
Statements(p, old) ==
    {s \in MovesOf(p, old) \X Accounts : s[2] \in Parties(Id(p), s[1])}
    \cup {<<"transfer", Id(p)>>}
    \cup (IF Op(p) = "fulfill" THEN {<<"fulfillment", Id(p)>>} ELSE {})

(* Faulty variant of Stage: expireTransfer updates the transfer first.       *)
StageTransferFirst(p, s) ==
    CASE s[1] = "fulfillment" -> 0
      [] s[1] = "transfer" -> IF Op(p) = "fulfill" THEN 4 ELSE 0
      [] s[1] = "hold" -> 1
      [] s[1] = "disburse" -> 2
      [] s[1] = "return" -> 3

(* setTransfer upserts the transfer before it moves funds, fulfillTransfer   *)
(* inserts the fulfilment before and updates the transfer after,             *)
(* expireTransfer updates it after.                                          *)
Stage(p, s) ==
    CASE s[1] = "fulfillment" -> 0
      [] s[1] = "transfer" -> IF Op(p) = "put" THEN 0 ELSE 4
      [] s[1] = "hold" -> 1
      [] s[1] = "disburse" -> 2
      [] s[1] = "return" -> 3

(* convertToInternalTransfer and getAdjustments sort debits and credits by   *)
(* account.                                                                  *)
Before(p, s, u) ==
    \/ Stage(p, s) < Stage(p, u)
    \/ /\ Stage(p, s) = Stage(p, u)
       /\ Adjusts(s) /\ Adjusts(u)
       /\ NameRank[s[2]] < NameRank[u[2]]

Due(p, s) == \A u \in todo[p] \ {s} : Before(p, s, u)

------------------------------------------------------------------------------
(* Amounts.                                                                *)

(* Faulty variant of InHand: the credits of a stored transfer are exact.     *)
InHandExact(p, amount) == amount

(* A new transfer is the object the client sent; one that was found is the   *)
(* object read from the tables, each amount Number(data.AMOUNT).toString().  *)
InHand(p, amount) ==
    IF snap[p].state = "nonexistent" THEN amount ELSE AsNumber(amount)

(* What a statement adds; `-debit.amount` makes a number of either.          *)
Amount(p, move, a) ==
    CASE move = "hold" -> -AsNumber(Debit[Id(p)][a])
      [] move = "disburse" -> InHand(p, Credit[Id(p)][a])
      [] move = "return" -> InHand(p, Debit[Id(p)][a])

AddedBy(p, move, a) == IF <<move, a>> \in done[p] THEN Amount(p, move, a) ELSE 0

(* All that p's open transaction has added to the balance of a so far.       *)
Added(p, a) == AddedBy(p, "hold", a) + AddedBy(p, "disburse", a) + AddedBy(p, "return", a)

(* updateTransferObject compares the submitted amounts, normalized but       *)
(* exact, with those read from the tables.                                   *)
AmountsKept(t) ==
    /\ \A a \in Debtors(t) : AsNumber(Debit[t][a]) = Debit[t][a]
    /\ \A a \in Creditors(t) : AsNumber(Credit[t][a]) = Credit[t][a]

------------------------------------------------------------------------------
(* Row locks.                                                              *)

Locks(p) == {RowOf(s) : s \in done[p]}

Free(p, s) == \A q \in Procs \ {p} : RowOf(s) \notin Locks(q)

(* The row was committed after p's snapshot: p gets 40001 and does not wait. *)
Stale(p, s) == RowOf(s) \in missed[p]

WaitsFor(p, q) ==
    /\ p # q
    /\ \E s \in todo[p] : Due(p, s) /\ ~Stale(p, s) /\ RowOf(s) \in Locks(q)

Waiting == {p \in Procs : \E q \in Procs : WaitsFor(p, q)}

(* Everyone in C waits for someone in C, and someone in C for everyone.      *)
Circle(C) ==
    \A p \in C : /\ \E q \in C : WaitsFor(p, q)
                 /\ \E q \in C : WaitsFor(q, p)

(* Faulty variant of Covers: the balance is compared before the UPDATE.      *)
CoversBefore(p, move, a) == balance[a] + Added(p, a) >= MinBalance[a]

(* The CHECK on L_ACCOUNTS, at the end of each UPDATE.                       *)
Covers(p, move, a) ==
    balance[a] + Added(p, a) + Amount(p, move, a) >= MinBalance[a]

------------------------------------------------------------------------------
(* Ends of a transaction.                                                  *)

(* Faulty variant of Finish: the transaction is neither committed nor rolled *)
(* back.                                                                     *)
FinishWithoutRollback(p, result) ==
    /\ pc' = [pc EXCEPT ![p] = "done"]
    /\ outcome' = [outcome EXCEPT ![p] = result]
    /\ UNCHANGED <<snap, todo, done, tries>>

Finish(p, result) ==
    /\ pc' = [pc EXCEPT ![p] = "done"]
    /\ outcome' = [outcome EXCEPT ![p] = result]
    /\ snap' = [snap EXCEPT ![p] = NoRow]
    /\ todo' = [todo EXCEPT ![p] = {}]
    /\ done' = [done EXCEPT ![p] = {}]
    /\ UNCHANGED tries

(* 40001 makes withSerializableTransaction call back again.  expireTransfer  *)
(* does not await its returnHeldFunds: the 40001 of an adjustment reaches    *)
(* nobody, and the next statement fails with 25P02.                          *)
Serialization(p, s) ==
    IF Op(p) = "expire" /\ Adjusts(s) THEN Finish(p, "error")
    ELSE IF tries[p] = MaxRetries[Op(p)] THEN Finish(p, "busy")
    ELSE /\ tries' = [tries EXCEPT ![p] = @ + 1]
         /\ pc' = [pc EXCEPT ![p] = "begin"]
         /\ snap' = [snap EXCEPT ![p] = NoRow]
         /\ todo' = [todo EXCEPT ![p] = {}]
         /\ done' = [done EXCEPT ![p] = {}]
         /\ UNCHANGED outcome

(* Any other error: adjustBalance calls it InsufficientFundsError, except    *)
(* that nobody hears of it in an expiry.                                     *)
ErrorOf(p, s) == IF Adjusts(s) /\ Op(p) # "expire" THEN "short" ELSE "error"

------------------------------------------------------------------------------
(* The steps of a transaction.                                             *)

(* The checks of setTransfer, fulfillTransfer and expireTransfer that look   *)
(* at nothing but the request and the transfer as read.                      *)
Accepted(p) ==
    LET t == Id(p) IN
    CASE Op(p) = "put" -> /\ ValidAmounts(t)
                          /\ PutAccepted(t, row[t], Job[p])
                          /\ row[t].state # "nonexistent" => AmountsKept(t)
      [] Op(p) = "fulfill" -> /\ MatchesCondition(t, Job[p].condition)
                              /\ FulfillAllowed(row[t], Job[p].condition)
      [] Op(p) = "expire" -> Expirable(row[t])

Begin(p) ==
    /\ pc[p] \in {"new", "begin"}
    /\ IF Accepted(p)
       THEN /\ pc' = [pc EXCEPT ![p] = "run"]
            /\ snap' = [snap EXCEPT ![p] = row[Id(p)]]
            /\ todo' = [todo EXCEPT ![p] = Statements(p, row[Id(p)])]
            /\ missed' = [missed EXCEPT ![p] = {}]
            /\ UNCHANGED <<done, tries, outcome>>
       ELSE /\ Finish(p, "refused")
            /\ UNCHANGED missed
    /\ UNCHANGED tables

Execute(p) ==
    \E s \in todo[p] :
        /\ Due(p, s)
        /\ Free(p, s) /\ ~Stale(p, s)
        /\ Adjusts(s) => Covers(p, s[1], s[2])
        /\ todo' = [todo EXCEPT ![p] = @ \ {s}]
        /\ done' = [done EXCEPT ![p] = @ \cup {s}]
        /\ UNCHANGED <<tables, pc, snap, missed, tries, outcome>>

(* The CHECK fails.                                                          *)
Uncovered(p) ==
    \E s \in todo[p] :
        /\ Due(p, s)
        /\ Free(p, s) /\ ~Stale(p, s)
        /\ Adjusts(s) /\ ~Covers(p, s[1], s[2])
        /\ Finish(p, ErrorOf(p, s))
        /\ UNCHANGED <<tables, missed>>

Conflict(p) ==
    \E s \in todo[p] :
        /\ Due(p, s)
        /\ Stale(p, s)
        /\ Serialization(p, s)
        /\ UNCHANGED <<tables, missed>>

(* The deadlock detector picks any transaction of a circle: 40P01.           *)
Deadlock(p) ==
    \E s \in todo[p] :
        /\ Due(p, s)
        /\ ~Free(p, s) /\ ~Stale(p, s)
        /\ \E C \in SUBSET Waiting : p \in C /\ Circle(C)
        /\ Finish(p, ErrorOf(p, s))
        /\ UNCHANGED <<tables, missed>>

NewRow(p) ==
    CASE Op(p) = "put" -> PutRow(Id(p), snap[p], Job[p], 0)
      [] Op(p) = "fulfill" -> FulfillRow(snap[p], Job[p].condition, 0)
      [] Op(p) = "expire" -> ExpireRow(snap[p])

(* A PUT may still be refused after its statements (processCreditRejection). *)
Allowed(p) == Op(p) = "put" => RejectionAllowed(Id(p), snap[p], Job[p])

Executed(p) == pc[p] = "run" /\ todo[p] = {}

Rollback(p) ==
    /\ Executed(p) /\ ~Allowed(p)
    /\ Finish(p, "refused")
    /\ UNCHANGED <<tables, missed>>

Commit(p) ==
    /\ Executed(p) /\ Allowed(p)
    /\ row' = [row EXCEPT ![Id(p)] = NewRow(p)]
    /\ balance' = [a \in Accounts |-> balance[a] + Added(p, a)]
    /\ missed' = [q \in Procs |->
                     IF q # p /\ pc[q] = "run" THEN missed[q] \cup Locks(p) ELSE missed[q]]
    /\ Finish(p, "ok")

Run(p) ==
    \/ Begin(p)
    \/ Execute(p)
    \/ Uncovered(p)
    \/ Conflict(p)
    \/ Rollback(p)
    \/ Commit(p)
    \/ Deadlock(p)

Next == \E p \in Procs : Run(p)

Spec == Init /\ [][Next]_vars

(* While some call that has come in can go on, one of them does: the         *)
(* database answers.  None need come in.  Each has only so many statements   *)
(* and retries, so this is enough.                                           *)
FairSpec == Spec /\ WF_vars(\E p \in Procs : pc[p] # "new" /\ Run(p))

------------------------------------------------------------------------------
(* Properties.                                                             *)

(* Every variable keeps its type; only an open transaction has statements.   *)
TypeOK ==
    /\ row \in [Transfers -> Rows]
    /\ balance \in [Accounts -> Int]
    /\ pc \in [Procs -> {"new", "begin", "run", "done"}]
    /\ snap \in [Procs -> Rows]
    /\ todo \in [Procs -> SUBSET AllStatements]
    /\ done \in [Procs -> SUBSET AllStatements]
    /\ \A p \in Procs :
          todo[p] \cup done[p] = IF pc[p] = "run" THEN Statements(p, snap[p]) ELSE {}
    /\ missed \in [Procs -> SUBSET TableRows]
    /\ tries \in [Procs -> Nat]
    /\ outcome \in [Procs -> Outcomes]

(* Statement by statement the transactions still change the committed tables *)
(* by one legal transition of one transfer at a time, so that LedgerServer   *)
(* may take the statements of one in a single step (lib/holds.js).  Amounts  *)
(* count as the numbers the hold makes of them.                              *)
Committed == INSTANCE Ledger WITH
    state <- [t \in Transfers |-> row[t].state],
    fulfillment <- [t \in Transfers |-> row[t].fulfillment],
    Debit <- [t \in Transfers |-> [a \in Debtors(t) |-> AsNumber(Debit[t][a])]],
    Credit <- [t \in Transfers |-> [a \in Creditors(t) |-> AsNumber(Credit[t][a])]]

ImplementsLedger == Committed!Spec

(* When the rounding does no harm to a transfer that is accepted: its        *)
(* amounts survive it, or it takes effect in several transactions, of which  *)
(* only the first has the amounts the client sent, and the rounded amounts   *)
(* still balance.                                                            *)
RoundsSafely(t) ==
    ValidAmounts(t) =>
        \/ AmountsKept(t)
        \/ /\ t \in HasExecution
           /\ \A p \in Procs : Op(p) = "put" /\ Id(p) = t => Job[p].rejectedBy = {}
           /\ Committed!ValidAmounts(t)

(* No balance is below its minimum, though each UPDATE of an open            *)
(* transaction is checked on its own and several are open at once.           *)
NoOverdraft == Committed!NoOverdraft

(* What the accounts can spend and what prepared transfers hold, counted as  *)
(* it was taken from the senders, adds up to the initial total ("Total       *)
(* credits must equal total debits", src/src/models/transfers.js).           *)
MoneyConserved == Committed!MoneyConserved

(* Fulfilments and expiries take their locks in one order, the fulfilment    *)
(* first, the accounts by name, the transfer last: they never wait for each  *)
(* other in a circle.  Every deadlock has a PUT in it.                       *)
ReleasesNeverDeadlock ==
    \A C \in (SUBSET Waiting) \ {{}} : Circle(C) => \E p \in C : Op(p) = "put"

(* Whatever waits for what, the calls that came in end: again and again      *)
(* there is none under way (each of the finitely many comes in once).        *)
EveryCallEnds == []<>(\A p \in Procs : pc[p] \in {"new", "done"})

(* "The source account does not have sufficient funds"                       *)
(* (src/src/controllers/_apidoc.js): the error is reported only when some    *)
(* sender's committed balance does not cover its debit.                      *)
FundsWereShort ==
    [][\A p \in Procs :
          outcome[p] = "none" /\ outcome'[p] = "short" =>
              \E a \in Debtors(Id(p)) :
                  balance[a] - AsNumber(Debit[Id(p)][a]) < MinBalance[a]]_vars
=============================================================================
