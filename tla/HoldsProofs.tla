------------------------------ MODULE HoldsProofs ------------------------------
(***************************************************************************)
(* Theorems about the transactions of Holds, for any number of calls,      *)
(* accounts and transfers: their types, that overlapping transactions      *)
(* never overdraw an account, that the calls that only release money never *)
(* wait for each other in a circle, that the statements implement Ledger   *)
(* where rounding does no harm, when it does none, and when a lack of      *)
(* funds is reported.                                                      *)
(***************************************************************************)
EXTENDS Holds, TransferRulesProofs, WellFoundedInduction, TLAPS

(* What a call may ask for.                                                  *)
LEMMA JobType ==
    ASSUME NEW p \in Procs
    PROVE  /\ Job[p] \in Jobs
           /\ Id(p) \in Transfers
           /\ Op(p) \in {"put", "fulfill", "expire"}
           /\ Job[p].condition \in Conditions
    BY HoldsAssumption DEF Id, Op, Jobs

LEMMA MovesOfType ==
    ASSUME NEW p \in Procs, NEW old
    PROVE  MovesOf(p, old) \subseteq Moves
    BY JobType, MovesType DEF MovesOf

(* The statements of a transaction: adjustments of the parties' balances,    *)
(* the row of the transfer, the row of the fulfilment.                       *)
LEMMA StatementsType ==
    ASSUME NEW p \in Procs, NEW old, NEW s \in Statements(p, old)
    PROVE  /\ \/ /\ s[1] \in MovesOf(p, old) /\ s[2] \in Parties(Id(p), s[1])
                 /\ s[2] \in Accounts
                 /\ s = <<s[1], s[2]>> /\ Adjusts(s)
              \/ s = <<"transfer", Id(p)>> /\ ~Adjusts(s)
              \/ s = <<"fulfillment", Id(p)>> /\ ~Adjusts(s) /\ Op(p) = "fulfill"
    BY MovesOfType DEF Statements, Adjusts, Moves

(* An adjustment adds an integer.                                            *)
LEMMA AmountType ==
    ASSUME NEW p \in Procs, NEW move \in Moves, NEW a \in Parties(Id(p), move)
    PROVE  Amount(p, move, a) \in Int
<1>1. CASE move \in {"hold", "return"}
  <2>1. a \in Debtors(Id(p))
      BY <1>1 DEF Parties
  <2>2. Debit[Id(p)][a] \in Int /\ AsNumber(Debit[Id(p)][a]) \in Int
      BY <2>1, JobType, HoldsAssumption, ContentAssumption DEF Debtors
  <2>3. QED
      BY <1>1, <2>2 DEF Amount, InHand
<1>2. CASE move = "disburse"
  <2>1. a \in Creditors(Id(p))
      BY <1>2 DEF Parties
  <2>2. Credit[Id(p)][a] \in Int /\ AsNumber(Credit[Id(p)][a]) \in Int
      BY <2>1, JobType, HoldsAssumption, ContentAssumption DEF Creditors
  <2>3. QED
      BY <1>2, <2>2 DEF Amount, InHand
<1>3. QED
    BY <1>1, <1>2 DEF Moves

(* So does a whole transaction, as far as it has come.                       *)
LEMMA AddedType ==
    ASSUME TypeOK, NEW p \in Procs, NEW a \in Accounts
    PROVE  /\ AddedBy(p, "hold", a) \in Int
           /\ AddedBy(p, "disburse", a) \in Int
           /\ AddedBy(p, "return", a) \in Int
           /\ Added(p, a) \in Int
<1>1. ASSUME NEW move \in Moves PROVE AddedBy(p, move, a) \in Int
  <2>1. CASE <<move, a>> \in done[p]
    <3>1. <<move, a>> \in Statements(p, snap[p])
        BY <2>1 DEF TypeOK
    <3>2. a \in Parties(Id(p), move)
        BY <3>1, StatementsType DEF Moves
    <3>3. QED
        BY <2>1, <3>2, AmountType DEF AddedBy
  <2>2. QED
      BY <2>1 DEF AddedBy
<1>2. QED
    BY <1>1 DEF Added, Moves

(* The row a transaction writes is a row.                                    *)
LEMMA NewRowType ==
    ASSUME TypeOK, NEW p \in Procs PROVE NewRow(p) \in Rows
<1>1. snap[p] \in Rows
    BY DEF TypeOK
<1>2. /\ PutRow(Id(p), snap[p], Job[p], 0) \in Rows
      /\ FulfillRow(snap[p], Job[p].condition, 0) \in Rows
      /\ ExpireRow(snap[p]) \in Rows
    BY <1>1, JobType, PutRowType, FulfillRowType, ExpireRowType
<1>3. QED
    BY <1>2, JobType DEF NewRow

------------------------------------------------------------------------------
(* Ends of a transaction, and a new try, leave nothing of it open.           *)
LEMMA ClosedType ==
    ASSUME TypeOK, NEW p \in Procs, NEW label \in {"begin", "done"},
           pc' = [pc EXCEPT ![p] = label],
           snap' = [snap EXCEPT ![p] = NoRow],
           todo' = [todo EXCEPT ![p] = {}],
           done' = [done EXCEPT ![p] = {}],
           tries' \in [Procs -> Nat],
           outcome' \in [Procs -> Outcomes],
           row' \in [Transfers -> Rows],
           balance' \in [Accounts -> Int],
           missed' \in [Procs -> SUBSET TableRows]
    PROVE  TypeOK'
<1>1. ASSUME NEW q \in Procs
      PROVE  todo'[q] \cup done'[q] =
                 IF pc'[q] = "run" THEN Statements(q, snap'[q]) ELSE {}
  <2>1. CASE q = p
      BY <2>1 DEF TypeOK
  <2>2. CASE q # p
    <3>1. /\ todo'[q] = todo[q] /\ done'[q] = done[q]
          /\ pc'[q] = pc[q] /\ snap'[q] = snap[q]
        BY <2>2 DEF TypeOK
    <3>2. QED
        BY <3>1 DEF TypeOK
  <2>3. QED
      BY <2>1, <2>2
<1>2. /\ pc' \in [Procs -> {"new", "begin", "run", "done"}]
      /\ snap' \in [Procs -> Rows]
      /\ todo' \in [Procs -> SUBSET AllStatements]
      /\ done' \in [Procs -> SUBSET AllStatements]
    BY NoRowType DEF TypeOK
<1>3. \A q \in Procs : todo'[q] \cup done'[q] =
                           IF pc'[q] = "run" THEN Statements(q, snap[q])' ELSE {}
    BY <1>1 DEF Statements, MovesOf
<1>4. QED
    BY <1>2, <1>3 DEF TypeOK

LEMMA FinishType ==
    ASSUME TypeOK, NEW p \in Procs, NEW result \in Outcomes, Finish(p, result),
           row' \in [Transfers -> Rows], balance' \in [Accounts -> Int],
           missed' \in [Procs -> SUBSET TableRows]
    PROVE  TypeOK'
<1>1. tries' \in [Procs -> Nat] /\ outcome' \in [Procs -> Outcomes]
    BY DEF Finish, TypeOK
<1>2. QED
    BY <1>1, ClosedType DEF Finish

LEMMA SerializationType ==
    ASSUME TypeOK, NEW p \in Procs, NEW s, Serialization(p, s),
           row' \in [Transfers -> Rows], balance' \in [Accounts -> Int],
           missed' \in [Procs -> SUBSET TableRows]
    PROVE  TypeOK'
<1>1. CASE Op(p) = "expire" /\ Adjusts(s)
    BY <1>1, FinishType DEF Serialization, Outcomes
<1>2. CASE ~(Op(p) = "expire" /\ Adjusts(s)) /\ tries[p] = MaxRetries[Op(p)]
    BY <1>2, FinishType DEF Serialization, Outcomes
<1>3. CASE ~(Op(p) = "expire" /\ Adjusts(s)) /\ tries[p] # MaxRetries[Op(p)]
  <2>1. tries' \in [Procs -> Nat] /\ outcome' \in [Procs -> Outcomes]
      BY <1>3 DEF Serialization, TypeOK
  <2>2. QED
      BY <1>3, <2>1, ClosedType DEF Serialization
<1>4. QED
    BY <1>1, <1>2, <1>3

------------------------------------------------------------------------------
(* The variables keep their types, and an open transaction has executed, or  *)
(* has yet to execute, exactly its statements.                               *)
THEOREM TypeCorrect == Spec => []TypeOK
<1>1. Init => TypeOK
    BY BalanceAssumption, NoRowType DEF Init, TypeOK, Outcomes
<1>2. TypeOK /\ [Next]_vars => TypeOK'
  <2> SUFFICES ASSUME TypeOK, [Next]_vars PROVE TypeOK'
      OBVIOUS
  <2>1. CASE UNCHANGED vars
      BY <2>1 DEF vars, tables, TypeOK, Statements, MovesOf
  <2>2. ASSUME NEW p \in Procs, Begin(p) PROVE TypeOK'
    <3>1. CASE Accepted(p)
      <4>1. /\ pc' = [pc EXCEPT ![p] = "run"]
            /\ snap' = [snap EXCEPT ![p] = row[Id(p)]]
            /\ todo' = [todo EXCEPT ![p] = Statements(p, row[Id(p)])]
            /\ missed' = [missed EXCEPT ![p] = {}]
            /\ UNCHANGED <<done, tries, outcome, tables>>
          BY <2>2, <3>1 DEF Begin
      <4>2. Statements(p, row[Id(p)]) \subseteq AllStatements
        <5> SUFFICES ASSUME NEW s \in Statements(p, row[Id(p)])
                     PROVE  s \in AllStatements
            OBVIOUS
        <5>1. QED
            BY StatementsType, MovesOfType, JobType DEF AllStatements
      <4>3. row[Id(p)] \in Rows
          BY JobType DEF TypeOK
      <4>4. done[p] = {}
          BY <2>2 DEF Begin, TypeOK
      <4>5. ASSUME NEW q \in Procs
            PROVE  todo'[q] \cup done'[q] =
                       IF pc'[q] = "run" THEN Statements(q, snap'[q]) ELSE {}
        <5>1. CASE q = p
            BY <4>1, <4>4, <5>1 DEF TypeOK
        <5>2. CASE q # p
          <6>1. /\ todo'[q] = todo[q] /\ done'[q] = done[q]
                /\ pc'[q] = pc[q] /\ snap'[q] = snap[q]
              BY <4>1, <5>2 DEF TypeOK
          <6>2. QED
              BY <6>1 DEF TypeOK
        <5>3. QED
            BY <5>1, <5>2
      <4>6. \A q \in Procs : todo'[q] \cup done'[q] =
                                 IF pc'[q] = "run" THEN Statements(q, snap[q])' ELSE {}
          BY <4>5 DEF Statements, MovesOf
      <4>7. QED
          BY <4>1, <4>2, <4>3, <4>6 DEF TypeOK, tables
    <3>2. CASE ~Accepted(p)
        BY <2>2, <3>2, FinishType DEF Begin, tables, TypeOK, Outcomes
    <3>3. QED
        BY <3>1, <3>2
  <2>3. ASSUME NEW p \in Procs, Execute(p) PROVE TypeOK'
    <3>1. PICK s \in todo[p] :
              /\ todo' = [todo EXCEPT ![p] = @ \ {s}]
              /\ done' = [done EXCEPT ![p] = @ \cup {s}]
              /\ UNCHANGED <<tables, pc, snap, missed, tries, outcome>>
        BY <2>3 DEF Execute
    <3>2. ASSUME NEW q \in Procs
          PROVE  todo'[q] \cup done'[q] = todo[q] \cup done[q]
        BY <3>1 DEF TypeOK
    <3>3. \A q \in Procs : todo'[q] \cup done'[q] =
                               IF pc'[q] = "run" THEN Statements(q, snap[q])' ELSE {}
        BY <3>1, <3>2 DEF TypeOK, Statements, MovesOf
    <3>4. QED
        BY <3>1, <3>3 DEF TypeOK, tables
  <2>4. ASSUME NEW p \in Procs, Uncovered(p) PROVE TypeOK'
      BY <2>4, FinishType DEF Uncovered, ErrorOf, Outcomes, tables, TypeOK
  <2>5. ASSUME NEW p \in Procs, Conflict(p) PROVE TypeOK'
      BY <2>5, SerializationType DEF Conflict, tables, TypeOK
  <2>6. ASSUME NEW p \in Procs, Deadlock(p) PROVE TypeOK'
      BY <2>6, FinishType DEF Deadlock, ErrorOf, Outcomes, tables, TypeOK
  <2>7. ASSUME NEW p \in Procs, Rollback(p) PROVE TypeOK'
      BY <2>7, FinishType DEF Rollback, Outcomes, tables, TypeOK
  <2>8. ASSUME NEW p \in Procs, Commit(p) PROVE TypeOK'
    <3>1. row' \in [Transfers -> Rows]
        BY <2>8, NewRowType DEF Commit, TypeOK
    <3>2. balance' \in [Accounts -> Int]
        BY <2>8, AddedType DEF Commit, TypeOK
    <3>3. Locks(p) \subseteq TableRows
      <4> SUFFICES ASSUME NEW s \in done[p] PROVE RowOf(s) \in TableRows
          BY DEF Locks
      <4>1. QED
          BY DEF TypeOK, AllStatements, TableRows, RowOf, Adjusts, Moves
    <3>4. missed' \in [Procs -> SUBSET TableRows]
        BY <2>8, <3>3 DEF Commit, TypeOK
    <3>5. QED
        BY <2>8, <3>1, <3>2, <3>4, FinishType DEF Commit, Outcomes
  <2>9. QED
      BY <2>1, <2>2, <2>3, <2>4, <2>5, <2>6, <2>7, <2>8 DEF Next, Run
<1>3. QED
    BY <1>1, <1>2, PTL DEF Spec

------------------------------------------------------------------------------
(* The invariant behind the safety properties.  Locks are exclusive, nothing *)
(* is executed twice or out of order, and each open transaction by itself    *)
(* leaves every account covered.                                             *)

LocksExclusive == \A p, q \in Procs : p # q => Locks(p) \cap Locks(q) = {}

ExecutedOnce == \A p \in Procs : todo[p] \cap done[p] = {}

InOrder ==
    \A p \in Procs : \A s \in done[p], u \in todo[p] : Before(p, s, u)

EachCovers ==
    \A p \in Procs, a \in Accounts : balance[a] + Added(p, a) >= MinBalance[a]

IInv ==
    /\ LocksExclusive
    /\ ExecutedOnce
    /\ InOrder
    /\ EachCovers
    /\ NoOverdraft

(* Whoever has adjusted a balance has the lock of its row.                   *)
LEMMA AddedUnderLock ==
    ASSUME NEW p \in Procs, NEW a \in Accounts, <<"account", a>> \notin Locks(p)
    PROVE  Added(p, a) = 0
<1>1. ASSUME NEW move \in Moves PROVE <<move, a>> \notin done[p]
    BY <1>1 DEF Locks, RowOf, Adjusts
<1>2. QED
    BY <1>1 DEF Added, AddedBy, Moves

LEMMA AddedNothing ==
    ASSUME NEW p \in Procs, NEW a \in Accounts, done[p] = {}
    PROVE  Added(p, a) = 0
    BY DEF Added, AddedBy

LEMMA AddedSame ==
    ASSUME NEW p \in Procs, NEW a \in Accounts,
           done'[p] = done[p], snap'[p] = snap[p]
    PROVE  Added(p, a)' = Added(p, a)
<1>1. ASSUME NEW move PROVE AddedBy(p, move, a)' = AddedBy(p, move, a)
    BY DEF AddedBy, Amount, InHand
<1>2. QED
    BY <1>1 DEF Added

(* One more statement adds its amount to its account, and nothing to others. *)
LEMMA AddedMore ==
    ASSUME TypeOK, NEW p \in Procs, NEW a \in Accounts, NEW s \in todo[p],
           s \notin done[p], done'[p] = done[p] \cup {s}, snap'[p] = snap[p]
    PROVE  Added(p, a)' = IF Adjusts(s) /\ s[2] = a
                          THEN Added(p, a) + Amount(p, s[1], a) ELSE Added(p, a)
<1>1. s \in Statements(p, snap[p])
    BY DEF TypeOK
<1>2. ASSUME NEW move \in Moves, <<move, a>> # s
      PROVE  AddedBy(p, move, a)' = AddedBy(p, move, a)
  <2>1. Amount(p, move, a)' = Amount(p, move, a)
      BY DEF Amount, InHand
  <2>2. <<move, a>> \in done'[p] <=> <<move, a>> \in done[p]
      BY <1>2
  <2>3. QED
      BY <2>1, <2>2 DEF AddedBy
<1>3. CASE Adjusts(s) /\ s[2] = a
  <2>1. s = <<s[1], a>> /\ s[1] \in Moves /\ s[2] \in Parties(Id(p), s[1])
      BY <1>1, <1>3, StatementsType DEF Adjusts
  <2>2. AddedBy(p, s[1], a)' = Amount(p, s[1], a) /\ AddedBy(p, s[1], a) = 0
      BY <2>1 DEF AddedBy, Amount, InHand
  <2>3. \A move \in Moves \ {s[1]} : AddedBy(p, move, a)' = AddedBy(p, move, a)
      BY <1>2, <2>1
  <2>4. Amount(p, s[1], a) \in Int
      BY <1>3, <2>1, AmountType
  <2>5. QED
      BY <1>3, <2>1, <2>2, <2>3, <2>4, AddedType DEF Added, Moves
<1>4. CASE ~(Adjusts(s) /\ s[2] = a)
  <2>1. \A move \in Moves : <<move, a>> # s
      BY <1>4 DEF Adjusts
  <2>2. QED
      BY <1>2, <1>4, <2>1 DEF Added, Moves
<1>5. QED
    BY <1>3, <1>4

(* Whatever ends without a commit, or starts again, disturbs nothing.        *)
LEMMA ClosedInvariant ==
    ASSUME TypeOK, IInv, NEW p \in Procs, UNCHANGED tables,
           snap' = [snap EXCEPT ![p] = NoRow],
           todo' = [todo EXCEPT ![p] = {}],
           done' = [done EXCEPT ![p] = {}]
    PROVE  IInv'
<1>1. done'[p] = {} /\ todo'[p] = {}
    BY DEF TypeOK
<1>2. ASSUME NEW q \in Procs \ {p}
      PROVE  done'[q] = done[q] /\ todo'[q] = todo[q] /\ snap'[q] = snap[q]
    BY DEF TypeOK
<1>3. LocksExclusive'
    BY <1>1, <1>2 DEF IInv, LocksExclusive, Locks
<1>4. ExecutedOnce'
    BY <1>1, <1>2 DEF IInv, ExecutedOnce
<1>5. InOrder'
  <2> SUFFICES ASSUME NEW q \in Procs, NEW s \in done'[q], NEW u \in todo'[q]
               PROVE  Before(q, s, u)
      BY DEF InOrder, Before, Stage
  <2>1. QED
      BY <1>1, <1>2 DEF IInv, InOrder
<1>6. EachCovers'
  <2> SUFFICES ASSUME NEW q \in Procs, NEW a \in Accounts
               PROVE  balance[a] + Added(q, a)' >= MinBalance[a]
      BY DEF EachCovers, tables
  <2>1. CASE q = p
    <3>1. Added(q, a)' = 0
        BY <1>1, <2>1 DEF Added, AddedBy
    <3>2. QED
        BY <3>1 DEF IInv, NoOverdraft, Committed!NoOverdraft, TypeOK
  <2>2. CASE q # p
      BY <1>2, <2>2, AddedSame DEF IInv, EachCovers
  <2>3. QED
      BY <2>1, <2>2
<1>7. NoOverdraft'
    BY DEF IInv, NoOverdraft, Committed!NoOverdraft, tables
<1>8. QED
    BY <1>3, <1>4, <1>5, <1>6, <1>7 DEF IInv

LEMMA FinishInvariant ==
    ASSUME TypeOK, IInv, NEW p \in Procs, NEW result, UNCHANGED tables,
           Finish(p, result)
    PROVE  IInv'
    BY ClosedInvariant DEF Finish

LEMMA SerializationInvariant ==
    ASSUME TypeOK, IInv, NEW p \in Procs, NEW s, UNCHANGED tables,
           Serialization(p, s)
    PROVE  IInv'
    BY FinishInvariant, ClosedInvariant DEF Serialization

LEMMA BeginInvariant ==
    ASSUME TypeOK, IInv, NEW p \in Procs, Begin(p) PROVE IInv'
<1>1. CASE ~Accepted(p)
    BY <1>1, FinishInvariant DEF Begin
<1>2. CASE Accepted(p)
  <2>1. /\ done' = done
        /\ snap' = [snap EXCEPT ![p] = row[Id(p)]]
        /\ todo' = [todo EXCEPT ![p] = Statements(p, row[Id(p)])]
        /\ UNCHANGED tables
      BY <1>2 DEF Begin
  <2>2. done[p] = {}
      BY DEF Begin, TypeOK
  <2>3. ASSUME NEW q \in Procs \ {p} PROVE todo'[q] = todo[q] /\ snap'[q] = snap[q]
      BY <2>1 DEF TypeOK
  <2>4. LocksExclusive'
      BY <2>1 DEF IInv, LocksExclusive, Locks
  <2>5. ExecutedOnce'
      BY <2>1, <2>2, <2>3 DEF IInv, ExecutedOnce
  <2>6. InOrder'
    <3> SUFFICES ASSUME NEW q \in Procs, NEW s \in done'[q], NEW u \in todo'[q]
                 PROVE  Before(q, s, u)
        BY DEF InOrder, Before, Stage
    <3>1. QED
        BY <2>1, <2>2, <2>3 DEF IInv, InOrder
  <2>7. EachCovers'
    <3> SUFFICES ASSUME NEW q \in Procs, NEW a \in Accounts
                 PROVE  balance[a] + Added(q, a)' >= MinBalance[a]
        BY <2>1 DEF EachCovers, tables
    <3>1. CASE q = p
      <4>1. Added(q, a)' = 0
          BY <2>1, <2>2, <3>1 DEF Added, AddedBy
      <4>2. QED
          BY <4>1 DEF IInv, NoOverdraft, Committed!NoOverdraft, TypeOK
    <3>2. CASE q # p
        BY <2>1, <2>3, <3>2, AddedSame DEF IInv, EachCovers
    <3>3. QED
        BY <3>1, <3>2
  <2>8. NoOverdraft'
      BY <2>1 DEF IInv, NoOverdraft, Committed!NoOverdraft, tables
  <2>9. QED
      BY <2>4, <2>5, <2>6, <2>7, <2>8 DEF IInv
<1>3. QED
    BY <1>1, <1>2

(* A statement is executed only if its row is free, it is next, and the      *)
(* account stays covered.                                                    *)
LEMMA ExecuteInvariant ==
    ASSUME TypeOK, IInv, NEW p \in Procs, Execute(p) PROVE IInv'
<1>1. PICK s \in todo[p] :
          /\ Due(p, s)
          /\ Free(p, s)
          /\ Adjusts(s) => Covers(p, s[1], s[2])
          /\ todo' = [todo EXCEPT ![p] = @ \ {s}]
          /\ done' = [done EXCEPT ![p] = @ \cup {s}]
          /\ UNCHANGED <<tables, snap>>
    BY DEF Execute
<1>2. /\ todo'[p] = todo[p] \ {s}
      /\ done'[p] = done[p] \cup {s}
      /\ s \notin done[p]
    BY <1>1 DEF TypeOK, IInv, ExecutedOnce
<1>3. ASSUME NEW q \in Procs \ {p} PROVE todo'[q] = todo[q] /\ done'[q] = done[q]
    BY <1>1 DEF TypeOK
<1>4. LocksExclusive'
  <2> SUFFICES ASSUME NEW q \in Procs, NEW r \in Procs, q # r
               PROVE  (Locks(q) \cap Locks(r) = {})'
      BY DEF LocksExclusive
  <2>1. Locks(p)' = Locks(p) \cup {RowOf(s)}
      BY <1>2 DEF Locks, RowOf, Adjusts
  <2>2. \A o \in Procs \ {p} : Locks(o)' = Locks(o) /\ RowOf(s) \notin Locks(o)
      BY <1>1, <1>3 DEF Locks, Free, RowOf, Adjusts
  <2>3. Locks(q) \cap Locks(r) = {}
      BY DEF IInv, LocksExclusive
  <2>4. QED
      BY <2>1, <2>2, <2>3
<1>5. ExecutedOnce'
    BY <1>2, <1>3 DEF IInv, ExecutedOnce
<1>6. InOrder'
  <2> SUFFICES ASSUME NEW q \in Procs, NEW t \in done'[q], NEW u \in todo'[q]
               PROVE  Before(q, t, u)
      BY DEF InOrder, Before, Stage
  <2>1. CASE q = p
    <3>1. u \in todo[p] \ {s}
        BY <1>2, <2>1
    <3>2. CASE t = s
        BY <1>1, <2>1, <3>1, <3>2 DEF Due
    <3>3. CASE t \in done[p]
        BY <2>1, <3>1, <3>3 DEF IInv, InOrder
    <3>4. QED
        BY <1>2, <2>1, <3>2, <3>3
  <2>2. CASE q # p
      BY <1>3, <2>2 DEF IInv, InOrder
  <2>3. QED
      BY <2>1, <2>2
<1>7. EachCovers'
  <2> SUFFICES ASSUME NEW q \in Procs, NEW a \in Accounts
               PROVE  balance[a] + Added(q, a)' >= MinBalance[a]
      BY <1>1 DEF EachCovers, tables
  <2>1. balance[a] + Added(q, a) >= MinBalance[a]
      BY DEF IInv, EachCovers
  <2>2. CASE q = p /\ Adjusts(s) /\ s[2] = a
    <3>1. Added(q, a)' = Added(q, a) + Amount(p, s[1], a)
        BY <1>1, <1>2, <2>2, AddedMore
    <3>2. balance[a] + Added(q, a) + Amount(p, s[1], a) >= MinBalance[a]
        BY <1>1, <2>2 DEF Covers
    <3>3. s \in Statements(p, snap[p])
        BY DEF TypeOK
    <3>4. Amount(p, s[1], a) \in Int
        BY <2>2, <3>3, StatementsType, AmountType DEF Adjusts
    <3>5. QED
        BY <3>1, <3>2, <3>4, AddedType DEF TypeOK
  <2>3. CASE q = p /\ ~(Adjusts(s) /\ s[2] = a)
      BY <1>1, <1>2, <2>1, <2>3, AddedMore
  <2>4. CASE q # p
      BY <1>1, <1>3, <2>1, <2>4, AddedSame
  <2>5. QED
      BY <2>2, <2>3, <2>4
<1>8. NoOverdraft'
    BY <1>1 DEF IInv, NoOverdraft, Committed!NoOverdraft, tables
<1>9. QED
    BY <1>4, <1>5, <1>6, <1>7, <1>8 DEF IInv

(* A commit changes the balances of accounts it has locked; whoever else     *)
(* looks at them has added nothing to them.                                  *)
LEMMA CommitInvariant ==
    ASSUME TypeOK, IInv, NEW p \in Procs, Commit(p) PROVE IInv'
<1>1. /\ balance' = [a \in Accounts |-> balance[a] + Added(p, a)]
      /\ snap' = [snap EXCEPT ![p] = NoRow]
      /\ todo' = [todo EXCEPT ![p] = {}]
      /\ done' = [done EXCEPT ![p] = {}]
    BY DEF Commit, Finish
<1>2. done'[p] = {} /\ todo'[p] = {}
    BY <1>1 DEF TypeOK
<1>3. ASSUME NEW q \in Procs \ {p}
      PROVE  done'[q] = done[q] /\ todo'[q] = todo[q] /\ snap'[q] = snap[q]
    BY <1>1 DEF TypeOK
<1>4. LocksExclusive'
    BY <1>2, <1>3 DEF IInv, LocksExclusive, Locks
<1>5. ExecutedOnce'
    BY <1>2, <1>3 DEF IInv, ExecutedOnce
<1>6. InOrder'
  <2> SUFFICES ASSUME NEW q \in Procs, NEW s \in done'[q], NEW u \in todo'[q]
               PROVE  Before(q, s, u)
      BY DEF InOrder, Before, Stage
  <2>1. QED
      BY <1>2, <1>3 DEF IInv, InOrder
<1>7. \A a \in Accounts : balance'[a] >= MinBalance[a]
    BY <1>1 DEF IInv, EachCovers
<1>8. EachCovers'
  <2> SUFFICES ASSUME NEW q \in Procs, NEW a \in Accounts
               PROVE  balance'[a] + Added(q, a)' >= MinBalance[a]
      BY DEF EachCovers
  <2>1. CASE q = p
    <3>1. Added(q, a)' = 0
        BY <1>2, <2>1 DEF Added, AddedBy
    <3>2. balance'[a] \in Int
        BY <1>1, AddedType DEF TypeOK
    <3>3. QED
        BY <1>7, <3>1, <3>2
  <2>2. CASE q # p /\ <<"account", a>> \in Locks(q)
    <3>1. <<"account", a>> \notin Locks(p)
        BY <2>2 DEF IInv, LocksExclusive
    <3>2. balance'[a] = balance[a]
        BY <1>1, <3>1, AddedUnderLock DEF TypeOK
    <3>3. Added(q, a)' = Added(q, a)
        BY <1>3, <2>2, AddedSame
    <3>4. QED
        BY <3>2, <3>3 DEF IInv, EachCovers
  <2>3. CASE q # p /\ <<"account", a>> \notin Locks(q)
    <3>1. Added(q, a)' = 0
        BY <1>3, <2>3, AddedSame, AddedUnderLock
    <3>2. balance'[a] \in Int
        BY <1>1, AddedType DEF TypeOK
    <3>3. QED
        BY <1>7, <3>1, <3>2
  <2>4. QED
      BY <2>1, <2>2, <2>3
<1>9. NoOverdraft'
    BY <1>7 DEF NoOverdraft, Committed!NoOverdraft
<1>10. QED
    BY <1>4, <1>5, <1>6, <1>8, <1>9 DEF IInv

THEOREM Invariant == Spec => [](TypeOK /\ IInv)
<1>1. Init => IInv
  <2> SUFFICES ASSUME Init PROVE IInv
      OBVIOUS
  <2>1. \A p \in Procs : done[p] = {} /\ todo[p] = {}
      BY DEF Init
  <2>2. \A p \in Procs, a \in Accounts : Added(p, a) = 0
      BY <2>1, AddedNothing
  <2>3. \A a \in Accounts : balance[a] \in Int /\ balance[a] >= MinBalance[a]
      BY BalanceAssumption DEF Init
  <2>4. QED
      BY <2>1, <2>2, <2>3 DEF IInv, LocksExclusive, Locks, ExecutedOnce, InOrder,
          EachCovers, NoOverdraft, Committed!NoOverdraft
<1>2. TypeOK /\ IInv /\ [Next]_vars => IInv'
  <2> SUFFICES ASSUME TypeOK, IInv, [Next]_vars PROVE IInv'
      OBVIOUS
  <2>1. CASE UNCHANGED vars
    <3>1. \A p \in Procs, a \in Accounts : Added(p, a)' = Added(p, a)
        BY <2>1, AddedSame DEF vars
    <3>2. QED
        BY <2>1, <3>1 DEF vars, tables, IInv, LocksExclusive, Locks, ExecutedOnce,
            InOrder, EachCovers, NoOverdraft, Committed!NoOverdraft
  <2>2. ASSUME NEW p \in Procs, Uncovered(p) PROVE IInv'
      BY <2>2, FinishInvariant DEF Uncovered
  <2>3. ASSUME NEW p \in Procs, Conflict(p) PROVE IInv'
      BY <2>3, SerializationInvariant DEF Conflict
  <2>4. ASSUME NEW p \in Procs, Deadlock(p) PROVE IInv'
      BY <2>4, FinishInvariant DEF Deadlock
  <2>5. ASSUME NEW p \in Procs, Rollback(p) PROVE IInv'
      BY <2>5, FinishInvariant DEF Rollback
  <2>6. QED
      BY <2>1, <2>2, <2>3, <2>4, <2>5, BeginInvariant, ExecuteInvariant,
         CommitInvariant DEF Next, Run
<1>3. QED
    BY <1>1, <1>2, TypeCorrect, PTL DEF Spec

(* However many transactions are open at once, and whatever each has in      *)
(* hand, no account is taken below its minimum.                              *)
THEOREM BalancesCovered == Spec => []NoOverdraft
<1>1. IInv => NoOverdraft
    BY DEF IInv
<1>2. QED
    BY <1>1, Invariant, PTL

------------------------------------------------------------------------------
(* Deadlocks.  A fulfilment or an expiry moves money in one direction only.  *)
LEMMA OneMove ==
    ASSUME NEW p \in Procs, Op(p) # "put", NEW old,
           NEW m \in MovesOf(p, old), NEW n \in MovesOf(p, old)
    PROVE  m = n
    BY JobType DEF MovesOf, FulfillMoves, ExpireMoves

(* So its statements are ordered by the rows they lock: the fulfilment is    *)
(* never second, the transfer never first, accounts ascend.                  *)
LEMMA ReleaseOrder ==
    ASSUME NEW p \in Procs, Op(p) # "put", NEW old,
           NEW s \in Statements(p, old), NEW u \in Statements(p, old), Before(p, s, u)
    PROVE  /\ u[1] # "fulfillment"
           /\ s[1] # "transfer"
           /\ Adjusts(s) /\ Adjusts(u) => NameRank[s[2]] < NameRank[u[2]]
<1>1. /\ Stage(p, s) \in {0, 1, 2, 3, 4} /\ Stage(p, u) \in {0, 1, 2, 3, 4}
      /\ s[1] = "fulfillment" => Stage(p, s) = 0 /\ ~Adjusts(s)
      /\ u[1] = "fulfillment" => Stage(p, u) = 0 /\ ~Adjusts(u)
      /\ s[1] = "transfer" => Stage(p, s) = 4 /\ ~Adjusts(s)
    BY StatementsType DEF Stage, Adjusts, Moves
<1>2. ASSUME Adjusts(s), Adjusts(u) PROVE Stage(p, s) = Stage(p, u)
  <2>1. s[1] \in MovesOf(p, old) /\ u[1] \in MovesOf(p, old)
      BY <1>2, StatementsType
  <2>2. s[1] = u[1]
      BY <2>1, OneMove
  <2>3. QED
      BY <2>2 DEF Stage
<1>3. QED
    BY <1>1, <1>2 DEF Before

(* In a circle of them everybody waits for an account: who waits for the     *)
(* fulfilment row has locked nothing, who has locked the transfer row waits  *)
(* for nothing.  Who waits for whom descends in the order of names, which    *)
(* has a least element.                                                      *)
THEOREM DeadlockNeedsPut == Spec => []ReleasesNeverDeadlock
<1>1. TypeOK /\ IInv => ReleasesNeverDeadlock
  <2> SUFFICES ASSUME TypeOK, IInv, NEW C \in SUBSET Waiting, C # {}, Circle(C),
                      \A p \in C : Op(p) # "put"
               PROVE  FALSE
      BY DEF ReleasesNeverDeadlock
  <2>1. C \subseteq Procs
      BY DEF Waiting
  <2>2. ASSUME NEW p \in C, NEW u \in done[p], NEW s \in todo[p]
        PROVE  /\ u \in Statements(p, snap[p]) /\ s \in Statements(p, snap[p])
               /\ s[1] # "fulfillment"
               /\ u[1] # "transfer"
               /\ Adjusts(u) /\ Adjusts(s) => NameRank[u[2]] < NameRank[s[2]]
    <3>1. u \in Statements(p, snap[p]) /\ s \in Statements(p, snap[p])
        BY <2>1 DEF TypeOK
    <3>2. Before(p, u, s)
        BY <2>1 DEF IInv, InOrder
    <3>3. QED
        BY <2>1, <3>1, <3>2, ReleaseOrder
  <2>3. ASSUME NEW p \in C
        PROVE  \E q \in C : \E s \in todo[q], u \in done[p] : RowOf(s) = RowOf(u)
      BY DEF Circle, WaitsFor, Locks
  <2>4. ASSUME NEW p \in C, NEW q \in C, NEW s \in todo[q], NEW u \in done[p],
               RowOf(s) = RowOf(u)
        PROVE  Adjusts(s) /\ Adjusts(u) /\ s[2] = u[2] /\ s[2] \in Accounts
    <3>1. PICK v \in done[q] : TRUE
        BY <2>3
    <3>2. PICK w \in todo[p] : TRUE
        BY DEF Circle, WaitsFor
    <3>3. s \in Statements(q, snap[q]) /\ s[1] # "fulfillment"
        BY <2>2, <3>1
    <3>4. u \in Statements(p, snap[p]) /\ u[1] # "transfer"
        BY <2>2, <3>2
    <3>5. s[1] = "transfer" => u[1] = "transfer"
        BY <2>1, <2>4, <3>4, StatementsType DEF RowOf, Adjusts, Moves
    <3>6. Adjusts(s) /\ RowOf(s) = <<"account", s[2]>> /\ s[2] \in Accounts
        BY <2>1, <3>3, <3>4, <3>5, StatementsType DEF RowOf
    <3>7. Adjusts(u) /\ RowOf(u) = <<"account", u[2]>>
        BY <2>1, <2>4, <3>4, <3>6, StatementsType DEF RowOf
    <3>8. <<"account", s[2]>> = <<"account", u[2]>>
        BY <2>4, <3>6, <3>7
    <3>9. QED
        BY <3>6, <3>7, <3>8
  <2> DEFINE Awaited == {n \in Nat : \E p \in C : \E s \in todo[p] :
                            /\ Adjusts(s) /\ s[2] \in Accounts
                            /\ NameRank[s[2]] = n}
  <2>5. Awaited # {}
    <3>1. PICK p \in C : TRUE
        OBVIOUS
    <3>2. PICK q \in C : \E s \in todo[q], u \in done[p] : RowOf(s) = RowOf(u)
        BY <2>3
    <3>3. PICK s \in todo[q] : \E u \in done[p] : RowOf(s) = RowOf(u)
        BY <3>2
    <3>4. Adjusts(s) /\ s[2] \in Accounts
        BY <2>4, <3>3
    <3>5. NameRank[s[2]] \in Awaited
        BY <3>4, HoldsAssumption
    <3>6. QED
        BY <3>5
  <2>6. ASSUME NEW n \in Awaited PROVE \E m \in Awaited : m < n
    <3>1. PICK p \in C : \E s \in todo[p] :
              Adjusts(s) /\ s[2] \in Accounts /\ NameRank[s[2]] = n
        OBVIOUS
    <3>2. PICK s \in todo[p] :
              Adjusts(s) /\ s[2] \in Accounts /\ NameRank[s[2]] = n
        BY <3>1
    <3>3. PICK q \in C : \E r \in todo[q], u \in done[p] : RowOf(r) = RowOf(u)
        BY <2>3
    <3>4. PICK r \in todo[q], u \in done[p] : RowOf(r) = RowOf(u)
        BY <3>3
    <3>5. Adjusts(r) /\ Adjusts(u) /\ r[2] = u[2] /\ r[2] \in Accounts
        BY <2>4, <3>4
    <3>6. NameRank[r[2]] < n
        BY <2>2, <3>2, <3>5
    <3>7. NameRank[r[2]] \in Awaited
        BY <3>5, HoldsAssumption
    <3>8. QED
        BY <3>6, <3>7
  <2>7. PICK n \in Awaited : \A m \in Awaited : ~(<<m, n>> \in OpToRel(<, Nat))
    <3>1. Awaited \subseteq Nat
        OBVIOUS
    <3>2. QED
        BY <2>5, <3>1, WFMin, NatLessThanWellFounded
  <2>8. PICK m \in Awaited : m < n
      BY <2>6
  <2>9. <<m, n>> \in OpToRel(<, Nat)
      BY <2>8 DEF OpToRel
  <2>10. QED
      BY <2>7, <2>9
<1>2. QED
    BY <1>1, Invariant, PTL

------------------------------------------------------------------------------
(* The refinement of Ledger.  A transaction that can still commit has read   *)
(* its transfer as it is: who commits another change of it in between had    *)
(* the lock of its row, so that this row is missed and still to be written.  *)
(* What it checked when it began is therefore still so, and what it has      *)
(* taken from a sender was there, as nobody else can touch that account.     *)

SnapshotOK(p) ==
    pc[p] = "run" =>
        \/ row[Id(p)] = snap[p]
        \/ <<"transfer", Id(p)>> \in missed[p] \ done[p]

ChecksHold(p) ==
    pc[p] = "run" =>
        /\ ValidAmounts(Id(p))
        /\ Op(p) = "fulfill" => /\ MatchesCondition(Id(p), Job[p].condition)
                                /\ FulfillAllowed(snap[p], Job[p].condition)
        /\ Op(p) = "expire" => Expirable(snap[p])

HoldsCovered(p) ==
    \A a \in Debtors(Id(p)) :
        <<"hold", a>> \in done[p] =>
            balance[a] - AsNumber(Debit[Id(p)][a]) >= MinBalance[a]

RowOK(t) ==
    /\ row[t].state # "nonexistent" => ValidAmounts(t)
    /\ row[t].state = "prepared" => t \in HasExecution

ProcOK(p) == SnapshotOK(p) /\ ChecksHold(p) /\ HoldsCovered(p)

RInv == (\A p \in Procs : ProcOK(p)) /\ (\A t \in Transfers : RowOK(t))

(* The row of its transfer is among the statements of each transaction.      *)
LEMMA TransferRow ==
    ASSUME TypeOK, NEW p \in Procs
    PROVE  /\ pc[p] = "run" => <<"transfer", Id(p)>> \in todo[p] \cup done[p]
           /\ <<"transfer", Id(p)>> \in done[p] => <<"transfer", Id(p)>> \in Locks(p)
           /\ \A a \in Accounts : <<"hold", a>> \in done[p] => <<"account", a>> \in Locks(p)
<1>1. pc[p] = "run" => <<"transfer", Id(p)>> \in todo[p] \cup done[p]
  <2>1. <<"transfer", Id(p)>> \in Statements(p, snap[p])
      BY DEF Statements
  <2>2. QED
      BY <2>1 DEF TypeOK
<1>2. RowOf(<<"transfer", Id(p)>>) = <<"transfer", Id(p)>>
    BY DEF RowOf, Adjusts, Moves
<1>3. \A a : RowOf(<<"hold", a>>) = <<"account", a>>
    BY DEF RowOf, Adjusts, Moves
<1>4. QED
    BY <1>1, <1>2, <1>3 DEF Locks

(* A step of p that leaves the tables alone disturbs nobody else.            *)
LEMMA OthersKeep ==
    ASSUME RInv, NEW p \in Procs, UNCHANGED tables, UNCHANGED missed,
           \A q \in Procs \ {p} :
               pc'[q] = pc[q] /\ snap'[q] = snap[q] /\ done'[q] = done[q],
           ProcOK(p)'
    PROVE  RInv'
<1>1. ASSUME NEW q \in Procs \ {p} PROVE ProcOK(q)'
    BY DEF RInv, ProcOK, SnapshotOK, ChecksHold, HoldsCovered, tables
<1>2. ASSUME NEW t \in Transfers PROVE RowOK(t)'
    BY DEF RInv, RowOK, tables
<1>3. QED
    BY <1>1, <1>2 DEF RInv

LEMMA EndKeeps ==
    ASSUME TypeOK, RInv, NEW p \in Procs, UNCHANGED tables, UNCHANGED missed,
           NEW label, label # "run",
           pc' = [pc EXCEPT ![p] = label],
           snap' = [snap EXCEPT ![p] = NoRow],
           done' = [done EXCEPT ![p] = {}]
    PROVE  RInv'
<1>1. \A q \in Procs \ {p} :
          pc'[q] = pc[q] /\ snap'[q] = snap[q] /\ done'[q] = done[q]
    BY DEF TypeOK
<1>2. pc'[p] # "run" /\ done'[p] = {}
    BY DEF TypeOK
<1>3. ProcOK(p)'
    BY <1>2 DEF ProcOK, SnapshotOK, ChecksHold, HoldsCovered
<1>4. QED
    BY <1>1, <1>3, OthersKeep

LEMMA FinishKeeps ==
    ASSUME TypeOK, RInv, NEW p \in Procs, NEW result, Finish(p, result),
           UNCHANGED tables, UNCHANGED missed
    PROVE  RInv'
    BY EndKeeps DEF Finish

LEMMA SerializationKeeps ==
    ASSUME TypeOK, RInv, NEW p \in Procs, NEW s, Serialization(p, s),
           UNCHANGED tables, UNCHANGED missed
    PROVE  RInv'
<1>1. CASE \E result : Finish(p, result)
    BY <1>1, FinishKeeps
<1>2. CASE pc' = [pc EXCEPT ![p] = "begin"] /\ snap' = [snap EXCEPT ![p] = NoRow]
           /\ done' = [done EXCEPT ![p] = {}]
  <2>1. "begin" # "run"
      OBVIOUS
  <2>2. QED
      BY <1>2, <2>1, EndKeeps
<1>3. QED
    BY <1>1, <1>2 DEF Serialization

LEMMA BeginKeeps ==
    ASSUME TypeOK, RInv, NEW p \in Procs, Begin(p) PROVE RInv'
<1>1. CASE ~Accepted(p)
    BY <1>1, FinishKeeps DEF Begin
<1>2. CASE Accepted(p)
  <2>1. /\ pc' = [pc EXCEPT ![p] = "run"]
        /\ snap' = [snap EXCEPT ![p] = row[Id(p)]]
        /\ missed' = [missed EXCEPT ![p] = {}]
        /\ done' = done
        /\ UNCHANGED tables
        /\ pc[p] # "run"
      BY <1>2 DEF Begin
  <2>2. \A q \in Procs \ {p} :
            pc'[q] = pc[q] /\ snap'[q] = snap[q] /\ missed'[q] = missed[q]
      BY <2>1 DEF TypeOK
  <2>3. done'[p] = {} /\ pc'[p] = "run" /\ snap'[p] = row[Id(p)] /\ row' = row
      BY <2>1 DEF TypeOK, tables
  <2>4. HoldsCovered(p)'
      BY <2>3 DEF HoldsCovered
  <2>5. SnapshotOK(p)'
      BY <2>3 DEF SnapshotOK
  <2>6. ChecksHold(p)'
    <3>1. /\ Op(p) = "put" => ValidAmounts(Id(p))
          /\ Op(p) = "fulfill" => /\ MatchesCondition(Id(p), Job[p].condition)
                                  /\ FulfillAllowed(row[Id(p)], Job[p].condition)
          /\ Op(p) = "expire" => Expirable(row[Id(p)])
        BY <1>2 DEF Accepted
    <3>2. Op(p) # "put" => row[Id(p)].state # "nonexistent"
        BY <3>1, JobType
           DEF FulfillAllowed, ValidExecutionStates, ValidCancellationStates, Expirable
    <3>3. ValidAmounts(Id(p))
        BY <3>1, <3>2, JobType DEF RInv, RowOK
    <3>4. QED
        BY <2>3, <3>1, <3>3 DEF ChecksHold
  <2>7. ASSUME NEW q \in Procs \ {p} PROVE ProcOK(q)'
      BY <2>1, <2>2 DEF RInv, ProcOK, SnapshotOK, ChecksHold, HoldsCovered, tables
  <2>8. ASSUME NEW t \in Transfers PROVE RowOK(t)'
      BY <2>1 DEF RInv, RowOK, tables
  <2>9. QED
      BY <2>4, <2>5, <2>6, <2>7, <2>8 DEF RInv, ProcOK
<1>3. QED
    BY <1>1, <1>2

(* A hold is the first adjustment of its account.                            *)
LEMMA NothingBeforeHold ==
    ASSUME IInv, NEW p \in Procs, NEW a, <<"hold", a>> \in todo[p]
    PROVE  Added(p, a) = 0
<1>1. <<"hold", a>> \notin done[p]
    BY DEF IInv, ExecutedOnce
<1>2. ASSUME NEW move \in {"disburse", "return"} PROVE <<move, a>> \notin done[p]
  <2>1. SUFFICES ASSUME <<move, a>> \in done[p] PROVE FALSE
      OBVIOUS
  <2>2. Before(p, <<move, a>>, <<"hold", a>>)
      BY <2>1 DEF IInv, InOrder
  <2>3. Stage(p, <<"hold", a>>) = 1 /\ Stage(p, <<move, a>>) \in {2, 3}
      BY DEF Stage
  <2>4. QED
      BY <2>2, <2>3 DEF Before
<1>3. QED
    BY <1>1, <1>2 DEF Added, AddedBy

(* What is held was there: before a hold its transaction has added nothing   *)
(* to the account.  The row of the transfer is only written if it was not    *)
(* missed.                                                                   *)
LEMMA ExecuteKeeps ==
    ASSUME TypeOK, IInv, RInv, NEW p \in Procs, Execute(p) PROVE RInv'
<1>1. PICK s \in todo[p] :
          /\ ~Stale(p, s)
          /\ Adjusts(s) => Covers(p, s[1], s[2])
          /\ done' = [done EXCEPT ![p] = @ \cup {s}]
          /\ UNCHANGED <<tables, pc, snap, missed>>
    BY DEF Execute
<1>2. done'[p] = done[p] \cup {s} /\ \A q \in Procs \ {p} : done'[q] = done[q]
    BY <1>1 DEF TypeOK
<1>3. SnapshotOK(p)'
  <2>1. ASSUME <<"transfer", Id(p)>> \in missed[p] PROVE s # <<"transfer", Id(p)>>
    <3>1. RowOf(<<"transfer", Id(p)>>) = <<"transfer", Id(p)>>
        BY DEF RowOf, Adjusts, Moves
    <3>2. QED
        BY <1>1, <2>1, <3>1 DEF Stale
  <2>2. QED
      BY <1>1, <1>2, <2>1 DEF RInv, ProcOK, SnapshotOK, tables
<1>4. ChecksHold(p)'
    BY <1>1 DEF RInv, ProcOK, ChecksHold
<1>5. HoldsCovered(p)'
  <2> SUFFICES ASSUME NEW a \in Debtors(Id(p)), <<"hold", a>> \in done'[p]
               PROVE  balance[a] - AsNumber(Debit[Id(p)][a]) >= MinBalance[a]
      BY <1>1 DEF HoldsCovered, tables
  <2>1. CASE <<"hold", a>> \in done[p]
      BY <2>1 DEF RInv, ProcOK, HoldsCovered
  <2>2. CASE <<"hold", a>> = s /\ s \notin done[p]
    <3>1. a \in Accounts /\ AsNumber(Debit[Id(p)][a]) \in Int
        BY JobType, HoldsAssumption, ContentAssumption DEF Debtors
    <3>2. Adjusts(s) /\ s[1] = "hold" /\ s[2] = a
        BY <2>2 DEF Adjusts, Moves
    <3>3. balance[a] + Added(p, a) + -AsNumber(Debit[Id(p)][a]) >= MinBalance[a]
      <4>1. Amount(p, "hold", a) = -AsNumber(Debit[Id(p)][a])
          BY DEF Amount
      <4>2. QED
          BY <1>1, <3>2, <4>1 DEF Covers
    <3>4. Added(p, a) = 0
        BY <2>2, NothingBeforeHold
    <3>5. balance[a] \in Int
        BY <3>1 DEF TypeOK
    <3>6. QED
        BY <3>1, <3>3, <3>4, <3>5
  <2>3. QED
      BY <1>2, <2>1, <2>2
<1>6. QED
    BY <1>1, <1>2, <1>3, <1>4, <1>5, OthersKeep DEF ProcOK

(* What a transaction is about to commit.                                    *)
LEMMA AtCommit ==
    ASSUME TypeOK, RInv, NEW p \in Procs, Executed(p)
    PROVE  /\ done[p] = Statements(p, snap[p])
           /\ <<"transfer", Id(p)>> \in Locks(p)
           /\ row[Id(p)] = snap[p] /\ snap[p] \in Rows
           /\ ValidAmounts(Id(p))
           /\ Op(p) = "fulfill" => /\ MatchesCondition(Id(p), Job[p].condition)
                                   /\ FulfillAllowed(snap[p], Job[p].condition)
           /\ Op(p) = "expire" => Expirable(snap[p])
           /\ snap[p].state = "prepared" => Id(p) \in HasExecution
           /\ "hold" \in MovesOf(p, snap[p]) =>
                  \A a \in Debtors(Id(p)) :
                      balance[a] - AsNumber(Debit[Id(p)][a]) >= MinBalance[a]
<1>1. pc[p] = "run" /\ todo[p] = {} /\ done[p] = Statements(p, snap[p])
    BY DEF Executed, TypeOK
<1>2. <<"transfer", Id(p)>> \in done[p] /\ <<"transfer", Id(p)>> \in Locks(p)
    BY <1>1, TransferRow
<1>3. row[Id(p)] = snap[p] /\ snap[p] \in Rows
    BY <1>1, <1>2 DEF RInv, ProcOK, SnapshotOK, TypeOK
<1>4. /\ ValidAmounts(Id(p))
      /\ Op(p) = "fulfill" => /\ MatchesCondition(Id(p), Job[p].condition)
                              /\ FulfillAllowed(snap[p], Job[p].condition)
      /\ Op(p) = "expire" => Expirable(snap[p])
    BY <1>1 DEF RInv, ProcOK, ChecksHold
<1>5. RowOK(Id(p))
    BY JobType DEF RInv
<1>6. ASSUME "hold" \in MovesOf(p, snap[p]), NEW a \in Debtors(Id(p))
      PROVE  balance[a] - AsNumber(Debit[Id(p)][a]) >= MinBalance[a]
  <2>1. a \in Accounts /\ a \in Parties(Id(p), "hold")
      BY JobType, ContentAssumption DEF Debtors, Parties
  <2>2. <<"hold", a>> \in Statements(p, snap[p])
      BY <1>6, <2>1 DEF Statements
  <2>3. QED
      BY <1>1, <2>2 DEF RInv, ProcOK, HoldsCovered
<1>7. QED
    BY <1>1, <1>2, <1>3, <1>4, <1>5, <1>6 DEF RowOK

(* A commit changes a row that every other open transaction on the transfer  *)
(* has yet to write, and no balance another one has held money of.           *)
LEMMA CommitKeeps ==
    ASSUME TypeOK, IInv, RInv, NEW p \in Procs, Commit(p) PROVE RInv'
<1>1. /\ Executed(p)
      /\ row' = [row EXCEPT ![Id(p)] = NewRow(p)]
      /\ balance' = [a \in Accounts |-> balance[a] + Added(p, a)]
      /\ missed' = [q \in Procs |->
                       IF q # p /\ pc[q] = "run" THEN missed[q] \cup Locks(p) ELSE missed[q]]
      /\ pc' = [pc EXCEPT ![p] = "done"]
      /\ snap' = [snap EXCEPT ![p] = NoRow]
      /\ done' = [done EXCEPT ![p] = {}]
    BY DEF Commit, Finish
<1>2. Id(p) \in Transfers /\ NewRow(p) \in Rows
    BY JobType, NewRowType
<1>3. <<"transfer", Id(p)>> \in Locks(p) /\ row[Id(p)] = snap[p]
    BY <1>1, AtCommit
<1>4. ProcOK(p)'
  <2>1. pc'[p] # "run" /\ done'[p] = {}
      BY <1>1 DEF TypeOK
  <2>2. QED
      BY <2>1 DEF ProcOK, SnapshotOK, ChecksHold, HoldsCovered
<1>5. ASSUME NEW q \in Procs \ {p} PROVE ProcOK(q)'
  <2>1. pc'[q] = pc[q] /\ snap'[q] = snap[q] /\ done'[q] = done[q]
      BY <1>1 DEF TypeOK
  <2>2. Locks(q) \cap Locks(p) = {}
      BY DEF IInv, LocksExclusive
  <2>3. SnapshotOK(q)'
    <3>1. SUFFICES ASSUME pc[q] = "run"
                   PROVE  \/ row'[Id(q)] = snap[q]
                          \/ <<"transfer", Id(q)>> \in missed'[q] \ done[q]
        BY <2>1 DEF SnapshotOK
    <3>2. missed'[q] = missed[q] \cup Locks(p)
        BY <1>1, <3>1
    <3>3. CASE Id(q) = Id(p)
      <4>1. <<"transfer", Id(q)>> \notin done[q]
          BY <1>3, <2>2, <3>3, TransferRow
      <4>2. QED
          BY <1>3, <3>2, <3>3, <4>1
    <3>4. CASE Id(q) # Id(p)
      <4>1. row'[Id(q)] = row[Id(q)]
          BY <1>1, <3>4, JobType DEF TypeOK
      <4>2. QED
          BY <3>1, <3>2, <4>1 DEF RInv, ProcOK, SnapshotOK
    <3>5. QED
        BY <3>3, <3>4
  <2>4. ChecksHold(q)'
      BY <2>1 DEF RInv, ProcOK, ChecksHold
  <2>5. HoldsCovered(q)'
    <3>1. SUFFICES ASSUME NEW a \in Debtors(Id(q)), <<"hold", a>> \in done[q]
                   PROVE  balance'[a] - AsNumber(Debit[Id(q)][a]) >= MinBalance[a]
        BY <2>1 DEF HoldsCovered
    <3>2. a \in Accounts
        BY JobType, ContentAssumption DEF Debtors
    <3>3. <<"account", a>> \notin Locks(p)
        BY <2>2, <3>1, <3>2, TransferRow
    <3>4. balance'[a] = balance[a]
        BY <1>1, <3>2, <3>3, AddedUnderLock DEF TypeOK
    <3>5. QED
        BY <3>1, <3>4 DEF RInv, ProcOK, HoldsCovered
  <2>6. QED
      BY <2>3, <2>4, <2>5 DEF ProcOK
<1>6. ASSUME NEW t \in Transfers PROVE RowOK(t)'
  <2>1. CASE t # Id(p)
    <3>1. row'[t] = row[t]
        BY <1>1, <2>1 DEF TypeOK
    <3>2. QED
        BY <3>1 DEF RInv, RowOK
  <2>2. CASE t = Id(p)
    <3>1. row'[t] = NewRow(p)
        BY <1>1, <1>2, <2>2 DEF TypeOK
    <3>2. ValidAmounts(t) /\ (snap[p].state = "prepared" => t \in HasExecution)
        BY <1>1, <2>2, AtCommit
    <3>3. NewRow(p).state = "prepared" => t \in HasExecution
      <4>1. CASE Op(p) = "put"
        <5>1. NewRow(p).state = IF Rejects(t, snap[p], Job[p]) THEN "rejected"
                                ELSE StateIfExecuted(t, snap[p], Job[p])
            BY <2>2, <4>1 DEF NewRow, PutRow
        <5>2. QED
            BY <5>1 DEF StateIfExecuted, Executes
      <4>2. CASE Op(p) # "put"
        <5>1. NewRow(p).state \in {"executed", "rejected"}
          <6>1. snap[p] \in Rows
              BY DEF TypeOK
          <6>2. FulfillRow(snap[p], Job[p].condition, 0).state \in {"executed", "rejected"}
              BY <6>1 DEF FulfillRow, Rows
          <6>3. ExpireRow(snap[p]).state = "rejected"
              BY <6>1 DEF ExpireRow, Rows
          <6>4. QED
              BY <4>2, <6>2, <6>3, JobType DEF NewRow
        <5>2. QED
            BY <5>1
      <4>3. QED
          BY <4>1, <4>2
    <3>4. QED
        BY <3>1, <3>2, <3>3 DEF RowOK
  <2>3. QED
      BY <2>1, <2>2
<1>7. QED
    BY <1>4, <1>5, <1>6 DEF RInv

(* Only a commit changes the tables.                                         *)
LEMMA OnlyCommitsChange ==
    ASSUME [Next]_vars, ~(\E p \in Procs : Commit(p))
    PROVE  UNCHANGED tables
<1>1. ASSUME NEW p \in Procs, Run(p) PROVE UNCHANGED tables
    BY <1>1 DEF Run, Begin, Execute, Uncovered, Conflict, Deadlock, Rollback
<1>2. QED
    BY <1>1 DEF Next, vars

LEMMA SnapshotInvariant == Spec => []RInv
<1>1. Init => RInv
  <2> SUFFICES ASSUME Init PROVE RInv
      OBVIOUS
  <2>1. \A p \in Procs : done[p] = {} /\ pc[p] = "new"
      BY DEF Init
  <2>2. \A t \in Transfers : row[t].state = "nonexistent"
      BY DEF Init, NoRow
  <2>3. QED
      BY <2>1, <2>2 DEF RInv, ProcOK, SnapshotOK, ChecksHold, HoldsCovered, RowOK
<1>2. TypeOK /\ IInv /\ RInv /\ [Next]_vars => RInv'
  <2> SUFFICES ASSUME TypeOK, IInv, RInv, [Next]_vars PROVE RInv'
      OBVIOUS
  <2>1. CASE UNCHANGED vars
      BY <2>1 DEF vars, tables, RInv, ProcOK, SnapshotOK, ChecksHold, HoldsCovered, RowOK
  <2>2. ASSUME NEW p \in Procs, Uncovered(p) PROVE RInv'
      BY <2>2, FinishKeeps DEF Uncovered
  <2>3. ASSUME NEW p \in Procs, Conflict(p) PROVE RInv'
      BY <2>3, SerializationKeeps DEF Conflict
  <2>4. ASSUME NEW p \in Procs, Deadlock(p) PROVE RInv'
      BY <2>4, FinishKeeps DEF Deadlock
  <2>5. ASSUME NEW p \in Procs, Rollback(p) PROVE RInv'
      BY <2>5, FinishKeeps DEF Rollback
  <2>6. QED
      BY <2>1, <2>2, <2>3, <2>4, <2>5, BeginKeeps, ExecuteKeeps, CommitKeeps DEF Next, Run
<1>3. QED
    BY <1>1, <1>2, Invariant, PTL DEF Spec

------------------------------------------------------------------------------
(* The amounts of the abstract ledger.                                       *)
LEMMA MappedChange ==
    ASSUME NEW t \in Transfers, NEW moves, NEW a
    PROVE  Committed!Change(t, moves, a) =
               (IF "hold" \in moves /\ a \in Debtors(t) THEN -AsNumber(Debit[t][a]) ELSE 0)
               + (IF "disburse" \in moves /\ a \in Creditors(t)
                  THEN AsNumber(Credit[t][a]) ELSE 0)
               + (IF "return" \in moves /\ a \in Debtors(t)
                  THEN AsNumber(Debit[t][a]) ELSE 0)
<1>1. Committed!DebitOf(t, a) = IF a \in Debtors(t) THEN AsNumber(Debit[t][a]) ELSE 0
    BY DEF Committed!DebitOf, Committed!Debtors
<1>2. Committed!CreditOf(t, a) = IF a \in Creditors(t) THEN AsNumber(Credit[t][a]) ELSE 0
    BY DEF Committed!CreditOf, Committed!Creditors
<1>3. QED
    BY <1>1, <1>2 DEF Committed!Change

LEMMA MappedValidAmounts ==
    ASSUME NEW t \in Transfers, RoundsSafely(t), ValidAmounts(t)
    PROVE  Committed!ValidAmounts(t)
<1>1. CASE ~AmountsKept(t)
    BY <1>1 DEF RoundsSafely
<1>2. CASE AmountsKept(t)
  <2> DEFINE debits == [a \in Debtors(t) |-> AsNumber(Debit[t][a])]
             credits == [a \in Creditors(t) |-> AsNumber(Credit[t][a])]
  <2>1. /\ IsFiniteSet(Debtors(t)) /\ IsFiniteSet(Creditors(t))
        /\ \A a \in Debtors(t) : Debit[t][a] \in Int /\ debits[a] = Debit[t][a]
        /\ \A a \in Creditors(t) : Credit[t][a] \in Int /\ credits[a] = Credit[t][a]
    <3>1. IsFiniteSet(Debtors(t)) /\ IsFiniteSet(Creditors(t))
        BY MarksType, FinitenessAssumption, FS_Subset
    <3>2. QED
        BY <1>2, <3>1, ContentAssumption DEF Debtors, Creditors, AmountsKept
  <2>2. DOMAIN debits = Debtors(t) /\ DOMAIN credits = Creditors(t)
      OBVIOUS
  <2>3. Committed!ValidAmounts(t) <=>
            /\ \A a \in Debtors(t) : debits[a] > 0
            /\ \A a \in Creditors(t) : credits[a] > 0
            /\ SumFunction(debits) = SumFunction(credits)
      BY DEF Committed!ValidAmounts, Committed!Positive,
             Committed!SumFunction, SumFunction,
             Committed!SumFunctionOnSet, SumFunctionOnSet,
             Committed!FoldFunctionOnSet, FoldFunctionOnSet,
             Committed!MapThenFoldSet, MapThenFoldSet
  <2> HIDE DEF debits, credits
  <2>4. SumFunctionOnSet(Debit[t], Debtors(t)) = SumFunctionOnSet(debits, Debtors(t))
      BY <2>1, SumOutside
  <2>5. SumFunctionOnSet(Credit[t], Creditors(t)) = SumFunctionOnSet(credits, Creditors(t))
      BY <2>1, SumOutside
  <2>6. SumFunction(debits) = SumFunction(Debit[t]) /\ SumFunction(credits) = SumFunction(Credit[t])
      BY <2>2, <2>4, <2>5 DEF SumFunction, Debtors, Creditors
  <2>7. QED
      BY <2>1, <2>3, <2>6 DEF ValidAmounts, Positive, Debtors, Creditors
<1>3. QED
    BY <1>1, <1>2

(* All that a transaction has added when it commits is what the abstract     *)
(* ledger moves.                                                             *)
LEMMA AddedIsChange ==
    ASSUME TypeOK, RInv, NEW p \in Procs, Executed(p), RoundsSafely(Id(p)),
           NEW a \in Accounts
    PROVE  Added(p, a) = Committed!Change(Id(p), MovesOf(p, snap[p]), a)
<1> DEFINE t == Id(p)
           moves == MovesOf(p, snap[p])
<1>1. t \in Transfers /\ done[p] = Statements(p, snap[p]) /\ ValidAmounts(t)
    BY JobType, AtCommit
<1>2. ASSUME NEW move \in Moves
      PROVE  <<move, a>> \in done[p] <=> move \in moves /\ a \in Parties(t, move)
  <2>1. move # "transfer" /\ move # "fulfillment"
      BY DEF Moves
  <2>2. QED
      BY <1>1, <2>1 DEF Statements
<1>3. CASE snap[p].state # "nonexistent"
  <2>1. \A amount : InHand(p, amount) = AsNumber(amount)
      BY <1>3 DEF InHand
  <2>2. /\ AddedBy(p, "hold", a) =
              IF "hold" \in moves /\ a \in Debtors(t) THEN -AsNumber(Debit[t][a]) ELSE 0
        /\ AddedBy(p, "disburse", a) =
              IF "disburse" \in moves /\ a \in Creditors(t) THEN AsNumber(Credit[t][a]) ELSE 0
        /\ AddedBy(p, "return", a) =
              IF "return" \in moves /\ a \in Debtors(t) THEN AsNumber(Debit[t][a]) ELSE 0
      BY <1>2, <2>1 DEF AddedBy, Amount, Parties, Moves
  <2>3. QED
      BY <1>1, <2>2, MappedChange DEF Added
<1>4. CASE snap[p].state = "nonexistent"
  <2>1. Op(p) = "put"
      BY <1>4, AtCommit, JobType
         DEF FulfillAllowed, ValidExecutionStates, ValidCancellationStates, Expirable
  <2>2. /\ "disburse" \in moves => t \notin HasExecution
        /\ "return" \in moves => Job[p].rejectedBy # {}
      BY <2>1 DEF MovesOf, PutMoves, Executes, Rejects
  <2>3. "disburse" \in moves \/ "return" \in moves => AmountsKept(t)
      BY <1>1, <2>1, <2>2 DEF RoundsSafely
  <2>4. /\ "disburse" \in moves =>
              \A c \in Creditors(t) : InHand(p, Credit[t][c]) = AsNumber(Credit[t][c])
        /\ "return" \in moves =>
              \A d \in Debtors(t) : InHand(p, Debit[t][d]) = AsNumber(Debit[t][d])
      BY <1>4, <2>3 DEF InHand, AmountsKept
  <2>5. /\ AddedBy(p, "hold", a) =
              IF "hold" \in moves /\ a \in Debtors(t) THEN -AsNumber(Debit[t][a]) ELSE 0
        /\ AddedBy(p, "disburse", a) =
              IF "disburse" \in moves /\ a \in Creditors(t) THEN AsNumber(Credit[t][a]) ELSE 0
        /\ AddedBy(p, "return", a) =
              IF "return" \in moves /\ a \in Debtors(t) THEN AsNumber(Debit[t][a]) ELSE 0
      BY <1>2, <2>4 DEF AddedBy, Amount, Parties, Moves
  <2>6. QED
      BY <1>1, <2>5, MappedChange DEF Added
<1>5. QED
    BY <1>3, <1>4

(* What a commit does to the variables of Ledger.                            *)
LEMMA CommitMaps ==
    ASSUME TypeOK, RInv, NEW p \in Procs, Commit(p), RoundsSafely(Id(p))
    PROVE  /\ [r \in Transfers |-> row'[r].state] =
                  [[r \in Transfers |-> row[r].state] EXCEPT ![Id(p)] = NewRow(p).state]
           /\ balance' = [a \in Accounts |->
                  balance[a] + Committed!Change(Id(p), MovesOf(p, snap[p]), a)]
           /\ [r \in Transfers |-> row'[r].fulfillment] =
                  [[r \in Transfers |-> row[r].fulfillment]
                      EXCEPT ![Id(p)] = NewRow(p).fulfillment]
           /\ NewRow(p).fulfillment = snap[p].fulfillment =>
                  [r \in Transfers |-> row'[r].fulfillment] =
                      [r \in Transfers |-> row[r].fulfillment]
           /\ row[Id(p)] = snap[p] /\ snap[p] \in Rows
           /\ Committed!ValidAmounts(Id(p))
           /\ snap[p].state = "prepared" => Id(p) \in HasExecution
           /\ "hold" \in MovesOf(p, snap[p]) => Committed!Covered(Id(p))
<1> DEFINE t == Id(p)
           old == snap[p]
           new == NewRow(p)
           moves == MovesOf(p, old)
<1>1. /\ row' = [row EXCEPT ![t] = new]
      /\ balance' = [a \in Accounts |-> balance[a] + Added(p, a)]
      /\ Executed(p)
      /\ t \in Transfers
    BY JobType DEF Commit
<1>2. balance' = [a \in Accounts |-> balance[a] + Committed!Change(t, moves, a)]
    BY <1>1, AddedIsChange
<1>3. /\ row[t] = old /\ old \in Rows /\ ValidAmounts(t)
      /\ old.state = "prepared" => t \in HasExecution
      /\ "hold" \in moves =>
             \A a \in Debtors(t) : balance[a] - AsNumber(Debit[t][a]) >= MinBalance[a]
    BY <1>1, AtCommit
<1> HIDE DEF t, old, new, moves
<1>4. "hold" \in moves => Committed!Covered(t)
    BY <1>1, <1>3 DEF Committed!Covered, Committed!Debtors
<1>5. [r \in Transfers |-> row'[r].state] =
          [[r \in Transfers |-> row[r].state] EXCEPT ![t] = new.state]
    BY <1>1 DEF TypeOK
<1>6. [r \in Transfers |-> row'[r].fulfillment] =
          [[r \in Transfers |-> row[r].fulfillment] EXCEPT ![t] = new.fulfillment]
    BY <1>1 DEF TypeOK
<1>7. ASSUME new.fulfillment = old.fulfillment
      PROVE  [r \in Transfers |-> row'[r].fulfillment] = [r \in Transfers |-> row[r].fulfillment]
    BY <1>1, <1>3, <1>7 DEF TypeOK
<1>8. Committed!ValidAmounts(t)
    BY <1>1, <1>3, MappedValidAmounts DEF t
<1>9. QED
    BY <1>2, <1>3, <1>4, <1>5, <1>6, <1>7, <1>8 DEF t, old, new, moves

(* The commit of a PUT rejects, executes, prepares or proposes a transfer,   *)
(* or adds marks only.                                                       *)
LEMMA PutImplements ==
    ASSUME TypeOK, RInv, NEW p \in Procs, Commit(p), Op(p) = "put", RoundsSafely(Id(p)),
           NEW t \in Transfers, Id(p) = t
    PROVE  Committed!Move(t) \/ UNCHANGED Committed!vars
<1> DEFINE old == snap[p]
           new == NewRow(p)
           moves == MovesOf(p, old)
           state == [r \in Transfers |-> row[r].state]
<1>1. /\ RejectionAllowed(t, old, Job[p])
      /\ moves = PutMoves(t, old, Job[p])
      /\ new.state = IF Rejects(t, old, Job[p]) THEN "rejected"
                     ELSE StateIfExecuted(t, old, Job[p])
      /\ new.fulfillment = old.fulfillment
    BY DEF Commit, Allowed, MovesOf, NewRow, PutRow
<1>2. /\ [r \in Transfers |-> row'[r].state] = [state EXCEPT ![t] = new.state]
      /\ balance' = [a \in Accounts |-> balance[a] + Committed!Change(t, moves, a)]
      /\ [r \in Transfers |-> row'[r].fulfillment] = [r \in Transfers |-> row[r].fulfillment]
      /\ row[t] = old /\ old \in Rows
      /\ Committed!ValidAmounts(t)
      /\ old.state = "prepared" => t \in HasExecution
      /\ "hold" \in moves => Committed!Covered(t)
    BY <1>1, CommitMaps
<1>3. state[t] = old.state
    BY <1>2
<1> HIDE DEF new, moves
<1>4. CASE Rejects(t, old, Job[p])
  <2>1. StateIfExecuted(t, old, Job[p]) \in {"proposed", "prepared"} /\ new.state = "rejected"
      BY <1>1, <1>4 DEF RejectionAllowed, ValidCancellationStates
  <2>2. ~Executes(t, old, Job[p]) /\ StateIfPrepared(t, old, Job[p]) \in {"proposed", "prepared"}
      BY <2>1 DEF StateIfExecuted
  <2>3. old.state \in {"nonexistent", "proposed", "prepared"}
      BY <2>2 DEF StateIfPrepared, StateOnArrival, Prepares
  <2> DEFINE refund == IF old.state = "prepared" THEN {"return"} ELSE {}
  <2>4. \A a \in Accounts : Committed!Change(t, moves, a) = Committed!Change(t, refund, a)
    <3>1. CASE Prepares(t, old, Job[p])
      <4>1. StateIfExecuted(t, old, Job[p]) = "prepared" /\ old.state # "prepared"
          BY <2>2, <3>1 DEF StateIfExecuted, StateIfPrepared, StateOnArrival, Prepares
      <4>2. moves = {"hold", "return"}
          BY <1>1, <1>4, <2>2, <3>1, <4>1 DEF PutMoves
      <4>3. refund = {}
          BY <4>1
      <4>4. \A a \in Debtors(t) : AsNumber(Debit[t][a]) \in Int
          BY HoldsAssumption
      <4> HIDE DEF refund
      <4>5. QED
          BY <4>2, <4>3, <4>4, MappedChange
    <3>2. CASE ~Prepares(t, old, Job[p])
      <4>1. StateIfExecuted(t, old, Job[p]) = "prepared" <=> old.state = "prepared"
          BY <2>2, <3>2 DEF StateIfExecuted, StateIfPrepared, StateOnArrival
      <4>2. moves = refund
          BY <1>1, <1>4, <2>2, <3>2, <4>1 DEF PutMoves
      <4>3. QED
          BY <4>2
    <3>3. QED
        BY <3>1, <3>2
  <2> HIDE DEF refund
  <2>5. balance' = [a \in Accounts |-> balance[a] + Committed!Change(t, refund, a)]
      BY <1>2, <2>4
  <2>6. refund = IF state[t] = "prepared" THEN {"return"} ELSE {}
      BY <1>3 DEF refund
  <2>7. Committed!Reject(t)
      BY <1>2, <1>3, <2>1, <2>3, <2>5, <2>6
         DEF Committed!Reject, Committed!IsFinal, Committed!FinalStates,
             Committed!Become, Committed!Pay
  <2>8. QED
      BY <2>7 DEF Committed!Move
<1>5. CASE ~Rejects(t, old, Job[p]) /\ Executes(t, old, Job[p])
  <2>1. Prepares(t, old, Job[p]) /\ t \notin HasExecution
      BY <1>2, <1>5 DEF Executes, StateIfPrepared, StateOnArrival
  <2>2. old.state \in {"nonexistent", "proposed"}
      BY <2>1 DEF Prepares, StateOnArrival
  <2>3. moves = {"hold", "disburse"} /\ new.state = "executed"
      BY <1>1, <1>5, <2>1 DEF PutMoves, StateIfExecuted
  <2>4. Committed!ExecuteAtOnce(t)
      BY <1>2, <1>3, <2>1, <2>2, <2>3
         DEF Committed!ExecuteAtOnce, Committed!Open, Committed!Become, Committed!Pay
  <2>5. QED
      BY <2>4 DEF Committed!Move
<1>6. CASE ~Rejects(t, old, Job[p]) /\ ~Executes(t, old, Job[p]) /\ Prepares(t, old, Job[p])
  <2>1. t \in HasExecution
      BY <1>6 DEF Executes, StateIfPrepared
  <2>2. old.state \in {"nonexistent", "proposed"}
      BY <1>6 DEF Prepares, StateOnArrival
  <2>3. moves = {"hold"} /\ new.state = "prepared"
      BY <1>1, <1>6 DEF PutMoves, StateIfExecuted, StateIfPrepared
  <2>4. Committed!Prepare(t)
      BY <1>2, <1>3, <2>1, <2>2, <2>3
         DEF Committed!Prepare, Committed!Open, Committed!Become, Committed!Pay
  <2>5. QED
      BY <2>4 DEF Committed!Move
<1>7. CASE ~Rejects(t, old, Job[p]) /\ ~Executes(t, old, Job[p]) /\ ~Prepares(t, old, Job[p])
  <2>1. moves = {} /\ new.state = StateOnArrival(old)
      BY <1>1, <1>7 DEF PutMoves, StateIfExecuted, StateIfPrepared
  <2>2. balance' = balance
    <3>1. \A a \in Accounts : Committed!Change(t, {}, a) = 0
        BY MappedChange
    <3>2. QED
        BY <1>2, <2>1, <3>1 DEF TypeOK
  <2>3. CASE old.state = "nonexistent"
    <3>1. Committed!Propose(t)
        BY <1>2, <1>3, <2>1, <2>2, <2>3
           DEF Committed!Propose, Committed!Become, StateOnArrival
    <3>2. QED
        BY <3>1 DEF Committed!Move
  <2>4. CASE old.state # "nonexistent"
    <3>1. new.state = state[t]
        BY <1>3, <2>1, <2>4 DEF StateOnArrival
    <3>2. [r \in Transfers |-> row'[r].state] = state
        BY <1>2, <3>1
    <3>3. QED
        BY <1>2, <2>2, <3>2 DEF Committed!vars
  <2>5. QED
      BY <2>3, <2>4
<1>8. QED
    BY <1>4, <1>5, <1>6, <1>7

(* The commit of a fulfilment executes or cancels.                           *)
LEMMA FulfillImplements ==
    ASSUME TypeOK, RInv, NEW p \in Procs, Commit(p), Op(p) = "fulfill",
           RoundsSafely(Id(p)), NEW t \in Transfers, Id(p) = t
    PROVE  Committed!Move(t)
<1> DEFINE old == snap[p]
           new == NewRow(p)
           moves == MovesOf(p, old)
           condition == Job[p].condition
           state == [r \in Transfers |-> row[r].state]
<1>1. /\ MatchesCondition(t, condition)
      /\ FulfillAllowed(old, condition)
      /\ moves = FulfillMoves(old, condition)
      /\ new = FulfillRow(old, condition, 0)
  <2>1. Executed(p)
      BY DEF Commit
  <2>2. QED
      BY <2>1, AtCommit DEF MovesOf, NewRow
<1>2. /\ [r \in Transfers |-> row'[r].state] = [state EXCEPT ![t] = new.state]
      /\ balance' = [a \in Accounts |-> balance[a] + Committed!Change(t, moves, a)]
      /\ [r \in Transfers |-> row'[r].fulfillment] =
             [[r \in Transfers |-> row[r].fulfillment] EXCEPT ![t] = new.fulfillment]
      /\ row[t] = old /\ old \in Rows
    BY CommitMaps
<1>3. state[t] = old.state
    BY <1>2
<1> HIDE DEF new, moves
<1>4. CASE condition = "execution"
  <2>1. old.state = "prepared"
      BY <1>1, <1>4 DEF FulfillAllowed, ValidExecutionStates
  <2>2. moves = {"disburse"}
      BY <1>1, <1>4 DEF FulfillMoves
  <2>3. new.state = "executed" /\ new.fulfillment = "execution"
      BY <1>1, <1>2, <1>4 DEF FulfillRow, Rows
  <2>4. Committed!Execute(t)
      BY <1>2, <1>3, <2>1, <2>2, <2>3 DEF Committed!Execute, Committed!Become, Committed!Pay
  <2>5. QED
      BY <2>4 DEF Committed!Move
<1>5. CASE condition = "cancellation"
  <2>1. old.state \in {"proposed", "prepared"} /\ t \in HasCancellation
      BY <1>1, <1>5 DEF FulfillAllowed, ValidCancellationStates, MatchesCondition
  <2>2. moves = IF state[t] = "prepared" THEN {"return"} ELSE {}
      BY <1>1, <1>3, <1>5 DEF FulfillMoves
  <2>3. new.state = "rejected" /\ new.fulfillment = "cancellation"
      BY <1>1, <1>2, <1>5 DEF FulfillRow, Rows
  <2>4. Committed!Cancel(t)
      BY <1>2, <1>3, <2>1, <2>2, <2>3 DEF Committed!Cancel, Committed!Become, Committed!Pay
  <2>5. QED
      BY <2>4 DEF Committed!Move
<1>6. QED
    BY <1>1, <1>4, <1>5 DEF MatchesCondition

(* The commit of an expiry rejects an unfinished transfer.                   *)
LEMMA ExpireImplements ==
    ASSUME TypeOK, RInv, NEW p \in Procs, Commit(p), Op(p) = "expire",
           RoundsSafely(Id(p)), NEW t \in Transfers, Id(p) = t
    PROVE  Committed!Move(t)
<1> DEFINE old == snap[p]
           new == NewRow(p)
           moves == MovesOf(p, old)
           state == [r \in Transfers |-> row[r].state]
<1>1. /\ Expirable(old) /\ old \in Rows
      /\ moves = ExpireMoves(old)
      /\ new = ExpireRow(old)
  <2>1. Executed(p)
      BY DEF Commit
  <2>2. QED
      BY <2>1, AtCommit DEF MovesOf, NewRow
<1>2. new.state = "rejected" /\ new.fulfillment = old.fulfillment
    BY <1>1 DEF ExpireRow, Rows
<1>3. /\ [r \in Transfers |-> row'[r].state] = [state EXCEPT ![t] = new.state]
      /\ balance' = [a \in Accounts |-> balance[a] + Committed!Change(t, moves, a)]
      /\ [r \in Transfers |-> row'[r].fulfillment] = [r \in Transfers |-> row[r].fulfillment]
      /\ row[t] = old
      /\ Committed!ValidAmounts(t)
    BY <1>2, CommitMaps
<1>4. state[t] = old.state /\ state[t] \notin {"executed", "rejected"}
    BY <1>1, <1>3 DEF Expirable, IsFinal, FinalStates
<1>5. moves = IF state[t] = "prepared" THEN {"return"} ELSE {}
    BY <1>1, <1>4 DEF ExpireMoves
<1> HIDE DEF new, moves
<1>6. Committed!Reject(t)
    BY <1>2, <1>3, <1>4, <1>5
       DEF Committed!Reject, Committed!IsFinal, Committed!FinalStates,
           Committed!Become, Committed!Pay
<1>7. QED
    BY <1>6 DEF Committed!Move

(* Statement by statement, with rows locked one after the other, snapshots   *)
(* that grow old, deadlocks and retries, the committed tables still go       *)
(* through the transitions of the abstract ledger only, provided the         *)
(* rounding of the amounts does no harm (holds.js, withSerializableTrans-    *)
(* action).                                                                  *)
THEOREM Refinement ==
    ASSUME \A t \in Transfers : RoundsSafely(t)
    PROVE  Spec => ImplementsLedger
<1>1. Init => Committed!Init
    BY DEF Init, Committed!Init, NoRow
<1>2. TypeOK /\ RInv /\ [Next]_vars => [Committed!Next]_(Committed!vars)
  <2> SUFFICES ASSUME TypeOK, RInv, [Next]_vars
               PROVE  Committed!Next \/ UNCHANGED Committed!vars
      OBVIOUS
  <2>1. CASE \E p \in Procs : Commit(p)
    <3>1. PICK p \in Procs : Commit(p)
        BY <2>1
    <3> PICK t \in Transfers : Id(p) = t
        BY JobType
    <3>2. Committed!Move(t) \/ UNCHANGED Committed!vars
        BY <3>1, JobType, PutImplements, FulfillImplements, ExpireImplements
    <3>3. QED
        BY <3>2 DEF Committed!Next
  <2>2. CASE ~(\E p \in Procs : Commit(p))
    <3>1. row' = row /\ balance' = balance
        BY <2>2, OnlyCommitsChange DEF tables
    <3>2. QED
        BY <3>1 DEF Committed!vars
  <2>3. QED
      BY <2>1, <2>2
<1>3. QED
    BY <1>1, <1>2, Invariant, SnapshotInvariant, PTL
    DEF Spec, ImplementsLedger, Committed!Spec

------------------------------------------------------------------------------
(* What is proved of the abstract ledger holds of the committed tables, too. *)
(* (shown is a variable of Receipts, which LedgerProofs extends.)            *)
Promised == INSTANCE LedgerProofs WITH
    state <- [t \in Transfers |-> row[t].state],
    fulfillment <- [t \in Transfers |-> row[t].fulfillment],
    Debit <- [t \in Transfers |-> [a \in Debtors(t) |-> AsNumber(Debit[t][a])]],
    Credit <- [t \in Transfers |-> [a \in Creditors(t) |-> AsNumber(Credit[t][a])]],
    shown <- [t \in Transfers |-> {}]

(* The two instances of Ledger are the same.                                 *)
LEMMA SameRules ==
    /\ \A t \in Transfers : Promised!ValidAmounts(t) <=> Committed!ValidAmounts(t)
    /\ \A t \in Transfers : Promised!Covered(t) <=> Committed!Covered(t)
    /\ \A t \in Transfers : \A moves, a : Promised!Change(t, moves, a) = Committed!Change(t, moves, a)
    /\ Promised!MoneyConserved <=> Committed!MoneyConserved
<1>1. \A f : Promised!SumFunction(f) = Committed!SumFunction(f)
    BY DEF Promised!SumFunction, Committed!SumFunction,
           Promised!SumFunctionOnSet, Committed!SumFunctionOnSet,
           Promised!FoldFunctionOnSet, Committed!FoldFunctionOnSet,
           Promised!MapThenFoldSet, Committed!MapThenFoldSet
<1>2. \A t \in Transfers : Promised!ValidAmounts(t) <=> Committed!ValidAmounts(t)
    BY <1>1 DEF Promised!ValidAmounts, Committed!ValidAmounts,
                Promised!Positive, Committed!Positive
<1>3. \A t \in Transfers : Promised!Covered(t) <=> Committed!Covered(t)
    BY DEF Promised!Covered, Committed!Covered, Promised!Debtors, Committed!Debtors
<1>4. \A t \in Transfers : \A moves, a :
          Promised!Change(t, moves, a) = Committed!Change(t, moves, a)
    BY DEF Promised!Change, Committed!Change, Promised!DebitOf, Committed!DebitOf,
           Promised!CreditOf, Committed!CreditOf, Promised!Debtors, Committed!Debtors,
           Promised!Creditors, Committed!Creditors
<1>5. Promised!MoneyConserved <=> Committed!MoneyConserved
    BY <1>1 DEF Promised!MoneyConserved, Committed!MoneyConserved,
                Promised!HeldBy, Committed!HeldBy
<1>6. QED
    BY <1>2, <1>3, <1>4, <1>5

LEMMA SameSpec == ImplementsLedger => Promised!Spec
<1>1. Committed!Init => Promised!Init
    BY DEF Committed!Init, Promised!Init
<1>2. [Committed!Next]_(Committed!vars) => [Promised!Next]_(Promised!vars)
  <2> SUFFICES ASSUME [Committed!Next]_(Committed!vars)
               PROVE  Promised!Next \/ UNCHANGED Promised!vars
      OBVIOUS
  <2>1. CASE UNCHANGED Committed!vars
      BY <2>1 DEF Committed!vars, Promised!vars
  <2>2. ASSUME NEW t \in Transfers, Committed!Move(t) PROVE Promised!Move(t)
    <3>1. CASE Committed!Propose(t)
        BY <3>1, SameRules DEF Committed!Propose, Promised!Propose, Committed!Become,
               Promised!Become, Promised!Move
    <3>2. CASE Committed!Prepare(t)
        BY <3>2, SameRules DEF Committed!Prepare, Promised!Prepare, Committed!Become,
               Promised!Become, Committed!Pay, Promised!Pay, Committed!Open,
               Promised!Open, Promised!Move
    <3>3. CASE Committed!ExecuteAtOnce(t)
        BY <3>3, SameRules DEF Committed!ExecuteAtOnce, Promised!ExecuteAtOnce,
               Committed!Become, Promised!Become, Committed!Pay, Promised!Pay,
               Committed!Open, Promised!Open, Promised!Move
    <3>4. CASE Committed!Execute(t)
        BY <3>4, SameRules DEF Committed!Execute, Promised!Execute, Committed!Become,
               Promised!Become, Committed!Pay, Promised!Pay, Promised!Move
    <3>5. CASE Committed!Cancel(t)
        BY <3>5, SameRules DEF Committed!Cancel, Promised!Cancel, Committed!Become,
               Promised!Become, Committed!Pay, Promised!Pay, Promised!Move
    <3>6. CASE Committed!Reject(t)
        BY <3>6, SameRules DEF Committed!Reject, Promised!Reject, Committed!Become,
               Promised!Become, Committed!Pay, Promised!Pay, Committed!IsFinal,
               Promised!IsFinal, Committed!FinalStates, Promised!FinalStates, Promised!Move
    <3>7. QED
        BY <2>2, <3>1, <3>2, <3>3, <3>4, <3>5, <3>6 DEF Committed!Move
  <2>3. QED
      BY <2>1, <2>2 DEF Committed!Next, Promised!Next
<1>3. QED
    BY <1>1, <1>2, PTL DEF ImplementsLedger, Committed!Spec, Promised!Spec

LEMMA SameAssumptions ==
    Promised!ContentAssumption /\ Promised!FinitenessAssumption /\ Promised!BalanceAssumption
<1>1. Promised!ContentAssumption
    BY ContentAssumption, HoldsAssumption
       DEF Promised!ContentAssumption, Debtors, Creditors, Promised!NoTime, NoTime
<1>2. Promised!FinitenessAssumption
    BY FinitenessAssumption DEF Promised!FinitenessAssumption, Promised!IsFiniteSet, IsFiniteSet
<1>3. Promised!BalanceAssumption
    BY BalanceAssumption DEF Promised!BalanceAssumption
<1>4. QED
    BY <1>1, <1>2, <1>3

(* Money is lost or created by rounding only: where it does no harm, what    *)
(* the accounts can spend and what prepared transfers hold keeps adding up   *)
(* (holds.js, "Total credits must equal total debits").                      *)
THEOREM MoneyIsConserved ==
    ASSUME \A t \in Transfers : RoundsSafely(t)
    PROVE  Spec => []MoneyConserved
<1>1. Promised!ContentAssumption /\ Promised!FinitenessAssumption /\ Promised!BalanceAssumption
    BY SameAssumptions
<1>2. Promised!Spec => []Promised!MoneyConserved
    BY <1>1, Promised!MoneyIsConserved, PTL
<1>3. Promised!MoneyConserved => MoneyConserved
    BY SameRules DEF MoneyConserved
<1>4. Spec => ImplementsLedger
    BY Refinement
<1>5. QED
    BY <1>2, <1>3, <1>4, SameSpec, PTL

(* An executed or rejected transfer and its fulfilment never change again,   *)
(* and a conditional one is executed exactly when its fulfilment is on       *)
(* record, whatever the statements of the transactions meet on their way     *)
(* (updateState, "fulfilled only once" of src/src/lib/db.js).                *)
THEOREM OutcomesAreFinal ==
    ASSUME \A t \in Transfers : RoundsSafely(t)
    PROVE  Spec => Promised!FinalForever /\ []Promised!PaidIffFulfilled
<1>1. Promised!ContentAssumption /\ Promised!FinitenessAssumption /\ Promised!BalanceAssumption
    BY SameAssumptions
<1>2. Promised!Spec => Promised!FinalForever
    BY <1>1, Promised!FinalIsForever, PTL
<1>3. Promised!Spec => []Promised!PaidIffFulfilled
    BY <1>1, Promised!PaidOnlyIfFulfilled, PTL
<1>4. Spec => ImplementsLedger
    BY Refinement
<1>5. QED
    BY <1>2, <1>3, <1>4, SameSpec, PTL

------------------------------------------------------------------------------
(* Which amounts survive a JavaScript number: the doubles below `exact`      *)
(* (2^53) are the whole numbers themselves.                                  *)
Numbers(exact) == INSTANCE Amounts WITH Exact <- exact

LEMMA WholeNumbersAreDoubles ==
    ASSUME NEW exact \in Nat, NEW n \in Nat, n < exact
    PROVE  Numbers(exact)!Spacing(n) = 1 /\ Numbers(exact)!ToDouble(n) = n
<1>1. Numbers(exact)!Spacing(n) = 1
    BY DEF Numbers!Spacing
<1>2. n \div 1 = n /\ n % 1 = 0
    OBVIOUS
<1>3. QED
    BY <1>1, <1>2 DEF Numbers!ToDouble

(* ... and no neighbour of a number below Number.MAX_SAFE_INTEGER reads as   *)
(* the same double, so that it is printed as it was.                         *)
LEMMA SafeIntegersSurvive ==
    ASSUME NEW exact \in Nat, NEW n \in Nat \ {0}, n + 1 < exact
    PROVE  Numbers(exact)!ThroughNumber(n) = n
<1> DEFINE same == {m \in (n - 1)..(n + 1) : m > 0 /\ Numbers(exact)!ToDouble(m) = n}
<1>1. \A m \in (n - 1)..(n + 1) : m \in Nat /\ m < exact
    OBVIOUS
<1>2. \A m \in (n - 1)..(n + 1) : Numbers(exact)!ToDouble(m) = m
    BY <1>1, WholeNumbersAreDoubles
<1>3. n \in (n - 1)..(n + 1) /\ n > 0
    OBVIOUS
<1>4. same = {n}
    BY <1>2, <1>3
<1>5. Numbers(exact)!Distance(n, n) = 0
    BY DEF Numbers!Distance
<1>6. Numbers(exact)!ToDouble(n) = n /\ Numbers(exact)!Spacing(n) = 1
    BY WholeNumbersAreDoubles
<1> HIDE DEF same
<1>7. Numbers(exact)!ShortestDecimal(n) =
          CHOOSE m \in same : \A k \in same :
              \/ Numbers(exact)!Zeros(m) > Numbers(exact)!Zeros(k)
              \/ /\ Numbers(exact)!Zeros(m) = Numbers(exact)!Zeros(k)
                 /\ Numbers(exact)!Distance(m, n) <= Numbers(exact)!Distance(k, n)
    BY <1>6 DEF Numbers!ShortestDecimal, same
<1>8. Numbers(exact)!ShortestDecimal(n) = n
    BY <1>4, <1>5, <1>7
<1>9. QED
    BY <1>6, <1>8 DEF Numbers!ThroughNumber

(* A ledger whose accepted transfers have amounts below MAX_SAFE_INTEGER, in *)
(* its smallest unit, is a ledger without rounding: Number(data.AMOUNT) and  *)
(* -debit.amount give back what was stored (models/db/adjustments.js,        *)
(* holds.js).                                                                *)
THEOREM SafeIntegersAreEnough ==
    ASSUME NEW exact \in Nat,
           \A n \in Nat \ {0} : AsNumber(n) = Numbers(exact)!ThroughNumber(n),
           \A t \in Transfers : ValidAmounts(t) =>
               /\ \A a \in Debtors(t) : Debit[t][a] + 1 < exact
               /\ \A a \in Creditors(t) : Credit[t][a] + 1 < exact
    PROVE  Spec => ImplementsLedger /\ []MoneyConserved
<1>1. ASSUME NEW t \in Transfers, ValidAmounts(t) PROVE AmountsKept(t)
  <2>1. /\ \A a \in Debtors(t) : Debit[t][a] \in Nat \ {0} /\ Debit[t][a] + 1 < exact
        /\ \A a \in Creditors(t) : Credit[t][a] \in Nat \ {0} /\ Credit[t][a] + 1 < exact
      BY <1>1, ContentAssumption DEF ValidAmounts, Positive, Debtors, Creditors
  <2>2. \A n \in Nat \ {0} : n + 1 < exact => AsNumber(n) = n
      BY SafeIntegersSurvive
  <2>3. QED
      BY <2>1, <2>2 DEF AmountsKept
<1>2. \A t \in Transfers : RoundsSafely(t)
    BY <1>1 DEF RoundsSafely
<1>3. QED
    BY <1>2, Refinement, MoneyIsConserved, PTL

------------------------------------------------------------------------------
(* The error InsufficientFundsError.                                         *)

(* An amount in hand is not negative, so only a hold can fail the CHECK of   *)
(* L_ACCOUNTS.                                                               *)
LEMMA OnlyHoldsFail ==
    ASSUME TypeOK, IInv, RInv,
           \A n \in Nat \ {0} : AsNumber(n) \in Nat,
           NEW p \in Procs, NEW s \in todo[p], Adjusts(s), ~Covers(p, s[1], s[2])
    PROVE  /\ s[1] = "hold" /\ s[2] \in Debtors(Id(p))
           /\ balance[s[2]] - AsNumber(Debit[Id(p)][s[2]]) < MinBalance[s[2]]
<1> DEFINE t == Id(p)
           a == s[2]
<1>1. pc[p] = "run" /\ s \in Statements(p, snap[p])
    BY DEF TypeOK
<1>2. /\ s = <<s[1], a>> /\ s[1] \in Moves
      /\ a \in Accounts /\ a \in Parties(t, s[1])
    BY <1>1, StatementsType DEF Adjusts
<1>3. t \in Transfers /\ ValidAmounts(t)
    BY <1>1, JobType DEF RInv, ProcOK, ChecksHold
<1> HIDE DEF t, a
<1>4. balance[a] \in Int /\ MinBalance[a] \in Int /\ Added(p, a) \in Int
    BY <1>2, AddedType, BalanceAssumption DEF TypeOK
<1>5. CASE s[1] = "hold"
  <2>1. a \in Debtors(t) /\ Added(p, a) = 0
      BY <1>2, <1>5, NothingBeforeHold DEF Parties
  <2>2. AsNumber(Debit[t][a]) \in Int
      BY <1>3, <2>1, HoldsAssumption
  <2>3. ~(balance[a] + Added(p, a) + -AsNumber(Debit[t][a]) >= MinBalance[a])
      BY <1>5 DEF Covers, Amount, t, a
  <2>4. balance[a] - AsNumber(Debit[t][a]) < MinBalance[a]
      BY <1>4, <2>1, <2>2, <2>3
  <2>5. QED
      BY <1>5, <2>1, <2>4 DEF t, a
<1>6. CASE s[1] # "hold"
  <2>1. Amount(p, s[1], a) \in Nat
    <3>1. CASE s[1] = "disburse"
      <4>1. a \in Creditors(t) /\ Credit[t][a] \in Nat \ {0}
          BY <1>2, <1>3, <3>1, ContentAssumption DEF Parties, ValidAmounts, Positive, Creditors
      <4>2. Amount(p, s[1], a) = InHand(p, Credit[t][a])
          BY <3>1 DEF Amount, t
      <4>3. QED
          BY <4>1, <4>2 DEF InHand
    <3>2. CASE s[1] = "return"
      <4>1. a \in Debtors(t) /\ Debit[t][a] \in Nat \ {0}
          BY <1>2, <1>3, <3>2, ContentAssumption DEF Parties, ValidAmounts, Positive, Debtors
      <4>2. Amount(p, s[1], a) = InHand(p, Debit[t][a])
          BY <3>2 DEF Amount, t
      <4>3. QED
          BY <4>1, <4>2 DEF InHand
    <3>3. QED
        BY <1>2, <1>6, <3>1, <3>2 DEF Moves
  <2>2. balance[a] + Added(p, a) >= MinBalance[a]
      BY <1>2 DEF IInv, EachCovers
  <2>3. balance[a] + Added(p, a) + Amount(p, s[1], a) >= MinBalance[a]
      BY <1>4, <2>1, <2>2
  <2>4. QED
      BY <2>3 DEF Covers, a
<1>7. QED
    BY <1>5, <1>6

(* "The source account does not have sufficient funds" is true whenever no   *)
(* deadlock is behind it: adjustBalance's belief that an error other than    *)
(* 40001 is a failed CHECK (src/src/lib/holds.js) is wrong about 40P01 only, *)
(* which is what the run `deadlock` shows.                                   *)
THEOREM ShortOnlyInDeadlocks ==
    ASSUME \A n \in Nat \ {0} : AsNumber(n) \in Nat
    PROVE  Spec /\ [][\A p \in Procs : ~Deadlock(p)]_vars => FundsWereShort
<1> DEFINE Told(p) == outcome[p] = "none" /\ outcome'[p] = "short"
           IsShort(p) == \E a \in Debtors(Id(p)) :
                             balance[a] - AsNumber(Debit[Id(p)][a]) < MinBalance[a]
<1>1. ASSUME TypeOK, IInv, RInv, [Next]_vars, [\A p \in Procs : ~Deadlock(p)]_vars
      PROVE  [\A p \in Procs : Told(p) => IsShort(p)]_vars
  <2> SUFFICES ASSUME NEW q \in Procs, Run(q), ~Deadlock(q), NEW p \in Procs, Told(p)
               PROVE  IsShort(p)
      BY <1>1 DEF Next
  <2>1. ASSUME NEW result, Finish(q, result) PROVE p = q /\ result = "short"
      BY <2>1, <1>1 DEF Finish, TypeOK
  <2>2. CASE Uncovered(q)
    <3>1. PICK s \in todo[q] : Adjusts(s) /\ ~Covers(q, s[1], s[2]) /\ Finish(q, ErrorOf(q, s))
        BY <2>2 DEF Uncovered
    <3>2. QED
        BY <1>1, <2>1, <3>1, OnlyHoldsFail
  <2>3. ~Begin(q)
      BY <2>1 DEF Begin
  <2>4. ~Execute(q)
      BY DEF Execute
  <2>5. ~Conflict(q)
      BY <2>1 DEF Conflict, Serialization
  <2>6. ~Rollback(q) /\ ~Commit(q)
      BY <2>1 DEF Rollback, Commit
  <2>7. QED
      BY <2>2, <2>3, <2>4, <2>5, <2>6 DEF Run
<1>2. QED
    BY <1>1, Invariant, SnapshotInvariant, PTL DEF Spec, FundsWereShort
=============================================================================
