-------------------------- MODULE LedgerServerProofs --------------------------
(***************************************************************************)
(* What LedgerServer guarantees for any number of clients, transfers,      *)
(* accounts, retries, failures and restarts: its types, that a transaction *)
(* that has written still knows its transfer as it is, and that            *)
(* overlapping transactions implement the abstract ledger.                 *)
(*                                                                         *)
(* The argument: a transaction that has written holds the locks of every   *)
(* row it depends on, and read its transfer as it still is.  So whatever   *)
(* it validated when it began still holds when it commits, and the commit  *)
(* is one step of Ledger.                                                  *)
(***************************************************************************)
EXTENDS LedgerServer, TransferRulesProofs

(* TypeOK in three parts: what a call chain keeps, what the tables hold, and *)
(* the rest.                                                                 *)
ProcsOK ==
    /\ pc \in [Procs -> PCs]
    /\ job \in [Procs -> Jobs \cup {NoJob}]
    /\ snap \in [Procs -> Rows]
    /\ readAt \in [Procs -> Int]
    /\ missed \in [Procs -> SUBSET (Transfers \cup Accounts)]
    /\ plan \in [Procs -> Plans]
    /\ tries \in [Procs -> Nat]
    /\ due \in [Procs -> SUBSET Transfers]
    /\ \A p \in Procs :
          pc[p] \in {"begin", "write", "commit", "notify", "watch"} => job[p] \in Jobs

TablesOK ==
    /\ row \in [Transfers -> Rows]
    /\ balance \in [Accounts -> Int]
    /\ entries \in [Transfers -> [Accounts -> Int]]

RestOK ==
    /\ now \in Nat
    /\ queue \subseteq Transfers
    /\ timer \in Int
    /\ sent \in [Transfers -> SUBSET States]
    /\ requests \in Nat
    /\ crashes \in Nat

LEMMA TypeParts == TypeOK <=> ProcsOK /\ TablesOK /\ RestOK
    BY DEF TypeOK, ProcsOK, TablesOK, RestOK

LEMMA TypePartsNext == TypeOK' <=> ProcsOK' /\ TablesOK' /\ RestOK'
    BY DEF TypeOK, ProcsOK, TablesOK, RestOK

LEMMA NoPlanType == NoPlan \in Plans
    BY NoRowType DEF NoPlan, Plans

LEMMA NoTimeType == NoTime \in Int
    BY DEF NoTime

------------------------------------------------------------------------------
(* The ends of a call chain and the retry keep the types of the processes.   *)
LEMMA FinishType ==
    ASSUME TypeOK, NEW p \in Procs, Finish(p)
    PROVE  ProcsOK'
    BY NoRowType, NoPlanType, NoTimeType DEF TypeOK, ProcsOK, Finish, PCs

LEMMA BackToDrainType ==
    ASSUME TypeOK, NEW p \in Procs, BackToDrain(p), UNCHANGED missed
    PROVE  ProcsOK'
    BY NoRowType, NoPlanType, NoTimeType DEF TypeOK, ProcsOK, BackToDrain, PCs

(* A job keeps its type when the failed attempt left it another reason.      *)
LEMMA JobWithReason ==
    ASSUME NEW j \in Jobs, NEW reason \in Reasons
    PROVE  [j EXCEPT !.reason = reason] \in Jobs
    BY DEF Jobs

LEMMA RetryType ==
    ASSUME TypeOK, NEW p \in Procs, NEW reason \in Reasons, job[p] \in Jobs,
           Retry(p, reason)
    PROVE  ProcsOK'
<1>1. CASE Finish(p)
    BY <1>1, FinishType
<1>2. CASE /\ tries' = [tries EXCEPT ![p] = @ + 1]
           /\ pc' = [pc EXCEPT ![p] = "begin"]
           /\ job' = [job EXCEPT ![p] = [@ EXCEPT !.reason = reason]]
           /\ snap' = [snap EXCEPT ![p] = NoRow]
           /\ readAt' = [readAt EXCEPT ![p] = NoTime]
           /\ missed' = [missed EXCEPT ![p] = {}]
           /\ plan' = [plan EXCEPT ![p] = NoPlan]
           /\ UNCHANGED due
  <2>1. job' \in [Procs -> Jobs \cup {NoJob}] /\ job'[p] \in Jobs
    <3>1. job' = [job EXCEPT ![p] = [job[p] EXCEPT !.reason = reason]]
        BY <1>2 DEF TypeOK
    <3>2. QED
        BY <3>1, JobWithReason DEF TypeOK
  <2>2. \A q \in Procs \ {p} : job'[q] = job[q]
      BY <1>2 DEF TypeOK
  <2>3. /\ tries' = [tries EXCEPT ![p] = @ + 1]
        /\ pc' = [pc EXCEPT ![p] = "begin"]
        /\ snap' = [snap EXCEPT ![p] = NoRow]
        /\ readAt' = [readAt EXCEPT ![p] = NoTime]
        /\ missed' = [missed EXCEPT ![p] = {}]
        /\ plan' = [plan EXCEPT ![p] = NoPlan]
        /\ UNCHANGED due
      BY <1>2
  <2>4. QED
      BY <2>1, <2>2, <2>3, NoRowType, NoPlanType, NoTimeType DEF TypeOK, ProcsOK, PCs
<1>3. QED
    BY <1>1, <1>2 DEF Retry

LEMMA AnnounceType ==
    ASSUME TypeOK, NEW t \in Transfers, NEW s \in States, Announce(t, s)
    PROVE  sent' \in [Transfers -> SUBSET States]
    BY DEF TypeOK, Announce

------------------------------------------------------------------------------
(* One lemma per kind of step: the types are kept.                           *)
LEMMA AcceptType ==
    ASSUME TypeOK, NEW c \in Clients, NEW request \in Jobs, Accept(c, request)
    PROVE  TypeOK'
<1>1. c \in Procs
    BY DEF Procs
<1>2. ProcsOK'
    BY <1>1 DEF TypeOK, ProcsOK, Accept, Goto, PCs
<1>3. TablesOK' /\ RestOK'
    BY DEF TypeOK, TablesOK, RestOK, Accept, tables, expiry
<1>4. QED
    BY <1>2, <1>3, TypePartsNext

LEMMA ReceiveType ==
    ASSUME TypeOK, NEW c \in Clients, Receive(c)
    PROVE  TypeOK'
<1>1. CASE ReceivePut(c)
  <2>1. PICK s \in Submissions : \E reason \in {s.reason, row[s.id].reason} :
            Accept(c, [op |-> "put", id |-> s.id, by |-> s.by, auth |-> s.auth,
                       rejectedBy |-> s.rejectedBy, reason |-> reason,
                       condition |-> "none"])
      BY <1>1 DEF ReceivePut
  <2>2. s.id \in Transfers /\ s.by \in Users
      BY ServerAssumption
  <2>3. s.auth \subseteq AllMarks /\ s.rejectedBy \subseteq Accounts
      BY <2>2, ServerAssumption, MarksType
  <2>4. PICK reason \in {s.reason, row[s.id].reason} :
            Accept(c, [op |-> "put", id |-> s.id, by |-> s.by, auth |-> s.auth,
                       rejectedBy |-> s.rejectedBy, reason |-> reason,
                       condition |-> "none"])
      BY <2>1
  <2>5. reason \in Reasons
      BY <2>2, ServerAssumption DEF TypeOK, Rows
  <2>6. QED
      BY <2>2, <2>3, <2>4, <2>5, AcceptType DEF Jobs, Conditions
<1>2. CASE ReceiveRejection(c)
  <2>1. PICK t \in HasExecution, by \in Users : \E credit \in Creditors(t) :
            Accept(c, [op |-> "put", id |-> t, by |-> by, auth |-> row[t].auth,
                       rejectedBy |-> row[t].rejectedBy \cup {credit},
                       reason |-> row[t].reason, condition |-> "none"])
      BY <1>2 DEF ReceiveRejection
  <2>2. t \in Transfers
      BY ContentAssumption
  <2>3. PICK credit \in Creditors(t) :
            Accept(c, [op |-> "put", id |-> t, by |-> by, auth |-> row[t].auth,
                       rejectedBy |-> row[t].rejectedBy \cup {credit},
                       reason |-> row[t].reason, condition |-> "none"])
      BY <2>1
  <2>4. /\ row[t].auth \subseteq AllMarks
        /\ row[t].rejectedBy \cup {credit} \subseteq Accounts
        /\ row[t].reason \in Reasons
      BY <2>2, MarksType DEF TypeOK, Rows
  <2>5. QED
      BY <2>2, <2>3, <2>4, AcceptType DEF Jobs, Conditions
<1>3. CASE ReceiveFulfillment(c)
  <2>1. PICK t \in Transfers, condition \in Conditions :
            Accept(c, [op |-> "fulfill", id |-> t, by |-> Admin, auth |-> {},
                       rejectedBy |-> {}, reason |-> "none", condition |-> condition])
      BY <1>3 DEF ReceiveFulfillment
  <2>2. QED
      BY <2>1, AcceptType DEF Jobs, Users, Reasons
<1>4. QED
    BY <1>1, <1>2, <1>3 DEF Receive

LEMMA BeginType ==
    ASSUME TypeOK, NEW p \in Procs, Begin(p)
    PROVE  TypeOK'
<1>1. ASSUME Read(p) PROVE TypeOK'
  <2>1. job[p].id \in Transfers
      BY <1>1 DEF TypeOK, Read, Jobs
  <2>2. ProcsOK'
      BY <1>1, <2>1 DEF TypeOK, ProcsOK, Read, Goto, PCs
  <2>3. TablesOK' /\ RestOK'
      BY <1>1 DEF TypeOK, TablesOK, RestOK, Read, tables, expiry
  <2>4. QED
      BY <2>2, <2>3, TypePartsNext
<1>2. ASSUME Refuse(p) PROVE TypeOK'
  <2>1. ProcsOK'
      BY <1>2, FinishType DEF Refuse
  <2>2. TablesOK' /\ RestOK'
      BY <1>2 DEF TypeOK, TablesOK, RestOK, Refuse, tables, expiry
  <2>3. QED
      BY <2>1, <2>2, TypePartsNext
<1>3. ASSUME ReplayFulfillment(p) PROVE TypeOK'
  <2>1. job[p].id \in Transfers
      BY <1>3 DEF TypeOK, ReplayFulfillment, Jobs
  <2>2. [row |-> row[job[p].id], moves |-> {}] \in Plans
      BY <2>1 DEF TypeOK, Plans
  <2>3. ProcsOK'
      BY <1>3, <2>2 DEF TypeOK, ProcsOK, ReplayFulfillment, Goto, PCs
  <2>4. TablesOK' /\ RestOK'
      BY <1>3 DEF TypeOK, TablesOK, RestOK, ReplayFulfillment, tables, expiry
  <2>5. QED
      BY <2>3, <2>4, TypePartsNext
<1>4. ASSUME BackToDrain(p), UNCHANGED <<now, tables, expiry, missed, sent, requests, crashes>>
      PROVE  TypeOK'
  <2>1. ProcsOK'
      BY <1>4, BackToDrainType
  <2>2. TablesOK' /\ RestOK'
      BY <1>4 DEF TypeOK, TablesOK, RestOK, tables, expiry
  <2>3. QED
      BY <2>1, <2>2, TypePartsNext
<1>5. QED
    BY <1>1, <1>2, <1>3, <1>4 DEF Begin, BeginPut, BeginFulfill, BeginExpire

LEMMA WrittenType ==
    ASSUME TypeOK, NEW p \in Procs, pc[p] = "write", NEW newRow \in Rows,
           NEW moves \in SUBSET Moves, Written(p, newRow, moves)
    PROVE  /\ ProcsOK' /\ TablesOK'
           /\ UNCHANGED <<now, timer, requests, crashes>>
<1>1. [row |-> newRow, moves |-> moves] \in Plans
    BY DEF Plans
<1>2. ProcsOK'
    BY <1>1 DEF TypeOK, ProcsOK, Written, Goto, PCs
<1>3. QED
    BY <1>2 DEF TypeOK, TablesOK, Written, tables

(* What the process at a write or commit works with.                         *)
LEMMA AtWork ==
    ASSUME TypeOK, NEW p \in Procs, pc[p] \in {"begin", "write", "commit", "notify", "watch"}
    PROVE  /\ job[p] \in Jobs /\ job[p].id \in Transfers
           /\ job[p].reason \in Reasons /\ job[p].condition \in Conditions
           /\ job[p].op \in Ops
           /\ snap[p] \in Rows /\ readAt[p] \in Int
           /\ plan[p] \in Plans /\ plan[p].row \in Rows
           /\ plan[p].row.state \in States /\ plan[p].row.reason \in Reasons
           /\ plan[p].moves \subseteq Moves
<1>1. job[p] \in Jobs /\ snap[p] \in Rows /\ readAt[p] \in Int /\ plan[p] \in Plans
    BY DEF TypeOK
<1>2. QED
    BY <1>1 DEF Jobs, Plans, Rows, Ops

LEMMA WriteType ==
    ASSUME TypeOK, NEW p \in Procs, Write(p)
    PROVE  TypeOK'
<1> DEFINE t == job[p].id
<1>1. pc[p] = "write"
    BY DEF Write, WritePut, WritePutUncovered, WritePutConflict, WriteFulfill,
           WriteFulfillConflict, WriteExpire, WriteExpireConflict
<1>2. /\ job[p] \in Jobs /\ t \in Transfers /\ snap[p] \in Rows
      /\ readAt[p] \in Int /\ job[p].reason \in Reasons
      /\ job[p].condition \in Conditions
    BY <1>1, AtWork
<1>3. ASSUME Finish(p), UNCHANGED <<now, tables, timer, sent, requests, crashes>>,
             queue' \subseteq queue
      PROVE  TypeOK'
  <2>1. ProcsOK'
      BY <1>3, FinishType
  <2>2. TablesOK' /\ RestOK'
      BY <1>3 DEF TypeOK, TablesOK, RestOK, tables
  <2>3. QED
      BY <2>1, <2>2, TypePartsNext
<1>4. ASSUME Retry(p, job[p].reason), queue' \subseteq queue,
             UNCHANGED <<now, tables, timer, sent, requests, crashes>>
      PROVE  TypeOK'
  <2>1. ProcsOK'
      BY <1>2, <1>4, RetryType
  <2>2. TablesOK' /\ RestOK'
      BY <1>4 DEF TypeOK, TablesOK, RestOK, tables
  <2>3. QED
      BY <2>1, <2>2, TypePartsNext
<1>5. ASSUME NEW newRow \in Rows, NEW moves \in SUBSET Moves,
             Written(p, newRow, moves), queue' \subseteq queue,
             sent' \in [Transfers -> SUBSET States]
      PROVE  TypeOK'
  <2>1. ProcsOK' /\ TablesOK' /\ UNCHANGED <<now, timer, requests, crashes>>
      BY <1>1, <1>5, WrittenType
  <2>2. RestOK'
      BY <2>1, <1>5 DEF TypeOK, RestOK
  <2>3. QED
      BY <2>1, <2>2, TypePartsNext
<1>6. CASE WritePut(p)
  <2> DEFINE moves == PutMoves(t, snap[p], job[p])
             newRow == PutRow(t, snap[p], job[p], now)
  <2>1. newRow \in Rows /\ moves \in SUBSET Moves
    <3>1. now \in Int
        BY DEF TypeOK
    <3>2. newRow \in Rows
        BY <1>2, <3>1, PutRowType
    <3>3. QED
        BY <3>2, MovesType
  <2>2. queue' \subseteq queue
      BY <1>6 DEF WritePut
  <2>3. CASE Written(p, newRow, moves) /\ UNCHANGED sent
    <3>1. sent' \in [Transfers -> SUBSET States]
        BY <2>3 DEF TypeOK
    <3>2. QED
        BY <1>5, <2>1, <2>2, <2>3, <3>1
  <2>4. CASE Finish(p) /\ UNCHANGED <<now, tables, timer, sent, requests, crashes>>
      BY <1>3, <2>2, <2>4
  <2>5. QED
      BY <1>6, <2>3, <2>4 DEF WritePut
<1>7. CASE WritePutUncovered(p)
    BY <1>3, <1>7 DEF WritePutUncovered, expiry
<1>8. CASE WritePutConflict(p)
    BY <1>4, <1>8 DEF WritePutConflict, expiry
<1>9. CASE WriteFulfill(p)
  <2> DEFINE condition == job[p].condition
             moves == FulfillMoves(snap[p], condition)
             newRow == FulfillRow(snap[p], condition, readAt[p])
  <2>1. newRow \in Rows /\ moves \in SUBSET Moves
      BY <1>2, FulfillRowType, MovesType
  <2>2. Written(p, newRow, moves) /\ queue' \subseteq queue
      BY <1>9 DEF WriteFulfill
  <2>3. sent' \in [Transfers -> SUBSET States]
      BY <1>9 DEF TypeOK, WriteFulfill
  <2>4. QED
      BY <1>5, <2>1, <2>2, <2>3
<1>10. CASE WriteFulfillConflict(p)
  <2>1. queue' \subseteq queue
      BY <1>10 DEF WriteFulfillConflict
  <2>2. QED
      BY <1>4, <1>10, <2>1 DEF WriteFulfillConflict
<1>11. CASE WriteExpire(p)
  <2> DEFINE moves == ExpireMoves(snap[p])
             newRow == ExpireRow(snap[p])
  <2>1. newRow \in Rows /\ moves \in SUBSET Moves
      BY <1>2, ExpireRowType, MovesType
  <2>2. Written(p, newRow, moves) /\ queue' \subseteq queue
      BY <1>11 DEF WriteExpire
  <2>3. sent' \in [Transfers -> SUBSET States]
      BY <1>2, <1>11, AnnounceType DEF WriteExpire, States
  <2>4. QED
      BY <1>5, <2>1, <2>2, <2>3
<1>12. CASE WriteExpireConflict(p)
    BY <1>3, <1>4, <1>12 DEF WriteExpireConflict, expiry
<1>13. QED
    BY <1>6, <1>7, <1>8, <1>9, <1>10, <1>11, <1>12 DEF Write

LEMMA CommitType ==
    ASSUME TypeOK, NEW p \in Procs, Commit(p)
    PROVE  TypeOK'
<1> DEFINE t == job[p].id
           moves == plan[p].moves
<1>1. /\ pc[p] = "commit" /\ t \in Transfers /\ plan[p].row \in Rows
      /\ job[p] \in Jobs
    BY AtWork DEF Commit
<1>2. row' \in [Transfers -> Rows]
    BY <1>1 DEF TypeOK, Commit
<1>3. balance' \in [Accounts -> Int]
    BY <1>1, ChangeType DEF TypeOK, Commit
<1>4. entries' \in [Transfers -> [Accounts -> Int]]
  <2>1. \A a \in Accounts : EntriesOf(t, moves, a) \in Int
      BY DEF EntriesOf
  <2>2. [a \in Accounts |-> entries[t][a] + EntriesOf(t, moves, a)] \in [Accounts -> Int]
      BY <1>1, <2>1 DEF TypeOK
  <2>3. QED
      BY <1>1, <2>2 DEF TypeOK, Commit
<1>5. missed' \in [Procs -> SUBSET (Transfers \cup Accounts)]
  <2>1. WriteSet(t, moves) \subseteq Transfers \cup Accounts
      BY <1>1, MarksType DEF WriteSet, AccountsOf
  <2>2. QED
      BY <2>1 DEF TypeOK, Commit
<1>6. ProcsOK'
  <2>1. CASE BackToDrain(p)
      BY <1>5, <2>1, NoRowType, NoPlanType, NoTimeType
         DEF TypeOK, ProcsOK, BackToDrain, PCs
  <2>2. CASE Goto(p, "notify") /\ UNCHANGED <<job, snap, readAt, plan, tries, due>>
      BY <1>1, <1>5, <2>2 DEF TypeOK, ProcsOK, Goto, PCs
  <2>3. QED
      BY <2>1, <2>2 DEF Commit
<1>7. RestOK'
    BY DEF TypeOK, RestOK, Commit, expiry
<1>8. QED
    BY <1>2, <1>3, <1>4, <1>6, <1>7, TypePartsNext DEF TablesOK

LEMMA FailureType ==
    ASSUME TypeOK, NEW p \in Procs, CommitConflict(p) \/ DatabaseError(p)
    PROVE  TypeOK'
<1>1. TablesOK' /\ RestOK'
    BY DEF TypeOK, TablesOK, RestOK, CommitConflict, DatabaseError, tables, expiry
<1>2. CASE CommitConflict(p)
  <2>1. PICK reason \in Reasons : Retry(p, reason)
      BY <1>2, AtWork DEF CommitConflict
  <2>2. job[p] \in Jobs
      BY <1>2, AtWork DEF CommitConflict
  <2>3. QED
      BY <1>1, <2>1, <2>2, RetryType, TypePartsNext
<1>3. CASE DatabaseError(p)
    BY <1>1, <1>3, FinishType, TypePartsNext DEF DatabaseError
<1>4. QED
    BY <1>2, <1>3

LEMMA AfterwardsType ==
    ASSUME TypeOK, NEW p \in Procs, Notify(p) \/ Watch(p)
    PROVE  TypeOK'
<1>1. CASE Notify(p)
  <2>1. job[p].id \in Transfers /\ plan[p].row.state \in States
      BY <1>1, AtWork DEF Notify
  <2>2. TablesOK' /\ RestOK'
      BY <1>1, <2>1, AnnounceType DEF TypeOK, TablesOK, RestOK, Notify, tables, expiry
  <2>3. CASE Finish(p)
      BY <2>2, <2>3, FinishType, TypePartsNext
  <2>4. CASE Goto(p, "watch") /\ UNCHANGED <<job, snap, readAt, missed, plan, tries, due>>
    <3>1. ProcsOK'
        BY <1>1, <2>4 DEF TypeOK, ProcsOK, Notify, Goto, PCs
    <3>2. QED
        BY <2>2, <3>1, TypePartsNext
  <2>5. QED
      BY <1>1, <2>3, <2>4 DEF Notify
<1>2. CASE Watch(p)
  <2>1. job[p].id \in Transfers
      BY <1>2, AtWork DEF Watch
  <2>2. TablesOK' /\ RestOK'
      BY <1>2, <2>1 DEF TypeOK, TablesOK, RestOK, Watch, tables
  <2>3. ProcsOK'
    <3>1. CASE Finish(p)
        BY <3>1, FinishType
    <3>2. CASE /\ pc' = [pc EXCEPT ![p] = "pop"]
               /\ job' = [job EXCEPT ![p] = NoJob]
               /\ snap' = [snap EXCEPT ![p] = NoRow]
               /\ readAt' = [readAt EXCEPT ![p] = NoTime]
               /\ missed' = [missed EXCEPT ![p] = {}]
               /\ plan' = [plan EXCEPT ![p] = NoPlan]
               /\ tries' = [tries EXCEPT ![p] = 0]
               /\ UNCHANGED due
        BY <3>2, NoRowType, NoPlanType, NoTimeType DEF TypeOK, ProcsOK, PCs
    <3>3. QED
        BY <1>2, <3>1, <3>2 DEF Watch, Goto
  <2>4. QED
      BY <2>2, <2>3, TypePartsNext
<1>3. QED
    BY <1>1, <1>2

LEMMA DrainType ==
    ASSUME TypeOK, NEW p \in Procs, TimerFires(p) \/ Pop(p) \/ Drain(p) \/ Rearm(p)
    PROVE  TypeOK'
<1>1. CASE TimerFires(p)
  <2>1. ProcsOK'
      BY <1>1 DEF TypeOK, ProcsOK, TimerFires, Goto, PCs
  <2>2. TablesOK' /\ RestOK'
      BY <1>1, NoTimeType DEF TypeOK, TablesOK, RestOK, TimerFires, tables
  <2>3. QED
      BY <2>1, <2>2, TypePartsNext
<1>2. CASE Pop(p)
  <2>1. PICK popped \in SUBSET {t \in queue : IsDue(t)} :
            /\ due' = [due EXCEPT ![p] = popped]
            /\ queue' = queue \ popped
      BY <1>2 DEF Pop
  <2>2. popped \subseteq Transfers
      BY <2>1 DEF TypeOK
  <2>3. ProcsOK'
      BY <1>2, <2>1, <2>2 DEF TypeOK, ProcsOK, Pop, Goto, PCs
  <2>4. TablesOK' /\ RestOK'
      BY <1>2, <2>1 DEF TypeOK, TablesOK, RestOK, Pop, tables
  <2>5. QED
      BY <2>3, <2>4, TypePartsNext
<1>3. CASE Drain(p)
  <2>1. PICK t \in due[p] :
            /\ due' = [due EXCEPT ![p] = @ \ {t}]
            /\ job' = [job EXCEPT ![p] =
                          [op |-> "expire", id |-> t, by |-> Admin, auth |-> {},
                           rejectedBy |-> {}, reason |-> "none", condition |-> "none"]]
      BY <1>3 DEF Drain
  <2>2. t \in Transfers
      BY <2>1 DEF TypeOK
  <2>3. [op |-> "expire", id |-> t, by |-> Admin, auth |-> {},
         rejectedBy |-> {}, reason |-> "none", condition |-> "none"] \in Jobs
      BY <2>2 DEF Jobs, Users, Reasons, Conditions
  <2>4. ProcsOK'
      BY <1>3, <2>1, <2>3 DEF TypeOK, ProcsOK, Drain, Goto, PCs
  <2>5. TablesOK' /\ RestOK'
      BY <1>3 DEF TypeOK, TablesOK, RestOK, Drain, tables, expiry
  <2>6. QED
      BY <2>4, <2>5, TypePartsNext
<1>4. CASE Rearm(p)
  <2>1. timer' \in Int
    <3>1. \A t \in Transfers : ExpiresAt[t] \in Int
        BY ContentAssumption, NoTimeType
    <3>2. QED
        BY <1>4, <3>1, NoTimeType DEF TypeOK, Rearm
  <2>2. ProcsOK'
      BY <1>4, FinishType DEF Rearm
  <2>3. TablesOK' /\ RestOK'
      BY <1>4, <2>1 DEF TypeOK, TablesOK, RestOK, Rearm, tables
  <2>4. QED
      BY <2>2, <2>3, TypePartsNext
<1>5. QED
    BY <1>1, <1>2, <1>3, <1>4

LEMMA EnvironmentType ==
    ASSUME TypeOK, Tick \/ Crash \/ UNCHANGED vars
    PROVE  TypeOK'
<1>1. CASE Tick
    BY <1>1 DEF TypeOK, Tick, tables, expiry, procs
<1>2. CASE Crash
  <2>1. ProcsOK'
      BY <1>2, NoRowType, NoPlanType, NoTimeType DEF ProcsOK, Crash, PCs
  <2>2. TablesOK' /\ RestOK'
      BY <1>2, NoTimeType DEF TypeOK, TablesOK, RestOK, Crash, tables
  <2>3. QED
      BY <2>1, <2>2, TypePartsNext
<1>3. CASE UNCHANGED vars
    BY <1>3 DEF TypeOK, vars, tables, expiry, procs
<1>4. QED
    BY <1>1, <1>2, <1>3

(* The type invariant holds of every behaviour, whatever the constants.      *)
THEOREM TypeCorrect == Spec => []TypeOK
<1>1. Init => TypeOK
  <2> SUFFICES ASSUME Init PROVE TypeOK
      OBVIOUS
  <2>1. ProcsOK
      BY NoRowType, NoPlanType, NoTimeType DEF Init, ProcsOK, PCs
  <2>2. TablesOK /\ RestOK
      BY NoRowType, NoTimeType, BalanceAssumption DEF Init, TablesOK, RestOK
  <2>3. QED
      BY <2>1, <2>2, TypeParts
<1>2. TypeOK /\ [Next]_vars => TypeOK'
  <2> SUFFICES ASSUME TypeOK, [Next]_vars PROVE TypeOK'
      OBVIOUS
  <2>1. ASSUME NEW c \in Clients, Receive(c) PROVE TypeOK'
      BY <2>1, ReceiveType
  <2>2. ASSUME NEW p \in Procs, Run(p) PROVE TypeOK'
      BY <2>2, BeginType, WriteType, CommitType, FailureType, AfterwardsType, DrainType
         DEF Run
  <2>3. ASSUME NEW p \in TimerRuns, TimerFires(p) PROVE TypeOK'
      BY <2>3, DrainType DEF Procs
  <2>4. CASE Tick \/ Crash \/ Quiescent \/ UNCHANGED vars
      BY <2>4, EnvironmentType DEF Quiescent
  <2>5. QED
      BY <2>1, <2>2, <2>3, <2>4 DEF Next
<1>3. QED
    BY <1>1, <1>2, PTL DEF Spec

------------------------------------------------------------------------------
(* What a transaction found out before it wrote anything.                    *)
Validated(p) ==
    \/ job[p].op = "put"
    \/ /\ job[p].op = "fulfill"
       /\ MatchesCondition(job[p].id, job[p].condition)
       /\ FulfillAllowed(snap[p], job[p].condition)
    \/ job[p].op = "expire" /\ Expirable(snap[p])

(* What it wrote is what the rules make of what it read.                     *)
Planned(p) ==
    LET t == job[p].id
        condition == job[p].condition
    IN
    \/ /\ job[p].op = "put"
       /\ RejectionAllowed(t, snap[p], job[p])
       /\ plan[p].moves = PutMoves(t, snap[p], job[p])
       /\ plan[p].row = PutRow(t, snap[p], job[p], plan[p].row.executedAt)
    \/ /\ job[p].op = "fulfill"
       /\ plan[p].moves = FulfillMoves(snap[p], condition)
       /\ plan[p].row = FulfillRow(snap[p], condition, readAt[p])
    \/ /\ job[p].op = "expire"
       /\ plan[p].moves = ExpireMoves(snap[p])
       /\ plan[p].row = ExpireRow(snap[p])

(* The state of one transaction.  The row it read is the current one, unless *)
(* another commit of that row is on record in missed.                        *)
PutIsValid(p) ==
    pc[p] \in {"begin", "write", "commit"} /\ job[p].op = "put" =>
        ValidAmounts(job[p].id)

WritingOK(p) ==
    pc[p] = "write" =>
        /\ Validated(p)
        /\ job[p].id \in missed[p] \/ row[job[p].id] = snap[p]

CommittingOK(p) ==
    pc[p] = "commit" =>
        /\ Validated(p)
        /\ Planned(p)
        /\ row[job[p].id] = snap[p]
        /\ Covered(job[p].id, plan[p].moves)

TransactionOK(p) == PutIsValid(p) /\ WritingOK(p) /\ CommittingOK(p)

(* The tables: known transfers have valid amounts, and only a transfer with  *)
(* an execution condition is left prepared.                                  *)
RowOK(t) ==
    /\ row[t].state # "nonexistent" => ValidAmounts(t)
    /\ row[t].state = "prepared" => t \in HasExecution

IInv ==
    /\ LocksExclusive
    /\ \A t \in Transfers : RowOK(t)
    /\ \A p \in Procs : TransactionOK(p)

------------------------------------------------------------------------------
(* Most steps concern one process: the committed tables and the other        *)
(* transactions stay as they are.                                            *)
Frame(p) ==
    /\ UNCHANGED <<row, balance>>
    /\ \A q \in Procs \ {p} :
          /\ pc'[q] = pc[q]
          /\ job'[q] = job[q]
          /\ snap'[q] = snap[q]
          /\ readAt'[q] = readAt[q]
          /\ missed'[q] = missed[q]
          /\ plan'[q] = plan[q]

LEMMA FrameKeeps ==
    ASSUME IInv, NEW p \in Procs, Frame(p), TransactionOK(p)',
           \A q \in Procs \ {p} : LockedBy(p)' \cap LockedBy(q) = {}
    PROVE  IInv'
<1>1. \A t \in Transfers : RowOK(t)'
    BY DEF IInv, RowOK, Frame
<1>2. ASSUME NEW q \in Procs \ {p} PROVE TransactionOK(q)' /\ LockedBy(q)' = LockedBy(q)
  <2>1. TransactionOK(q)
      BY DEF IInv
  <2>2. /\ pc'[q] = pc[q] /\ job'[q] = job[q] /\ snap'[q] = snap[q]
        /\ readAt'[q] = readAt[q] /\ missed'[q] = missed[q] /\ plan'[q] = plan[q]
        /\ row' = row /\ balance' = balance
      BY DEF Frame
  <2>3. PutIsValid(q)'
      BY <2>1, <2>2 DEF TransactionOK, PutIsValid
  <2>4. Validated(q)' = Validated(q) /\ Planned(q)' = Planned(q)
      BY <2>2 DEF Validated, Planned
  <2>5. WritingOK(q)' /\ CommittingOK(q)'
      BY <2>1, <2>2, <2>4 DEF TransactionOK, WritingOK, CommittingOK, Covered
  <2>6. LockedBy(q)' = LockedBy(q)
      BY <2>2 DEF LockedBy
  <2>7. QED
      BY <2>3, <2>5, <2>6 DEF TransactionOK
<1>3. LocksExclusive'
  <2> SUFFICES ASSUME NEW q \in Procs, NEW r \in Procs, q # r
               PROVE  LockedBy(q)' \cap LockedBy(r)' = {}
      BY DEF LocksExclusive
  <2>1. CASE q = p \/ r = p
      BY <2>1, <1>2
  <2>2. CASE q # p /\ r # p
      BY <2>2, <1>2 DEF IInv, LocksExclusive
  <2>3. QED
      BY <2>1, <2>2
<1>4. QED
    BY <1>1, <1>2, <1>3 DEF IInv

(* A process outside a transaction has no obligation.                        *)
LEMMA StopsWorking ==
    ASSUME IInv, NEW p \in Procs, Frame(p), pc'[p] \notin {"begin", "write", "commit"}
    PROVE  IInv'
<1>1. TransactionOK(p)' /\ LockedBy(p)' = {}
    BY DEF TransactionOK, PutIsValid, WritingOK, CommittingOK, LockedBy
<1>2. QED
    BY <1>1, FrameKeeps

LEMMA StartsWorking ==
    ASSUME IInv, NEW p \in Procs, Frame(p), pc'[p] = "begin",
           job'[p].op = "put" => ValidAmounts(job'[p].id)
    PROVE  IInv'
<1>1. TransactionOK(p)' /\ LockedBy(p)' = {}
    BY DEF TransactionOK, PutIsValid, WritingOK, CommittingOK, LockedBy
<1>2. QED
    BY <1>1, FrameKeeps

LEMMA FinishKeeps ==
    ASSUME TypeOK, IInv, NEW p \in Procs, Finish(p), UNCHANGED <<row, balance>>
    PROVE  IInv'
<1>1. Frame(p) /\ pc'[p] = "idle"
    BY DEF TypeOK, Finish, Frame
<1>2. QED
    BY <1>1, StopsWorking

LEMMA RetryKeeps ==
    ASSUME TypeOK, IInv, NEW p \in Procs, NEW reason, Retry(p, reason),
           pc[p] \in {"begin", "write", "commit"}, UNCHANGED <<row, balance>>
    PROVE  IInv'
<1>1. CASE Finish(p)
    BY <1>1, FinishKeeps
<1>2. CASE /\ pc' = [pc EXCEPT ![p] = "begin"]
           /\ job' = [job EXCEPT ![p] = [@ EXCEPT !.reason = reason]]
           /\ snap' = [snap EXCEPT ![p] = NoRow]
           /\ readAt' = [readAt EXCEPT ![p] = NoTime]
           /\ missed' = [missed EXCEPT ![p] = {}]
           /\ plan' = [plan EXCEPT ![p] = NoPlan]
  <2> DEFINE again == [job[p] EXCEPT !.reason = reason]
  <2>1. again.op = job[p].op /\ again.id = job[p].id
    <3>1. job[p] \in Jobs
        BY DEF TypeOK
    <3>2. QED
        BY <3>1 DEF Jobs
  <2> HIDE DEF again
  <2>2. job' = [job EXCEPT ![p] = again]
      BY <1>2 DEF again, TypeOK
  <2>3. Frame(p) /\ pc'[p] = "begin" /\ job'[p] = again
    <3>1. /\ pc' = [pc EXCEPT ![p] = "begin"]
          /\ snap' = [snap EXCEPT ![p] = NoRow]
          /\ readAt' = [readAt EXCEPT ![p] = NoTime]
          /\ missed' = [missed EXCEPT ![p] = {}]
          /\ plan' = [plan EXCEPT ![p] = NoPlan]
        BY <1>2
    <3>2. QED
        BY <2>2, <3>1 DEF TypeOK, Frame
  <2>4. PutIsValid(p)
      BY DEF IInv, TransactionOK
  <2>5. job'[p].op = "put" => ValidAmounts(job'[p].id)
      BY <2>1, <2>3, <2>4 DEF PutIsValid
  <2>6. QED
      BY <2>3, <2>5, StartsWorking
<1>3. QED
    BY <1>1, <1>2 DEF Retry

------------------------------------------------------------------------------
(* A request starts to work: a PUT passed validateCreditAndDebitAmounts, or  *)
(* resubmits a transfer that did.                                            *)
LEMMA ReceiveKeeps ==
    ASSUME TypeOK, IInv, NEW c \in Clients, Receive(c)
    PROVE  IInv'
<1>1. c \in Procs
    BY DEF Procs
<1>2. ASSUME NEW request, Accept(c, request), request.op = "put" => ValidAmounts(request.id)
      PROVE  IInv'
  <2>1. Frame(c) /\ pc'[c] = "begin" /\ job'[c] = request
      BY <1>1, <1>2 DEF TypeOK, Accept, Goto, Frame, tables
  <2>2. QED
      BY <1>1, <1>2, <2>1, StartsWorking
<1>3. CASE ReceivePut(c)
    BY <1>2, <1>3 DEF ReceivePut
<1>4. CASE ReceiveRejection(c)
  <2>1. PICK t \in HasExecution, by \in Users :
            /\ row[t].state # "nonexistent"
            /\ \E credit \in Creditors(t) :
                  Accept(c, [op |-> "put", id |-> t, by |-> by, auth |-> row[t].auth,
                             rejectedBy |-> row[t].rejectedBy \cup {credit},
                             reason |-> row[t].reason, condition |-> "none"])
      BY <1>4 DEF ReceiveRejection
  <2>2. ValidAmounts(t)
      BY <2>1, ContentAssumption DEF IInv, RowOK
  <2>3. QED
      BY <1>2, <2>1, <2>2
<1>5. CASE ReceiveFulfillment(c)
    BY <1>2, <1>5 DEF ReceiveFulfillment
<1>6. QED
    BY <1>3, <1>4, <1>5 DEF Receive

(* The snapshot is the current row, and what is validated holds of it.       *)
LEMMA BeginKeeps ==
    ASSUME TypeOK, IInv, NEW p \in Procs, Begin(p)
    PROVE  IInv'
<1>1. ASSUME Refuse(p) PROVE IInv'
    BY <1>1, FinishKeeps DEF Refuse, tables
<1>2. ASSUME ReplayFulfillment(p) PROVE IInv'
  <2>1. Frame(p) /\ pc'[p] = "notify"
      BY <1>2 DEF TypeOK, ReplayFulfillment, Goto, Frame, tables
  <2>2. QED
      BY <2>1, StopsWorking
<1>3. ASSUME BackToDrain(p), UNCHANGED <<now, tables, expiry, missed, sent, requests, crashes>>
      PROVE  IInv'
  <2>1. Frame(p) /\ pc'[p] = "drain"
      BY <1>3 DEF TypeOK, BackToDrain, Frame, tables
  <2>2. QED
      BY <2>1, StopsWorking
<1>4. ASSUME Read(p),
             \/ job[p].op = "put"
             \/ /\ job[p].op = "fulfill" /\ FulfillmentValid(p)
                /\ FulfillAllowed(row[job[p].id], job[p].condition)
             \/ job[p].op = "expire" /\ Expirable(row[job[p].id])
      PROVE  IInv'
  <2>1. /\ Frame(p) /\ pc[p] = "begin" /\ pc'[p] = "write"
        /\ job'[p] = job[p] /\ snap'[p] = row[job[p].id] /\ row' = row
      BY <1>4 DEF TypeOK, Read, Goto, Frame, tables
  <2>2. PutIsValid(p)'
      BY <2>1 DEF IInv, TransactionOK, PutIsValid
  <2>3. Validated(p)'
      BY <1>4, <2>1 DEF Validated, FulfillmentValid
  <2>4. TransactionOK(p)' /\ LockedBy(p)' = {}
      BY <2>1, <2>2, <2>3 DEF TransactionOK, WritingOK, CommittingOK, LockedBy
  <2>5. QED
      BY <2>1, <2>4, FrameKeeps
<1>5. CASE BeginPut(p)
    BY <1>1, <1>4, <1>5 DEF BeginPut
<1>6. CASE BeginFulfill(p)
    BY <1>1, <1>2, <1>4, <1>6 DEF BeginFulfill
<1>7. CASE BeginExpire(p)
    BY <1>3, <1>4, <1>7 DEF BeginExpire
<1>8. QED
    BY <1>5, <1>6, <1>7 DEF Begin

(* A transaction that writes takes free locks only, and none of its rows was *)
(* committed after its snapshot.                                             *)
LEMMA WrittenKeeps ==
    ASSUME TypeOK, IInv, NEW p \in Procs, pc[p] = "write",
           NEW newRow, NEW moves, Written(p, newRow, moves), Ready(p, moves),
           Covered(job[p].id, moves),
           Planned(p)'
    PROVE  IInv'
<1> DEFINE t == job[p].id
<1>1. /\ Frame(p) /\ pc'[p] = "commit" /\ job'[p] = job[p] /\ snap'[p] = snap[p]
      /\ plan'[p].moves = moves /\ row' = row /\ balance' = balance
    BY DEF TypeOK, Written, Goto, Frame, tables
<1>2. WritingOK(p) /\ PutIsValid(p)
    BY DEF IInv, TransactionOK
<1>3. t \in WriteSet(t, moves)
    BY DEF WriteSet
<1>4. t \notin missed[p]
    BY <1>3 DEF Ready, Conflicts
<1>5. Validated(p) /\ row[t] = snap[p]
    BY <1>2, <1>4 DEF WritingOK
<1>6. Validated(p)'
    BY <1>1, <1>5 DEF Validated
<1>7. CommittingOK(p)'
    BY <1>1, <1>5, <1>6 DEF CommittingOK, Covered
<1>8. PutIsValid(p)' /\ WritingOK(p)'
    BY <1>1, <1>2 DEF PutIsValid, WritingOK
<1>9. LockedBy(p)' = WriteSet(t, moves)
    BY <1>1 DEF LockedBy
<1>10. \A q \in Procs \ {p} : LockedBy(p)' \cap LockedBy(q) = {}
    BY <1>9 DEF Ready, Blocked
<1>11. QED
    BY <1>1, <1>7, <1>8, <1>10, FrameKeeps DEF TransactionOK

LEMMA WriteKeeps ==
    ASSUME TypeOK, IInv, NEW p \in Procs, Write(p)
    PROVE  IInv'
<1> DEFINE t == job[p].id
<1>1. pc[p] = "write"
    BY DEF Write, WritePut, WritePutUncovered, WritePutConflict, WriteFulfill,
           WriteFulfillConflict, WriteExpire, WriteExpireConflict
<1>2. ASSUME Finish(p), UNCHANGED tables PROVE IInv'
    BY <1>2, FinishKeeps DEF tables
<1>3. ASSUME Retry(p, job[p].reason), UNCHANGED tables PROVE IInv'
    BY <1>1, <1>3, RetryKeeps DEF tables
<1>4. ASSUME NEW newRow, NEW moves, Written(p, newRow, moves)
      PROVE  /\ plan'[p].row = newRow /\ plan'[p].moves = moves
             /\ job'[p] = job[p] /\ snap'[p] = snap[p] /\ readAt'[p] = readAt[p]
    BY <1>4 DEF TypeOK, Written
<1>5. CASE WritePut(p)
  <2> DEFINE moves == PutMoves(t, snap[p], job[p])
             newRow == PutRow(t, snap[p], job[p], now)
  <2>1. CASE RejectionAllowed(t, snap[p], job[p])
    <3>1. Written(p, newRow, moves) /\ Ready(p, moves) /\ Covered(t, moves)
          /\ job[p].op = "put"
        BY <1>5, <2>1 DEF WritePut
    <3>2. newRow = PutRow(t, snap[p], job[p], newRow.executedAt)
        BY DEF PutRow
    <3>3. Planned(p)'
        BY <1>4, <2>1, <3>1, <3>2 DEF Planned
    <3>4. QED
        BY <1>1, <3>1, <3>3, WrittenKeeps
  <2>2. CASE ~RejectionAllowed(t, snap[p], job[p])
      BY <1>2, <1>5, <2>2 DEF WritePut
  <2>3. QED
      BY <2>1, <2>2
<1>6. CASE WriteFulfill(p)
  <2> DEFINE moves == FulfillMoves(snap[p], job[p].condition)
             newRow == FulfillRow(snap[p], job[p].condition, readAt[p])
  <2>1. Written(p, newRow, moves) /\ Ready(p, moves) /\ job[p].op = "fulfill"
      BY <1>6 DEF WriteFulfill
  <2>2. Covered(t, moves)
      BY DEF Covered, FulfillMoves
  <2>3. Planned(p)'
      BY <1>4, <2>1 DEF Planned
  <2>4. QED
      BY <1>1, <2>1, <2>2, <2>3, WrittenKeeps
<1>7. CASE WriteExpire(p)
  <2> DEFINE moves == ExpireMoves(snap[p])
             newRow == ExpireRow(snap[p])
  <2>1. Written(p, newRow, moves) /\ Ready(p, moves) /\ job[p].op = "expire"
      BY <1>7 DEF WriteExpire
  <2>2. Covered(t, moves)
      BY DEF Covered, ExpireMoves
  <2>3. Planned(p)'
      BY <1>4, <2>1 DEF Planned
  <2>4. QED
      BY <1>1, <2>1, <2>2, <2>3, WrittenKeeps
<1>8. CASE WritePutUncovered(p)
    BY <1>2, <1>8 DEF WritePutUncovered
<1>9. CASE WritePutConflict(p)
    BY <1>3, <1>9 DEF WritePutConflict
<1>10. CASE WriteFulfillConflict(p)
    BY <1>3, <1>10 DEF WriteFulfillConflict
<1>11. CASE WriteExpireConflict(p)
    BY <1>2, <1>3, <1>11 DEF WriteExpireConflict
<1>12. QED
    BY <1>5, <1>6, <1>7, <1>8, <1>9, <1>10, <1>11 DEF Write

------------------------------------------------------------------------------
(* A commit: the rows it publishes are as the rules want them, transactions  *)
(* at "write" are told what they missed, and transactions at "commit" depend *)
(* on other rows, for they hold other locks.                                 *)
LEMMA CommittedRowOK ==
    ASSUME TypeOK, IInv, NEW p \in Procs, pc[p] = "commit"
    PROVE  /\ ValidAmounts(job[p].id)
           /\ plan[p].row.state = "prepared" => job[p].id \in HasExecution
<1> DEFINE t == job[p].id
<1>1. /\ t \in Transfers /\ snap[p] \in Rows /\ Validated(p) /\ Planned(p)
      /\ row[t] = snap[p] /\ PutIsValid(p) /\ RowOK(t)
    BY AtWork DEF IInv, TransactionOK, CommittingOK
<1>2. CASE job[p].op = "put"
  <2>1. ValidAmounts(t)
      BY <1>1, <1>2 DEF PutIsValid
  <2>2. plan[p].row = PutRow(t, snap[p], job[p], plan[p].row.executedAt)
      BY <1>1, <1>2 DEF Planned
  <2>3. plan[p].row.state = "prepared" => StateIfExecuted(t, snap[p], job[p]) = "prepared"
      BY <2>2 DEF PutRow
  <2>4. plan[p].row.state = "prepared" => t \in HasExecution
      BY <2>3 DEF StateIfExecuted, Executes
  <2>5. QED
      BY <2>1, <2>4
<1>3. CASE job[p].op = "fulfill"
  <2>1. snap[p].state \in {"proposed", "prepared"}
      BY <1>1, <1>3 DEF Validated, FulfillAllowed, ValidExecutionStates, ValidCancellationStates
  <2>2. plan[p].row = FulfillRow(snap[p], job[p].condition, readAt[p])
      BY <1>1, <1>3 DEF Planned
  <2>3. plan[p].row.state \in {"executed", "rejected"}
      BY <1>1, <2>2 DEF FulfillRow, Rows
  <2>4. QED
      BY <1>1, <2>1, <2>3 DEF RowOK
<1>4. CASE job[p].op = "expire"
  <2>1. snap[p].state # "nonexistent"
      BY <1>1, <1>4 DEF Validated, Expirable
  <2>2. plan[p].row.state = "rejected"
      BY <1>1, <1>4 DEF Planned, ExpireRow, Rows
  <2>3. QED
      BY <1>1, <2>1, <2>2 DEF RowOK
<1>5. QED
    BY <1>1, <1>2, <1>3, <1>4 DEF Validated

LEMMA CommitKeeps ==
    ASSUME TypeOK, IInv, NEW p \in Procs, Commit(p)
    PROVE  IInv'
<1> DEFINE t == job[p].id
           moves == plan[p].moves
<1>1. /\ pc[p] = "commit" /\ t \in Transfers /\ moves \in SUBSET Moves
      /\ LockedBy(p) = WriteSet(t, moves)
    BY AtWork DEF Commit, LockedBy
<1>2. row' = [row EXCEPT ![t] = plan[p].row]
    BY DEF Commit
<1>3. \A s \in Transfers : RowOK(s)'
    BY <1>1, <1>2, CommittedRowOK DEF TypeOK, IInv, RowOK
<1>4. pc'[p] \notin {"begin", "write", "commit"}
    BY DEF TypeOK, Commit, BackToDrain, Goto
<1>5. TransactionOK(p)' /\ LockedBy(p)' = {}
    BY <1>4 DEF TransactionOK, PutIsValid, WritingOK, CommittingOK, LockedBy
<1>6. ASSUME NEW q \in Procs \ {p} PROVE TransactionOK(q)' /\ LockedBy(q)' = LockedBy(q)
  <2>1. /\ pc'[q] = pc[q] /\ job'[q] = job[q] /\ snap'[q] = snap[q]
        /\ readAt'[q] = readAt[q] /\ plan'[q] = plan[q]
      BY DEF TypeOK, Commit, BackToDrain, Goto
  <2>2. missed'[q] = IF pc[q] = "write" THEN missed[q] \cup WriteSet(t, moves)
                     ELSE missed[q]
      BY DEF Commit
  <2>3. PutIsValid(q) /\ WritingOK(q) /\ CommittingOK(q)
      BY DEF IInv, TransactionOK
  <2>4. PutIsValid(q)'
      BY <2>1, <2>3 DEF PutIsValid
  <2>5. Validated(q)' = Validated(q) /\ Planned(q)' = Planned(q)
      BY <2>1 DEF Validated, Planned
  <2>6. WritingOK(q)'
    <3> SUFFICES ASSUME pc[q] = "write"
                 PROVE  job[q].id \in missed'[q] \/ row'[job[q].id] = snap[q]
        BY <2>1, <2>3, <2>5 DEF WritingOK
    <3>1. CASE job[q].id = t
        BY <2>2, <3>1 DEF WriteSet
    <3>2. CASE job[q].id # t
      <4>1. job[q].id \in Transfers
          BY AtWork
      <4>2. QED
          BY <1>2, <2>2, <2>3, <3>2, <4>1 DEF TypeOK, WritingOK
    <3>3. QED
        BY <3>1, <3>2
  <2>7. CommittingOK(q)'
    <3> SUFFICES ASSUME pc[q] = "commit"
                 PROVE  row'[job[q].id] = snap[q] /\ Covered(job[q].id, plan[q].moves)'
        BY <2>1, <2>3, <2>5 DEF CommittingOK, Covered
    <3>1. WriteSet(t, moves) \cap WriteSet(job[q].id, plan[q].moves) = {}
        BY <1>1 DEF IInv, LocksExclusive, LockedBy
    <3>2. job[q].id \in Transfers /\ plan[q].moves \in SUBSET Moves
        BY AtWork
    <3>3. job[q].id # t
        BY <3>1 DEF WriteSet
    <3>4. row'[job[q].id] = snap[q]
        BY <1>2, <2>3, <3>2, <3>3 DEF TypeOK, CommittingOK
    <3>5. ASSUME "hold" \in plan[q].moves, NEW a \in Debtors(job[q].id)
          PROVE  balance'[a] = balance[a]
      <4>1. a \in Accounts
          BY <3>2, MarksType
      <4>2. a \notin AccountsOf(t, moves)
          BY <3>1, <3>5 DEF WriteSet, AccountsOf
      <4>3. balance'[a] = balance[a] + Change(t, moves, a)
          BY <4>1 DEF Commit
      <4>4. Change(t, moves, a) = 0
          BY <1>1, <4>2, ChangeOutside
      <4>5. balance[a] \in Int
          BY <4>1 DEF TypeOK
      <4>6. QED
          BY <4>3, <4>4, <4>5
    <3>6. Covered(job[q].id, plan[q].moves)'
        BY <2>1, <2>3, <3>5 DEF CommittingOK, Covered
    <3>7. QED
        BY <3>4, <3>6
  <2>8. LockedBy(q)' = LockedBy(q)
      BY <2>1 DEF LockedBy
  <2>9. QED
      BY <2>4, <2>6, <2>7, <2>8 DEF TransactionOK
<1>7. LocksExclusive'
  <2> SUFFICES ASSUME NEW q \in Procs, NEW r \in Procs, q # r
               PROVE  LockedBy(q)' \cap LockedBy(r)' = {}
      BY DEF LocksExclusive
  <2>1. CASE q = p \/ r = p
      BY <1>5, <2>1
  <2>2. CASE q # p /\ r # p
      BY <1>6, <2>2 DEF IInv, LocksExclusive
  <2>3. QED
      BY <2>1, <2>2
<1>8. QED
    BY <1>3, <1>5, <1>6, <1>7 DEF IInv

LEMMA FailureKeeps ==
    ASSUME TypeOK, IInv, NEW p \in Procs, CommitConflict(p) \/ DatabaseError(p)
    PROVE  IInv'
<1>1. CASE CommitConflict(p)
  <2>1. PICK reason : Retry(p, reason)
      BY <1>1 DEF CommitConflict
  <2>2. QED
      BY <1>1, <2>1, RetryKeeps DEF CommitConflict, tables
<1>2. CASE DatabaseError(p)
    BY <1>2, FinishKeeps DEF DatabaseError, tables
<1>3. QED
    BY <1>1, <1>2

LEMMA AfterwardsKeeps ==
    ASSUME TypeOK, IInv, NEW p \in Procs,
           Notify(p) \/ Watch(p) \/ TimerFires(p) \/ Pop(p) \/ Rearm(p)
    PROVE  IInv'
<1>1. CASE Finish(p)
    BY <1>1, FinishKeeps DEF Notify, Watch, TimerFires, Pop, Rearm, tables
<1>2. CASE ~Finish(p)
  <2>1. CASE Notify(p)
    <3>1. Frame(p) /\ pc'[p] = "watch"
        BY <1>2, <2>1 DEF TypeOK, Notify, Goto, Frame, tables
    <3>2. QED
        BY <3>1, StopsWorking
  <2>2. CASE Watch(p)
    <3>1. /\ pc' = [pc EXCEPT ![p] = "pop"]
          /\ job' = [job EXCEPT ![p] = NoJob]
          /\ snap' = [snap EXCEPT ![p] = NoRow]
          /\ readAt' = [readAt EXCEPT ![p] = NoTime]
          /\ missed' = [missed EXCEPT ![p] = {}]
          /\ plan' = [plan EXCEPT ![p] = NoPlan]
          /\ UNCHANGED <<row, balance>>
        BY <1>2, <2>2 DEF Watch, Goto, tables
    <3>2. Frame(p) /\ pc'[p] = "pop"
        BY <3>1 DEF TypeOK, Frame
    <3>3. QED
        BY <3>2, StopsWorking
  <2>3. CASE TimerFires(p) \/ Pop(p)
    <3>1. Frame(p) /\ pc'[p] \in {"pop", "drain"}
        BY <2>3 DEF TypeOK, TimerFires, Pop, Goto, Frame, tables
    <3>2. QED
        BY <3>1, StopsWorking
  <2>4. CASE Rearm(p)
      BY <1>2, <2>4 DEF Rearm
  <2>5. QED
      BY <2>1, <2>2, <2>3, <2>4
<1>3. QED
    BY <1>1, <1>2

LEMMA DrainKeeps ==
    ASSUME TypeOK, IInv, NEW p \in Procs, Drain(p)
    PROVE  IInv'
<1>1. Frame(p) /\ pc'[p] = "begin" /\ job'[p].op = "expire"
    BY DEF TypeOK, Drain, Goto, Frame, tables
<1>2. QED
    BY <1>1, StartsWorking

LEMMA EnvironmentKeeps ==
    ASSUME TypeOK, IInv, Tick \/ Crash \/ UNCHANGED vars
    PROVE  IInv'
<1>1. CASE Tick \/ UNCHANGED vars
  <2>1. UNCHANGED <<row, balance, pc, job, snap, readAt, missed, plan>>
      BY <1>1 DEF Tick, vars, tables, procs
  <2>2. \A t \in Transfers : RowOK(t)'
      BY <2>1 DEF IInv, RowOK
  <2>3. \A p \in Procs : TransactionOK(p)' = TransactionOK(p)
      BY <2>1 DEF TransactionOK, PutIsValid, WritingOK, CommittingOK, Validated, Planned,
                  Covered
  <2>4. LocksExclusive'
      BY <2>1 DEF IInv, LocksExclusive, LockedBy
  <2>5. QED
      BY <2>2, <2>3, <2>4 DEF IInv
<1>2. CASE Crash
  <2>1. \A p \in Procs : pc'[p] = "idle"
      BY <1>2 DEF Crash
  <2>2. \A p \in Procs : TransactionOK(p)' /\ LockedBy(p)' = {}
      BY <2>1 DEF TransactionOK, PutIsValid, WritingOK, CommittingOK, LockedBy
  <2>3. \A t \in Transfers : RowOK(t)'
      BY <1>2 DEF IInv, RowOK, Crash, tables
  <2>4. QED
      BY <2>2, <2>3 DEF IInv, LocksExclusive
<1>3. QED
    BY <1>1, <1>2

(* The inductive invariant holds of every behaviour.                         *)
THEOREM Invariant == Spec => []IInv
<1>1. Init => IInv
  <2> SUFFICES ASSUME Init PROVE IInv
      OBVIOUS
  <2>1. \A p \in Procs : pc[p] = "idle"
      BY DEF Init
  <2>2. \A p \in Procs : TransactionOK(p) /\ LockedBy(p) = {}
      BY <2>1 DEF TransactionOK, PutIsValid, WritingOK, CommittingOK, LockedBy
  <2>3. \A t \in Transfers : RowOK(t)
      BY DEF Init, RowOK, NoRow
  <2>4. QED
      BY <2>2, <2>3 DEF IInv, LocksExclusive
<1>2. TypeOK /\ IInv /\ [Next]_vars => IInv'
  <2> SUFFICES ASSUME TypeOK, IInv, [Next]_vars PROVE IInv'
      OBVIOUS
  <2>1. ASSUME NEW c \in Clients, Receive(c) PROVE IInv'
      BY <2>1, ReceiveKeeps
  <2>2. ASSUME NEW p \in Procs, Run(p) PROVE IInv'
      BY <2>2, BeginKeeps, WriteKeeps, CommitKeeps, FailureKeeps, AfterwardsKeeps,
         DrainKeeps DEF Run
  <2>3. ASSUME NEW p \in TimerRuns, TimerFires(p) PROVE IInv'
      BY <2>3, AfterwardsKeeps DEF Procs
  <2>4. CASE Tick \/ Crash \/ Quiescent \/ UNCHANGED vars
      BY <2>4, EnvironmentKeeps DEF Quiescent
  <2>5. QED
      BY <2>1, <2>2, <2>3, <2>4 DEF Next
<1>3. QED
    BY <1>1, <1>2, TypeCorrect, PTL DEF Spec

(* The row a transaction read is the current one while it holds its locks.   *)
THEOREM SnapshotsCurrent == Spec => []SnapshotCurrent
<1>1. IInv => SnapshotCurrent
    BY DEF IInv, TransactionOK, CommittingOK, SnapshotCurrent
<1>2. QED
    BY <1>1, Invariant, PTL

------------------------------------------------------------------------------
(* The rules are the same on both sides of the refinement mapping.           *)
LEMMA SameChange ==
    ASSUME NEW t, NEW moves, NEW a
    PROVE  Committed!Change(t, moves, a) = Change(t, moves, a)
    BY DEF Committed!Change, Change, Committed!DebitOf, DebitOf, Committed!CreditOf,
           CreditOf, Committed!Debtors, Debtors, Committed!Creditors, Creditors

LEMMA SameValidAmounts ==
    ASSUME NEW t
    PROVE  Committed!ValidAmounts(t) = ValidAmounts(t)
    BY DEF Committed!ValidAmounts, ValidAmounts, Committed!Positive, Positive,
           Committed!SumFunction, SumFunction,
           Committed!SumFunctionOnSet, SumFunctionOnSet,
           Committed!FoldFunctionOnSet, FoldFunctionOnSet,
           Committed!MapThenFoldSet, MapThenFoldSet

(* Moves that cancel out: a hold that is returned at once moves nothing.     *)
LEMMA HoldAndReturn ==
    ASSUME NEW t \in Transfers, NEW a
    PROVE  Change(t, {"hold", "return"}, a) = Change(t, {}, a)
<1>1. DebitOf(t, a) \in Int
    BY ContentAssumption DEF DebitOf, Debtors
<1>2. QED
    BY <1>1 DEF Change

(* What a commit does to the variables of Ledger.                            *)
LEMMA CommitMaps ==
    ASSUME TypeOK, NEW p \in Procs, Commit(p)
    PROVE  /\ [r \in Transfers |-> row'[r].state] =
                  [[r \in Transfers |-> row[r].state] EXCEPT ![job[p].id] = plan[p].row.state]
           /\ balance' = [a \in Accounts |-> balance[a] + Committed!Change(job[p].id, plan[p].moves, a)]
           /\ [r \in Transfers |-> row'[r].fulfillment] =
                  [[r \in Transfers |-> row[r].fulfillment]
                      EXCEPT ![job[p].id] = plan[p].row.fulfillment]
<1> DEFINE t == job[p].id
<1>1. t \in Transfers
    BY AtWork DEF Commit
<1>2. row' = [row EXCEPT ![t] = plan[p].row]
    BY DEF Commit
<1>3. [r \in Transfers |-> row'[r].state] =
          [[r \in Transfers |-> row[r].state] EXCEPT ![t] = plan[p].row.state]
    BY <1>1, <1>2 DEF TypeOK
<1>4. balance' = [a \in Accounts |-> balance[a] + Committed!Change(t, plan[p].moves, a)]
    BY SameChange DEF Commit
<1>5. [r \in Transfers |-> row'[r].fulfillment] =
          [[r \in Transfers |-> row[r].fulfillment] EXCEPT ![t] = plan[p].row.fulfillment]
    BY <1>1, <1>2 DEF TypeOK
<1>6. QED
    BY <1>3, <1>4, <1>5

LEMMA CommitKeepsFulfillment ==
    ASSUME TypeOK, NEW p \in Procs, Commit(p),
           plan[p].row.fulfillment = row[job[p].id].fulfillment
    PROVE  [t \in Transfers |-> row'[t].fulfillment] = [t \in Transfers |-> row[t].fulfillment]
<1>1. job[p].id \in Transfers
    BY AtWork DEF Commit
<1>2. row' = [row EXCEPT ![job[p].id] = plan[p].row]
    BY DEF Commit
<1>3. QED
    BY <1>1, <1>2 DEF TypeOK

(* The commit of a PUT is a rejection, an execution, a preparation or a      *)
(* proposal, or adds marks only.                                             *)
LEMMA PutImplements ==
    ASSUME TypeOK, IInv, NEW p \in Procs, Commit(p), job[p].op = "put",
           NEW t \in Transfers, job[p].id = t
    PROVE  Committed!Move(t) \/ UNCHANGED Committed!vars
<1> DEFINE old == snap[p]
           state == [r \in Transfers |-> row[r].state]
<1>1. /\ t \in Transfers /\ old \in Rows /\ row[t] = old
      /\ ValidAmounts(t) /\ Committed!ValidAmounts(t)
      /\ old.state = "prepared" => t \in HasExecution
  <2>1. pc[p] = "commit" /\ t \in Transfers /\ old \in Rows
      BY AtWork DEF Commit
  <2>2. row[t] = old /\ PutIsValid(p)
      BY <2>1 DEF IInv, TransactionOK, CommittingOK
  <2>3. ValidAmounts(t)
      BY <2>1, <2>2 DEF PutIsValid
  <2>4. QED
      BY <2>1, <2>2, <2>3, SameValidAmounts DEF IInv, RowOK
<1>2. /\ RejectionAllowed(t, old, job[p])
      /\ plan[p].moves = PutMoves(t, old, job[p])
      /\ plan[p].row.state = IF Rejects(t, old, job[p]) THEN "rejected"
                             ELSE StateIfExecuted(t, old, job[p])
      /\ plan[p].row.fulfillment = old.fulfillment
      /\ Covered(t, plan[p].moves)
  <2>1. CommittingOK(p) /\ pc[p] = "commit"
      BY DEF IInv, TransactionOK, Commit
  <2>2. /\ RejectionAllowed(t, old, job[p])
        /\ plan[p].moves = PutMoves(t, old, job[p])
        /\ plan[p].row = PutRow(t, old, job[p], plan[p].row.executedAt)
        /\ Covered(t, plan[p].moves)
      BY <2>1 DEF CommittingOK, Planned
  <2>3. QED
      BY <2>2 DEF PutRow
<1>3. /\ [r \in Transfers |-> row'[r].state] = [state EXCEPT ![t] = plan[p].row.state]
      /\ balance' = [a \in Accounts |-> balance[a] + Committed!Change(t, plan[p].moves, a)]
      /\ [r \in Transfers |-> row'[r].fulfillment] = [r \in Transfers |-> row[r].fulfillment]
  <2>1. /\ [r \in Transfers |-> row'[r].state] = [state EXCEPT ![job[p].id] = plan[p].row.state]
        /\ balance' = [a \in Accounts |->
                          balance[a] + Committed!Change(job[p].id, plan[p].moves, a)]
      BY CommitMaps
  <2>2. [r \in Transfers |-> row'[r].fulfillment] = [r \in Transfers |-> row[r].fulfillment]
      BY <1>1, <1>2, CommitKeepsFulfillment
  <2>3. QED
      BY <2>1, <2>2
<1>4. state[t] = old.state
    BY <1>1
<1>5. CASE Rejects(t, old, job[p])
  <2>1. StateIfExecuted(t, old, job[p]) \in {"proposed", "prepared"} /\ plan[p].row.state = "rejected"
      BY <1>2, <1>5 DEF RejectionAllowed, ValidCancellationStates
  <2>2. ~Executes(t, old, job[p]) /\ StateIfPrepared(t, old, job[p]) \in {"proposed", "prepared"}
      BY <2>1 DEF StateIfExecuted
  <2>3. old.state \in {"nonexistent", "proposed", "prepared"}
      BY <2>2 DEF StateIfPrepared, StateOnArrival, Prepares
  <2> DEFINE moves == IF old.state = "prepared" THEN {"return"} ELSE {}
  <2>4. \A a \in Accounts : Change(t, plan[p].moves, a) = Change(t, moves, a)
    <3>1. CASE Prepares(t, old, job[p])
      <4>1. StateIfExecuted(t, old, job[p]) = "prepared" /\ old.state # "prepared"
          BY <2>2, <3>1 DEF StateIfExecuted, StateIfPrepared, StateOnArrival, Prepares
      <4>2. plan[p].moves = {"hold", "return"}
          BY <1>2, <1>5, <2>2, <3>1, <4>1 DEF PutMoves
      <4>3. QED
          BY <1>1, <4>1, <4>2, HoldAndReturn
    <3>2. CASE ~Prepares(t, old, job[p])
      <4>1. StateIfExecuted(t, old, job[p]) = "prepared" <=> old.state = "prepared"
          BY <2>2, <3>2 DEF StateIfExecuted, StateIfPrepared, StateOnArrival
      <4>2. plan[p].moves = moves
          BY <1>2, <1>5, <2>2, <3>2, <4>1 DEF PutMoves
      <4>3. QED
          BY <4>2
    <3>3. QED
        BY <3>1, <3>2
  <2> HIDE DEF moves
  <2>5. balance' = [a \in Accounts |-> balance[a] + Committed!Change(t, moves, a)]
      BY <1>3, <2>4, SameChange
  <2>6. moves = IF state[t] = "prepared" THEN {"return"} ELSE {}
      BY <1>4 DEF moves
  <2>7. Committed!Reject(t)
      BY <1>1, <1>3, <1>4, <2>1, <2>3, <2>5, <2>6
         DEF Committed!Reject, Committed!IsFinal, Committed!FinalStates,
             Committed!Become, Committed!Pay
  <2>8. QED
      BY <2>7 DEF Committed!Move
<1>6. CASE ~Rejects(t, old, job[p]) /\ Executes(t, old, job[p])
  <2>1. Prepares(t, old, job[p]) /\ t \notin HasExecution
      BY <1>1, <1>6 DEF Executes, StateIfPrepared, StateOnArrival
  <2>2. old.state \in {"nonexistent", "proposed"}
      BY <2>1 DEF Prepares, StateOnArrival
  <2>3. plan[p].moves = {"hold", "disburse"} /\ plan[p].row.state = "executed"
      BY <1>2, <1>6, <2>1 DEF PutMoves, StateIfExecuted
  <2>4. Committed!Covered(t)
      BY <1>2, <2>3 DEF Covered, Committed!Covered, Debtors, Committed!Debtors
  <2>5. Committed!ExecuteAtOnce(t)
      BY <1>1, <1>3, <1>4, <2>1, <2>2, <2>3, <2>4
         DEF Committed!ExecuteAtOnce, Committed!Open, Committed!Become, Committed!Pay
  <2>6. QED
      BY <2>5 DEF Committed!Move
<1>7. CASE ~Rejects(t, old, job[p]) /\ ~Executes(t, old, job[p]) /\ Prepares(t, old, job[p])
  <2>1. t \in HasExecution
      BY <1>7 DEF Executes, StateIfPrepared
  <2>2. old.state \in {"nonexistent", "proposed"}
      BY <1>7 DEF Prepares, StateOnArrival
  <2>3. plan[p].moves = {"hold"} /\ plan[p].row.state = "prepared"
      BY <1>2, <1>7 DEF PutMoves, StateIfExecuted, StateIfPrepared
  <2>4. Committed!Covered(t)
      BY <1>2, <2>3 DEF Covered, Committed!Covered, Debtors, Committed!Debtors
  <2>5. Committed!Prepare(t)
      BY <1>1, <1>3, <1>4, <2>1, <2>2, <2>3, <2>4
         DEF Committed!Prepare, Committed!Open, Committed!Become, Committed!Pay
  <2>6. QED
      BY <2>5 DEF Committed!Move
<1>8. CASE ~Rejects(t, old, job[p]) /\ ~Executes(t, old, job[p]) /\ ~Prepares(t, old, job[p])
  <2>1. plan[p].moves = {} /\ plan[p].row.state = StateOnArrival(old)
      BY <1>2, <1>8 DEF PutMoves, StateIfExecuted, StateIfPrepared
  <2>2. balance' = balance
    <3>1. \A a \in Accounts : Committed!Change(t, {}, a) = 0
        BY SameChange DEF Change
    <3>2. QED
        BY <1>3, <2>1, <3>1 DEF TypeOK
  <2>3. CASE old.state = "nonexistent"
    <3>1. Committed!Propose(t)
        BY <1>1, <1>3, <1>4, <2>1, <2>2, <2>3
           DEF Committed!Propose, Committed!Become, StateOnArrival
    <3>2. QED
        BY <3>1 DEF Committed!Move
  <2>4. CASE old.state # "nonexistent"
    <3>1. plan[p].row.state = state[t]
        BY <1>4, <2>1, <2>4 DEF StateOnArrival
    <3>2. [r \in Transfers |-> row'[r].state] = state
        BY <1>3, <3>1
    <3>3. QED
        BY <1>3, <2>2, <3>2 DEF Committed!vars
  <2>5. QED
      BY <2>3, <2>4
<1>9. QED
    BY <1>5, <1>6, <1>7, <1>8

(* The commit of a fulfilment executes a prepared transfer or cancels an     *)
(* unfinished one.                                                           *)
LEMMA FulfillImplements ==
    ASSUME TypeOK, IInv, NEW p \in Procs, Commit(p), job[p].op = "fulfill",
           NEW t \in Transfers, job[p].id = t
    PROVE  Committed!Move(t)
<1> DEFINE old == snap[p]
           condition == job[p].condition
           state == [r \in Transfers |-> row[r].state]
<1>1. /\ t \in Transfers /\ old \in Rows /\ state[t] = old.state
      /\ MatchesCondition(t, condition)
      /\ FulfillAllowed(old, condition)
      /\ plan[p].moves = FulfillMoves(old, condition)
      /\ plan[p].row = FulfillRow(old, condition, readAt[p])
  <2>1. pc[p] = "commit" /\ t \in Transfers /\ old \in Rows
      BY AtWork DEF Commit
  <2>2. CommittingOK(p)
      BY DEF IInv, TransactionOK
  <2>3. QED
      BY <2>1, <2>2 DEF CommittingOK, Validated, Planned
<1>2. /\ [r \in Transfers |-> row'[r].state] = [state EXCEPT ![t] = plan[p].row.state]
      /\ balance' = [a \in Accounts |-> balance[a] + Committed!Change(t, plan[p].moves, a)]
      /\ [r \in Transfers |-> row'[r].fulfillment] =
            [[r \in Transfers |-> row[r].fulfillment] EXCEPT ![t] = plan[p].row.fulfillment]
  <2>1. /\ [r \in Transfers |-> row'[r].state] = [state EXCEPT ![job[p].id] = plan[p].row.state]
        /\ balance' = [a \in Accounts |->
                          balance[a] + Committed!Change(job[p].id, plan[p].moves, a)]
        /\ [r \in Transfers |-> row'[r].fulfillment] =
              [[r \in Transfers |-> row[r].fulfillment]
                  EXCEPT ![job[p].id] = plan[p].row.fulfillment]
      BY CommitMaps
  <2>3. QED
      BY <2>1
<1>3. CASE condition = "execution"
  <2>1. old.state = "prepared"
      BY <1>1, <1>3 DEF FulfillAllowed, ValidExecutionStates
  <2>2. plan[p].moves = {"disburse"}
      BY <1>1, <1>3 DEF FulfillMoves
  <2>3. plan[p].row.state = "executed" /\ plan[p].row.fulfillment = "execution"
      BY <1>1, <1>3 DEF FulfillRow, Rows
  <2>4. Committed!Execute(t)
      BY <1>1, <1>2, <2>1, <2>2, <2>3 DEF Committed!Execute, Committed!Become, Committed!Pay
  <2>5. QED
      BY <2>4 DEF Committed!Move
<1>4. CASE condition = "cancellation"
  <2>1. old.state \in {"proposed", "prepared"} /\ t \in HasCancellation
      BY <1>1, <1>4 DEF FulfillAllowed, ValidCancellationStates, MatchesCondition
  <2>2. plan[p].moves = IF state[t] = "prepared" THEN {"return"} ELSE {}
      BY <1>1, <1>4 DEF FulfillMoves
  <2>3. plan[p].row.state = "rejected" /\ plan[p].row.fulfillment = "cancellation"
      BY <1>1, <1>4 DEF FulfillRow, Rows
  <2>4. Committed!Cancel(t)
      BY <1>1, <1>2, <2>1, <2>2, <2>3 DEF Committed!Cancel, Committed!Become, Committed!Pay
  <2>5. QED
      BY <2>4 DEF Committed!Move
<1>5. QED
    BY <1>1, <1>3, <1>4 DEF MatchesCondition

(* The commit of an expiry rejects an unfinished transfer.                   *)
LEMMA ExpireImplements ==
    ASSUME TypeOK, IInv, NEW p \in Procs, Commit(p), job[p].op = "expire",
           NEW t \in Transfers, job[p].id = t
    PROVE  Committed!Move(t)
<1> DEFINE old == snap[p]
           state == [r \in Transfers |-> row[r].state]
<1>1. /\ t \in Transfers /\ old \in Rows /\ row[t] = old
      /\ Expirable(old)
      /\ plan[p].moves = ExpireMoves(old)
      /\ plan[p].row = ExpireRow(old)
  <2>1. pc[p] = "commit" /\ t \in Transfers /\ old \in Rows
      BY AtWork DEF Commit
  <2>2. CommittingOK(p)
      BY DEF IInv, TransactionOK
  <2>3. QED
      BY <2>1, <2>2 DEF CommittingOK, Validated, Planned
<1>2. Committed!ValidAmounts(t)
    BY <1>1, SameValidAmounts DEF IInv, RowOK, Expirable
<1>3. /\ plan[p].row.state = "rejected"
      /\ plan[p].row.fulfillment = old.fulfillment
      /\ plan[p].moves = IF state[t] = "prepared" THEN {"return"} ELSE {}
    BY <1>1 DEF ExpireRow, ExpireMoves, Rows
<1>4. /\ [r \in Transfers |-> row'[r].state] = [state EXCEPT ![t] = plan[p].row.state]
      /\ balance' = [a \in Accounts |-> balance[a] + Committed!Change(t, plan[p].moves, a)]
      /\ [r \in Transfers |-> row'[r].fulfillment] = [r \in Transfers |-> row[r].fulfillment]
  <2>1. /\ [r \in Transfers |-> row'[r].state] = [state EXCEPT ![job[p].id] = plan[p].row.state]
        /\ balance' = [a \in Accounts |->
                          balance[a] + Committed!Change(job[p].id, plan[p].moves, a)]
      BY CommitMaps
  <2>2. [r \in Transfers |-> row'[r].fulfillment] = [r \in Transfers |-> row[r].fulfillment]
      BY <1>1, <1>3, CommitKeepsFulfillment
  <2>3. QED
      BY <2>1, <2>2
<1>5. state[t] \notin {"executed", "rejected"}
    BY <1>1 DEF Expirable, IsFinal, FinalStates
<1>6. Committed!Reject(t)
    BY <1>2, <1>3, <1>4, <1>5
       DEF Committed!Reject, Committed!IsFinal, Committed!FinalStates,
           Committed!Become, Committed!Pay
<1>7. QED
    BY <1>6 DEF Committed!Move

(* Only a commit changes the tables.                                         *)
LEMMA OnlyCommitsChange ==
    ASSUME [Next]_vars, ~(\E p \in Procs : Commit(p))
    PROVE  UNCHANGED <<row, balance>>
<1>1. ASSUME NEW c \in Clients, Receive(c) PROVE UNCHANGED <<row, balance>>
    BY <1>1 DEF Receive, ReceivePut, ReceiveRejection, ReceiveFulfillment, Accept, tables
<1>2. ASSUME NEW p \in Procs, Run(p) PROVE UNCHANGED <<row, balance>>
  <2>1. CASE Begin(p)
      BY <2>1 DEF Begin, BeginPut, BeginFulfill, BeginExpire, Read, Refuse,
                  ReplayFulfillment, tables
  <2>2. CASE Write(p)
      BY <2>2 DEF Write, WritePut, WritePutUncovered, WritePutConflict, WriteFulfill,
                  WriteFulfillConflict, WriteExpire, WriteExpireConflict, Written, tables
  <2>3. CASE CommitConflict(p) \/ DatabaseError(p)
      BY <2>3 DEF CommitConflict, DatabaseError, tables
  <2>4. CASE Notify(p) \/ Watch(p) \/ Pop(p) \/ Drain(p) \/ Rearm(p)
      BY <2>4 DEF Notify, Watch, Pop, Drain, Rearm, tables
  <2>5. QED
      BY <1>2, <2>1, <2>2, <2>3, <2>4 DEF Run
<1>3. ASSUME NEW p \in TimerRuns, TimerFires(p) PROVE UNCHANGED <<row, balance>>
    BY <1>3 DEF TimerFires, tables
<1>4. CASE Tick \/ Crash \/ Quiescent \/ UNCHANGED vars
    BY <1>4 DEF Tick, Crash, Quiescent, vars, tables
<1>5. QED
    BY <1>1, <1>2, <1>3, <1>4 DEF Next

(* The committed tables are the abstract ledger: whatever transactions       *)
(* overlap, fail, are retried or are cut off by a restart, every step of the *)
(* server is one legal transition of one transfer, or none.                  *)
THEOREM Refinement == Spec => ImplementsLedger
<1>1. Init => Committed!Init
    BY DEF Init, Committed!Init, NoRow
<1>2. TypeOK /\ IInv /\ [Next]_vars => [Committed!Next]_(Committed!vars)
  <2> SUFFICES ASSUME TypeOK, IInv, [Next]_vars
               PROVE  Committed!Next \/ UNCHANGED Committed!vars
      OBVIOUS
  <2>1. CASE \E p \in Procs : Commit(p)
    <3>1. PICK p \in Procs : Commit(p)
        BY <2>1
    <3>2. pc[p] = "commit" /\ Validated(p)
        BY <3>1 DEF Commit, IInv, TransactionOK, CommittingOK
    <3> PICK t \in Transfers : job[p].id = t
        BY <3>2, AtWork
    <3>3. Committed!Move(t) \/ UNCHANGED Committed!vars
        BY <3>1, <3>2, PutImplements, FulfillImplements, ExpireImplements DEF Validated
    <3>4. QED
        BY <3>3 DEF Committed!Next
  <2>2. CASE ~(\E p \in Procs : Commit(p))
    <3>1. row' = row /\ balance' = balance
        BY <2>2, OnlyCommitsChange
    <3>2. QED
        BY <3>1 DEF Committed!vars
  <2>3. QED
      BY <2>1, <2>2
<1>3. QED
    BY <1>1, <1>2, TypeCorrect, Invariant, PTL DEF Spec, ImplementsLedger, Committed!Spec

(* No account is overdrawn, however many transactions hold funds of it at    *)
(* once: what a hold was allowed to take is still there when it commits.     *)
THEOREM BalancesCovered == Spec => []NoOverdraft
<1>1. Init => NoOverdraft
    BY BalanceAssumption DEF Init, NoOverdraft, Committed!NoOverdraft
<1>2. TypeOK /\ IInv /\ NoOverdraft /\ [Next]_vars => NoOverdraft'
  <2> SUFFICES ASSUME TypeOK, IInv, NoOverdraft, [Next]_vars, NEW a \in Accounts
               PROVE  balance'[a] >= MinBalance[a]
      BY DEF NoOverdraft, Committed!NoOverdraft
  <2>1. balance[a] \in Int /\ MinBalance[a] \in Int /\ balance[a] >= MinBalance[a]
      BY BalanceAssumption DEF TypeOK, NoOverdraft, Committed!NoOverdraft
  <2>2. ASSUME NEW p \in Procs, Commit(p) PROVE balance'[a] >= MinBalance[a]
    <3> DEFINE t == job[p].id
               moves == plan[p].moves
    <3>1. pc[p] = "commit" /\ t \in Transfers /\ ValidAmounts(t)
        BY <2>2, AtWork, CommittedRowOK DEF Commit
    <3>2. Covered(t, moves)
        BY <3>1 DEF IInv, TransactionOK, CommittingOK
    <3>3. balance'[a] = balance[a] + Change(t, moves, a)
        BY <2>2 DEF Commit
    <3>4. /\ Change(t, moves, a) \in Int
          /\ "hold" \notin moves => Change(t, moves, a) >= 0
          /\ Change(t, moves, a) >= -DebitOf(t, a)
        BY <3>1, ChangeType, ChangeBound
    <3>5. CASE "hold" \in moves /\ a \in Debtors(t)
      <4>1. balance[a] - Debit[t][a] >= MinBalance[a] /\ Debit[t][a] \in Int
          BY <3>1, <3>2, <3>5, ContentAssumption DEF Covered, Debtors
      <4>2. DebitOf(t, a) = Debit[t][a]
          BY <3>5 DEF DebitOf
      <4>3. QED
          BY <2>1, <3>3, <3>4, <4>1, <4>2
    <3>6. CASE ~("hold" \in moves /\ a \in Debtors(t))
      <4>1. Change(t, moves, a) >= 0
          BY <3>4, <3>6 DEF DebitOf
      <4>2. QED
          BY <2>1, <3>3, <3>4, <4>1
    <3>7. QED
        BY <3>5, <3>6
  <2>3. QED
      BY <2>1, <2>2, OnlyCommitsChange
<1>3. QED
    BY <1>1, <1>2, TypeCorrect, Invariant, PTL DEF Spec
=============================================================================
