----------------------------- MODULE LedgerServer -----------------------------
(***************************************************************************)
(* The ledger process: request handlers that run database transactions     *)
(* side by side, the in-memory queue of transfers to expire, and the timer *)
(* that empties it (src/src/models/transfers.js,                           *)
(* src/src/lib/transferExpiryMonitor.js, src/src/lib/timerWorker.js,       *)
(* src/src/lib/holds.js, withSerializableTransaction of src/src/lib/db.js).*)
(*                                                                         *)
(* A process is one asynchronous call chain: a request (Clients) or a run  *)
(* of the timer's callback (TimerRuns).  It moves from one await to the    *)
(* next:                                                                   *)
(*                                                                         *)
(*   idle -> begin -> write -> commit -> notify -> watch -> pop -> drain   *)
(*                                                                         *)
(* "begin" reads the transfer under a new snapshot and validates, "write"  *)
(* makes the changes and takes their row locks, "commit" publishes them.   *)
(* Both a request that starts to watch a transfer and a timer run then     *)
(* "pop" the due transfers and "drain" them, one transaction per expiry.   *)
(*                                                                         *)
(* PostgreSQL at isolation level SERIALIZABLE is modelled by its effect: a *)
(* transaction waits for a row another one has written and not committed,  *)
(* and fails with 40001 when it writes a row that was committed after its  *)
(* snapshot.                                                               *)
(***************************************************************************)
EXTENDS TransferRules

CONSTANTS
    Clients,        \* slots for requests in progress
    Submissions,    \* what clients PUT as a transfer: who, with which marks and
                    \* which rejection_reason
    TimerRuns,      \* slots for timer callbacks in progress
    Faults,         \* subset of {"commit", "error"}: failures beyond the conflicts
    MaxRetries,     \* MaxRetries[op]: DB_RETRIES_CREATE, DB_RETRIES_FULFILL, DB_RETRIES
    MaxTime,        \* bound: the clock stops here
    MaxRequests,    \* bound: requests ever accepted
    MaxCrashes      \* bound: restarts of the server

Procs == Clients \cup TimerRuns
Ops == {"put", "fulfill", "expire"}

ASSUME ServerAssumption ==
    /\ \A s \in Submissions :
          /\ s.id \in Transfers /\ s.by \in Users
          /\ s.auth \subseteq Marks(s.id) /\ s.rejectedBy \subseteq Creditors(s.id)
          /\ s.reason \in Reasons
    /\ Clients \cap TimerRuns = {}
    /\ MaxRetries \in [Ops -> Nat]
    /\ MaxTime \in Nat
    /\ MaxRequests \in Nat
    /\ MaxCrashes \in Nat

VARIABLES
    now,        \* the clock moment() reads
    row,        \* row[t]: the committed tables, as seen from transfer t
    balance,    \* balance[a]: the committed L_ACCOUNTS.BALANCE
    entries,    \* entries[t][a]: how many L_ENTRIES rows there are
    queue,      \* the transfer ids in TransferExpiryMonitor.queue
    timer,      \* the date TimerWorker.timeout is set for, or NoTime
    pc,         \* pc[p]: the await process p is at
    job,        \* job[p]: the request or expiry p works on
    snap,       \* snap[p]: what p's transaction read of the transfer
    readAt,     \* readAt[p]: the time of that read (validatedAt)
    missed,     \* missed[p]: rows committed by others since p's snapshot
    plan,       \* plan[p]: what p's transaction wrote
    tries,      \* tries[p]: retries so far
    due,        \* due[p]: transfers p popped and has yet to expire
    sent,       \* sent[t]: the states t was announced to be in
    requests,   \* requests accepted so far
    crashes     \* restarts so far

tables == <<row, balance, entries>>
expiry == <<queue, timer>>
procs == <<pc, job, snap, readAt, missed, plan, tries, due>>
vars == <<now, tables, expiry, procs, sent, requests, crashes>>

NoJob == [op |-> "none"]
NoPlan == [row |-> NoRow, moves |-> {}]
Plans == [row : Rows, moves : SUBSET Moves]
PCs == {"idle", "begin", "write", "commit", "notify", "watch", "pop", "drain"}

Init ==
    /\ now = 0
    /\ row = [t \in Transfers |-> NoRow]
    /\ balance = InitialBalance
    /\ entries = [t \in Transfers |-> [a \in Accounts |-> 0]]
    /\ queue = {}
    /\ timer = NoTime
    /\ pc = [p \in Procs |-> "idle"]
    /\ job = [p \in Procs |-> NoJob]
    /\ snap = [p \in Procs |-> NoRow]
    /\ readAt = [p \in Procs |-> NoTime]
    /\ missed = [p \in Procs |-> {}]
    /\ plan = [p \in Procs |-> NoPlan]
    /\ tries = [p \in Procs |-> 0]
    /\ due = [p \in Procs |-> {}]
    /\ sent = [t \in Transfers |-> {}]
    /\ requests = 0
    /\ crashes = 0

------------------------------------------------------------------------------
(* The database: rows, locks, conflicts.                                   *)

WriteSet(t, moves) == {t} \cup AccountsOf(t, moves)

LockedBy(p) ==
    IF pc[p] = "commit" THEN WriteSet(job[p].id, plan[p].moves) ELSE {}

(* p has to wait: another transaction holds one of these rows.               *)
Blocked(p, rows) == \E q \in Procs \ {p} : LockedBy(q) \cap rows # {}

(* p's snapshot is too old to write these rows: 40001.                       *)
Conflicts(p, rows) == missed[p] \cap rows # {}

(* The CHECK constraint on BALANCE, tested by each UPDATE of holdFunds.      *)
Covered(t, moves) ==
    "hold" \in moves =>
        \A a \in Debtors(t) : balance[a] - Debit[t][a] >= MinBalance[a]

------------------------------------------------------------------------------
(* The end of a process, and the retry loop of withSerializableTransaction.  *)

(* The call chain ends: a reply, an error reply, or a callback that is done. *)
(* An error in an expiry ends the whole drain: the transfers still due are   *)
(* forgotten and the timer is not set again.                                 *)
Finish(p) ==
    /\ pc' = [pc EXCEPT ![p] = "idle"]
    /\ job' = [job EXCEPT ![p] = NoJob]
    /\ snap' = [snap EXCEPT ![p] = NoRow]
    /\ readAt' = [readAt EXCEPT ![p] = NoTime]
    /\ missed' = [missed EXCEPT ![p] = {}]
    /\ plan' = [plan EXCEPT ![p] = NoPlan]
    /\ tries' = [tries EXCEPT ![p] = 0]
    /\ due' = [due EXCEPT ![p] = {}]

(* An expiry is over: back to the loop of processExpiredTransfers.           *)
BackToDrain(p) ==
    /\ pc' = [pc EXCEPT ![p] = "drain"]
    /\ job' = [job EXCEPT ![p] = NoJob]
    /\ snap' = [snap EXCEPT ![p] = NoRow]
    /\ readAt' = [readAt EXCEPT ![p] = NoTime]
    /\ plan' = [plan EXCEPT ![p] = NoPlan]
    /\ tries' = [tries EXCEPT ![p] = 0]
    /\ UNCHANGED due

(* Faulty variants of Retry: the attempts are not counted; the statements    *)
(* run again without a new snapshot.                                         *)
RetryForever(p, reason) ==
    /\ pc' = [pc EXCEPT ![p] = "begin"]
    /\ job' = [job EXCEPT ![p] = [@ EXCEPT !.reason = reason]]
    /\ snap' = [snap EXCEPT ![p] = NoRow]
    /\ readAt' = [readAt EXCEPT ![p] = NoTime]
    /\ missed' = [missed EXCEPT ![p] = {}]
    /\ plan' = [plan EXCEPT ![p] = NoPlan]
    /\ UNCHANGED <<tries, due>>

RetryOnOldSnapshot(p, reason) ==
    /\ tries[p] < MaxRetries[job[p].op]
    /\ tries' = [tries EXCEPT ![p] = @ + 1]
    /\ pc' = [pc EXCEPT ![p] = "write"]
    /\ missed' = [missed EXCEPT ![p] = {}]
    /\ plan' = [plan EXCEPT ![p] = NoPlan]
    /\ UNCHANGED <<job, snap, readAt, due>>

(* 40001: the callback runs again in a new transaction, on the same objects. *)
(* Of the object a PUT submitted, the rejection_reason may have been changed *)
(* by the failed attempt (transfer.rejection_reason = 'cancelled').          *)
Retry(p, reason) ==
    \/ /\ tries[p] < MaxRetries[job[p].op]
       /\ tries' = [tries EXCEPT ![p] = @ + 1]
       /\ pc' = [pc EXCEPT ![p] = "begin"]
       /\ job' = [job EXCEPT ![p] = [@ EXCEPT !.reason = reason]]
       /\ snap' = [snap EXCEPT ![p] = NoRow]
       /\ readAt' = [readAt EXCEPT ![p] = NoTime]
       /\ missed' = [missed EXCEPT ![p] = {}]
       /\ plan' = [plan EXCEPT ![p] = NoPlan]
       /\ UNCHANGED due
    \/ /\ tries[p] = MaxRetries[job[p].op]
       /\ Finish(p)

Goto(p, label) == pc' = [pc EXCEPT ![p] = label]

Announce(t, s) ==
    sent' = [sent EXCEPT ![t] = @ \cup {s}]

------------------------------------------------------------------------------
(* Requests arrive.  What the code checks before its transaction is a guard: *)
(* a request it refuses there leaves no trace.                               *)

Accept(c, request) ==
    /\ pc[c] = "idle"
    /\ requests < MaxRequests
    /\ requests' = requests + 1
    /\ Goto(c, "begin")
    /\ job' = [job EXCEPT ![c] = request]
    /\ UNCHANGED <<now, tables, expiry, snap, readAt, missed, plan, tries, due,
                   sent, crashes>>

(* PUT /transfers/:id.  The rejection_reason is one that the client chose,   *)
(* which the schema allows and a new transfer is stored with, or the one it  *)
(* read with the transfer that it sends back.                                *)
ReceivePut(c) ==
    \E s \in Submissions : \E reason \in {s.reason, row[s.id].reason} :
        /\ NotExpired(s.id, now)
        /\ ValidAmounts(s.id)
        /\ Accept(c, [op |-> "put", id |-> s.id, by |-> s.by, auth |-> s.auth,
                      rejectedBy |-> s.rejectedBy, reason |-> reason,
                      condition |-> "none"])

(* PUT /transfers/:id/rejection: rejectTransfer reads the transfer outside   *)
(* any transaction and submits it with one more credit rejected, the         *)
(* requester's own or else the first of the list.                            *)
ReceiveRejection(c) ==
    \E t \in HasExecution, by \in Users :
    \E credit \in Creditors(t) :
        /\ row[t].state # "nonexistent"
        /\ by \in Creditors(t) => credit = by
        /\ NotExpired(t, now)
        /\ Accept(c, [op |-> "put", id |-> t, by |-> by, auth |-> row[t].auth,
                      rejectedBy |-> row[t].rejectedBy \cup {credit},
                      reason |-> row[t].reason, condition |-> "none"])

(* PUT /transfers/:id/fulfillment: everything is checked in the transaction, *)
(* and who sends it is not looked at.                                        *)
ReceiveFulfillment(c) ==
    \E t \in Transfers, condition \in Conditions \ {"none"} :
        Accept(c, [op |-> "fulfill", id |-> t, by |-> Admin, auth |-> {},
                   rejectedBy |-> {}, reason |-> "none", condition |-> condition])

------------------------------------------------------------------------------
(* BEGIN and getTransfer: a snapshot, then the checks that only look at it.  *)

Read(p) ==
    /\ pc[p] = "begin"
    /\ Goto(p, "write")
    /\ snap' = [snap EXCEPT ![p] = row[job[p].id]]
    /\ readAt' = [readAt EXCEPT ![p] = now]
    /\ missed' = [missed EXCEPT ![p] = {}]
    /\ UNCHANGED <<now, tables, expiry, job, plan, tries, due, sent, requests,
                   crashes>>

(* The transaction throws, or has nothing to write.                          *)
Refuse(p) ==
    /\ pc[p] = "begin"
    /\ Finish(p)
    /\ UNCHANGED <<now, tables, expiry, sent, requests, crashes>>

BeginPut(p) ==
    /\ job[p].op = "put"
    /\ IF PutAccepted(job[p].id, row[job[p].id], job[p]) THEN Read(p) ELSE Refuse(p)

(* Faulty variant: the deadline is checked by the first attempt only.        *)
FulfillmentValidatedOnce(p) ==
    /\ row[job[p].id].state # "nonexistent"
    /\ MatchesCondition(job[p].id, job[p].condition)
    /\ tries[p] = 0 => NotExpired(job[p].id, now)

FulfillmentValid(p) ==
    /\ row[job[p].id].state # "nonexistent"
    /\ MatchesCondition(job[p].id, job[p].condition)
    /\ NotExpired(job[p].id, now)

(* A replayed fulfilment is answered with the stored one: no write, but a    *)
(* notification like the first time.                                         *)
ReplayFulfillment(p) ==
    /\ pc[p] = "begin"
    /\ Goto(p, "notify")
    /\ plan' = [plan EXCEPT ![p] = [row |-> row[job[p].id], moves |-> {}]]
    /\ UNCHANGED <<now, tables, expiry, job, snap, readAt, missed, tries, due,
                   sent, requests, crashes>>

BeginFulfill(p) ==
    LET old == row[job[p].id]
        condition == job[p].condition
    IN
    /\ job[p].op = "fulfill"
    /\ IF ~FulfillmentValid(p) THEN Refuse(p)
       ELSE IF IsReplay(old, condition) THEN ReplayFulfillment(p)
       ELSE IF FulfillAllowed(old, condition) THEN Read(p)
       ELSE Refuse(p)

(* expireTransfer leaves a transfer that was finalized meanwhile alone.      *)
BeginExpire(p) ==
    /\ job[p].op = "expire"
    /\ pc[p] = "begin"
    /\ IF Expirable(row[job[p].id])
       THEN Read(p)
       ELSE /\ BackToDrain(p)
            /\ UNCHANGED <<now, tables, expiry, missed, sent, requests, crashes>>

Begin(p) == BeginPut(p) \/ BeginFulfill(p) \/ BeginExpire(p)

------------------------------------------------------------------------------
(* The writes.                                                             *)

Written(p, newRow, moves) ==
    /\ Goto(p, "commit")
    /\ plan' = [plan EXCEPT ![p] = [row |-> newRow, moves |-> moves]]
    /\ UNCHANGED <<now, tables, timer, job, snap, readAt, missed, tries, due,
                   requests, crashes>>

(* p can write now: no row is locked, none is newer than its snapshot.       *)
Ready(p, moves) ==
    LET rows == WriteSet(job[p].id, moves) IN
    /\ ~Blocked(p, rows)
    /\ ~Conflicts(p, rows)

(* setTransfer: both upserts and what lies between them.  The monitor stops  *)
(* watching in processImmediateExecution, before anything is committed.      *)
WritePut(p) ==
    LET t == job[p].id
        moves == PutMoves(t, snap[p], job[p])
    IN
    /\ pc[p] = "write" /\ job[p].op = "put"
    /\ Ready(p, moves)
    /\ Covered(t, moves)
    /\ queue' = IF "disburse" \in moves THEN queue \ {t} ELSE queue
    /\ IF RejectionAllowed(t, snap[p], job[p])
       THEN /\ Written(p, PutRow(t, snap[p], job[p], now), moves)
            /\ UNCHANGED sent
       ELSE /\ Finish(p)
            /\ UNCHANGED <<now, tables, timer, sent, requests, crashes>>

(* InsufficientFundsError: the hold violates the CHECK.                      *)
WritePutUncovered(p) ==
    LET t == job[p].id
        moves == PutMoves(t, snap[p], job[p])
    IN
    /\ pc[p] = "write" /\ job[p].op = "put"
    /\ ~Blocked(p, WriteSet(t, moves))
    /\ t \notin missed[p]
    /\ \E a \in Debtors(t) \ missed[p] :
          "hold" \in moves /\ balance[a] - Debit[t][a] < MinBalance[a]
    /\ Finish(p)
    /\ UNCHANGED <<now, tables, expiry, sent, requests, crashes>>

WritePutConflict(p) ==
    LET rows == WriteSet(job[p].id, PutMoves(job[p].id, snap[p], job[p])) IN
    /\ pc[p] = "write" /\ job[p].op = "put"
    /\ ~Blocked(p, rows)
    /\ Conflicts(p, rows)
    /\ Retry(p, job[p].reason)
    /\ UNCHANGED <<now, tables, expiry, sent, requests, crashes>>

(* executeTransfer or cancelTransfer, then unwatch, then updateTransfer.     *)
WriteFulfill(p) ==
    LET condition == job[p].condition
        moves == FulfillMoves(snap[p], condition)
    IN
    /\ pc[p] = "write" /\ job[p].op = "fulfill"
    /\ Ready(p, moves)
    /\ Written(p, FulfillRow(snap[p], condition, readAt[p]), moves)
    /\ queue' = queue \ {job[p].id}
    /\ UNCHANGED sent

(* The fulfilment is inserted and the balances are updated before unwatch,   *)
(* the transfer's row after it: a conflict on that row alone leaves the      *)
(* transfer unwatched.                                                       *)
WriteFulfillConflict(p) ==
    LET t == job[p].id
        moves == FulfillMoves(snap[p], job[p].condition)
    IN
    /\ pc[p] = "write" /\ job[p].op = "fulfill"
    /\ ~Blocked(p, WriteSet(t, moves))
    /\ Conflicts(p, WriteSet(t, moves))
    /\ queue' = IF \/ row[t].fulfillment # snap[p].fulfillment
                   \/ Conflicts(p, AccountsOf(t, moves))
                THEN queue ELSE queue \ {t}
    /\ Retry(p, job[p].reason)
    /\ UNCHANGED <<now, tables, timer, sent, requests, crashes>>

(* expireTransfer: the refund is started, the row updated, and the           *)
(* notification goes out before the transaction commits.                     *)
WriteExpire(p) ==
    LET moves == ExpireMoves(snap[p]) IN
    /\ pc[p] = "write" /\ job[p].op = "expire"
    /\ Ready(p, moves)
    /\ Written(p, ExpireRow(snap[p]), moves)
    /\ Announce(job[p].id, "rejected")
    /\ UNCHANGED queue

(* The refund is not awaited: its 40001 is lost, the statement after it      *)
(* fails with 25P02 (the transaction is aborted), and that is not retried.   *)
(* A conflict on the transfer's row alone is.                                *)
WriteExpireConflict(p) ==
    LET t == job[p].id
        moves == ExpireMoves(snap[p])
    IN
    /\ pc[p] = "write" /\ job[p].op = "expire"
    /\ ~Blocked(p, WriteSet(t, moves))
    /\ Conflicts(p, WriteSet(t, moves))
    /\ IF Conflicts(p, AccountsOf(t, moves)) THEN Finish(p) ELSE Retry(p, job[p].reason)
    /\ UNCHANGED <<now, tables, expiry, sent, requests, crashes>>

Write(p) ==
    \/ WritePut(p) \/ WritePutUncovered(p) \/ WritePutConflict(p)
    \/ WriteFulfill(p) \/ WriteFulfillConflict(p)
    \/ WriteExpire(p) \/ WriteExpireConflict(p)

------------------------------------------------------------------------------
(* COMMIT.                                                                 *)

(* insertEntryByName: one row for every balance a statement updated.         *)
EntriesOf(t, moves, a) ==
    (IF "hold" \in moves /\ a \in Debtors(t) THEN 1 ELSE 0)
    + (IF "disburse" \in moves /\ a \in Creditors(t) THEN 1 ELSE 0)
    + (IF "return" \in moves /\ a \in Debtors(t) THEN 1 ELSE 0)

Commit(p) ==
    LET t == job[p].id
        moves == plan[p].moves
    IN
    /\ pc[p] = "commit"
    /\ row' = [row EXCEPT ![t] = plan[p].row]
    /\ balance' = [a \in Accounts |-> balance[a] + Change(t, moves, a)]
    /\ entries' = [entries EXCEPT ![t] =
                      [a \in Accounts |-> entries[t][a] + EntriesOf(t, moves, a)]]
    /\ missed' = [q \in Procs |->
                      IF q # p /\ pc[q] = "write"
                      THEN missed[q] \cup WriteSet(t, moves) ELSE missed[q]]
    /\ IF job[p].op = "expire" THEN BackToDrain(p)
       ELSE /\ Goto(p, "notify")
            /\ UNCHANGED <<job, snap, readAt, plan, tries, due>>
    /\ UNCHANGED <<now, expiry, sent, requests, crashes>>

(* PostgreSQL may also find a dangerous structure among serializable         *)
(* transactions and fail the COMMIT with 40001.                              *)
(* In the faulty variant the error does not reach setTransfer.               *)
CommitConflictUnheard(p) ==
    /\ "commit" \in Faults
    /\ pc[p] = "commit"
    /\ IF job[p].op = "expire" THEN BackToDrain(p)
       ELSE /\ Goto(p, "notify")
            /\ UNCHANGED <<job, snap, readAt, plan, tries, due>>
    /\ UNCHANGED <<now, tables, expiry, missed, sent, requests, crashes>>

CommitConflict(p) ==
    /\ "commit" \in Faults
    /\ pc[p] = "commit"
    /\ Retry(p, IF job[p].op = "put" THEN plan[p].row.reason ELSE job[p].reason)
    /\ UNCHANGED <<now, tables, expiry, sent, requests, crashes>>

(* Any other error of the database, deadlocks included: not retried.         *)
DatabaseError(p) ==
    /\ "error" \in Faults
    /\ pc[p] \in {"begin", "write", "commit"}
    /\ Finish(p)
    /\ UNCHANGED <<now, tables, expiry, sent, requests, crashes>>

------------------------------------------------------------------------------
(* After the commit of a request.                                          *)

Notify(p) ==
    /\ pc[p] = "notify"
    /\ Announce(job[p].id, plan[p].row.state)
    /\ IF job[p].op = "put" /\ ~IsFinal(plan[p].row.state)
       THEN /\ Goto(p, "watch")
            /\ UNCHANGED <<job, snap, readAt, missed, plan, tries, due>>
       ELSE Finish(p)
    /\ UNCHANGED <<now, tables, expiry, requests, crashes>>

(* Faulty variant of Watchable: dates in the past are not refused.           *)
WatchableLate(t) == t \notin queue /\ ExpiresAt[t] # NoTime

Watchable(t) == t \notin queue /\ ExpiresAt[t] # NoTime /\ now < ExpiresAt[t]

(* TransferExpiryMonitor.watch: inserting into the queue wakes the timer     *)
(* worker's listener, which this request then waits for.                     *)
Watch(p) ==
    LET t == job[p].id IN
    /\ pc[p] = "watch"
    /\ IF Watchable(t)
       THEN /\ queue' = queue \cup {t}
            /\ Goto(p, "pop")
            /\ job' = [job EXCEPT ![p] = NoJob]
            /\ snap' = [snap EXCEPT ![p] = NoRow]
            /\ readAt' = [readAt EXCEPT ![p] = NoTime]
            /\ missed' = [missed EXCEPT ![p] = {}]
            /\ plan' = [plan EXCEPT ![p] = NoPlan]
            /\ tries' = [tries EXCEPT ![p] = 0]
            /\ UNCHANGED due
       ELSE /\ Finish(p)
            /\ UNCHANGED queue
    /\ UNCHANGED <<now, tables, timer, sent, requests, crashes>>

------------------------------------------------------------------------------
(* processTimeQueue.                                                       *)

(* Faulty variant of IsDue: what is about to expire is popped, too.          *)
DueSoon(t) == ExpiresAt[t] <= now + 1

IsDue(t) == ExpiresAt[t] <= now

TimerFires(p) ==
    /\ p \in TimerRuns
    /\ pc[p] = "idle"
    /\ timer # NoTime
    /\ timer <= now
    /\ timer' = NoTime
    /\ Goto(p, "pop")
    /\ UNCHANGED <<now, tables, queue, job, snap, readAt, missed, plan, tries,
                   due, sent, requests, crashes>>

(* popBeforeDate takes items off the root of the heap until the root is not  *)
(* due.  Which item is at the root is the heap's business: remove leaves the *)
(* array unordered, so the loop may stop with due items below the root.      *)
Pop(p) ==
    /\ pc[p] = "pop"
    /\ \E popped \in SUBSET {t \in queue : IsDue(t)} :
          /\ popped = queue \/ \E root \in queue \ popped : ~IsDue(root)
          /\ due' = [due EXCEPT ![p] = popped]
          /\ queue' = queue \ popped
    /\ Goto(p, "drain")
    /\ UNCHANGED <<now, tables, timer, job, snap, readAt, missed, plan, tries,
                   sent, requests, crashes>>

(* The loop of processExpiredTransfers.                                      *)
Drain(p) ==
    /\ pc[p] = "drain"
    /\ \E t \in due[p] :
          /\ due' = [due EXCEPT ![p] = @ \ {t}]
          /\ job' = [job EXCEPT ![p] =
                        [op |-> "expire", id |-> t, by |-> Admin, auth |-> {},
                         rejectedBy |-> {}, reason |-> "none", condition |-> "none"]]
    /\ Goto(p, "begin")
    /\ UNCHANGED <<now, tables, expiry, snap, readAt, missed, plan, tries, sent,
                   requests, crashes>>

(* Faulty variant of Rearm: the timer is cleared only.                       *)
ClearTimer(p) ==
    /\ pc[p] = "drain"
    /\ due[p] = {}
    /\ timer' = NoTime
    /\ Finish(p)
    /\ UNCHANGED <<now, tables, queue, sent, requests, crashes>>

(* The timer is cleared and set for the date at the root of the heap.        *)
Rearm(p) ==
    /\ pc[p] = "drain"
    /\ due[p] = {}
    /\ \/ queue = {} /\ timer' = NoTime
       \/ \E root \in queue : timer' = ExpiresAt[root]
    /\ Finish(p)
    /\ UNCHANGED <<now, tables, queue, sent, requests, crashes>>

------------------------------------------------------------------------------
(* The environment.                                                        *)

Tick ==
    /\ now < MaxTime
    /\ now' = now + 1
    /\ UNCHANGED <<tables, expiry, procs, sent, requests, crashes>>

(* The process is killed and started again: whatever was not committed is    *)
(* gone, and so are the queue and the timer, which _start does not refill.   *)
Crash ==
    /\ crashes < MaxCrashes
    /\ crashes' = crashes + 1
    /\ queue' = {}
    /\ timer' = NoTime
    /\ pc' = [p \in Procs |-> "idle"]
    /\ job' = [p \in Procs |-> NoJob]
    /\ snap' = [p \in Procs |-> NoRow]
    /\ readAt' = [p \in Procs |-> NoTime]
    /\ missed' = [p \in Procs |-> {}]
    /\ plan' = [p \in Procs |-> NoPlan]
    /\ tries' = [p \in Procs |-> 0]
    /\ due' = [p \in Procs |-> {}]
    /\ UNCHANGED <<now, tables, sent, requests>>

(* The bounds are used up and nothing is going on: not a deadlock.           *)
Quiescent ==
    /\ now = MaxTime
    /\ \A p \in Procs : pc[p] = "idle"
    /\ timer = NoTime \/ timer > now
    /\ UNCHANGED vars

Receive(c) ==
    \/ ReceivePut(c)
    \/ ReceiveRejection(c)
    \/ ReceiveFulfillment(c)

(* The steps a process takes by itself once it is started.                   *)
Run(p) ==
    \/ Begin(p)
    \/ Write(p)
    \/ Commit(p)
    \/ CommitConflict(p)
    \/ DatabaseError(p)
    \/ Notify(p)
    \/ Watch(p)
    \/ Pop(p)
    \/ Drain(p)
    \/ Rearm(p)

Next ==
    \/ \E c \in Clients : Receive(c)
    \/ \E p \in Procs : Run(p)
    \/ \E p \in TimerRuns : TimerFires(p)
    \/ Tick
    \/ Crash
    \/ Quiescent

Spec == Init /\ [][Next]_vars

(* The event loop runs every call chain that can go on, the database answers *)
(* every statement, the clock advances and a timer that is due fires.        *)
Fairness ==
    /\ \A p \in Procs : WF_vars(Run(p))
    /\ \A p \in TimerRuns : WF_vars(TimerFires(p))
    /\ WF_vars(Tick)

FairSpec == Spec /\ Fairness

------------------------------------------------------------------------------
(* Properties.                                                             *)

(* Every variable keeps its type; a process at work has a job.               *)
TypeOK ==
    /\ now \in Nat
    /\ row \in [Transfers -> Rows]
    /\ balance \in [Accounts -> Int]
    /\ entries \in [Transfers -> [Accounts -> Int]]
    /\ queue \subseteq Transfers
    /\ timer \in Int
    /\ pc \in [Procs -> PCs]
    /\ job \in [Procs -> Jobs \cup {NoJob}]
    /\ snap \in [Procs -> Rows]
    /\ readAt \in [Procs -> Int]
    /\ missed \in [Procs -> SUBSET (Transfers \cup Accounts)]
    /\ plan \in [Procs -> Plans]
    /\ tries \in [Procs -> Nat]
    /\ due \in [Procs -> SUBSET Transfers]
    /\ sent \in [Transfers -> SUBSET States]
    /\ requests \in Nat
    /\ crashes \in Nat
    /\ \A p \in Procs :
          pc[p] \in {"begin", "write", "commit", "notify", "watch"} => job[p] \in Jobs

(* The ledger the clients see is the abstract one: whatever transactions     *)
(* overlap, fail, are retried or are cut off by a restart, the committed     *)
(* tables change by one legal transition of one transfer at a time, with the *)
(* balances it calls for ("This ensures the transfer can be fulfilled only   *)
(* once", src/src/lib/db.js).                                                *)
Committed == INSTANCE Ledger WITH
    state <- [t \in Transfers |-> row[t].state],
    fulfillment <- [t \in Transfers |-> row[t].fulfillment]

ImplementsLedger == Committed!Spec

(* No balance is below the account's minimum, though several transactions    *)
(* hold funds of the same account at once (adjustBalance and the CHECK).     *)
NoOverdraft == Committed!NoOverdraft

(* A transaction that has written, and holds its locks, read the row of its  *)
(* transfer as it still is: nobody else committed a change in between.       *)
SnapshotCurrent ==
    \A p \in Procs : pc[p] = "commit" => row[job[p].id] = snap[p]

(* Two transactions that have written and not committed have no row in       *)
(* common.                                                                   *)
LocksExclusive ==
    \A p, q \in Procs : p # q => LockedBy(p) \cap LockedBy(q) = {}

(* L_ENTRIES is an exact audit trail: one entry per debit held, per credit   *)
(* paid and per debit refunded, so no transfer was ever held, paid or        *)
(* refunded twice or half (insertEntryByName in lib/holds.js).               *)
DebitEntries(t, n) == [a \in Accounts |-> IF a \in Debtors(t) THEN n ELSE 0]

EntriesMatchState ==
    \A t \in Transfers :
        \/ /\ row[t].state \in {"nonexistent", "proposed", "rejected"}
           /\ entries[t] = DebitEntries(t, 0)
        \/ row[t].state = "prepared" /\ entries[t] = DebitEntries(t, 1)
        \/ row[t].state = "rejected" /\ entries[t] = DebitEntries(t, 2)
        \/ /\ row[t].state = "executed"
           /\ entries[t] = [a \in Accounts |->
                               DebitEntries(t, 1)[a] + (IF a \in Creditors(t) THEN 1 ELSE 0)]

(* Deadlines decide.  A conditional transfer that was paid out was fulfilled  *)
(* no later than its expires_at, however long the transaction took after     *)
(* validateNotExpired and however often it was retried; a transfer that is   *)
(* rejected as expired has an expires_at that has passed, whatever           *)
(* rejection_reason its client sent with it.                                 *)
DeadlinesKept ==
    /\ \A t \in HasExecution :
          row[t].state = "executed" =>
              /\ row[t].executedAt # NoTime
              /\ NotExpired(t, row[t].executedAt)
    /\ \A t \in Transfers :
          row[t].state = "rejected" /\ row[t].reason = "expired" =>
              /\ ExpiresAt[t] # NoTime
              /\ ExpiresAt[t] <= now

(* Money is held or paid only of senders who agreed, and a mark appears in   *)
(* the tables only when its owner or an admin commits it                     *)
(* (validateAuthorizationsAndRejections against the row as it is then).      *)
SendersAgreed ==
    \A t \in Transfers : \A a \in Debtors(t) :
        row[t].state \in {"prepared", "executed"} => <<"debit", a>> \in row[t].auth

OwnMarksOnly ==
    [][\A t \in Transfers : \A mark \in row'[t].auth \ row[t].auth :
          \E p \in Clients : /\ pc[p] = "commit" /\ pc'[p] = "notify"
                             /\ job[p].id = t
                             /\ job[p].by \in {Admin, mark[2]}]_vars

(* Subscribers are never told both that a transfer was executed and that it  *)
(* was rejected (sendNotifications).                                         *)
OneOutcomeAnnounced ==
    \A t \in Transfers : ~({"executed", "rejected"} \subseteq sent[t])

(* Notifications may overtake each other, for they follow the commits after  *)
(* further awaits; but an execution that was announced is in the tables, and *)
(* no retry, late conflict, failure or restart takes it back                 *)
(* (sendNotifications at the end of setTransfer and fulfillTransfer).        *)
AnnouncedIsExecuted ==
    \A t \in Transfers : "executed" \in sent[t] => row[t].state = "executed"

(* A rejection that was announced is in the tables, too, or the deadline has  *)
(* come: the monitor announces before it commits, so that an announcement    *)
(* may prove wrong, but never of a transfer whose expires_at is still ahead  *)
(* (expireTransfer, sendNotifications).                                      *)
AnnouncedIsRejected ==
    \A t \in Transfers :
        "rejected" \in sent[t] =>
            row[t].state = "rejected" \/ (ExpiresAt[t] # NoTime /\ ExpiresAt[t] <= now)

(* However many runs of processTimeQueue overlap, a transfer is watched or   *)
(* expired, and expired by one of them: none pops what another one has       *)
(* popped, and no request watches again what is being expired                *)
(* (watch, popBeforeDate, processExpiredTransfers).                          *)
Expiring(p) == IF job[p].op = "expire" THEN {job[p].id} ELSE {}
InHand(p) == due[p] \cup Expiring(p)

HeldByOne ==
    /\ \A p \in Procs : InHand(p) \cap queue = {} /\ due[p] \cap Expiring(p) = {}
    /\ \A p, q \in Procs : p # q => InHand(p) \cap InHand(q) = {}

(* Whoever waits in the queue has a timer, or a run of processTimeQueue is   *)
(* under way that will set one.                                              *)
Draining(p) == pc[p] \in {"pop", "drain"} \/ job[p].op = "expire"

QueueHasTimer == queue # {} => timer # NoTime \/ \E p \in Procs : Draining(p)

(* Nothing else takes the timer away than an expiry that ends in an error:   *)
(* a conflict in the refund, retries given up, a failure of the database     *)
(* (processExpiredTransfers leaves its loop, processTimeQueue never comes to *)
(* set the timer).                                                           *)
ExpiryFails == \E p \in Procs : job[p].op = "expire" /\ pc'[p] = "idle"

OnlyFailuresStopTimer ==
    [][QueueHasTimer /\ ~ExpiryFails => QueueHasTimer']_vars

(* A request is answered: it waits for locks, retries and for the expiries   *)
(* of other transfers, but not forever.                                      *)
RequestsAnswered == \A c \in Clients : pc[c] # "idle" ~> pc[c] = "idle"

(* A transfer the monitor watches is finalized in the end.                   *)
WatchedIsFinalized ==
    \A t \in Transfers : t \in queue ~> IsFinal(row[t].state)

(* "the funds are held until a matching fulfillment is submitted or the      *)
(* expires_at time is reached" (src/src/controllers/transfers.js): a         *)
(* prepared transfer with an expiry is finalized in the end.                 *)
HeldUntilExpiry ==
    \A t \in Transfers :
        row[t].state = "prepared" /\ ExpiresAt[t] # NoTime ~> IsFinal(row[t].state)
=============================================================================
