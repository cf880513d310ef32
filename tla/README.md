# Verification of five-bells-ledger

TLA+ models of the ledger server in `src/`, TLC configurations that check them
on small instances, and TLAPS proofs for all values of the constants.
Paths below are relative to the repository checkout, so `src/src/lib/holds.js`
is the ledger's `src/lib/holds.js`.

## 1. Inventory

The ledger is one node process in front of a PostgreSQL (or SQLite) database.
Clients PUT transfers, rejections and fulfilments over HTTP and listen on a
websocket; a timer expires what nobody finished.

| Component | State | Operations | Talks to |
|---|---|---|---|
| transfers (`models/transfers.js`, `controllers/transfers.js`, `lib/transferUtils.js`, `lib/updateState.js`) | none of its own: rows of `L_TRANSFERS`, `L_TRANSFER_ADJUSTMENTS`, `L_FULFILLMENTS` | `setTransfer`, `rejectTransfer`, `fulfillTransfer`, `getTransferStateReceipt`, the other GETs | transactions, holds, expiry monitor, broadcaster |
| holds (`lib/holds.js`, `models/db/entries.js`) | `L_ACCOUNTS.BALANCE`, `L_ENTRIES` | `holdFunds`, `disburseFunds`, `returnHeldFunds` | database |
| serializable transactions (`lib/db.js`) | the retry counter of a call | `withSerializableTransaction`, retry on 40001 | database |
| expiry monitor (`lib/transferExpiryMonitor.js`) | the queue of watched ids | `validateNotExpired`, `watch`, `unwatch`, `processExpiredTransfers`, `expireTransfer` | time queue, transactions, holds, broadcaster |
| time queue (`lib/timeQueue.js`) | a binary heap in an array | `insert`, `popBeforeDate`, `getEarliestDate`, `includes`, `remove` | wakes the timer worker (event `insert`) |
| timer worker (`lib/timerWorker.js`) | one timeout | `start`, `processTimeQueue`, `stop` | expiry monitor, time queue |
| notification broadcaster (`lib/notificationBroadcasterWebsocket.js`) | account -> event type -> set of listeners | `sendNotifications`, `sendMessage`, `emitNotification`, add/remove a listener | websocket handlers |
| RPC handler (`lib/rpcHandler.js`, `lib/koa-websocket.js`, `controllers/accounts.js:subscribeTransfers`) | the subscriptions and the ping interval of a connection | `subscribe_account`, `subscribe_all_accounts`, close | broadcaster |
| messages (`models/messages.js`) | none | `sendMessage` | broadcaster |
| accounts (`models/accounts.js`, `models/db/accounts.js`, `models/db/utils.js`, `lib/seed-db.js`) | `L_ACCOUNTS` | `setAccount`, `setBalance`, `setupAdminAccount`, `verifyConnectors` | database |
| schema (`sql/pg`) | constraints | CHECK on balances, unique keys | |
| application (`lib/app.js`) | wiring | `_start` | all of them |
| authentication, metadata, health, configuration, converters, errors | none that matters here | | |

What is hard in this code:

* request handlers interleave at every `await`, and their transactions overlap
  in the database; correctness rests on SERIALIZABLE, on the retry of 40001 and
  on what is (and is not) checked again by a retry;
* the statements of a transaction lock one row each, in an order that differs
  from handler to handler, so that transactions may wait in a circle; errors of
  a statement are renamed, retried or lost depending on where they occur;
* amounts pass through JavaScript numbers in some of the places they are used;
* receipts are signed of a state that may change the next moment;
* the queue of watched transfers is in memory: it is changed before the
  transaction it belongs to commits, not restored by a rollback, and lost by a
  restart;
* a request that starts to watch a transfer runs the expiry of all due ones
  before it is answered, beside the timer that does the same;
* `remove` breaks the order of the heap;
* the deadline is compared in four places, with different strictness;
* one PUT may propose, prepare, execute and reject;
* accounts are changed outside the serializable transactions that adjust their
  balances, and the administrator's row is read and written back at each start;
* listeners are shared by all connections and selected after an `await`.

`PROJECT.json` lists each of these as a hazard at its line, with the properties
aimed at it.

What makes each component correct:

* transfers: legal transitions only, one at a time, final states final, money
  moves with the state (`ImplementsLedger`, `MoneyConserved`,
  `EntriesMatchState`, `SendersAgreed`, `OwnMarksOnly`), fulfilled before the
  deadline and expired after it (`DeadlinesKept`), "executed" announced only
  when it is (`AnnouncedIsExecuted`), "rejected" only when it is or the deadline
  has come (`AnnouncedIsRejected`), receipts of final states for good
  (`FinalReceiptsHold`);
* holds: no balance below its minimum, with each UPDATE checked by itself
  (`NoOverdraft`), no deadlock among fulfilments and expiries
  (`ReleasesNeverDeadlock`), every call ends (`EveryCallEnds`);
* transactions: what was validated still holds at the commit
  (`SnapshotCurrent`), and every request is answered (`RequestsAnswered`);
* monitor, queue and timer: nothing due is overlooked (`AllDuePopped`,
  `TimerInTime`, `WatchedIsPopped`, `WatchedIsFinalized`), who waits has a timer
  (`QueueHasTimer`) until an expiry fails (`OnlyFailuresStopTimer`), no transfer
  is in two hands (`HeldByOne`), no busy loop (`NoBusyLoop`);
* accounts: no update is lost, an account is created once, nothing is taken from
  a disabled account (`ImplementsAccountBook`, `CreatedOnce`,
  `NothingFromDisabled`);
* broadcaster and RPC handler: who subscribed is notified, once, and nobody
  else (`ImplementsSubscriptions`, `ListenersMatch`), and nothing stays behind
  (`NothingEmpty`, `ClosedIsForgotten`).

## 2. Modules

```
TransferRules          what one request may make of a transfer (no state)
 |- Ledger             what the ledger promises          <--- implemented by
 |   |- Receipts       signed receipts of its states                     |
 |- LedgerServer       handlers, transactions, queue, timer, crashes  ---|
 |- Holds              transactions statement by statement  -------------'
Amounts                what a JavaScript number makes of an amount (no state)
TimeQueue              the heap (no state)
 |- TimerWorker        the heap driven by overlapping runs of the timer
AccountBook            what the accounts promise     <--- implemented by
AccountUpdates         PUT /accounts, payments, seeding ----------------'
Subscriptions          what websocket clients are promised  <--- implemented by
Broadcaster            handlers, listener table, messages  -------------'
MC*                    instances for TLC
*Proofs                theorems
```

**TransferRules** is the pure part of `models/transfers.js`: which request is
accepted (`Mergeable`, `Permitted`), the three stages of a PUT (`Prepares`,
`Executes`, `Rejects`), what the stages write (`PutRow`) and which balance
statements they run (`PutMoves`), the same for fulfilments and expiries. The
content clients may not change (debits, credits, conditions, `expires_at`) is a
function of the transfer id. The check that a fulfilment matches a condition is
abstract: a request names the condition it matches.

**Ledger** is the abstract specification: the state of each transfer, the
balances and the recorded fulfilments, changed together by one transition at a
time (propose, prepare, execute, cancel, reject).

**Receipts** adds to Ledger what somebody may have in hand: `shown[t]` is the
set of states of `t` for which the ledger has revealed a signed message. A
receipt reads the committed row and changes nothing; one of type `sha256` may
also give the digest, and only the digest, of the message of another state.

**LedgerServer** is the process. Each call chain is a process with a `pc`:

| `pc` | code |
|---|---|
| `begin` | the start of the callback of `withSerializableTransaction`: snapshot, `getTransfer`, all checks that only look at it |
| `write` | everything from there to the last statement, hold/disburse/refund included |
| `commit` | the statements succeeded and their row locks are held |
| `notify`, `watch` | `sendNotifications` and `watch` after the commit |
| `pop`, `drain` | `processTimeQueue`, run by the request that inserted or by a timer |

`row[t]` is what the tables hold of a transfer, `snap[p]` what a transaction
read, `plan[p]` what it wrote, `missed[p]` what others committed since its
snapshot. PostgreSQL is modelled by its effect: a write waits for a row that
another transaction has written and not committed; a write of a row committed
after the snapshot fails with 40001; a COMMIT may fail with 40001 (`Faults`).
Two first PUTs of one id conflict in the same way; the real database may
instead report the unique key, which is an error that is not retried and is
covered by `DatabaseError`. So is a deadlock (40P01): the statements of one
`write` are one step here, and Holds takes them apart. The refund
of an expiry is not awaited, so its 40001 reaches nobody and the next statement
fails with 25P02, which is not retried (`WriteExpireConflict`). A crash forgets
everything but the tables.

**Holds** is the same transactions statement by statement, without queue,
clock and clients: `todo[p]` and `done[p]` are the statements a call has yet to
execute and has executed, `Stage` and `Before` their order in the code, `Locks`
the rows those done have locked. A PUT writes the transfer and then the
accounts, a fulfilment inserts itself, then adjusts the accounts and then
updates the transfer, an expiry adjusts and then updates. The CHECK is
evaluated at each UPDATE; a row committed since the snapshot is 40001, a circle
of waiting transactions 40P01 for any one of them. What the handlers make of
each error is in `Serialization` and `ErrorOf`: only 40001 is retried,
`adjustBalance` calls everything else want of funds, and an expiry hears of
nothing from the adjustments it does not await. `Amount` is the amount in hand
at each statement: the hold subtracts a number, the disbursal adds the string of
the client in the PUT that creates the transfer and the number read from the
tables later. Holds implements Ledger too, with amounts counted as the numbers
the hold makes of them; that is why LedgerServer may take the statements of a
transaction in one step.

**Amounts** computes that number: the nearest double and the shortest decimal
that reads as it, for any bound `Exact` up to which whole numbers are doubles
(external: the language's `Number` and `toString`).

**TimeQueue, TimerWorker** are the heap and its timer without the transactions:
an array with `priorityqueuejs`'s enq and deq (external), the removal that
leaves the array unordered (an item is in the queue once, by `HeldOnce`, so that
there is one gap to close), the timeout limited by `MAX_32INT`, runs that
overlap and expiries that fail. LedgerServer uses a set with an unknown root
instead of the heap; `PopsAsAssumed` is what its `Pop` assumes and is checked
here, for heaps that removals have disordered too.

**AccountBook, AccountUpdates.** AccountBook says that a PUT of an account, a
payment and the seeding of the administrator each happen at once on what is in
the table. AccountUpdates has the SELECT and the UPDATE or INSERT of an upsert
under READ COMMITTED, beside SERIALIZABLE transactions of which it keeps the
snapshot, the check for disabled accounts, the conflict and the retry; which
holds, disbursals and returns a transfer makes is LedgerServer's. The upsert's
statement and COMMIT are one step, since the lock of its one row makes every
other writer wait. The server seeds, then listens; a restart begins again. What
is read of an account or sent in a PUT has its balance and minimum converted to
JavaScript numbers (`Converted`, with the constants `ToScale` and `ToNumber` for
`Number(Number(...).toFixed(scale))` and `Number(...)`); a seeding writes back
what it made of the administrator's row, so that a start may change a balance
beyond a double. In the instance numbers are exact up to 4, by Amounts.

**Subscriptions, Broadcaster.** Subscriptions says that a notification is given
once to each connection whose own list of subscriptions matches it when it is
emitted. Broadcaster has the shared table (`listeners[account][type]`), filled
and pruned like `addNotificationListener` and `removeNotificationListener` do,
looked up by enumerating event types; websockets that authenticate
asynchronously and close in two steps; notifications of final transfers that
wait for the fulfilment to be read. A name list with duplicates is a set here:
adding or removing a listener twice changes nothing. Requests refused with an
error change nothing and are no steps.

Every definition that models code is mapped to its lines in `PROJECT.json`.
Definitions commented as "faulty variant" are plausible mistakes; the checks
substitute each for its counterpart to see that the property named in
`PROJECT.json` notices.

### Simplifications

* Only PostgreSQL is modelled; SQLite serializes the writers of one process.
* Debited accounts of one transfer are distinct, and so are the credited ones
  (an account may be on both sides).
* PUTs with another content under a known id are refused whatever the state and
  are not submitted; nor are rejection messages that differ.
* The reads of `rejectTransfer` before its PUT are one step. They are separate
  statements without a transaction; a torn read can pair new marks with an old
  `rejection_reason`, and such a PUT is refused by `updateTransferObject`.
* The fulfilment of a cancelled transfer cannot be replayed: for a rejected
  transfer `getFulfillment` throws.
* In LedgerServer all accounts exist, are enabled and are changed by transfers
  only; AccountUpdates has the rest.
* In AccountUpdates `default_admin` is configured, and requests that are refused
  before their transaction are no steps.
* Holds has no clock (an expiry may start at any time) and leaves `L_ENTRIES` to
  LedgerServer. The upserts of a transfer's adjustments lock rows that belong to
  it alone and count as one statement with the transfer's own.
* Accounts are submitted in lower case, so that the order in which
  `convertToInternalTransfer` sorts them is the one in which the database
  returns them.
* Amounts are whole numbers of the ledger's smallest unit; where an amount
  passes through a double (Holds) `Exact` is 2^8 with 3 digits for 2^53 with 19.
* Of the dates of a transfer only `executed_at` is kept, from the moment the
  code sets it; those a client sends in the `timeline` of a first PUT stand in
  the tables until then, and are read by nothing modelled here.
* Wire formats are left out.

## 3. Runs

| Run | What it checks |
|---|---|
| `ledger` | Ledger with two senders, two receivers, a self-transfer, amounts that do not add up and a negative debit: money is conserved, balances covered, conditional transfers paid exactly when fulfilled, final states final; receipts of either type asked for at any time |
| `server` | three requests of two clients, the expiry of an escrow and a competing payment, retries given up after one: the server implements Ledger; the audit trail `L_ENTRIES` is exact; consents and marks are respected |
| `server_faults` | two transfers that expire, one of them proposed with the reason of an expiry, commits that fail, statements that fail and a restart at any point: still an implementation of Ledger; deadlines are kept, both kinds of announcements are true as far as they can be, a transfer is watched or expired by one run, only a failed expiry takes the timer away; every request is answered: waiting for locks, retries and the expiries of others ends |
| `server_live` | without restarts, concurrent clients and failures, a watched transfer is finalized and the queue is never left without a timer |
| `holds` | seven calls on three transfers, statement by statement: two escrows of which one can be afforded, one of them fulfilled, cancelled, declined and expired at once, a rejection that comes after its statements, long amounts: Holds implements Ledger, no overdraft, no circle of releases, every call ends |
| `timer` | four items, two runs, removals, timeouts of at most 2, expiries that may fail: until the first removal due items are popped and the timer is never late unless a run failed; with removals nothing is held twice, the timer never spins, pops are what LedgerServer assumes, and what is inserted leaves the queue in the end unless a run fails |
| `accounts` | three requests that create, disable, limit, set and use accounts, with balances beyond a double, and a restart: AccountUpdates implements AccountBook, no account is created twice, nothing is taken from a disabled account |
| `broadcaster` | two connections, an admin and another user, a star, a prefix and a whole event: Broadcaster implements Subscriptions, table and lists agree, nothing is left behind |

The other runs show where the code and the documentation disagree; each checks
one property and TLC finds it violated:

| Run | Finding |
|---|---|
| `restart` | the queue is not filled again after a restart, so escrows stay held for good |
| `one_outcome` | the expiry is announced before its commit; both outcomes can be announced |
| `deadlock` | of two payments in opposite directions one is refused for want of funds, whatever the funds |
| `precision` | an amount of more digits than a double carries is taken from the sender rounded and given to the receiver exact |

More were met on the way and have no run of their own:

* A transfer whose `expires_at` passes between its validation and `watch` is
  never expired, since `watch` refuses past dates
  (`lib/transferExpiryMonitor.js:68`): LedgerServer with one client, one escrow
  and `FairSpec` violates `HeldUntilExpiry`, which is
  `controllers/transfers.js:126-129`, "the funds are held until a matching
  fulfillment is submitted or the `expires_at` time is reached".
* Removing from the heap leaves due items behind a root that is not due
  (`lib/timeQueue.js:57`), while `lib/timeQueue.js:35` says "Return all items
  that are due": `timer` without the `removed` of `AllDuePopped` violates it,
  after inserting dates 1, 5 and 2 for instance.
* `docs/apidoc_intro.ejs.md:127` gives 10 as the default precision;
  `lib/config.js:20-21` uses 19 digits with scale 9.
* A stored amount beyond the precision of a double is read back as another one,
  so that the same PUT sent again is refused as a change
  (`models/db/adjustments.js`, `AmountsKept` of Holds).
* An expiry chosen as the victim of a deadlock is not retried, and its transfer
  is popped from the queue already (`Deadlock` of Holds, `Pop` of
  LedgerServer). The orders that meet are the PUT's, transfer first, and the
  expiry's, transfer last: a late PUT of a rejection can be in the circle.
* `returnHeldFunds` of an expiry is not awaited, so that its 40001 reaches nobody
  and the 25P02 of the next statement is not retried
  (`lib/transferExpiryMonitor.js:49`): `server_live` with both transfers,
  `AmpleBalance`, the requests `AlicePuts` and retries given up after one
  violates `WatchedIsFinalized`: the expired transfer is popped and stays
  prepared.
* `unwatch` inside a transaction that is then retried and refused leaves a
  prepared transfer nobody watches (`models/transfers.js:422`): `server_live`
  with two clients and the requests `AlicePuts`, and retries given up after one,
  violates `WatchedIsFinalized` without a second transfer, a fault or a restart.
* `sendNotifications` runs after every successful request, also when it changed
  nothing (`models/transfers.js:543`), while `docs/apidoc_intro.ejs.md:59`
  promises a notification "at most once for each state change".
* The first PUT of a transfer may carry a `rejection_reason`, which is stored
  (`models/transfers.js:473-521`, `models/db/transfers.js:80-84`): a proposed,
  prepared or executed transfer may say that it expired, until it is rejected
  for another reason. `DeadlinesKept` is therefore about rejected transfers; of
  all transfers it is false.
* A start of the server rewrites the administrator's balance with what a double
  makes of it (`lib/seed-db.js:15-23`, `models/db/accounts.js:18`), though only
  "the password" is to be updated (`lib/seed-db.js:19`). With the credential as
  the only change in `Seed` of AccountBook, `accounts` violates
  `ImplementsAccountBook`.
* `emitNotification` adds the listeners of all accounts to those of the
  recipient, and `sendMessage` takes any listener for a delivery, so a message
  to an account without a listener is accepted while an admin listens to all
  accounts; `test/postMessageSpec.js:153` says "returns 422 if the message
  recipient isn't listening". `Wants` of Subscriptions says what the code does.

Bounds, and why they suffice:

* the clock stops at 2 with the expiry at 1: before, at and after the deadline.
  In `server_faults` the payment expires, too, at 2, so that a failed expiry can
  leave another transfer behind;
* three requests make the shortest conflicts of three parties (proposal or
  repeated PUT, fulfilment, rejection) plus the expiry, which is not a request;
  with failures and a restart, two, since every failure adds an actor;
* `RetryOnce` reaches both the retry and giving up; `RetryEnough` exceeds the
  number of conflicting commits, as `DB_RETRIES_*` (5) would;
* the escrow takes the whole balance, so that it competes with the payment for
  the same row (`AmpleBalance` would let both through);
* in `holds` the calls are one of each kind that can meet on the same rows:
  two PUTs that compete for one balance, the four ways an escrow can end, and
  an undone PUT on the accounts they use; a circle of waiting transactions
  needs two. PUTs are not retried there (LedgerServer's retries are), the
  others once, which reaches both the retry and giving up. 2^8 for
  `Exact` and amounts of three digits are in proportion to 2^53 and 19 digits;
  `MCHolds` assumes, and TLC evaluates, that all amounts of up to two digits
  survive the conversion and the two used do not;
* in `accounts` three accounts: one that pays, one that is created, and the administrator,
  whose row is both paid to and seeded; a conflict needs two requests, the third
  changes what the retry finds; a PUT of 3 and two payments make the
  administrator's balance 5, which a start makes 4;
* four items give the heap three levels, the least at which rising and sinking
  differ from a sorted list and at which a removal can disorder it; timeouts of
  2 are shorter than the first wait of 3 and more;
* two connections share the sets of the table, one subscription more than one
  (`MaxSubscriptions` 2) overlaps; equal notifications that wait at the same
  time count once.

The state counters `requests`, `crashes`, `now` are bounds only; `Quiescent`
lets a server that has used them up stutter, so every run of it has deadlock
checking on. `ledger` may stop when all its transfers are final, `holds`,
`deadlock` and `precision` when all their calls have ended.

Fairness. `FairSpec` of LedgerServer is weak fairness of each call chain (the
event loop runs every resolved promise, the database answers), of the timer and
of the clock. No fairness of clients, faults or restarts: nothing makes them
happen. Weak fairness is enough since nothing but a lock held by a transaction
that itself goes on keeps a chain waiting. `FairSpec` of TimerWorker is the
same for its runs. `FairSpec` of Holds says only that while some call that has
come in can go on, one of them does. The liveness of expiry holds under the conditions of
`server_live` only: without any one of its conditions (no restart, no second
client, no second transfer) it is lost, as `restart` and the disagreements above
show.

## 4. Proofs

All proofs hold for any number of accounts, transfers, clients, timers,
retries, requests, faults, restarts, connections, users, event types, queued
items and runs. They assume the named assumptions of the modules:

| Assumption | Says | Justified by |
|---|---|---|
| `ContentAssumption` | amounts are integers, names are disjoint | the columns, the schemas of the requests |
| `FinitenessAssumption` | accounts and transfers are finitely many | they are rows of tables; needed for sums only |
| `BalanceAssumption` | initial balances are covered | the CHECK of `sql/pg` |
| `ServerAssumption`, `BroadcasterAssumption`, `WorkerAssumption`, `DateAssumption` | types of the constants | |
| `HoldsAssumption` | names are ordered, a number made of an amount is an amount | |
| `UpdatesAssumption` | PUTs set fields to values of their columns, moves name accounts, initial rows are rows | the schemas, `sql/pg` |

TLC evaluates each of them on every instance.

**The ledger** (`LedgerProofs`): type correctness, `NoOverdraft`,
`PaidIffFulfilled`, `FinalForever` and `MoneyConserved`. That no balance falls
below its minimum and that no money is lost both need that what is not
nonexistent has valid amounts (`KnownIsValid`): only then do credits equal
debits. The sums are folds over finite sets. `SumEmpty` and `SumStep` say that
they obey the recursion they are meant to, from which `SumPlus`, `SumUpdate` and
`PaySum` of `TransferRulesProofs` follow. A step that reads a receipt changes
nothing of the ledger (`ReceiptsAreReads`), so that Receipts keeps
`PaidIffFulfilled` and `FinalForever`, from which `FinalReceiptsHold` follows
(`ReceiptsCorrect`).

**The server implements the ledger** (`LedgerServerProofs`): type correctness,
a process at work having a well-formed job; `Spec => ImplementsLedger`,
`SnapshotCurrent` and `NoOverdraft`. None of these is inductive. The invariant
`IInv` adds: transactions that have written hold disjoint locks; a transaction
between its read and its write has read its transfer as it is, or has the row
in `missed`, so that the write will conflict; after the write it has validated
what it read, and `plan` is what TransferRules makes of it; a committed row is
prepared only if it has an execution condition, and only valid amounts are
stored. A commit is then one step of Ledger (`PutImplements`,
`FulfillImplements`, `ExpireImplements`), every other step a stutter
(`OnlyCommitsChange`).

**Outcomes** (`LedgerOutcomeProofs`): `DeadlinesKept`, `SendersAgreed`,
`EntriesMatchState`, `AnnouncedIsExecuted`, `AnnouncedIsRejected`,
`OwnMarksOnly`. The rows alone do not carry them. `OutcomeInv` follows each call chain (`ChainOK`): a PUT
that goes on was accepted for the row it read, marks included; a fulfilment was
checked against the deadline with the time it is going to store; what a run has
popped and what an expiry works on is past its date, and only transfers with a
date are in the queue (`WatchedExpire`); what a request is about to announce as
executed or rejected is so in the tables. A retry checks again what its first attempt checked
(`RetryOutcome`, `BeginOutcome`). With `SnapshotCurrent` the commit (`CommitTransition`) leads
from the state that was validated to the one that was planned, and the entries
follow (`EntriesFollow`).

Since the server implements the ledger, the theorems about the ledger hold of
the committed tables. `Promised == INSTANCE LedgerProofs` instantiates them with
the refinement mapping; `MoneyIsConserved` and `OutcomesAreFinal` are the
results.

`OneOutcomeAnnounced` is false of the server (run `one_outcome`).
`OneOutcomeWithoutFailures` says what it takes: with `Faults = {}` and
`MaxCrashes = 0` it holds, for any number of conflicts, retries and overlapping
calls. Its invariant (`RejectionPending`) is that a rejection announced is in the
tables or about to be committed by an expiry that has written it; only a failing
COMMIT, an error or a restart comes between.

**Hands and timer** (`LedgerOutcomeProofs`): `HeldByOne`, from `HandInv`, which
adds that what a run has in hand has expired, so that `watch` refuses to watch
it again, and that an idle run has nothing. From it follows `TimerStep`: every
step but a failed expiry that leaves others waiting keeps `QueueHasTimer`.
`QueueHasTimer` by itself is not true of all instances. An expiry that ends in an
error (`WriteExpireConflict`, 25P02) ends the run of `processTimeQueue` that
awaited it before it sets the next timer (`lib/timerWorker.js`), and the others
stay in the queue until the next insert. TLC finds this in `server_live` with two
clients, the requests `AlicePuts`, `AmpleBalance`, retries given up after one,
and a `payment` that has a condition, too, and expires later. The theorems say
that nothing else does it:

* `OnlyFailuresStop`: a step that takes the timer away is a failed expiry
  (`OnlyFailuresStopTimer`, without any hypothesis);
* `TimerWithoutFailures`: in every behaviour without one, `[]QueueHasTimer`;
* `TimerOfTheOnlyOne`: whatever fails, `[]QueueHasTimer` if at most one transfer
  has an `expires_at` (`OneExpires`), as in `server_live`: then a failed expiry
  leaves nobody behind.

**Holds** (`HoldsProofs`): type correctness, `NoOverdraft` and
`ReleasesNeverDeadlock`. The invariant: no two open transactions have locked
the same row (`LocksExclusive`); no statement is executed twice
(`ExecutedOnce`) nor before one that precedes it (`InOrder`); and every open
transaction by itself leaves all accounts covered (`EachCovers`), so that the
commits may come in any order: at most one of them has touched a given account.
For the deadlocks: in a circle without a PUT nobody waits for a fulfilment,
which is locked first, nor for a transfer, which is locked last, when nothing is
left to wait for. So all wait for accounts, and whoever has locked one waits for
one that comes later in the order of names (`ReleaseOrder`): from waiter to
waiter the awaited names would descend for ever, which the well-foundedness of
the natural numbers excludes.

`Spec => ImplementsLedger` of Holds needs `RInv` besides: the row an open
transaction read is the committed one, or is among those it has missed and has
not written (`SnapshotOK`); what it checked of that row holds (`ChecksHold`);
and the accounts it has debited were covered when it did (`HoldsCovered`). A
commit adds exactly what the rules' change says (`AddedIsChange`). The theorem
has a hypothesis, `RoundsSafely(t)` for all transfers: if the ledger accepts the
amounts at all, they survive the conversion to a number, or the transfer takes
effect in more than one transaction and balances after rounding too. Without it the theorem is false,
which the run `precision` shows. `MCHolds` makes TLC evaluate that the instances
of `holds` and `deadlock` satisfy the hypothesis and that of `precision` does
not, so it excludes what it should and nothing of what is run. Under the same
hypothesis `MoneyIsConserved` and `OutcomesAreFinal` carry the ledger's theorems
over.

`SafeIntegersAreEnough` replaces the hypothesis by one about sizes. If
`AsNumber` is what Amounts computes, for any bound `exact` below which whole
numbers are doubles, and the amounts of every acceptable transfer are smaller
than `exact - 1` (below `Number.MAX_SAFE_INTEGER` of the smallest unit), then
each is its own double and no neighbour reads as the same one
(`WholeNumbersAreDoubles`, `SafeIntegersSurvive`): the statements implement
Ledger and conserve the money.

`FundsWereShort` is false of Holds (run `deadlock`). `ShortOnlyInDeadlocks` says
that the deadlock is the only reason: in a behaviour in which no call is chosen
as a victim, "insufficient funds" is reported only when a sender's committed
balance does not cover its debit. It assumes of the rounding only that a number
made of a positive amount is not negative. A hold comes before any other
adjustment of its account (`NothingBeforeHold`), and a disbursal or return never
fails the CHECK (`OnlyHoldsFail`).

**Timer and heap** (`TimerWorkerProofs`): `TypeOK`, `HeldOnce`, `TimerInTime`,
`AllDuePopped`, `NoBusyLoop`, `PopsAsAssumed`. The operations of the heap are
recursive functions, of which a prover does not know that the recursion has a
solution. `LoopsExist` proves it for every loop that has a measure in the
natural numbers, and `RiseUnfolds`, `SinkUnfolds`, `PopUnfolds` are its
instances. Then, for arrays of any length: rising and sinking only reorder
(`RiseReorders`, `SinkReorders`); an array that is a heap except that one item
may be too late for its place is made a heap by rising, one whose item may be
too early by sinking (`RiseMakesHeap`, `SinkMakesHeap`); the root of a heap is
its earliest item (`RootIsEarliest`); a pop takes due items only, loses none and
stops at one that is not due, be the array in order or not (`PopsAll`). The
invariant `IInv` adds to the properties that what runs have in hand is due
(`BatchesAreDue`) and that the array is a heap until something is removed
(`HeapUnlessRemoved`).

**Broadcaster** (`BroadcasterProofs`): `ListenersMatch` by an invariant that
adds that the table holds known names, types and connections only (lemmas
`ListeningAdded` and `ListeningRemoved` say what filling and pruning do to each
set), and `Spec => ImplementsSubscriptions`: by `TypesMatch`, for event types of
any length, the enumeration in `emitNotification` finds exactly the types that
match. `TypeOK`, `NothingEmpty` and `ClosedIsForgotten` follow from `TidyInv`,
which adds that no account and no type is left empty (`AddedPruned`,
`RemovedPruned`) and that a closed connection has an empty list.

**Accounts** (`AccountUpdatesProofs`): `TypeOK`, `CreatedOnce`,
`NothingFromDisabled` and `Spec => ImplementsAccountBook`, all under the
hypothesis `NumbersAreAmounts`: whatever `ToScale` and `ToNumber` make of a whole
amount is one, as `toString` of a double and the columns give (TLC cannot
evaluate it, being about all integers). The invariant: what the seeding has read
is what it makes of the row in the table (`StartOK`); rows are within their minimum (`RowsOK`); an account that exists stays, so that the
creations counted are bounded by whether it exists (`CreatedOK`, `KeptOK`); what
an upsert has found stays there (`PutOK`); the accounts
that a transfer has validated and not missed are still enabled when it writes
them, and from then on its locks, which no other transaction has, keep its rows
as they are (`MoveOK`, `LocksOK`). A commit is then a payment of
AccountBook, an UPDATE or INSERT a PUT, a seeding a seeding.

Induction. The library's induction theorems take an operator as a parameter,
which none of the provers can instantiate. `SubsetInduction`
(`TransferRulesProofs`) and `StrongInduction` (`TimerWorkerProofs`) state
induction about a set instead, and are proved from the least element that every
nonempty set of naturals, or of finite subsets, has.

Proved only: `TypeOK` of Ledger and of Broadcaster, and `NoOverdraft` of
LedgerServer, which follows from `ImplementsLedger`, so that no run repeats it.

Checked by TLC only:

* liveness (`RequestsAnswered`, `WatchedIsFinalized`, `EveryCallEnds`,
  `WatchedIsPopped`): fairness and ENABLED are beyond the prover;
* the runs that show a disagreement;
* what Amounts computes at or above `Exact`, for the amounts of the instance:
  the provers know nothing of powers with a variable exponent nor of division
  by a variable. There the theorems have `RoundsSafely` as their hypothesis,
  and those about accounts `NumbersAreAmounts`.

## 5. Plan

The project keeps to a dozen runs; a run of the next module takes the place of
the least telling disagreement.

Done, in this order, the most important first: TransferRules and Ledger;
LedgerServer with conflicts, retries, expiry, crashes; its refinement, checked
and proved; TimeQueue and TimerWorker; Subscriptions and Broadcaster, checked
and proved; AccountBook and AccountUpdates; Holds with Amounts; Receipts; then
the proofs of all safety properties, and of the conditions under which
`QueueHasTimer`, `OneOutcomeAnnounced`, `FundsWereShort` and `MoneyConserved` of
Holds, which are not true of all instances, hold.

What could follow: a bound for the error of rounding at or above `Exact`, which
needs lemmas about powers of two that the library does not have; a shorter
`IInv` of LedgerServer, parts of which `OutcomeInv` states again; the number of
announcements of one state, of which LedgerServer keeps only whether there was
one.

Not modelled, and why: authentication (decides only who `by` is), metadata,
health and documentation (read-only), the GETs other than the receipt (they read
a row and format it), configuration, logging, errors and converters (wiring and
format), database creation (scripts that run before the server), `stop()` of the
timer worker and the inserting of fixtures (used by tests only).
