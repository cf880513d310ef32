---------------------------- MODULE AccountUpdates ----------------------------
(***************************************************************************)
(* PUT /accounts (src/src/models/accounts.js, src/src/models/db) beside    *)
(* the transactions that adjust balances (src/src/lib/holds.js), and the   *)
(* seeding of the administrator at every start (src/src/lib/seed-db.js).   *)
(*                                                                         *)
(* An upsert is a SELECT followed by an UPDATE or an INSERT, under READ    *)
(* COMMITTED: each statement sees what is committed by then, and the       *)
(* UPDATE sets columns to the values of the request.  A transfer runs in a *)
(* SERIALIZABLE transaction, of which LedgerServer has the details: here   *)
(* it reads IS_DISABLED from its snapshot, adds to balances, and starts    *)
(* again when a row it changes was changed since the snapshot.             *)
(***************************************************************************)
EXTENDS Integers

CONSTANTS
    Names, Root, Credentials, NoCredential, Configured, Unlimited, NoAccount,
    ToScale(_), ToNumber(_), InitialBook, Puts, Moves,    \* as in AccountBook
    Procs,           \* requests in progress
    NoJob,           \* the job of a process that has none
    MaxRetries,      \* DB_RETRIES_CREATE
    MaxRequests,     \* bound: so many requests are sent
    MaxRestarts      \* bound: so many times the server is restarted

VARIABLES
    table,      \* table[n]: the committed row of L_ACCOUNTS, or NoAccount
    phase,      \* where _start is: "read", "write" or "listening"
    seen,       \* the row setupAdminAccount has read
    pc,         \* pc[p]: the next step of request p
    job,        \* job[p]: what it asks for
    existing,   \* existing[p]: whether its SELECT found a row
    missed,     \* missed[p]: the rows others changed since its snapshot
    tries,      \* tries[p]: how often it was retried
    created,    \* created[n]: how many requests were told they created n
    requests, restarts

start == <<phase, seen, restarts>>
procs == <<pc, job, existing, missed, tries>>
vars == <<table, start, procs, created, requests>>

Book == INSTANCE AccountBook WITH book <- table

(* The CHECK holds for the accounts there are at first.  A PUT names the     *)
(* fields it sets, to values of their columns.  A move names the accounts it *)
(* adjusts and whether its request is the first for its transfer.            *)
ASSUME UpdatesAssumption ==
    /\ Root \in Names
    /\ {NoCredential, Configured} \subseteq Credentials
    /\ NoAccount \notin Book!Accounts
    /\ InitialBook \in [Names -> Book!Accounts \cup {NoAccount}]
    /\ \A n \in Names :
          InitialBook[n] # NoAccount => Book!WithinMinimum(InitialBook[n])
    /\ \A put \in Puts :
          /\ {put.by, put.name} \subseteq Names
          /\ DOMAIN put.fields \subseteq Book!FieldNames
          /\ Book!Rewritten(Book!NewAccount, put.fields) \in Book!Accounts
    /\ \A move \in Moves :
          /\ DOMAIN move.changes \subseteq Names
          /\ \A n \in DOMAIN move.changes : move.changes[n] \in Int
          /\ move.first \in BOOLEAN
    /\ NoJob \notin Puts \cup Moves
    /\ MaxRetries \in Nat
    /\ MaxRequests \in Nat
    /\ MaxRestarts \in Nat

Init ==
    /\ table = InitialBook
    /\ phase = "read"
    /\ seen = NoAccount
    /\ pc = [p \in Procs |-> "idle"]
    /\ job = [p \in Procs |-> NoJob]
    /\ existing = [p \in Procs |-> FALSE]
    /\ missed = [p \in Procs |-> {}]
    /\ tries = [p \in Procs |-> 0]
    /\ created = [n \in Names |-> 0]
    /\ requests = 0
    /\ restarts = 0

Goto(p, label) == pc' = [pc EXCEPT ![p] = label]

Finish(p) ==
    /\ Goto(p, "idle")
    /\ job' = [job EXCEPT ![p] = NoJob]
    /\ existing' = [existing EXCEPT ![p] = FALSE]
    /\ tries' = [tries EXCEPT ![p] = 0]

(* Rows that p commits are news to the snapshots of the others.              *)
Tell(p, rows) ==
    missed' = [q \in Procs |->
                  IF q # p /\ pc[q] \in {"write", "commit"}
                  THEN missed[q] \cup rows ELSE {}]

(* A row that a transfer has changed and not committed is locked.            *)
Locked(n) == \E q \in Procs : pc[q] = "commit" /\ n \in DOMAIN job[q].changes

(* Faulty variant of Listening: the port is open before the seeding is done. *)
ListeningEarly == phase # "read"

Listening == phase = "listening"

Accept(p, request, label) ==
    /\ Listening
    /\ pc[p] = "idle"
    /\ requests < MaxRequests
    /\ requests' = requests + 1
    /\ job' = [job EXCEPT ![p] = request]
    /\ Goto(p, label)
    /\ UNCHANGED <<table, start, existing, missed, tries, created>>

------------------------------------------------------------------------------
(* PUT /accounts/:name.                                                      *)

(* Administrators may set everything, others their own credentials.          *)
Permitted(put, user) ==
    \/ user.admin
    \/ put.by = put.name /\ DOMAIN put.fields \subseteq {"credential"}

(* The user is read when the request is authenticated, and is not read again *)
(* after the password of the new account has been hashed.                    *)
ReceivePut(p, put) ==
    /\ table[put.by] # NoAccount
    /\ ~table[put.by].disabled
    /\ Permitted(put, table[put.by])
    /\ Accept(p, put, "select")

Select(p) ==
    /\ pc[p] = "select"
    /\ existing' = [existing EXCEPT ![p] = table[job[p].name] # NoAccount]
    /\ Goto(p, "upsert")
    /\ UNCHANGED <<table, start, job, missed, tries, created, requests>>

Upserted(p) ==
    Book!Rewritten(IF existing[p] THEN table[job[p].name] ELSE Book!NewAccount,
                   Book!Converted(job[p].fields))

(* Faulty variant of KeyIsFree: the name is no unique key.                   *)
AnyKeyIsFree(p) == TRUE

(* An INSERT finds no row of that name.                                      *)
KeyIsFree(p) == existing[p] \/ table[job[p].name] = NoAccount

(* The statement and its COMMIT: one row, so that nothing can come between   *)
(* that the row lock does not make wait.                                     *)
Upsert(p) ==
    /\ pc[p] = "upsert"
    /\ ~Locked(job[p].name)
    /\ KeyIsFree(p)
    /\ Book!WithinMinimum(Upserted(p))
    /\ table' = [table EXCEPT ![job[p].name] = Upserted(p)]
    /\ created' = [created EXCEPT ![job[p].name] = IF existing[p] THEN @ ELSE @ + 1]
    /\ Tell(p, {job[p].name})
    /\ Finish(p)
    /\ UNCHANGED <<start, requests>>

(* The unique key or the CHECK of the balance refuses the row.               *)
UpsertFails(p) ==
    /\ pc[p] = "upsert"
    /\ ~Locked(job[p].name)
    /\ ~(KeyIsFree(p) /\ Book!WithinMinimum(Upserted(p)))
    /\ Finish(p)
    /\ UNCHANGED <<table, start, missed, created, requests>>

------------------------------------------------------------------------------
(* A request for a transfer.                                                 *)

(* The accounts of a transfer that is already stored exist.                  *)
ReceiveTransfer(p, move) ==
    /\ move.first \/ \A n \in DOMAIN move.changes : table[n] # NoAccount
    /\ Accept(p, move, "begin")

(* validateNoDisabledAccounts, which only a new transfer has to pass.        *)
NoDisabledAccounts(move) ==
    move.first => \A n \in DOMAIN move.changes :
                      table[n] # NoAccount /\ ~table[n].disabled

BeginTransfer(p) ==
    /\ pc[p] = "begin"
    /\ IF NoDisabledAccounts(job[p])
       THEN Goto(p, "write") /\ UNCHANGED <<job, existing, tries>>
       ELSE Finish(p)
    /\ UNCHANGED <<table, start, missed, created, requests>>

(* Faulty variants of Retry: once too often; the accounts are not validated  *)
(* again.                                                                    *)
RetryOnceMore(p) ==
    /\ IF tries[p] <= MaxRetries
       THEN /\ tries' = [tries EXCEPT ![p] = @ + 1]
            /\ Goto(p, "begin")
            /\ UNCHANGED <<job, existing>>
       ELSE Finish(p)
    /\ missed' = [missed EXCEPT ![p] = {}]
    /\ UNCHANGED <<table, start, created, requests>>

RetryUnvalidated(p) ==
    /\ IF tries[p] < MaxRetries
       THEN /\ tries' = [tries EXCEPT ![p] = @ + 1]
            /\ Goto(p, "write")
            /\ UNCHANGED <<job, existing>>
       ELSE Finish(p)
    /\ missed' = [missed EXCEPT ![p] = {}]
    /\ UNCHANGED <<table, start, created, requests>>

(* 40001: the callback runs again in a new transaction, or the request is    *)
(* given up.                                                                 *)
Retry(p) ==
    /\ IF tries[p] < MaxRetries
       THEN /\ tries' = [tries EXCEPT ![p] = @ + 1]
            /\ Goto(p, "begin")
            /\ UNCHANGED <<job, existing>>
       ELSE Finish(p)
    /\ missed' = [missed EXCEPT ![p] = {}]
    /\ UNCHANGED <<table, start, created, requests>>

Covered(move) ==
    \A n \in Book!Debited(move) :
        Book!WithinMinimum(Book!Adjusted(table, move)[n])

CanWrite(p) ==
    pc[p] = "write" /\ \A n \in DOMAIN job[p].changes : ~Locked(n)

WriteBalances(p) ==
    /\ CanWrite(p)
    /\ missed[p] \cap DOMAIN job[p].changes = {}
    /\ Covered(job[p])
    /\ Goto(p, "commit")
    /\ UNCHANGED <<table, start, job, existing, missed, tries, created, requests>>

WriteConflict(p) ==
    /\ CanWrite(p)
    /\ missed[p] \cap DOMAIN job[p].changes # {}
    /\ Retry(p)

(* The CHECK fails for a row, before a conflict is met or without one.       *)
WriteUncovered(p) ==
    /\ CanWrite(p)
    /\ \E n \in Book!Debited(job[p]) \ missed[p] :
          ~Book!WithinMinimum(Book!Adjusted(table, job[p])[n])
    /\ Finish(p)
    /\ missed' = [missed EXCEPT ![p] = {}]
    /\ UNCHANGED <<table, start, created, requests>>

CommitTransfer(p) ==
    /\ pc[p] = "commit"
    /\ table' = Book!Adjusted(table, job[p])
    /\ Tell(p, DOMAIN job[p].changes)
    /\ Finish(p)
    /\ UNCHANGED <<start, created, requests>>

CommitConflict(p) == pc[p] = "commit" /\ Retry(p)

------------------------------------------------------------------------------
(* setupAdminAccount, before the server listens.                             *)

ReadRoot ==
    /\ phase = "read"
    /\ seen' = IF table[Root] = NoAccount THEN NoAccount
               ELSE Book!Converted(table[Root])
    /\ phase' = "write"
    /\ UNCHANGED <<table, restarts, procs, created, requests>>

Seeded ==
    IF seen = NoAccount THEN Book!RootAccount
    ELSE [seen EXCEPT !.credential = Configured]

(* The whole row that was read is written back, with the numbers its amounts *)
(* became.  Should the CHECK refuse it, the start fails, and the server does *)
(* not listen before another one.                                            *)
WriteRoot ==
    /\ phase = "write"
    /\ Book!WithinMinimum(Seeded)
    /\ table' = [table EXCEPT ![Root] = Seeded]
    /\ phase' = "listening"
    /\ seen' = NoAccount
    /\ UNCHANGED <<restarts, procs, created, requests>>

(* The process dies, and with it every transaction that is not committed.    *)
Restart ==
    /\ restarts < MaxRestarts
    /\ restarts' = restarts + 1
    /\ phase' = "read"
    /\ seen' = NoAccount
    /\ pc' = [p \in Procs |-> "idle"]
    /\ job' = [p \in Procs |-> NoJob]
    /\ existing' = [p \in Procs |-> FALSE]
    /\ missed' = [p \in Procs |-> {}]
    /\ tries' = [p \in Procs |-> 0]
    /\ UNCHANGED <<table, created, requests>>

(* The bounds are reached: not a deadlock.                                   *)
Quiescent ==
    /\ Listening
    /\ requests = MaxRequests
    /\ \A p \in Procs : pc[p] = "idle"
    /\ UNCHANGED vars

Next ==
    \/ \E p \in Procs, put \in Puts : ReceivePut(p, put)
    \/ \E p \in Procs, move \in Moves : ReceiveTransfer(p, move)
    \/ \E p \in Procs :
          \/ Select(p)
          \/ Upsert(p)
          \/ UpsertFails(p)
          \/ BeginTransfer(p)
          \/ WriteBalances(p)
          \/ WriteConflict(p)
          \/ WriteUncovered(p)
          \/ CommitTransfer(p)
          \/ CommitConflict(p)
    \/ ReadRoot
    \/ WriteRoot
    \/ Restart
    \/ Quiescent

Spec == Init /\ [][Next]_vars

------------------------------------------------------------------------------
(* The types; no request is retried too often.                               *)
TypeOK ==
    /\ table \in [Names -> Book!Accounts \cup {NoAccount}]
    /\ phase \in {"read", "write", "listening"}
    /\ seen \in Book!Accounts \cup {NoAccount}
    /\ pc \in [Procs -> {"idle", "select", "upsert", "begin", "write", "commit"}]
    /\ job \in [Procs -> Puts \cup Moves \cup {NoJob}]
    /\ existing \in [Procs -> BOOLEAN]
    /\ missed \in [Procs -> SUBSET Names]
    /\ tries \in [Procs -> 0..MaxRetries]
    /\ created \in [Names -> 0..MaxRequests]
    /\ requests \in 0..MaxRequests
    /\ restarts \in 0..MaxRestarts

(* Of requests that race to create an account one is told that it did (201), *)
(* and none if the account was there (upsert, putResource).                  *)
CreatedOnce ==
    \A n \in Names :
        created[n] <= (IF InitialBook[n] = NoAccount /\ n # Root THEN 1 ELSE 0)

(* A new transfer takes nothing from an account that has been disabled by    *)
(* then, though it is validated before the balances are written and not      *)
(* after (validateNoDisabledAccounts, holdFunds).                            *)
NothingFromDisabled ==
    [][\A p \in Procs :
          CommitTransfer(p) /\ job[p].first =>
              \A n \in Book!Debited(job[p]) : ~table[n].disabled]_vars

(* No update of an account or of a balance is lost: every PUT, payment and   *)
(* seeding takes effect on what the table holds at that moment (upsert,      *)
(* adjustBalance, setupAdminAccount).  What a seeding makes of it is another *)
(* balance when the administrator's is beyond a double.                      *)
ImplementsAccountBook == Book!Spec
=============================================================================
