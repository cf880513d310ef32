------------------------- MODULE AccountUpdatesProofs -------------------------
(***************************************************************************)
(* That no update of an account or a balance is lost, that an account is   *)
(* created by one request, and that a new transfer takes nothing from an   *)
(* account that is disabled: for any number of accounts and requests, and  *)
(* whatever amounts JavaScript's numbers make of the amounts it is given.  *)
(***************************************************************************)
EXTENDS AccountUpdates, TLAPS

(* What JavaScript makes of an amount is an amount.                          *)
NumbersAreAmounts == \A n \in Int : ToScale(n) \in Int /\ ToNumber(n) \in Int

(* The rows a transfer changes are there.                                    *)
AllThere(move) == \A n \in DOMAIN move.changes : table[n] # NoAccount

(* The CHECK of the table holds for every row.                               *)
RowsOK == \A n \in Names : table[n] # NoAccount => Book!WithinMinimum(table[n])

(* Requests are served when the administrator has been seeded, from what was *)
(* read of its row.                                                          *)
StartOK ==
    /\ phase = "write" =>
           seen = IF table[Root] = NoAccount THEN NoAccount
                  ELSE Book!Converted(table[Root])
    /\ phase = "listening" => table[Root] # NoAccount
    /\ phase # "listening" => \A p \in Procs : pc[p] = "idle"

(* A row was created by one request, and has stayed.                         *)
CreatedOK ==
    /\ created \in [Names -> {0, 1}]
    /\ \A n \in Names : created[n] = 1 =>
           /\ InitialBook[n] = NoAccount
           /\ n # Root
           /\ table[n] # NoAccount
           /\ requests >= 1

(* No row is ever deleted.                                                   *)
KeptOK == \A n \in Names : InitialBook[n] # NoAccount => table[n] # NoAccount

PutOK(p) ==
    pc[p] \in {"select", "upsert"} =>
        /\ job[p] \in Puts
        /\ pc[p] = "upsert" /\ existing[p] => table[job[p].name] # NoAccount

(* What a transfer relies on at each of its steps: between the writing of    *)
(* the balances and the COMMIT nobody changes its rows.                      *)
MoveOK(p) ==
    pc[p] \in {"begin", "write", "commit"} =>
        /\ job[p] \in Moves
        /\ (job[p].first /\ pc[p] = "begin") \/ AllThere(job[p])
        /\ pc[p] = "write" /\ job[p].first =>
               \A n \in DOMAIN job[p].changes \ missed[p] : ~table[n].disabled
        /\ pc[p] = "commit" => Covered(job[p])
        /\ pc[p] = "commit" /\ job[p].first =>
               \A n \in DOMAIN job[p].changes : ~table[n].disabled

LocksOK ==
    \A p, q \in Procs :
        p # q /\ pc[p] = "commit" /\ pc[q] = "commit" =>
            DOMAIN job[p].changes \cap DOMAIN job[q].changes = {}

JobsOK ==
    \A p \in Procs :
        (pc[p] # "idle" => requests >= 1) /\ PutOK(p) /\ MoveOK(p)

IInv ==
    TypeOK /\ RowsOK /\ StartOK /\ CreatedOK /\ KeptOK /\ JobsOK /\ LocksOK

------------------------------------------------------------------------------
(* What a conversion or an UPDATE makes of a row is a row.                   *)
LEMMA AccountParts ==
    ASSUME NEW account
    PROVE  account \in Book!Accounts <=>
               /\ account = [balance |-> account.balance,
                             minimum |-> account.minimum,
                             admin |-> account.admin,
                             disabled |-> account.disabled,
                             credential |-> account.credential]
               /\ account.balance \in Int
               /\ account.minimum \in Int \cup {Unlimited}
               /\ account.admin \in BOOLEAN
               /\ account.disabled \in BOOLEAN
               /\ account.credential \in Credentials
BY DEF Book!Accounts

LEMMA ConvertedType ==
    ASSUME NumbersAreAmounts, NEW account \in Book!Accounts
    PROVE  Book!Converted(account) \in Book!Accounts
<1> DEFINE new == Book!Converted(account)
<1>1. /\ account.balance \in Int
      /\ account.minimum \in Int \cup {Unlimited}
      /\ account.admin \in BOOLEAN
      /\ account.disabled \in BOOLEAN
      /\ account.credential \in Credentials
    BY AccountParts
<1>2. DOMAIN account = Book!FieldNames
    BY DEF Book!Accounts, Book!FieldNames
<1>3. new = [f \in Book!FieldNames |-> new[f]]
    BY <1>2 DEF Book!Converted
<1>4. /\ new.balance = ToScale(account.balance)
      /\ new.minimum = IF account.minimum # Unlimited THEN ToNumber(account.minimum)
                       ELSE account.minimum
      /\ new.admin = account.admin
      /\ new.disabled = account.disabled
      /\ new.credential = account.credential
    BY <1>2 DEF Book!Converted, Book!FieldNames
<1> HIDE DEF new
<1>5. new = [balance |-> new.balance, minimum |-> new.minimum, admin |-> new.admin,
             disabled |-> new.disabled, credential |-> new.credential]
    BY <1>3 DEF Book!FieldNames
<1>6. new.balance \in Int /\ new.minimum \in Int \cup {Unlimited}
    BY <1>1, <1>4 DEF NumbersAreAmounts
<1>7. new \in Book!Accounts
    BY <1>1, <1>4, <1>5, <1>6, AccountParts
<1>8. QED
    BY <1>7 DEF new

LEMMA NewAccountType ==
    Book!NewAccount \in Book!Accounts /\ Book!RootAccount \in Book!Accounts
BY UpdatesAssumption DEF Book!NewAccount, Book!RootAccount, Book!Accounts

LEMMA RewrittenType ==
    ASSUME NumbersAreAmounts, NEW put \in Puts, NEW account \in Book!Accounts
    PROVE  Book!Rewritten(account, Book!Converted(put.fields)) \in Book!Accounts
<1> DEFINE new == Book!Rewritten(account, Book!Converted(put.fields))
           sent == Book!Rewritten(Book!NewAccount, put.fields)
           other == Book!Converted(sent)
<1>1. other \in Book!Accounts
    BY UpdatesAssumption, ConvertedType
<1>2. \A f \in Book!FieldNames :
          new[f] = IF f \in DOMAIN put.fields THEN other[f] ELSE account[f]
    BY DEF Book!Rewritten, Book!Converted
<1>3. new = [f \in Book!FieldNames |-> new[f]]
    BY DEF Book!Rewritten
<1> HIDE DEF new, sent, other
<1>4. new = [balance |-> new.balance, minimum |-> new.minimum, admin |-> new.admin,
             disabled |-> new.disabled, credential |-> new.credential]
    BY <1>3 DEF Book!FieldNames
<1>5. /\ new.balance \in Int
      /\ new.minimum \in Int \cup {Unlimited}
      /\ new.admin \in BOOLEAN
      /\ new.disabled \in BOOLEAN
      /\ new.credential \in Credentials
    BY <1>1, <1>2 DEF Book!FieldNames, Book!Accounts
<1>6. new \in Book!Accounts
    BY <1>4, <1>5, AccountParts
<1>7. QED
    BY <1>6 DEF new

(* What a transfer makes of a row.                                           *)
LEMMA AdjustedRow ==
    ASSUME NEW move \in Moves, TypeOK, NEW n \in Names
    PROVE  LET new == Book!Adjusted(table, move)[n]
           IN /\ n \notin DOMAIN move.changes => new = table[n]
              /\ n \in DOMAIN move.changes /\ table[n] # NoAccount =>
                     /\ new \in Book!Accounts
                     /\ new # NoAccount
                     /\ new.disabled = table[n].disabled
                     /\ new.minimum = table[n].minimum
                     /\ new.balance = table[n].balance + move.changes[n]
<1> DEFINE new == Book!Adjusted(table, move)[n]
<1>1. CASE n \notin DOMAIN move.changes
    BY <1>1 DEF Book!Adjusted
<1>2. CASE n \in DOMAIN move.changes /\ table[n] # NoAccount
  <2>1. new = [table[n] EXCEPT !.balance = table[n].balance + move.changes[n]]
      BY <1>2 DEF Book!Adjusted
  <2>2. table[n] \in Book!Accounts
      BY <1>2 DEF TypeOK
  <2>3. move.changes[n] \in Int
      BY <1>2, UpdatesAssumption
  <2> HIDE DEF new
  <2>4. /\ new \in Book!Accounts
        /\ new.disabled = table[n].disabled
        /\ new.minimum = table[n].minimum
        /\ new.balance = table[n].balance + move.changes[n]
      BY <2>1, <2>2, <2>3 DEF Book!Accounts
  <2>5. new # NoAccount
      BY <2>4, UpdatesAssumption
  <2>6. QED
      BY <1>2, <2>4, <2>5 DEF new
<1>3. QED
    BY <1>1, <1>2

(* Only rows that are debited can fall below their minimum.                  *)
LEMMA AdjustedCovered ==
    ASSUME NEW move \in Moves, TypeOK, RowsOK, Covered(move), NEW n \in Names,
           n \in DOMAIN move.changes, table[n] # NoAccount
    PROVE  Book!WithinMinimum(Book!Adjusted(table, move)[n])
<1>1. CASE n \in Book!Debited(move)
    BY <1>1 DEF Covered
<1>2. CASE n \notin Book!Debited(move)
  <2> DEFINE new == Book!Adjusted(table, move)[n]
  <2>1. move.changes[n] \in Int /\ ~(move.changes[n] < 0)
      BY <1>2, UpdatesAssumption DEF Book!Debited
  <2>2. table[n].balance \in Int /\ table[n].minimum \in Int \cup {Unlimited}
      BY DEF TypeOK, Book!Accounts
  <2>3. /\ new.minimum = table[n].minimum
        /\ new.balance = table[n].balance + move.changes[n]
      BY AdjustedRow
  <2>4. Book!WithinMinimum(table[n])
      BY DEF RowsOK
  <2> HIDE DEF new
  <2>5. ASSUME new.minimum # Unlimited PROVE new.balance >= new.minimum
    <3>1. new.minimum \in Int
        BY <2>2, <2>3, <2>5
    <3>2. table[n].balance >= new.minimum
        BY <2>3, <2>4, <2>5 DEF Book!WithinMinimum
    <3>3. QED
        BY <2>1, <2>2, <2>3, <3>1, <3>2
  <2>6. Book!WithinMinimum(new)
      BY <2>5 DEF Book!WithinMinimum
  <2>7. QED
      BY <2>6 DEF new
<1>3. QED
    BY <1>1, <1>2

(* The CHECK of a transfer looks at its own rows only.                       *)
LEMMA CoveredByOwnRows ==
    ASSUME NEW move \in Moves, Covered(move),
           \A n \in DOMAIN move.changes : table'[n] = table[n]
    PROVE  Covered(move)'
<1>1. Covered(move)' <=>
          \A n \in Book!Debited(move) :
              Book!WithinMinimum(Book!Adjusted(table', move)[n])
    BY DEF Covered
<1>2. \A n \in Book!Debited(move) :
          n \in Names /\ n \in DOMAIN move.changes
    BY UpdatesAssumption DEF Book!Debited
<1>3. \A n \in Book!Debited(move) :
          Book!Adjusted(table', move)[n] = Book!Adjusted(table, move)[n]
    BY <1>2 DEF Book!Adjusted
<1>4. QED
    BY <1>1, <1>3 DEF Covered

------------------------------------------------------------------------------
(* The steps of one request that change no account.                          *)
Alone(p) ==
    /\ UNCHANGED <<table, start, created>>
    /\ \A q \in Procs : q # p =>
           /\ pc'[q] = pc[q]
           /\ job'[q] = job[q]
           /\ existing'[q] = existing[q]
           /\ missed'[q] = missed[q]
    /\ requests' >= requests

LEMMA AloneKeeps ==
    ASSUME IInv, NEW p \in Procs, Alone(p), TypeOK', Listening,
           pc'[p] # "idle" => requests' >= 1, PutOK(p)', MoveOK(p)',
           pc'[p] = "commit" => \A n \in DOMAIN job'[p].changes :
               \A q \in Procs \ {p} : pc[q] = "commit" => n \notin DOMAIN job[q].changes
    PROVE  IInv'
<1>1. requests \in Int /\ requests' \in Int /\ requests' >= requests
    BY DEF IInv, TypeOK, Alone, UpdatesAssumption
<1>2. RowsOK' /\ KeptOK' /\ CreatedOK'
  <2>1. RowsOK' /\ KeptOK'
      BY DEF IInv, RowsOK, KeptOK, Alone
  <2>2. CreatedOK'
      BY <1>1 DEF IInv, CreatedOK, Alone
  <2>3. QED
      BY <2>1, <2>2
<1>3. StartOK'
    BY DEF IInv, StartOK, Alone, start, Listening
<1>4. JobsOK'
  <2> SUFFICES ASSUME NEW q \in Procs
               PROVE  (pc'[q] # "idle" => requests' >= 1) /\ PutOK(q)' /\ MoveOK(q)'
      BY DEF JobsOK
  <2>1. CASE q = p
      BY <2>1
  <2>2. CASE q # p
    <3>1. /\ pc'[q] = pc[q] /\ job'[q] = job[q] /\ existing'[q] = existing[q]
          /\ missed'[q] = missed[q] /\ table' = table
        BY <2>2 DEF Alone
    <3>2. (pc[q] # "idle" => requests >= 1) /\ PutOK(q) /\ MoveOK(q)
        BY DEF IInv, JobsOK
    <3>3. PutOK(q)'
        BY <3>1, <3>2 DEF PutOK
    <3>4. MoveOK(q)'
      <4>1. \A move : AllThere(move)' = AllThere(move) /\ Covered(move)' = Covered(move)
          BY <3>1 DEF AllThere, Covered
      <4>2. QED
          BY <3>1, <3>2, <4>1 DEF MoveOK
    <3>5. QED
        BY <1>1, <3>1, <3>2, <3>3, <3>4
  <2>3. QED
      BY <2>1, <2>2
<1>5. LocksOK'
  <2> SUFFICES ASSUME NEW q \in Procs, NEW r \in Procs, q # r,
                      pc'[q] = "commit", pc'[r] = "commit"
               PROVE  DOMAIN job'[q].changes \cap DOMAIN job'[r].changes = {}
      BY DEF LocksOK
  <2>1. \A x \in Procs \ {p} : pc'[x] = pc[x] /\ job'[x] = job[x]
      BY DEF Alone
  <2>2. CASE q # p /\ r # p
      BY <2>1, <2>2 DEF IInv, LocksOK
  <2>3. CASE q = p
      BY <2>1, <2>3
  <2>4. CASE r = p
      BY <2>1, <2>4
  <2>5. QED
      BY <2>2, <2>3, <2>4
<1>6. QED
    BY <1>2, <1>3, <1>4, <1>5 DEF IInv

(* What is known of a request that is served.                                *)
LEMMA Serving ==
    ASSUME IInv, NEW p \in Procs, pc[p] # "idle"
    PROVE  /\ Listening
           /\ requests >= 1
           /\ PutOK(p) /\ MoveOK(p)
           /\ pc[p] \in {"select", "upsert"} => job[p] \in Puts
           /\ pc[p] \in {"begin", "write", "commit"} => job[p] \in Moves
BY DEF IInv, JobsOK, StartOK, TypeOK, Listening, PutOK, MoveOK

LEMMA ReceiveKeeps ==
    ASSUME IInv, NEW p \in Procs, Next,
           \/ \E put \in Puts : ReceivePut(p, put)
           \/ \E move \in Moves : ReceiveTransfer(p, move)
    PROVE  IInv'
<1>1. PICK request, label :
          /\ Accept(p, request, label)
          /\ \/ request \in Puts /\ label = "select"
             \/ /\ request \in Moves /\ label = "begin"
                /\ request.first \/ AllThere(request)
    BY DEF ReceivePut, ReceiveTransfer, AllThere
<1>2. /\ TypeOK /\ Listening
      /\ requests < MaxRequests /\ requests' = requests + 1
      /\ job' = [job EXCEPT ![p] = request]
      /\ pc' = [pc EXCEPT ![p] = label]
      /\ UNCHANGED <<table, start, existing, missed, tries, created>>
    BY <1>1 DEF Accept, Goto, IInv
<1>3. requests \in Int /\ requests >= 0 /\ MaxRequests \in Int
    BY UpdatesAssumption DEF IInv, TypeOK
<1>4. TypeOK'
    BY <1>1, <1>2, <1>3 DEF TypeOK, start
<1>5. Alone(p)
    BY <1>2, <1>3 DEF Alone, TypeOK
<1>6. pc'[p] = label /\ job'[p] = request /\ requests' >= 1
    BY <1>2, <1>3 DEF TypeOK
<1>7. PutOK(p)'
    BY <1>1, <1>6 DEF PutOK
<1>8. MoveOK(p)'
  <2>1. AllThere(request)' = AllThere(request)
      BY <1>2 DEF AllThere
  <2>2. QED
      BY <1>1, <1>6, <2>1 DEF MoveOK
<1>9. QED
    BY <1>1, <1>2, <1>4, <1>5, <1>6, <1>7, <1>8, AloneKeeps

LEMMA SelectKeeps ==
    ASSUME IInv, NEW p \in Procs, Select(p)
    PROVE  IInv'
<1>1. /\ pc[p] = "select"
      /\ existing' = [existing EXCEPT ![p] = table[job[p].name] # NoAccount]
      /\ pc' = [pc EXCEPT ![p] = "upsert"]
      /\ UNCHANGED <<table, start, job, missed, tries, created, requests>>
      /\ TypeOK
    BY DEF Select, Goto, IInv
<1>2. TypeOK'
    BY <1>1 DEF TypeOK, start
<1>3. Alone(p)
    BY <1>1, UpdatesAssumption DEF Alone, TypeOK
<1>4. /\ pc'[p] = "upsert"
      /\ existing'[p] = (table[job[p].name] # NoAccount)
      /\ job[p] \in Puts
    BY <1>1, Serving DEF TypeOK
<1>5. PutOK(p)' /\ MoveOK(p)'
    BY <1>1, <1>4 DEF PutOK, MoveOK
<1>6. QED
    BY <1>1, <1>2, <1>3, <1>4, <1>5, Serving, AloneKeeps

(* A request that is answered, whatever it was.                              *)
LEMMA FinishKeeps ==
    ASSUME IInv, NEW p \in Procs, pc[p] # "idle", Finish(p),
           missed' = missed \/ missed' = [missed EXCEPT ![p] = {}],
           UNCHANGED <<table, start, created, requests>>
    PROVE  IInv'
<1>1. /\ pc' = [pc EXCEPT ![p] = "idle"]
      /\ job' = [job EXCEPT ![p] = NoJob]
      /\ existing' = [existing EXCEPT ![p] = FALSE]
      /\ tries' = [tries EXCEPT ![p] = 0]
      /\ TypeOK
    BY DEF Finish, Goto, IInv
<1>2. TypeOK'
  <2>1. 0 \in 0..MaxRetries
      BY UpdatesAssumption
  <2>2. missed' \in [Procs -> SUBSET Names]
      BY <1>1 DEF TypeOK
  <2>3. QED
      BY <1>1, <2>1, <2>2 DEF TypeOK, start
<1>3. Alone(p)
    BY <1>1, UpdatesAssumption DEF Alone, TypeOK
<1>4. pc'[p] = "idle"
    BY <1>1 DEF TypeOK
<1>5. PutOK(p)' /\ MoveOK(p)'
    BY <1>4 DEF PutOK, MoveOK
<1>6. QED
    BY <1>2, <1>3, <1>4, <1>5, Serving, AloneKeeps

LEMMA BeginKeeps ==
    ASSUME IInv, NEW p \in Procs, BeginTransfer(p)
    PROVE  IInv'
<1>1. CASE NoDisabledAccounts(job[p])
  <2>1. /\ pc[p] = "begin"
        /\ pc' = [pc EXCEPT ![p] = "write"]
        /\ UNCHANGED <<table, start, job, existing, tries, missed, created, requests>>
        /\ TypeOK
      BY <1>1 DEF BeginTransfer, Goto, IInv
  <2>2. TypeOK'
      BY <2>1 DEF TypeOK, start
  <2>3. Alone(p)
      BY <2>1, UpdatesAssumption DEF Alone, TypeOK
  <2>4. pc'[p] = "write" /\ job[p] \in Moves
      BY <2>1, Serving DEF TypeOK
  <2>5. MoveOK(p)
      BY <2>1, Serving
  <2>6. AllThere(job[p])
      BY <1>1, <2>1, <2>5, UpdatesAssumption DEF MoveOK, NoDisabledAccounts, AllThere
  <2>7. MoveOK(p)'
    <3>1. AllThere(job[p])'
        BY <2>1, <2>6 DEF AllThere
    <3>2. job[p].first => \A n \in DOMAIN job[p].changes : ~table[n].disabled
        BY <1>1 DEF NoDisabledAccounts
    <3>3. QED
        BY <2>1, <2>4, <3>1, <3>2 DEF MoveOK
  <2>8. PutOK(p)'
      BY <2>4 DEF PutOK
  <2>9. QED
      BY <2>1, <2>2, <2>3, <2>4, <2>7, <2>8, Serving, AloneKeeps
<1>2. CASE ~NoDisabledAccounts(job[p])
    BY <1>2, FinishKeeps DEF BeginTransfer
<1>3. QED
    BY <1>1, <1>2

LEMMA RetryKeeps ==
    ASSUME IInv, NEW p \in Procs, pc[p] \in {"write", "commit"}, Retry(p)
    PROVE  IInv'
<1>1. CASE tries[p] < MaxRetries
  <2>1. /\ tries' = [tries EXCEPT ![p] = tries[p] + 1]
        /\ pc' = [pc EXCEPT ![p] = "begin"]
        /\ missed' = [missed EXCEPT ![p] = {}]
        /\ UNCHANGED <<table, start, job, existing, created, requests>>
        /\ TypeOK
      BY <1>1 DEF Retry, Goto, IInv
  <2>2. TypeOK'
    <3>1. tries[p] + 1 \in 0..MaxRetries
        BY <1>1, <2>1, UpdatesAssumption DEF TypeOK
    <3>2. QED
        BY <2>1, <3>1 DEF TypeOK, start
  <2>3. Alone(p)
      BY <2>1, UpdatesAssumption DEF Alone, TypeOK
  <2>4. pc'[p] = "begin" /\ job[p] \in Moves /\ AllThere(job[p])
      BY <2>1, Serving DEF TypeOK, MoveOK
  <2>5. MoveOK(p)'
    <3>1. AllThere(job[p])'
        BY <2>1, <2>4 DEF AllThere
    <3>2. QED
        BY <2>1, <2>4, <3>1 DEF MoveOK
  <2>6. PutOK(p)'
      BY <2>4 DEF PutOK
  <2>7. QED
      BY <2>1, <2>2, <2>3, <2>4, <2>5, <2>6, Serving, AloneKeeps
<1>2. CASE ~(tries[p] < MaxRetries)
    BY <1>2, FinishKeeps DEF Retry
<1>3. QED
    BY <1>1, <1>2

LEMMA WriteKeeps ==
    ASSUME IInv, NEW p \in Procs, WriteBalances(p)
    PROVE  IInv'
<1>1. /\ pc[p] = "write"
      /\ \A n \in DOMAIN job[p].changes : ~Locked(n)
      /\ missed[p] \cap DOMAIN job[p].changes = {}
      /\ Covered(job[p])
      /\ pc' = [pc EXCEPT ![p] = "commit"]
      /\ UNCHANGED <<table, start, job, existing, missed, tries, created, requests>>
      /\ TypeOK
    BY DEF WriteBalances, CanWrite, Goto, IInv
<1>2. TypeOK'
    BY <1>1 DEF TypeOK, start
<1>3. Alone(p)
    BY <1>1, UpdatesAssumption DEF Alone, TypeOK
<1>4. pc'[p] = "commit" /\ job[p] \in Moves /\ MoveOK(p)
    BY <1>1, Serving DEF TypeOK
<1>5. MoveOK(p)'
  <2>1. AllThere(job[p])' /\ Covered(job[p])'
      BY <1>1, <1>4 DEF AllThere, MoveOK, Covered
  <2>2. job[p].first => \A n \in DOMAIN job[p].changes : ~table[n].disabled
      BY <1>1, <1>4 DEF MoveOK
  <2>3. QED
      BY <1>1, <1>4, <2>1, <2>2 DEF MoveOK
<1>6. PutOK(p)'
    BY <1>4 DEF PutOK
<1>7. \A n \in DOMAIN job'[p].changes :
          \A q \in Procs \ {p} : pc[q] = "commit" => n \notin DOMAIN job[q].changes
    BY <1>1 DEF Locked
<1>8. QED
    BY <1>1, <1>2, <1>3, <1>4, <1>5, <1>6, <1>7, Serving, AloneKeeps

------------------------------------------------------------------------------
(* A request that changes rows nobody has locked, and is answered.           *)
LEMMA ChangeKeeps ==
    ASSUME IInv, NEW p \in Procs, pc[p] # "idle",
           NEW rows \in SUBSET Names, Tell(p, rows), Finish(p),
           UNCHANGED <<start, requests>>,
           DOMAIN table' = Names, table' = [n \in Names |-> table'[n]],
           \A n \in Names \ rows : table'[n] = table[n],
           \A n \in rows : /\ table'[n] \in Book!Accounts
                           /\ Book!WithinMinimum(table'[n]),
           \A q \in Procs \ {p} :
               pc[q] = "commit" => rows \cap DOMAIN job[q].changes = {},
           CreatedOK'
    PROVE  IInv'
<1>1. /\ pc' = [pc EXCEPT ![p] = "idle"]
      /\ job' = [job EXCEPT ![p] = NoJob]
      /\ existing' = [existing EXCEPT ![p] = FALSE]
      /\ tries' = [tries EXCEPT ![p] = 0]
      /\ missed' = [q \in Procs |-> IF q # p /\ pc[q] \in {"write", "commit"}
                                    THEN missed[q] \cup rows ELSE {}]
      /\ TypeOK
    BY DEF Finish, Goto, Tell, IInv
<1>2. Listening /\ requests >= 1
    BY Serving
<1>3. \A n \in Names : table[n] # NoAccount => table'[n] # NoAccount
    BY UpdatesAssumption
<1>4. TypeOK'
  <2>1. table' \in [Names -> Book!Accounts \cup {NoAccount}]
    <3>1. \A n \in Names : table'[n] \in Book!Accounts \cup {NoAccount}
        BY <1>1 DEF TypeOK
    <3>2. QED
        BY <3>1
  <2>2. created' \in [Names -> 0..MaxRequests]
    <3>1. MaxRequests >= 1 /\ MaxRequests \in Int
        BY <1>1, <1>2, UpdatesAssumption DEF TypeOK
    <3>2. {0, 1} \subseteq 0..MaxRequests
        BY <3>1
    <3>3. QED
        BY <3>2 DEF CreatedOK
  <2>3. 0 \in 0..MaxRetries
      BY UpdatesAssumption
  <2>4. missed' \in [Procs -> SUBSET Names]
    <3>1. \A q \in Procs : missed[q] \subseteq Names
        BY <1>1 DEF TypeOK
    <3>2. \A q \in Procs : (IF q # p /\ pc[q] \in {"write", "commit"}
                            THEN missed[q] \cup rows ELSE {}) \in SUBSET Names
        BY <3>1
    <3>3. QED
        BY <1>1, <3>2
  <2>5. QED
      BY <1>1, <2>1, <2>2, <2>3, <2>4 DEF TypeOK, start
<1>5. RowsOK' /\ KeptOK'
    BY <1>3 DEF IInv, RowsOK, KeptOK
<1>6. StartOK'
    BY <1>2, <1>3, UpdatesAssumption DEF IInv, StartOK, start, Listening
<1>7. JobsOK'
  <2> SUFFICES ASSUME NEW q \in Procs
               PROVE  (pc'[q] # "idle" => requests' >= 1) /\ PutOK(q)' /\ MoveOK(q)'
      BY DEF JobsOK
  <2>1. CASE q = p
    <3>1. pc'[q] = "idle"
        BY <1>1, <2>1 DEF TypeOK
    <3>2. QED
        BY <3>1 DEF PutOK, MoveOK
  <2>2. CASE q # p
    <3>1. /\ pc'[q] = pc[q] /\ job'[q] = job[q] /\ existing'[q] = existing[q]
          /\ pc[q] \in {"write", "commit"} => missed'[q] = missed[q] \cup rows
        BY <1>1, <2>2 DEF TypeOK
    <3>2. PutOK(q) /\ MoveOK(q)
        BY DEF IInv, JobsOK
    <3>3. PutOK(q)'
        BY <1>3, <3>1, <3>2, UpdatesAssumption DEF PutOK
    <3>4. MoveOK(q)'
      <4> SUFFICES ASSUME pc[q] \in {"begin", "write", "commit"} PROVE MoveOK(q)'
          BY <3>1 DEF MoveOK
      <4>1. job[q] \in Moves
          BY <3>2 DEF MoveOK
      <4>2. DOMAIN job[q].changes \subseteq Names
          BY <4>1, UpdatesAssumption
      <4>3. AllThere(job[q]) => AllThere(job[q])'
        <5>1. job'[q] = job[q]
            BY <3>1
        <5>2. QED
            BY <1>3, <4>2, <5>1 DEF AllThere
      <4>4. CASE pc[q] = "commit"
        <5>1. \A n \in DOMAIN job[q].changes : table'[n] = table[n]
            BY <2>2, <4>2, <4>4
        <5>2. Covered(job[q])
            BY <3>2, <4>4 DEF MoveOK
        <5>3. Covered(job[q])'
          <6> DEFINE move == job[q]
          <6>1. move \in Moves /\ Covered(move)
              BY <4>1, <5>2
          <6>2. \A n \in DOMAIN move.changes : table'[n] = table[n]
              BY <5>1
          <6>3. job'[q] = move
              BY <3>1
          <6>4. \A n \in Book!Debited(move) :
                    Book!WithinMinimum(Book!Adjusted(table, move)[n])
              BY <6>1 DEF Covered
          <6>5. \A n \in Book!Debited(move) :
                    Book!Adjusted(table', move)[n] = Book!Adjusted(table, move)[n]
              BY <4>2, <6>2 DEF Book!Adjusted, Book!Debited
          <6>6. QED
              BY <6>3, <6>4, <6>5 DEF Covered
        <5>4. QED
            BY <3>1, <3>2, <4>1, <4>3, <4>4, <5>1, <5>3 DEF MoveOK
      <4>5. CASE pc[q] = "write"
        <5>1. missed'[q] = missed[q] \cup rows
            BY <3>1, <4>5
        <5>2. job[q].first => \A n \in DOMAIN job[q].changes \ missed[q] :
                  ~table[n].disabled
            BY <3>2, <4>5 DEF MoveOK
        <5>3. job[q].first => \A n \in DOMAIN job[q].changes \ missed'[q] :
                  ~table'[n].disabled
            BY <4>2, <5>1, <5>2
        <5>4. QED
            BY <3>1, <3>2, <4>1, <4>3, <4>5, <5>3 DEF MoveOK
      <4>6. CASE pc[q] = "begin"
          BY <3>1, <3>2, <4>1, <4>3, <4>6 DEF MoveOK
      <4>7. QED
          BY <4>4, <4>5, <4>6
    <3>5. requests' = requests /\ (pc[q] # "idle" => requests >= 1)
        BY DEF IInv, JobsOK
    <3>6. QED
        BY <3>1, <3>3, <3>4, <3>5
  <2>3. QED
      BY <2>1, <2>2
<1>8. LocksOK'
    BY <1>1 DEF IInv, LocksOK, TypeOK
<1>9. QED
    BY <1>4, <1>5, <1>6, <1>7, <1>8 DEF IInv

(* What an upsert writes.                                                    *)
LEMMA UpsertedType ==
    ASSUME NumbersAreAmounts, IInv, NEW p \in Procs, pc[p] = "upsert"
    PROVE  /\ job[p].name \in Names
           /\ Upserted(p) \in Book!Accounts
           /\ existing[p] => table[job[p].name] # NoAccount
<1>1. job[p] \in Puts /\ PutOK(p)
    BY Serving
<1>2. job[p].name \in Names
    BY <1>1, UpdatesAssumption
<1>3. existing[p] => table[job[p].name] # NoAccount
    BY <1>1 DEF PutOK
<1>4. (IF existing[p] THEN table[job[p].name] ELSE Book!NewAccount) \in Book!Accounts
    BY <1>2, <1>3, NewAccountType DEF IInv, TypeOK
<1>5. QED
    BY <1>1, <1>2, <1>3, <1>4, RewrittenType DEF Upserted

LEMMA UpsertKeeps ==
    ASSUME NumbersAreAmounts, IInv, NEW p \in Procs, Upsert(p)
    PROVE  IInv'
<1> DEFINE name == job[p].name
<1>1. /\ pc[p] = "upsert"
      /\ ~Locked(name)
      /\ KeyIsFree(p)
      /\ Book!WithinMinimum(Upserted(p))
      /\ table' = [table EXCEPT ![name] = Upserted(p)]
      /\ created' = [created EXCEPT ![name] = IF existing[p] THEN created[name]
                                              ELSE created[name] + 1]
      /\ Tell(p, {name})
      /\ Finish(p)
      /\ UNCHANGED <<start, requests>>
    BY DEF Upsert
<1>2. /\ name \in Names
      /\ Upserted(p) \in Book!Accounts
      /\ existing[p] => table[name] # NoAccount
    BY <1>1, UpsertedType
<1>3. Upserted(p) # NoAccount
    BY <1>2, UpdatesAssumption
<1>4. TypeOK /\ CreatedOK /\ StartOK /\ Listening /\ requests >= 1
    BY <1>1, Serving DEF IInv
<1> HIDE DEF name
<1>5. \A n \in Names : table'[n] = IF n = name THEN Upserted(p) ELSE table[n]
    BY <1>1, <1>2, <1>4 DEF TypeOK
<1>6. CreatedOK'
  <2>1. CASE existing[p]
    <3>1. created' = created
        BY <1>1, <2>1, <1>4 DEF CreatedOK
    <3>2. QED
        BY <1>1, <1>3, <1>4, <1>5, <3>1 DEF CreatedOK
  <2>2. CASE ~existing[p]
    <3>1. table[name] = NoAccount
        BY <1>1, <2>2 DEF KeyIsFree, name
    <3>2. created[name] = 0
        BY <1>2, <1>4, <3>1 DEF CreatedOK
    <3>3. created' = [created EXCEPT ![name] = 1]
        BY <1>1, <2>2, <3>2
    <3>4. name # Root
        BY <1>4, <3>1 DEF StartOK, Listening
    <3>5. InitialBook[name] = NoAccount
        BY <1>2, <1>4, <3>1 DEF IInv, KeptOK
    <3>6. QED
        BY <1>1, <1>2, <1>3, <1>4, <1>5, <3>3, <3>4, <3>5 DEF CreatedOK
  <2>3. QED
      BY <2>1, <2>2
<1>7. \A q \in Procs \ {p} :
          pc[q] = "commit" => {name} \cap DOMAIN job[q].changes = {}
    BY <1>1 DEF Locked
<1>8. table' = [n \in Names |-> table'[n]] /\ DOMAIN table' = Names
    BY <1>1, <1>4 DEF TypeOK
<1>9. pc[p] # "idle" /\ {name} \in SUBSET Names
    BY <1>1, <1>2
<1>10. \A n \in {name} : /\ table'[n] \in Book!Accounts
                         /\ Book!WithinMinimum(table'[n])
    BY <1>1, <1>2, <1>5
<1>11. \A n \in Names \ {name} : table'[n] = table[n]
    BY <1>5
<1>12. QED
    BY <1>1, <1>6, <1>7, <1>8, <1>9, <1>10, <1>11, ChangeKeeps

LEMMA CommitKeeps ==
    ASSUME IInv, NEW p \in Procs, CommitTransfer(p)
    PROVE  IInv'
<1> DEFINE rows == DOMAIN job[p].changes
<1>1. /\ pc[p] = "commit"
      /\ table' = Book!Adjusted(table, job[p])
      /\ Tell(p, rows)
      /\ Finish(p)
      /\ UNCHANGED <<start, created, requests>>
      /\ TypeOK /\ RowsOK /\ CreatedOK /\ LocksOK
    BY DEF CommitTransfer, IInv
<1>2. job[p] \in Moves /\ MoveOK(p)
    BY <1>1, Serving
<1>3. AllThere(job[p]) /\ Covered(job[p]) /\ rows \subseteq Names
    BY <1>1, <1>2, UpdatesAssumption DEF MoveOK
<1>4. \A n \in Names \ rows : table'[n] = table[n]
    BY <1>1, <1>2, AdjustedRow
<1>5. \A n \in rows : /\ table'[n] \in Book!Accounts
                      /\ Book!WithinMinimum(table'[n])
    BY <1>1, <1>2, <1>3, AdjustedRow, AdjustedCovered DEF AllThere
<1>6. \A n \in Names : table[n] # NoAccount => table'[n] # NoAccount
    BY <1>4, <1>5, UpdatesAssumption
<1>7. CreatedOK'
    BY <1>1, <1>6 DEF CreatedOK
<1>8. \A q \in Procs \ {p} : pc[q] = "commit" => rows \cap DOMAIN job[q].changes = {}
    BY <1>1 DEF LocksOK
<1>9. table' = [n \in Names |-> table'[n]]
    BY <1>1 DEF Book!Adjusted
<1> HIDE DEF rows
<1>10. QED
    BY <1>1, <1>3, <1>4, <1>5, <1>7, <1>8, <1>9, ChangeKeeps

(* What setupAdminAccount reads of the row of the administrator.             *)
RowRead == IF table[Root] = NoAccount THEN NoAccount ELSE Book!Converted(table[Root])

LEMMA RowReadType ==
    ASSUME NumbersAreAmounts, IInv
    PROVE  /\ RowRead \in Book!Accounts \cup {NoAccount}
           /\ RowRead = NoAccount <=> table[Root] = NoAccount
<1>1. CASE table[Root] = NoAccount
    BY <1>1 DEF RowRead
<1>2. CASE table[Root] # NoAccount
  <2>1. table[Root] \in Book!Accounts
      BY <1>2, UpdatesAssumption DEF IInv, TypeOK
  <2>2. Book!Converted(table[Root]) \in Book!Accounts
      BY <2>1, ConvertedType
  <2>3. QED
      BY <1>2, <2>2, UpdatesAssumption DEF RowRead
<1>3. QED
    BY <1>1, <1>2

LEMMA ReadRootKeeps ==
    ASSUME NumbersAreAmounts, IInv, ReadRoot
    PROVE  IInv'
<1>1. /\ phase = "read" /\ phase' = "write" /\ seen' = RowRead
      /\ UNCHANGED <<table, restarts, pc, job, existing, missed, tries, created, requests>>
      /\ TypeOK /\ Root \in Names
    BY UpdatesAssumption DEF ReadRoot, RowRead, procs, IInv
<1>2. TypeOK'
    BY <1>1, RowReadType DEF TypeOK
<1>3. StartOK'
    BY <1>1 DEF IInv, StartOK, RowRead
<1>4. RowsOK' /\ KeptOK' /\ CreatedOK' /\ LocksOK'
    BY <1>1 DEF IInv, RowsOK, KeptOK, CreatedOK, LocksOK
<1>5. JobsOK'
    BY <1>1 DEF IInv, StartOK, JobsOK, PutOK, MoveOK
<1>6. QED
    BY <1>2, <1>3, <1>4, <1>5 DEF IInv

(* What the seeding writes into the row of the administrator.                *)
LEMMA SeededType ==
    ASSUME IInv
    PROVE  Seeded \in Book!Accounts
<1>1. CASE seen = NoAccount
    BY <1>1, NewAccountType DEF Seeded
<1>2. CASE seen # NoAccount
  <2>1. seen \in Book!Accounts /\ Configured \in Credentials
      BY <1>2, UpdatesAssumption DEF IInv, TypeOK
  <2>2. [seen EXCEPT !.credential = Configured] \in Book!Accounts
      BY <2>1 DEF Book!Accounts
  <2>3. QED
      BY <1>2, <2>2 DEF Seeded
<1>3. QED
    BY <1>1, <1>2

LEMMA WriteRootKeeps ==
    ASSUME IInv, WriteRoot
    PROVE  IInv'
<1>1. /\ phase = "write" /\ phase' = "listening" /\ seen' = NoAccount
      /\ Book!WithinMinimum(Seeded)
      /\ table' = [table EXCEPT ![Root] = Seeded]
      /\ UNCHANGED <<restarts, pc, job, existing, missed, tries, created, requests>>
      /\ TypeOK /\ Root \in Names
    BY UpdatesAssumption DEF WriteRoot, procs, IInv
<1>2. Seeded \in Book!Accounts /\ Book!WithinMinimum(Seeded) /\ Seeded # NoAccount
    BY <1>1, SeededType, UpdatesAssumption
<1>3. \A n \in Names : table'[n] = IF n = Root THEN Seeded ELSE table[n]
    BY <1>1 DEF TypeOK
<1>4. TypeOK'
    BY <1>1, <1>2 DEF TypeOK
<1>5. \A q \in Procs : pc[q] = "idle"
    BY <1>1 DEF IInv, StartOK
<1>6. RowsOK' /\ KeptOK' /\ StartOK' /\ CreatedOK' /\ LocksOK'
  <2>1. RowsOK' /\ KeptOK'
      BY <1>2, <1>3 DEF IInv, RowsOK, KeptOK
  <2>2. StartOK'
      BY <1>1, <1>2, <1>3 DEF StartOK
  <2>3. CreatedOK'
      BY <1>1, <1>2, <1>3 DEF IInv, CreatedOK
  <2>4. LocksOK'
      BY <1>1, <1>5 DEF LocksOK
  <2>5. QED
      BY <2>1, <2>2, <2>3, <2>4
<1>7. JobsOK'
    BY <1>1, <1>5 DEF JobsOK, PutOK, MoveOK
<1>8. QED
    BY <1>4, <1>6, <1>7 DEF IInv

LEMMA RestartKeeps ==
    ASSUME IInv, Restart
    PROVE  IInv'
<1>1. /\ restarts < MaxRestarts /\ restarts' = restarts + 1
      /\ phase' = "read" /\ seen' = NoAccount
      /\ pc' = [p \in Procs |-> "idle"]
      /\ job' = [p \in Procs |-> NoJob]
      /\ existing' = [p \in Procs |-> FALSE]
      /\ missed' = [p \in Procs |-> {}]
      /\ tries' = [p \in Procs |-> 0]
      /\ UNCHANGED <<table, created, requests>>
      /\ TypeOK
    BY DEF Restart, IInv
<1>2. TypeOK'
  <2>1. restarts + 1 \in 0..MaxRestarts /\ 0 \in 0..MaxRetries
      BY <1>1, UpdatesAssumption DEF TypeOK
  <2>2. QED
      BY <1>1, <2>1 DEF TypeOK
<1>3. RowsOK' /\ KeptOK' /\ StartOK' /\ CreatedOK' /\ LocksOK'
    BY <1>1 DEF IInv, RowsOK, KeptOK, StartOK, CreatedOK, LocksOK
<1>4. JobsOK'
    BY <1>1 DEF JobsOK, PutOK, MoveOK
<1>5. QED
    BY <1>2, <1>3, <1>4 DEF IInv

LEMMA InitIsOK == Init => IInv
<1> SUFFICES ASSUME Init PROVE IInv
    OBVIOUS
<1>1. TypeOK
  <2>1. 0 \in 0..MaxRetries /\ 0 \in 0..MaxRequests /\ 0 \in 0..MaxRestarts
      BY UpdatesAssumption
  <2>2. QED
      BY <2>1, UpdatesAssumption DEF Init, TypeOK
<1>2. RowsOK /\ KeptOK
    BY UpdatesAssumption DEF Init, RowsOK, KeptOK
<1>3. StartOK /\ LocksOK
    BY DEF Init, StartOK, LocksOK
<1>4. CreatedOK
    BY DEF Init, CreatedOK
<1>5. JobsOK
    BY DEF Init, JobsOK, PutOK, MoveOK
<1>6. QED
    BY <1>1, <1>2, <1>3, <1>4, <1>5 DEF IInv

LEMMA StutterKeeps ==
    ASSUME IInv, UNCHANGED vars
    PROVE  IInv'
<1>1. UNCHANGED <<table, phase, seen, restarts, pc, job, existing, missed, tries,
                  created, requests>>
    BY DEF vars, start, procs
<1>2. TypeOK' /\ RowsOK' /\ KeptOK' /\ StartOK' /\ CreatedOK' /\ LocksOK'
    BY <1>1 DEF IInv, TypeOK, RowsOK, KeptOK, StartOK, CreatedOK, LocksOK
<1>3. JobsOK'
    BY <1>1 DEF IInv, JobsOK, PutOK, MoveOK, AllThere, Covered
<1>4. QED
    BY <1>2, <1>3 DEF IInv

LEMMA StepKeeps ==
    ASSUME NumbersAreAmounts, IInv, [Next]_vars
    PROVE  IInv'
<1>1. ASSUME NEW p \in Procs, NEW put \in Puts, ReceivePut(p, put) PROVE IInv'
    BY <1>1, ReceiveKeeps DEF Next
<1>2. ASSUME NEW p \in Procs, NEW move \in Moves, ReceiveTransfer(p, move) PROVE IInv'
    BY <1>2, ReceiveKeeps DEF Next
<1>3. ASSUME NEW p \in Procs, Select(p) \/ Upsert(p) \/ BeginTransfer(p) \/ WriteBalances(p)
      PROVE  IInv'
    BY <1>3, SelectKeeps, UpsertKeeps, BeginKeeps, WriteKeeps
<1>4. ASSUME NEW p \in Procs, UpsertFails(p) \/ WriteUncovered(p) PROVE IInv'
    BY <1>4, FinishKeeps DEF UpsertFails, WriteUncovered, CanWrite
<1>5. ASSUME NEW p \in Procs, WriteConflict(p) \/ CommitConflict(p) PROVE IInv'
    BY <1>5, RetryKeeps DEF WriteConflict, CommitConflict, CanWrite
<1>6. ASSUME NEW p \in Procs, CommitTransfer(p) PROVE IInv'
    BY <1>6, CommitKeeps
<1>7. CASE ReadRoot \/ WriteRoot \/ Restart
    BY <1>7, ReadRootKeeps, WriteRootKeeps, RestartKeeps
<1>8. CASE Quiescent \/ UNCHANGED vars
    BY <1>8, StutterKeeps DEF Quiescent
<1>9. QED
    BY <1>1, <1>2, <1>3, <1>4, <1>5, <1>6, <1>7, <1>8 DEF Next

LEMMA Inductive ==
    ASSUME NumbersAreAmounts
    PROVE  Spec => []IInv
<1>1. Init => IInv
    BY InitIsOK
<1>2. IInv /\ [Next]_vars => IInv'
    BY StepKeeps
<1>3. QED
    BY <1>1, <1>2, PTL DEF Spec

(* The variables have their types, and no request is retried too often.      *)
THEOREM Types ==
    ASSUME NumbersAreAmounts
    PROVE  Spec => []TypeOK
<1>1. IInv => TypeOK
    BY DEF IInv
<1>2. QED
    BY <1>1, Inductive, PTL

(* Of requests that race to create an account, one at most is told that it   *)
(* did, and none if there is the account already (upsert, putResource).      *)
THEOREM OneCreates ==
    ASSUME NumbersAreAmounts
    PROVE  Spec => []CreatedOnce
<1>1. IInv => CreatedOnce
  <2> SUFFICES ASSUME IInv, NEW n \in Names
               PROVE  created[n] <= (IF InitialBook[n] = NoAccount /\ n # Root
                                     THEN 1 ELSE 0)
      BY DEF CreatedOnce
  <2>1. created[n] = 0 \/ (created[n] = 1 /\ InitialBook[n] = NoAccount /\ n # Root)
      BY DEF IInv, CreatedOK
  <2>2. QED
      BY <2>1
<1>2. QED
    BY <1>1, Inductive, PTL

(* A new transfer takes nothing from an account that has been disabled by    *)
(* then, though it was validated before the balances were written.           *)
THEOREM DisabledKeepTheirMoney ==
    ASSUME NumbersAreAmounts
    PROVE  Spec => NothingFromDisabled
<1>1. IInv => \A p \in Procs :
          CommitTransfer(p) /\ job[p].first =>
              \A n \in Book!Debited(job[p]) : ~table[n].disabled
  <2> SUFFICES ASSUME IInv, NEW p \in Procs, pc[p] = "commit", job[p].first,
                      NEW n \in Book!Debited(job[p])
               PROVE  ~table[n].disabled
      BY DEF CommitTransfer
  <2>1. MoveOK(p)
      BY Serving
  <2>2. QED
      BY <2>1 DEF MoveOK, Book!Debited
<1>2. QED
    BY <1>1, Inductive, PTL DEF NothingFromDisabled

------------------------------------------------------------------------------
(* Each step that changes the table is an operation of the account book.     *)
LEMMA UpsertPuts ==
    ASSUME NumbersAreAmounts, IInv, NEW p \in Procs, Upsert(p)
    PROVE  Book!Next
<1>1. /\ pc[p] = "upsert" /\ KeyIsFree(p)
      /\ Book!WithinMinimum(Upserted(p))
      /\ table' = [table EXCEPT ![job[p].name] = Upserted(p)]
    BY DEF Upsert
<1>2. job[p] \in Puts /\ (existing[p] => table[job[p].name] # NoAccount)
    BY <1>1, Serving, UpsertedType
<1>3. existing[p] <=> table[job[p].name] # NoAccount
    BY <1>1, <1>2 DEF KeyIsFree
<1>4. Upserted(p) = Book!Rewritten(IF table[job[p].name] = NoAccount THEN Book!NewAccount
                                   ELSE table[job[p].name],
                                   Book!Converted(job[p].fields))
    BY <1>3 DEF Upserted
<1>5. Book!Put(job[p])
    BY <1>1, <1>4 DEF Book!Put, Book!Become
<1>6. QED
    BY <1>2, <1>5 DEF Book!Next

LEMMA CommitPays ==
    ASSUME IInv, NEW p \in Procs, CommitTransfer(p)
    PROVE  Book!Next
<1>1. pc[p] = "commit" /\ table' = Book!Adjusted(table, job[p])
    BY DEF CommitTransfer
<1>2. job[p] \in Moves /\ MoveOK(p)
    BY <1>1, Serving
<1>3. AllThere(job[p]) /\ Covered(job[p])
    BY <1>1, <1>2 DEF MoveOK
<1>4. job[p].first => \A n \in Book!Debited(job[p]) : ~table[n].disabled
    BY <1>1, <1>2 DEF MoveOK, Book!Debited
<1>5. Book!Pay(job[p])
    BY <1>1, <1>3, <1>4 DEF Book!Pay, AllThere, Covered
<1>6. QED
    BY <1>2, <1>5 DEF Book!Next

LEMMA WriteRootSeeds ==
    ASSUME NumbersAreAmounts, IInv, WriteRoot
    PROVE  Book!Next
<1>1. /\ phase = "write" /\ seen = RowRead
      /\ Book!WithinMinimum(Seeded)
      /\ table' = [table EXCEPT ![Root] = Seeded]
    BY DEF WriteRoot, RowRead, IInv, StartOK
<1>2. Seeded = IF table[Root] = NoAccount THEN Book!RootAccount
               ELSE [Book!Converted(table[Root]) EXCEPT !.credential = Configured]
    BY <1>1, RowReadType DEF Seeded, RowRead
<1>3. Book!Seed
    BY <1>1, <1>2 DEF Book!Seed, Book!Become
<1>4. QED
    BY <1>3 DEF Book!Next

(* No update is lost: every PUT, payment and seeding takes effect on what    *)
(* the table holds at that moment, whatever was read before, and whatever    *)
(* JavaScript's numbers make of the amounts.                                 *)
THEOREM Refinement ==
    ASSUME NumbersAreAmounts
    PROVE  Spec => ImplementsAccountBook
<1>1. Init => Book!Init
    BY DEF Init, Book!Init
<1>2. IInv /\ [Next]_vars => [Book!Next]_table
  <2> SUFFICES ASSUME IInv, [Next]_vars
               PROVE  Book!Next \/ UNCHANGED table
      OBVIOUS
  <2>1. ASSUME NEW p \in Procs, Upsert(p) PROVE Book!Next
      BY <2>1, UpsertPuts
  <2>2. ASSUME NEW p \in Procs, CommitTransfer(p) PROVE Book!Next
      BY <2>2, CommitPays
  <2>3. CASE WriteRoot
      BY <2>3, WriteRootSeeds
  <2>4. ASSUME NEW p \in Procs,
               \/ Select(p) \/ UpsertFails(p) \/ BeginTransfer(p) \/ WriteBalances(p)
               \/ WriteConflict(p) \/ WriteUncovered(p) \/ CommitConflict(p)
               \/ \E put \in Puts : ReceivePut(p, put)
               \/ \E move \in Moves : ReceiveTransfer(p, move)
        PROVE  UNCHANGED table
      BY <2>4 DEF Select, UpsertFails, BeginTransfer, WriteBalances, WriteConflict,
         WriteUncovered, CommitConflict, Retry, ReceivePut, ReceiveTransfer, Accept
  <2>5. CASE ReadRoot \/ Restart \/ Quiescent \/ UNCHANGED vars
      BY <2>5 DEF ReadRoot, Restart, Quiescent, vars
  <2>6. QED
      BY <2>1, <2>2, <2>3, <2>4, <2>5 DEF Next
<1>3. QED
    BY <1>1, <1>2, Inductive, PTL DEF Spec, ImplementsAccountBook, Book!Spec
=============================================================================
