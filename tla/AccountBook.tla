------------------------------ MODULE AccountBook ------------------------------
(***************************************************************************)
(* What the accounts promise: a PUT of an account, a payment and the       *)
(* seeding of the administrator each happen at once, and each works on     *)
(* what is in the book then.  AccountUpdates implements this module.       *)
(***************************************************************************)
EXTENDS Integers

CONSTANTS
    Names,           \* account names
    Root,            \* default_admin.user
    Credentials,     \* password hashes, keys and fingerprints
    NoCredential,    \* a NULL in these columns
    Configured,      \* the credential of default_admin
    Unlimited,       \* the minimum "-infinity", a NULL in the column
    NoAccount,       \* no such row
    ToScale(_),      \* a balance as JavaScript's Number(...) to the configured
                     \* scale: a decimal beyond a double becomes another one
    ToNumber(_),     \* a minimum as Number(...)
    InitialBook,     \* the accounts when the server is first started
    Puts,            \* requests: PUT /accounts/:name
    Moves            \* what single requests for transfers do to the balances

FieldNames == {"balance", "minimum", "admin", "disabled", "credential"}

Accounts == [balance : Int, minimum : Int \cup {Unlimited}, admin : BOOLEAN,
             disabled : BOOLEAN, credential : Credentials]

VARIABLE book      \* book[n]: the account n, or NoAccount

(* The defaults of the table.                                                *)
NewAccount == [balance |-> 0, minimum |-> 0, admin |-> FALSE,
               disabled |-> FALSE, credential |-> NoCredential]

(* The administrator of an empty database (setupAdminAccount).               *)
RootAccount == [balance |-> 0, minimum |-> Unlimited, admin |-> TRUE,
                disabled |-> FALSE, credential |-> Configured]

(* Columns that an UPDATE does not set keep their values.                    *)
Rewritten(account, fields) ==
    [f \in FieldNames |->
        IF f \in DOMAIN fields THEN fields[f] ELSE account[f]]

(* convertFromPersistent, and convertToPersistent of what clients sent: the  *)
(* amounts go through a number.                                              *)
Converted(fields) ==
    [f \in DOMAIN fields |->
        CASE f = "balance" -> ToScale(fields[f])
          [] f = "minimum" /\ fields[f] # Unlimited -> ToNumber(fields[f])
          [] OTHER -> fields[f]]

(* The CHECK on BALANCE.                                                     *)
WithinMinimum(account) ==
    account.minimum # Unlimited => account.balance >= account.minimum

Debited(move) == {n \in DOMAIN move.changes : move.changes[n] < 0}

Adjusted(accounts, move) ==
    [n \in Names |->
        IF n \in DOMAIN move.changes
        THEN [accounts[n] EXCEPT !.balance = @ + move.changes[n]]
        ELSE accounts[n]]

Init == book = InitialBook

Become(n, account) ==
    /\ WithinMinimum(account)
    /\ book' = [book EXCEPT ![n] = account]

Put(put) ==
    Become(put.name,
           Rewritten(IF book[put.name] = NoAccount THEN NewAccount
                     ELSE book[put.name], Converted(put.fields)))

(* A start of the server gives the administrator its configured credential,  *)
(* and the balance and the minimum that JavaScript makes of those it has.    *)
Seed ==
    Become(Root, IF book[Root] = NoAccount THEN RootAccount
                 ELSE [Converted(book[Root]) EXCEPT !.credential = Configured])

(* Nobody falls below its minimum, and a new transfer takes nothing from an  *)
(* account that is disabled.                                                 *)
Pay(move) ==
    /\ \A n \in DOMAIN move.changes : book[n] # NoAccount
    /\ \A n \in Debited(move) : WithinMinimum(Adjusted(book, move)[n])
    /\ move.first => \A n \in Debited(move) : ~book[n].disabled
    /\ book' = Adjusted(book, move)

Next ==
    \/ \E put \in Puts : Put(put)
    \/ \E move \in Moves : Pay(move)
    \/ Seed

Spec == Init /\ [][Next]_book
=============================================================================
