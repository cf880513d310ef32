--------------------------- MODULE MCAccountUpdates ---------------------------
(***************************************************************************)
(* An instance of AccountUpdates: the administrator is not there yet, bob  *)
(* is created by one of two requests, alice is disabled, reduced or held   *)
(* to a minimum while she pays.  Numbers are exact up to 4 here: when two  *)
(* payments make the administrator's 3 a 5, a start makes that a 4.       *)
(***************************************************************************)
EXTENDS AccountUpdates, TLC

CONSTANTS alice, bob, root, NewKey

MCInitialBook ==
    [n \in Names |->
        IF n = alice
        THEN [balance |-> 2, minimum |-> 0, admin |-> FALSE,
              disabled |-> FALSE, credential |-> NoCredential]
        ELSE NoAccount]

Put(by, name, fields) == [by |-> by, name |-> name, fields |-> fields]

MCPuts == {
    Put(root, bob, [balance |-> 1]),
    Put(root, bob, [balance |-> 0, minimum |-> Unlimited]),
    Put(root, root, [balance |-> 3]),
    Put(root, alice, [disabled |-> TRUE]),
    Put(root, alice, [minimum |-> 1]),
    Put(root, alice, [balance |-> 1]),
    Put(alice, alice, [credential |-> NewKey])}

(* A hold, its return, a disbursal, and payments executed at once.           *)
Move(changes, first) == [changes |-> changes, first |-> first]

MCMoves == {
    Move(alice :> -2, TRUE),
    Move(alice :> 2, FALSE),
    Move(bob :> 1, FALSE),
    Move(alice :> -1 @@ bob :> 1, TRUE),
    Move(alice :> -1 @@ root :> 1, TRUE)}

Numbers == INSTANCE Amounts WITH Exact <- 4

ThroughDouble(n) ==
    CASE n = 0 -> 0
      [] n > 0 -> Numbers!ThroughNumber(n)
      [] n < 0 -> -Numbers!ThroughNumber(-n)

ProcSymmetry == Permutations(Procs)
=============================================================================
