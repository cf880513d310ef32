---------------------------- MODULE MCLedgerServer ----------------------------
(***************************************************************************)
(* Instances of LedgerServer.  alice escrows her whole balance for bob,    *)
(* under both kinds of condition, until time 1; the same balance also pays *)
(* bob unconditionally, so the two transfers compete for alice's row.      *)
(***************************************************************************)
EXTENDS LedgerServer, TLC

CONSTANTS alice, bob, escrow, payment

MCDebit == [t \in Transfers |-> alice :> (IF t = escrow THEN 2 ELSE 1)]
MCCredit == [t \in Transfers |-> bob :> (IF t = escrow THEN 2 ELSE 1)]
MCExpiresAt == [t \in Transfers |-> IF t = escrow THEN 1 ELSE NoTime]
BothExpire == [t \in Transfers |-> IF t = escrow THEN 1 ELSE 2]
MCInitialBalance == alice :> 2 @@ bob :> 0
AmpleBalance == alice :> 3 @@ bob :> 0
MCMinBalance == alice :> 0 @@ bob :> 0

Put(t, by, auth, rejectedBy) ==
    [id |-> t, by |-> by, auth |-> auth, rejectedBy |-> rejectedBy,
     reason |-> "none"]

PutExpired(t, by, auth) ==
    [Put(t, by, auth, {}) EXCEPT !.reason = "expired"]

AliceAgrees == {<<"debit", alice>>}

(* bob proposes, alice agrees, bob claims that she did or repeats what she   *)
(* sent, an admin agrees for her and declines for bob in one request.        *)
EscrowPuts == {
    Put(escrow, bob, {}, {}),
    Put(escrow, alice, AliceAgrees, {}),
    Put(escrow, bob, AliceAgrees, {}),
    Put(escrow, Admin, AliceAgrees, {bob})}

(* Here bob may propose with the rejection_reason of an expiry.              *)
PaymentPuts == {
    PutExpired(payment, bob, {}),
    Put(payment, alice, AliceAgrees, {}),
    Put(payment, Admin, AliceAgrees, {bob})}

AllPuts == EscrowPuts \cup PaymentPuts
(* The two requests that hold money, for the liveness runs.                  *)
AlicePuts == {Put(t, alice, AliceAgrees, {}) : t \in Transfers}

(* DB_RETRIES_* scaled down: once, so that giving up is reached, or more     *)
(* often than there are conflicting requests, so that it is not.             *)
RetryOnce == [op \in Ops |-> 1]
RetryEnough == [op \in Ops |-> 3]

ClientSymmetry == Permutations(Clients)
=============================================================================
