------------------------------- MODULE MCLedger -------------------------------
(***************************************************************************)
(* Ledger and its receipts with three accounts and five transfers: an      *)
(* escrow with both conditions and two senders, a payment back against the *)
(* same balances, a transfer from an account to itself, one whose amounts  *)
(* do not add up and one with a negative debit.                            *)
(***************************************************************************)
EXTENDS Receipts, TLC

CONSTANTS alice, bob, carol, escrow, payment, own, unbalanced, negative

MCDebit ==
    escrow :> (alice :> 2 @@ carol :> 1) @@ payment :> (bob :> 2)
    @@ own :> (carol :> 1) @@ unbalanced :> (alice :> 1)
    @@ negative :> (alice :> -1 @@ carol :> 2)

MCCredit ==
    escrow :> (bob :> 3) @@ payment :> (alice :> 1 @@ carol :> 1)
    @@ own :> (carol :> 1) @@ unbalanced :> (bob :> 2)
    @@ negative :> (bob :> 1)

MCExpiresAt == [t \in Transfers |-> NoTime]
MCInitialBalance == alice :> 2 @@ bob :> 1 @@ carol :> 1
MCMinBalance == alice :> 0 @@ bob :> -1 @@ carol :> 0
=============================================================================
