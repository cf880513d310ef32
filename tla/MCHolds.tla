------------------------------- MODULE MCHolds -------------------------------
(***************************************************************************)
(* Instances of Holds.  gift and back exchange money between carol and     *)
(* bob; split pays them long amounts under a condition, joint is paid to   *)
(* alice by all three.  A double has 8 bits here and an amount up to three *)
(* digits, about the proportion of 53 bits and 19 digits.                  *)
(***************************************************************************)
EXTENDS Holds, TLC

CONSTANTS alice, bob, carol, gift, back, split, joint

Numbers == INSTANCE Amounts WITH Exact <- 256
NumberTable == [n \in 1..999 |-> Numbers!ThroughNumber(n)]
MCAsNumber(n) == NumberTable[n]

MCDebit ==
    [t \in Transfers |->
        CASE t = gift -> carol :> 1
          [] t = back -> bob :> 1
          [] t = split -> alice :> 514
          [] t = joint -> alice :> 1 @@ bob :> 1 @@ carol :> 1]

MCCredit ==
    [t \in Transfers |->
        CASE t = gift -> bob :> 1
          [] t = back -> carol :> 1
          [] t = split -> bob :> 257 @@ carol :> 257
          [] t = joint -> alice :> 3]

(* A long amount that is paid at once.                                       *)
LongDebit == [MCDebit EXCEPT ![gift] = carol :> 257]
LongCredit == [MCCredit EXCEPT ![gift] = bob :> 257]

MCExpiresAt == [t \in Transfers |-> NoTime]
MCMinBalance == [a \in Accounts |-> 0]
MCBalance == alice :> 512 @@ bob :> 1 @@ carol :> 1
RichBalance == [a \in Accounts |-> 600]

MCNameRank == alice :> 1 @@ bob :> 2 @@ carol :> 3

(* Everybody agrees through an administrator.                                *)
Put(t, rejectedBy) ==
    [op |-> "put", id |-> t, by |-> Admin, auth |-> {"debit"} \X DOMAIN MCDebit[t],
     rejectedBy |-> rejectedBy, reason |-> "none", condition |-> "none"]

Fulfill(t, condition) ==
    [op |-> "fulfill", id |-> t, by |-> Admin, auth |-> {}, rejectedBy |-> {},
     reason |-> "none", condition |-> condition]

Expire(t) ==
    [op |-> "expire", id |-> t, by |-> Admin, auth |-> {}, rejectedBy |-> {},
     reason |-> "none", condition |-> "none"]

(* Two transfers under conditions, of which alice can afford one; joint      *)
(* expires, is cancelled and is declined, all at once; and a gift that is    *)
(* declined too late, after its statements.                                  *)
MCJob == <<
    Put(split, {}), Put(joint, {}), Fulfill(split, "execution"), Expire(joint),
    Put(joint, {alice}), Fulfill(joint, "cancellation"), Put(gift, {bob})>>

CrossingJobs == <<Put(gift, {}), Put(back, {})>>
LongJob == <<Put(gift, {})>>

(* Those whose retry may still succeed.                                      *)
MCMaxRetries ==
    [op \in {"put", "fulfill", "expire"} |-> IF op = "put" THEN 0 ELSE 1]

(* Amounts of two digits survive.  257 and 514 do not, though they have as   *)
(* many digits as validatePrecisionAmounts lets pass, in proportion.         *)
ASSUME \A n \in 1..255 : MCAsNumber(n) = n
ASSUME \A n \in {257, 514} : Numbers!Digits(n) <= 3 /\ MCAsNumber(n) # n

(* What Refinement of HoldsProofs presupposes holds here but for a long      *)
(* amount that is paid at once.                                              *)
ASSUME (\A t \in Transfers : RoundsSafely(t)) <=> (Debit = MCDebit)
==============================================================================
