-------------------------------- MODULE Receipts --------------------------------
(***************************************************************************)
(* The receipts of GET /transfers/:id/state (getTransferStateReceipt of    *)
(* src/src/models/transfers.js) over the committed states of Ledger.       *)
(*                                                                         *)
(* A receipt of either type binds the transfer to its present state by a   *)
(* signature.  One of type sha256 may also carry the digest of the receipt *)
(* there would be in another state, which others use as a condition: its   *)
(* preimage contains a signature too, and a hash does not tell it.         *)
(***************************************************************************)
EXTENDS Ledger

VARIABLE shown     \* shown[t]: the states of t whose signed message somebody has

receiptVars == <<vars, shown>>

ReceiptsInit ==
    /\ Init
    /\ shown = [t \in Transfers |-> {}]

(* What a receipt reveals; condition is the condition_state that is asked    *)
(* for, or "none".  Faulty variant: the message itself comes with its digest.*)
RevealedWithCondition(t, condition) == {state[t]} \cup ({condition} \ {"none"})

Revealed(t, condition) == {state[t]}

(* An unknown transfer gets a receipt, too: that it does not exist.          *)
GetReceipt(t, condition) ==
    /\ shown' = [shown EXCEPT ![t] = @ \cup Revealed(t, condition)]
    /\ UNCHANGED vars

ReceiptsNext ==
    \/ Next /\ UNCHANGED shown
    \/ \E t \in Transfers, condition \in States \cup {"none"} : GetReceipt(t, condition)

ReceiptsSpec == ReceiptsInit /\ [][ReceiptsNext]_receiptVars

------------------------------------------------------------------------------
(* Whoever pays against a receipt of a final state, or against the preimage  *)
(* of its digest, can rely on it: the transfer has come to that state and    *)
(* stays there, no receipt of the other outcome is ever signed, and behind   *)
(* an execution that awaited a condition there is its fulfilment             *)
(* (makeTransferStateMessage, makeSha256Receipt).                            *)
FinalReceiptsHold ==
    \A t \in Transfers : \A s \in shown[t] \cap FinalStates :
        /\ state[t] = s
        /\ s = "executed" /\ t \in HasExecution => fulfillment[t] = "execution"
=============================================================================
