------------------------------- MODULE TimeQueue -------------------------------
(***************************************************************************)
(* The queue of src/src/lib/timeQueue.js: a binary heap in an array, with  *)
(* the earliest date at the root, and the one operation that reaches into  *)
(* the array behind the heap's back, remove.  Operators only; TimerWorker  *)
(* gives them a state.                                                     *)
(*                                                                         *)
(* The heap is the package priorityqueuejs.  Positions start at 1, so the  *)
(* parent of i is i \div 2.                                                *)
(***************************************************************************)
EXTENDS Integers, SequencesExt

CONSTANTS
    Items,     \* transfer ids
    Date       \* Date[x]: the expires_at an item is inserted with

ASSUME DateAssumption == Date \in [Items -> Nat]

Earlier(queue, i, j) == Date[queue[i]] < Date[queue[j]]

Exchange(queue, i, j) == [queue EXCEPT ![i] = queue[j], ![j] = queue[i]]

(* A queue and a place in its array.                                         *)
Places == {at \in Seq(Items) \X Nat : at[2] \in DOMAIN at[1]}

(* enq: the new item rises while it is earlier than its parent.              *)
Rise[at \in Places] ==
    LET queue == at[1]
        i == at[2]
    IN IF i > 1 /\ Earlier(queue, i, i \div 2)
       THEN Rise[<<Exchange(queue, i, i \div 2), i \div 2>>]
       ELSE queue

(* Faulty variant of Enq: the new item stays where it is put.                *)
EnqAtEnd(queue, x) == Append(queue, x)

Enq(queue, x) == Rise[<<Append(queue, x), Len(queue) + 1>>]

(* deq: the last item takes the place of the first and sinks, each time      *)
(* below the earlier of its children.                                        *)
Children(queue, i) == {2 * i, 2 * i + 1} \cap DOMAIN queue

EarliestChild(queue, i) ==
    CHOOSE j \in Children(queue, i) :
        \A k \in Children(queue, i) : ~Earlier(queue, k, j)

Sink[at \in Places] ==
    LET queue == at[1]
        i == at[2]
        j == EarliestChild(queue, i)
    IN IF Children(queue, i) = {} \/ Earlier(queue, i, j)
       THEN queue
       ELSE Sink[<<Exchange(queue, i, j), j>>]

Deq(queue) ==
    IF Len(queue) = 1 THEN <<>>
    ELSE Sink[<<[Front(queue) EXCEPT ![1] = Last(queue)], 1>>]

(* getEarliestDate: the date at the root.                                    *)
GetEarliestDate(queue) == Date[Head(queue)]

Includes(queue, x) == Contains(queue, x)

(* remove: the array closes the gap, and is not made a heap again.  An item  *)
(* is in the queue once (HeldOnce), so that there is one gap.                *)
RemoveItem(queue, x) ==
    RemoveAt(queue, CHOOSE i \in DOMAIN queue : queue[i] = x)

(* popBeforeDate: what is taken off the root while it is due, and the rest.  *)
Pops == [items : Seq(Items), rest : Seq(Items), date : Int]

PopWhileDue[popped \in Pops] ==
    IF popped.rest = <<>> \/ GetEarliestDate(popped.rest) > popped.date
    THEN popped
    ELSE PopWhileDue[[items |-> Append(popped.items, Head(popped.rest)),
                      rest |-> Deq(popped.rest),
                      date |-> popped.date]]

(* Faulty variant: an item that is due this very moment is left behind.      *)
PopStrictlyBefore(queue, date) ==
    PopWhileDue[[items |-> <<>>, rest |-> queue, date |-> date - 1]]

PopBeforeDate(queue, date) ==
    PopWhileDue[[items |-> <<>>, rest |-> queue, date |-> date]]
=============================================================================
