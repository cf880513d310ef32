------------------------------ MODULE TimerWorker ------------------------------
(***************************************************************************)
(* The timer of src/src/lib/timerWorker.js over the real heap of           *)
(* src/src/lib/timeQueue.js, driven by watch and unwatch of                *)
(* src/src/lib/transferExpiryMonitor.js.                                   *)
(*                                                                         *)
(* A run is one call of processTimeQueue, started by an insertion or by    *)
(* the timer.  It pops the due items, awaits their expiry one after the    *)
(* other, and sets the timer again; runs overlap.  The transactions behind *)
(* an expiry are in LedgerServer; here one may only succeed or fail.       *)
(***************************************************************************)
EXTENDS TimeQueue

CONSTANTS
    Runs,            \* slots for runs of processTimeQueue in progress or failed
    Unwatchable,     \* the items some request finalizes before they expire
    MaxTimeout,      \* MAX_32INT, the longest timeout there is
    MaxTime          \* bound: the clock stops here

NoTime == -1

ASSUME WorkerAssumption ==
    /\ Unwatchable \subseteq Items
    /\ MaxTimeout \in Nat \ {0}
    /\ MaxTime \in Nat

VARIABLES
    now,        \* the clock
    elements,   \* TimeQueue._queue._elements
    timeout,    \* when TimerWorker.timeout fires, or NoTime
    pc,         \* pc[r]: the await run r is at
    batch,      \* batch[r]: what r has popped and has yet to expire
    removed     \* whether an item was ever removed

vars == <<now, elements, timeout, pc, batch, removed>>

Init ==
    /\ now = 0
    /\ elements = <<>>
    /\ timeout = NoTime
    /\ pc = [r \in Runs |-> "idle"]
    /\ batch = [r \in Runs |-> <<>>]
    /\ removed = FALSE

(* Faulty variant of Watch: includes is not asked.                           *)
WatchAgain(r, x) ==
    /\ pc[r] = "idle"
    /\ now < Date[x]
    /\ Len(elements) < 4
    /\ elements' = Enq(elements, x)
    /\ pc' = [pc EXCEPT ![r] = "pop"]
    /\ UNCHANGED <<now, timeout, batch, removed>>

(* watch: an item that is not yet watched and not yet due is inserted, which *)
(* wakes the listener of the worker.                                         *)
Watch(r, x) ==
    /\ pc[r] = "idle"
    /\ ~Includes(elements, x)
    /\ now < Date[x]
    /\ elements' = Enq(elements, x)
    /\ pc' = [pc EXCEPT ![r] = "pop"]
    /\ UNCHANGED <<now, timeout, batch, removed>>

Unwatch(x) ==
    /\ x \in Unwatchable
    /\ Includes(elements, x)
    /\ elements' = RemoveItem(elements, x)
    /\ removed' = TRUE
    /\ UNCHANGED <<now, timeout, pc, batch>>

Fire(r) ==
    /\ pc[r] = "idle"
    /\ timeout # NoTime
    /\ timeout <= now
    /\ timeout' = NoTime
    /\ pc' = [pc EXCEPT ![r] = "pop"]
    /\ UNCHANGED <<now, elements, batch, removed>>

Pop(r) ==
    /\ pc[r] = "pop"
    /\ \E popped \in {PopBeforeDate(elements, now)} :
          /\ elements' = popped.rest
          /\ batch' = [batch EXCEPT ![r] = popped.items]
    /\ pc' = [pc EXCEPT ![r] = "expire"]
    /\ UNCHANGED <<now, timeout, removed>>

(* One round of the loop of processExpiredTransfers.                         *)
Expire(r) ==
    /\ pc[r] = "expire"
    /\ batch[r] # <<>>
    /\ batch' = [batch EXCEPT ![r] = Tail(@)]
    /\ UNCHANGED <<now, elements, timeout, pc, removed>>

(* expireTransfer throws: the loop and the run end there, and no timer is    *)
(* set.                                                                      *)
Fail(r) ==
    /\ pc[r] = "expire"
    /\ batch[r] # <<>>
    /\ batch' = [batch EXCEPT ![r] = <<>>]
    /\ pc' = [pc EXCEPT ![r] = "failed"]
    /\ UNCHANGED <<now, elements, timeout, removed>>

(* How long to wait for the root of the queue.                               *)
TimeLeft == GetEarliestDate(elements) - now

(* Faulty variants of NextTimeout: no limit; a timeout that is too long      *)
(* fires at once, or is not set; one that is set is not replaced.            *)
UnlimitedTimeout == IF elements = <<>> THEN NoTime ELSE now + TimeLeft

TimeoutAtOnce ==
    IF elements = <<>> THEN NoTime
    ELSE IF TimeLeft > MaxTimeout THEN now ELSE now + TimeLeft

TimeoutWithinLimit ==
    IF elements = <<>> \/ TimeLeft > MaxTimeout THEN NoTime ELSE now + TimeLeft

TimeoutSetOnce ==
    IF timeout # NoTime \/ elements = <<>> THEN timeout
    ELSE now + Min({TimeLeft, MaxTimeout})

(* For the date at the root, or for as late as possible, when the root will  *)
(* be looked at again.                                                       *)
NextTimeout ==
    IF elements = <<>> THEN NoTime ELSE now + Min({TimeLeft, MaxTimeout})

(* The old timer is cleared and a new one set.                               *)
Arm(r) ==
    /\ pc[r] = "expire"
    /\ batch[r] = <<>>
    /\ timeout' = NextTimeout
    /\ pc' = [pc EXCEPT ![r] = "idle"]
    /\ UNCHANGED <<now, elements, batch, removed>>

Tick ==
    /\ now < MaxTime
    /\ now' = now + 1
    /\ UNCHANGED <<elements, timeout, pc, batch, removed>>

(* The bound is reached and nothing is going on: not a deadlock.             *)
Quiescent ==
    /\ now = MaxTime
    /\ \A r \in Runs : pc[r] \in {"idle", "failed"}
    /\ timeout = NoTime \/ timeout > now \/ \A r \in Runs : pc[r] = "failed"
    /\ UNCHANGED vars

Continue(r) == Pop(r) \/ Expire(r) \/ Fail(r) \/ Arm(r)

Next ==
    \/ \E r \in Runs, x \in Items : Watch(r, x)
    \/ \E x \in Items : Unwatch(x)
    \/ \E r \in Runs : Fire(r)
    \/ \E r \in Runs : Continue(r)
    \/ Tick
    \/ Quiescent

Spec == Init /\ [][Next]_vars

(* Expiries end, the clock advances, and a timer that is due fires.          *)
FairSpec ==
    /\ Spec
    /\ \A r \in Runs : WF_vars(Continue(r)) /\ WF_vars(Fire(r))
    /\ WF_vars(Tick)

------------------------------------------------------------------------------
(* The types; no timeout is longer than setTimeout takes.                    *)
TypeOK ==
    /\ now \in 0..MaxTime
    /\ elements \in Seq(Items)
    /\ timeout \in {NoTime} \cup 0..(now + MaxTimeout)
    /\ pc \in [Runs -> {"idle", "pop", "expire", "failed"}]
    /\ batch \in [Runs -> Seq(Items)]
    /\ removed \in BOOLEAN

Idle == \A r \in Runs : pc[r] = "idle"

(* No item is in the queue twice, or in the queue and in the hands of a run: *)
(* includes and the position of the items in the array do not matter.        *)
HeldOnce ==
    /\ IsInjective(elements)
    /\ \A r \in Runs : Range(batch[r]) \cap Range(elements) = {}
    /\ \A r, s \in Runs : r # s => Range(batch[r]) \cap Range(batch[s]) = {}

(* "Return all items that are due on or before the provided date"            *)
(* (src/src/lib/timeQueue.js): a pop leaves nothing behind that is due, as   *)
(* long as nothing was ever removed.                                         *)
AllDuePopped ==
    [][\A r \in Runs : pc[r] = "pop" /\ pc'[r] = "expire" =>
          removed \/ \A x \in Range(elements') : Date[x] > now]_vars

(* Whoever is in the queue will not be overlooked: the timer is set for no   *)
(* later than the earliest date, unless a run is about to set it or has      *)
(* failed before it could, or a removal has disordered the queue             *)
(* (processTimeQueue).                                                       *)
TimerInTime ==
    Idle /\ ~removed => \A x \in Range(elements) : timeout # NoTime /\ timeout <= Date[x]

(* The worker never turns in circles: a timer is set to fire at once only if *)
(* something is due, though timeouts are limited (MAX_32INT).                *)
NoBusyLoop ==
    [][timeout' # timeout /\ timeout' # NoTime /\ timeout' <= now =>
          \E x \in Range(elements) : Date[x] <= now]_vars

(* What LedgerServer's Pop assumes of the heap holds when removals have left *)
(* the array unordered, too: only due items are popped, none is lost, and it *)
(* is an item that is not due that ends the loop.                            *)
PopsAsAssumed ==
    [][\A r \in Runs : pc[r] = "pop" /\ pc'[r] = "expire" =>
          /\ \A x \in Range(batch'[r]) : Date[x] <= now
          /\ Range(batch'[r]) \cup Range(elements') = Range(elements)
          /\ elements' = <<>> \/ \E x \in Range(elements') : Date[x] > now]_vars

(* What is watched leaves the queue in the end, even when removals have left *)
(* the array unordered and timeouts are shorter than the wait, unless a run  *)
(* fails (popBeforeDate, processTimeQueue).                                  *)
WatchedIsPopped ==
    \A x \in Items :
        x \in Range(elements) ~>
            x \notin Range(elements) \/ \E r \in Runs : pc[r] = "failed"
=============================================================================
