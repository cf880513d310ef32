-------------------------- MODULE LedgerOutcomeProofs --------------------------
(***************************************************************************)
(* What the server's tables and notifications say about the past: who      *)
(* agreed, when a transfer was fulfilled or given up, which entries were   *)
(* written and what was announced, and whom the timer serves, for any      *)
(* number of clients, transfers, accounts, retries, failures and restarts. *)
(*                                                                         *)
(* The argument: what a call chain checked under its snapshot (marks,      *)
(* deadline) is checked again by each retry, and stays true until the      *)
(* commit that depends on it; IInv of LedgerServerProofs says that the row *)
(* it checked is the one the commit replaces.                              *)
(***************************************************************************)
EXTENDS LedgerServerProofs

Expired(t) == ExpiresAt[t] # NoTime /\ ExpiresAt[t] <= now

(* Only requests PUT a transfer.                                             *)
RequestOK(p) ==
    pc[p] \in {"begin", "write", "commit"} /\ job[p].op = "put" => p \in Clients

(* What the transaction found of its request before it wrote.                *)
AcceptedOK(p) ==
    pc[p] \in {"write", "commit"} =>
        /\ job[p].op = "put" => PutAccepted(job[p].id, snap[p], job[p])
        /\ job[p].op = "fulfill" =>
              readAt[p] # NoTime /\ NotExpired(job[p].id, readAt[p])

(* A transfer is popped and expired when its time has come.                  *)
ExpiryOK(p) ==
    /\ \A t \in due[p] : Expired(t)
    /\ pc[p] \in {"begin", "write", "commit"} /\ job[p].op = "expire" =>
          Expired(job[p].id)

(* An outcome that is about to be announced after its commit is the one in   *)
(* the tables.                                                               *)
OutcomeOK(p) ==
    pc[p] = "notify" /\ IsFinal(plan[p].row.state) =>
        row[job[p].id].state = plan[p].row.state

ChainOK(p) == RequestOK(p) /\ AcceptedOK(p) /\ ExpiryOK(p) /\ OutcomeOK(p)

WatchedExpire == \A t \in queue : ExpiresAt[t] # NoTime

AnnouncedOK == AnnouncedIsExecuted /\ AnnouncedIsRejected

OutcomeInv ==
    /\ \A p \in Procs : ChainOK(p)
    /\ WatchedExpire
    /\ DeadlinesKept
    /\ SendersAgreed
    /\ EntriesMatchState
    /\ AnnouncedOK

------------------------------------------------------------------------------
(* A step of one call chain that commits nothing.                            *)
Alone(p) ==
    /\ Frame(p)
    /\ \A q \in Procs \ {p} : due'[q] = due[q]
    /\ UNCHANGED <<now, entries>>

LEMMA AloneKeeps ==
    ASSUME OutcomeInv, NEW p \in Procs, Alone(p), ChainOK(p)',
           WatchedExpire', AnnouncedOK'
    PROVE  OutcomeInv'
<1>1. ASSUME NEW q \in Procs \ {p} PROVE ChainOK(q)'
  <2>1. /\ pc'[q] = pc[q] /\ job'[q] = job[q] /\ snap'[q] = snap[q]
        /\ readAt'[q] = readAt[q] /\ plan'[q] = plan[q] /\ due'[q] = due[q]
        /\ row' = row /\ now' = now
      BY DEF Alone, Frame
  <2>2. ChainOK(q)
      BY DEF OutcomeInv
  <2>3. RequestOK(q)' /\ AcceptedOK(q)'
      BY <2>1, <2>2 DEF ChainOK, RequestOK, AcceptedOK
  <2>4. ExpiryOK(q)' /\ OutcomeOK(q)'
      BY <2>1, <2>2 DEF ChainOK, ExpiryOK, Expired, OutcomeOK
  <2>5. QED
      BY <2>3, <2>4 DEF ChainOK
<1>2. DeadlinesKept' /\ SendersAgreed' /\ EntriesMatchState'
    BY DEF OutcomeInv, Alone, Frame, DeadlinesKept, SendersAgreed, EntriesMatchState
<1>3. QED
    BY <1>1, <1>2 DEF OutcomeInv

(* ... and that announces nothing and watches no new transfer.               *)
LEMMA SilentKeeps ==
    ASSUME OutcomeInv, NEW p \in Procs, Alone(p), ChainOK(p)',
           queue' \subseteq queue, UNCHANGED sent
    PROVE  OutcomeInv'
<1>1. WatchedExpire'
    BY DEF OutcomeInv, WatchedExpire
<1>2. AnnouncedOK'
    BY DEF OutcomeInv, AnnouncedOK, AnnouncedIsExecuted, AnnouncedIsRejected, Alone, Frame
<1>3. QED
    BY <1>1, <1>2, AloneKeeps

(* A process outside a transaction answers for the transfers it popped only. *)
LEMMA OutsideOK ==
    ASSUME NEW p \in Procs, pc'[p] \notin {"begin", "write", "commit", "notify"},
           \A t \in due'[p] : Expired(t)'
    PROVE  ChainOK(p)'
    BY DEF ChainOK, RequestOK, AcceptedOK, ExpiryOK, OutcomeOK

LEMMA FinishOutcome ==
    ASSUME TypeOK, OutcomeInv, NEW p \in Procs, Finish(p), UNCHANGED <<now, tables>>
    PROVE  Alone(p) /\ ChainOK(p)'
<1>1. /\ pc'[p] = "idle" /\ due'[p] = {}
      /\ Alone(p)
    BY DEF TypeOK, Finish, Alone, Frame, tables
<1>2. QED
    BY <1>1, OutsideOK

LEMMA BackToDrainOutcome ==
    ASSUME TypeOK, OutcomeInv, NEW p \in Procs, BackToDrain(p),
           UNCHANGED <<now, tables, missed>>
    PROVE  Alone(p) /\ ChainOK(p)'
<1>1. pc'[p] = "drain" /\ due' = due /\ now' = now /\ Alone(p)
    BY DEF TypeOK, BackToDrain, Alone, Frame, tables
<1>2. \A t \in due'[p] : Expired(t)'
    BY <1>1 DEF OutcomeInv, ChainOK, ExpiryOK, Expired
<1>3. QED
    BY <1>1, <1>2, OutsideOK

(* A retry keeps the request, and checks it again.                           *)
LEMMA RetryOutcome ==
    ASSUME TypeOK, OutcomeInv, NEW p \in Procs, NEW reason, Retry(p, reason),
           pc[p] \in {"begin", "write", "commit"}, UNCHANGED <<now, tables>>
    PROVE  Alone(p) /\ ChainOK(p)'
<1>1. CASE Finish(p)
    BY <1>1, FinishOutcome
<1>2. CASE /\ pc' = [pc EXCEPT ![p] = "begin"]
           /\ job' = [job EXCEPT ![p] = [@ EXCEPT !.reason = reason]]
           /\ snap' = [snap EXCEPT ![p] = NoRow]
           /\ readAt' = [readAt EXCEPT ![p] = NoTime]
           /\ missed' = [missed EXCEPT ![p] = {}]
           /\ plan' = [plan EXCEPT ![p] = NoPlan]
           /\ UNCHANGED due
  <2> DEFINE again == [job[p] EXCEPT !.reason = reason]
  <2>1. again.op = job[p].op /\ again.id = job[p].id /\ again.reason = reason
    <3>1. job[p] \in Jobs
        BY DEF TypeOK
    <3>2. QED
        BY <3>1 DEF Jobs
  <2> HIDE DEF again
  <2>2. job' = [job EXCEPT ![p] = again]
      BY <1>2 DEF again, TypeOK
  <2>3. /\ Alone(p) /\ pc'[p] = "begin" /\ job'[p] = again
        /\ due' = due /\ now' = now /\ row' = row
    <3>1. /\ pc' = [pc EXCEPT ![p] = "begin"]
          /\ snap' = [snap EXCEPT ![p] = NoRow]
          /\ readAt' = [readAt EXCEPT ![p] = NoTime]
          /\ missed' = [missed EXCEPT ![p] = {}]
          /\ plan' = [plan EXCEPT ![p] = NoPlan]
          /\ due' = due
        BY <1>2
    <3>2. QED
        BY <2>2, <3>1 DEF TypeOK, Alone, Frame, tables
  <2>4. RequestOK(p) /\ ExpiryOK(p)
      BY DEF OutcomeInv, ChainOK
  <2>5. RequestOK(p)'
      BY <2>1, <2>3, <2>4 DEF RequestOK
  <2>6. ExpiryOK(p)'
      BY <2>1, <2>3, <2>4 DEF ExpiryOK, Expired
  <2>7. QED
      BY <2>3, <2>5, <2>6 DEF ChainOK, AcceptedOK, OutcomeOK
<1>3. QED
    BY <1>1, <1>2 DEF Retry

------------------------------------------------------------------------------
(* One lemma per kind of step, as for IInv.                                  *)
LEMMA ReceiveOutcome ==
    ASSUME TypeOK, OutcomeInv, NEW c \in Clients, Receive(c)
    PROVE  OutcomeInv'
<1>1. c \in Procs
    BY DEF Procs
<1>2. ASSUME NEW request, Accept(c, request), request.op # "expire"
      PROVE  OutcomeInv'
  <2>1. /\ Alone(c) /\ pc'[c] = "begin" /\ job'[c] = request
        /\ due' = due /\ now' = now /\ row' = row /\ queue' = queue /\ sent' = sent
      BY <1>1, <1>2 DEF TypeOK, Accept, Goto, Alone, Frame, tables, expiry
  <2>2. ExpiryOK(c)
      BY <1>1 DEF OutcomeInv, ChainOK
  <2>3. RequestOK(c)' /\ ExpiryOK(c)'
      BY <1>2, <2>1, <2>2 DEF RequestOK, ExpiryOK, Expired
  <2>4. ChainOK(c)'
      BY <2>1, <2>3 DEF ChainOK, AcceptedOK, OutcomeOK
  <2>5. QED
      BY <1>1, <2>1, <2>4, SilentKeeps
<1>3. CASE ReceivePut(c)
    BY <1>2, <1>3 DEF ReceivePut
<1>4. CASE ReceiveRejection(c)
    BY <1>2, <1>4 DEF ReceiveRejection
<1>5. CASE ReceiveFulfillment(c)
    BY <1>2, <1>5 DEF ReceiveFulfillment
<1>6. QED
    BY <1>3, <1>4, <1>5 DEF Receive

LEMMA BeginOutcome ==
    ASSUME TypeOK, OutcomeInv, NEW p \in Procs, Begin(p)
    PROVE  OutcomeInv'
<1> DEFINE t == job[p].id
<1>1. ASSUME Refuse(p) PROVE OutcomeInv'
  <2>1. Finish(p) /\ UNCHANGED <<now, tables>> /\ queue' = queue /\ sent' = sent
      BY <1>1 DEF Refuse, expiry
  <2>2. QED
      BY <2>1, FinishOutcome, SilentKeeps
<1>2. ASSUME ReplayFulfillment(p) PROVE OutcomeInv'
  <2>1. /\ Alone(p) /\ pc'[p] = "notify" /\ job' = job /\ plan'[p].row = row[t]
        /\ due' = due /\ now' = now /\ row' = row /\ queue' = queue /\ sent' = sent
      BY <1>2 DEF TypeOK, ReplayFulfillment, Goto, Alone, Frame, tables, expiry
  <2>2. ExpiryOK(p)' /\ OutcomeOK(p)'
      BY <2>1 DEF OutcomeInv, ChainOK, ExpiryOK, Expired, OutcomeOK
  <2>3. ChainOK(p)'
      BY <2>1, <2>2 DEF ChainOK, RequestOK, AcceptedOK
  <2>4. QED
      BY <2>1, <2>3, SilentKeeps
<1>3. ASSUME BackToDrain(p), UNCHANGED <<now, tables, expiry, missed, sent, requests, crashes>>
      PROVE  OutcomeInv'
  <2>1. UNCHANGED <<now, tables, missed>> /\ queue' = queue /\ sent' = sent
      BY <1>3 DEF expiry
  <2>2. QED
      BY <1>3, <2>1, BackToDrainOutcome, SilentKeeps
<1>4. ASSUME Read(p),
             job[p].op = "put" => PutAccepted(t, row[t], job[p]),
             job[p].op = "fulfill" => NotExpired(t, now)
      PROVE  OutcomeInv'
  <2>1. /\ Alone(p) /\ pc[p] = "begin" /\ pc'[p] = "write" /\ job' = job
        /\ snap'[p] = row[t] /\ readAt'[p] = now
        /\ due' = due /\ now' = now /\ row' = row /\ queue' = queue /\ sent' = sent
      BY <1>4 DEF TypeOK, Read, Goto, Alone, Frame, tables, expiry
  <2>2. RequestOK(p)' /\ ExpiryOK(p)'
      BY <2>1 DEF OutcomeInv, ChainOK, RequestOK, ExpiryOK, Expired
  <2>3. now # NoTime
      BY DEF TypeOK, NoTime
  <2>4. AcceptedOK(p)'
      BY <1>4, <2>1, <2>3 DEF AcceptedOK
  <2>5. ChainOK(p)'
      BY <2>1, <2>2, <2>4 DEF ChainOK, OutcomeOK
  <2>6. QED
      BY <2>1, <2>5, SilentKeeps
<1>5. CASE BeginPut(p)
    BY <1>1, <1>4, <1>5 DEF BeginPut
<1>6. CASE BeginFulfill(p)
    BY <1>1, <1>2, <1>4, <1>6 DEF BeginFulfill, FulfillmentValid
<1>7. CASE BeginExpire(p)
    BY <1>3, <1>4, <1>7 DEF BeginExpire
<1>8. QED
    BY <1>5, <1>6, <1>7 DEF Begin

LEMMA WriteOutcome ==
    ASSUME TypeOK, OutcomeInv, NEW p \in Procs, Write(p)
    PROVE  OutcomeInv'
<1>1. pc[p] = "write"
    BY DEF Write, WritePut, WritePutUncovered, WritePutConflict, WriteFulfill,
           WriteFulfillConflict, WriteExpire, WriteExpireConflict
<1>2. ASSUME Finish(p), UNCHANGED <<now, tables, sent>>, queue' \subseteq queue
      PROVE  OutcomeInv'
    BY <1>2, FinishOutcome, SilentKeeps
<1>3. ASSUME Retry(p, job[p].reason), UNCHANGED <<now, tables, sent>>, queue' \subseteq queue
      PROVE  OutcomeInv'
    BY <1>1, <1>3, RetryOutcome, SilentKeeps
<1>4. ASSUME NEW newRow, NEW moves, Written(p, newRow, moves)
      PROVE  Alone(p) /\ ChainOK(p)' /\ row' = row
  <2>1. /\ Alone(p) /\ pc'[p] = "commit" /\ job' = job /\ snap' = snap /\ readAt' = readAt
        /\ due' = due /\ now' = now /\ row' = row
      BY <1>4 DEF TypeOK, Written, Goto, Alone, Frame, tables
  <2>2. RequestOK(p) /\ AcceptedOK(p) /\ ExpiryOK(p)
      BY DEF OutcomeInv, ChainOK
  <2>3. RequestOK(p)' /\ AcceptedOK(p)' /\ ExpiryOK(p)'
      BY <1>1, <2>1, <2>2 DEF RequestOK, AcceptedOK, ExpiryOK, Expired
  <2>4. QED
      BY <2>1, <2>3 DEF ChainOK, OutcomeOK
<1>5. CASE WritePut(p)
  <2>1. queue' \subseteq queue /\ sent' = sent
      BY <1>5 DEF WritePut
  <2>2. QED
      BY <1>2, <1>4, <1>5, <2>1, SilentKeeps DEF WritePut
<1>6. CASE WriteFulfill(p)
  <2>1. queue' \subseteq queue /\ sent' = sent
      BY <1>6 DEF WriteFulfill
  <2>2. QED
      BY <1>4, <1>6, <2>1, SilentKeeps DEF WriteFulfill
<1>7. CASE WriteExpire(p)
  <2>1. Alone(p) /\ ChainOK(p)' /\ row' = row /\ queue' = queue
      BY <1>4, <1>7 DEF WriteExpire
  <2>2. sent' = [sent EXCEPT ![job[p].id] = @ \cup {"rejected"}]
      BY <1>7 DEF WriteExpire, Announce
  <2>3. Expired(job[p].id) /\ now' = now
      BY <1>1, <1>7 DEF WriteExpire, Written, OutcomeInv, ChainOK, ExpiryOK
  <2>6. \A t \in Transfers :
            /\ "executed" \in sent'[t] => row[t].state = "executed"
            /\ "rejected" \in sent'[t] => row[t].state = "rejected" \/ Expired(t)
      BY <2>2, <2>3 DEF TypeOK, OutcomeInv, AnnouncedOK, AnnouncedIsExecuted,
                        AnnouncedIsRejected, Expired
  <2>7. AnnouncedOK'
      BY <2>1, <2>3, <2>6 DEF AnnouncedOK, AnnouncedIsExecuted, AnnouncedIsRejected, Expired
  <2>4. WatchedExpire'
      BY <2>1 DEF OutcomeInv, WatchedExpire
  <2>5. QED
      BY <2>1, <2>4, <2>7, AloneKeeps
<1>8. CASE WritePutUncovered(p)
    BY <1>2, <1>8 DEF WritePutUncovered, expiry
<1>9. CASE WritePutConflict(p)
    BY <1>3, <1>9 DEF WritePutConflict, expiry
<1>10. CASE WriteFulfillConflict(p)
  <2>1. queue' \subseteq queue
      BY <1>10 DEF WriteFulfillConflict
  <2>2. QED
      BY <1>3, <1>10, <2>1 DEF WriteFulfillConflict
<1>11. CASE WriteExpireConflict(p)
    BY <1>2, <1>3, <1>11 DEF WriteExpireConflict, expiry
<1>12. QED
    BY <1>5, <1>6, <1>7, <1>8, <1>9, <1>10, <1>11 DEF Write

LEMMA FailureOutcome ==
    ASSUME TypeOK, IInv, OutcomeInv, NEW p \in Procs, CommitConflict(p) \/ DatabaseError(p)
    PROVE  OutcomeInv'
<1>1. CASE CommitConflict(p)
  <2> DEFINE reason == IF job[p].op = "put" THEN plan[p].row.reason ELSE job[p].reason
  <2>1. /\ pc[p] = "commit" /\ Retry(p, reason)
        /\ UNCHANGED <<now, tables, sent>> /\ queue' = queue
      BY <1>1 DEF CommitConflict, expiry
  <2> HIDE DEF reason
  <2>2. Alone(p) /\ ChainOK(p)'
      BY <2>1, RetryOutcome
  <2>3. QED
      BY <2>1, <2>2, SilentKeeps
<1>2. CASE DatabaseError(p)
  <2>1. Finish(p) /\ UNCHANGED <<now, tables, sent>> /\ queue' = queue
      BY <1>2 DEF DatabaseError, expiry
  <2>2. QED
      BY <2>1, FinishOutcome, SilentKeeps
<1>3. QED
    BY <1>1, <1>2

LEMMA NotifyOutcome ==
    ASSUME TypeOK, OutcomeInv, NEW p \in Procs, Notify(p)
    PROVE  OutcomeInv'
<1> DEFINE t == job[p].id
<1>1. pc[p] = "notify" /\ queue' = queue /\ UNCHANGED <<now, tables>>
    BY DEF Notify, expiry
<1>2. Alone(p) /\ ChainOK(p)'
  <2>1. CASE Finish(p)
      BY <1>1, <2>1, FinishOutcome
  <2>2. CASE ~Finish(p)
    <3>1. Alone(p) /\ pc'[p] = "watch" /\ due' = due /\ now' = now
        BY <2>2 DEF TypeOK, Notify, Goto, Alone, Frame, tables
    <3>2. \A u \in due'[p] : Expired(u)'
        BY <3>1 DEF OutcomeInv, ChainOK, ExpiryOK, Expired
    <3>3. QED
        BY <3>1, <3>2, OutsideOK
  <2>3. QED
      BY <2>1, <2>2
<1>3. AnnouncedOK'
  <2>1. sent' = [sent EXCEPT ![t] = @ \cup {plan[p].row.state}]
      BY DEF Notify, Announce
  <2>2. IsFinal(plan[p].row.state) => row[t].state = plan[p].row.state
      BY <1>1 DEF OutcomeInv, ChainOK, OutcomeOK
  <2>3. \A u \in Transfers :
            /\ "executed" \in sent'[u] => row[u].state = "executed"
            /\ "rejected" \in sent'[u] => row[u].state = "rejected" \/ Expired(u)
      BY <2>1, <2>2 DEF TypeOK, OutcomeInv, AnnouncedOK, AnnouncedIsExecuted,
                        AnnouncedIsRejected, Expired, IsFinal, FinalStates
  <2>4. row' = row /\ now' = now
      BY <1>1 DEF tables
  <2>5. QED
      BY <2>3, <2>4 DEF AnnouncedOK, AnnouncedIsExecuted, AnnouncedIsRejected, Expired
<1>4. WatchedExpire'
    BY <1>1 DEF OutcomeInv, WatchedExpire
<1>5. QED
    BY <1>2, <1>3, <1>4, AloneKeeps

(* The monitor watches transfers with an expires_at, and pops those whose    *)
(* time has come.                                                            *)
LEMMA MonitorOutcome ==
    ASSUME TypeOK, OutcomeInv, NEW p \in Procs,
           Watch(p) \/ TimerFires(p) \/ Pop(p) \/ Drain(p) \/ Rearm(p)
    PROVE  OutcomeInv'
<1>1. UNCHANGED <<now, tables, sent>>
    BY DEF Watch, TimerFires, Pop, Drain, Rearm
<1>2. AnnouncedOK'
    BY <1>1 DEF OutcomeInv, AnnouncedOK, AnnouncedIsExecuted, AnnouncedIsRejected, tables
<1>3. WatchedExpire'
    BY DEF OutcomeInv, WatchedExpire, Watch, Watchable, TimerFires, Pop, Drain, Rearm, expiry
<1>4. ASSUME Alone(p), due'[p] = due[p],
             pc'[p] \notin {"begin", "write", "commit", "notify"}
      PROVE  OutcomeInv'
  <2>1. \A t \in due'[p] : Expired(t)'
      BY <1>1, <1>4 DEF OutcomeInv, ChainOK, ExpiryOK, Expired
  <2>2. QED
      BY <1>2, <1>3, <1>4, <2>1, OutsideOK, AloneKeeps
<1>5. CASE Finish(p)
    BY <1>1, <1>2, <1>3, <1>5, FinishOutcome, AloneKeeps
<1>6. CASE Watch(p) /\ ~Finish(p)
  <2>1. /\ pc' = [pc EXCEPT ![p] = "pop"]
        /\ job' = [job EXCEPT ![p] = NoJob]
        /\ snap' = [snap EXCEPT ![p] = NoRow]
        /\ readAt' = [readAt EXCEPT ![p] = NoTime]
        /\ missed' = [missed EXCEPT ![p] = {}]
        /\ plan' = [plan EXCEPT ![p] = NoPlan]
        /\ due' = due
      BY <1>6 DEF Watch, Goto
  <2>2. Alone(p) /\ pc'[p] = "pop"
      BY <1>1, <2>1 DEF TypeOK, Alone, Frame, tables
  <2>3. QED
      BY <1>4, <2>1, <2>2
<1>7. CASE TimerFires(p)
  <2>1. Alone(p) /\ pc'[p] = "pop" /\ due' = due
      BY <1>7 DEF TypeOK, TimerFires, Goto, Alone, Frame, tables
  <2>2. QED
      BY <1>4, <2>1
<1>8. CASE Pop(p)
  <2>1. Alone(p) /\ pc'[p] = "drain" /\ due'[p] \subseteq {t \in queue : IsDue(t)}
      BY <1>8 DEF TypeOK, Pop, Goto, Alone, Frame, tables
  <2>2. \A t \in due'[p] : Expired(t)'
      BY <1>1, <2>1 DEF OutcomeInv, WatchedExpire, IsDue, Expired
  <2>3. QED
      BY <1>2, <1>3, <2>1, <2>2, OutsideOK, AloneKeeps
<1>9. CASE Drain(p)
  <2>1. PICK t \in due[p] :
            /\ due' = [due EXCEPT ![p] = @ \ {t}]
            /\ job' = [job EXCEPT ![p] =
                          [op |-> "expire", id |-> t, by |-> Admin, auth |-> {},
                           rejectedBy |-> {}, reason |-> "none", condition |-> "none"]]
      BY <1>9 DEF Drain
  <2>2. /\ Alone(p) /\ pc'[p] = "begin" /\ now' = now
        /\ due'[p] = due[p] \ {t} /\ job'[p].op = "expire" /\ job'[p].id = t
      BY <1>9, <2>1 DEF TypeOK, Drain, Goto, Alone, Frame, tables
  <2>3. \A u \in due[p] : Expired(u)' 
      BY <2>2 DEF OutcomeInv, ChainOK, ExpiryOK, Expired
  <2>4. ChainOK(p)'
      BY <2>2, <2>3 DEF ChainOK, RequestOK, AcceptedOK, ExpiryOK, OutcomeOK
  <2>5. QED
      BY <1>2, <1>3, <2>2, <2>4, AloneKeeps
<1>10. CASE Rearm(p)
    BY <1>5, <1>10 DEF Rearm
<1>11. QED
    BY <1>5, <1>6, <1>7, <1>8, <1>9, <1>10

LEMMA EnvironmentOutcome ==
    ASSUME TypeOK, OutcomeInv, Tick \/ Crash \/ UNCHANGED vars
    PROVE  OutcomeInv'
<1>1. row' = row /\ entries' = entries /\ sent' = sent /\ now' \in Nat /\ now' >= now
    BY DEF TypeOK, Tick, Crash, vars, tables
<1>2. ASSUME NEW t \in Transfers, Expired(t) PROVE Expired(t)'
    BY <1>1, <1>2, ContentAssumption DEF TypeOK, Expired, NoTime
<1>3. SendersAgreed' /\ EntriesMatchState'
    BY <1>1 DEF OutcomeInv, SendersAgreed, EntriesMatchState
<1>8. AnnouncedOK'
    BY <1>1, <1>2 DEF OutcomeInv, AnnouncedOK, AnnouncedIsExecuted, AnnouncedIsRejected,
                      Expired
<1>4. DeadlinesKept'
    BY <1>1, <1>2 DEF OutcomeInv, DeadlinesKept, Expired
<1>5. WatchedExpire'
    BY DEF OutcomeInv, WatchedExpire, Tick, Crash, vars, expiry
<1>6. ASSUME NEW p \in Procs PROVE ChainOK(p)'
  <2>1. CASE Crash
    <3>1. pc'[p] = "idle" /\ due'[p] = {}
        BY <2>1 DEF Crash
    <3>2. QED
        BY <3>1, OutsideOK
  <2>2. CASE Tick \/ UNCHANGED vars
    <3>1. UNCHANGED <<row, pc, job, snap, readAt, plan, due>>
        BY <2>2 DEF Tick, vars, tables, procs
    <3>2. RequestOK(p)' /\ AcceptedOK(p)' /\ OutcomeOK(p)'
        BY <3>1 DEF OutcomeInv, ChainOK, RequestOK, AcceptedOK, OutcomeOK
    <3>3. due[p] \subseteq Transfers
        BY DEF TypeOK
    <3>4. pc[p] \in {"begin", "write", "commit"} => job[p].id \in Transfers
        BY AtWork
    <3>5. ExpiryOK(p)'
        BY <1>2, <3>1, <3>3, <3>4 DEF OutcomeInv, ChainOK, ExpiryOK
    <3>6. QED
        BY <3>2, <3>5 DEF ChainOK
  <2>3. QED
      BY <2>1, <2>2
<1>7. QED
    BY <1>3, <1>4, <1>5, <1>6, <1>8 DEF OutcomeInv

------------------------------------------------------------------------------
(* The transitions a commit can make, with the money each one moves.         *)
Transition(old, new, moves) ==
    \/ moves = {} /\ new = old
    \/ moves = {} /\ old = "nonexistent" /\ new = "proposed"
    \/ moves = {} /\ old \in {"nonexistent", "proposed"} /\ new = "rejected"
    \/ moves = {"hold"} /\ old \in {"nonexistent", "proposed"} /\ new = "prepared"
    \/ moves = {"hold", "disburse"} /\ old \in {"nonexistent", "proposed"} /\ new = "executed"
    \/ moves = {"hold", "return"} /\ old \in {"nonexistent", "proposed"} /\ new = "rejected"
    \/ moves = {"disburse"} /\ old = "prepared" /\ new = "executed"
    \/ moves = {"return"} /\ old = "prepared" /\ new = "rejected"

LEMMA PutTransition ==
    ASSUME NEW t, NEW old \in Rows, NEW j, NEW time,
           old.state = "prepared" => t \in HasExecution,
           RejectionAllowed(t, old, j)
    PROVE  /\ Transition(old.state, PutRow(t, old, j, time).state, PutMoves(t, old, j))
           /\ PutRow(t, old, j, time).state # "nonexistent"
<1> DEFINE new == PutRow(t, old, j, time).state
           moves == PutMoves(t, old, j)
<1>1. new = IF Rejects(t, old, j) THEN "rejected" ELSE StateIfExecuted(t, old, j)
    BY DEF PutRow
<1>2. CASE Prepares(t, old, j)
  <2>1. old.state \in {"nonexistent", "proposed"} /\ StateIfPrepared(t, old, j) = "prepared"
      BY <1>2 DEF Prepares, StateOnArrival, StateIfPrepared
  <2>2. CASE t \in HasExecution
    <3>1. ~Executes(t, old, j) /\ StateIfExecuted(t, old, j) = "prepared"
        BY <2>1, <2>2 DEF Executes, StateIfExecuted
    <3>2. moves = IF Rejects(t, old, j) THEN {"hold", "return"} ELSE {"hold"}
        BY <1>2, <3>1 DEF PutMoves
    <3>3. QED
        BY <1>1, <2>1, <3>1, <3>2 DEF Transition
  <2>3. CASE t \notin HasExecution
    <3>1. Executes(t, old, j) /\ StateIfExecuted(t, old, j) = "executed"
        BY <2>1, <2>3 DEF Executes, StateIfExecuted
    <3>2. ~Rejects(t, old, j)
        BY <3>1 DEF RejectionAllowed, ValidCancellationStates
    <3>3. moves = {"hold", "disburse"}
        BY <1>2, <3>1, <3>2 DEF PutMoves
    <3>4. QED
        BY <1>1, <2>1, <3>1, <3>2, <3>3 DEF Transition
  <2>4. QED
      BY <2>2, <2>3
<1>3. CASE ~Prepares(t, old, j)
  <2>1. StateIfPrepared(t, old, j) = StateOnArrival(old)
      BY <1>3 DEF StateIfPrepared
  <2>2. ~Executes(t, old, j) /\ StateIfExecuted(t, old, j) = StateOnArrival(old)
      BY <2>1 DEF Executes, StateIfExecuted, StateOnArrival
  <2>3. moves = IF Rejects(t, old, j) /\ StateOnArrival(old) = "prepared"
                THEN {"return"} ELSE {}
      BY <1>3, <2>2 DEF PutMoves
  <2>4. Rejects(t, old, j) => StateOnArrival(old) \in {"proposed", "prepared"}
      BY <2>2 DEF RejectionAllowed, ValidCancellationStates
  <2>5. old.state \in States
      BY DEF Rows
  <2>6. QED
      BY <1>1, <2>2, <2>3, <2>4, <2>5 DEF Transition, StateOnArrival, States
<1>4. QED
    BY <1>2, <1>3

LEMMA CommitTransition ==
    ASSUME TypeOK, IInv, NEW p \in Procs, pc[p] = "commit"
    PROVE  /\ Transition(snap[p].state, plan[p].row.state, plan[p].moves)
           /\ plan[p].row.state # "nonexistent"
<1> DEFINE t == job[p].id
           old == snap[p]
<1>1. /\ t \in Transfers /\ old \in Rows /\ Validated(p) /\ Planned(p)
      /\ row[t] = old /\ RowOK(t)
    BY AtWork DEF IInv, TransactionOK, CommittingOK
<1>2. CASE job[p].op = "put"
  <2>1. /\ RejectionAllowed(t, old, job[p])
        /\ plan[p].moves = PutMoves(t, old, job[p])
        /\ plan[p].row = PutRow(t, old, job[p], plan[p].row.executedAt)
      BY <1>1, <1>2 DEF Planned
  <2>2. old.state = "prepared" => t \in HasExecution
      BY <1>1 DEF RowOK
  <2>3. \A time : /\ Transition(old.state, PutRow(t, old, job[p], time).state,
                                PutMoves(t, old, job[p]))
                  /\ PutRow(t, old, job[p], time).state # "nonexistent"
      BY <1>1, <2>1, <2>2, PutTransition
  <2>4. QED
      BY <2>1, <2>3
<1>3. CASE job[p].op = "fulfill"
  <2>1. /\ FulfillAllowed(old, job[p].condition)
        /\ plan[p].moves = FulfillMoves(old, job[p].condition)
        /\ plan[p].row = FulfillRow(old, job[p].condition, readAt[p])
      BY <1>1, <1>3 DEF Planned, Validated
  <2>2. plan[p].row.state = IF job[p].condition = "execution" THEN "executed" ELSE "rejected"
      BY <1>1, <2>1 DEF FulfillRow, Rows
  <2>3. QED
      BY <2>1, <2>2
         DEF Transition, FulfillAllowed, FulfillMoves, ValidExecutionStates,
             ValidCancellationStates
<1>4. CASE job[p].op = "expire"
  <2>1. /\ Expirable(old) /\ plan[p].moves = ExpireMoves(old)
        /\ plan[p].row.state = "rejected"
      BY <1>1, <1>4 DEF Planned, Validated, ExpireRow, Rows
  <2>2. old.state \in States
      BY <1>1 DEF Rows
  <2>3. QED
      BY <2>1, <2>2 DEF Transition, Expirable, IsFinal, FinalStates, ExpireMoves, States
<1>5. QED
    BY <1>1, <1>2, <1>3, <1>4 DEF Validated

(* What the row of a commit says of its authorizations and its times.        *)
LEMMA CommittedRecord ==
    ASSUME TypeOK, IInv, OutcomeInv, NEW p \in Procs, pc[p] = "commit"
    PROVE  LET t == job[p].id
               new == plan[p].row
           IN
           /\ row[t].auth \subseteq new.auth \/ row[t].state = "nonexistent"
           /\ row[t].state \notin {"prepared", "executed"} /\ new.state \in {"prepared", "executed"}
                  => \A a \in Debtors(t) : <<"debit", a>> \in new.auth
           /\ t \in HasExecution /\ new.state = "executed" =>
                  new.executedAt # NoTime /\ NotExpired(t, new.executedAt)
           /\ new.state = "rejected" /\ new.reason = "expired" => Expired(t)
<1> DEFINE t == job[p].id
           old == snap[p]
           new == plan[p].row
<1>1. /\ t \in Transfers /\ old \in Rows /\ Validated(p) /\ Planned(p)
      /\ row[t] = old /\ RowOK(t)
    BY AtWork DEF IInv, TransactionOK, CommittingOK
<1>2. /\ t \in HasExecution /\ old.state = "executed" =>
             old.executedAt # NoTime /\ NotExpired(t, old.executedAt)
      /\ old.state = "rejected" /\ old.reason = "expired" => Expired(t)
    BY <1>1 DEF OutcomeInv, DeadlinesKept, Expired
<1>3. RequestOK(p) /\ AcceptedOK(p) /\ ExpiryOK(p)
    BY DEF OutcomeInv, ChainOK
<1>4. CASE job[p].op = "put"
  <2>1. /\ RejectionAllowed(t, old, job[p])
        /\ new = PutRow(t, old, job[p], new.executedAt)
      BY <1>1, <1>4 DEF Planned
  <2>2. /\ new.auth = job[p].auth
        /\ new.state = IF Rejects(t, old, job[p]) THEN "rejected"
                       ELSE StateIfExecuted(t, old, job[p])
        /\ new.reason = IF Rejects(t, old, job[p]) THEN "cancelled" ELSE job[p].reason
        /\ ~Executes(t, old, job[p]) => new.executedAt = old.executedAt
      BY <2>1 DEF PutRow
  <2>3. old.state # "nonexistent" => old.auth \subseteq job[p].auth /\ old.reason = job[p].reason
      BY <1>3, <1>4 DEF AcceptedOK, PutAccepted, Mergeable
  <2>4. old.state \notin {"prepared", "executed"} /\ new.state \in {"prepared", "executed"}
            => IsAuthorized(t, job[p].auth)
      BY <2>2 DEF StateIfExecuted, Executes, StateIfPrepared, Prepares, StateOnArrival
  <2>5. t \in HasExecution /\ new.state = "executed" =>
            old.state = "executed" /\ ~Executes(t, old, job[p])
      BY <2>2 DEF StateIfExecuted, Executes, StateIfPrepared, StateOnArrival
  <2>6. ASSUME new.state = "rejected", new.reason = "expired" PROVE Expired(t)
    <3>1. ~Rejects(t, old, job[p]) /\ job[p].reason = "expired"
        BY <2>2, <2>6
    <3>2. old.state = "rejected"
        BY <2>2, <2>6, <3>1
           DEF StateIfExecuted, Executes, StateIfPrepared, Prepares, StateOnArrival
    <3>3. QED
        BY <1>2, <2>3, <3>1, <3>2
  <2>7. QED
      BY <1>1, <1>2, <2>2, <2>3, <2>4, <2>5, <2>6 DEF IsAuthorized
<1>5. CASE job[p].op = "fulfill"
  <2>1. /\ FulfillAllowed(old, job[p].condition)
        /\ new = FulfillRow(old, job[p].condition, readAt[p])
      BY <1>1, <1>5 DEF Planned, Validated
  <2>2. readAt[p] # NoTime /\ NotExpired(t, readAt[p])
      BY <1>3, <1>5 DEF AcceptedOK
  <2>3. CASE job[p].condition = "execution"
    <3>1. new.auth = old.auth /\ new.executedAt = readAt[p] /\ new.state = "executed"
        BY <1>1, <2>1, <2>3 DEF FulfillRow, Rows
    <3>2. old.state = "prepared"
        BY <2>1, <2>3 DEF FulfillAllowed, ValidExecutionStates
    <3>3. QED
        BY <1>1, <1>2, <2>2, <3>1, <3>2
  <2>4. CASE job[p].condition # "execution"
    <3>1. new.auth = old.auth /\ new.state = "rejected" /\ new.reason = "cancelled"
        BY <1>1, <2>1, <2>4 DEF FulfillRow, Rows
    <3>2. QED
        BY <1>1, <3>1
  <2>5. QED
      BY <2>3, <2>4
<1>6. CASE job[p].op = "expire"
  <2>1. new = ExpireRow(old)
      BY <1>1, <1>6 DEF Planned
  <2>2. new.auth = old.auth /\ new.state = "rejected"
      BY <1>1, <2>1 DEF ExpireRow, Rows
  <2>3. Expired(t)
      BY <1>3, <1>6 DEF ExpiryOK
  <2>4. QED
      BY <1>1, <2>2, <2>3
<1>7. QED
    BY <1>1, <1>4, <1>5, <1>6 DEF Validated

(* The entries of a transfer count what its transitions moved.               *)
EntriesOK(s, e, t) ==
    \/ s \in {"nonexistent", "proposed", "rejected"} /\ e = DebitEntries(t, 0)
    \/ s = "prepared" /\ e = DebitEntries(t, 1)
    \/ s = "rejected" /\ e = DebitEntries(t, 2)
    \/ /\ s = "executed"
       /\ e = [a \in Accounts |->
                  DebitEntries(t, 1)[a] + (IF a \in Creditors(t) THEN 1 ELSE 0)]

LEMMA EntriesFollow ==
    ASSUME NEW t, NEW old, NEW new, NEW moves, Transition(old, new, moves),
           NEW e, EntriesOK(old, e, t)
    PROVE  EntriesOK(new, [a \in Accounts |-> e[a] + EntriesOf(t, moves, a)], t)
<1> DEFINE f == [a \in Accounts |-> e[a] + EntriesOf(t, moves, a)]
           paid == [a \in Accounts |->
                      DebitEntries(t, 1)[a] + (IF a \in Creditors(t) THEN 1 ELSE 0)]
<1>1. CASE moves = {} /\ old = new
  <2>1. \A a \in Accounts : EntriesOf(t, moves, a) = 0
      BY <1>1 DEF EntriesOf
  <2>2. f = e
      BY <2>1 DEF EntriesOK, DebitEntries
  <2>3. QED
      BY <1>1, <2>2
<1>2. CASE moves = {} /\ old # new
  <2>1. \A a \in Accounts : EntriesOf(t, moves, a) = 0
      BY <1>2 DEF EntriesOf
  <2>2. e = DebitEntries(t, 0) /\ new \in {"proposed", "rejected"}
      BY <1>2 DEF Transition, EntriesOK
  <2>3. f = DebitEntries(t, 0)
      BY <2>1, <2>2 DEF DebitEntries
  <2>4. QED
      BY <2>2, <2>3 DEF EntriesOK
<1>3. CASE moves = {"hold"}
  <2>1. e = DebitEntries(t, 0) /\ new = "prepared"
      BY <1>3 DEF Transition, EntriesOK
  <2>2. \A a \in Accounts : EntriesOf(t, moves, a) = IF a \in Debtors(t) THEN 1 ELSE 0
      BY <1>3 DEF EntriesOf
  <2>3. f = DebitEntries(t, 1)
      BY <2>1, <2>2 DEF DebitEntries
  <2>4. QED
      BY <2>1, <2>3 DEF EntriesOK
<1>4. CASE moves = {"hold", "disburse"}
  <2>1. e = DebitEntries(t, 0) /\ new = "executed"
      BY <1>4 DEF Transition, EntriesOK
  <2>2. \A a \in Accounts : EntriesOf(t, moves, a) =
            (IF a \in Debtors(t) THEN 1 ELSE 0) + (IF a \in Creditors(t) THEN 1 ELSE 0)
      BY <1>4 DEF EntriesOf
  <2>3. f = paid
      BY <2>1, <2>2 DEF DebitEntries
  <2>4. QED
      BY <2>1, <2>3 DEF EntriesOK
<1>5. CASE moves = {"hold", "return"}
  <2>1. e = DebitEntries(t, 0) /\ new = "rejected"
      BY <1>5 DEF Transition, EntriesOK
  <2>2. \A a \in Accounts : EntriesOf(t, moves, a) = IF a \in Debtors(t) THEN 2 ELSE 0
      BY <1>5 DEF EntriesOf
  <2>3. f = DebitEntries(t, 2)
      BY <2>1, <2>2 DEF DebitEntries
  <2>4. QED
      BY <2>1, <2>3 DEF EntriesOK
<1>6. CASE moves = {"disburse"}
  <2>1. e = DebitEntries(t, 1) /\ new = "executed"
      BY <1>6 DEF Transition, EntriesOK
  <2>2. \A a \in Accounts : EntriesOf(t, moves, a) = IF a \in Creditors(t) THEN 1 ELSE 0
      BY <1>6 DEF EntriesOf
  <2>3. f = paid
      BY <2>1, <2>2 DEF DebitEntries
  <2>4. QED
      BY <2>1, <2>3 DEF EntriesOK
<1>7. CASE moves = {"return"}
  <2>1. e = DebitEntries(t, 1) /\ new = "rejected"
      BY <1>7 DEF Transition, EntriesOK
  <2>2. \A a \in Accounts : EntriesOf(t, moves, a) = IF a \in Debtors(t) THEN 1 ELSE 0
      BY <1>7 DEF EntriesOf
  <2>3. f = DebitEntries(t, 2)
      BY <2>1, <2>2 DEF DebitEntries
  <2>4. QED
      BY <2>1, <2>3 DEF EntriesOK
<1>8. QED
    BY <1>1, <1>2, <1>3, <1>4, <1>5, <1>6, <1>7 DEF Transition

LEMMA CommitOutcome ==
    ASSUME TypeOK, IInv, OutcomeInv, NEW p \in Procs, Commit(p)
    PROVE  OutcomeInv'
<1> DEFINE t == job[p].id
           new == plan[p].row
           moves == plan[p].moves
<1>1. /\ pc[p] = "commit" /\ t \in Transfers /\ row[t] = snap[p]
      /\ row' = [row EXCEPT ![t] = new]
      /\ row'[t] = new /\ \A u \in Transfers \ {t} : row'[u] = row[u]
    BY AtWork DEF TypeOK, Commit, IInv, TransactionOK, CommittingOK
<1>2. /\ now' = now /\ queue' = queue /\ sent' = sent
      /\ \A u \in Transfers : Expired(u)' <=> Expired(u)
    BY DEF Commit, expiry, Expired
<1>3. Transition(row[t].state, new.state, moves) /\ new.state # "nonexistent"
    BY <1>1, CommitTransition
<1>4. /\ row[t].auth \subseteq new.auth \/ row[t].state = "nonexistent"
      /\ row[t].state \notin {"prepared", "executed"} /\ new.state \in {"prepared", "executed"}
             => \A a \in Debtors(t) : <<"debit", a>> \in new.auth
      /\ t \in HasExecution /\ new.state = "executed" =>
             new.executedAt # NoTime /\ NotExpired(t, new.executedAt)
      /\ new.state = "rejected" /\ new.reason = "expired" => Expired(t)
    BY <1>1, CommittedRecord
<1>5. \A u \in Transfers :
          /\ row[u].state # "nonexistent" => row'[u].state # "nonexistent"
          /\ IsFinal(row[u].state) => row'[u].state = row[u].state
    BY <1>1, <1>3 DEF Transition, IsFinal, FinalStates
<1>6. ASSUME NEW q \in Procs \ {p} PROVE ChainOK(q)'
  <2>1. /\ pc'[q] = pc[q] /\ job'[q] = job[q] /\ snap'[q] = snap[q]
        /\ readAt'[q] = readAt[q] /\ plan'[q] = plan[q] /\ due'[q] = due[q]
      BY DEF TypeOK, Commit, BackToDrain, Goto
  <2>2. ChainOK(q)
      BY DEF OutcomeInv
  <2>3. pc[q] \in {"begin", "write", "commit", "notify"} => job[q].id \in Transfers
      BY AtWork
  <2>4. RequestOK(q)' /\ AcceptedOK(q)'
      BY <1>5, <2>1, <2>2, <2>3 DEF ChainOK, RequestOK, AcceptedOK
  <2>5. ExpiryOK(q)' /\ OutcomeOK(q)'
      BY <1>2, <1>5, <2>1, <2>2, <2>3 DEF ChainOK, ExpiryOK, Expired, OutcomeOK
  <2>6. QED
      BY <2>4, <2>5 DEF ChainOK
<1>7. ChainOK(p)'
  <2>1. due'[p] = due[p] /\ ExpiryOK(p)
      BY DEF Commit, BackToDrain, OutcomeInv, ChainOK
  <2>2. CASE pc'[p] = "drain"
    <3>1. \A u \in due'[p] : Expired(u)'
        BY <1>2, <2>1 DEF ExpiryOK, Expired
    <3>2. QED
        BY <2>2, <3>1, OutsideOK
  <2>3. CASE pc'[p] # "drain"
    <3>1. pc'[p] = "notify" /\ job'[p] = job[p] /\ plan'[p] = plan[p]
        BY <2>3 DEF TypeOK, Commit, BackToDrain, Goto
    <3>2. ExpiryOK(p)' /\ OutcomeOK(p)'
        BY <1>1, <1>2, <2>1, <3>1 DEF ExpiryOK, Expired, OutcomeOK
    <3>3. QED
        BY <3>1, <3>2 DEF ChainOK, RequestOK, AcceptedOK
  <2>4. QED
      BY <2>2, <2>3
<1>8. WatchedExpire' /\ AnnouncedOK'
  <2>1. WatchedExpire'
      BY <1>2 DEF OutcomeInv, WatchedExpire
  <2>2. AnnouncedOK'
      BY <1>2, <1>5 DEF OutcomeInv, AnnouncedOK, AnnouncedIsExecuted, AnnouncedIsRejected,
                        Expired, IsFinal, FinalStates
  <2>3. QED
      BY <2>1, <2>2
<1>9. DeadlinesKept'
  <2>1. DeadlinesKept
      BY DEF OutcomeInv
  <2>2. ASSUME NEW u \in HasExecution, row'[u].state = "executed"
        PROVE  row'[u].executedAt # NoTime /\ NotExpired(u, row'[u].executedAt)
    <3>1. u \in Transfers
        BY ContentAssumption
    <3>2. QED
        BY <1>1, <1>4, <2>1, <2>2, <3>1 DEF DeadlinesKept
  <2>3. ASSUME NEW u \in Transfers, row'[u].state = "rejected", row'[u].reason = "expired"
        PROVE  Expired(u)
      BY <1>1, <1>4, <2>1, <2>3 DEF DeadlinesKept, Expired
  <2>4. QED
      BY <1>2, <2>2, <2>3 DEF DeadlinesKept, Expired, NotExpired
<1>10. SendersAgreed'
  <2>1. SendersAgreed
      BY DEF OutcomeInv
  <2>2. ASSUME NEW u \in Transfers, NEW a \in Debtors(u),
               row'[u].state \in {"prepared", "executed"}
        PROVE  <<"debit", a>> \in row'[u].auth
      BY <1>1, <1>4, <2>1, <2>2 DEF SendersAgreed
  <2>3. QED
      BY <2>2 DEF SendersAgreed
<1>11. EntriesMatchState'
  <2>1. \A u \in Transfers : EntriesOK(row[u].state, entries[u], u)
      BY DEF OutcomeInv, EntriesMatchState, EntriesOK
  <2>2. entries' = [entries EXCEPT ![t] =
                       [a \in Accounts |-> entries[t][a] + EntriesOf(t, moves, a)]]
      BY DEF Commit
  <2>3. EntriesOK(new.state,
                  [a \in Accounts |-> entries[t][a] + EntriesOf(t, moves, a)], t)
      BY <1>1, <1>3, <2>1, EntriesFollow
  <2>4. ASSUME NEW u \in Transfers PROVE EntriesOK(row'[u].state, entries'[u], u)
      BY <1>1, <2>1, <2>2, <2>3 DEF TypeOK
  <2>5. QED
      BY <2>4 DEF EntriesMatchState, EntriesOK
<1>12. QED
    BY <1>6, <1>7, <1>8, <1>9, <1>10, <1>11 DEF OutcomeInv

------------------------------------------------------------------------------
(* The inductive invariant holds of every behaviour of the server.           *)
THEOREM OutcomesCorrect == Spec => []OutcomeInv
<1>1. Init => OutcomeInv
  <2> SUFFICES ASSUME Init PROVE OutcomeInv
      OBVIOUS
  <2>1. \A p \in Procs : ChainOK(p)
      BY DEF Init, ChainOK, RequestOK, AcceptedOK, ExpiryOK, OutcomeOK
  <2>2. \A t \in Transfers : entries[t] = DebitEntries(t, 0)
      BY DEF Init, DebitEntries
  <2>3. EntriesMatchState
      BY <2>2 DEF Init, NoRow, EntriesMatchState
  <2>4. DeadlinesKept /\ SendersAgreed
      BY ContentAssumption DEF Init, NoRow, DeadlinesKept, SendersAgreed
  <2>5. WatchedExpire /\ AnnouncedOK
      BY DEF Init, WatchedExpire, AnnouncedOK, AnnouncedIsExecuted, AnnouncedIsRejected
  <2>6. QED
      BY <2>1, <2>3, <2>4, <2>5 DEF OutcomeInv
<1>2. TypeOK /\ IInv /\ OutcomeInv /\ [Next]_vars => OutcomeInv'
  <2> SUFFICES ASSUME TypeOK, IInv, OutcomeInv, [Next]_vars PROVE OutcomeInv'
      OBVIOUS
  <2>1. ASSUME NEW c \in Clients, Receive(c) PROVE OutcomeInv'
      BY <2>1, ReceiveOutcome
  <2>2. ASSUME NEW p \in Procs, Run(p) PROVE OutcomeInv'
      BY <2>2, BeginOutcome, WriteOutcome, CommitOutcome, FailureOutcome, NotifyOutcome,
         MonitorOutcome DEF Run
  <2>3. ASSUME NEW p \in TimerRuns, TimerFires(p) PROVE OutcomeInv'
      BY <2>3, MonitorOutcome DEF Procs
  <2>4. CASE Tick \/ Crash \/ Quiescent \/ UNCHANGED vars
      BY <2>4, EnvironmentOutcome DEF Quiescent
  <2>5. QED
      BY <2>1, <2>2, <2>3, <2>4 DEF Next
<1>3. QED
    BY <1>1, <1>2, TypeCorrect, Invariant, PTL DEF Spec

(* No transfer is fulfilled after its expires_at, however long the           *)
(* transaction took and however often it was retried, and none is rejected   *)
(* as expired before, whatever rejection_reason clients send.                *)
THEOREM DeadlinesAreKept == Spec => []DeadlinesKept
<1>1. OutcomeInv => DeadlinesKept
    BY DEF OutcomeInv
<1>2. QED
    BY <1>1, OutcomesCorrect, PTL

(* Money is held or paid only of senders who agreed.                         *)
THEOREM SendersHaveAgreed == Spec => []SendersAgreed
<1>1. OutcomeInv => SendersAgreed
    BY DEF OutcomeInv
<1>2. QED
    BY <1>1, OutcomesCorrect, PTL

(* The entries are an exact audit trail of the transfers.                    *)
THEOREM EntriesMatchStates == Spec => []EntriesMatchState
<1>1. OutcomeInv => EntriesMatchState
    BY DEF OutcomeInv
<1>2. QED
    BY <1>1, OutcomesCorrect, PTL

(* An execution that was announced is in the tables and stays there.         *)
THEOREM AnnouncedAreExecuted == Spec => []AnnouncedIsExecuted
<1>1. OutcomeInv => AnnouncedIsExecuted
    BY DEF OutcomeInv, AnnouncedOK
<1>2. QED
    BY <1>1, OutcomesCorrect, PTL

(* A rejection that was announced is in the tables and stays there, or the   *)
(* deadline was reached: the only announcement that can prove wrong is one   *)
(* the monitor made before its commit.                                       *)
THEOREM AnnouncedAreRejected == Spec => []AnnouncedIsRejected
<1>1. OutcomeInv => AnnouncedIsRejected
    BY DEF OutcomeInv, AnnouncedOK
<1>2. QED
    BY <1>1, OutcomesCorrect, PTL

(* A mark gets into the tables only by a request of its owner or an admin:   *)
(* whatever else was committed since the request was read, the marks it adds *)
(* to the row are those it was permitted to add to its snapshot.             *)
THEOREM MarksAreOwned == Spec => OwnMarksOnly
<1> DEFINE Owned == \A t \in Transfers : \A mark \in row'[t].auth \ row[t].auth :
                        \E p \in Clients : /\ pc[p] = "commit" /\ pc'[p] = "notify"
                                           /\ job[p].id = t
                                           /\ job[p].by \in {Admin, mark[2]}
<1>1. TypeOK /\ IInv /\ OutcomeInv /\ [Next]_vars => [Owned]_vars
  <2> SUFFICES ASSUME TypeOK, IInv, OutcomeInv, [Next]_vars,
                      NEW t \in Transfers, NEW mark \in row'[t].auth \ row[t].auth
               PROVE  \E p \in Clients : /\ pc[p] = "commit" /\ pc'[p] = "notify"
                                         /\ job[p].id = t
                                         /\ job[p].by \in {Admin, mark[2]}
      OBVIOUS
  <2>1. row' # row
      OBVIOUS
  <2>2. PICK p \in Procs : Commit(p)
      BY <2>1, OnlyCommitsChange
  <2>3. /\ pc[p] = "commit" /\ job[p].id \in Transfers
        /\ row' = [row EXCEPT ![job[p].id] = plan[p].row]
      BY <2>2, AtWork DEF Commit
  <2>4. t = job[p].id /\ row'[t] = plan[p].row
      BY <2>3 DEF TypeOK
  <2>5. row[t] = snap[p] /\ Validated(p) /\ Planned(p) /\ snap[p] \in Rows
      BY <2>3, <2>4 DEF TypeOK, IInv, TransactionOK, CommittingOK
  <2>6. job[p].op = "put"
    <3>1. CASE job[p].op = "fulfill"
      <4>1. plan[p].row = FulfillRow(snap[p], job[p].condition, readAt[p])
          BY <2>5, <3>1 DEF Planned
      <4>2. plan[p].row.auth = snap[p].auth
          BY <2>5, <4>1 DEF FulfillRow, Rows
      <4>3. QED
          BY <2>4, <2>5, <4>2
    <3>2. CASE job[p].op = "expire"
      <4>1. plan[p].row = ExpireRow(snap[p])
          BY <2>5, <3>2 DEF Planned
      <4>2. plan[p].row.auth = snap[p].auth
          BY <2>5, <4>1 DEF ExpireRow, Rows
      <4>3. QED
          BY <2>4, <2>5, <4>2
    <3>3. QED
        BY <2>5, <3>1, <3>2 DEF Validated
  <2>7. p \in Clients /\ Permitted(t, snap[p], job[p])
      BY <2>3, <2>4, <2>6
         DEF OutcomeInv, ChainOK, RequestOK, AcceptedOK, PutAccepted
  <2>8. plan[p].row.auth = job[p].auth
    <3>1. plan[p].row = PutRow(t, snap[p], job[p], plan[p].row.executedAt)
        BY <2>4, <2>5, <2>6 DEF Planned
    <3>2. QED
        BY <3>1 DEF PutRow
  <2>9. mark \in job[p].auth \ snap[p].auth
      BY <2>4, <2>5, <2>8
  <2>10. job[p].by \in {Admin, mark[2]}
      BY <2>7, <2>9 DEF Permitted
  <2>11. pc'[p] = "notify"
      BY <2>2, <2>6 DEF TypeOK, Commit, Goto
  <2>12. QED
      BY <2>3, <2>4, <2>7, <2>10, <2>11
<1>2. QED
    BY <1>1, TypeCorrect, Invariant, OutcomesCorrect, PTL DEF Spec, OwnMarksOnly

------------------------------------------------------------------------------
(* The transfers being expired.  What a run of processTimeQueue has popped   *)
(* is past its date, and watch refuses such a date: nobody can put it back   *)
(* into the queue and so into the hands of another run.                      *)
HandOK(p) ==
    /\ \A t \in InHand(p) : Expired(t)
    /\ pc[p] = "idle" => job[p].op # "expire"

HandInv == HeldByOne /\ \A p \in Procs : HandOK(p)

Others(p) ==
    \A q \in Procs \ {p} : pc'[q] = pc[q] /\ job'[q] = job[q] /\ due'[q] = due[q]

(* A step that takes nothing into the hands of p and nothing into the queue. *)
LEMMA HandKeeps ==
    ASSUME HandInv, NEW p \in Procs, Others(p), now' = now, queue' \subseteq queue,
           InHand(p)' \subseteq InHand(p), due'[p] \cap Expiring(p)' = {},
           pc'[p] = "idle" => job'[p].op # "expire"
    PROVE  HandInv'
<1>1. ASSUME NEW q \in Procs
      PROVE  InHand(q)' \subseteq InHand(q) /\ due'[q] \cap Expiring(q)' = {}
  <2>1. CASE q = p
      BY <2>1
  <2>2. CASE q # p
      BY <2>2 DEF Others, InHand, Expiring, HandInv, HeldByOne
  <2>3. QED
      BY <2>1, <2>2
<1>2. HeldByOne'
    BY <1>1 DEF HandInv, HeldByOne
<1>3. ASSUME NEW q \in Procs PROVE HandOK(q)'
  <2>1. \A t \in InHand(q)' : Expired(t)'
      BY <1>1 DEF HandInv, HandOK, Expired
  <2>2. pc'[q] = "idle" => job'[q].op # "expire"
      BY DEF Others, HandInv, HandOK
  <2>3. QED
      BY <2>1, <2>2 DEF HandOK
<1>4. QED
    BY <1>2, <1>3 DEF HandInv

LEMMA FinishHands ==
    ASSUME TypeOK, NEW p \in Procs, Finish(p)
    PROVE  Others(p) /\ pc'[p] = "idle" /\ due'[p] = {} /\ job'[p].op = "none"
<1>1. /\ pc' = [pc EXCEPT ![p] = "idle"]
      /\ job' = [job EXCEPT ![p] = NoJob]
      /\ due' = [due EXCEPT ![p] = {}]
    BY DEF Finish
<1>2. QED
    BY <1>1 DEF TypeOK, Others, NoJob

LEMMA BackToDrainHands ==
    ASSUME TypeOK, NEW p \in Procs, BackToDrain(p)
    PROVE  Others(p) /\ pc'[p] = "drain" /\ due'[p] = due[p] /\ job'[p].op = "none"
<1>1. /\ pc' = [pc EXCEPT ![p] = "drain"]
      /\ job' = [job EXCEPT ![p] = NoJob]
      /\ due' = due
    BY DEF BackToDrain
<1>2. QED
    BY <1>1 DEF TypeOK, Others, NoJob

(* p goes on with the job it has.                                            *)
GoesOn(p) ==
    /\ Others(p)
    /\ pc'[p] # "idle"
    /\ due'[p] = due[p]
    /\ job'[p].op = job[p].op /\ job'[p].id = job[p].id

LEMMA RetryHands ==
    ASSUME TypeOK, NEW p \in Procs, NEW reason, Retry(p, reason),
           pc[p] \in {"begin", "write", "commit"}
    PROVE  Finish(p) \/ GoesOn(p)
<1>1. CASE /\ pc' = [pc EXCEPT ![p] = "begin"]
           /\ job' = [job EXCEPT ![p] = [@ EXCEPT !.reason = reason]]
           /\ due' = due
  <2> DEFINE again == [job[p] EXCEPT !.reason = reason]
  <2>1. again.op = job[p].op /\ again.id = job[p].id
    <3>1. job[p] \in Jobs
        BY DEF TypeOK
    <3>2. QED
        BY <3>1 DEF Jobs
  <2> HIDE DEF again
  <2>2. job' = [job EXCEPT ![p] = again]
      BY <1>1 DEF again, TypeOK
  <2>3. QED
      BY <1>1, <2>1, <2>2 DEF TypeOK, GoesOn, Others
<1>2. QED
    BY <1>1 DEF Retry

(* What a step of a transaction, or of its announcement, does to its job.    *)
Works(p) ==
    Begin(p) \/ Write(p) \/ Commit(p) \/ CommitConflict(p) \/ DatabaseError(p) \/ Notify(p)

LEMMA WorkSteps ==
    ASSUME TypeOK, NEW p \in Procs, Works(p)
    PROVE  /\ pc[p] \notin {"pop", "drain"}
           /\ now' = now /\ timer' = timer /\ queue' \subseteq queue
           /\ Finish(p) \/ BackToDrain(p) \/ GoesOn(p)
<1>1. ASSUME NEW label, label # "idle", Goto(p, label), UNCHANGED <<job, due>>
      PROVE  GoesOn(p)
    BY <1>1 DEF TypeOK, Goto, GoesOn, Others
<1>2. CASE Begin(p)
  <2>1. CASE BeginPut(p)
      BY <1>1, <2>1 DEF BeginPut, Read, Refuse, expiry
  <2>2. CASE BeginFulfill(p)
      BY <1>1, <2>2 DEF BeginFulfill, Read, Refuse, ReplayFulfillment, expiry
  <2>3. CASE BeginExpire(p)
      BY <1>1, <2>3 DEF BeginExpire, Read, expiry
  <2>4. QED
      BY <1>2, <2>1, <2>2, <2>3 DEF Begin
<1>3. CASE Write(p)
  <2>1. CASE WritePut(p) \/ WriteFulfill(p) \/ WriteExpire(p)
      BY <1>1, <2>1 DEF WritePut, WriteFulfill, WriteExpire, Written
  <2>2. CASE WritePutUncovered(p)
      BY <2>2 DEF WritePutUncovered, expiry
  <2>3. CASE WritePutConflict(p)
      BY <2>3, RetryHands DEF WritePutConflict, expiry
  <2>4. CASE WriteFulfillConflict(p)
      BY <2>4, RetryHands DEF WriteFulfillConflict
  <2>5. CASE WriteExpireConflict(p)
      BY <2>5, RetryHands DEF WriteExpireConflict, expiry
  <2>6. QED
      BY <1>3, <2>1, <2>2, <2>3, <2>4, <2>5 DEF Write
<1>4. CASE Commit(p)
    BY <1>1, <1>4 DEF Commit, expiry
<1>5. CASE CommitConflict(p)
    BY <1>5, RetryHands DEF CommitConflict, expiry
<1>6. CASE DatabaseError(p)
    BY <1>6 DEF DatabaseError, expiry
<1>7. CASE Notify(p)
    BY <1>1, <1>7 DEF Notify, expiry
<1>8. QED
    BY <1>2, <1>3, <1>4, <1>5, <1>6, <1>7 DEF Works

LEMMA WorkKeepsHands ==
    ASSUME TypeOK, HandInv, NEW p \in Procs, Works(p)
    PROVE  HandInv'
<1>1. now' = now /\ queue' \subseteq queue
    BY WorkSteps
<1>2. due[p] \cap Expiring(p) = {}
    BY DEF HandInv, HeldByOne
<1>3. CASE Finish(p)
    BY <1>1, <1>3, FinishHands, HandKeeps DEF InHand, Expiring
<1>4. CASE BackToDrain(p)
    BY <1>1, <1>4, BackToDrainHands, HandKeeps DEF InHand, Expiring
<1>5. CASE GoesOn(p)
    BY <1>1, <1>2, <1>5, HandKeeps DEF InHand, Expiring, GoesOn
<1>6. QED
    BY <1>3, <1>4, <1>5, WorkSteps

(* A request that arrives, a timer that fires and a run that sets the timer  *)
(* have nothing in hand that they had not before.                            *)
LEMMA StartKeepsHands ==
    ASSUME TypeOK, HandInv, NEW p \in Procs,
           (p \in Clients /\ Receive(p)) \/ TimerFires(p) \/ Rearm(p)
    PROVE  HandInv'
<1>1. due[p] \cap Expiring(p) = {}
    BY DEF HandInv, HeldByOne
<1>2. ASSUME NEW request, Accept(p, request), request.op # "expire" PROVE HandInv'
  <2>1. /\ Others(p) /\ now' = now /\ queue' = queue /\ pc'[p] = "begin"
        /\ due' = due /\ job'[p] = request
      BY <1>2 DEF TypeOK, Accept, Goto, Others, expiry
  <2>2. QED
      BY <1>2, <2>1, HandKeeps DEF InHand, Expiring
<1>3. CASE Receive(p)
    BY <1>2, <1>3 DEF Receive, ReceivePut, ReceiveRejection, ReceiveFulfillment
<1>4. CASE TimerFires(p)
  <2>1. /\ Others(p) /\ now' = now /\ queue' = queue /\ pc'[p] = "pop"
        /\ due' = due /\ job' = job
      BY <1>4 DEF TypeOK, TimerFires, Goto, Others
  <2>2. QED
      BY <1>1, <2>1, HandKeeps DEF InHand, Expiring
<1>5. CASE Rearm(p)
  <2>1. Finish(p) /\ now' = now /\ queue' = queue
      BY <1>5 DEF Rearm
  <2>2. QED
      BY <2>1, FinishHands, HandKeeps DEF InHand, Expiring
<1>6. QED
    BY <1>3, <1>4, <1>5

(* watch takes only a transfer that nobody has in hand: its date is ahead.   *)
LEMMA WatchKeepsHands ==
    ASSUME TypeOK, HandInv, NEW p \in Procs, Watch(p)
    PROVE  HandInv'
<1> DEFINE t == job[p].id
<1>1. now' = now
    BY DEF Watch
<1>2. CASE Finish(p) /\ UNCHANGED queue
    BY <1>1, <1>2, FinishHands, HandKeeps DEF InHand, Expiring
<1>3. CASE Watchable(t)
  <2>1. /\ queue' = queue \cup {t} /\ Others(p) /\ pc'[p] = "pop"
        /\ due' = due /\ job'[p].op = "none"
      BY <1>3 DEF TypeOK, Watch, Goto, Others, NoJob
  <2>2. t \in Transfers
      BY AtWork DEF Watch
  <2>3. ~Expired(t)
      BY <1>3, <2>2, ContentAssumption DEF TypeOK, Watchable, Expired, NoTime
  <2>4. \A q \in Procs : t \notin InHand(q)
      BY <2>3 DEF HandInv, HandOK
  <2>5. ASSUME NEW q \in Procs
        PROVE  InHand(q)' \subseteq InHand(q) /\ due'[q] \cap Expiring(q)' = {}
      BY <2>1 DEF Others, InHand, Expiring, HandInv, HeldByOne
  <2>6. HeldByOne'
      BY <2>1, <2>4, <2>5 DEF HandInv, HeldByOne
  <2>7. \A q \in Procs : HandOK(q)'
      BY <1>1, <2>1, <2>5 DEF HandInv, HandOK, Expired, Others
  <2>8. QED
      BY <2>6, <2>7 DEF HandInv
<1>4. QED
    BY <1>2, <1>3 DEF Watch

(* popBeforeDate takes what is due out of the queue, where it was alone; the *)
(* loop of processExpiredTransfers goes through it one by one.               *)
LEMMA PopKeepsHands ==
    ASSUME TypeOK, OutcomeInv, HandInv, NEW p \in Procs, Pop(p)
    PROVE  HandInv'
<1>1. PICK popped \in SUBSET {t \in queue : IsDue(t)} :
          due' = [due EXCEPT ![p] = popped] /\ queue' = queue \ popped
    BY DEF Pop
<1>2. /\ Others(p) /\ now' = now /\ job' = job /\ pc'[p] = "drain"
      /\ due'[p] = popped
    BY <1>1 DEF TypeOK, Pop, Goto, Others
<1>3. \A t \in popped : Expired(t)
    BY DEF OutcomeInv, WatchedExpire, IsDue, Expired
<1>4. /\ InHand(p)' = popped \cup Expiring(p) /\ Expiring(p)' = Expiring(p)
      /\ \A q \in Procs \ {p} :
             InHand(q)' = InHand(q) /\ due'[q] = due[q] /\ Expiring(q)' = Expiring(q)
    BY <1>2 DEF Others, InHand, Expiring
<1>5. \A q \in Procs : InHand(q) \cap queue = {} /\ due[q] \cap Expiring(q) = {}
    BY DEF HandInv, HeldByOne
<1>6. \A q, r \in Procs : q # r => InHand(q) \cap InHand(r) = {}
    BY DEF HandInv, HeldByOne
<1>7. Expiring(p) \subseteq InHand(p) /\ popped \subseteq queue
    BY DEF InHand
<1>8. ASSUME NEW q \in Procs
      PROVE  InHand(q)' \cap queue' = {} /\ due'[q] \cap Expiring(q)' = {}
    BY <1>1, <1>2, <1>4, <1>5, <1>7
<1>9. ASSUME NEW q \in Procs, NEW r \in Procs, q # r
      PROVE  InHand(q)' \cap InHand(r)' = {}
    BY <1>4, <1>5, <1>6, <1>7, <1>9
<1>10. ASSUME NEW q \in Procs PROVE HandOK(q)'
  <2>1. \A t \in InHand(q)' : Expired(t)
      BY <1>3, <1>4, <1>7 DEF HandInv, HandOK
  <2>2. pc'[q] = "idle" => job'[q].op # "expire"
      BY <1>2 DEF Others, HandInv, HandOK
  <2>3. QED
      BY <1>2, <2>1, <2>2 DEF HandOK, Expired
<1>11. QED
    BY <1>8, <1>9, <1>10 DEF HandInv, HeldByOne

LEMMA DrainKeepsHands ==
    ASSUME TypeOK, HandInv, NEW p \in Procs, Drain(p)
    PROVE  HandInv'
<1>1. PICK t \in due[p] :
          /\ due' = [due EXCEPT ![p] = @ \ {t}]
          /\ job' = [job EXCEPT ![p] =
                        [op |-> "expire", id |-> t, by |-> Admin, auth |-> {},
                         rejectedBy |-> {}, reason |-> "none", condition |-> "none"]]
    BY DEF Drain
<1>2. /\ Others(p) /\ now' = now /\ queue' = queue /\ pc'[p] = "begin"
      /\ due'[p] = due[p] \ {t} /\ job'[p].op = "expire" /\ job'[p].id = t
    BY <1>1 DEF TypeOK, Drain, Goto, Others, expiry
<1>3. QED
    BY <1>2, HandKeeps DEF InHand, Expiring

(* However many runs of processTimeQueue overlap, whatever they meet on the  *)
(* way, each transfer is watched or in the hands of one of them.             *)
THEOREM HandsCorrect == Spec => []HandInv
<1>1. Init => HandInv
    BY DEF Init, HandInv, HandOK, HeldByOne, InHand, Expiring, NoJob
<1>2. TypeOK /\ OutcomeInv /\ HandInv /\ [Next]_vars => HandInv'
  <2> SUFFICES ASSUME TypeOK, OutcomeInv, HandInv, [Next]_vars PROVE HandInv'
      OBVIOUS
  <2>1. ASSUME NEW c \in Clients, Receive(c) PROVE HandInv'
      BY <2>1, StartKeepsHands DEF Procs
  <2>2. ASSUME NEW p \in Procs, Run(p) PROVE HandInv'
      BY <2>2, WorkKeepsHands, StartKeepsHands, WatchKeepsHands, PopKeepsHands,
         DrainKeepsHands DEF Run, Works
  <2>3. ASSUME NEW p \in TimerRuns, TimerFires(p) PROVE HandInv'
      BY <2>3, StartKeepsHands DEF Procs
  <2>4. CASE Tick
    <3>1. now' \in Nat /\ now' >= now /\ UNCHANGED <<queue, pc, job, due>>
        BY <2>4 DEF TypeOK, Tick, expiry, procs
    <3>2. ASSUME NEW p \in Procs, NEW t \in InHand(p) PROVE Expired(t)'
      <4>1. t \in Transfers
        <5>1. due[p] \subseteq Transfers /\ job[p] \in Jobs \cup {NoJob}
            BY DEF TypeOK
        <5>2. job[p].op = "expire" => job[p].id \in Transfers
            BY <5>1 DEF Jobs, NoJob
        <5>3. QED
            BY <3>2, <5>1, <5>2 DEF InHand, Expiring
      <4>2. ExpiresAt[t] \in Nat \cup {NoTime} /\ now \in Nat /\ Expired(t)
          BY <3>2, <4>1, ContentAssumption DEF TypeOK, HandInv, HandOK
      <4>3. QED
          BY <3>1, <4>2 DEF Expired, NoTime
    <3>3. \A p \in Procs : InHand(p)' = InHand(p) /\ Expiring(p)' = Expiring(p)
        BY <3>1 DEF InHand, Expiring
    <3>4. HeldByOne'
        BY <3>1, <3>3 DEF HandInv, HeldByOne
    <3>5. \A p \in Procs : HandOK(p)'
        BY <3>1, <3>2, <3>3 DEF HandInv, HandOK
    <3>6. QED
        BY <3>4, <3>5 DEF HandInv
  <2>5. CASE Crash
      BY <2>5 DEF Crash, HandInv, HandOK, HeldByOne, InHand, Expiring, NoJob
  <2>6. CASE Quiescent \/ UNCHANGED vars
      BY <2>6 DEF Quiescent, vars, expiry, procs, HandInv, HandOK, HeldByOne, InHand,
                  Expiring, Expired
  <2>7. QED
      BY <2>1, <2>2, <2>3, <2>4, <2>5, <2>6 DEF Next
<1>3. QED
    BY <1>1, <1>2, TypeCorrect, OutcomesCorrect, PTL DEF Spec

(* A transfer is watched, or expired by one run, and never both.             *)
THEOREM OneExpirerAtATime == Spec => []HeldByOne
<1>1. HandInv => HeldByOne
    BY DEF HandInv
<1>2. QED
    BY <1>1, HandsCorrect, PTL

------------------------------------------------------------------------------
(* The timer.  A step keeps it armed for those who wait, unless it is the    *)
(* end of an expiry in an error; such a step puts nothing into the queue.    *)
LEMMA TimerStep ==
    ASSUME TypeOK, OutcomeInv, HandInv, [Next]_vars, QueueHasTimer
    PROVE  \/ QueueHasTimer'
           \/ \E p \in Procs : job[p].op = "expire" /\ pc'[p] = "idle" /\ queue' \subseteq queue
<1>1. ASSUME NEW p \in Procs, Others(p), timer' = timer, queue' \subseteq queue,
             Draining(p) => Draining(p)'
      PROVE  QueueHasTimer'
    BY <1>1 DEF QueueHasTimer, Draining, Others
<1>2. ASSUME NEW p \in Procs, Works(p)
      PROVE  QueueHasTimer' \/ (job[p].op = "expire" /\ pc'[p] = "idle" /\ queue' \subseteq queue)
  <2>1. pc[p] \notin {"pop", "drain"} /\ timer' = timer /\ queue' \subseteq queue
      BY <1>2, WorkSteps
  <2>2. CASE Finish(p)
    <3>1. Others(p) /\ pc'[p] = "idle"
        BY <2>2, FinishHands
    <3>2. QED
        BY <1>1, <2>1, <3>1 DEF Draining
  <2>3. CASE BackToDrain(p)
    <3>1. Others(p) /\ pc'[p] = "drain"
        BY <2>3, BackToDrainHands
    <3>2. QED
        BY <1>1, <2>1, <3>1 DEF Draining
  <2>4. CASE GoesOn(p)
      BY <1>1, <2>1, <2>4 DEF Draining, GoesOn
  <2>5. QED
      BY <1>2, <2>2, <2>3, <2>4, WorkSteps
<1>3. ASSUME NEW c \in Clients, Receive(c) PROVE QueueHasTimer'
  <2>1. ASSUME NEW request, Accept(c, request) PROVE QueueHasTimer'
    <3>1. c \in Procs /\ pc[c] = "idle" /\ job[c].op # "expire"
        BY <2>1 DEF Procs, Accept, HandInv, HandOK
    <3>2. Others(c) /\ timer' = timer /\ queue' = queue
        BY <2>1, <3>1 DEF TypeOK, Accept, Goto, Others, expiry
    <3>3. QED
        BY <1>1, <3>1, <3>2 DEF Draining
  <2>2. QED
      BY <1>3, <2>1 DEF Receive, ReceivePut, ReceiveRejection, ReceiveFulfillment
<1>4. ASSUME NEW p \in Procs, Watch(p)
      PROVE  QueueHasTimer' \/ (job[p].op = "expire" /\ pc'[p] = "idle" /\ queue' \subseteq queue)
  <2>1. pc[p] = "watch" /\ timer' = timer
      BY <1>4 DEF Watch
  <2>2. CASE Finish(p) /\ UNCHANGED queue
    <3>1. Others(p) /\ pc'[p] = "idle"
        BY <2>2, FinishHands
    <3>2. QED
        BY <1>1, <2>1, <2>2, <3>1 DEF Draining
  <2>3. CASE Watchable(job[p].id)
    <3>1. pc'[p] = "pop"
        BY <1>4, <2>3 DEF TypeOK, Watch, Goto
    <3>2. QED
        BY <3>1 DEF QueueHasTimer, Draining
  <2>4. QED
      BY <1>4, <2>2, <2>3 DEF Watch
<1>5. ASSUME NEW p \in Procs, TimerFires(p) \/ Pop(p) PROVE QueueHasTimer'
  <2>1. pc'[p] \in {"pop", "drain"}
      BY <1>5 DEF TypeOK, TimerFires, Pop, Goto
  <2>2. QED
      BY <2>1 DEF QueueHasTimer, Draining
<1>6. ASSUME NEW p \in Procs, Drain(p) PROVE QueueHasTimer'
  <2>1. job'[p].op = "expire"
      BY <1>6 DEF TypeOK, Drain
  <2>2. QED
      BY <2>1 DEF QueueHasTimer, Draining
<1>7. ASSUME NEW p \in Procs, Rearm(p) PROVE QueueHasTimer'
    BY <1>7 DEF Rearm, QueueHasTimer, OutcomeInv, WatchedExpire
<1>8. CASE Tick \/ Quiescent \/ UNCHANGED vars
    BY <1>8 DEF Tick, Quiescent, vars, expiry, procs, QueueHasTimer, Draining
<1>9. CASE Crash
    BY <1>9 DEF Crash, QueueHasTimer
<1>10. ASSUME NEW p \in Procs, Run(p)
       PROVE  QueueHasTimer' \/ (job[p].op = "expire" /\ pc'[p] = "idle" /\ queue' \subseteq queue)
    BY <1>2, <1>4, <1>5, <1>6, <1>7, <1>10 DEF Run, Works
<1>11. ASSUME NEW p \in TimerRuns, TimerFires(p) PROVE QueueHasTimer'
    BY <1>5, <1>11 DEF Procs
<1>12. QED
    BY <1>3, <1>8, <1>9, <1>10, <1>11 DEF Next

(* Nothing takes the timer away from those who wait but an expiry that ends  *)
(* in an error.                                                              *)
THEOREM OnlyFailuresStop == Spec => OnlyFailuresStopTimer
<1>1. TypeOK /\ OutcomeInv /\ HandInv /\ [Next]_vars
          => [QueueHasTimer /\ ~ExpiryFails => QueueHasTimer']_vars
    BY TimerStep DEF ExpiryFails
<1>2. QED
    BY <1>1, TypeCorrect, OutcomesCorrect, HandsCorrect, PTL DEF Spec, OnlyFailuresStopTimer

(* So whoever waits has a timer as long as no expiry failed ...              *)
THEOREM TimerWithoutFailures == Spec /\ [][~ExpiryFails]_vars => []QueueHasTimer
<1>1. Init => QueueHasTimer
    BY DEF Init, QueueHasTimer
<1>2. QueueHasTimer /\ [QueueHasTimer /\ ~ExpiryFails => QueueHasTimer']_vars
          /\ [~ExpiryFails]_vars => QueueHasTimer'
    BY DEF vars, expiry, procs, QueueHasTimer, Draining
<1>3. QED
    BY <1>1, <1>2, OnlyFailuresStop, PTL DEF Spec, OnlyFailuresStopTimer

(* ... and, whatever fails, while at most one transfer has an expires_at: a  *)
(* failed expiry forgets the others that wait, and there are none.           *)
OneExpires ==
    \A t, u \in Transfers : ExpiresAt[t] # NoTime /\ ExpiresAt[u] # NoTime => t = u

THEOREM TimerOfTheOnlyOne ==
    ASSUME OneExpires
    PROVE  Spec => []QueueHasTimer
<1>1. Init => QueueHasTimer
    BY DEF Init, QueueHasTimer
<1>2. TypeOK /\ OutcomeInv /\ HandInv /\ QueueHasTimer /\ [Next]_vars => QueueHasTimer'
  <2> SUFFICES ASSUME TypeOK, OutcomeInv, HandInv, QueueHasTimer, [Next]_vars,
                      NEW p \in Procs, job[p].op = "expire", queue' \subseteq queue
               PROVE  QueueHasTimer'
      BY TimerStep
  <2> DEFINE t == job[p].id
  <2>1. t \in InHand(p) /\ t \in Transfers
    <3>1. job[p] \in Jobs
        BY DEF TypeOK, NoJob
    <3>2. QED
        BY <3>1 DEF InHand, Expiring, Jobs
  <2>2. ExpiresAt[t] # NoTime /\ t \notin queue
      BY <2>1 DEF HandInv, HandOK, HeldByOne, Expired
  <2>3. \A u \in queue : u \in Transfers /\ ExpiresAt[u] # NoTime
      BY DEF TypeOK, OutcomeInv, WatchedExpire
  <2>4. queue = {}
      BY <2>1, <2>2, <2>3 DEF OneExpires
  <2>5. QED
      BY <2>4 DEF QueueHasTimer
<1>3. QED
    BY <1>1, <1>2, TypeCorrect, OutcomesCorrect, HandsCorrect, PTL DEF Spec

------------------------------------------------------------------------------
(* The announcement of an expiry, made before its commit, is true or about   *)
(* to become true as long as that commit does not fail: no other chain can   *)
(* touch the row meanwhile.                                                  *)
Rejecting(t) ==
    \E p \in Procs : pc[p] = "commit" /\ job[p].op = "expire" /\ job[p].id = t

RejectionPending ==
    \A t \in Transfers :
        "rejected" \in sent[t] => row[t].state = "rejected" \/ Rejecting(t)

(* A step of a chain that has nothing to commit leaves the others at theirs. *)
LEMMA PendingKeeps ==
    ASSUME NEW p \in Procs, pc[p] # "commit", Others(p), row' = row,
           \A t \in Transfers : "rejected" \in sent'[t] =>
               row[t].state = "rejected" \/ Rejecting(t) \/ Rejecting(t)'
    PROVE  RejectionPending'
<1>1. \A t : Rejecting(t) => Rejecting(t)'
    BY DEF Rejecting, Others
<1>2. QED
    BY <1>1 DEF RejectionPending

LEMMA CommitMakesTrue ==
    ASSUME TypeOK, IInv, RejectionPending, NEW p \in Procs, Commit(p)
    PROVE  RejectionPending'
<1> DEFINE u == job[p].id
<1>1. /\ pc[p] = "commit" /\ u \in Transfers /\ sent' = sent
      /\ row' = [row EXCEPT ![u] = plan[p].row]
      /\ row[u] = snap[p] /\ Planned(p)
    BY AtWork DEF Commit, IInv, TransactionOK, CommittingOK
<1>2. Others(p)
    BY DEF TypeOK, Commit, BackToDrain, Goto, Others
<1>3. row[u].state = "rejected" => row'[u].state = "rejected"
  <2>1. Transition(snap[p].state, plan[p].row.state, plan[p].moves)
      BY <1>1, CommitTransition
  <2>2. QED
      BY <1>1, <2>1 DEF TypeOK, Transition
<1>4. job[p].op = "expire" => row'[u].state = "rejected"
  <2>1. snap[p] \in Rows
      BY DEF TypeOK
  <2>2. job[p].op = "expire" => plan[p].row = ExpireRow(snap[p])
      BY <1>1 DEF Planned
  <2>3. job[p].op = "expire" => plan[p].row.state = "rejected"
      BY <2>1, <2>2 DEF ExpireRow, Rows
  <2>4. QED
      BY <1>1, <2>3 DEF TypeOK
<1>5. ASSUME NEW t \in Transfers, "rejected" \in sent'[t]
      PROVE  row'[t].state = "rejected" \/ Rejecting(t)'
  <2>1. CASE row[t].state = "rejected"
      BY <1>1, <1>3, <2>1 DEF TypeOK
  <2>2. CASE Rejecting(t)
    <3>1. PICK q \in Procs : pc[q] = "commit" /\ job[q].op = "expire" /\ job[q].id = t
        BY <2>2 DEF Rejecting
    <3>2. CASE q = p
        BY <1>4, <3>1, <3>2
    <3>3. CASE q # p
        BY <1>2, <3>1, <3>3 DEF Others, Rejecting
    <3>4. QED
        BY <3>2, <3>3
  <2>3. QED
      BY <1>1, <1>5, <2>1, <2>2 DEF RejectionPending
<1>6. QED
    BY <1>5 DEF RejectionPending

LEMMA WorkKeepsPending ==
    ASSUME Faults = {}, TypeOK, IInv, OutcomeInv, RejectionPending,
           NEW p \in Procs, Works(p)
    PROVE  RejectionPending'
<1>1. Others(p)
    BY WorkSteps, FinishHands, BackToDrainHands DEF GoesOn
<1>2. CASE Commit(p)
    BY <1>2, CommitMakesTrue
<1>3. CASE Begin(p)
  <2>1. pc[p] # "commit" /\ row' = row /\ sent' = sent
      BY <1>3 DEF Begin, BeginPut, BeginFulfill, BeginExpire, Read, Refuse,
                  ReplayFulfillment, tables
  <2>2. QED
      BY <1>1, <2>1, PendingKeeps DEF RejectionPending
<1>4. CASE Write(p)
  <2>1. pc[p] = "write" /\ row' = row
      BY <1>4 DEF Write, WritePut, WritePutUncovered, WritePutConflict, WriteFulfill,
                  WriteFulfillConflict, WriteExpire, WriteExpireConflict, Written, tables
  <2>2. CASE WriteExpire(p)
    <3>1. /\ sent' = [sent EXCEPT ![job[p].id] = @ \cup {"rejected"}]
          /\ pc'[p] = "commit" /\ job' = job /\ job[p].op = "expire"
        BY <2>2 DEF TypeOK, WriteExpire, Announce, Written, Goto
    <3>2. ASSUME NEW t \in Transfers, t = job[p].id PROVE Rejecting(t)'
        BY <3>1, <3>2 DEF Rejecting
    <3>3. ASSUME NEW t \in Transfers, t # job[p].id PROVE sent'[t] = sent[t]
        BY <3>1, <3>3 DEF TypeOK
    <3>4. \A t \in Transfers : "rejected" \in sent'[t] =>
              row[t].state = "rejected" \/ Rejecting(t) \/ Rejecting(t)'
        BY <3>2, <3>3 DEF RejectionPending
    <3>5. QED
        BY <1>1, <2>1, <3>4, PendingKeeps
  <2>3. CASE ~WriteExpire(p)
    <3>1. sent' = sent
        BY <1>4, <2>3 DEF Write, WritePut, WritePutUncovered, WritePutConflict,
               WriteFulfill, WriteFulfillConflict, WriteExpireConflict
    <3>2. QED
        BY <1>1, <2>1, <3>1, PendingKeeps DEF RejectionPending
  <2>4. QED
      BY <2>2, <2>3
<1>5. CASE Notify(p)
  <2>1. pc[p] = "notify" /\ row' = row
        /\ sent' = [sent EXCEPT ![job[p].id] = @ \cup {plan[p].row.state}]
      BY <1>5 DEF Notify, Announce, tables
  <2>2. plan[p].row.state = "rejected" => row[job[p].id].state = "rejected"
      BY <2>1 DEF OutcomeInv, ChainOK, OutcomeOK, IsFinal, FinalStates
  <2>3. ASSUME NEW t \in Transfers, "rejected" \in sent'[t]
        PROVE  row[t].state = "rejected" \/ Rejecting(t)
      BY <2>1, <2>2, <2>3 DEF TypeOK, RejectionPending
  <2>4. QED
      BY <1>1, <2>1, <2>3, PendingKeeps
<1>6. ~CommitConflict(p) /\ ~DatabaseError(p)
    BY DEF CommitConflict, DatabaseError
<1>7. QED
    BY <1>2, <1>3, <1>4, <1>5, <1>6 DEF Works

LEMMA MonitorKeepsPending ==
    ASSUME TypeOK, RejectionPending, NEW p \in Procs,
           \/ p \in Clients /\ Receive(p)
           \/ Watch(p) \/ TimerFires(p) \/ Pop(p) \/ Drain(p) \/ Rearm(p)
    PROVE  RejectionPending'
<1>1. ASSUME pc[p] # "commit", Others(p), row' = row, sent' = sent PROVE RejectionPending'
    BY <1>1, PendingKeeps DEF RejectionPending
<1>2. ASSUME NEW request, Accept(p, request) PROVE RejectionPending'
  <2>1. pc[p] # "commit" /\ row' = row /\ sent' = sent /\ Others(p)
      BY <1>2 DEF TypeOK, Accept, Goto, Others, tables
  <2>2. QED
      BY <1>1, <2>1
<1>3. CASE Receive(p)
    BY <1>2, <1>3 DEF Receive, ReceivePut, ReceiveRejection, ReceiveFulfillment
<1>4. CASE Watch(p)
  <2>1. pc[p] # "commit" /\ row' = row /\ sent' = sent
      BY <1>4 DEF Watch, tables
  <2>2. Others(p)
    <3>1. CASE Finish(p)
        BY <3>1, FinishHands
    <3>2. CASE ~Finish(p)
        BY <1>4, <3>2 DEF TypeOK, Watch, Goto, Others
    <3>3. QED
        BY <3>1, <3>2
  <2>3. QED
      BY <1>1, <2>1, <2>2
<1>5. CASE TimerFires(p) \/ Pop(p) \/ Drain(p)
  <2>1. pc[p] # "commit" /\ row' = row /\ sent' = sent
      BY <1>5 DEF TimerFires, Pop, Drain, tables
  <2>2. Others(p)
      BY <1>5 DEF TypeOK, TimerFires, Pop, Drain, Goto, Others
  <2>3. QED
      BY <1>1, <2>1, <2>2
<1>6. CASE Rearm(p)
  <2>1. pc[p] # "commit" /\ row' = row /\ sent' = sent /\ Finish(p)
      BY <1>6 DEF Rearm, tables
  <2>2. QED
      BY <1>1, <2>1, FinishHands
<1>7. QED
    BY <1>3, <1>4, <1>5, <1>6

(* Subscribers are told two outcomes of one transfer only where a COMMIT or  *)
(* a statement fails or the server is restarted: conflicts, retries and      *)
(* overlapping expiries and fulfilments alone never lead to it.              *)
THEOREM OneOutcomeWithoutFailures ==
    ASSUME Faults = {}, MaxCrashes = 0
    PROVE  Spec => []OneOutcomeAnnounced
<1>1. Init => RejectionPending
    BY DEF Init, RejectionPending
<1>2. TypeOK /\ IInv /\ OutcomeInv /\ RejectionPending /\ [Next]_vars => RejectionPending'
  <2> SUFFICES ASSUME TypeOK, IInv, OutcomeInv, RejectionPending, [Next]_vars
               PROVE  RejectionPending'
      OBVIOUS
  <2>1. ASSUME NEW c \in Clients, Receive(c) PROVE RejectionPending'
      BY <2>1, MonitorKeepsPending DEF Procs
  <2>2. ASSUME NEW p \in Procs, Run(p) PROVE RejectionPending'
      BY <2>2, WorkKeepsPending, MonitorKeepsPending DEF Run, Works
  <2>3. ASSUME NEW p \in TimerRuns, TimerFires(p) PROVE RejectionPending'
      BY <2>3, MonitorKeepsPending DEF Procs
  <2>4. CASE Tick \/ Quiescent \/ UNCHANGED vars
      BY <2>4 DEF Tick, Quiescent, vars, tables, procs, RejectionPending, Rejecting
  <2>5. ~Crash
      BY DEF Crash, TypeOK
  <2>6. QED
      BY <2>1, <2>2, <2>3, <2>4, <2>5 DEF Next
<1>3. TypeOK /\ IInv /\ OutcomeInv /\ RejectionPending => OneOutcomeAnnounced
  <2> SUFFICES ASSUME TypeOK, IInv, OutcomeInv, RejectionPending, NEW t \in Transfers,
                      "executed" \in sent[t], "rejected" \in sent[t]
               PROVE  FALSE
      BY DEF OneOutcomeAnnounced
  <2>1. row[t].state = "executed"
      BY DEF OutcomeInv, AnnouncedOK, AnnouncedIsExecuted
  <2>2. PICK p \in Procs : pc[p] = "commit" /\ job[p].op = "expire" /\ job[p].id = t
      BY <2>1 DEF RejectionPending, Rejecting
  <2>3. row[t] = snap[p] /\ Expirable(snap[p])
      BY <2>2 DEF IInv, TransactionOK, CommittingOK, Validated
  <2>4. QED
      BY <2>1, <2>3 DEF Expirable, IsFinal, FinalStates
<1>4. QED
    BY <1>1, <1>2, <1>3, TypeCorrect, Invariant, OutcomesCorrect, PTL DEF Spec

------------------------------------------------------------------------------
(* What is proved of the abstract ledger holds of the server, too.  (shown   *)
(* is a variable of Receipts, which LedgerProofs extends.)                   *)
Promised == INSTANCE LedgerProofs WITH
    state <- [t \in Transfers |-> row[t].state],
    fulfillment <- [t \in Transfers |-> row[t].fulfillment],
    shown <- [t \in Transfers |-> {}]

(* The two instances of Ledger are the same.                                 *)
LEMMA SameRules ==
    /\ \A t \in Transfers : Promised!ValidAmounts(t) <=> Committed!ValidAmounts(t)
    /\ \A t \in Transfers : Promised!Covered(t) <=> Committed!Covered(t)
    /\ \A t \in Transfers : \A moves, a : Promised!Change(t, moves, a) = Committed!Change(t, moves, a)
    /\ Promised!MoneyConserved <=> Committed!MoneyConserved
<1>1. \A f : Promised!SumFunction(f) = Committed!SumFunction(f)
    BY DEF Promised!SumFunction, Committed!SumFunction,
           Promised!SumFunctionOnSet, Committed!SumFunctionOnSet,
           Promised!FoldFunctionOnSet, Committed!FoldFunctionOnSet,
           Promised!MapThenFoldSet, Committed!MapThenFoldSet
<1>2. \A t \in Transfers : Promised!ValidAmounts(t) <=> Committed!ValidAmounts(t)
    BY <1>1 DEF Promised!ValidAmounts, Committed!ValidAmounts,
                Promised!Positive, Committed!Positive
<1>3. \A t \in Transfers : Promised!Covered(t) <=> Committed!Covered(t)
    BY DEF Promised!Covered, Committed!Covered, Promised!Debtors, Committed!Debtors
<1>4. \A t \in Transfers : \A moves, a :
          Promised!Change(t, moves, a) = Committed!Change(t, moves, a)
    BY DEF Promised!Change, Committed!Change, Promised!DebitOf, Committed!DebitOf,
           Promised!CreditOf, Committed!CreditOf, Promised!Debtors, Committed!Debtors,
           Promised!Creditors, Committed!Creditors
<1>5. Promised!MoneyConserved <=> Committed!MoneyConserved
    BY <1>1 DEF Promised!MoneyConserved, Committed!MoneyConserved,
                Promised!HeldBy, Committed!HeldBy
<1>6. QED
    BY <1>2, <1>3, <1>4, <1>5

LEMMA SameSpec == ImplementsLedger => Promised!Spec
<1>1. Committed!Init => Promised!Init
    BY DEF Committed!Init, Promised!Init
<1>2. [Committed!Next]_(Committed!vars) => [Promised!Next]_(Promised!vars)
  <2> SUFFICES ASSUME [Committed!Next]_(Committed!vars)
               PROVE  Promised!Next \/ UNCHANGED Promised!vars
      OBVIOUS
  <2>1. CASE UNCHANGED Committed!vars
      BY <2>1 DEF Committed!vars, Promised!vars
  <2>2. ASSUME NEW t \in Transfers, Committed!Move(t) PROVE Promised!Move(t)
    <3>1. CASE Committed!Propose(t)
        BY <3>1, SameRules DEF Committed!Propose, Promised!Propose, Committed!Become,
               Promised!Become, Promised!Move
    <3>2. CASE Committed!Prepare(t)
        BY <3>2, SameRules DEF Committed!Prepare, Promised!Prepare, Committed!Become,
               Promised!Become, Committed!Pay, Promised!Pay, Committed!Open,
               Promised!Open, Promised!Move
    <3>3. CASE Committed!ExecuteAtOnce(t)
        BY <3>3, SameRules DEF Committed!ExecuteAtOnce, Promised!ExecuteAtOnce,
               Committed!Become, Promised!Become, Committed!Pay, Promised!Pay,
               Committed!Open, Promised!Open, Promised!Move
    <3>4. CASE Committed!Execute(t)
        BY <3>4, SameRules DEF Committed!Execute, Promised!Execute, Committed!Become,
               Promised!Become, Committed!Pay, Promised!Pay, Promised!Move
    <3>5. CASE Committed!Cancel(t)
        BY <3>5, SameRules DEF Committed!Cancel, Promised!Cancel, Committed!Become,
               Promised!Become, Committed!Pay, Promised!Pay, Promised!Move
    <3>6. CASE Committed!Reject(t)
        BY <3>6, SameRules DEF Committed!Reject, Promised!Reject, Committed!Become,
               Promised!Become, Committed!Pay, Promised!Pay, Committed!IsFinal,
               Promised!IsFinal, Committed!FinalStates, Promised!FinalStates, Promised!Move
    <3>7. QED
        BY <2>2, <3>1, <3>2, <3>3, <3>4, <3>5, <3>6 DEF Committed!Move
  <2>3. QED
      BY <2>1, <2>2 DEF Committed!Next, Promised!Next
<1>3. QED
    BY <1>1, <1>2, PTL DEF ImplementsLedger, Committed!Spec, Promised!Spec

LEMMA SameAssumptions ==
    Promised!ContentAssumption /\ Promised!FinitenessAssumption /\ Promised!BalanceAssumption
<1>1. Promised!ContentAssumption
    BY ContentAssumption
       DEF Promised!ContentAssumption, Debtors, Creditors, Promised!NoTime, NoTime
<1>2. Promised!FinitenessAssumption
    BY FinitenessAssumption DEF Promised!FinitenessAssumption, Promised!IsFiniteSet, IsFiniteSet
<1>3. Promised!BalanceAssumption
    BY BalanceAssumption DEF Promised!BalanceAssumption
<1>4. QED
    BY <1>1, <1>2, <1>3

(* Whatever overlaps, fails, is retried or is cut off by a restart, money is *)
(* neither created nor destroyed: what the accounts can spend and what       *)
(* prepared transfers hold add up to what there was (lib/holds.js inside     *)
(* withSerializableTransaction).                                             *)
THEOREM MoneyIsConserved == Spec => []Committed!MoneyConserved
<1>1. Promised!ContentAssumption /\ Promised!FinitenessAssumption /\ Promised!BalanceAssumption
    BY SameAssumptions
<1>2. Promised!Spec => []Promised!MoneyConserved
    BY <1>1, Promised!MoneyIsConserved, PTL
<1>3. Promised!MoneyConserved => Committed!MoneyConserved
    BY SameRules
<1>4. QED
    BY <1>2, <1>3, Refinement, SameSpec, PTL

(* An executed or rejected transfer and its fulfilment never change again,   *)
(* and a conditional one is executed exactly when its fulfilment is on       *)
(* record ("This ensures the transfer can be fulfilled only once",           *)
(* src/src/lib/db.js).                                                       *)
THEOREM OutcomesAreFinal ==
    Spec => Promised!FinalForever /\ []Promised!PaidIffFulfilled
<1>1. Promised!ContentAssumption /\ Promised!FinitenessAssumption /\ Promised!BalanceAssumption
    BY SameAssumptions
<1>2. Promised!Spec => Promised!FinalForever
    BY <1>1, Promised!FinalIsForever, PTL
<1>3. Promised!Spec => []Promised!PaidIffFulfilled
    BY <1>1, Promised!PaidOnlyIfFulfilled, PTL
<1>4. QED
    BY <1>2, <1>3, Refinement, SameSpec, PTL
=============================================================================
