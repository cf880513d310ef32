--------------------------- MODULE BroadcasterProofs ---------------------------
(***************************************************************************)
(* That the table of listeners is the union of what the connections have   *)
(* subscribed to, and that notifications reach whom Subscriptions promises *)
(* them to, for any number of connections, users and event types.          *)
(***************************************************************************)
EXTENDS Broadcaster, SequenceTheorems, TLAPS

Names == Users \cup {Global}

(* What addNotificationListener adds to each set of the table.               *)
LEMMA ListeningAdded ==
    ASSUME NEW table, NEW names, NEW type, NEW c, NEW a, NEW q
    PROVE  Listening(Added(table, names, type, c), a, q) =
               Listening(table, a, q)
                   \cup (IF a \in names /\ q = type THEN {c} ELSE {})
<1> DEFINE new == Added(table, names, type, c)
<1>1. CASE a \notin names
  <2>1. TypesOf(new, a) = TypesOf(table, a)
      BY <1>1 DEF Added, TypesOf
  <2>2. a \in DOMAIN table => new[a] = table[a]
      BY <1>1 DEF Added
  <2>3. QED
      BY <1>1, <2>1, <2>2 DEF Listening, TypesOf
<1>2. CASE a \in names
  <2>1. new[a] = [t \in TypesOf(table, a) \cup {type} |->
                     Listening(table, a, t) \cup (IF t = type THEN {c} ELSE {})]
      BY <1>2 DEF Added
  <2>2. TypesOf(new, a) = TypesOf(table, a) \cup {type}
      BY <1>2, <2>1 DEF Added, TypesOf
  <2>3. QED
      BY <1>2, <2>1, <2>2 DEF Listening
<1>3. QED
    BY <1>1, <1>2

(* What removeNotificationListener takes from them.                          *)
LEMMA ListeningRemoved ==
    ASSUME NEW table, NEW subs, NEW c, NEW a, NEW q
    PROVE  Listening(Removed(table, subs, c), a, q) =
               IF Asked(subs, a, q) THEN Listening(table, a, q) \ {c}
               ELSE Listening(table, a, q)
<1> DEFINE kept(b) == {t \in DOMAIN table[b] :
                          Asked(subs, b, t) => table[b][t] \ {c} # {}}
           emptied(b) == kept(b) = {} /\ \E t \in DOMAIN table[b] : Asked(subs, b, t)
           new == Removed(table, subs, c)
<1>1. /\ DOMAIN new = {b \in DOMAIN table : ~emptied(b)}
      /\ \A b \in DOMAIN new : new[b] = [t \in kept(b) |->
            IF Asked(subs, b, t) THEN table[b][t] \ {c} ELSE table[b][t]]
    BY DEF Removed
<1>2. CASE a \in DOMAIN new
  <2>1. TypesOf(new, a) = kept(a) /\ TypesOf(table, a) = DOMAIN table[a]
      BY <1>1, <1>2 DEF TypesOf
  <2>2. QED
      BY <1>1, <1>2, <2>1 DEF Listening
<1>3. CASE a \notin DOMAIN new
  <2>1. Listening(new, a, q) = {}
      BY <1>3 DEF Listening, TypesOf
  <2>2. CASE a \notin DOMAIN table
      BY <2>1, <2>2 DEF Listening, TypesOf
  <2>3. CASE a \in DOMAIN table
    <3>1. kept(a) = {}
        BY <1>1, <1>3, <2>3
    <3>2. q \in DOMAIN table[a] => Asked(subs, a, q) /\ table[a][q] \ {c} = {}
        BY <3>1
    <3>3. QED
        BY <2>1, <2>3, <3>2 DEF Listening, TypesOf
  <2>4. QED
      BY <2>2, <2>3
<1>4. QED
    BY <1>2, <1>3

(* The connections in the table are those of the system, and so are the      *)
(* event types, which ListenersMatch ranges over.                            *)
TableOK ==
    \A a, q : Listening(listeners, a, q) # {} =>
        /\ a \in Names
        /\ q \in EventTypes
        /\ Listening(listeners, a, q) \subseteq Connections

ListOK ==
    /\ user \in [Connections -> Users \cup {Nobody}]
    /\ subscriptions \in
          [Connections -> SUBSET [accountName : Names, eventType : EventTypes]]

IInv == ListOK /\ TableOK /\ ListenersMatch

(* The steps that leave the lists and the table alone.                       *)
LEMMA OthersKeep ==
    ASSUME IInv, UNCHANGED <<subscriptions, listeners>>, ListOK'
    PROVE  IInv'
BY DEF IInv, TableOK, ListenersMatch

(* The three steps that change them.                                         *)
LEMMA ReplacedKeeps ==
    ASSUME IInv, NEW c \in Connections, NEW names \in SUBSET Users,
           NEW type \in EventTypes, SubscribeAccount(c, names, type)
    PROVE  IInv'
<1> DEFINE removed == Removed(listeners, subscriptions[c], c)
<1>1. /\ listeners' = Added(removed, names, type, c)
      /\ user' = user
      /\ subscriptions' = [subscriptions EXCEPT
             ![c] = [accountName : names, eventType : {type}]]
    BY DEF SubscribeAccount, Become
<1>2. \A a, q : Listening(listeners', a, q) =
          (IF Asked(subscriptions[c], a, q) THEN Listening(listeners, a, q) \ {c}
           ELSE Listening(listeners, a, q))
              \cup (IF a \in names /\ q = type THEN {c} ELSE {})
    BY <1>1, ListeningAdded, ListeningRemoved
<1>3. [accountName : names, eventType : {type}]
          \in SUBSET [accountName : Names, eventType : EventTypes]
    BY DEF Names
<1>4. ListOK'
    BY <1>1, <1>3 DEF IInv, ListOK
<1>5. TableOK'
  <2> SUFFICES ASSUME NEW a, NEW q, Listening(listeners', a, q) # {}
               PROVE  /\ a \in Names /\ q \in EventTypes
                      /\ Listening(listeners', a, q) \subseteq Connections
      BY DEF TableOK
  <2>1. Listening(listeners, a, q) # {} \/ (a \in names /\ q = type)
      BY <1>2
  <2>2. Listening(listeners, a, q) \subseteq Connections
      BY DEF IInv, TableOK
  <2>3. QED
      BY <1>2, <2>1, <2>2 DEF IInv, TableOK, Names
<1>6. ListenersMatch'
  <2> SUFFICES ASSUME NEW d \in Connections, NEW a \in Names, NEW q \in EventTypes
               PROVE  d \in Listening(listeners', a, q)
                          <=> Asked(subscriptions'[d], a, q)
      BY DEF ListenersMatch, Names
  <2>1. d \in Listening(listeners, a, q) <=> Asked(subscriptions[d], a, q)
      BY DEF IInv, ListenersMatch, Names
  <2>2. CASE d = c
    <3>1. Asked(subscriptions'[c], a, q) <=> a \in names /\ q = type
        BY <1>1 DEF Asked, IInv, ListOK
    <3>2. QED
        BY <1>2, <2>1, <2>2, <3>1
  <2>3. CASE d # c
      BY <1>1, <1>2, <2>1, <2>3 DEF IInv, ListOK
  <2>4. QED
      BY <2>2, <2>3
<1>7. QED
    BY <1>4, <1>5, <1>6 DEF IInv

LEMMA AddedKeeps ==
    ASSUME IInv, NEW c \in Connections, NEW type \in EventTypes,
           SubscribeAllAccounts(c, type)
    PROVE  IInv'
<1> DEFINE sub == {[accountName |-> Global, eventType |-> type]}
<1>1. /\ listeners' = Added(listeners, {Global}, type, c)
      /\ user' = user
      /\ subscriptions' = [subscriptions EXCEPT ![c] = subscriptions[c] \cup sub]
    BY DEF SubscribeAllAccounts, Become
<1>2. \A a, q : Listening(listeners', a, q) = Listening(listeners, a, q)
          \cup (IF a \in {Global} /\ q = type THEN {c} ELSE {})
    BY <1>1, ListeningAdded
<1>3. sub \in SUBSET [accountName : Names, eventType : EventTypes]
    BY DEF Names
<1>4. ListOK'
    BY <1>1, <1>3 DEF IInv, ListOK
<1>5. TableOK'
  <2> SUFFICES ASSUME NEW a, NEW q, Listening(listeners', a, q) # {}
               PROVE  /\ a \in Names /\ q \in EventTypes
                      /\ Listening(listeners', a, q) \subseteq Connections
      BY DEF TableOK
  <2>1. Listening(listeners, a, q) # {} \/ (a = Global /\ q = type)
      BY <1>2
  <2>2. Listening(listeners, a, q) \subseteq Connections
      BY DEF IInv, TableOK
  <2>3. QED
      BY <1>2, <2>1, <2>2 DEF IInv, TableOK, Names
<1>6. ListenersMatch'
  <2> SUFFICES ASSUME NEW d \in Connections, NEW a \in Names, NEW q \in EventTypes
               PROVE  d \in Listening(listeners', a, q)
                          <=> Asked(subscriptions'[d], a, q)
      BY DEF ListenersMatch, Names
  <2>1. d \in Listening(listeners, a, q) <=> Asked(subscriptions[d], a, q)
      BY DEF IInv, ListenersMatch, Names
  <2>2. CASE d = c
    <3>1. Asked(subscriptions'[c], a, q)
              <=> Asked(subscriptions[c], a, q) \/ (a = Global /\ q = type)
        BY <1>1 DEF Asked, IInv, ListOK
    <3>2. QED
        BY <1>2, <2>1, <2>2, <3>1
  <2>3. CASE d # c
    <3>1. subscriptions'[d] = subscriptions[d]
        BY <1>1, <2>3 DEF IInv, ListOK
    <3>2. d \in Listening(listeners', a, q) <=> d \in Listening(listeners, a, q)
        BY <1>2, <2>3
    <3>3. QED
        BY <2>1, <3>1, <3>2
  <2>4. QED
      BY <2>2, <2>3
<1>7. QED
    BY <1>4, <1>5, <1>6 DEF IInv

LEMMA ClosedKeeps ==
    ASSUME IInv, NEW c \in Connections, OnClose(c)
    PROVE  IInv'
<1>1. /\ listeners' = Removed(listeners, subscriptions[c], c)
      /\ user' = user
      /\ subscriptions' = [subscriptions EXCEPT ![c] = {}]
    BY DEF OnClose
<1>2. \A a, q : Listening(listeners', a, q) =
          IF Asked(subscriptions[c], a, q) THEN Listening(listeners, a, q) \ {c}
          ELSE Listening(listeners, a, q)
    BY <1>1, ListeningRemoved
<1>3. ListOK'
    BY <1>1 DEF IInv, ListOK
<1>4. TableOK'
    BY <1>2 DEF IInv, TableOK
<1>5. ListenersMatch'
  <2> SUFFICES ASSUME NEW d \in Connections, NEW a \in Names, NEW q \in EventTypes
               PROVE  d \in Listening(listeners', a, q)
                          <=> Asked(subscriptions'[d], a, q)
      BY DEF ListenersMatch, Names
  <2>1. d \in Listening(listeners, a, q) <=> Asked(subscriptions[d], a, q)
      BY DEF IInv, ListenersMatch, Names
  <2>2. CASE d = c
    <3>1. ~Asked(subscriptions'[c], a, q)
        BY <1>1 DEF Asked, IInv, ListOK
    <3>2. QED
        BY <1>2, <2>1, <2>2, <3>1
  <2>3. CASE d # c
      BY <1>1, <1>2, <2>1, <2>3 DEF IInv, ListOK
  <2>4. QED
      BY <2>2, <2>3
<1>6. QED
    BY <1>3, <1>4, <1>5 DEF IInv

(* The table all handlers share and the list each of them keeps never drift  *)
(* apart (addNotificationListener, removeAccountSubscriptions).              *)
THEOREM Inductive == Spec => []IInv
<1>1. Init => IInv
    BY DEF Init, IInv, ListOK, TableOK, ListenersMatch, Listening, TypesOf, Asked, Names
<1>2. IInv /\ [Next]_vars => IInv'
  <2> SUFFICES ASSUME IInv, [Next]_vars
               PROVE  IInv'
      OBVIOUS
  <2>1. ASSUME NEW c \in Connections, Connect(c) \/ StartClosing(c) PROVE IInv'
      BY <2>1, OthersKeep DEF Connect, StartClosing, IInv, ListOK
  <2>2. ASSUME NEW c \in Connections, OnClose(c) PROVE IInv'
      BY <2>2, ClosedKeeps
  <2>3. ASSUME NEW c \in Connections, NEW u \in Users, Authenticate(c, u) PROVE IInv'
      BY <2>3, OthersKeep DEF Authenticate, IInv, ListOK
  <2>4. ASSUME NEW c \in Connections, Rpc(c) PROVE IInv'
      BY <2>4, ReplacedKeeps, AddedKeeps DEF Rpc
  <2>5. ASSUME NEW state, NEW accounts,
               SendNotifications(state, accounts) \/ AwaitFulfillment(state, accounts)
        PROVE  IInv'
      BY <2>5, OthersKeep DEF SendNotifications, AwaitFulfillment, IInv, ListOK
  <2>6. ASSUME NEW n \in pending, GotFulfillment(n) \/ DatabaseError(n) PROVE IInv'
      BY <2>6, OthersKeep DEF GotFulfillment, DatabaseError, IInv, ListOK
  <2>7. ASSUME NEW by, NEW sender, NEW recipient, SendMessage(by, sender, recipient)
        PROVE  IInv'
      BY <2>7, OthersKeep DEF SendMessage, IInv, ListOK
  <2>8. CASE UNCHANGED vars
      BY <2>8, OthersKeep DEF vars, IInv, ListOK
  <2>9. QED
      BY <2>1, <2>2, <2>3, <2>4, <2>5, <2>6, <2>7, <2>8 DEF Next
<1>3. QED
    BY <1>1, <1>2, PTL DEF Spec

(* The theorem the handlers rely on, for every account and event type.       *)
THEOREM TableMatches == Spec => []ListenersMatch
BY Inductive, PTL DEF IInv

(* The parts of event types, those the events have among them.               *)
Parts == STRING \cup {"*", "transfer", "create", "update", "message", "send"}

(* The enumeration of event types in emitNotification finds those a listener *)
(* may have subscribed to, and no other.                                     *)
LEMMA TypesMatch ==
    ASSUME NEW type \in Seq(Parts), type # <<>>,
           NEW event \in Seq(Parts), event # <<>>
    PROVE  type \in EventTypesOf(event) <=> Promise!Matches(type, event)
<1> DEFINE prefixed(i) == Append(SubSeq(event, 1, i), "*")
<1>1. Len(type) \in Nat \ {0} /\ Len(event) \in Nat \ {0} /\ "*" \in Parts
  <2>1. Len(type) \in Nat /\ Len(event) \in Nat
      OBVIOUS
  <2>2. Len(type) # 0 /\ Len(event) # 0
      BY EmptySeq
  <2>3. "*" \in Parts
      BY DEF Parts
  <2>4. QED
      BY <2>1, <2>2, <2>3
<1>2. ASSUME NEW i \in 1..(Len(event) - 1)
      PROVE  /\ prefixed(i) \in Seq(Parts)
             /\ Len(prefixed(i)) = i + 1
             /\ prefixed(i)[i + 1] = "*"
             /\ \A j \in 1..i : prefixed(i)[j] = event[j]
  <2>1. \A j \in 1..i : event[j] \in Parts
      BY <1>1, ElementOfSeq
  <2>2. /\ SubSeq(event, 1, i) \in Seq(Parts)
        /\ Len(SubSeq(event, 1, i)) = i
        /\ \A j \in 1..i : SubSeq(event, 1, i)[j] = event[j]
      BY <2>1, SubSeqProperties
  <2>3. QED
      BY <1>1, <2>2, AppendProperties
<1>3. ASSUME type = <<"*">> PROVE Promise!Matches(type, event)
    BY <1>1, <1>3 DEF Promise!Matches
<1>4. ASSUME NEW i \in 1..(Len(event) - 1), type = prefixed(i)
      PROVE  Promise!Matches(type, event)
  <2> HIDE DEF prefixed
  <2>1. QED
      BY <1>1, <1>2, <1>4 DEF Promise!Matches
<1>5. ASSUME Promise!Matches(type, event), type # event
      PROVE  type \in EventTypesOf(event)
  <2>1. /\ Len(type) <= Len(event)
        /\ type[Len(type)] = "*"
        /\ \A j \in 1..(Len(type) - 1) : type[j] = event[j]
      BY <1>5 DEF Promise!Matches
  <2>2. CASE Len(type) = 1
    <3>1. type = <<"*">>
        BY <2>1, <2>2
    <3>2. QED
        BY <3>1 DEF EventTypesOf
  <2>3. CASE Len(type) # 1
    <3> DEFINE i == Len(type) - 1
    <3>1. i \in 1..(Len(event) - 1) /\ Len(type) = i + 1
      <4>1. Len(type) <= Len(event)
          BY <2>1
      <4>2. \A k, m \in Nat \ {0} : k <= m /\ k # 1 =>
                k - 1 \in 1..(m - 1) /\ k = (k - 1) + 1
          OBVIOUS
      <4>3. QED
          BY <1>1, <2>3, <4>1, <4>2
    <3> HIDE DEF i, prefixed
    <3>2. prefixed(i) \in Seq(Parts) /\ Len(type) = Len(prefixed(i))
        BY <1>2, <3>1
    <3>3. \A j \in 1..Len(type) : type[j] = prefixed(i)[j]
      <4> TAKE j \in 1..Len(type)
      <4>1. CASE j = i + 1
          BY <1>2, <2>1, <3>1, <4>1
      <4>2. CASE j # i + 1
        <5>1. j \in 1..i
            BY <3>1, <4>2
        <5>2. QED
            BY <1>2, <2>1, <3>1, <5>1
      <4>3. QED
          BY <4>1, <4>2
    <3>4. type = prefixed(i)
        BY <3>2, <3>3, SeqEqual
    <3>5. QED
        BY <3>1, <3>4 DEF EventTypesOf, prefixed
  <2>4. QED
      BY <2>2, <2>3
<1>6. Promise!Matches(event, event) /\ event \in EventTypesOf(event)
    BY DEF Promise!Matches, EventTypesOf
<1>7. type \in EventTypesOf(event) <=>
          type \in {<<"*">>, event} \/ \E i \in 1..(Len(event) - 1) : type = prefixed(i)
    BY DEF EventTypesOf
<1>8. QED
    BY <1>3, <1>4, <1>5, <1>6, <1>7

LEMMA EventIsSeq ==
    ASSUME NEW n \in Promise!Notification
    PROVE  n.event \in Seq(Parts) /\ n.event # <<>>
<1>1. n.event \in {Promise!Create, Promise!Update, Promise!Send}
    BY DEF Promise!Notification
<1>2. ASSUME NEW a \in Parts, NEW b \in Parts
      PROVE  <<a, b>> \in Seq(Parts) /\ <<a, b>> # <<>>
  <2>1. <<a, b>> = Append(<<a>>, b) /\ <<a>> \in Seq(Parts)
      OBVIOUS
  <2>2. QED
      BY <2>1, AppendProperties
<1>3. {"transfer", "create", "update", "message", "send"} \subseteq Parts
    BY DEF Parts
<1>4. QED
    BY <1>1, <1>2, <1>3 DEF Promise!Create, Promise!Update, Promise!Send

(* A listener is selected if and only if its connection wants the            *)
(* notification by its own list of subscriptions.                            *)
LEMMA SelectedWants ==
    ASSUME IInv, NEW n \in Promise!Notification, NEW c \in Connections
    PROVE  c \in SelectedListeners(n) <=> Promise!Wants(c, n)
<1>1. \A a \in Names, q \in EventTypes :
          c \in Listening(listeners, a, q) <=> Asked(subscriptions[c], a, q)
    BY DEF IInv, ListenersMatch, Names
<1>2. n.accounts \cup {Global} \subseteq Names
    BY DEF Promise!Notification, Names
<1>3. n.event \in Seq(Parts) /\ n.event # <<>>
    BY EventIsSeq
<1>4. c \in SelectedListeners(n) <=>
          \E a \in n.accounts \cup {Global} : \E q \in EventTypesOf(n.event) :
              c \in Listening(listeners, a, q)
    BY DEF SelectedListeners
<1>5. Promise!Wants(c, n) <=>
          \E a \in n.accounts \cup {Global} : \E q \in EventTypes :
              Asked(subscriptions[c], a, q) /\ Promise!Matches(q, n.event)
  <2>1. subscriptions[c] \subseteq [accountName : Names, eventType : EventTypes]
      BY DEF IInv, ListOK
  <2>2. ASSUME NEW s \in subscriptions[c]
        PROVE  /\ s.accountName \in Names /\ s.eventType \in EventTypes
               /\ Asked(subscriptions[c], s.accountName, s.eventType)
      BY <2>1 DEF Asked
  <2>3. \A a, q : Asked(subscriptions[c], a, q) =>
            \E s \in subscriptions[c] : s.accountName = a /\ s.eventType = q
      BY DEF Asked
  <2>4. QED
      BY <2>2, <2>3 DEF Promise!Wants, Promise!Global, Global
<1>6. \A a, q : c \in Listening(listeners, a, q) => q \in EventTypes
    BY DEF IInv, TableOK
<1>7. QED
  <2>1. \A q \in EventTypes : q \in EventTypesOf(n.event) <=> Promise!Matches(q, n.event)
    <3>1. \A q \in EventTypes : q \in Seq(Parts) /\ q # <<>>
        BY BroadcasterAssumption, SeqMonotonic DEF Parts
    <3>2. QED
        BY <1>3, <3>1, TypesMatch
  <2>2. QED
      BY <1>1, <1>2, <1>4, <1>5, <1>6, <2>1

(* What waits for its fulfilment is a notification.                          *)
NotificationsOK == pending \subseteq Promise!Notification

LEMMA NotificationOfTransfer ==
    ASSUME NEW state, NEW accounts \in Parties
    PROVE  NotificationOf(state, accounts) \in Promise!Notification
BY BroadcasterAssumption DEF NotificationOf, Promise!Notification

LEMMA AlwaysNotifications == Spec => []NotificationsOK
<1>1. Init => NotificationsOK
    BY DEF Init, NotificationsOK
<1>2. NotificationsOK /\ [Next]_vars => NotificationsOK'
  <2> SUFFICES ASSUME NotificationsOK, [Next]_vars
               PROVE  NotificationsOK'
      OBVIOUS
  <2>1. ASSUME NEW state, NEW accounts \in Parties, AwaitFulfillment(state, accounts)
        PROVE  NotificationsOK'
      BY <2>1, NotificationOfTransfer DEF AwaitFulfillment, NotificationsOK
  <2>2. ASSUME pending' \subseteq pending PROVE NotificationsOK'
      BY <2>2 DEF NotificationsOK
  <2>3. QED
      BY <2>1, <2>2 DEF Next, Connect, StartClosing, OnClose, Authenticate, Rpc,
         SubscribeAccount, SubscribeAllAccounts, SendNotifications,
         GotFulfillment, DatabaseError, SendMessage, vars
<1>3. QED
    BY <1>1, <1>2, PTL DEF Spec

(* Emitting is what Subscriptions calls delivering.                          *)
LEMMA EmitDelivers ==
    ASSUME IInv, NEW n \in Promise!Notification, EmitNotification(n),
           UNCHANGED <<user, subscriptions>>
    PROVE  Promise!Deliver(n)
<1>1. SelectedListeners(n) \subseteq Connections
    BY DEF IInv, TableOK, SelectedListeners
<1>2. \A c \in Connections : c \in SelectedListeners(n) <=> Promise!Wants(c, n)
    BY SelectedWants
<1>3. (SelectedListeners(n) # {}) = (\E c \in Connections : Promise!Wants(c, n))
    BY <1>1, <1>2
<1>4. [c \in Connections |-> IF c \in SelectedListeners(n) THEN 1 ELSE 0]
          = [c \in Connections |-> IF Promise!Wants(c, n) THEN 1 ELSE 0]
    BY <1>2
<1>5. QED
    BY <1>3, <1>4 DEF EmitNotification, Promise!Deliver

(* What happens between a message, a subscription and a disconnection is     *)
(* what Subscriptions promises: every notification reaches, once, whom it    *)
(* has subscribers among at that moment, and nobody else.                    *)
THEOREM Refinement == Spec => ImplementsSubscriptions
<1>1. Init => Promise!Init
    BY DEF Init, Promise!Init
<1>2. IInv /\ NotificationsOK /\ [Next]_vars => [Promise!Next]_(Promise!vars)
  <2> SUFFICES ASSUME IInv, NotificationsOK, [Next]_vars
               PROVE  Promise!Next \/ UNCHANGED Promise!vars
      OBVIOUS
  <2>1. ASSUME NEW c \in Connections, Connect(c) \/ StartClosing(c)
        PROVE  UNCHANGED Promise!vars
      BY <2>1 DEF Connect, StartClosing, Promise!vars
  <2>2. ASSUME NEW c \in Connections, OnClose(c) PROVE Promise!Next
    <3>1. Promise!Leave(c)
        BY <2>2 DEF OnClose, Promise!Leave
    <3>2. QED
        BY <3>1 DEF Promise!Next
  <2>3. ASSUME NEW c \in Connections, NEW u \in Users, Authenticate(c, u)
        PROVE  Promise!Next
    <3>1. Promise!Join(c, u)
        BY <2>3 DEF Authenticate, Promise!Join
    <3>2. QED
        BY <3>1 DEF Promise!Next
  <2>4. ASSUME NEW c \in Connections, NEW names \in SUBSET Users,
               NEW type \in EventTypes, SubscribeAccount(c, names, type)
        PROVE  Promise!Next
    <3>1. Promise!MayAskFor(user[c], names)
        BY <2>4 DEF SubscribeAccount, MayAskFor, Promise!MayAskFor
    <3>2. Promise!Subscribe(c, names, type)
        BY <2>4, <3>1 DEF SubscribeAccount, Become, Promise!Subscribe
    <3>3. QED
        BY <3>2 DEF Promise!Next
  <2>5. ASSUME NEW c \in Connections, NEW type \in EventTypes,
               SubscribeAllAccounts(c, type)
        PROVE  Promise!Next
    <3>1. Promise!SubscribeAll(c, type)
        BY <2>5 DEF SubscribeAllAccounts, Become, Promise!SubscribeAll,
               Promise!Global, Global
    <3>2. QED
        BY <3>1 DEF Promise!Next
  <2>6. ASSUME NEW n \in Promise!Notification, EmitNotification(n),
               UNCHANGED <<user, subscriptions>>
        PROVE  Promise!Next
      BY <2>6, EmitDelivers DEF Promise!Next
  <2>7. ASSUME NEW state, NEW accounts \in Parties, SendNotifications(state, accounts)
        PROVE  Promise!Next
      BY <2>6, <2>7, NotificationOfTransfer DEF SendNotifications
  <2>8. ASSUME NEW state, NEW accounts, AwaitFulfillment(state, accounts)
        PROVE  UNCHANGED Promise!vars
      BY <2>8 DEF AwaitFulfillment, Promise!vars
  <2>9. ASSUME NEW n \in pending, GotFulfillment(n) PROVE Promise!Next
      BY <2>6, <2>9 DEF GotFulfillment, NotificationsOK
  <2>10. ASSUME NEW n \in pending, DatabaseError(n) PROVE UNCHANGED Promise!vars
      BY <2>10 DEF DatabaseError, Promise!vars
  <2>11. ASSUME NEW by \in Users, NEW sender \in Users, NEW recipient \in Users,
                SendMessage(by, sender, recipient)
         PROVE  Promise!Next
    <3>1. [event |-> Promise!Send, accounts |-> {recipient}] \in Promise!Notification
        BY DEF Promise!Notification
    <3>2. QED
        BY <2>6, <2>11, <3>1 DEF SendMessage
  <2>12. CASE UNCHANGED vars
      BY <2>12 DEF vars, Promise!vars
  <2>13. QED
      BY <2>1, <2>2, <2>3, <2>4, <2>5, <2>7, <2>8, <2>9, <2>10, <2>11, <2>12
         DEF Next, Rpc
<1>3. QED
    BY <1>1, <1>2, Inductive, AlwaysNotifications, PTL
       DEF Spec, ImplementsSubscriptions, Promise!Spec

(* A table without empty maps and empty sets, of the accounts and the        *)
(* connections there are.                                                    *)
Pruned(table) ==
    /\ DOMAIN table \subseteq Names
    /\ \A a \in DOMAIN table :
          /\ DOMAIN table[a] # {}
          /\ table[a] \in [DOMAIN table[a] -> (SUBSET Connections) \ {{}}]

LEMMA AddedPruned ==
    ASSUME NEW table, Pruned(table), NEW names \in SUBSET Names, NEW type,
           NEW c \in Connections
    PROVE  Pruned(Added(table, names, type, c))
<1> DEFINE new == Added(table, names, type, c)
<1>1. DOMAIN new = DOMAIN table \cup names
    BY DEF Added
<1>2. ASSUME NEW a \in names
      PROVE  new[a] = [q \in TypesOf(table, a) \cup {type} |->
                 Listening(table, a, q) \cup (IF q = type THEN {c} ELSE {})]
    BY <1>2 DEF Added
<1>3. ASSUME NEW a \in DOMAIN table, a \notin names
      PROVE  new[a] = table[a]
    BY <1>3 DEF Added
<1>4. ASSUME NEW a, NEW q \in TypesOf(table, a)
      PROVE  Listening(table, a, q) \in (SUBSET Connections) \ {{}}
    BY <1>4 DEF Listening, TypesOf, Pruned
<1>5. ASSUME NEW a, NEW q, q \notin TypesOf(table, a)
      PROVE  Listening(table, a, q) = {}
    BY <1>5 DEF Listening
<1> HIDE DEF new
<1>6. ASSUME NEW a \in names
      PROVE  /\ DOMAIN new[a] # {}
             /\ new[a] \in [DOMAIN new[a] -> (SUBSET Connections) \ {{}}]
  <2>1. \A q \in TypesOf(table, a) \cup {type} :
            Listening(table, a, q) \cup (IF q = type THEN {c} ELSE {})
                \in (SUBSET Connections) \ {{}}
      BY <1>4, <1>5
  <2>2. new[a] \in [TypesOf(table, a) \cup {type} -> (SUBSET Connections) \ {{}}]
    <3> DEFINE set(q) ==
            Listening(table, a, q) \cup (IF q = type THEN {c} ELSE {})
    <3>1. new[a] = [q \in TypesOf(table, a) \cup {type} |-> set(q)]
        BY <1>2
    <3>2. \A q \in TypesOf(table, a) \cup {type} : set(q) \in (SUBSET Connections) \ {{}}
        BY <2>1
    <3> HIDE DEF set
    <3>3. QED
        BY <3>1, <3>2
  <2>3. QED
      BY <2>2
<1>7. QED
    BY <1>1, <1>3, <1>6 DEF Pruned, new

LEMMA RemovedPruned ==
    ASSUME NEW table, Pruned(table), NEW subs, NEW c
    PROVE  Pruned(Removed(table, subs, c))
<1> DEFINE kept(b) == {t \in DOMAIN table[b] :
                          Asked(subs, b, t) => table[b][t] \ {c} # {}}
           emptied(b) == kept(b) = {} /\ \E t \in DOMAIN table[b] : Asked(subs, b, t)
           new == Removed(table, subs, c)
<1>1. /\ DOMAIN new = {b \in DOMAIN table : ~emptied(b)}
      /\ \A b \in DOMAIN new : new[b] = [t \in kept(b) |->
            IF Asked(subs, b, t) THEN table[b][t] \ {c} ELSE table[b][t]]
    BY DEF Removed
<1>2. ASSUME NEW a \in DOMAIN table, kept(a) = {} PROVE emptied(a)
    BY <1>2 DEF Pruned
<1>3. ASSUME NEW a \in DOMAIN table, NEW t \in kept(a)
      PROVE  (IF Asked(subs, a, t) THEN table[a][t] \ {c} ELSE table[a][t])
                 \in (SUBSET Connections) \ {{}}
  <2>1. table[a][t] \in (SUBSET Connections) \ {{}}
      BY DEF Pruned
  <2>2. Asked(subs, a, t) => table[a][t] \ {c} # {}
      OBVIOUS
  <2>3. QED
      BY <2>1, <2>2
<1>4. ASSUME NEW a \in DOMAIN new PROVE a \in DOMAIN table /\ kept(a) # {}
    BY <1>1, <1>2
<1> HIDE DEF new, kept
<1>5. ASSUME NEW a \in DOMAIN new
      PROVE  /\ DOMAIN new[a] # {}
             /\ new[a] \in [DOMAIN new[a] -> (SUBSET Connections) \ {{}}]
  <2>1. DOMAIN new[a] = kept(a)
      BY <1>1
  <2>2. QED
      BY <1>1, <1>3, <1>4, <2>1
<1>6. QED
    BY <1>4, <1>5 DEF Pruned, new

(* The parts of the state that the table is not about, and what is left of a *)
(* connection that is closed.                                                *)
StateOK ==
    /\ socket \in [Connections -> {"none", "open", "closing", "closed"}]
    /\ pinging \subseteq Connections
    /\ pending \subseteq Promise!Notification
    /\ last.notification \in Promise!Notification
    /\ \A c \in Connections : socket[c] = "closed" =>
           c \notin pinging /\ subscriptions[c] = {}

TidyInv == IInv /\ Pruned(listeners) /\ StateOK

LEMMA EmittedOK ==
    ASSUME StateOK, NEW n \in Promise!Notification, EmitNotification(n),
           UNCHANGED <<socket, pinging, subscriptions>>, pending' \subseteq pending
    PROVE  StateOK'
<1>1. last'.notification = n
    BY DEF EmitNotification
<1>2. QED
    BY <1>1 DEF StateOK

LEMMA AlwaysTidy == Spec => []TidyInv
<1>1. Init => Pruned(listeners) /\ StateOK
  <2> SUFFICES ASSUME Init PROVE Pruned(listeners) /\ StateOK
      OBVIOUS
  <2>1. Pruned(listeners)
      BY DEF Init, Pruned
  <2>2. last.notification \in Promise!Notification
      BY DEF Init, Promise!Nothing, Promise!Notification
  <2>3. QED
      BY <2>1, <2>2 DEF Init, StateOK
<1>2. TidyInv /\ [Next]_vars => Pruned(listeners)' /\ StateOK'
  <2> SUFFICES ASSUME TidyInv, [Next]_vars
               PROVE  Pruned(listeners') /\ StateOK'
      BY DEF Pruned
  <2>1. IInv /\ Pruned(listeners) /\ StateOK
      BY DEF TidyInv
  <2>2. ASSUME NEW c \in Connections, Connect(c) \/ StartClosing(c)
        PROVE  Pruned(listeners') /\ StateOK'
    <3>1. Pruned(listeners')
        BY <2>1, <2>2 DEF Connect, StartClosing
    <3>2. StateOK'
        BY <2>1, <2>2 DEF Connect, StartClosing, StateOK
    <3>3. QED
        BY <3>1, <3>2
  <2>3. ASSUME NEW c \in Connections, OnClose(c)
        PROVE  Pruned(listeners') /\ StateOK'
    <3>1. Pruned(listeners')
        BY <2>1, <2>3, RemovedPruned DEF OnClose
    <3>2. StateOK'
        BY <2>1, <2>3 DEF OnClose, StateOK, IInv, ListOK
    <3>3. QED
        BY <3>1, <3>2
  <2>4. ASSUME NEW c \in Connections, NEW u \in Users, Authenticate(c, u)
        PROVE  Pruned(listeners') /\ StateOK'
    <3>1. Pruned(listeners')
        BY <2>1, <2>4 DEF Authenticate
    <3>2. StateOK'
        BY <2>1, <2>4 DEF Authenticate, StateOK
    <3>3. QED
        BY <3>1, <3>2
  <2>5. ASSUME NEW c \in Connections, NEW names \in SUBSET Users,
               NEW type \in EventTypes, SubscribeAccount(c, names, type)
        PROVE  Pruned(listeners') /\ StateOK'
    <3>1. names \in SUBSET Names
        BY DEF Names
    <3>2. Pruned(listeners')
        BY <2>1, <2>5, <3>1, AddedPruned, RemovedPruned DEF SubscribeAccount
    <3>3. StateOK'
        BY <2>1, <2>5 DEF SubscribeAccount, Become, StateOK, IInv, ListOK
    <3>4. QED
        BY <3>2, <3>3
  <2>6. ASSUME NEW c \in Connections, NEW type \in EventTypes,
               SubscribeAllAccounts(c, type)
        PROVE  Pruned(listeners') /\ StateOK'
    <3>1. {Global} \in SUBSET Names
        BY DEF Names
    <3>2. Pruned(listeners')
        BY <2>1, <2>6, <3>1, AddedPruned DEF SubscribeAllAccounts
    <3>3. StateOK'
        BY <2>1, <2>6 DEF SubscribeAllAccounts, Become, StateOK, IInv, ListOK
    <3>4. QED
        BY <3>2, <3>3
  <2>7. ASSUME NEW state, NEW accounts \in Parties, SendNotifications(state, accounts)
        PROVE  Pruned(listeners') /\ StateOK'
      BY <2>1, <2>7, NotificationOfTransfer, EmittedOK DEF SendNotifications
  <2>8. ASSUME NEW state, NEW accounts \in Parties, AwaitFulfillment(state, accounts)
        PROVE  Pruned(listeners') /\ StateOK'
    <3>1. Pruned(listeners')
        BY <2>1, <2>8 DEF AwaitFulfillment
    <3>2. pending' \subseteq Promise!Notification
        BY <2>1, <2>8, NotificationOfTransfer DEF AwaitFulfillment, StateOK
    <3>3. StateOK'
        BY <2>1, <2>8, <3>2 DEF AwaitFulfillment, StateOK
    <3>4. QED
        BY <3>1, <3>3
  <2>9. ASSUME NEW n \in pending, GotFulfillment(n)
        PROVE  Pruned(listeners') /\ StateOK'
    <3>1. n \in Promise!Notification
        BY <2>1 DEF StateOK
    <3>2. QED
        BY <2>1, <2>9, <3>1, EmittedOK DEF GotFulfillment
  <2>10. ASSUME NEW n \in pending, DatabaseError(n)
         PROVE  Pruned(listeners') /\ StateOK'
    <3>1. Pruned(listeners')
        BY <2>1, <2>10 DEF DatabaseError
    <3>2. StateOK'
        BY <2>1, <2>10 DEF DatabaseError, StateOK
    <3>3. QED
        BY <3>1, <3>2
  <2>11. ASSUME NEW by \in Users, NEW sender \in Users, NEW recipient \in Users,
                SendMessage(by, sender, recipient)
         PROVE  Pruned(listeners') /\ StateOK'
    <3>1. [event |-> Promise!Send, accounts |-> {recipient}] \in Promise!Notification
        BY DEF Promise!Notification
    <3>2. QED
        BY <2>1, <2>11, <3>1, EmittedOK DEF SendMessage
  <2>12. CASE UNCHANGED vars
    <3>1. Pruned(listeners')
        BY <2>1, <2>12 DEF vars
    <3>2. StateOK'
        BY <2>1, <2>12 DEF vars, StateOK
    <3>3. QED
        BY <3>1, <3>2
  <2>13. QED
      BY <2>2, <2>3, <2>4, <2>5, <2>6, <2>7, <2>8, <2>9, <2>10, <2>11, <2>12
         DEF Next, Rpc
<1>3. QED
    BY <1>1, <1>2, Inductive, PTL DEF Spec, TidyInv

(* The variables have their types.                                           *)
THEOREM Types == Spec => []TypeOK
<1>1. TidyInv => TypeOK
  <2> SUFFICES ASSUME TidyInv PROVE TypeOK
      OBVIOUS
  <2>1. \A a \in DOMAIN listeners :
            listeners[a] \in [TypesOf(listeners, a) -> SUBSET Connections]
    <3> SUFFICES ASSUME NEW a \in DOMAIN listeners
                 PROVE  listeners[a] \in [TypesOf(listeners, a) -> SUBSET Connections]
        OBVIOUS
    <3>1. listeners[a] \in [DOMAIN listeners[a] -> (SUBSET Connections) \ {{}}]
        BY DEF TidyInv, Pruned
    <3>2. TypesOf(listeners, a) = DOMAIN listeners[a]
        BY DEF TypesOf
    <3>3. QED
        BY <3>1, <3>2
  <2>2. subscriptions \in [Connections -> SUBSET Promise!Subscription]
      BY DEF TidyInv, IInv, ListOK, Names, Promise!Subscription, Promise!Global, Global
  <2>3. QED
      BY <2>1, <2>2 DEF TypeOK, TidyInv, StateOK, Pruned, IInv, ListOK, Names
<1>2. QED
    BY <1>1, AlwaysTidy, PTL

(* The table keeps no empty map and no empty set, so that it does not grow   *)
(* with the subscriptions there once were (removeNotificationListener).      *)
THEOREM TableStaysPruned == Spec => []NothingEmpty
<1>1. TidyInv => NothingEmpty
  <2> SUFFICES ASSUME TidyInv, NEW a \in DOMAIN listeners
               PROVE  /\ DOMAIN listeners[a] # {}
                      /\ \A type \in DOMAIN listeners[a] : listeners[a][type] # {}
      BY DEF NothingEmpty
  <2>1. /\ DOMAIN listeners[a] # {}
        /\ listeners[a] \in [DOMAIN listeners[a] -> (SUBSET Connections) \ {{}}]
      BY DEF TidyInv, Pruned
  <2>2. QED
      BY <2>1
<1>2. QED
    BY <1>1, AlwaysTidy, PTL

(* A connection that is closed is in no set of the table and is not pinged,  *)
(* whatever it was doing when it closed (subscribeTransfers, _onClose).      *)
THEOREM ClosedLeaveNothing == Spec => []ClosedIsForgotten
<1>1. TidyInv => ClosedIsForgotten
  <2> SUFFICES ASSUME TidyInv, NEW c \in Connections, socket[c] = "closed",
                      NEW a \in DOMAIN listeners, NEW q \in DOMAIN listeners[a],
                      c \in listeners[a][q]
               PROVE  FALSE
      BY DEF ClosedIsForgotten, TidyInv, StateOK
  <2>1. c \in Listening(listeners, a, q)
      BY DEF Listening, TypesOf
  <2>2. a \in Names /\ q \in EventTypes
      BY <2>1 DEF TidyInv, IInv, TableOK
  <2>3. Asked(subscriptions[c], a, q)
      BY <2>1, <2>2 DEF TidyInv, IInv, ListenersMatch, Names
  <2>4. QED
      BY <2>3 DEF TidyInv, StateOK, Asked
<1>2. QED
    BY <1>1, AlwaysTidy, PTL
=============================================================================
