------------------------------ MODULE Broadcaster ------------------------------
(***************************************************************************)
(* The websocket side of the server: the handler of one connection         *)
(* (src/src/lib/rpcHandler.js), the table of listeners all of them share   *)
(* (src/src/lib/notificationBroadcasterWebsocket.js) and the messages that *)
(* go through it (src/src/models/messages.js).                             *)
(*                                                                         *)
(* A listener is the bound sendNotification of one handler, so it is named *)
(* by its connection.  Requests that are refused with an error leave       *)
(* everything as it is and are no steps.                                   *)
(***************************************************************************)
EXTENDS Integers, Sequences, FiniteSets

CONSTANTS
    Connections, Users, Admins, EventTypes, Nobody,
    Parties,          \* the sets of accounts that have transfers between them
    MaxSubscriptions  \* bound: a connection has no more subscriptions

Global == "*"

ASSUME BroadcasterAssumption ==
    /\ Admins \subseteq Users
    /\ Nobody \notin Users
    /\ Global \notin Users
    /\ \A type \in EventTypes : type \in Seq(STRING) /\ type # <<>>
    /\ Parties \subseteq SUBSET Users
    /\ MaxSubscriptions \in Nat

VARIABLES
    socket,         \* socket[c]: the readyState of the websocket
    user,           \* user[c]: RpcHandler.requestingUser
    pinging,        \* the connections whose ping interval runs
    subscriptions,  \* subscriptions[c]: RpcHandler.accountSubscriptions
    listeners,      \* listeners[account][type]: NotificationBroadcaster.listeners
    pending,        \* the notifications waiting for maybeGetFulfillment
    last            \* the last notification emitted, and what became of it

vars == <<socket, user, pinging, subscriptions, listeners, pending, last>>

(* What the clients are promised.                                            *)
Promise == INSTANCE Subscriptions

Init ==
    /\ socket = [c \in Connections |-> "none"]
    /\ user = [c \in Connections |-> Nobody]
    /\ pinging = {}
    /\ subscriptions = [c \in Connections |-> {}]
    /\ listeners = [a \in {} |-> {}]
    /\ pending = {}
    /\ last = Promise!Nothing

------------------------------------------------------------------------------
(* The table of listeners: a map of maps of sets.                            *)
TypesOf(table, a) == IF a \in DOMAIN table THEN DOMAIN table[a] ELSE {}

Listening(table, a, type) ==
    IF type \in TypesOf(table, a) THEN table[a][type] ELSE {}

(* addNotificationListener for each of names.                                *)
Added(table, names, type, c) ==
    [a \in DOMAIN table \cup names |->
        IF a \notin names THEN table[a]
        ELSE [q \in TypesOf(table, a) \cup {type} |->
                 Listening(table, a, q) \cup (IF q = type THEN {c} ELSE {})]]

Asked(subs, a, type) == [accountName |-> a, eventType |-> type] \in subs

(* Faulty variants of Removed: nothing is pruned; a set goes with the first  *)
(* of its listeners.                                                         *)
RemovedUnpruned(table, subs, c) ==
    [a \in DOMAIN table |-> [q \in DOMAIN table[a] |->
        IF Asked(subs, a, q) THEN table[a][q] \ {c} ELSE table[a][q]]]

RemovedWithOthers(table, subs, c) ==
    LET kept(a) == {q \in DOMAIN table[a] : ~Asked(subs, a, q)}
    IN [a \in {b \in DOMAIN table : kept(b) # {}} |->
           [q \in kept(a) |-> table[a][q]]]

(* removeNotificationListener for each of subs: the maps and sets that are   *)
(* left empty go, too.                                                       *)
Removed(table, subs, c) ==
    LET kept(a) == {q \in DOMAIN table[a] :
                        Asked(subs, a, q) => table[a][q] \ {c} # {}}
        emptied(a) == kept(a) = {} /\ \E q \in DOMAIN table[a] : Asked(subs, a, q)
    IN [a \in {b \in DOMAIN table : ~emptied(b)} |->
           [q \in kept(a) |->
               IF Asked(subs, a, q) THEN table[a][q] \ {c} ELSE table[a][q]]]

------------------------------------------------------------------------------
Connect(c) ==
    /\ socket[c] = "none"
    /\ socket' = [socket EXCEPT ![c] = "open"]
    /\ UNCHANGED <<user, pinging, subscriptions, listeners, pending, last>>

(* Faulty variant of Authenticate: the readyState is not looked at.          *)
AuthenticateAnyway(c, u) ==
    /\ socket[c] # "none"
    /\ user[c] = Nobody
    /\ user' = [user EXCEPT ![c] = u]
    /\ pinging' = pinging \cup {c}
    /\ UNCHANGED <<socket, subscriptions, listeners, pending, last>>

(* subscribeTransfers and the constructor of RpcHandler.                     *)
Authenticate(c, u) ==
    /\ socket[c] = "open"
    /\ user[c] = Nobody
    /\ user' = [user EXCEPT ![c] = u]
    /\ pinging' = pinging \cup {c}
    /\ UNCHANGED <<socket, subscriptions, listeners, pending, last>>

MayAskFor(u, names) == u \in Admins \/ \A a \in names : u = a

Become(c, subs) ==
    /\ Cardinality(subs) <= MaxSubscriptions
    /\ subscriptions' = [subscriptions EXCEPT ![c] = subs]

SubscribeAccount(c, names, type) ==
    /\ socket[c] = "open"
    /\ user[c] # Nobody
    /\ MayAskFor(user[c], names)
    /\ listeners' =
           Added(Removed(listeners, subscriptions[c], c), names, type, c)
    /\ Become(c, [accountName : names, eventType : {type}])
    /\ UNCHANGED <<socket, user, pinging, pending, last>>

SubscribeAllAccounts(c, type) ==
    /\ socket[c] = "open"
    /\ user[c] \in Admins
    /\ listeners' = Added(listeners, {Global}, type, c)
    /\ Become(c, subscriptions[c]
                    \cup {[accountName |-> Global, eventType |-> type]})
    /\ UNCHANGED <<socket, user, pinging, pending, last>>

(* The client goes away; until the close event its listeners are called, and *)
(* what they send is lost.                                                   *)
StartClosing(c) ==
    /\ socket[c] = "open"
    /\ socket' = [socket EXCEPT ![c] = "closing"]
    /\ UNCHANGED <<user, pinging, subscriptions, listeners, pending, last>>

OnClose(c) ==
    /\ socket[c] = "closing"
    /\ socket' = [socket EXCEPT ![c] = "closed"]
    /\ pinging' = pinging \ {c}
    /\ listeners' = Removed(listeners, subscriptions[c], c)
    /\ subscriptions' = [subscriptions EXCEPT ![c] = {}]
    /\ UNCHANGED <<user, pending, last>>

------------------------------------------------------------------------------
(* The types a listener of event may have subscribed to.                     *)
EventTypesOf(event) ==
    {<<"*">>, event}
        \cup {Append(SubSeq(event, 1, i), "*") : i \in 1..(Len(event) - 1)}

SelectedListeners(n) ==
    {c \in Connections :
        \E a \in n.accounts \cup {Global}, type \in EventTypesOf(n.event) :
            c \in Listening(listeners, a, type)}

(* Faulty variant of EmitNotification: a listener is called for every entry. *)
EmitPerEntry(n) ==
    last' = [notification |-> n,
             calls |-> [c \in Connections |-> Cardinality(
                 {e \in (n.accounts \cup {Global}) \X EventTypesOf(n.event) :
                     c \in Listening(listeners, e[1], e[2])})],
             reached |-> SelectedListeners(n) # {}]

EmitNotification(n) ==
    last' = [notification |-> n,
             calls |-> [c \in Connections |->
                 IF c \in SelectedListeners(n) THEN 1 ELSE 0],
             reached |-> SelectedListeners(n) # {}]

NotificationOf(state, accounts) ==
    [event |-> IF state = "prepared" THEN Promise!Create ELSE Promise!Update,
     accounts |-> accounts]

(* sendNotifications for a transfer that may still change.                   *)
SendNotifications(state, accounts) ==
    /\ EmitNotification(NotificationOf(state, accounts))
    /\ UNCHANGED <<socket, user, pinging, subscriptions, listeners, pending>>

(* For a final one, the fulfilment is read first; the read may fail.         *)
AwaitFulfillment(state, accounts) ==
    /\ pending' = pending \cup {NotificationOf(state, accounts)}
    /\ UNCHANGED <<socket, user, pinging, subscriptions, listeners, last>>

GotFulfillment(n) ==
    /\ n \in pending
    /\ EmitNotification(n)
    /\ pending' = pending \ {n}
    /\ UNCHANGED <<socket, user, pinging, subscriptions, listeners>>

DatabaseError(n) ==
    /\ n \in pending
    /\ pending' = pending \ {n}
    /\ UNCHANGED <<socket, user, pinging, subscriptions, listeners, last>>

(* Only an admin sends messages for others.                                  *)
SendMessage(by, sender, recipient) ==
    /\ by \in Admins \/ sender = by
    /\ EmitNotification([event |-> Promise!Send, accounts |-> {recipient}])
    /\ UNCHANGED <<socket, user, pinging, subscriptions, listeners, pending>>

Rpc(c) ==
    \/ \E names \in SUBSET Users, type \in EventTypes :
           SubscribeAccount(c, names, type)
    \/ \E type \in EventTypes : SubscribeAllAccounts(c, type)

Next ==
    \/ \E c \in Connections : Connect(c) \/ StartClosing(c) \/ OnClose(c)
    \/ \E c \in Connections, u \in Users : Authenticate(c, u)
    \/ \E c \in Connections : Rpc(c)
    \/ \E state \in {"proposed", "prepared"}, accounts \in Parties :
           SendNotifications(state, accounts)
    \/ \E state \in {"executed", "rejected"}, accounts \in Parties :
           AwaitFulfillment(state, accounts)
    \/ \E n \in pending : GotFulfillment(n) \/ DatabaseError(n)
    \/ \E by, sender, recipient \in Users : SendMessage(by, sender, recipient)

Spec == Init /\ [][Next]_vars

------------------------------------------------------------------------------
(* The types of the variables.                                               *)
TypeOK ==
    /\ socket \in [Connections -> {"none", "open", "closing", "closed"}]
    /\ user \in [Connections -> Users \cup {Nobody}]
    /\ pinging \subseteq Connections
    /\ subscriptions \in [Connections -> SUBSET Promise!Subscription]
    /\ DOMAIN listeners \subseteq Users \cup {Global}
    /\ \A a \in DOMAIN listeners :
          listeners[a] \in [TypesOf(listeners, a) -> SUBSET Connections]
    /\ pending \subseteq Promise!Notification
    /\ last.notification \in Promise!Notification

(* A connection is called for an account and an event type if and only if it *)
(* has this subscription: the table all handlers share and the lists each of *)
(* them keeps (removeAccountSubscriptions) do not drift apart.               *)
ListenersMatch ==
    \A c \in Connections, a \in Users \cup {Global}, type \in EventTypes :
        c \in Listening(listeners, a, type) <=> Asked(subscriptions[c], a, type)

(* The table does not grow with the subscriptions there once were: it keeps  *)
(* no empty map and no empty set (removeNotificationListener).               *)
NothingEmpty ==
    \A a \in DOMAIN listeners :
        /\ DOMAIN listeners[a] # {}
        /\ \A type \in DOMAIN listeners[a] : listeners[a][type] # {}

(* A connection that is closed leaves nothing behind, also when it closes    *)
(* while it is being authenticated (subscribeTransfers, _onClose).           *)
ClosedIsForgotten ==
    \A c \in Connections : socket[c] = "closed" =>
        /\ c \notin pinging
        /\ \A a \in DOMAIN listeners : \A type \in DOMAIN listeners[a] :
              c \notin listeners[a][type]

(* Notifications reach whom Subscriptions promises them to, and once.        *)
ImplementsSubscriptions == Promise!Spec
=============================================================================
