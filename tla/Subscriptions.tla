----------------------------- MODULE Subscriptions -----------------------------
(***************************************************************************)
(* What the ledger promises the clients of its websocket: a notification   *)
(* goes once to every connection that has subscribed to it when it is      *)
(* emitted, and to no other.  Who has subscribed to what is written in the *)
(* subscriptions of the connections; there is no table of listeners here.  *)
(* Broadcaster implements this module.                                     *)
(***************************************************************************)
EXTENDS Integers, Sequences

CONSTANTS
    Connections,
    Users,          \* every user has the account of the same name
    Admins,
    EventTypes,     \* the event types somebody subscribes to, as parts
    Nobody          \* not a user

(* The events of sendNotifications and sendMessage.                          *)
Create == <<"transfer", "create">>
Update == <<"transfer", "update">>
Send == <<"message", "send">>

Global == "*"

Subscription == [accountName : Users \cup {Global}, eventType : EventTypes]

Notification == [event : {Create, Update, Send}, accounts : SUBSET Users]

VARIABLES
    user,           \* user[c]: who is behind a connection, or Nobody
    subscriptions,  \* subscriptions[c]: what c has asked for
    last            \* the last notification emitted, and what became of it

vars == <<user, subscriptions, last>>

Nothing == [notification |-> [event |-> Send, accounts |-> {}],
            calls |-> [c \in Connections |-> 0],
            reached |-> FALSE]

Init ==
    /\ user = [c \in Connections |-> Nobody]
    /\ subscriptions = [c \in Connections |-> {}]
    /\ last = Nothing

(* A type is an event, or the beginning of one and a star.                   *)
Matches(type, event) ==
    \/ type = event
    \/ /\ Len(type) <= Len(event)
       /\ type[Len(type)] = "*"
       /\ \A i \in 1..(Len(type) - 1) : type[i] = event[i]

Wants(c, n) ==
    \E s \in subscriptions[c] :
        /\ s.accountName \in n.accounts \cup {Global}
        /\ Matches(s.eventType, n.event)

(* Others than admins may ask for what concerns their own account only.      *)
MayAskFor(u, names) == u \in Admins \/ names \subseteq {u}

Join(c, u) ==
    /\ user[c] = Nobody
    /\ user' = [user EXCEPT ![c] = u]
    /\ UNCHANGED <<subscriptions, last>>

(* The subscriptions of a connection are replaced, or taken away.            *)
Subscribe(c, names, type) ==
    /\ user[c] # Nobody
    /\ MayAskFor(user[c], names)
    /\ subscriptions' = [subscriptions EXCEPT
           ![c] = [accountName : names, eventType : {type}]]
    /\ UNCHANGED <<user, last>>

SubscribeAll(c, type) ==
    /\ user[c] \in Admins
    /\ subscriptions' = [subscriptions EXCEPT
           ![c] = @ \cup {[accountName |-> Global, eventType |-> type]}]
    /\ UNCHANGED <<user, last>>

Leave(c) ==
    /\ subscriptions' = [subscriptions EXCEPT ![c] = {}]
    /\ UNCHANGED <<user, last>>

Deliver(n) ==
    /\ last' = [notification |-> n,
                calls |-> [c \in Connections |-> IF Wants(c, n) THEN 1 ELSE 0],
                reached |-> \E c \in Connections : Wants(c, n)]
    /\ UNCHANGED <<user, subscriptions>>

Next ==
    \/ \E c \in Connections, u \in Users : Join(c, u)
    \/ \E c \in Connections, names \in SUBSET Users, type \in EventTypes :
           Subscribe(c, names, type)
    \/ \E c \in Connections, type \in EventTypes : SubscribeAll(c, type)
    \/ \E c \in Connections : Leave(c)
    \/ \E n \in Notification : Deliver(n)

Spec == Init /\ [][Next]_vars
=============================================================================
