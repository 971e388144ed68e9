----------------------------- MODULE MqttBroker -----------------------------
(***************************************************************************)
(* src/protocol_learning_code/mqtt/mqtt_mongoose_broker.c: its list of     *)
(* subscriptions and the handler that Mongoose calls, one event at a time, *)
(* for all connections.  Mongoose itself is external; what matters of it   *)
(* is the life of a connection: accepted, open, closing once is_closing is *)
(* set, and freed after MG_EV_CLOSE, when the next accepted connection may *)
(* get the same address.                                                   *)
(***************************************************************************)
EXTENDS MqttTopic

CONSTANTS
    Conns,          \* addresses of struct mg_connection
    Nodes,          \* addresses of struct subscription: the heap is finite
    Filters,
    Topics,
    SubscribeLists, \* the lists of [filter, qos] that a SUBSCRIBE may hold
    GRANTED_SIZE,   \* sizeof(granted_qos), 128 in the code
    NULL, Unused, NoMessage

ASSUME BrokerAssumption ==
    /\ GRANTED_SIZE \in Nat
    /\ SubscribeLists \subseteq Seq([filter: Filters, qos: 0..2])
    /\ NULL \notin Filters
    /\ Unused \notin Conns
    /\ NoMessage \notin [topic: Topics, qos: 0..2] \cup Topics

VARIABLES
    running,    \* the broker's process: "up", "stopping" (mg_mgr_free), "down"
    conn,       \* conn[c]: "free", "open" or "closing" (is_closing)
    subs,       \* the nodes of s_subs and what they hold
    granted,    \* history: the filters c got a SUBACK for
    published,  \* the message that the last event was about, or NoMessage
    sent        \* what the last event made Mongoose send

vars == <<running, conn, subs, granted, published, sent>>

Entry == [conn: Conns, filter: Filters \cup {NULL}, qos: {0, 1}]

(* A node that is not in the list; its other fields mean nothing. *)
Freed == [conn |-> Unused]

InList == {n \in Nodes : subs[n] # Freed}

Packet ==
    [cmd: {"CONNACK", "PINGRESP"}, to: Conns]
    \cup [cmd: {"SUBACK"}, to: Conns, codes: Nat]
    \cup [cmd: {"PUBLISH"}, to: Conns, topic: Topics, qos: {0, 1}, by: Nodes]

TypeOK ==
    /\ running \in {"up", "stopping", "down"}
    /\ conn \in [Conns -> {"free", "open", "closing"}]
    /\ subs \in [Nodes -> Entry \cup {Freed}]
    /\ granted \in [Conns -> SUBSET Filters]
    /\ published \in [topic: Topics, qos: 0..2] \cup {NoMessage}
    /\ sent \subseteq Packet

Init ==
    /\ running = "up"
    /\ conn = [c \in Conns |-> "free"]
    /\ subs = [n \in Nodes |-> Freed]
    /\ granted = [c \in Conns |-> {}]
    /\ published = NoMessage
    /\ sent = {}

Silent == published' = NoMessage /\ sent' = {}

Reply(packet) == published' = NoMessage /\ sent' = {packet}

(***************************************************************************)
(* The life of a connection, as Mongoose has it.                           *)
(***************************************************************************)
Accept(c) ==
    /\ running = "up"
    /\ conn[c] = "free"
    /\ conn' = [conn EXCEPT ![c] = "open"]
    /\ granted' = [granted EXCEPT ![c] = {}]
    /\ Silent
    /\ UNCHANGED <<running, subs>>

(* The peer closes, resets or sends what is no MQTT packet. *)
ConnectionLost(c) ==
    /\ conn[c] = "open"
    /\ conn' = [conn EXCEPT ![c] = "closing"]
    /\ Silent
    /\ UNCHANGED <<running, subs, granted>>

(* A packet of c is handled: also one that had been received before        *)
(* is_closing was set, since the packets of one read are handled in a row. *)
Received(c) == conn[c] # "free"

(***************************************************************************)
(* mqtt_broker_handler.                                                    *)
(***************************************************************************)
handle_connect(c) ==
    /\ Received(c)
    /\ Reply([cmd |-> "CONNACK", to |-> c])
    /\ UNCHANGED <<running, conn, subs, granted>>

(* A malformed CONNECT, or another version than 3.1.1: mg_error closes. *)
handle_connect_error(c) ==
    /\ Received(c)
    /\ conn' = [conn EXCEPT ![c] = "closing"]
    /\ Silent
    /\ UNCHANGED <<running, subs, granted>>

(* Mutant: the SUBACK has a code for each filter of the list. *)
GrantsAll(c, wishes, n, node, undup) ==
    /\ Received(c)
    /\ n <= Len(wishes) /\ n <= GRANTED_SIZE
    /\ node \in [1..n -> Nodes \ InList]
    /\ \A j, k \in 1..n : node[j] = node[k] => j = k
    /\ subs' = [m \in Nodes |->
                    IF \E k \in 1..n : node[k] = m
                    THEN LET k == CHOOSE k \in 1..n : node[k] = m
                         IN  [conn |-> c, filter |-> wishes[k].filter, qos |-> 0]
                    ELSE subs[m]]
    /\ granted' = [granted EXCEPT ![c] = @ \cup {wishes[k].filter : k \in 1..Len(wishes)}]
    /\ Reply([cmd |-> "SUBACK", to |-> c, codes |-> Len(wishes)])
    /\ UNCHANGED <<running, conn>>

(***************************************************************************)
(* handle_subscribe: n filters are stored, in the nodes that calloc        *)
(* returned for them; n falls short of the list when calloc fails or when  *)
(* granted_qos is full.  The topics of those in undup could not be copied. *)
(***************************************************************************)
(* Mutant: QoS 2 is granted as it was asked for. *)
StoredAsAsked(c, wish, lost) ==
    [conn |-> c, filter |-> IF lost THEN NULL ELSE wish.filter, qos |-> wish.qos]

Stored(c, wish, lost) ==
    [conn   |-> c,
     filter |-> IF lost THEN NULL ELSE wish.filter,
     qos    |-> IF wish.qos > 1 THEN 1 ELSE wish.qos]

handle_subscribe(c, wishes, n, node, undup) ==
    /\ Received(c)
    /\ n <= Len(wishes) /\ n <= GRANTED_SIZE
    /\ node \in [1..n -> Nodes \ InList]
    /\ \A j, k \in 1..n : node[j] = node[k] => j = k
    /\ subs' = [m \in Nodes |->
                    IF \E k \in 1..n : node[k] = m
                    THEN LET k == CHOOSE k \in 1..n : node[k] = m
                         IN  Stored(c, wishes[k], k \in undup)
                    ELSE subs[m]]
    /\ granted' = [granted EXCEPT ![c] = @ \cup {wishes[k].filter : k \in 1..n}]
    /\ Reply([cmd |-> "SUBACK", to |-> c, codes |-> n])
    /\ UNCHANGED <<running, conn>>

Matching(topic) ==
    {n \in InList : topic_filter_match(subs[n].filter, topic)}

(* handle_publish: Mongoose writes one PUBLISH for each node that matches. *)
handle_publish(c, topic, qos) ==
    /\ Received(c)
    /\ \A n \in InList : subs[n].filter # NULL
    /\ published' = [topic |-> topic, qos |-> qos]
    /\ sent' = {[cmd |-> "PUBLISH", to |-> subs[n].conn, topic |-> topic,
                 qos |-> subs[n].qos, by |-> n] : n \in Matching(topic)}
    /\ UNCHANGED <<running, conn, subs, granted>>

(* The topic of the message cannot be copied: it is dropped. *)
handle_publish_nomem(c) ==
    /\ Received(c)
    /\ Silent
    /\ UNCHANGED <<running, conn, subs, granted>>

(* topic_filter_match reads a filter that is NULL: the process ends.  The  *)
(* connections end with it.                                                *)
handle_publish_crash(c) ==
    /\ Received(c)
    /\ \E n \in InList : subs[n].filter = NULL
    /\ running' = "down"
    /\ conn' = [d \in Conns |-> "free"]
    /\ subs' = [n \in Nodes |-> Freed]
    /\ granted' = [d \in Conns |-> {}]
    /\ Silent

handle_pingreq(c) ==
    /\ Received(c)
    /\ Reply([cmd |-> "PINGRESP", to |-> c])
    /\ UNCHANGED <<running, conn, subs, granted>>

handle_disconnect(c) ==
    /\ Received(c)
    /\ conn' = [conn EXCEPT ![c] = "closing"]
    /\ Silent
    /\ UNCHANGED <<running, subs, granted>>

(* Mutant: the loop leaves after the first node it has removed. *)
RemovesOne(c) ==
    \/ /\ \A n \in InList : subs[n].conn # c
       /\ UNCHANGED subs
    \/ \E n \in InList : /\ subs[n].conn = c
                         /\ subs' = [subs EXCEPT ![n] = Freed]

remove_subscriptions(c) ==
    subs' = [n \in Nodes |-> IF subs[n].conn = c THEN Freed ELSE subs[n]]

(* MG_EV_CLOSE, after which Mongoose frees the connection. *)
Close(c) ==
    /\ conn[c] = "closing"
    /\ remove_subscriptions(c)
    /\ conn' = [conn EXCEPT ![c] = "free"]
    /\ granted' = [granted EXCEPT ![c] = {}]
    /\ Silent
    /\ UNCHANGED running

(***************************************************************************)
(* main: a signal ends the loop, and mg_mgr_free closes every connection.  *)
(***************************************************************************)
Stop ==
    /\ running = "up"
    /\ running' = "stopping"
    /\ conn' = [c \in Conns |-> IF conn[c] = "free" THEN "free" ELSE "closing"]
    /\ Silent
    /\ UNCHANGED <<subs, granted>>

Exit ==
    /\ running = "stopping"
    /\ \A c \in Conns : conn[c] = "free"
    /\ running' = "down"
    /\ Silent
    /\ UNCHANGED <<conn, subs, granted>>

(* The broker is started again: s_subs is NULL. *)
Start ==
    /\ running = "down"
    /\ running' = "up"
    /\ subs' = [n \in Nodes |-> Freed]
    /\ Silent
    /\ UNCHANGED <<conn, granted>>

Handler(c) ==
    \/ handle_connect(c)
    \/ handle_connect_error(c)
    \/ \E wishes \in SubscribeLists : \E n \in 0..Len(wishes) :
        \E node \in [1..n -> Nodes], undup \in SUBSET (1..n) :
            handle_subscribe(c, wishes, n, node, undup)
    \/ \E topic \in Topics, qos \in 0..2 : handle_publish(c, topic, qos)
    \/ handle_publish_nomem(c)
    \/ handle_publish_crash(c)
    \/ handle_pingreq(c)
    \/ handle_disconnect(c)

Next ==
    \/ \E c \in Conns : Accept(c) \/ ConnectionLost(c) \/ Handler(c) \/ Close(c)
    \/ Stop \/ Exit \/ Start

Spec == Init /\ [][Next]_vars

(***************************************************************************)
(* Properties.                                                             *)
(***************************************************************************)

(* No subscription outlives its connection, so that handle_publish never   *)
(* writes to one that was freed, or to the client that got its address;    *)
(* also when SUBSCRIBE follows DISCONNECT in one read, and nothing is      *)
(* left in the list when the broker exits (remove_subscriptions).          *)
NoDanglingSubscription ==
    \A n \in InList : conn[subs[n].conn] # "free"

(* "The QoS a subscriber gets is not above the smaller one of what was     *)
(* published and what it subscribed with" (handle_publish).                *)
QosIsTheSmaller ==
    published # NoMessage => \A p \in sent : p.qos <= published.qos

(* What a SUBACK granted is in the list, and what is in the list was       *)
(* granted to the client that is now behind the connection.                *)
ListIsGranted ==
    /\ \A n \in InList : subs[n].filter \in granted[subs[n].conn] \cup {NULL}
    /\ \A c \in Conns : \A f \in granted[c] :
        \E n \in InList : subs[n].conn = c /\ subs[n].filter \in {f, NULL}

DownIsEmpty == running = "down" => \A c \in Conns : conn[c] = "free"

IInv ==
    /\ TypeOK
    /\ DownIsEmpty
    /\ NoDanglingSubscription
    /\ ListIsGranted

(* The broker implements MqttRouting: a message goes to the clients that   *)
(* were granted a filter it matches and to no others, whatever             *)
(* connections came and went, however often a filter was subscribed and    *)
(* wherever memory ran out.                                                *)
Routing == INSTANCE MqttRouting
    WITH Clients  <- Conns,
         NoTopic  <- NoMessage,
         Matches  <- MatchesByLevels,
         interest <- granted,
         message  <- IF published = NoMessage THEN NoMessage ELSE published.topic,
         reached  <- {p.to : p \in {q \in sent : q.cmd = "PUBLISH"}}

ImplementsRouting == Routing!Spec
=============================================================================
