-------------------------- MODULE MqttBrokerProofs --------------------------
(***************************************************************************)
(* For any number of connections, any memory and any filters and topics:   *)
(* the broker's invariants, and that it implements MqttRouting.            *)
(***************************************************************************)
EXTENDS MqttBroker, MqttTopicProofs, TLAPS

(* An entry is not a freed node, and a freed node belongs to nobody.       *)
LEMMA EntryIsNotFreed ==
    /\ \A e \in Entry : e # Freed
    /\ Freed.conn = Unused /\ Unused \notin Conns
<1>1. Unused \notin Conns
  BY BrokerAssumption
<1>2. Freed.conn = Unused
  BY DEF Freed
<1>3. \A e \in Entry : e.conn \in Conns
  BY DEF Entry
<1> QED
  BY <1>1, <1>2, <1>3

(* What handle_subscribe writes into a node.                               *)
LEMMA StoredIsEntry ==
    ASSUME NEW c \in Conns, NEW wish \in [filter: Filters, qos: 0..2], NEW lost
    PROVE  /\ Stored(c, wish, lost) \in Entry
           /\ Stored(c, wish, lost).conn = c
           /\ Stored(c, wish, lost).filter \in {wish.filter, NULL}
<1>1. (IF wish.qos > 1 THEN 1 ELSE wish.qos) \in {0, 1}
  OBVIOUS
<1>2. (IF lost THEN NULL ELSE wish.filter) \in {wish.filter, NULL}
  OBVIOUS
<1> QED
  BY <1>1, <1>2 DEF Stored, Entry

(* The list after handle_subscribe: the n new nodes, and the old ones.     *)
LEMMA ListAfterSubscribe ==
    ASSUME TypeOK,
           NEW c \in Conns, NEW wishes \in SubscribeLists, NEW n \in 0..Len(wishes),
           NEW node \in [1..n -> Nodes], NEW undup \in SUBSET (1..n),
           handle_subscribe(c, wishes, n, node, undup)
    PROVE  /\ \A k \in 1..n : /\ wishes[k] \in [filter: Filters, qos: 0..2]
                              /\ node[k] \notin InList
                              /\ subs'[node[k]] = Stored(c, wishes[k], k \in undup)
           /\ \A m \in Nodes : (\A k \in 1..n : node[k] # m) => subs'[m] = subs[m]
           /\ subs' \in [Nodes -> Entry \cup {Freed}]
<1>1. \A k \in 1..n : wishes[k] \in [filter: Filters, qos: 0..2]
  <2> DEFINE Wish == [filter: Filters, qos: 0..2]
  <2>1. wishes \in Seq(Wish)
    BY BrokerAssumption
  <2> HIDE DEF Wish
  <2>2. \A k \in 1..Len(wishes) : wishes[k] \in Wish
    BY <2>1
  <2> QED
    BY <2>1, <2>2 DEF Wish
<1>2. \A k \in 1..n : node[k] \in Nodes /\ node[k] \notin InList
  BY DEF handle_subscribe
<1>3. ASSUME NEW k \in 1..n
      PROVE  subs'[node[k]] = Stored(c, wishes[k], k \in undup)
  <2> DEFINE j == CHOOSE j \in 1..n : node[j] = node[k]
  <2>1. j \in 1..n /\ node[j] = node[k]
    OBVIOUS
  <2>2. j = k
    BY <2>1 DEF handle_subscribe
  <2>3. subs'[node[k]] = Stored(c, wishes[j], j \in undup)
    BY <1>2 DEF handle_subscribe
  <2> QED
    BY <2>2, <2>3
<1>4. \A m \in Nodes : (\A k \in 1..n : node[k] # m) => subs'[m] = subs[m]
  BY DEF handle_subscribe
<1>5. subs' \in [Nodes -> Entry \cup {Freed}]
  <2>1. ASSUME NEW m \in Nodes PROVE subs'[m] \in Entry \cup {Freed}
    <3>1. CASE \E k \in 1..n : node[k] = m
      <4> PICK k \in 1..n : node[k] = m
        BY <3>1
      <4>1. subs'[m] = Stored(c, wishes[k], k \in undup)
        BY <1>3
      <4>2. wishes[k] \in [filter: Filters, qos: 0..2]
        BY <1>1
      <4> QED
        BY <4>1, <4>2, StoredIsEntry
    <3>2. CASE \A k \in 1..n : node[k] # m
      BY <3>2, <1>4 DEF TypeOK
    <3> QED
      BY <3>1, <3>2
  <2>2. subs' = [m \in Nodes |-> subs'[m]]
    BY DEF handle_subscribe
  <2> QED
    BY <2>1, <2>2
<1> QED
  BY <1>1, <1>2, <1>3, <1>4, <1>5

(***************************************************************************)
(* The invariant, part by part: the events that change the list or a       *)
(* connection each get a lemma.                                            *)
(***************************************************************************)
LEMMA InitIInv == Init => IInv
<1> SUFFICES ASSUME Init PROVE IInv
  OBVIOUS
<1>1. InList = {}
  BY DEF Init, InList
<1>2. TypeOK
  BY DEF Init, TypeOK
<1>3. NoDanglingSubscription /\ ListIsGranted
  BY <1>1 DEF Init, NoDanglingSubscription, ListIsGranted
<1>4. DownIsEmpty
  BY DEF Init, DownIsEmpty
<1> QED
  BY <1>2, <1>3, <1>4 DEF IInv

(* The connections that are there stay, and the list and what was granted  *)
(* do not change.                                                          *)
LEMMA ListUntouched ==
    ASSUME IInv, UNCHANGED <<subs, granted>>,
           \A c \in Conns : conn[c] # "free" => conn'[c] # "free"
    PROVE  NoDanglingSubscription' /\ ListIsGranted'
<1>1. InList' = InList
  BY DEF InList
<1>2. \A n \in InList : subs[n].conn \in Conns
  BY DEF IInv, TypeOK, InList, Entry
<1>3. NoDanglingSubscription'
  BY <1>1, <1>2 DEF IInv, NoDanglingSubscription
<1>4. ListIsGranted'
  BY <1>1 DEF IInv, ListIsGranted
<1> QED
  BY <1>3, <1>4

(* handle_subscribe grants what it stores, to a connection that is there.  *)
LEMMA SubscribeKeeps ==
    ASSUME IInv,
           NEW c \in Conns, NEW wishes \in SubscribeLists, NEW n \in 0..Len(wishes),
           NEW node \in [1..n -> Nodes], NEW undup \in SUBSET (1..n),
           handle_subscribe(c, wishes, n, node, undup)
    PROVE  IInv'
<1>0. TypeOK
  BY DEF IInv
<1>1. /\ \A k \in 1..n : /\ wishes[k] \in [filter: Filters, qos: 0..2]
                           /\ node[k] \notin InList
                           /\ subs'[node[k]] = Stored(c, wishes[k], k \in undup)
      /\ \A m \in Nodes : (\A k \in 1..n : node[k] # m) => subs'[m] = subs[m]
      /\ subs' \in [Nodes -> Entry \cup {Freed}]
  BY <1>0, ListAfterSubscribe
<1>2. /\ running' = running /\ conn' = conn /\ conn[c] # "free"
      /\ granted' = [granted EXCEPT ![c] = @ \cup {wishes[k].filter : k \in 1..n}]
      /\ published' = NoMessage /\ sent' = {[cmd |-> "SUBACK", to |-> c, codes |-> n]}
  BY DEF handle_subscribe, Received, Reply
<1>3. \A k \in 1..n : /\ subs'[node[k]].conn = c
                       /\ subs'[node[k]].filter \in {wishes[k].filter, NULL}
                       /\ node[k] \in InList'
  BY <1>1, StoredIsEntry, EntryIsNotFreed DEF InList
<1>4. \A m \in InList : m \in InList' /\ subs'[m] = subs[m]
  BY <1>1 DEF InList
<1>5. \A m \in InList' : m \in InList \/ \E k \in 1..n : node[k] = m
  BY <1>1 DEF InList
<1>6. TypeOK'
  <2>1. {wishes[k].filter : k \in 1..n} \subseteq Filters
    BY <1>1
  <2>2. granted' \in [Conns -> SUBSET Filters]
    BY <1>0, <1>2, <2>1 DEF TypeOK
  <2>3. n \in Nat
    OBVIOUS
  <2>4. sent' \subseteq Packet
    BY <1>2, <2>3 DEF Packet
  <2> QED
    BY <1>0, <1>1, <1>2, <2>2, <2>4 DEF TypeOK
<1>7. NoDanglingSubscription'
  BY <1>2, <1>3, <1>4, <1>5 DEF IInv, NoDanglingSubscription
<1>8. ListIsGranted'
  <2>1. \A d \in Conns : granted[d] \subseteq granted'[d]
    BY <1>0, <1>2 DEF TypeOK
  <2>2. granted'[c] = granted[c] \cup {wishes[k].filter : k \in 1..n}
    BY <1>0, <1>2 DEF TypeOK
  <2>3. ASSUME NEW m \in InList' PROVE subs'[m].filter \in granted'[subs'[m].conn] \cup {NULL}
    <3>1. CASE m \in InList
      <4>1. subs[m].conn \in Conns
        BY <3>1, <1>0 DEF TypeOK, InList, Entry
      <4> QED
        BY <3>1, <4>1, <1>4, <2>1 DEF IInv, ListIsGranted
    <3>2. CASE \E k \in 1..n : node[k] = m
      BY <3>2, <1>3, <2>2
    <3> QED
      BY <3>1, <3>2, <1>5
  <2>4. ASSUME NEW d \in Conns, NEW f \in granted'[d]
        PROVE  \E m \in InList' : subs'[m].conn = d /\ subs'[m].filter \in {f, NULL}
    <3>1. CASE f \in granted[d]
      BY <3>1, <1>4 DEF IInv, ListIsGranted
    <3>2. CASE f \notin granted[d]
      <4>1. d = c
        BY <3>2, <1>0, <1>2 DEF TypeOK
      <4>2. PICK k \in 1..n : f = wishes[k].filter
        BY <3>2, <4>1, <2>2
      <4> QED
        BY <4>1, <4>2, <1>3
    <3> QED
      BY <3>1, <3>2
  <2> QED
    BY <2>3, <2>4 DEF ListIsGranted
<1>9. DownIsEmpty'
  BY <1>2 DEF IInv, DownIsEmpty
<1> QED
  BY <1>6, <1>7, <1>8, <1>9 DEF IInv

(* Close takes a connection and all its subscriptions away.                *)
LEMMA CloseKeeps ==
    ASSUME IInv, NEW c \in Conns, Close(c)
    PROVE  IInv'
<1>0. TypeOK
  BY DEF IInv
<1>1. /\ running' = running
      /\ conn' = [conn EXCEPT ![c] = "free"]
      /\ subs' = [n \in Nodes |-> IF subs[n].conn = c THEN Freed ELSE subs[n]]
      /\ granted' = [granted EXCEPT ![c] = {}]
      /\ published' = NoMessage /\ sent' = {}
  BY DEF Close, remove_subscriptions, Silent
<1>2. \A n \in InList' : n \in InList /\ subs[n].conn # c /\ subs'[n] = subs[n]
  BY <1>1 DEF InList
<1>3. \A n \in InList : subs[n].conn # c => n \in InList' /\ subs'[n] = subs[n]
  BY <1>1 DEF InList
<1>4. \A n \in InList : subs[n].conn \in Conns
  BY <1>0 DEF TypeOK, InList, Entry
<1>5. TypeOK'
  BY <1>0, <1>1 DEF TypeOK
<1>6. NoDanglingSubscription'
  BY <1>0, <1>1, <1>2, <1>4 DEF IInv, NoDanglingSubscription, TypeOK
<1>7. ListIsGranted'
  <2>1. \A d \in Conns : granted'[d] = IF d = c THEN {} ELSE granted[d]
    BY <1>0, <1>1 DEF TypeOK
  <2>2. \A n \in InList' : subs'[n].filter \in granted'[subs'[n].conn] \cup {NULL}
    BY <1>2, <1>4, <2>1 DEF IInv, ListIsGranted
  <2>3. \A d \in Conns : \A f \in granted'[d] :
            \E n \in InList' : subs'[n].conn = d /\ subs'[n].filter \in {f, NULL}
    BY <1>3, <2>1 DEF IInv, ListIsGranted
  <2> QED
    BY <2>2, <2>3 DEF ListIsGranted
<1>8. DownIsEmpty'
  BY <1>0, <1>1 DEF IInv, DownIsEmpty, TypeOK
<1> QED
  BY <1>5, <1>6, <1>7, <1>8 DEF IInv

(* When the process is gone, so are its list and its connections.          *)
LEMMA NothingLeft ==
    ASSUME TypeOK', \A n \in Nodes : subs'[n] = Freed, \A c \in Conns : granted'[c] = {},
           \A c \in Conns : conn'[c] = "free"
    PROVE  IInv'
<1>1. InList' = {}
  BY DEF InList
<1>2. NoDanglingSubscription' /\ ListIsGranted'
  BY <1>1 DEF NoDanglingSubscription, ListIsGranted
<1>3. DownIsEmpty'
  BY DEF DownIsEmpty
<1> QED
  BY <1>2, <1>3 DEF IInv

(* What was granted to connections that are all gone: nothing.             *)
LEMMA FreeHasNothing ==
    ASSUME IInv, \A c \in Conns : conn[c] = "free"
    PROVE  InList = {} /\ \A c \in Conns : granted[c] = {}
<1>1. InList = {}
  BY DEF IInv, NoDanglingSubscription, TypeOK, InList, Entry
<1> QED
  BY <1>1 DEF IInv, ListIsGranted

LEMMA HandlerKeeps ==
    ASSUME IInv, NEW c \in Conns, Handler(c)
    PROVE  IInv'
<1> USE DEF IInv
<1>1. CASE handle_connect(c)
  <2>1. TypeOK'
    BY <1>1 DEF handle_connect, Reply, TypeOK, Packet
  <2> QED
    BY <1>1, <2>1, ListUntouched DEF handle_connect, DownIsEmpty
<1>2. CASE handle_connect_error(c) \/ handle_disconnect(c)
  <2>1. TypeOK'
    BY <1>2 DEF handle_connect_error, handle_disconnect, Silent, TypeOK
  <2>2. \A d \in Conns : conn[d] # "free" => conn'[d] # "free"
    BY <1>2 DEF handle_connect_error, handle_disconnect, TypeOK
  <2>3. DownIsEmpty'
    BY <1>2 DEF handle_connect_error, handle_disconnect, Received, DownIsEmpty
  <2> QED
    BY <1>2, <2>1, <2>2, <2>3, ListUntouched DEF handle_connect_error, handle_disconnect
<1>3. CASE \E wishes \in SubscribeLists : \E n \in 0..Len(wishes) :
            \E node \in [1..n -> Nodes], undup \in SUBSET (1..n) :
                handle_subscribe(c, wishes, n, node, undup)
  BY <1>3, SubscribeKeeps
<1>4. CASE \E topic \in Topics, qos \in 0..2 : handle_publish(c, topic, qos)
  <2> PICK topic \in Topics, qos \in 0..2 : handle_publish(c, topic, qos)
    BY <1>4
  <2>1. \A n \in InList : subs[n] \in Entry
    BY DEF TypeOK, InList
  <2>2. \A n \in InList :
            [cmd |-> "PUBLISH", to |-> subs[n].conn, topic |-> topic,
             qos |-> subs[n].qos, by |-> n] \in Packet
    BY <2>1 DEF Packet, InList, Entry
  <2>3. sent' \subseteq Packet
    BY <2>2 DEF handle_publish, Matching
  <2>4. TypeOK'
    BY <2>3 DEF handle_publish, TypeOK
  <2> QED
    BY <2>4, ListUntouched DEF handle_publish, DownIsEmpty
<1>5. CASE handle_publish_nomem(c)
  <2>1. TypeOK'
    BY <1>5 DEF handle_publish_nomem, Silent, TypeOK
  <2> QED
    BY <1>5, <2>1, ListUntouched DEF handle_publish_nomem, DownIsEmpty
<1>6. CASE handle_publish_crash(c)
  <2>1. TypeOK'
    BY <1>6 DEF handle_publish_crash, Silent, TypeOK
  <2> QED
    BY <1>6, <2>1, NothingLeft DEF handle_publish_crash
<1>7. CASE handle_pingreq(c)
  <2>1. TypeOK'
    BY <1>7 DEF handle_pingreq, Reply, TypeOK, Packet
  <2> QED
    BY <1>7, <2>1, ListUntouched DEF handle_pingreq, DownIsEmpty
<1> QED
  BY <1>1, <1>2, <1>3, <1>4, <1>5, <1>6, <1>7 DEF Handler

LEMMA StepKeepsIInv == IInv /\ [Next]_vars => IInv'
<1> SUFFICES ASSUME IInv, [Next]_vars PROVE IInv'
  OBVIOUS
<1>1. ASSUME NEW c \in Conns, Accept(c) PROVE IInv'
  <2>1. TypeOK /\ conn[c] = "free" /\ running = "up"
    BY <1>1 DEF IInv, Accept
  <2>2. granted[c] = {}
    BY <2>1 DEF IInv, ListIsGranted, NoDanglingSubscription
  <2>3. granted' = granted /\ subs' = subs /\ running' = running
    BY <1>1, <2>1, <2>2 DEF Accept, TypeOK
  <2>4. \A d \in Conns : conn[d] # "free" => conn'[d] # "free"
    BY <1>1, <2>1 DEF Accept, TypeOK
  <2>5. TypeOK'
    BY <1>1, <2>1 DEF Accept, Silent, TypeOK
  <2>6. DownIsEmpty'
    BY <2>1, <2>3 DEF DownIsEmpty
  <2> QED
    BY <2>3, <2>4, <2>5, <2>6, ListUntouched DEF IInv
<1>2. ASSUME NEW c \in Conns, ConnectionLost(c) PROVE IInv'
  <2>1. TypeOK'
    BY <1>2 DEF IInv, ConnectionLost, Silent, TypeOK
  <2>2. \A d \in Conns : conn[d] # "free" => conn'[d] # "free"
    BY <1>2 DEF IInv, ConnectionLost, TypeOK
  <2>3. DownIsEmpty'
    BY <1>2 DEF IInv, ConnectionLost, DownIsEmpty
  <2> QED
    BY <1>2, <2>1, <2>2, <2>3, ListUntouched DEF IInv, ConnectionLost
<1>3. CASE Stop
  <2>1. TypeOK'
    BY <1>3 DEF IInv, Stop, Silent, TypeOK
  <2>2. \A d \in Conns : conn[d] # "free" => conn'[d] # "free"
    BY <1>3 DEF Stop
  <2>3. DownIsEmpty'
    BY <1>3 DEF Stop, DownIsEmpty
  <2> QED
    BY <1>3, <2>1, <2>2, <2>3, ListUntouched DEF IInv, Stop
<1>4. CASE Exit
  <2>1. TypeOK'
    BY <1>4 DEF IInv, Exit, Silent, TypeOK
  <2>2. DownIsEmpty'
    BY <1>4 DEF Exit, DownIsEmpty
  <2> QED
    BY <1>4, <2>1, <2>2, ListUntouched DEF IInv, Exit
<1>5. CASE Start
  <2>1. \A c \in Conns : conn[c] = "free"
    BY <1>5 DEF IInv, Start, DownIsEmpty
  <2>2. \A c \in Conns : granted[c] = {}
    BY <2>1, FreeHasNothing
  <2>3. TypeOK'
    BY <1>5 DEF IInv, Start, Silent, TypeOK
  <2> QED
    BY <1>5, <2>1, <2>2, <2>3, NothingLeft DEF Start
<1>6. CASE UNCHANGED vars
  BY <1>6 DEF IInv, vars, TypeOK, DownIsEmpty, NoDanglingSubscription, ListIsGranted, InList
<1> QED
  BY <1>1, <1>2, <1>3, <1>4, <1>5, <1>6, CloseKeeps, HandlerKeeps DEF Next

(* Every step of the broker preserves the conjunction of its invariants.   *)
THEOREM Invariance == Spec => []IInv
<1> QED
  BY InitIInv, StepKeepsIInv, PTL DEF Spec

(* Variables keep their ranges, for any number of connections and nodes.   *)
THEOREM TypeCorrect == Spec => []TypeOK
<1>1. IInv => TypeOK
  BY DEF IInv
<1> QED
  BY <1>1, Invariance, PTL

(* No subscription outlives its connection (remove_subscriptions).         *)
THEOREM NothingDangles == Spec => []NoDanglingSubscription
<1>1. IInv => NoDanglingSubscription
  BY DEF IInv
<1> QED
  BY <1>1, Invariance, PTL

(* The list holds what was granted to the clients now connected, no more   *)
(* and no less (handle_subscribe, remove_subscriptions).                   *)
THEOREM GrantsAreListed == Spec => []ListIsGranted
<1>1. IInv => ListIsGranted
  BY DEF IInv
<1> QED
  BY <1>1, Invariance, PTL

(***************************************************************************)
(* The refinement.                                                         *)
(***************************************************************************)
MatcherAgrees ==
    \A f \in Filters, t \in Topics : topic_filter_match(f, t) <=> MatchesByLevels(f, t)

Reached == {p.to : p \in {q \in sent : q.cmd = "PUBLISH"}}

Message == IF published = NoMessage THEN NoMessage ELSE published.topic

(* An event that sends no PUBLISH routes nothing.                          *)
LEMMA SilentRoutesNothing ==
    ASSUME published' = NoMessage, \A p \in sent' : p.cmd # "PUBLISH"
    PROVE  Message' = NoMessage /\ Reached' = {}
BY DEF Message, Reached

(* handle_publish reaches exactly the clients with a matching grant.       *)
LEMMA PublishRoutes ==
    ASSUME MatcherAgrees, IInv, NEW c \in Conns, NEW topic \in Topics, NEW qos \in 0..2,
           handle_publish(c, topic, qos)
    PROVE  /\ Message' = topic
           /\ Reached' = {d \in Conns : \E f \in granted[d] : MatchesByLevels(f, topic)}
<1>1. published' = [topic |-> topic, qos |-> qos]
  BY DEF handle_publish
<1>2. published' # NoMessage
  BY <1>1, BrokerAssumption
<1>3. Message' = topic
  BY <1>1, <1>2 DEF Message
<1>4. Reached' = {subs[n].conn : n \in Matching(topic)}
  <2>1. \A p \in sent' : p.cmd = "PUBLISH"
    BY DEF handle_publish
  <2>2. Reached' = {p.to : p \in sent'}
    BY <2>1 DEF Reached
  <2>3. ASSUME NEW d PROVE d \in Reached' <=> \E n \in Matching(topic) : subs[n].conn = d
    <3> DEFINE Copy(n) == [cmd |-> "PUBLISH", to |-> subs[n].conn, topic |-> topic,
                           qos |-> subs[n].qos, by |-> n]
    <3>1. sent' = {Copy(n) : n \in Matching(topic)}
      BY DEF handle_publish
    <3>2. \A n \in Matching(topic) : Copy(n).to = subs[n].conn
      OBVIOUS
    <3> HIDE DEF Copy
    <3>3. d \in Reached' <=> \E n \in Matching(topic) : d = Copy(n).to
      BY <2>2, <3>1
    <3> QED
      BY <3>2, <3>3
  <2> QED
    BY <2>3
<1>5. \A n \in InList : /\ subs[n].conn \in Conns
                        /\ subs[n].filter \in Filters
                        /\ subs[n].filter \in granted[subs[n].conn]
  BY DEF handle_publish, IInv, TypeOK, InList, Entry, ListIsGranted
<1>6. \A d \in Conns : \A f \in granted[d] :
        \E n \in InList : subs[n].conn = d /\ subs[n].filter = f
  BY <1>5, BrokerAssumption DEF handle_publish, IInv, ListIsGranted
<1>7. \A n \in InList : n \in Matching(topic) <=> MatchesByLevels(subs[n].filter, topic)
  BY <1>5 DEF MatcherAgrees, Matching
<1>8. \A n \in Matching(topic) : n \in InList
  BY DEF Matching
<1>9. ASSUME NEW d \in Conns
      PROVE  d \in Reached' <=> \E f \in granted[d] : MatchesByLevels(f, topic)
  <2>1. ASSUME d \in Reached' PROVE \E f \in granted[d] : MatchesByLevels(f, topic)
    <3> PICK n \in Matching(topic) : subs[n].conn = d
      BY <1>4, <2>1
    <3> QED
      BY <1>5, <1>7, <1>8
  <2>2. ASSUME NEW f \in granted[d], MatchesByLevels(f, topic) PROVE d \in Reached'
    <3> PICK n \in InList : subs[n].conn = d /\ subs[n].filter = f
      BY <1>6
    <3> QED
      BY <1>4, <1>7, <2>2
  <2> QED
    BY <2>1, <2>2
<1>10. Reached' \subseteq Conns
  BY <1>4, <1>5, <1>8
<1> QED
  BY <1>3, <1>9, <1>10

LEMMA HandlerRoutes ==
    ASSUME MatcherAgrees, IInv, NEW c \in Conns, Handler(c)
    PROVE  Routing!Next
<1> USE DEF Message, Reached
<1>1. CASE \/ handle_connect(c) \/ handle_connect_error(c) \/ handle_publish_nomem(c)
           \/ handle_pingreq(c) \/ handle_disconnect(c)
  <2>1. published' = NoMessage /\ granted' = granted
    BY <1>1 DEF handle_connect, handle_connect_error, handle_publish_nomem, handle_pingreq,
                handle_disconnect, Silent, Reply
  <2>2. \A p \in sent' : p.cmd # "PUBLISH"
    BY <1>1 DEF handle_connect, handle_connect_error, handle_publish_nomem, handle_pingreq,
                handle_disconnect, Silent, Reply
  <2>3. Routing!Other
    BY <2>1, <2>2, SilentRoutesNothing DEF Routing!Other, Routing!Silent
  <2> QED
    BY <2>3 DEF Routing!Next
<1>2. CASE \E wishes \in SubscribeLists : \E n \in 0..Len(wishes) :
            \E node \in [1..n -> Nodes], undup \in SUBSET (1..n) :
                handle_subscribe(c, wishes, n, node, undup)
  <2> PICK wishes \in SubscribeLists :
            \E n \in 0..Len(wishes) : \E node \in [1..n -> Nodes], undup \in SUBSET (1..n) :
                handle_subscribe(c, wishes, n, node, undup)
    BY <1>2
  <2> PICK n \in 0..Len(wishes) : \E node \in [1..n -> Nodes], undup \in SUBSET (1..n) :
                handle_subscribe(c, wishes, n, node, undup)
    OBVIOUS
  <2> PICK node \in [1..n -> Nodes], undup \in SUBSET (1..n) :
                handle_subscribe(c, wishes, n, node, undup)
    OBVIOUS
  <2> DEFINE fs == {wishes[k].filter : k \in 1..n}
  <2>1. \A k \in 1..n : wishes[k] \in [filter: Filters, qos: 0..2]
    BY ListAfterSubscribe DEF IInv
  <2>2. fs \in SUBSET Filters
    BY <2>1
  <2>3. granted' = [granted EXCEPT ![c] = @ \cup fs]
    BY DEF handle_subscribe
  <2>4. published' = NoMessage /\ \A p \in sent' : p.cmd # "PUBLISH"
    BY DEF handle_subscribe, Reply
  <2>5. Routing!Grant(c, fs)
    BY <2>3, <2>4, SilentRoutesNothing DEF Routing!Grant, Routing!Silent
  <2> QED
    BY <2>2, <2>5 DEF Routing!Next
<1>3. CASE \E topic \in Topics, qos \in 0..2 : handle_publish(c, topic, qos)
  <2> PICK topic \in Topics, qos \in 0..2 : handle_publish(c, topic, qos)
    BY <1>3
  <2>0. handle_publish(c, topic, qos)
    OBVIOUS
  <2>2. /\ Message' = topic
        /\ Reached' = {d \in Conns : \E f \in granted[d] : MatchesByLevels(f, topic)}
    BY <2>0, PublishRoutes
  <2>3. granted' = granted
    BY <2>0 DEF handle_publish
  <2>1. Routing!Route(topic)
    BY <2>2, <2>3 DEF Routing!Route
  <2> QED
    BY <2>1 DEF Routing!Next
<1>4. CASE handle_publish_crash(c)
  <2>1. granted' = [d \in Conns |-> {}] /\ published' = NoMessage /\ sent' = {}
    BY <1>4 DEF handle_publish_crash, Silent
  <2>2. Routing!Leave(Conns)
    BY <2>1, SilentRoutesNothing DEF Routing!Leave, Routing!Silent
  <2> QED
    BY <2>2 DEF Routing!Next
<1> QED
  BY <1>1, <1>2, <1>3, <1>4 DEF Handler

LEMMA StepRoutes ==
    ASSUME MatcherAgrees, IInv, [Next]_vars
    PROVE  [Routing!Next]_(Routing!vars)
<1> USE DEF Message, Reached
<1>1. ASSUME NEW c \in Conns, Accept(c) \/ ConnectionLost(c) PROVE Routing!Other
  <2>1. Accept(c) => granted[c] = {}
    BY DEF Accept, IInv, ListIsGranted, NoDanglingSubscription
  <2>2. published' = NoMessage /\ sent' = {} /\ granted' = granted
    BY <1>1, <2>1 DEF Accept, ConnectionLost, Silent, IInv, TypeOK
  <2> QED
    BY <2>2, SilentRoutesNothing DEF Routing!Other, Routing!Silent
<1>2. ASSUME NEW c \in Conns, Close(c) PROVE Routing!Leave({c})
  <2>1. granted' = [d \in Conns |-> IF d \in {c} THEN {} ELSE granted[d]]
    BY <1>2 DEF Close, IInv, TypeOK
  <2>2. published' = NoMessage /\ sent' = {}
    BY <1>2 DEF Close, Silent
  <2> QED
    BY <2>1, <2>2, SilentRoutesNothing DEF Routing!Leave, Routing!Silent
<1>3. CASE Stop \/ Exit \/ Start
  <2>1. published' = NoMessage /\ sent' = {} /\ granted' = granted
    BY <1>3 DEF Stop, Exit, Start, Silent
  <2>2. Routing!Other
    BY <2>1, SilentRoutesNothing DEF Routing!Other, Routing!Silent
  <2> QED
    BY <2>2 DEF Routing!Next
<1>4. CASE UNCHANGED vars
  BY <1>4 DEF vars, Routing!vars
<1>5. \A c \in Conns : {c} \in SUBSET Conns
  OBVIOUS
<1> QED
  BY <1>1, <1>2, <1>3, <1>4, <1>5, HandlerRoutes DEF Next, Routing!Next

(* The broker routes as MqttRouting says, for every set of well-formed     *)
(* filters, and of topics that do not end in two empty levels.             *)
THEOREM Refinement ==
    ASSUME NEW C, NUL \notin C,
           \A f \in Filters : f \in Seq(C) /\ IsFilter(f),
           \A t \in Topics : t \in Seq(C) /\ ~EndsEmpty(Levels(t))
    PROVE  Spec => ImplementsRouting
<1>1. MatcherAgrees
  BY MatcherIsRight DEF MatcherAgrees
<1>2. Init => Routing!Init
  BY DEF Init, Routing!Init
<1>3. IInv /\ [Next]_vars => [Routing!Next]_(Routing!vars)
  BY <1>1, StepRoutes
<1> QED
  BY <1>2, <1>3, Invariance, PTL DEF Spec, ImplementsRouting, Routing!Spec

=============================================================================
