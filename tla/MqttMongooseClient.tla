------------------------- MODULE MqttMongooseClient -------------------------
(***************************************************************************)
(* mqtt_mongoose_client.c: the poll loop, its event handler and the        *)
(* publication every Interval seconds, over a connection that mongoose     *)
(* opens, may lose, and frees after the close event.                       *)
(***************************************************************************)
EXTENDS Naturals

CONSTANTS
    Interval,   \* seconds between publications
    MaxTime     \* bounds the wall clock

VARIABLES
    pc,
    link,           \* mongoose's connection: "none", "opening", "open", "closing" or "freed"
    s_mqtt_conn,    \* whether the pointer is set
    s_mqtt_ready,
    s_running,
    now,            \* the wall clock
    last_pub,
    published       \* publications, and whether each went to an open connection

clientVars == <<link, s_mqtt_conn, s_mqtt_ready, s_running, now, last_pub, published>>

vars == <<pc, clientVars>>

Init ==
    /\ pc = "start"
    /\ link = "none"
    /\ s_mqtt_conn = FALSE
    /\ s_mqtt_ready = FALSE
    /\ s_running = TRUE
    /\ now = Interval
    /\ last_pub = 0
    /\ published = {}

mqtt_connect ==
    /\ pc = "start"
    /\ \/ pc' = "poll" /\ link' = "opening" /\ s_mqtt_conn' = TRUE
       \/ pc' = "ended" /\ UNCHANGED <<link, s_mqtt_conn>>
    /\ UNCHANGED <<s_mqtt_ready, s_running, now, last_pub, published>>

(* MG_EV_MQTT_OPEN: a refusal closes the connection, an acceptance         *)
(* subscribes.                                                             *)
OnOpen(ack) ==
    /\ link = "opening"
    /\ IF ack = 0
           THEN link' = "open" /\ s_mqtt_ready' = TRUE
           ELSE link' = "closing" /\ UNCHANGED s_mqtt_ready
    /\ UNCHANGED s_mqtt_conn

(* Mutant: the pointer outlives the connection. *)
KeepsPointer ==
    /\ link \in {"opening", "open", "closing"}
    /\ link' = "freed"
    /\ UNCHANGED <<s_mqtt_conn, s_mqtt_ready>>

(* MG_EV_CLOSE, after which mongoose frees the connection. *)
OnClose ==
    /\ link \in {"opening", "open", "closing"}
    /\ link' = "freed"
    /\ s_mqtt_conn' = FALSE
    /\ s_mqtt_ready' = FALSE

(* No event, or one that is only printed: MSG, CMD, ERROR. *)
OnOther == UNCHANGED <<link, s_mqtt_conn, s_mqtt_ready>>

(* One round of mg_mgr_poll; meanwhile the clock may go on. *)
mg_mgr_poll ==
    /\ pc = "poll"
    /\ s_running
    /\ \/ \E ack \in {0, 1} : OnOpen(ack)
       \/ OnClose
       \/ OnOther
    /\ now' \in {now, now + 1} /\ now' <= MaxTime
    /\ pc' = "due"
    /\ UNCHANGED <<s_running, last_pub, published>>

PublishDue ==
    /\ pc = "due"
    /\ IF s_mqtt_ready /\ s_mqtt_conn /\ now - last_pub >= Interval
           THEN last_pub' = now /\ published' = published \cup {<<now, link>>}
           ELSE UNCHANGED <<last_pub, published>>
    /\ pc' = "poll"
    /\ UNCHANGED <<link, s_mqtt_conn, s_mqtt_ready, s_running, now>>

(* mg_mqtt_disconnect, if there is a connection: it only queues a packet.  *)
Shutdown ==
    /\ pc = "poll"
    /\ ~s_running
    /\ pc' = IF s_mqtt_conn THEN "last" ELSE "free"
    /\ UNCHANGED clientVars

(* The mg_mgr_poll in which the packet may go out. *)
LastPoll ==
    /\ pc = "last"
    /\ \/ \E ack \in {0, 1} : OnOpen(ack)
       \/ OnClose
       \/ OnOther
    /\ pc' = "free"
    /\ UNCHANGED <<s_running, now, last_pub, published>>

(* mg_mgr_free closes the connection that is left, with its event. *)
mg_mgr_free ==
    /\ pc = "free"
    /\ IF link \in {"opening", "open", "closing"} THEN OnClose ELSE OnOther
    /\ pc' = "ended"
    /\ UNCHANGED <<s_running, now, last_pub, published>>

signal_handler ==
    /\ pc # "ended"
    /\ s_running
    /\ s_running' = FALSE
    /\ UNCHANGED <<pc, link, s_mqtt_conn, s_mqtt_ready, now, last_pub, published>>

OwnStep ==
    \/ mqtt_connect
    \/ mg_mgr_poll
    \/ PublishDue
    \/ Shutdown
    \/ LastPoll
    \/ mg_mgr_free

Next == OwnStep \/ signal_handler

(* The pointer is set only while mongoose still has the connection, also   *)
(* when main uses it after a refusal or a loss, and every publication goes *)
(* to a connection that the broker has accepted, Interval seconds or more  *)
(* after the last one (mqtt_event_handler, main).                          *)
PublishesWhileOpen ==
    /\ s_mqtt_conn => link # "freed"
    /\ \A p \in published : p[2] = "open"
    /\ \A p, q \in published : p[1] # q[1] => p[1] - q[1] >= Interval \/ q[1] - p[1] >= Interval

(* The loop runs until somebody stops the program. *)
HeldUp == s_running /\ pc \in {"poll", "due"}
=============================================================================
