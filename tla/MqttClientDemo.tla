--------------------------- MODULE MqttClientDemo ---------------------------
(***************************************************************************)
(* mqtt_client_demo.c: CONNECT, one recv for the CONNACK, then PUBLISH,    *)
(* PINGREQ and DISCONNECT, whatever the broker answered and whatever       *)
(* became of the packet before.                                            *)
(***************************************************************************)
EXTENDS Socket

VARIABLES
    step,       \* which of Packets is being sent
    connack,    \* what the broker has answered to CONNECT
    report      \* what recv_connack printed

vars == <<socketVars, step, connack, report>>

Packets == <<"CONNECT", "PUBLISH", "PINGREQ", "DISCONNECT">>

Packet(k) == [i \in 1..2 |-> [method |-> Packets[k], part |-> i, parts |-> 2]]

Init ==
    /\ SocketInit
    /\ step = 0
    /\ connack = "none"
    /\ report = "none"

(* The next packet, or close after the last one. *)
GoOn ==
    /\ step' = step + 1
    /\ IF step < Len(Packets)
           THEN pc' = "send" /\ unsent' = Packet(step + 1)
           ELSE pc' = "ended" /\ unsent' = <<>>

tcp_connect ==
    /\ pc = "start"
    /\ \/ GoOn
       \/ pc' = "ended" /\ UNCHANGED <<step, unsent>>
    /\ UNCHANGED <<wire, arriving, hungup, broken, connack, report>>

write_all(n) ==
    /\ pc = "send"
    /\ n \in 1..Len(unsent)
    /\ Sends(n)
    /\ pc' = IF unsent' = <<>> THEN "sent" ELSE pc
    /\ UNCHANGED <<arriving, hungup, broken, step, connack, report>>

write_fails ==
    /\ pc = "send"
    /\ SendBreaks
    /\ pc' = "sent"
    /\ unsent' = <<>>
    /\ UNCHANGED <<wire, arriving, hungup, step, connack, report>>

(* main goes on to recv_connack or to the next packet. *)
AfterPacket ==
    /\ pc = "sent"
    /\ IF step = 1 THEN pc' = "recv" /\ UNCHANGED <<step, unsent>> ELSE GoOn
    /\ UNCHANGED <<wire, arriving, hungup, broken, connack, report>>

(* Mutant: the length is not compared, and the bytes that did not come are *)
(* whatever was on the stack.                                              *)
TakesAnyLength(bytes) == bytes = <<>> \/ bytes[Len(bytes)] # "refused"

(* n == 4 and the return code is 0. *)
Accepts(bytes) == bytes = <<"header", "accepted">>

(* The four bytes come as two pieces: the fixed header, and the code.      *)
recv_connack(n) ==
    /\ pc = "recv"
    /\ n \in 1..Len(arriving) \/ (n = 0 /\ NothingComes)
    /\ Receives(n)
    /\ report' = IF Accepts(SubSeq(arriving, 1, n)) THEN "success" ELSE "failed"
    /\ GoOn
    /\ UNCHANGED <<wire, hungup, broken, connack>>

(* The broker answers a whole CONNECT. *)
BrokerAnswers(code) ==
    /\ ~hungup
    /\ connack = "none"
    /\ Len(wire) >= 2
    /\ connack' = code
    /\ arriving' = <<"header", code>>
    /\ UNCHANGED <<pc, unsent, wire, hungup, broken, step, report>>

BrokerHangsUp ==
    /\ ~hungup
    /\ pc \notin {"start", "ended"}
    /\ hungup' = TRUE
    /\ UNCHANGED <<pc, unsent, wire, arriving, broken, step, connack, report>>

OwnStep ==
    \/ tcp_connect
    \/ \E n \in 1..2 : write_all(n)
    \/ write_fails
    \/ Killed({"send"}) /\ UNCHANGED <<step, connack, report>>
    \/ AfterPacket
    \/ \E n \in 0..2 : recv_connack(n)

BrokerStep ==
    \/ \E code \in {"accepted", "refused"} : BrokerAnswers(code)
    \/ BrokerHangsUp

Next == OwnStep \/ BrokerStep

(* "CONNACK success" is printed only when the broker has accepted; a       *)
(* CONNACK that comes in parts is reported as a failure (recv_connack).    *)
ConnackIsTrue == report = "success" => connack = "accepted"

(* recv has no timeout, and the broker neither answers nor hangs up.       *)
HeldUp == pc = "recv" /\ arriving = <<>> /\ ~hungup
=============================================================================
