----------------------------- MODULE MCPrograms -----------------------------
(***************************************************************************)
(* The programs that run alone, or with a peer of their own: a behaviour   *)
(* is a run of one of them, with instances small enough to see every       *)
(* interleaving.  They share pc, and those with a socket its variables.    *)
(***************************************************************************)
EXTENDS Threads, Sequences

CONSTANTS None, Bodies, RawSize, Frames, Interval, MaxTime, Wait, Devices,
    Limits, OldFrames, MaxVideo, MaxHeld, Runs, Talkers, Mutes

(* tv_sec and the interval are constants of the programs; a body is as     *)
(* long as its Content-Length says; a frame index is a number.             *)
ASSUME ProgramsAssumption ==
    /\ Wait \in Nat \ {0}
    /\ Interval \in Nat
    /\ Bodies \subseteq Nat
    /\ RawSize \in Nat
    /\ Limits \subseteq Int
    /\ OldFrames \subseteq Nat

VARIABLES
    program,
    unsent, wire, arriving, hungup, broken, answers, framed,
    request, response, frames,
    asking, shown,
    step, connack, report,
    link, s_mqtt_conn, s_mqtt_ready, s_running, now, last_pub, published,
    timer, datagrams, blanks, quiet,
    max_packets, codec, g_running, packet, held, raw_out, jpegs, lost, cut, video_packets, saved,
    run, exists, samples, lastId, inserted, refused, rows,
    serving, backlog, client, path, arrived, taken, answer,
    demo, inOrder, child, writers, message, ready, seen,
    server, asked, read, reply, got

Push      == INSTANCE RtspPush
Client    == INSTANCE RtspClient
MqttDemo  == INSTANCE MqttClientDemo
Mongoose  == INSTANCE MqttMongooseClient
Onvif     == INSTANCE OnvifProbe
Camera    == INSTANCE Recorder
Samples   == INSTANCE SampleStore WITH shown <- rows
Http      == INSTANCE HttpDemo
Ipc       == INSTANCE ParentChild
Tcp       == INSTANCE TcpPair

socket_ == <<unsent, wire, arriving, hungup, broken>>
peer_ == <<answers, framed>>
push_ == <<request, response, frames>>
client_ == <<asking, shown>>
mqtt_ == <<step, connack, report>>
mongoose_ == <<link, s_mqtt_conn, s_mqtt_ready, s_running, now, last_pub, published>>
onvif_ == <<timer, datagrams, blanks, quiet>>
recorder_ == <<max_packets, codec, g_running, packet, held, raw_out, jpegs, lost, cut,
                  video_packets, saved>>
store_ == <<run, exists, samples, lastId, inserted, refused, rows>>
http_ == <<serving, backlog, client, path, arrived, taken, answer>>
ipc_ == <<demo, inOrder, child, writers, message, ready, seen>>
tcp_ == <<server, asked, read, reply, got>>

programVars == <<program, vars, socket_, peer_, push_, client_, mqtt_, mongoose_,
                 onvif_, recorder_, store_, http_, ipc_, tcp_>>

(* What every program but the one that runs leaves alone. *)
Rest(p) ==
    /\ IF p \in {"push", "client", "mqtt"} THEN TRUE ELSE UNCHANGED socket_
    /\ IF p \in {"push", "client"} THEN TRUE ELSE UNCHANGED peer_
    /\ IF p = "push" THEN TRUE ELSE UNCHANGED push_
    /\ IF p = "client" THEN TRUE ELSE UNCHANGED client_
    /\ IF p = "mqtt" THEN TRUE ELSE UNCHANGED mqtt_
    /\ IF p = "mongoose" THEN TRUE ELSE UNCHANGED mongoose_
    /\ IF p = "onvif" THEN TRUE ELSE UNCHANGED onvif_
    /\ IF p = "recorder" THEN TRUE ELSE UNCHANGED recorder_
    /\ IF p = "store" THEN TRUE ELSE UNCHANGED store_
    /\ IF p = "http" THEN TRUE ELSE UNCHANGED http_
    /\ IF p = "ipc" THEN TRUE ELSE UNCHANGED ipc_
    /\ IF p = "tcp" THEN TRUE ELSE UNCHANGED tcp_
    /\ IF p = "threads" THEN TRUE ELSE UNCHANGED threadVars
    /\ UNCHANGED program

ProgramInit ==
    /\ program \in {"push", "client", "mqtt", "mongoose", "onvif", "recorder", "threads", "store",
                    "http", "ipc", "tcp"}
    /\ Init /\ Push!Init /\ Client!Init /\ MqttDemo!Init /\ Mongoose!Init /\ Onvif!Init
    /\ Camera!Init /\ Samples!Init /\ Http!Init /\ Ipc!Init /\ Tcp!Init

Step ==
    \/ program = "push" /\ Push!Next /\ Rest("push")
    \/ program = "client" /\ Client!Next /\ Rest("client")
    \/ program = "mqtt" /\ MqttDemo!Next /\ Rest("mqtt")
    \/ program = "mongoose" /\ Mongoose!Next /\ Rest("mongoose")
    \/ program = "onvif" /\ Onvif!Next /\ Rest("onvif")
    \/ program = "recorder" /\ Camera!Next /\ Rest("recorder")
    \/ program = "threads" /\ Next /\ Rest("threads")
    \/ program = "store" /\ Samples!Next /\ Rest("store")
    \/ program = "http" /\ Http!Next /\ Rest("http")
    \/ program = "ipc" /\ Ipc!Next /\ Rest("ipc")
    \/ program = "tcp" /\ Tcp!Next /\ Rest("tcp")

(* What a program does by itself, the kernel, the network and time         *)
(* included; not what its peers do, nor whoever starts and stops it.       *)
OwnStep ==
    \/ program = "push" /\ Push!OwnStep /\ Rest("push")
    \/ program = "client" /\ Client!OwnStep /\ Rest("client")
    \/ program = "mqtt" /\ MqttDemo!OwnStep /\ Rest("mqtt")
    \/ program = "mongoose" /\ Mongoose!OwnStep /\ Rest("mongoose")
    \/ program = "onvif" /\ Onvif!OwnStep /\ Rest("onvif")
    \/ program = "recorder" /\ Camera!OwnStep /\ Rest("recorder")
    \/ program = "threads" /\ Next /\ Rest("threads")
    \/ program = "store" /\ Samples!OwnStep /\ Rest("store")
    \/ program = "http" /\ Http!OwnStep /\ Rest("http")
    \/ program = "ipc" /\ Ipc!Next /\ Rest("ipc")
    \/ program = "tcp" /\ Tcp!OwnStep /\ Rest("tcp")

(* The fairness is that of a processor and a network: no peer has to send, *)
(* answer or hang up, and nobody has to press Ctrl+C.                      *)
ProgramSpec == ProgramInit /\ [][Step]_programVars /\ WF_programVars(OwnStep)

(* What a program may wait for without end. *)
HeldUp ==
    \/ program = "push" /\ Push!HeldUp
    \/ program = "client" /\ Client!HeldUp
    \/ program = "mqtt" /\ MqttDemo!HeldUp
    \/ program = "mongoose" /\ Mongoose!HeldUp
    \/ program = "http" /\ Http!HeldUp
    \/ program = "ipc" /\ Ipc!HeldUp
    \/ program = "tcp" /\ Tcp!HeldUp

Ended == IF program = "tcp" THEN server = "ended" /\ pc # "recv" ELSE pc = "ended"

(* A peer of the two programs that only silence or Ctrl+C can stop.        *)
PeerSends ==
    \/ program = "onvif" /\ Onvif!PeersSend
    \/ program = "recorder" /\ Camera!CameraSends

(* Every program comes to its end whatever its peers leave undone, unless  *)
(* it waits for what nobody owes it: the list of such waits in HeldUp is   *)
(* complete.  The ONVIF probe and the recorder, which limit each wait,     *)
(* are on no such list; it takes peers that send on and on to keep them    *)
(* (the loops and blocking calls of every main).                           *)
EveryProgramEnds == []<><<PeerSends>>_programVars \/ <>[](Ended \/ HeldUp)

(* rtsp_push_demo sends a request only after the server has accepted every *)
(* one before it, however the answers are cut, whatever overflows raw, and *)
(* although frames are mixed in (recv_rtsp_response, main).                *)
AcceptedIsAnswer == program = "push" => Push!AcceptedIsAnswer

(* RECORD names the session of the answer to SETUP, and so does TEARDOWN   *)
(* if the answer to RECORD repeated it (extract_session, main of           *)
(* rtsp_push_demo).                                                        *)
SessionIsTheServers == program = "push" => Push!SessionIsTheServers

(* TEARDOWN names the session of the answer to SETUP, whatever the answer  *)
(* to RECORD holds (main of rtsp_push_demo).                               *)
TeardownNamesSession == program = "push" => Push!TeardownNamesSession

(* Whatever send accepts at a time, and whatever fails between two         *)
(* messages, a server finds each one whole before the next (send_all_bytes *)
(* of rtsp_push_demo, send_all of rtsp_client_demo, write_all of           *)
(* mqtt_client_demo).                                                      *)
MessagesAreWhole == Push!InOnePiece(wire)

(* What is printed as an answer is one: of rtsp_client_demo as long as     *)
(* every answer comes whole, of mqtt_client_demo's CONNACK in any case, of *)
(* the pipe in any case and of the shared memory as long as stores arrive  *)
(* in their order (recv_and_print_once, recv_connack, main).               *)
ShownIsTrue == Client!WholeAnswersAreShown /\ MqttDemo!ConnackIsTrue /\ Ipc!ReadsWhole

(* mqtt_mongoose_client uses no connection that mongoose has freed, and    *)
(* publishes only on one that the broker accepted, Interval seconds apart  *)
(* (mqtt_event_handler, publish_status, main).                             *)
PublishesWhileOpen == Mongoose!PublishesWhileOpen

(* onvif_probe_demo gives up only after Wait seconds without any answer,   *)
(* since the probe or the last one (the select loop of main).              *)
NothingIsMissed == Onvif!NothingIsMissed

(* The recorder's output holds the video packets in their order, all that  *)
(* were counted but those that the filter holds or fwrite lost; of an      *)
(* older recording only JPEG files with higher numbers remain              *)
(* (write_filtered_packet, write_jpeg_packet, main).                       *)
FileIsInOrder == program = "recorder" => Camera!FileIsInOrder

(* The SQLite program prints its own samples, whatever killed the runs     *)
(* before it (insert_sample, query_samples, main).                         *)
ShowsThisRun == program = "store" => Samples!ShowsThisRun

(* A client whose request was read whole gets the answer to it, whoever    *)
(* was served before (http_server's handle_request, tcp_server's main).    *)
ClientsAreAnswered == Http!AnswersItsClient /\ Tcp!RepliesIfRead

(* "Saved video packets: N": the recorder's file holds N packets.          *)
SavedIsInFile == Camera!SavedIsInFile
=============================================================================
