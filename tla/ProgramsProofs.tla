--------------------------- MODULE ProgramsProofs ---------------------------
(***************************************************************************)
(* What the programs keep to, for every value of the constants.  Each has  *)
(* an inductive invariant of its own, which says nothing of the behaviours *)
(* of the other programs but that they leave its variables alone.          *)
(***************************************************************************)
EXTENDS MCPrograms, FiniteSetTheorems, SequenceTheorems, TLAPS

(* The program that runs is the same all the time, and the variables of    *)
(* the others stay as they were.                                           *)
LEMMA StepIsOne ==
    ASSUME [Step]_programVars
    PROVE  /\ program' = program
           /\ program = "onvif" => [Onvif!Next]_<<pc, onvif_>>
           /\ program # "onvif" => UNCHANGED onvif_
           /\ program = "mongoose" => [Mongoose!Next]_<<pc, mongoose_>>
           /\ program # "mongoose" => UNCHANGED mongoose_
           /\ program = "tcp" => [Tcp!Next]_<<pc, tcp_>>
           /\ program # "tcp" => UNCHANGED tcp_
           /\ program = "ipc" => [Ipc!Next]_<<pc, ipc_>>
           /\ program # "ipc" => UNCHANGED ipc_
           /\ program = "store" => [Samples!Next]_<<pc, store_>>
           /\ program # "store" => UNCHANGED store_
           /\ program = "recorder" => [Camera!Next]_<<pc, recorder_>>
           /\ program # "recorder" => UNCHANGED recorder_
           /\ program = "http" => [Http!Next]_<<pc, http_>>
           /\ program # "http" => UNCHANGED http_
<1>1. CASE Step
  BY <1>1 DEF Step, Rest
<1>2. CASE UNCHANGED programVars
  BY <1>2 DEF programVars, vars
<1> QED
  BY <1>1, <1>2

-----------------------------------------------------------------------------
(* onvif_probe_demo *)

(* While no answer waits, what is left of the timeout and the time that    *)
(* has passed make Wait.                                                   *)
OnvifInv ==
    /\ timer \in Nat /\ quiet \in Nat /\ datagrams \in Nat /\ blanks \in Nat
    /\ pc = "start" \/ program # "onvif" => timer = Wait
    /\ program = "onvif" /\ pc = "select" /\ datagrams = 0 => timer + quiet >= Wait
    /\ NothingIsMissed

LEMMA OnvifStep ==
    ASSUME OnvifInv, program = "onvif", program' = program, Onvif!Next
    PROVE  OnvifInv'
<1> USE ProgramsAssumption DEF OnvifInv, NothingIsMissed, Onvif!NothingIsMissed, Onvif!probeVars
<1>1. CASE Onvif!socket_sendto
  BY <1>1 DEF Onvif!socket_sendto, Onvif!Timeout
<1>2. CASE Onvif!recvfrom \/ Onvif!recvfrom_nothing
  BY <1>2 DEF Onvif!recvfrom, Onvif!recvfrom_nothing, Onvif!Timeout
<1>3. CASE Onvif!SelectReady \/ Onvif!SelectTimesOut \/ Onvif!SelectFails
  BY <1>3 DEF Onvif!SelectReady, Onvif!SelectTimesOut, Onvif!SelectFails
<1>4. CASE Onvif!Tick
  BY <1>4 DEF Onvif!Tick
<1>5. CASE Onvif!PeersSend
  BY <1>5 DEF Onvif!PeersSend, Onvif!DeviceAnswers, Onvif!BlankComes
<1> QED
  BY <1>1, <1>2, <1>3, <1>4, <1>5 DEF Onvif!Next, Onvif!OwnStep

(* For every timeout and every number of devices, answering at any time    *)
(* and as often as they like, with empty datagrams and errors in between:  *)
(* the probe ends by timeout only after Wait seconds without an answer.    *)
THEOREM MissesNothing == ProgramSpec => []NothingIsMissed
<1>1. ProgramInit => OnvifInv
  BY ProgramsAssumption DEF ProgramInit, Onvif!Init, OnvifInv, NothingIsMissed, Onvif!NothingIsMissed
<1>2. OnvifInv /\ [Step]_programVars => OnvifInv'
  <2> SUFFICES ASSUME OnvifInv, [Step]_programVars PROVE OnvifInv'
    OBVIOUS
  <2>1. CASE program = "onvif"
    BY <2>1, StepIsOne, OnvifStep DEF OnvifInv, NothingIsMissed, Onvif!NothingIsMissed, onvif_
  <2>2. CASE program # "onvif"
    BY <2>2, StepIsOne, ProgramsAssumption DEF OnvifInv, NothingIsMissed, Onvif!NothingIsMissed, onvif_
  <2> QED
    BY <2>1, <2>2
<1>3. OnvifInv => NothingIsMissed
  BY DEF OnvifInv
<1> QED
  BY <1>1, <1>2, <1>3, PTL DEF ProgramSpec

-----------------------------------------------------------------------------
(* mqtt_mongoose_client *)

(* mongoose still has the connection to which s_mqtt_conn points, and the  *)
(* broker has accepted it while s_mqtt_ready is set.                       *)
MongooseInv ==
    /\ now \in Nat /\ last_pub \in Nat
    /\ last_pub <= now
    /\ \A p \in published : p[1] \in Nat /\ p[1] <= last_pub
    /\ pc = "start" \/ program # "mongoose" => link = "none" /\ ~s_mqtt_ready
    /\ s_mqtt_ready => link = "open"
    /\ PublishesWhileOpen

LEMMA PublishKeeps ==
    ASSUME MongooseInv, program = "mongoose", program' = program, Mongoose!PublishDue
    PROVE  MongooseInv'
<1> USE DEF MongooseInv, PublishesWhileOpen, Mongoose!PublishesWhileOpen, Mongoose!PublishDue
<1>1. CASE s_mqtt_ready /\ s_mqtt_conn /\ now - last_pub >= Interval
  <2>1. last_pub' = now /\ published' = published \cup {<<now, link>>} /\ link = "open" /\ now' = now
    BY <1>1
  <2>2. \A p \in published : now - p[1] >= Interval
    BY <1>1, ProgramsAssumption
  <2>3. \A p, q \in published' : p[1] # q[1] => p[1] - q[1] >= Interval \/ q[1] - p[1] >= Interval
    BY <2>1, <2>2
  <2> QED
    BY <2>1, <2>3
<1>2. CASE ~(s_mqtt_ready /\ s_mqtt_conn /\ now - last_pub >= Interval)
  BY <1>2
<1> QED
  BY <1>1, <1>2

LEMMA MongooseStep ==
    ASSUME MongooseInv, program = "mongoose", program' = program, Mongoose!Next
    PROVE  MongooseInv'
<1> USE DEF MongooseInv, PublishesWhileOpen, Mongoose!PublishesWhileOpen
<1>1. CASE Mongoose!mqtt_connect
  BY <1>1 DEF Mongoose!mqtt_connect
<1>2. CASE Mongoose!mg_mgr_poll
  BY <1>2 DEF Mongoose!mg_mgr_poll, Mongoose!OnOpen, Mongoose!OnClose, Mongoose!OnOther
<1>3. CASE Mongoose!Shutdown \/ Mongoose!LastPoll \/ Mongoose!mg_mgr_free
  BY <1>3 DEF Mongoose!Shutdown, Mongoose!LastPoll, Mongoose!mg_mgr_free, Mongoose!clientVars,
              Mongoose!OnOpen, Mongoose!OnClose, Mongoose!OnOther
<1>4. CASE Mongoose!signal_handler
  BY <1>4 DEF Mongoose!signal_handler
<1> QED
  BY <1>1, <1>2, <1>3, <1>4, PublishKeeps DEF Mongoose!Next, Mongoose!OwnStep

(* However the broker and Ctrl+C come in between: no freed connection is   *)
(* used, and nothing is published on one that was not accepted.            *)
THEOREM OpenWhilePublishing == ProgramSpec => []PublishesWhileOpen
<1>1. ProgramInit => MongooseInv
  BY ProgramsAssumption
     DEF ProgramInit, Mongoose!Init, MongooseInv, PublishesWhileOpen, Mongoose!PublishesWhileOpen
<1>2. MongooseInv /\ [Step]_programVars => MongooseInv'
  <2> SUFFICES ASSUME MongooseInv, [Step]_programVars PROVE MongooseInv'
    OBVIOUS
  <2>1. CASE program = "mongoose"
    BY <2>1, StepIsOne, MongooseStep
       DEF MongooseInv, PublishesWhileOpen, Mongoose!PublishesWhileOpen, mongoose_
  <2>2. CASE program # "mongoose"
    BY <2>2, StepIsOne DEF MongooseInv, PublishesWhileOpen, Mongoose!PublishesWhileOpen, mongoose_
  <2> QED
    BY <2>1, <2>2
<1>3. MongooseInv => PublishesWhileOpen
  BY DEF MongooseInv
<1> QED
  BY <1>1, <1>2, <1>3, PTL DEF ProgramSpec

-----------------------------------------------------------------------------
(* tcp_server with tcp_client, http_server with its clients *)

(* What the server read was sent by a client that had connected, and its   *)
(* reply is lost only when it did not read all.                            *)
TcpInv ==
    /\ asked \in Nat
    /\ program # "tcp" => read = 0
    /\ program = "tcp" =>
           /\ pc = "start" => asked = 0 /\ read = 0 /\ server \in {"start", "accept", "ended"}
           /\ server \in {"start", "accept", "recv"} => read = 0 /\ reply = "none"
           /\ server \in {"close", "ended"} /\ read = 2 => reply = "sent"
           /\ reply # "none" => server \in {"close", "ended"}
           /\ pc = "ended" => server # "recv"
           /\ server \in {"start", "accept", "recv", "close", "ended"}
    /\ Tcp!RepliesIfRead

LEMMA TcpStep ==
    ASSUME TcpInv, program = "tcp", program' = program, Tcp!Next
    PROVE  TcpInv'
<1> USE DEF TcpInv, Tcp!RepliesIfRead, Tcp!tcpVars
<1>1. CASE Tcp!listen \/ Tcp!connect \/ Tcp!arrive
  BY <1>1 DEF Tcp!listen, Tcp!connect, Tcp!arrive
<1>2. CASE Tcp!accept \/ Tcp!close
  BY <1>2 DEF Tcp!accept, Tcp!close
<1>3. CASE Tcp!client_recv
  <2>1. /\ pc' = "ended" /\ server \in {"close", "ended"} /\ got' = (reply = "sent")
        /\ UNCHANGED <<server, asked, read, reply>>
    BY <1>3 DEF Tcp!client_recv
  <2>2. read = 2 => reply = "sent"
    BY <2>1
  <2>3. read' = 2 => got'
    BY <2>1, <2>2, Zenon
  <2> QED
    BY <2>1, <2>3
<1>4. ASSUME NEW n \in 1..2, Tcp!recv_and_send(n) PROVE TcpInv'
  BY <1>4 DEF Tcp!recv_and_send
<1>5. CASE Tcp!recv_fails
  BY <1>5 DEF Tcp!recv_fails
<1> QED
  BY <1>1, <1>2, <1>3, <1>4, <1>5 DEF Tcp!Next, Tcp!OwnStep

InSeq(s, c) == \E j \in 1..Len(s) : s[j] = c

LEMMA InAppended ==
    ASSUME NEW S, NEW s \in Seq(S), NEW x \in S
    PROVE  /\ Append(s, x) \in Seq(S)
           /\ Append(s, x) # <<>>
           /\ Http!Last(Append(s, x)) = x
           /\ \A c : InSeq(Append(s, x), c) <=> InSeq(s, c) \/ c = x
<1>1. /\ Append(s, x) \in Seq(S) /\ Len(s) \in Nat
      /\ Len(Append(s, x)) = Len(s) + 1
      /\ \A j \in 1..Len(s) : Append(s, x)[j] = s[j]
      /\ Append(s, x)[Len(s) + 1] = x
  BY AppendProperties
<1>2. Append(s, x) # <<>>
  BY <1>1
<1> QED
  BY <1>1, <1>2 DEF InSeq, Http!Last

LEMMA InTail ==
    ASSUME NEW S, NEW s \in Seq(S), s # <<>>
    PROVE  /\ Tail(s) \in Seq(S) /\ Head(s) \in S /\ InSeq(s, Head(s))
           /\ \A c : InSeq(Tail(s), c) => InSeq(s, c)
<1>1. /\ Tail(s) \in Seq(S) /\ Head(s) = s[1] /\ Len(s) \in Nat \ {0}
      /\ Len(Tail(s)) = Len(s) - 1
      /\ \A j \in 1..Len(Tail(s)) : Tail(s)[j] = s[j + 1]
  BY HeadTailProperties, EmptySeq
<1> QED
  BY <1>1 DEF InSeq

(* Nobody waits twice, and nobody waits who has been accepted.             *)
Waiting ==
    /\ \A j, k \in 1..Len(backlog) : backlog[j] = backlog[k] => j = k
    /\ \A c \in Http!Client : InSeq(backlog, c) => ~InSeq(serving, c)
    /\ \A c \in Http!Client : client[c] = "start" => ~InSeq(backlog, c) /\ ~InSeq(serving, c)

HttpOK ==
    /\ serving \in Seq(Http!Client)
    /\ backlog \in Seq(Http!Client)
    /\ client \in [Http!Client -> {"start", "waiting", "ended"}]
    /\ path \in [Http!Client -> {"none", "/status", "/status2", "/"}]
    /\ arrived \in [Http!Client -> Nat]
    /\ taken \in [Http!Client -> Nat]
    /\ answer \in [Http!Client -> {"none", "status", "hello", "reset"}]

(* The client being served has no answer until it is sent, and only who    *)
(* was accepted has one.                                                   *)
HttpInv ==
    /\ HttpOK
    /\ Waiting
    /\ program = "http" =>
           /\ pc \in {"recv", "send", "close"} => serving # <<>>
           /\ pc \in {"recv", "send"} => answer[Http!Last(serving)] = "none"
    /\ \A c \in Http!Client : answer[c] # "none" => InSeq(serving, c)
    /\ \A c \in Http!Client : client[c] = "start" => answer[c] = "none"
    /\ Http!AnswersItsClient

LEMMA LastServed ==
    ASSUME HttpOK, serving # <<>>
    PROVE  Http!Last(serving) \in Http!Client /\ InSeq(serving, Http!Last(serving))
BY EmptySeq DEF HttpOK, Http!Last, InSeq

LEMMA HttpConnect ==
    ASSUME HttpInv, program = "http", program' = program,
           NEW c \in Http!Client, NEW p \in {"/status", "/status2", "/"}, Http!Connect(c, p)
    PROVE  HttpInv'
<1> USE DEF HttpInv, HttpOK, Http!Connect, Http!AnswersItsClient
<1>1. /\ serving' = serving /\ answer' = answer /\ taken' = taken /\ pc' = pc
      /\ client[c] = "start" /\ client' \in [Http!Client -> {"start", "waiting", "ended"}]
      /\ \A d \in Http!Client : client'[d] = "start" => client[d] = "start" /\ d # c
      /\ \A d \in Http!Client : d # c => path'[d] = path[d]
  OBVIOUS
<1>2. backlog' \in Seq(Http!Client) /\ Waiting'
  <2>1. CASE backlog' = backlog
    BY <1>1, <2>1 DEF Waiting
  <2>2. CASE backlog' = Append(backlog, c)
    <3>1. /\ backlog' \in Seq(Http!Client)
          /\ \A d : InSeq(backlog', d) <=> InSeq(backlog, d) \/ d = c
      BY <2>2, InAppended
    <3>2. /\ Len(backlog) \in Nat /\ Len(backlog') \in Nat /\ Len(backlog') = Len(backlog) + 1
          /\ \A j \in 1..Len(backlog) : backlog'[j] = backlog[j]
          /\ backlog'[Len(backlog) + 1] = c
      BY <2>2, AppendProperties
    <3>3. \A j \in 1..Len(backlog) : backlog[j] # c
      BY SMTT(20), <1>1 DEF Waiting, InSeq
    <3>4. \A j, k \in 1..Len(backlog') : backlog'[j] = backlog'[k] => j = k
      <4> SUFFICES ASSUME NEW j \in 1..Len(backlog'), NEW k \in 1..Len(backlog'), backlog'[j] = backlog'[k]
                   PROVE  j = k
        OBVIOUS
      <4>1. /\ j \in 1..Len(backlog) \/ j = Len(backlog) + 1
            /\ k \in 1..Len(backlog) \/ k = Len(backlog) + 1
        BY <3>2
      <4>2. CASE j \in 1..Len(backlog) /\ k \in 1..Len(backlog)
        BY <3>2, <4>2 DEF Waiting
      <4>3. ASSUME j \in 1..Len(backlog), k = Len(backlog) + 1 PROVE FALSE
        BY <3>2, <3>3, <4>3
      <4>4. ASSUME k \in 1..Len(backlog), j = Len(backlog) + 1 PROVE FALSE
        BY <3>2, <3>3, <4>4
      <4> QED
        BY <4>1, <4>2, <4>3, <4>4
    <3> QED
      BY <1>1, <3>1, <3>4 DEF Waiting
  <2> QED
    BY <2>1, <2>2
<1>3. answer[c] = "none"
  BY <1>1
<1>4. HttpOK'
  BY <1>1, <1>2
<1>5. Http!AnswersItsClient'
  BY <1>1, <1>3
<1> QED
  BY SMTT(20), <1>1, <1>2, <1>4, <1>5

LEMMA HttpAccept ==
    ASSUME HttpInv, program = "http", program' = program, Http!accept
    PROVE  HttpInv'
<1> USE DEF HttpInv, HttpOK, Http!accept, Http!AnswersItsClient
<1> DEFINE c == Head(backlog)
<1>1. /\ Tail(backlog) \in Seq(Http!Client) /\ c \in Http!Client /\ InSeq(backlog, c)
      /\ \A d : InSeq(Tail(backlog), d) => InSeq(backlog, d)
  BY InTail
<1>2. /\ serving' \in Seq(Http!Client) /\ serving' # <<>> /\ Http!Last(serving') = c
      /\ \A d : InSeq(serving', d) <=> InSeq(serving, d) \/ d = c
  BY SMTT(20), <1>1, InAppended
<1>3. /\ c = backlog[1] /\ Len(backlog) \in Nat \ {0}
      /\ Len(Tail(backlog)) = Len(backlog) - 1
      /\ \A j \in 1..Len(Tail(backlog)) : Tail(backlog)[j] = backlog[j + 1]
  BY HeadTailProperties, EmptySeq
<1>4. ~InSeq(Tail(backlog), c)
  BY <1>3 DEF Waiting, InSeq
<1>5. \A j, k \in 1..Len(backlog') : backlog'[j] = backlog'[k] => j = k
  BY <1>3 DEF Waiting
<1>6. Waiting'
  BY <1>1, <1>2, <1>4, <1>5 DEF Waiting
<1>7. answer[c] = "none"
  BY <1>1 DEF Waiting
<1> QED
  BY <1>1, <1>2, <1>6, <1>7 DEF Http!Contains, InSeq

LEMMA HttpServe ==
    ASSUME HttpInv, program = "http", program' = program,
           \/ \E n \in 1..2 : Http!recv(n)
           \/ Http!send
           \/ Http!close_fd
    PROVE  HttpInv'
<1> USE DEF HttpInv, HttpOK, Http!AnswersItsClient
<1> DEFINE c == Http!Last(serving)
<1>1. c \in Http!Client /\ InSeq(serving, c)
  BY LastServed DEF Http!recv, Http!send, Http!close_fd
<1>2. ASSUME NEW n \in 1..2, Http!recv(n) PROVE HttpInv'
  BY <1>1, <1>2 DEF Http!recv, Waiting
<1>3. CASE Http!send
  <2>1. Waiting' /\ \A d \in Http!Client : d # c => answer'[d] = answer[d]
    BY <1>1, <1>3 DEF Http!send, Waiting
  <2>2. \/ answer'[c] = "none"
        \/ answer'[c] = IF path[c] = "/status" /\ taken[c] = 2 THEN "status" ELSE "hello"
    BY <1>1, <1>3 DEF Http!send, Http!handle_request
  <2>3. HttpOK'
    BY <1>1, <1>3 DEF Http!send, Http!handle_request
  <2>4. Http!AnswersItsClient'
    BY SMTT(20), <1>1, <1>3, <2>1, <2>2 DEF Http!send, Http!Contains, InSeq
  <2> QED
    BY <1>1, <1>3, <2>1, <2>3, <2>4 DEF Http!send, Waiting
<1>4. CASE Http!close_fd
  <2>1. Waiting' /\ \A d \in Http!Client : d # c => answer'[d] = answer[d]
    BY <1>1, <1>4 DEF Http!close_fd, Waiting
  <2>2. \/ answer'[c] = answer[c]
        \/ answer'[c] = "reset" /\ taken[c] < 2
    BY <1>1, <1>4 DEF Http!close_fd
  <2>3. HttpOK'
    BY <1>1, <1>4 DEF Http!close_fd
  <2>4. Http!AnswersItsClient'
    BY SMTT(20), <1>1, <1>4, <2>1, <2>2 DEF Http!close_fd, Http!Contains, InSeq
  <2> QED
    BY <1>1, <1>4, <2>1, <2>3, <2>4 DEF Http!close_fd, Waiting
<1> QED
  BY <1>2, <1>3, <1>4

LEMMA HttpStep ==
    ASSUME HttpInv, program = "http", program' = program, Http!Next
    PROVE  HttpInv'
<1>1. CASE Http!listen \/ Http!recv_nothing
  BY SMTT(20), <1>1 DEF Http!listen, Http!recv_nothing, Http!httpVars,
              HttpInv, HttpOK, Waiting, Http!AnswersItsClient
<1>2. ASSUME NEW c \in Http!Client, Http!Arrive(c) \/ Http!HangUp(c) PROVE HttpInv'
  <2>1. /\ UNCHANGED <<pc, serving, backlog, path, taken, answer>>
        /\ \A d \in Http!Client : client'[d] = "start" => client[d] = "start"
    BY <1>2 DEF Http!Arrive, Http!HangUp, HttpInv, HttpOK
  <2>2. CASE Http!Arrive(c)
    BY <2>1, <2>2 DEF Http!Arrive, HttpInv, HttpOK, Waiting, Http!AnswersItsClient
  <2>3. CASE Http!HangUp(c)
    BY <2>1, <2>3 DEF Http!HangUp, HttpInv, HttpOK, Waiting, Http!AnswersItsClient
  <2> QED
    BY <1>2, <2>2, <2>3
<1> QED
  BY <1>1, <1>2, HttpConnect, HttpAccept, HttpServe DEF Http!Next, Http!OwnStep, Http!ClientStep, Http!Client

(* Any number of clients, any of which may be silent or may hang up: who   *)
(* was read whole gets the answer to its own request, and nobody else's.   *)
THEOREM AnswersOwn == ProgramSpec => []ClientsAreAnswered
<1>1. ProgramInit => TcpInv /\ HttpInv
  <2> SUFFICES ASSUME ProgramInit PROVE TcpInv /\ HttpInv
    OBVIOUS
  <2>1. TcpInv
    BY DEF ProgramInit, Tcp!Init, TcpInv, Tcp!RepliesIfRead
  <2>2. HttpInv
    BY DEF ProgramInit, Http!Init, HttpInv, HttpOK, Waiting, InSeq, Http!AnswersItsClient
  <2> QED
    BY <2>1, <2>2
<1>2. TcpInv /\ HttpInv /\ [Step]_programVars => TcpInv' /\ HttpInv'
  <2> SUFFICES ASSUME TcpInv, HttpInv, [Step]_programVars PROVE TcpInv' /\ HttpInv'
    OBVIOUS
  <2>1. TcpInv'
    BY StepIsOne, TcpStep DEF TcpInv, Tcp!RepliesIfRead, tcp_
  <2>2. HttpInv'
    <3>1. CASE program = "http" /\ Http!Next
      BY <3>1, StepIsOne, HttpStep
    <3>2. CASE UNCHANGED http_ /\ (program = "http" => pc' = pc)
      BY <3>2, StepIsOne DEF HttpInv, HttpOK, Waiting, Http!AnswersItsClient, http_
    <3> QED
      BY <3>1, <3>2, StepIsOne DEF http_
  <2> QED
    BY <2>1, <2>2
<1>3. TcpInv /\ HttpInv => ClientsAreAnswered
  BY DEF TcpInv, HttpInv, ClientsAreAnswered
<1> QED
  BY <1>1, <1>2, <1>3, PTL DEF ProgramSpec

-----------------------------------------------------------------------------
(* pipe_demo and shared_memory_demo *)

(* A child that stores in order has stored the text before it says so.     *)
IpcInv ==
    /\ program # "ipc" => seen = "none"
    /\ ready \in BOOLEAN /\ inOrder \in BOOLEAN
    /\ program = "ipc" =>
           /\ pc \in {"start", "fork"} =>
                  child = "none" /\ seen = "none" /\ message = "" /\ ~ready
           /\ pc = "read" => demo = "pipe"
           /\ pc = "print" => demo = "shm" /\ ready
           /\ demo = "pipe" => message \in {"", "hello"}
           /\ demo = "shm" /\ ready /\ inOrder => message = "hello"
    /\ Ipc!ReadsWhole

LEMMA IpcStep ==
    ASSUME IpcInv, program = "ipc", program' = program, Ipc!Next
    PROVE  IpcInv'
<1> USE DEF IpcInv, Ipc!ReadsWhole, Ipc!ipcVars
<1>1. ASSUME NEW d \in {"pipe", "shm"}, Ipc!Prepare(d) PROVE IpcInv'
  BY <1>1 DEF Ipc!Prepare
<1>2. CASE Ipc!fork \/ Ipc!fork_fails \/ Ipc!CloseWriteEnd
  <2>1. CASE Ipc!fork
    BY <2>1 DEF Ipc!fork
  <2>2. CASE Ipc!fork_fails
    BY <2>2 DEF Ipc!fork_fails
  <2>3. CASE Ipc!CloseWriteEnd
    BY <2>3 DEF Ipc!CloseWriteEnd
  <2> QED
    BY <1>2, <2>1, <2>2, <2>3
<1>3. CASE Ipc!ReadPipe \/ Ipc!PollReady \/ Ipc!PrintText \/ Ipc!waitpid
  <2>1. CASE Ipc!ReadPipe
    BY <2>1 DEF Ipc!ReadPipe
  <2>2. CASE Ipc!PollReady
    BY <2>2 DEF Ipc!PollReady
  <2>3. CASE Ipc!PrintText
    BY <2>3 DEF Ipc!PrintText
  <2>4. CASE Ipc!waitpid
    BY <2>4 DEF Ipc!waitpid
  <2> QED
    BY <1>3, <2>1, <2>2, <2>3, <2>4
<1>4. CASE Ipc!ChildWrites \/ Ipc!ChildCloses
  BY <1>4 DEF Ipc!ChildWrites, Ipc!ChildCloses
<1>5. CASE Ipc!ChildStoresText \/ Ipc!ChildStoresReady \/ Ipc!ChildReturns
  <2>1. CASE Ipc!ChildStoresText
    BY <2>1 DEF Ipc!ChildStoresText
  <2>2. CASE Ipc!ChildStoresReady
    BY <2>2 DEF Ipc!ChildStoresReady, Ipc!ReadyDue
  <2>3. CASE Ipc!ChildReturns
    BY <2>3 DEF Ipc!ChildReturns
  <2> QED
    BY <1>5, <2>1, <2>2, <2>3
<1> QED
  BY <1>1, <1>2, <1>3, <1>4, <1>5 DEF Ipc!Next

LEMMA IpcAlways == ProgramSpec => []IpcInv
<1>1. ProgramInit => IpcInv
  BY DEF ProgramInit, Ipc!Init, IpcInv, Ipc!ReadsWhole
<1>2. ASSUME IpcInv, [Step]_programVars PROVE IpcInv'
  <2>1. CASE program = "ipc" /\ Ipc!Next
    BY <1>2, <2>1, StepIsOne, IpcStep
  <2>2. CASE UNCHANGED ipc_ /\ (program = "ipc" => pc' = pc)
    BY <1>2, <2>2, StepIsOne DEF IpcInv, Ipc!ReadsWhole, ipc_
  <2> QED
    BY <1>2, <2>1, <2>2, StepIsOne DEF ipc_
<1> QED
  BY <1>1, <1>2, PTL DEF ProgramSpec

-----------------------------------------------------------------------------
(* rtsp_ipwebcam_recorder *)

Members(s) == {s[j] : j \in 1..Len(s)}

Increases(s) == \A j, k \in 1..Len(s) : j < k => s[j] < s[k]

LEMMA LargerAppended ==
    ASSUME NEW s \in Seq(Nat), NEW x \in Nat, Increases(s), \A y \in Members(s) : y < x
    PROVE  /\ Append(s, x) \in Seq(Nat)
           /\ Increases(Append(s, x))
           /\ Members(Append(s, x)) = Members(s) \cup {x}
<1>1. /\ Append(s, x) \in Seq(Nat) /\ Len(s) \in Nat
      /\ Len(Append(s, x)) = Len(s) + 1
      /\ \A j \in 1..Len(s) : Append(s, x)[j] = s[j]
      /\ Append(s, x)[Len(s) + 1] = x
  BY AppendProperties
<1>2. Members(Append(s, x)) = Members(s) \cup {x}
  BY <1>1 DEF Members
<1>3. \A j \in 1..Len(s) : s[j] < x
  BY DEF Members
<1>4. Increases(Append(s, x))
  BY <1>1, <1>3 DEF Increases
<1> QED
  BY <1>1, <1>2, <1>4

LEMMA OneRemoved ==
    ASSUME NEW s \in Seq(Nat), NEW t \in Seq(Nat), t # <<>>, Increases(s \o t)
    PROVE  /\ Append(s, Head(t)) \o Tail(t) = s \o t
           /\ Increases(s \o Tail(t))
           /\ Members(s \o Tail(t)) = Members(s \o t) \ {Head(t)}
<1> DEFINE h == Head(t)
           r == Tail(t)
           file == s \o t
           rest == s \o r
<1>1. /\ h \in Nat /\ h = t[1] /\ r \in Seq(Nat)
      /\ Len(s) \in Nat /\ Len(t) \in Nat \ {0} /\ Len(r) = Len(t) - 1
      /\ \A j \in 1..Len(r) : r[j] = t[j + 1]
  BY HeadTailProperties, EmptySeq
<1>2. /\ file \in Seq(Nat) /\ Len(file) = Len(s) + Len(t)
      /\ \A j \in 1..Len(file) : file[j] = IF j <= Len(s) THEN s[j] ELSE t[j - Len(s)]
  BY ConcatProperties
<1>3. /\ rest \in Seq(Nat) /\ Len(rest) = Len(s) + Len(r)
      /\ \A j \in 1..Len(rest) : rest[j] = IF j <= Len(s) THEN s[j] ELSE r[j - Len(s)]
  BY <1>1, ConcatProperties
<1>4. Append(s, h) \o r = file
  <2> DEFINE more == Append(s, h)
  <2>1. /\ more \in Seq(Nat) /\ Len(more) = Len(s) + 1
        /\ \A j \in 1..Len(s) : more[j] = s[j]
        /\ more[Len(s) + 1] = h
    BY <1>1, AppendProperties
  <2>2. /\ more \o r \in Seq(Nat) /\ Len(more \o r) = Len(more) + Len(r)
        /\ \A j \in 1..Len(more \o r) : (more \o r)[j] = IF j <= Len(more) THEN more[j] ELSE r[j - Len(more)]
    BY <1>1, <2>1, ConcatProperties
  <2>3. Len(more \o r) = Len(file)
    BY <1>1, <1>2, <2>1, <2>2
  <2>4. ASSUME NEW j \in 1..Len(file) PROVE (more \o r)[j] = file[j]
    <3>1. CASE j <= Len(s)
      BY <1>1, <1>2, <2>1, <2>2, <2>3, <3>1
    <3>2. CASE j = Len(s) + 1
      BY <1>1, <1>2, <2>1, <2>2, <2>3, <3>2
    <3>3. CASE j > Len(s) + 1
      <4>1. (more \o r)[j] = r[j - Len(more)]
        BY <2>1, <2>2, <2>3, <3>3
      <4>2. j - Len(more) \in 1..Len(r)
        BY <1>1, <1>2, <2>1, <3>3
      <4>3. r[j - Len(more)] = t[j - Len(more) + 1]
        BY <1>1, <4>2
      <4>4. j - Len(more) + 1 = j - Len(s)
        BY <1>1, <2>1
      <4> QED
        BY <1>1, <1>2, <3>3, <4>1, <4>3, <4>4
    <3> QED
      BY SMTT(20), <1>1, <1>2, <3>1, <3>2, <3>3
  <2> HIDE DEF more
  <2>5. more \o r = file
    BY <1>2, <2>2, <2>3, <2>4, SeqEqual
  <2> QED
    BY <2>5 DEF more
<1>5. \A j \in 1..Len(rest) : rest[j] = file[IF j <= Len(s) THEN j ELSE j + 1]
  BY <1>1, <1>2, <1>3
<1>6. file[Len(s) + 1] = h
  BY <1>1, <1>2
<1>0. \A j, k \in 1..Len(file) : j < k => file[j] < file[k]
  BY DEF Increases
<1>9. Len(s) \in Nat /\ Len(rest) \in Nat /\ Len(s) <= Len(rest) /\ Len(file) = Len(rest) + 1
  BY <1>1, <1>2, <1>3
<1>10. \A j \in 1..Len(file) : file[j] \in Nat
  BY <1>2, ElementOfSeq
<1> HIDE DEF file, rest, h, r
<1>7. Increases(rest)
  <2> SUFFICES ASSUME NEW j \in 1..Len(rest), NEW k \in 1..Len(rest), j < k
               PROVE  rest[j] < rest[k]
    BY DEF Increases
  <2> DEFINE m == IF j <= Len(s) THEN j ELSE j + 1
             n == IF k <= Len(s) THEN k ELSE k + 1
  <2>1. m \in 1..Len(file) /\ n \in 1..Len(file) /\ m < n
    BY <1>9
  <2>2. rest[j] = file[m] /\ rest[k] = file[n]
    BY <1>5
  <2> HIDE DEF m, n
  <2> QED
    BY <1>0, <2>1, <2>2
<1>8. Members(rest) = Members(file) \ {h}
  <2>1. \A j \in 1..Len(file) : j # Len(s) + 1 => file[j] # h
    <3>1. Len(s) + 1 \in 1..Len(file) /\ \A j \in 1..Len(file) : file[j] \in Nat
      BY <1>9, <1>10
    <3>2. ASSUME NEW j \in 1..Len(file), j # Len(s) + 1 PROVE file[j] # file[Len(s) + 1]
      BY SMTT(20), <1>0, <1>9, <3>1, <3>2
    <3> QED
      BY <1>6, <3>2
  <2>2. ASSUME NEW x \in Members(rest) PROVE x \in Members(file) \ {h}
    <3>1. PICK j \in 1..Len(rest) : x = rest[j]
      BY DEF Members
    <3> DEFINE m == IF j <= Len(s) THEN j ELSE j + 1
    <3>2. m \in 1..Len(file) /\ m # Len(s) + 1
      BY <1>9
    <3>3. x = file[m]
      BY <1>5, <3>1
    <3> HIDE DEF m
    <3> QED
      BY <2>1, <3>2, <3>3 DEF Members
  <2>3. ASSUME NEW x \in Members(file) \ {h} PROVE x \in Members(rest)
    <3>1. PICK k \in 1..Len(file) : x = file[k] /\ k # Len(s) + 1
      BY <1>6 DEF Members
    <3> DEFINE j == IF k <= Len(s) THEN k ELSE k - 1
    <3>2. j \in 1..Len(rest) /\ k = IF j <= Len(s) THEN j ELSE j + 1
      BY <1>9, <3>1
    <3>3. rest[j] = file[k]
      BY <1>5, <3>2
    <3> HIDE DEF j
    <3> QED
      BY <3>1, <3>2, <3>3 DEF Members
  <2> QED
    BY <2>2, <2>3
<1> QED
  BY <1>4, <1>7, <1>8 DEF file, rest, h, r

(* The packets taken from the camera, one of which may not be counted yet. *)
Taken == IF pc = "drain" THEN video_packets + 1 ELSE video_packets

(* The filter hands out what it was given, in that order.                  *)
FilteredInOrder ==
    /\ raw_out \in Seq(Nat)
    /\ held \in Seq(Nat)
    /\ Increases(raw_out \o held)
    /\ Members(raw_out \o held) = (1..Taken) \ lost

(* The new JPEG files, and what the directory held above them.             *)
JpegsInOrder ==
    /\ DOMAIN jpegs = OldFrames \cup 0..(video_packets - 1)
    /\ \A f \in DOMAIN jpegs : jpegs[f] = IF f < video_packets THEN f + 1 ELSE Camera!Older

RecorderInv ==
    program = "recorder" =>
        /\ video_packets \in Nat
        /\ pc \in {"start", "output"} =>
               /\ held = <<>> /\ lost = {} /\ video_packets = 0
               /\ jpegs = [f \in OldFrames |-> Camera!Older]
        /\ saved # -1 => pc = "ended"
        /\ pc = "write" => packet = video_packets + 1
        /\ pc = "drain" => codec # "mjpeg"
        /\ pc \in {"loop", "read", "write", "drain", "close"} \/ saved # -1 =>
               IF codec = "mjpeg"
                   THEN JpegsInOrder
                   ELSE FilteredInOrder /\ lost \subseteq 1..Taken

LEMMA RecorderStep ==
    ASSUME RecorderInv, program = "recorder", program' = program, Camera!Next
    PROVE  RecorderInv'
<1> USE DEF RecorderInv
<1>1. CASE \E limit \in Limits, c \in {"other", "mjpeg", "h26x"} : Camera!open_input(limit, c)
  BY <1>1 DEF Camera!open_input
<1>2. CASE Camera!open_output
  <2>1. codec = "mjpeg" => JpegsInOrder'
    <3>1. jpegs' = [f \in OldFrames |-> Camera!Older] /\ video_packets' = 0
      BY <1>2 DEF Camera!open_output
    <3>2. 0..(0 - 1) = {}
      OBVIOUS
    <3> QED
      BY <3>1, <3>2, ProgramsAssumption DEF JpegsInOrder
  <2>2. codec # "mjpeg" => FilteredInOrder' /\ lost' \subseteq 1..Taken'
    <3>1. <<>> \o <<>> = <<>> /\ <<>> \in Seq(Nat) /\ Len(<<>>) = 0
      BY ConcatEmptySeq, EmptySeq
    <3>2. Increases(<<>>) /\ Members(<<>>) = {}
      BY <3>1 DEF Increases, Members
    <3> QED
      BY <1>2, <3>1, <3>2 DEF Camera!open_output, FilteredInOrder, Taken
  <2> QED
    BY <1>2, <2>1, <2>2 DEF Camera!open_output
<1>3. CASE Camera!CheckRunning \/ Camera!read_stops \/ Camera!close_and_print
  BY <1>3 DEF Camera!CheckRunning, Camera!read_stops, Camera!close_and_print, Camera!recorderVars,
              FilteredInOrder, JpegsInOrder, Taken
<1>4. CASE Camera!CameraSends
  BY <1>4 DEF Camera!CameraSends, Camera!av_read_frame, Camera!IsVideo, FilteredInOrder, JpegsInOrder, Taken
<1>5. CASE Camera!av_bsf_send_packet
  <2>1. /\ FilteredInOrder /\ lost \subseteq 1..video_packets
        /\ Taken = video_packets /\ video_packets \in Nat
    BY <1>5 DEF Camera!av_bsf_send_packet, Taken
  <2>2. /\ packet = video_packets + 1 /\ packet \in Nat
        /\ held' = Append(held, packet) /\ raw_out' = raw_out /\ lost' = lost
        /\ Taken' = video_packets + 1 /\ pc' = "drain" /\ codec' # "mjpeg"
        /\ video_packets' = video_packets /\ saved = -1 /\ saved' = -1
    BY <1>5 DEF Camera!av_bsf_send_packet, Taken
  <2> DEFINE file == raw_out \o held
  <2>3. file \in Seq(Nat) /\ \A y \in Members(file) : y < packet
    BY <2>1, <2>2, ConcatProperties DEF FilteredInOrder
  <2>4. raw_out' \o held' = Append(file, packet) /\ held' \in Seq(Nat)
    <3>1. held' = held \o <<packet>> /\ <<packet>> \in Seq(Nat) /\ held' \in Seq(Nat)
      BY <2>1, <2>2, AppendIsConcat, AppendProperties DEF FilteredInOrder
    <3>2. raw_out \o (held \o <<packet>>) = (raw_out \o held) \o <<packet>>
      BY <2>1, <3>1, ConcatAssociative DEF FilteredInOrder
    <3>3. (raw_out \o held) \o <<packet>> = Append(raw_out \o held, packet)
      BY <2>2, <2>3, AppendIsConcat
    <3> QED
      BY <2>2, <3>1, <3>2, <3>3
  <2> HIDE DEF file
  <2>5. /\ Increases(Append(file, packet))
        /\ Members(Append(file, packet)) = Members(file) \cup {packet}
    BY <2>1, <2>2, <2>3, LargerAppended DEF FilteredInOrder, file
  <2>6. Members(raw_out' \o held') = (1..Taken') \ lost'
    <3>1. Members(file) = (1..video_packets) \ lost
      BY <2>1 DEF FilteredInOrder, file
    <3>2. (1..video_packets) \cup {packet} = 1..Taken'
      BY <2>1, <2>2
    <3>3. packet \notin lost
      BY <2>1, <2>2
    <3> QED
      BY <2>2, <2>4, <2>5, <3>1, <3>2, <3>3
  <2>7. FilteredInOrder' /\ lost' \subseteq 1..Taken'
    <3>1. raw_out' \in Seq(Nat)
      BY <2>1, <2>2 DEF FilteredInOrder
    <3>2. lost' \subseteq 1..Taken'
      BY <2>1, <2>2
    <3> QED
      BY <2>4, <2>5, <2>6, <3>1, <3>2 DEF FilteredInOrder
  <2> QED
    BY <2>2, <2>7
<1>6. ASSUME NEW written \in {"whole", "part", "nothing"}, Camera!receive_and_fwrite(written)
      PROVE  RecorderInv'
  <2>1. /\ FilteredInOrder /\ lost \subseteq 1..Taken /\ held # <<>> /\ held' = Tail(held)
        /\ Taken' = Taken /\ pc' = pc /\ pc = "drain"
        /\ UNCHANGED <<codec, video_packets, saved>>
    BY <1>6 DEF Camera!receive_and_fwrite, Taken
  <2> DEFINE h == Head(held)
  <2>2. h \in Nat /\ Tail(held) \in Seq(Nat)
    BY <2>1, HeadTailProperties DEF FilteredInOrder
  <2>3. /\ Append(raw_out, h) \o Tail(held) = raw_out \o held
        /\ Increases(raw_out \o Tail(held))
        /\ Members(raw_out \o Tail(held)) = Members(raw_out \o held) \ {h}
    BY <2>1, OneRemoved DEF FilteredInOrder
  <2>4. h \in 1..Taken
    <3>1. raw_out \in Seq(Nat) /\ held \in Seq(Nat) /\ Len(raw_out) \in Nat /\ Len(held) \in Nat \ {0}
      BY <2>1, EmptySeq DEF FilteredInOrder
    <3>2. (raw_out \o held)[Len(raw_out) + 1] = h /\ Len(raw_out) + 1 \in 1..Len(raw_out \o held)
      BY <3>1, ConcatProperties
    <3> QED
      BY <2>1, <3>2 DEF FilteredInOrder, Members
  <2> HIDE DEF h
  <2>5. CASE written # "nothing"
    <3>1. raw_out' = Append(raw_out, h) /\ lost' = lost
      BY <1>6, <2>5 DEF Camera!receive_and_fwrite, h
    <3>2. raw_out' \o held' = raw_out \o held
      BY <2>1, <2>3, <3>1
    <3>3. raw_out' \in Seq(Nat)
      BY <2>1, <2>2, <3>1, AppendProperties DEF FilteredInOrder
    <3>4. FilteredInOrder' /\ lost' \subseteq 1..Taken'
      BY <2>1, <2>2, <3>1, <3>2, <3>3 DEF FilteredInOrder
    <3> QED
      BY <2>1, <3>4
  <2>6. CASE written = "nothing"
    <3>1. raw_out' = raw_out /\ lost' = lost \cup {h}
      BY <1>6, <2>6 DEF Camera!receive_and_fwrite, h
    <3>2. FilteredInOrder' /\ lost' \subseteq 1..Taken'
      BY <2>1, <2>2, <2>3, <2>4, <3>1 DEF FilteredInOrder
    <3> QED
      BY <2>1, <3>2
  <2> QED
    BY <2>5, <2>6
<1>7. CASE Camera!drained
  BY <1>7 DEF Camera!drained, FilteredInOrder, Taken
<1>8. ASSUME NEW written \in {"whole", "part"}, Camera!write_jpeg_packet(written) PROVE RecorderInv'
  <2>1. /\ JpegsInOrder /\ packet = video_packets + 1 /\ codec = "mjpeg"
        /\ jpegs' = [f \in DOMAIN jpegs \cup {video_packets} |->
                        IF f = video_packets THEN packet ELSE jpegs[f]]
        /\ video_packets' = video_packets + 1 /\ pc' = "loop" /\ codec' = codec
        /\ pc = "write" /\ saved' = saved /\ video_packets \in Nat
    BY <1>8 DEF Camera!write_jpeg_packet, Camera!JpegWritten
  <2>2. DOMAIN jpegs' = OldFrames \cup 0..(video_packets' - 1)
    <3>1. 0..(video_packets - 1) \cup {video_packets} = 0..(video_packets' - 1)
      BY <2>1
    <3> QED
      BY <2>1, <3>1 DEF JpegsInOrder
  <2>3. ASSUME NEW f \in DOMAIN jpegs'
        PROVE  jpegs'[f] = IF f < video_packets' THEN f + 1 ELSE Camera!Older
    <3>1. f \in Int
      <4>1. f \in OldFrames \/ f \in 0..(video_packets' - 1)
        BY <2>2
      <4>2. OldFrames \subseteq Int
        BY ProgramsAssumption
      <4>3. 0..(video_packets' - 1) \subseteq Int
        BY <2>1
      <4> QED
        BY <4>1, <4>2, <4>3
    <3>2. f # video_packets => f \in DOMAIN jpegs
      BY <2>1
    <3> QED
      BY <2>1, <3>1, <3>2 DEF JpegsInOrder
  <2>4. JpegsInOrder'
    BY <2>2, <2>3 DEF JpegsInOrder, Camera!Older
  <2> QED
    BY <2>1, <2>4
<1>9. CASE Camera!jpeg_write_throws
  BY <1>9 DEF Camera!jpeg_write_throws, Camera!JpegWritten
<1>10. ASSUME NEW place \in {"start", "output", "write", "drain"}, Camera!Throws(place) PROVE RecorderInv'
  BY <1>10 DEF Camera!Throws, Camera!recorderVars
<1>11. CASE Camera!signal_handler
  BY <1>11 DEF Camera!signal_handler, FilteredInOrder, JpegsInOrder, Taken
<1> QED
  BY <1>1, <1>2, <1>3, <1>4, <1>5, <1>6, <1>7, <1>8, <1>9, <1>10, <1>11 DEF Camera!Next, Camera!OwnStep

(* For any limit and without one, any number of packets, of whatever       *)
(* streams, a filter that keeps back any number of them, writes that stop  *)
(* short, and any JPEG files from before: the output is what was counted,  *)
(* in its order, with only the older files of higher numbers beside it.    *)
THEOREM RecordsInOrder == ProgramSpec => []FileIsInOrder
<1>1. ProgramInit => RecorderInv
  BY DEF ProgramInit, Camera!Init, RecorderInv
<1>2. RecorderInv /\ [Step]_programVars => RecorderInv'
  <2> SUFFICES ASSUME RecorderInv, [Step]_programVars PROVE RecorderInv'
    OBVIOUS
  <2>1. CASE program = "recorder" /\ Camera!Next
    BY <2>1, StepIsOne, RecorderStep
  <2>2. CASE UNCHANGED recorder_ /\ (program = "recorder" => pc' = pc)
    BY <2>2, StepIsOne DEF RecorderInv, FilteredInOrder, JpegsInOrder, Taken, recorder_
  <2> QED
    BY <2>1, <2>2, StepIsOne DEF recorder_
<1>3. RecorderInv => FileIsInOrder
  <2> SUFFICES ASSUME RecorderInv, program = "recorder", pc \in {"loop", "read", "close"} \/ saved # -1,
                      codec # "mjpeg"
               PROVE  /\ Members(raw_out \o held) = (1..video_packets) \ lost
                      /\ Increases(raw_out \o held)
                      /\ DOMAIN (raw_out \o held) = 1..Len(raw_out \o held)
    BY DEF FileIsInOrder, Camera!FileIsInOrder, Members, Increases, RecorderInv, JpegsInOrder
  <2>1. FilteredInOrder /\ Taken = video_packets
    BY DEF RecorderInv, Taken
  <2>2. raw_out \o held \in Seq(Nat)
    BY <2>1, ConcatProperties DEF FilteredInOrder
  <2> QED
    BY <2>1, <2>2, LenProperties DEF FilteredInOrder
<1> QED
  BY <1>1, <1>2, <1>3, PTL DEF ProgramSpec

-----------------------------------------------------------------------------
(* stage_09_sqlite3 *)

LEMMA SameCardinality == \A S : Samples!Cardinality(S) = Cardinality(S)
BY DEF Cardinality, Samples!Cardinality

Row == [id : Nat, run : Nat, n : Nat]

(* The table holds what this run inserted, from the DELETE on.             *)
RowsAreOfThisRun ==
    /\ samples \in Seq(Row)
    /\ \A j \in 1..Len(samples) :
           /\ samples[j].run = run
           /\ samples[j].n \in (1..inserted) \ refused
           /\ samples[j].id <= lastId
    /\ \A j, k \in 1..Len(samples) :
           j < k => samples[j].n < samples[k].n /\ samples[j].id < samples[k].id
    /\ Len(samples) + Cardinality(refused) = inserted

PrintsFromFront ==
    /\ rows \in Seq(Row)
    /\ Len(rows) <= Len(samples)
    /\ \A j \in 1..Len(rows) : rows[j] = samples[j]

StoreInv ==
    /\ run \in Nat /\ lastId \in Nat /\ inserted \in Nat
    /\ refused \subseteq 1..inserted
    /\ program = "store" =>
           /\ pc \in {"start", "create", "delete", "insert"} => rows = <<>>
           /\ pc \in {"start", "create", "delete"} => inserted = 0
           /\ pc \in {"insert", "query", "finished"} => RowsAreOfThisRun
           /\ pc \in {"query", "finished"} => inserted = 3 /\ PrintsFromFront
           /\ pc = "finished" => Len(rows) = Len(samples)
    /\ ShowsThisRun

LEMMA StoreInserts ==
    ASSUME StoreInv, program = "store", program' = program,
           NEW ok \in BOOLEAN, Samples!insert_sample(ok)
    PROVE  StoreInv'
<1> USE DEF StoreInv
<1>1. /\ pc = "insert" /\ pc' = pc /\ inserted' = inserted + 1 /\ rows = <<>> /\ rows' = rows
      /\ run' = run /\ inserted \in Nat /\ lastId \in Nat /\ run \in Nat
      /\ RowsAreOfThisRun
  BY DEF Samples!insert_sample
<1>2. IsFiniteSet(1..inserted) /\ IsFiniteSet(refused) /\ Cardinality(refused) \in Nat
  <2>1. IsFiniteSet(1..inserted)
    BY <1>1, FS_Interval
  <2> QED
    BY <2>1, FS_Subset, FS_CardinalityType
<1>3. refused' \subseteq 1..inserted' /\ lastId' \in Nat
  <2>1. 1..inserted \subseteq 1..inserted' /\ inserted' \in 1..inserted'
    BY <1>1
  <2>2. CASE ok
    <3>1. lastId' = lastId + 1 /\ refused' = refused
      BY <2>2 DEF Samples!insert_sample
    <3> QED
      BY <1>1, <2>1, <3>1
  <2>3. CASE ~ok
    BY <1>1, <2>1, <2>3 DEF Samples!insert_sample
  <2> QED
    BY <2>2, <2>3
<1>4. RowsAreOfThisRun'
  <2>1. CASE ok
    <3> DEFINE new == [id |-> lastId + 1, run |-> run, n |-> inserted + 1]
    <3>1. samples' = Append(samples, new) /\ lastId' = lastId + 1 /\ refused' = refused
      BY <1>1, <2>1 DEF Samples!insert_sample
    <3>2. /\ new \in Row /\ new.id = lastId + 1 /\ new.run = run /\ new.n = inserted + 1
          /\ inserted + 1 \notin refused
      BY <1>1 DEF Row
    <3> HIDE DEF new
    <3>3. /\ samples \in Seq(Row) /\ samples' \in Seq(Row) /\ Len(samples) \in Nat
          /\ Len(samples') = Len(samples) + 1
          /\ \A j \in 1..Len(samples) : samples'[j] = samples[j] /\ samples[j] \in Row
          /\ samples'[Len(samples) + 1] = new
      BY <1>1, <3>1, <3>2, AppendProperties, ElementOfSeq DEF RowsAreOfThisRun
    <3>4. ASSUME NEW j \in 1..Len(samples')
          PROVE  /\ samples'[j].run = run /\ samples'[j].n \in (1..inserted') \ refused'
                 /\ samples'[j].id <= lastId'
      <4>1. CASE j \in 1..Len(samples)
        <5>1. /\ samples[j].run = run /\ samples[j].n \in (1..inserted) \ refused
              /\ samples[j].id <= lastId /\ samples[j].id \in Nat
          BY <1>1, <3>3, <4>1 DEF RowsAreOfThisRun, Row
        <5> QED
          BY <1>1, <3>1, <3>3, <4>1, <5>1
      <4>2. CASE j = Len(samples) + 1
        BY <1>1, <3>1, <3>2, <3>3, <4>2
      <4> QED
        BY <3>3, <4>1, <4>2
    <3>5. ASSUME NEW j \in 1..Len(samples'), NEW k \in 1..Len(samples'), j < k
          PROVE  samples'[j].n < samples'[k].n /\ samples'[j].id < samples'[k].id
      <4>1. j \in 1..Len(samples)
        BY <3>3, <3>5
      <4>2. CASE k \in 1..Len(samples)
        BY <1>1, <3>3, <3>5, <4>1, <4>2 DEF RowsAreOfThisRun
      <4>3. CASE k = Len(samples) + 1
        <5>1. samples[j].n \in 1..inserted /\ samples[j].id <= lastId /\ samples[j] \in Row
          BY <1>1, <3>3, <4>1 DEF RowsAreOfThisRun
        <5> QED
          <6>1. samples[j].id \in Nat
            BY <5>1 DEF Row
          <6>2. samples'[j] = samples[j] /\ samples'[k] = new
            BY <3>3, <4>1, <4>3
          <6> QED
            BY SMTT(20), <1>1, <3>2, <5>1, <6>1, <6>2
      <4> QED
        BY <3>3, <4>2, <4>3
    <3>6. Len(samples') + Cardinality(refused') = inserted'
      <4>1. Len(samples) + Cardinality(refused) = inserted
        BY <1>1 DEF RowsAreOfThisRun
      <4> QED
        BY <1>1, <1>2, <3>1, <3>3, <4>1
    <3> QED
      BY <1>1, <3>3, <3>4, <3>5, <3>6 DEF RowsAreOfThisRun
  <2>2. CASE ~ok
    <3>1. samples' = samples /\ lastId' = lastId /\ refused' = refused \cup {inserted + 1}
      BY <1>1, <2>2 DEF Samples!insert_sample
    <3>2. inserted + 1 \notin refused
      BY <1>1
    <3>3. Cardinality(refused') = Cardinality(refused) + 1
      BY <1>2, <3>1, <3>2, FS_AddElement
    <3>4. \A j \in 1..Len(samples) : samples[j].n \in (1..inserted') \ refused'
      BY <1>1, <3>1 DEF RowsAreOfThisRun
    <3>5. Len(samples) \in Nat
      BY <1>1 DEF RowsAreOfThisRun
    <3> QED
      BY <1>1, <1>2, <3>1, <3>3, <3>4, <3>5 DEF RowsAreOfThisRun
  <2> QED
    BY <2>1, <2>2
<1>5. ShowsThisRun'
  BY <1>1 DEF ShowsThisRun, Samples!ShowsThisRun
<1> QED
  BY <1>1, <1>3, <1>4, <1>5

LEMMA StoreQueries ==
    ASSUME StoreInv, program = "store", program' = program,
           Samples!prepare_query \/ Samples!query_row \/ Samples!query_done
    PROVE  StoreInv'
<1> USE DEF StoreInv, Samples!storeVars
<1>1. CASE Samples!prepare_query
  <2>1. PrintsFromFront'
    <3>1. rows' = <<>> /\ Len(rows') = 0 /\ rows' \in Seq(Row)
      BY <1>1, EmptySeq DEF Samples!prepare_query
    <3>2. samples' \in Seq(Row) /\ Len(samples') \in Nat
      BY <1>1 DEF Samples!prepare_query, RowsAreOfThisRun
    <3> QED
      BY <3>1, <3>2 DEF PrintsFromFront
  <2> QED
    BY <1>1, <2>1 DEF Samples!prepare_query, RowsAreOfThisRun, ShowsThisRun, Samples!ShowsThisRun
<1>2. CASE Samples!query_row
  <2>1. /\ pc = "query" /\ RowsAreOfThisRun /\ PrintsFromFront /\ Len(rows) < Len(samples)
        /\ rows' = Append(rows, samples[Len(rows) + 1])
        /\ UNCHANGED <<pc, run, exists, samples, lastId, inserted, refused>>
    BY <1>2 DEF Samples!query_row
  <2>2. /\ Len(rows) \in Nat /\ Len(samples) \in Nat /\ samples[Len(rows) + 1] \in Row
        /\ rows \in Seq(Row) /\ samples \in Seq(Row)
    BY <2>1, ElementOfSeq DEF RowsAreOfThisRun, PrintsFromFront
  <2>3. /\ rows' \in Seq(Row) /\ Len(rows') = Len(rows) + 1
        /\ \A j \in 1..Len(rows) : rows'[j] = rows[j]
        /\ rows'[Len(rows) + 1] = samples[Len(rows) + 1]
    BY <2>1, <2>2, AppendProperties
  <2>4. \A j \in 1..Len(rows') : rows'[j] = samples[j]
    BY <2>1, <2>2, <2>3 DEF PrintsFromFront
  <2>5. PrintsFromFront' /\ RowsAreOfThisRun'
    BY <2>1, <2>2, <2>3, <2>4 DEF PrintsFromFront, RowsAreOfThisRun
  <2>6. DOMAIN rows' = 1..Len(rows')
    BY <2>3, LenProperties
  <2>7. ShowsThisRun'
    <3>1. /\ \A j \in DOMAIN rows' : rows'[j] = samples'[j] /\ j \in 1..Len(samples')
          /\ pc' # "finished"
      BY <2>1, <2>2, <2>3, <2>4, <2>6
    <3> QED
      BY <2>5, <3>1 DEF ShowsThisRun, Samples!ShowsThisRun, RowsAreOfThisRun
  <2> QED
    BY <2>1, <2>5, <2>7
<1>3. CASE Samples!query_done
  <2>1. pc = "query" /\ pc' = "finished" /\ Len(rows) = Len(samples) /\ UNCHANGED Samples!storeVars
    BY <1>3 DEF Samples!query_done
  <2>2. Len(rows') + Cardinality(refused') = 3
    BY <2>1 DEF RowsAreOfThisRun
  <2>3. ShowsThisRun'
    <3>1. UNCHANGED <<run, refused, rows>>
      BY <2>1
    <3>2. /\ \A j \in DOMAIN rows : rows[j].run = run /\ rows[j].n \notin refused
          /\ \A j, k \in DOMAIN rows : j < k => rows[j].n < rows[k].n /\ rows[j].id < rows[k].id
      BY DEF ShowsThisRun, Samples!ShowsThisRun
    <3>3. /\ \A j \in DOMAIN rows' : rows'[j].run = run' /\ rows'[j].n \notin refused'
          /\ \A j, k \in DOMAIN rows' : j < k => rows'[j].n < rows'[k].n /\ rows'[j].id < rows'[k].id
      BY <3>1, <3>2
    <3> QED
      BY <2>2, <3>3, SameCardinality DEF ShowsThisRun, Samples!ShowsThisRun
  <2> QED
    BY <2>1, <2>3 DEF RowsAreOfThisRun, PrintsFromFront
<1> QED
  BY <1>1, <1>2, <1>3

LEMMA StoreStep ==
    ASSUME StoreInv, program = "store", program' = program, Samples!Next
    PROVE  StoreInv'
<1> USE DEF StoreInv, Samples!storeVars
<1>1. CASE Samples!open_database \/ Samples!create_table
  BY <1>1 DEF Samples!open_database, Samples!create_table, ShowsThisRun, Samples!ShowsThisRun
<1>2. CASE Samples!delete_samples
  <2>1. samples' = <<>> /\ refused' = {} /\ inserted' = 0 /\ run' = run
    BY <1>2 DEF Samples!delete_samples, Samples!DeletesRows
  <2>2. RowsAreOfThisRun'
    BY <2>1, EmptySeq, FS_EmptySet DEF RowsAreOfThisRun
  <2> QED
    BY <1>2, <2>1, <2>2 DEF Samples!delete_samples, ShowsThisRun, Samples!ShowsThisRun
<1>3. ASSUME NEW place \in {"start", "create", "delete", "query", "finished"}, Samples!Fails(place)
      PROVE  StoreInv'
  BY <1>3 DEF Samples!Fails, ShowsThisRun, Samples!ShowsThisRun
<1>4. CASE Samples!StartAgain
  BY <1>4 DEF Samples!StartAgain, ShowsThisRun, Samples!ShowsThisRun
<1> QED
  BY <1>1, <1>2, <1>3, <1>4, StoreInserts, StoreQueries DEF Samples!Next, Samples!OwnStep, Samples!close_database

(* However often the program is killed and started again: what a run       *)
(* prints are its own rows, each once and in their order.                  *)
THEOREM PrintsOwnRows == ProgramSpec => []ShowsThisRun
<1>1. ProgramInit => StoreInv
  BY DEF ProgramInit, Samples!Init, StoreInv, ShowsThisRun, Samples!ShowsThisRun
<1>2. StoreInv /\ [Step]_programVars => StoreInv'
  <2> SUFFICES ASSUME StoreInv, [Step]_programVars PROVE StoreInv'
    OBVIOUS
  <2>1. CASE program = "store" /\ Samples!Next
    BY <2>1, StepIsOne, StoreStep
  <2>2. CASE UNCHANGED store_ /\ (program = "store" => pc' = pc)
    <3>1. CASE program = "store"
      BY <2>2, <3>1, StepIsOne
         DEF StoreInv, RowsAreOfThisRun, PrintsFromFront, ShowsThisRun, Samples!ShowsThisRun, store_
    <3>2. CASE program # "store"
      BY <2>2, <3>2, StepIsOne DEF StoreInv, ShowsThisRun, Samples!ShowsThisRun, store_
    <3> QED
      BY <3>1, <3>2
  <2> QED
    BY <2>1, <2>2, StepIsOne DEF store_
<1>3. StoreInv => ShowsThisRun
  BY DEF StoreInv
<1> QED
  BY <1>1, <1>2, <1>3, PTL DEF ProgramSpec

-----------------------------------------------------------------------------
(* pthread_demo *)

Critical == {"load", "store", "unlock"}

(* Thread t has done its turn n. *)
Turns == {x \in Thread \X (1..LOOP_COUNT) : x[2] <= i[x[1]]}

ThreadsTypeOK ==
    /\ pc \in {"start", "join", "returned", "ended"}
    /\ ids \in [Thread -> Int]
    /\ created \in 0..THREAD_COUNT
    /\ at \in [Thread -> {"none", "begin", "loop", "done"} \cup Critical]
    /\ i \in [Thread -> 0..LOOP_COUNT]
    /\ id \in [Thread -> Int]
    /\ loaded \in [Thread -> Int]
    /\ g_counter \in Nat
    /\ g_mutex \in Thread \cup {Nobody}
    /\ printed \in Int

(* The mutex belongs to the one thread that is between lock and unlock. *)
MutualExclusion == \A t \in Thread : at[t] \in Critical <=> g_mutex = t

(* What is loaded is still true when it is stored. *)
LoadIsFresh == \A t \in Thread : at[t] = "store" => loaded[t] = g_counter

TurnsAreCounted ==
    /\ g_counter = Cardinality(Turns)
    /\ \A t \in Thread :
        /\ at[t] \in {"load", "store"} => i[t] < LOOP_COUNT
        /\ at[t] = "done" => i[t] = LOOP_COUNT

(* A thread that main has still to create does not run. *)
RestIsToCome == pc = "start" => \A t \in Thread : t >= created => at[t] = "none"

(* The array holds the number of every thread that runs, until main has    *)
(* returned.                                                               *)
ArgumentsStand == pc \in {"start", "join"} => \A t \in Thread : at[t] # "none" => ids[t] = t

JoinedAreDone == pc = "join" => \A t \in Thread : t < created => at[t] = "done"

PrintsLast == printed # -1 => pc = "ended"

ThreadsInv ==
    /\ ThreadsTypeOK
    /\ MutualExclusion
    /\ LoadIsFresh
    /\ TurnsAreCounted
    /\ RestIsToCome
    /\ ArgumentsStand
    /\ JoinedAreDone
    /\ PrintsLast
    /\ CounterIsExact

LEMMA AllTurns ==
    /\ IsFiniteSet(Thread \X (1..LOOP_COUNT))
    /\ Cardinality(Thread \X (1..LOOP_COUNT)) = THREAD_COUNT * LOOP_COUNT
<1>1. IsFiniteSet(Thread) /\ Cardinality(Thread) = THREAD_COUNT
  <2>1. 0 \in Int /\ THREAD_COUNT - 1 \in Int
    BY CountsAssumption
  <2>2. IsFiniteSet(0..(THREAD_COUNT - 1))
        /\ Cardinality(0..(THREAD_COUNT - 1)) = IF 0 > THREAD_COUNT - 1 THEN 0 ELSE (THREAD_COUNT - 1) - 0 + 1
    BY <2>1, FS_Interval, Zenon
  <2> QED
    BY <2>2, CountsAssumption DEF Thread
<1>2. IsFiniteSet(1..LOOP_COUNT) /\ Cardinality(1..LOOP_COUNT) = LOOP_COUNT
  <2>1. 1 \in Int /\ LOOP_COUNT \in Int
    BY CountsAssumption
  <2>2. IsFiniteSet(1..LOOP_COUNT)
        /\ Cardinality(1..LOOP_COUNT) = IF 1 > LOOP_COUNT THEN 0 ELSE LOOP_COUNT - 1 + 1
    BY <2>1, FS_Interval, Zenon
  <2> QED
    BY <2>2, CountsAssumption
<1> QED
  BY <1>1, <1>2, FS_Product

LEMMA TurnsFinite == IsFiniteSet(Turns)
BY AllTurns, FS_Subset DEF Turns

LEMMA ThreadsInitInv == Init => ThreadsInv
<1> SUFFICES ASSUME Init PROVE ThreadsInv
  OBVIOUS
<1> USE CountsAssumption DEF Init
<1>1. ThreadsTypeOK
  BY DEF ThreadsTypeOK, Thread, Nobody, Garbage
<1>2. Turns = {}
  BY DEF Turns
<1>3. g_counter = Cardinality(Turns)
  BY <1>2, FS_EmptySet
<1> QED
  BY <1>1, <1>3 DEF ThreadsInv, MutualExclusion, LoadIsFresh, TurnsAreCounted, RestIsToCome, ArgumentsStand,
                    JoinedAreDone, PrintsLast, CounterIsExact, Critical, Nobody, Thread

(* The steps of main. *)
LEMMA MainKeepsInv ==
    ASSUME ThreadsInv, pthread_create \/ create_fails \/ process_ends \/ all_created \/ pthread_join
    PROVE  ThreadsInv'
<1> USE CountsAssumption DEF ThreadsInv
<1>0. i' = i /\ g_counter' = g_counter /\ Turns' = Turns /\ printed' = printed
  BY DEF pthread_create, create_fails, process_ends, all_created, pthread_join, threadVars, Turns
<1>1. ThreadsTypeOK'
  <2>1. CASE pthread_create
    <3>1. created \in Thread /\ created' \in 0..THREAD_COUNT
      BY <2>1 DEF pthread_create, ThreadsTypeOK, Thread
    <3> QED
      BY <2>1, <3>1 DEF pthread_create, ThreadsTypeOK
  <2>2. CASE create_fails
    <3>1. created \in Thread /\ created \in Int
      BY <2>2 DEF create_fails, ThreadsTypeOK, Thread
    <3> QED
      BY <2>2, <3>1 DEF create_fails, ThreadsTypeOK
  <2>3. CASE all_created
    BY <2>3 DEF all_created, ThreadsTypeOK
  <2>4. CASE pthread_join
    BY <2>4 DEF pthread_join, MoreToJoin, ThreadsTypeOK
  <2>5. CASE process_ends
    BY <2>5 DEF process_ends, threadVars, ThreadsTypeOK
  <2> QED
    BY <2>1, <2>2, <2>3, <2>4, <2>5
<1>6. PrintsLast'
  BY <1>0 DEF PrintsLast, pthread_create, create_fails, process_ends, all_created, pthread_join
<1>2. CASE pthread_create
  <2>0. at[created] = "none"
    BY <1>2 DEF pthread_create, RestIsToCome, ThreadsTypeOK, Thread
  <2>1. MutualExclusion'
    BY <1>2, <2>0 DEF pthread_create, MutualExclusion, ThreadsTypeOK, Critical
  <2>2. LoadIsFresh' /\ TurnsAreCounted'
    BY <1>0, <1>2 DEF pthread_create, LoadIsFresh, TurnsAreCounted, ThreadsTypeOK
  <2>3. RestIsToCome' /\ JoinedAreDone' /\ CounterIsExact'
    BY <1>0, <1>2 DEF pthread_create, RestIsToCome, JoinedAreDone, CounterIsExact, ThreadsTypeOK, Thread
  <2>4. ArgumentsStand'
    BY <1>2 DEF pthread_create, ArgumentsStand, ThreadsTypeOK
  <2> QED
    BY <1>1, <1>6, <1>2, <2>1, <2>2, <2>3, <2>4 DEF ThreadsInv
<1>3. CASE create_fails \/ process_ends
  BY <1>0, <1>1, <1>6, <1>3 DEF create_fails, process_ends, threadVars, MutualExclusion, LoadIsFresh, TurnsAreCounted,
                          RestIsToCome, ArgumentsStand, JoinedAreDone, PrintsLast, CounterIsExact, ThreadsTypeOK
<1>4. CASE all_created
  BY <1>0, <1>1, <1>6, <1>4 DEF all_created, MutualExclusion, LoadIsFresh, TurnsAreCounted, RestIsToCome, ArgumentsStand,
                          JoinedAreDone, CounterIsExact, Thread
<1>5. CASE pthread_join
  BY <1>0, <1>1, <1>6, <1>5 DEF pthread_join, MutualExclusion, LoadIsFresh, TurnsAreCounted, RestIsToCome, ArgumentsStand,
                          JoinedAreDone, CounterIsExact, Thread, ThreadsTypeOK
<1> QED
  BY <1>2, <1>3, <1>4, <1>5

(* What main prints. *)
LEMMA PrintKeepsInv ==
    ASSUME ThreadsInv, print_counter
    PROVE  ThreadsInv'
<1> USE CountsAssumption DEF ThreadsInv
<1>1. \A t \in Thread : at[t] = "done"
  BY DEF print_counter, MoreToJoin, RestIsToCome, JoinedAreDone, ThreadsTypeOK, Thread
<1>2. Turns = Thread \X (1..LOOP_COUNT)
  BY <1>1 DEF Turns, TurnsAreCounted
<1>3. printed' = THREAD_COUNT * LOOP_COUNT
  BY <1>2, AllTurns DEF print_counter, TurnsAreCounted
<1>4. ThreadsTypeOK'
  BY DEF print_counter, ThreadsTypeOK
<1>5. Turns' = Turns
  BY DEF print_counter, Turns
<1> QED
  BY <1>3, <1>4, <1>5 DEF print_counter, MutualExclusion, LoadIsFresh, TurnsAreCounted, RestIsToCome, ArgumentsStand,
                                JoinedAreDone, PrintsLast, CounterIsExact

(* The store counts one more turn. *)
LEMMA StoreKeepsInv ==
    ASSUME ThreadsInv, NEW t \in Thread, Store(t), UNCHANGED pc
    PROVE  ThreadsInv'
<1> USE CountsAssumption DEF ThreadsInv
<1>1. i[t] \in 0..LOOP_COUNT /\ i[t] < LOOP_COUNT /\ loaded[t] = g_counter /\ at[t] = "store"
  BY DEF Store, ThreadsTypeOK, TurnsAreCounted, LoadIsFresh
<1>2. i' = [i EXCEPT ![t] = i[t] + 1] /\ g_counter' = g_counter + 1
  BY <1>1 DEF Store
<1>3. ThreadsTypeOK'
  BY <1>1, <1>2 DEF Store, ThreadsTypeOK, Critical
<1> DEFINE new == <<t, i[t] + 1>>
<1>4. Turns' = Turns \cup {new}
  BY <1>1, <1>2 DEF Turns, ThreadsTypeOK
<1>5. new \notin Turns
  BY <1>1 DEF Turns
<1>6. g_counter' = Cardinality(Turns')
  BY <1>2, <1>4, <1>5, TurnsFinite, FS_AddElement DEF TurnsAreCounted
<1>7. MutualExclusion' /\ LoadIsFresh'
  BY <1>1 DEF Store, MutualExclusion, LoadIsFresh, ThreadsTypeOK, Critical
<1>8. TurnsAreCounted'
  BY <1>1, <1>2, <1>6 DEF Store, TurnsAreCounted, ThreadsTypeOK
<1>9. RestIsToCome' /\ ArgumentsStand' /\ JoinedAreDone' /\ PrintsLast' /\ CounterIsExact'
  BY <1>1 DEF Store, RestIsToCome, ArgumentsStand, JoinedAreDone, PrintsLast, CounterIsExact, ThreadsTypeOK
<1> QED
  BY <1>3, <1>7, <1>8, <1>9

(* The other steps of a thread. *)
LEMMA ThreadKeepsInv ==
    ASSUME ThreadsInv, NEW t \in Thread, pc # "ended", UNCHANGED pc,
           Begin(t) \/ Lock(t) \/ Load(t) \/ Unlock(t) \/ Done(t)
    PROVE  ThreadsInv'
<1> USE CountsAssumption DEF ThreadsInv
<1>0. i' = i /\ g_counter' = g_counter /\ Turns' = Turns /\ printed' = printed
  BY DEF Begin, Lock, Load, Unlock, Done, Turns
<1>1. ThreadsTypeOK'
  <2>1. ArgOf(t) \subseteq Int
    BY DEF ThreadsTypeOK, ArgOf, Garbage
  <2>2. CASE Begin(t)
    BY <2>1, <2>2 DEF ThreadsTypeOK, Begin
  <2>3. CASE Lock(t)
    BY <2>3 DEF ThreadsTypeOK, Lock, Critical
  <2>4. CASE Load(t)
    BY <2>4 DEF ThreadsTypeOK, Load, Critical
  <2>5. CASE Unlock(t)
    BY <2>5 DEF ThreadsTypeOK, Unlock
  <2>6. CASE Done(t)
    BY <2>6 DEF ThreadsTypeOK, Done
  <2> QED
    BY <2>2, <2>3, <2>4, <2>5, <2>6
<1>2. MutualExclusion'
  <2> USE DEF ThreadsTypeOK, MutualExclusion, Critical
  <2>1. Nobody \notin Thread
    BY DEF Nobody, Thread
  <2>2. CASE Begin(t)
    BY <2>2 DEF Begin
  <2>3. CASE Lock(t)
    BY <2>1, <2>3 DEF Lock
  <2>4. CASE Load(t)
    BY <2>4 DEF Load
  <2>5. CASE Unlock(t)
    BY <2>1, <2>5 DEF Unlock
  <2>6. CASE Done(t)
    BY <2>6 DEF Done
  <2> QED
    BY <2>2, <2>3, <2>4, <2>5, <2>6
<1>3. LoadIsFresh'
  BY <1>0 DEF ThreadsTypeOK, LoadIsFresh, Begin, Lock, Load, Unlock, Done
<1>4. TurnsAreCounted'
  BY <1>0 DEF ThreadsTypeOK, TurnsAreCounted, Begin, Lock, Load, Unlock, Done
<1>5. RestIsToCome' /\ ArgumentsStand' /\ JoinedAreDone'
  BY DEF ThreadsTypeOK, RestIsToCome, ArgumentsStand, JoinedAreDone, Begin, Lock, Load, Unlock, Done
<1>6. PrintsLast'
  BY <1>0 DEF PrintsLast
<1>7. CounterIsExact'
  <2>1. printed' = -1
    BY <1>0 DEF PrintsLast
  <2>2. ASSUME pc \in {"start", "join"}, NEW u \in Thread, at'[u] \notin {"none", "begin"} PROVE id'[u] = u
    <3>1. CASE Begin(t)
      <4>1. ArgOf(t) = {t}
        BY <2>2, <3>1 DEF ArgumentsStand, ArgOf, Begin
      <4> QED
        BY <2>2, <3>1, <4>1 DEF CounterIsExact, ThreadsTypeOK, Begin
    <3>2. CASE Lock(t) \/ Load(t) \/ Unlock(t) \/ Done(t)
      BY <2>2, <3>2 DEF CounterIsExact, ThreadsTypeOK, Lock, Load, Unlock, Done
    <3> QED
      BY <3>1, <3>2
  <2> QED
    BY <2>1, <2>2 DEF CounterIsExact
<1> QED
  BY <1>1, <1>2, <1>3, <1>4, <1>5, <1>6, <1>7

(* g_counter is what main prints it to be, for any number of threads and   *)
(* of turns: nobody stores a value that is not the last one, and main      *)
(* waits for all (thread_func, main).                                      *)
THEOREM ExactCounter == Spec => []CounterIsExact
<1>1. ThreadsInv /\ [Next]_vars => ThreadsInv'
  <2> SUFFICES ASSUME ThreadsInv, [Next]_vars PROVE ThreadsInv'
    OBVIOUS
  <2>1. CASE UNCHANGED vars
    BY <2>1 DEF vars, threadVars, ThreadsInv, ThreadsTypeOK, MutualExclusion, LoadIsFresh, TurnsAreCounted,
                RestIsToCome, ArgumentsStand, JoinedAreDone, PrintsLast, CounterIsExact, Turns
  <2>2. CASE print_counter
    BY <2>2, PrintKeepsInv
  <2>3. ASSUME NEW t \in Thread, ThreadStep(t) PROVE ThreadsInv'
    BY <2>3, StoreKeepsInv, ThreadKeepsInv DEF ThreadStep
  <2> QED
    BY <2>1, <2>2, <2>3, MainKeepsInv DEF Next
<1>2. ThreadsInv => CounterIsExact
  BY DEF ThreadsInv
<1> QED
  BY <1>1, <1>2, ThreadsInitInv, PTL DEF Spec

-----------------------------------------------------------------------------
(* The programs that speak a protocol over TCP, for every size of the      *)
(* response buffer, of the bodies and of the stream.                       *)

(* The three programs share the variables of the socket, and two of them   *)
(* those of the server.                                                    *)
LEMMA SocketStepIsOne ==
    ASSUME [Step]_programVars
    PROVE  /\ program' = program
           /\ program = "push" => [Push!Next]_<<pc, socket_, peer_, push_>>
           /\ program = "client" => [Client!Next]_<<pc, socket_, peer_, client_>> /\ UNCHANGED push_
           /\ program = "mqtt" => [MqttDemo!Next]_<<pc, socket_, mqtt_>>
           /\ program # "client" => UNCHANGED client_
           /\ program # "mqtt" => UNCHANGED mqtt_
           /\ program \notin {"push", "client", "mqtt"} => UNCHANGED socket_
<1>1. CASE Step
  BY <1>1 DEF Step, Rest
<1>2. CASE UNCHANGED programVars
  BY <1>2 DEF programVars, vars
<1> QED
  BY <1>1, <1>2

LEMMA FindHead ==
    ASSUME NEW raw, Push!Find("head", raw) = 1
    PROVE  raw[1].kind = "head"
BY DEF Push!Find

-----------------------------------------------------------------------------
(* Messages on the wire *)

Session == {"s1", None}

Name == {"OPTIONS", "ANNOUNCE", "SETUP", "RECORD", "TEARDOWN", "frame", "DESCRIBE",
         "CONNECT", "PUBLISH", "PINGREQ", "DISCONNECT"}

Out == [method : Name, session : Session, part : 1..2, parts : {2}]
           \cup [method : Name, part : 1..2, parts : {2}]

(* The last piece of a message is the one that ends it.                    *)
OneLast(s) == \A j \in 1..Len(s) : s[j].part = s[j].parts <=> j = Len(s)

(* Nothing but whole messages.                                             *)
Whole(s) ==
    /\ Push!InOnePiece(s)
    /\ s # <<>> => s[Len(s)].part = s[Len(s)].parts

OneMessage(s) ==
    /\ s \in Seq(Out)
    /\ s # <<>>
    /\ s[1].part = 1
    /\ Whole(s)
    /\ OneLast(s)

LEMMA Joined ==
    ASSUME NEW S, NEW s \in Seq(S), NEW t \in Seq(S)
    PROVE  /\ s \o t \in Seq(S)
           /\ Len(s) \in Nat /\ Len(t) \in Nat
           /\ Len(s \o t) = Len(s) + Len(t)
           /\ \A j \in 1..Len(s) : (s \o t)[j] = s[j]
           /\ \A j \in 1..Len(t) : (s \o t)[Len(s) + j] = t[j]
           /\ \A j \in 1..Len(s \o t) : j \in 1..Len(s) \/ (j - Len(s) \in 1..Len(t) /\ (s \o t)[j] = t[j - Len(s)])
<1>1. /\ s \o t \in Seq(S) /\ Len(s \o t) = Len(s) + Len(t)
      /\ \A j \in 1..(Len(s) + Len(t)) : (s \o t)[j] = IF j <= Len(s) THEN s[j] ELSE t[j - Len(s)]
  BY ConcatProperties
<1>2. Len(s) \in Nat /\ Len(t) \in Nat
  BY LenProperties
<1>3. \A j \in 1..Len(t) : (s \o t)[Len(s) + j] = t[j]
  <2> SUFFICES ASSUME NEW j \in 1..Len(t) PROVE (s \o t)[Len(s) + j] = t[j]
    OBVIOUS
  <2>1. Len(s) + j \in 1..(Len(s) + Len(t)) /\ ~(Len(s) + j <= Len(s)) /\ (Len(s) + j) - Len(s) = j
    BY <1>2
  <2> QED
    BY <1>1, <2>1
<1> QED
  BY <1>1, <1>2, <1>3

(* What send or recv moves, and what it leaves.                            *)
LEMMA Cut ==
    ASSUME NEW S, NEW s \in Seq(S), NEW n \in 1..Len(s)
    PROVE  /\ SubSeq(s, 1, n) \in Seq(S)
           /\ SubSeq(s, n + 1, Len(s)) \in Seq(S)
           /\ SubSeq(s, 1, n) \o SubSeq(s, n + 1, Len(s)) = s
           /\ Len(s) \in Nat
           /\ Len(SubSeq(s, 1, n)) = n
           /\ Len(SubSeq(s, n + 1, Len(s))) = Len(s) - n
           /\ \A j \in 1..n : SubSeq(s, 1, n)[j] = s[j]
           /\ \A j \in 1..(Len(s) - n) : SubSeq(s, n + 1, Len(s))[j] = s[n + j]
<1>1. Len(s) \in Nat /\ n \in Int /\ \A j \in 1..Len(s) : s[j] \in S
  BY LenProperties, ElementOfSeq
<1>2. /\ SubSeq(s, 1, n) \in Seq(S)
      /\ Len(SubSeq(s, 1, n)) = n
      /\ \A j \in 1..n : SubSeq(s, 1, n)[j] = s[j]
  <2>1. \A j \in 1..n : s[j] \in S
    BY <1>1
  <2> QED
    BY <1>1, <2>1, SubSeqProperties
<1>3. /\ SubSeq(s, n + 1, Len(s)) \in Seq(S)
      /\ Len(SubSeq(s, n + 1, Len(s))) = Len(s) - n
      /\ \A j \in 1..(Len(s) - n) : SubSeq(s, n + 1, Len(s))[j] = s[n + j]
  <2>1. \A j \in (n + 1)..Len(s) : s[j] \in S
    BY <1>1
  <2>2. n + 1 \in Int /\ Len(s) \in Int
    BY <1>1
  <2>3. /\ SubSeq(s, n + 1, Len(s)) \in Seq(S)
        /\ Len(SubSeq(s, n + 1, Len(s))) = IF n + 1 <= Len(s) THEN Len(s) - (n + 1) + 1 ELSE 0
        /\ \A j \in 1..(Len(s) - (n + 1) + 1) : SubSeq(s, n + 1, Len(s))[j] = s[n + 1 + j - 1]
    BY <2>1, <2>2, SubSeqProperties
  <2> QED
    BY <1>1, <2>3
<1>4. SubSeq(s, 1, n) \o SubSeq(s, n + 1, Len(s)) = s
  <2>1. SubSeq(s, 1, n) \o SubSeq(s, n + 1, Len(s)) = SubSeq(s, 1, Len(s))
    BY <1>1, ConcatAdjacentSubSeq
  <2> QED
    BY <2>1, SubSeqFull
<1> QED
  BY <1>1, <1>2, <1>3, <1>4

(* Piece x may come after piece y.                                         *)
Continues(x, y) == IF x.part = 1 THEN y.part = y.parts ELSE y = [x EXCEPT !.part = @ - 1]

LEMMA OnePieceIs ==
    ASSUME NEW S, NEW s \in Seq(S)
    PROVE  Push!InOnePiece(s) <=> \A j \in 1..Len(s) : IF j = 1 THEN s[1].part = 1 ELSE Continues(s[j], s[j - 1])
<1>1. DOMAIN s = 1..Len(s)
  BY LenProperties
<1>2. Push!InOnePiece(s) <=>
          \A j \in 1..Len(s) :
              IF s[j].part = 1
                  THEN j = 1 \/ s[j - 1].part = s[j - 1].parts
                  ELSE j > 1 /\ s[j - 1] = [s[j] EXCEPT !.part = @ - 1]
  BY <1>1, Zenon DEF Push!InOnePiece
<1>3. ASSUME NEW j \in 1..Len(s)
      PROVE  (IF s[j].part = 1
                  THEN j = 1 \/ s[j - 1].part = s[j - 1].parts
                  ELSE j > 1 /\ s[j - 1] = [s[j] EXCEPT !.part = @ - 1])
             <=> IF j = 1 THEN s[1].part = 1 ELSE Continues(s[j], s[j - 1])
  <2>1. CASE j = 1
    BY <2>1
  <2>2. CASE j > 1
    BY <2>2 DEF Continues
  <2> QED
    BY <2>1, <2>2
<1> QED
  BY <1>2, <1>3

LEMMA PrefixInOnePiece ==
    ASSUME NEW S, NEW s \in Seq(S), NEW t \in Seq(S), Push!InOnePiece(s \o t)
    PROVE  Push!InOnePiece(s)
<1>1. s \o t \in Seq(S) /\ Len(s \o t) = Len(s) + Len(t) /\ Len(s) \in Nat /\ Len(t) \in Nat
  BY Joined
<1>2. \A j \in 1..Len(s) : (s \o t)[j] = s[j] /\ (j # 1 => (s \o t)[j - 1] = s[j - 1]) /\ j \in 1..Len(s \o t)
  BY <1>1, Joined
<1>3. \A j \in 1..Len(s \o t) :
          IF j = 1 THEN (s \o t)[1].part = 1 ELSE Continues((s \o t)[j], (s \o t)[j - 1])
  BY <1>1, OnePieceIs
<1>4. \A j \in 1..Len(s) : IF j = 1 THEN s[1].part = 1 ELSE Continues(s[j], s[j - 1])
  BY <1>2, <1>3
<1> QED
  BY <1>4, OnePieceIs

LEMMA MessageAdded ==
    ASSUME NEW s \in Seq(Out), Whole(s), NEW t, OneMessage(t)
    PROVE  Whole(s \o t) /\ s \o t \in Seq(Out)
<1>1. t \in Seq(Out) /\ Len(t) \in Nat \ {0} /\ t[1].part = 1 /\ t[Len(t)].part = t[Len(t)].parts
      /\ Push!InOnePiece(t)
  BY EmptySeq DEF OneMessage, Whole
<1>2. /\ s \o t \in Seq(Out)
      /\ Len(s) \in Nat /\ Len(s \o t) = Len(s) + Len(t)
      /\ \A j \in 1..Len(s) : (s \o t)[j] = s[j]
      /\ \A j \in 1..Len(t) : (s \o t)[Len(s) + j] = t[j]
      /\ \A j \in 1..Len(s \o t) : j \in 1..Len(s) \/ (j - Len(s) \in 1..Len(t) /\ (s \o t)[j] = t[j - Len(s)])
  BY <1>1, Joined
<1> DEFINE w == s \o t
<1>3. /\ \A j \in 1..Len(s) : IF j = 1 THEN s[1].part = 1 ELSE Continues(s[j], s[j - 1])
      /\ \A j \in 1..Len(t) : IF j = 1 THEN t[1].part = 1 ELSE Continues(t[j], t[j - 1])
  BY <1>1, OnePieceIs DEF Whole
<1> HIDE DEF w
<1>4. ASSUME NEW j \in 1..Len(w)
      PROVE  IF j = 1 THEN w[1].part = 1 ELSE Continues(w[j], w[j - 1])
  <2>1. CASE j \in 1..Len(s)
    <3>1. w[j] = s[j] /\ (j # 1 => w[j - 1] = s[j - 1])
      BY <1>2, <2>1 DEF w
    <3> QED
      BY <1>3, <2>1, <3>1
  <2>2. CASE j = Len(s) + 1
    <3>1. w[j] = t[1] /\ w[j].part = 1
      BY <1>1, <1>2, <2>2 DEF w
    <3>2. j # 1 => s # <<>> /\ w[j - 1] = s[Len(s)]
      BY <1>2, <2>2, EmptySeq DEF w
    <3> QED
      BY <3>1, <3>2 DEF Whole, Continues
  <2>3. CASE j > Len(s) + 1
    <3> DEFINE k == j - Len(s)
    <3>1. k \in 1..Len(t) /\ k > 1 /\ k - 1 \in 1..Len(t) /\ Len(s) + k = j /\ Len(s) + (k - 1) = j - 1
      BY <1>1, <1>2, <2>3 DEF w
    <3>2. w[j] = t[k] /\ w[j - 1] = t[k - 1]
      BY <1>2, <3>1 DEF w
    <3> HIDE DEF k
    <3>3. j > 1 /\ k # 1
      BY <1>2, <2>3, <3>1
    <3> QED
      BY <1>3, <3>1, <3>2, <3>3
  <2>4. j \in 1..Len(s) \/ j = Len(s) + 1 \/ j > Len(s) + 1
    BY <1>2
  <2> QED
    BY <2>1, <2>2, <2>3, <2>4
<1>5. Push!InOnePiece(w)
  BY <1>2, <1>4, OnePieceIs DEF w
<1>6. w[Len(w)] = t[Len(t)]
  BY <1>1, <1>2 DEF w
<1> QED
  BY <1>1, <1>2, <1>5, <1>6 DEF Whole, w

LEMMA TwoPieces ==
    ASSUME NEW s, s = [x \in 1..2 |-> s[x]], s[1] \in Out, s[2] \in Out,
           s[1].part = 1, s[1].parts = 2, s[2].part = 2, s[2].parts = 2,
           s[1] = [s[2] EXCEPT !.part = 1]
    PROVE  OneMessage(s) /\ Len(s) = 2
<1>1. s \in [1..2 -> Out]
  BY SMT
<1>2. s \in Seq(Out) /\ Len(s) = 2 /\ DOMAIN s = 1..2 /\ s # <<>>
  BY <1>1, EmptySeq
<1>3. OneLast(s)
  BY <1>2 DEF OneLast
<1>4. \A j \in 1..2 : j = 1 \/ j = 2
  OBVIOUS
<1>5. s[1] = [s[2] EXCEPT !.part = @ - 1]
  BY SMT
<1>6. Whole(s)
  <2>1. Continues(s[2], s[1])
    BY <1>5 DEF Continues
  <2>2. Push!InOnePiece(s)
    <3>1. \A j \in 1..Len(s) : IF j = 1 THEN s[1].part = 1 ELSE Continues(s[j], s[j - 1])
      BY <1>2, <1>4, <2>1
    <3>2. s \in Seq(Out)
      BY <1>2
    <3> QED
      BY <3>1, <3>2, OnePieceIs
  <2> QED
    BY <1>2, <2>2 DEF Whole
<1> QED
  BY <1>2, <1>3, <1>6 DEF OneMessage

LEMMA RequestIsMessage ==
    /\ \A m \in Name, sn \in Session :
           /\ OneMessage(Push!Request(m, sn)) /\ Len(Push!Request(m, sn)) = 2
           /\ \A j \in 1..2 : Push!Request(m, sn)[j].method = m /\ Push!Request(m, sn)[j].session = sn
    /\ \A m \in Name, sn \in Session : OneMessage(Client!Request(m, sn)) /\ Len(Client!Request(m, sn)) = 2
    /\ \A k \in 1..4 : OneMessage(MqttDemo!Packet(k))
<1>1. ASSUME NEW m \in Name, NEW sn \in Session
      PROVE  /\ OneMessage(Push!Request(m, sn)) /\ Len(Push!Request(m, sn)) = 2
             /\ \A j \in 1..2 : Push!Request(m, sn)[j].method = m /\ Push!Request(m, sn)[j].session = sn
  <2> DEFINE s == Push!Request(m, sn)
  <2>1. /\ s = [x \in 1..2 |-> s[x]]
        /\ s[1] = [method |-> m, session |-> sn, part |-> 1, parts |-> 2]
        /\ s[2] = [method |-> m, session |-> sn, part |-> 2, parts |-> 2]
    BY DEF Push!Request
  <2> HIDE DEF s
  <2>2. s[1] \in Out /\ s[2] \in Out
    BY <2>1 DEF Out
  <2>3. s[1] = [s[2] EXCEPT !.part = 1]
    BY <2>1
  <2>4. \A j \in 1..2 : s[j].method = m /\ s[j].session = sn
    BY <2>1
  <2> QED
    BY <2>1, <2>2, <2>3, <2>4, TwoPieces DEF s
<1>2. ASSUME NEW m \in Name, NEW sn \in Session
      PROVE  Client!Request(m, sn) = Push!Request(m, sn)
  BY DEF Client!Request, Push!Request
<1>3. ASSUME NEW k \in 1..4 PROVE OneMessage(MqttDemo!Packet(k))
  <2> DEFINE s == MqttDemo!Packet(k)
             m == MqttDemo!Packets[k]
  <2>0. m \in Name
    <3>1. k = 1 \/ k = 2 \/ k = 3 \/ k = 4
      OBVIOUS
    <3>2. /\ MqttDemo!Packets[1] = "CONNECT" /\ MqttDemo!Packets[2] = "PUBLISH"
          /\ MqttDemo!Packets[3] = "PINGREQ" /\ MqttDemo!Packets[4] = "DISCONNECT"
      BY DEF MqttDemo!Packets
    <3> QED
      BY <3>1, <3>2 DEF Name
  <2>1. /\ s = [x \in 1..2 |-> s[x]]
        /\ s[1] = [method |-> m, part |-> 1, parts |-> 2]
        /\ s[2] = [method |-> m, part |-> 2, parts |-> 2]
    BY DEF MqttDemo!Packet
  <2> HIDE DEF s, m
  <2>2. s[1] \in Out /\ s[2] \in Out
    BY <2>0, <2>1 DEF Out
  <2>3. s[1] = [s[2] EXCEPT !.part = 1]
    BY <2>1
  <2> QED
    BY <2>1, <2>2, <2>3, TwoPieces DEF s
<1> QED
  BY <1>1, <1>2, <1>3

-----------------------------------------------------------------------------
(* What the server has been asked *)

AskedIn(s) == {j \in 1..Len(s) : s[j].method # "frame" /\ s[j].part = s[j].parts}

AskedCount == Cardinality(AskedIn(wire))

LEMMA AskedIsAskedIn ==
    ASSUME wire \in Seq(Out)
    PROVE  /\ Push!Cardinality(Push!Asked) = AskedCount
           /\ Client!Cardinality(Client!Asked) = AskedCount
<1>1. DOMAIN wire = 1..Len(wire)
  BY LenProperties
<1>2. Push!Asked = AskedIn(wire) /\ Client!Asked = AskedIn(wire)
  BY <1>1 DEF Push!Asked, Client!Asked, AskedIn
<1>3. \A S : Push!Cardinality(S) = Cardinality(S)
  BY DEF Push!Cardinality, Cardinality
<1>4. \A S : Client!Cardinality(S) = Cardinality(S)
  BY DEF Client!Cardinality, Cardinality
<1> QED
  BY <1>2, <1>3, <1>4 DEF AskedCount

LEMMA AskedFinite ==
    ASSUME NEW s \in Seq(Out)
    PROVE  IsFiniteSet(AskedIn(s)) /\ Cardinality(AskedIn(s)) \in Nat
<1>1. IsFiniteSet(1..Len(s))
  BY LenProperties, FS_Interval
<1> QED
  BY <1>1, FS_Subset, FS_CardinalityType DEF AskedIn

LEMMA Regroup ==
    ASSUME NEW S, NEW a \in Seq(S), NEW b \in Seq(S), NEW c \in Seq(S)
    PROVE  (a \o b) \o c = a \o (b \o c)
BY ConcatAssociative

(* One call of send: nobody is asked more than one thing, and that only    *)
(* by the end of the message.                                              *)
LEMMA SendAsks ==
    ASSUME wire \in Seq(Out), unsent \in Seq(Out), OneLast(unsent),
           NEW n \in 1..Len(unsent), Push!Sends(n)
    PROVE  /\ wire' \in Seq(Out) /\ unsent' \in Seq(Out)
           /\ OneLast(unsent')
           /\ wire' \o unsent' = wire \o unsent
           /\ AskedCount \in Nat /\ AskedCount' \in Nat
           /\ AskedCount' <= AskedCount + 1
           /\ AskedCount <= AskedCount'
           /\ unsent' # <<>> => AskedCount' = AskedCount
           /\ (\A j \in 1..Len(unsent) : unsent[j].method = "frame") => AskedCount' = AskedCount
           /\ \A j \in 1..Len(wire') : \/ j \in 1..Len(wire) /\ wire'[j] = wire[j]
                                       \/ \E k \in 1..Len(unsent) : wire'[j] = unsent[k]
           /\ \A j \in 1..Len(unsent') : \E k \in 1..Len(unsent) : unsent'[j] = unsent[k]
<1> DEFINE s == SubSeq(unsent, 1, n)
<1>1. /\ s \in Seq(Out) /\ unsent' \in Seq(Out) /\ s \o unsent' = unsent
      /\ Len(unsent) \in Nat /\ Len(s) = n /\ Len(unsent') = Len(unsent) - n
      /\ \A j \in 1..n : s[j] = unsent[j]
      /\ \A j \in 1..(Len(unsent) - n) : unsent'[j] = unsent[n + j]
  BY Cut DEF Push!Sends
<1>2. wire' = wire \o s
  BY DEF Push!Sends
<1> HIDE DEF s
<1>3. /\ wire' \in Seq(Out) /\ Len(wire) \in Nat
      /\ Len(wire') = Len(wire) + n
      /\ \A j \in 1..Len(wire) : wire'[j] = wire[j]
      /\ \A j \in 1..n : wire'[Len(wire) + j] = s[j]
      /\ \A j \in 1..Len(wire') : j \in 1..Len(wire) \/ (j - Len(wire) \in 1..n /\ wire'[j] = s[j - Len(wire)])
  BY <1>1, <1>2, Joined
<1>4. wire' \o unsent' = wire \o unsent
  <2>1. (wire \o s) \o unsent' = wire \o (s \o unsent')
    <3>1. wire \in Seq(Out) /\ s \in Seq(Out) /\ unsent' \in Seq(Out)
      BY <1>1
    <3> QED
      BY SMTT(20), <3>1, Regroup
  <2> QED
    BY <1>1, <1>2, <2>1
<1>5. ASSUME NEW j \in 1..Len(unsent') PROVE n + j \in 1..Len(unsent) /\ unsent'[j] = unsent[n + j]
  BY SMTT(20), <1>1
<1>6. OneLast(unsent')
  BY <1>1, <1>5 DEF OneLast
<1>7. ASSUME NEW j \in 1..Len(wire')
      PROVE  \/ j \in 1..Len(wire) /\ wire'[j] = wire[j]
             \/ j - Len(wire) \in 1..n /\ j - Len(wire) \in 1..Len(unsent) /\ wire'[j] = unsent[j - Len(wire)]
  BY <1>1, <1>3
<1> DEFINE last == Len(wire')
<1>8. AskedIn(wire) \subseteq AskedIn(wire')
  BY <1>3 DEF AskedIn
<1>9. AskedIn(wire') \subseteq AskedIn(wire) \cup {last}
  <2> SUFFICES ASSUME NEW j \in AskedIn(wire'), j \notin AskedIn(wire) PROVE j = last
    OBVIOUS
  <2>1. j \in 1..Len(wire') /\ wire'[j].part = wire'[j].parts
    BY DEF AskedIn
  <2>2. ~(j \in 1..Len(wire) /\ wire'[j] = wire[j])
    BY DEF AskedIn
  <2>3. j - Len(wire) \in 1..n /\ j - Len(wire) = Len(unsent)
    BY <1>7, <2>1, <2>2 DEF OneLast
  <2> QED
    BY <1>1, <1>3, <2>1, <2>3
<1>10. ASSUME unsent' # <<>> \/ \A j \in 1..Len(unsent) : unsent[j].method = "frame"
       PROVE  AskedIn(wire') = AskedIn(wire)
  <2> SUFFICES ASSUME NEW j \in AskedIn(wire'), j \notin AskedIn(wire) PROVE FALSE
    BY <1>8
  <2>1. j \in 1..Len(wire') /\ wire'[j].part = wire'[j].parts /\ wire'[j].method # "frame"
    BY DEF AskedIn
  <2>2. ~(j \in 1..Len(wire) /\ wire'[j] = wire[j])
    BY DEF AskedIn
  <2>3. j - Len(wire) \in 1..n /\ j - Len(wire) = Len(unsent) /\ unsent[Len(unsent)].method # "frame"
    BY <1>7, <2>1, <2>2 DEF OneLast
  <2>4. n = Len(unsent) /\ Len(unsent) \in 1..Len(unsent)
    BY <1>1, <2>3
  <2>5. unsent' = <<>>
    BY <1>1, <2>4, EmptySeq
  <2> QED
    BY <1>10, <2>3, <2>4, <2>5
<1>11. /\ IsFiniteSet(AskedIn(wire)) /\ IsFiniteSet(AskedIn(wire'))
       /\ AskedCount \in Nat /\ AskedCount' \in Nat
  BY <1>3, AskedFinite DEF AskedCount
<1>12. AskedCount <= AskedCount'
  BY <1>8, <1>11, FS_Subset DEF AskedCount
<1>13. AskedCount' <= AskedCount + 1
  <2>1. /\ IsFiniteSet(AskedIn(wire) \cup {last})
        /\ Cardinality(AskedIn(wire) \cup {last}) = IF last \in AskedIn(wire) THEN AskedCount ELSE AskedCount + 1
    BY <1>11, FS_AddElement DEF AskedCount
  <2>2. AskedCount' <= Cardinality(AskedIn(wire) \cup {last})
    BY <1>9, <2>1, FS_Subset DEF AskedCount
  <2>3. Cardinality(AskedIn(wire) \cup {last}) \in Nat
    BY <2>1, FS_CardinalityType
  <2> QED
    BY <1>11, <2>1, <2>2, <2>3
<1>14. unsent' # <<>> \/ (\A j \in 1..Len(unsent) : unsent[j].method = "frame") => AskedCount' = AskedCount
  BY <1>10 DEF AskedCount
<1>15. \A j \in 1..Len(wire') : \/ j \in 1..Len(wire) /\ wire'[j] = wire[j]
                                \/ \E k \in 1..Len(unsent) : wire'[j] = unsent[k]
  BY <1>7
<1> QED
  BY <1>1, <1>3, <1>4, <1>5, <1>6, <1>11, <1>12, <1>13, <1>14, <1>15

-----------------------------------------------------------------------------
(* rtsp_push_demo *)

In == [kind : {"head", "end", "body"}, is : Push!Answer] \cup [kind : {"$"}, is : {"frame"}]

NoHead(s) == \A j \in 1..Len(s) : s[j].kind # "head"

(* What recv_rtsp_response has of the response, and what will come.        *)
Incoming == response.raw \o arriving

(* A header on the way is that of the answer to the request, and the only  *)
(* one.                                                                    *)
HeadIsAnswer ==
    \A j \in 1..Len(Incoming) :
        Incoming[j].kind = "head" =>
            /\ Len(answers) = request
            /\ Incoming[j].is = answers[request]
            /\ \A l \in 1..Len(Incoming) : Incoming[l].kind = "head" => l = j

(* A piece of RECORD or TEARDOWN names the session that the server gave.   *)
NamesSession(p) ==
    /\ p.method = "RECORD" =>
           /\ Len(answers) >= 3
           /\ p.session = answers[3].session
           /\ p.session # None
    /\ p.method = "TEARDOWN" =>
           /\ Len(answers) >= 4
           /\ p.session = answers[4].session
           /\ answers[3].session # None

PushTypeOK ==
    /\ pc \in {"start", "send", "recv", "frames", "ended"}
    /\ wire \in Seq(Out)
    /\ unsent \in Seq(Out)
    /\ arriving \in Seq(In)
    /\ answers \in Seq(Push!Answer)
    /\ request \in 0..5
    /\ pc = "recv" => response \in [status : {"none"}, session : {None}, raw : Seq(In)]

(* A request is counted as asked when its last piece is sent.              *)
AsksInTurn ==
    /\ OneLast(unsent)
    /\ Len(answers) <= AskedCount
    /\ AskedCount <= request
    /\ pc = "start" => request = 0 /\ unsent = <<>>
    /\ pc = "send" => AskedCount < request
    /\ pc = "recv" => request >= 1 /\ unsent = <<>>
    /\ pc = "frames" => request = 4 /\ \A j \in 1..Len(unsent) : unsent[j].method = "frame"

AnswersInTurn ==
    /\ Push!AcceptedIsAnswer
    /\ pc = "recv" => HeadIsAnswer
    /\ pc \in {"start", "send", "frames"} => NoHead(arriving)
    /\ request >= 4 => Len(answers) >= 3 /\ answers[3].session # None
    /\ pc = "frames" =>
           /\ Len(answers) = 4
           /\ answers[4].status = "2xx"
           /\ response.session = answers[4].session

SessionsAreNamed ==
    /\ \A j \in 1..Len(wire) : NamesSession(wire[j])
    /\ \A j \in 1..Len(unsent) : NamesSession(unsent[j])

PushInv == PushTypeOK /\ AsksInTurn /\ AnswersInTurn /\ SessionsAreNamed

LEMMA CountIsNat ==
    ASSUME PushTypeOK
    PROVE  AskedCount \in Nat /\ Len(answers) \in Nat /\ Len(unsent) \in Nat /\ Len(arriving) \in Nat
BY AskedFinite, LenProperties DEF PushTypeOK, AskedCount

LEMMA AnswerPieces ==
    ASSUME NEW a \in Push!Answer
    PROVE  /\ Push!Pieces(a) \in Seq(In)
           /\ Len(Push!Pieces(a)) \in Nat
           /\ Len(Push!Pieces(a)) >= 2
           /\ Push!Pieces(a)[1] = [kind |-> "head", is |-> a]
           /\ \A j \in 1..Len(Push!Pieces(a)) : Push!Pieces(a)[j].kind = "head" => j = 1
<1> DEFINE h == Push!Piece("head", a)
           e == Push!Piece("end", a)
           front2 == <<h, e>>
           body == [x \in 1..a.body |-> Push!Piece("body", a)]
<1>1. a.body \in Nat
  BY ProgramsAssumption DEF Push!Answer
<1>2. h \in In /\ e \in In /\ Push!Piece("body", a) \in In
      /\ h.kind = "head" /\ e.kind = "end" /\ Push!Piece("body", a).kind = "body"
      /\ h = [kind |-> "head", is |-> a]
  BY DEF Push!Piece, In
<1>3. front2 \in Seq(In) /\ Len(front2) = 2 /\ front2[1] = h /\ front2[2] = e
  BY <1>2
<1>4. body \in Seq(In) /\ Len(body) = a.body /\ \A j \in 1..a.body : body[j] = Push!Piece("body", a)
  BY <1>1, <1>2
<1>5. Push!Pieces(a) = front2 \o body
  BY DEF Push!Pieces
<1> HIDE DEF h, e, front2, body
<1>6. /\ front2 \o body \in Seq(In) /\ Len(front2 \o body) = 2 + a.body
      /\ \A j \in 1..2 : (front2 \o body)[j] = front2[j]
      /\ \A j \in 1..Len(front2 \o body) :
             j \in 1..2 \/ (j - 2 \in 1..a.body /\ (front2 \o body)[j] = body[j - 2])
  BY SMTT(20), <1>3, <1>4, Joined
<1>7. ASSUME NEW j \in 1..Len(front2 \o body), (front2 \o body)[j].kind = "head" PROVE j = 1
  <2>1. CASE j \in 1..2
    BY <1>2, <1>3, <1>6, <1>7, <2>1
  <2>2. CASE j - 2 \in 1..a.body /\ (front2 \o body)[j] = body[j - 2]
    BY <1>2, <1>4, <1>7, <2>2
  <2> QED
    BY <1>6, <2>1, <2>2
<1> QED
  BY <1>1, <1>2, <1>3, <1>5, <1>6, <1>7

(* More pieces without a header change nothing.                            *)
LEMMA NoHeadAdded ==
    ASSUME NEW s \in Seq(In), NEW t \in Seq(In), NoHead(t)
    PROVE  /\ s \o t \in Seq(In)
           /\ NoHead(s) => NoHead(s \o t)
           /\ Len(s) \in Nat /\ Len(s \o t) \in Nat /\ Len(s) <= Len(s \o t)
           /\ \A j \in 1..Len(s \o t) :
                  (s \o t)[j].kind = "head" => j \in 1..Len(s) /\ (s \o t)[j] = s[j]
<1>1. /\ s \o t \in Seq(In) /\ Len(s) \in Nat /\ Len(t) \in Nat /\ Len(s \o t) = Len(s) + Len(t)
      /\ \A j \in 1..Len(s) : (s \o t)[j] = s[j]
      /\ \A j \in 1..Len(s \o t) : j \in 1..Len(s) \/ (j - Len(s) \in 1..Len(t) /\ (s \o t)[j] = t[j - Len(s)])
  BY Joined
<1>2. \A j \in 1..Len(s \o t) : (s \o t)[j].kind = "head" => j \in 1..Len(s) /\ (s \o t)[j] = s[j]
  BY <1>1 DEF NoHead
<1> QED
  BY <1>1, <1>2 DEF NoHead

LEMMA PushAnswers ==
    ASSUME PushInv, program = "push", NEW a \in Push!Answer, Push!ServerAnswers(a),
           UNCHANGED <<request, response, frames>>
    PROVE  PushInv'
<1> USE DEF PushInv
<1> DEFINE A == Len(answers)
<1>1. A < AskedCount /\ A \in Nat /\ AskedCount \in Nat
  BY AskedIsAskedIn, CountIsNat DEF Push!ServerAnswers, PushTypeOK
<1>2. /\ answers' = Append(answers, a) /\ arriving' = arriving \o Push!Pieces(a)
      /\ UNCHANGED <<pc, unsent, wire, hungup, broken, framed, request, response>>
  BY DEF Push!ServerAnswers
<1>3. AskedCount' = AskedCount
  BY <1>2 DEF AskedCount
<1>4. /\ answers' \in Seq(Push!Answer) /\ Len(answers') = A + 1
      /\ \A k \in 1..A : answers'[k] = answers[k]
      /\ answers'[A + 1] = a
  BY <1>2, AppendProperties DEF PushTypeOK
<1>5. arriving' \in Seq(In)
  BY <1>2, AnswerPieces, ConcatProperties DEF PushTypeOK
<1>6. request \in Nat /\ A = request - 1 /\ pc \in {"recv", "ended"}
  BY <1>1 DEF PushTypeOK, AsksInTurn, AnswersInTurn, Push!AcceptedIsAnswer
<1>7. PushTypeOK'
  BY <1>2, <1>4, <1>5 DEF PushTypeOK
<1>8. AsksInTurn'
  BY <1>1, <1>2, <1>3, <1>4, <1>6 DEF AsksInTurn
<1>9. HeadIsAnswer' \/ pc # "recv"
  <2> SUFFICES ASSUME pc = "recv" PROVE HeadIsAnswer'
    OBVIOUS
  <2> DEFINE new == Push!Pieces(a)
  <2>1. Incoming \in Seq(In) /\ response.raw \in Seq(In) /\ arriving \in Seq(In)
    BY ConcatProperties DEF PushTypeOK, Incoming
  <2>2. NoHead(Incoming)
    BY <1>6 DEF AnswersInTurn, HeadIsAnswer, NoHead
  <2>3. /\ new \in Seq(In) /\ new[1] = [kind |-> "head", is |-> a]
        /\ \A j \in 1..Len(new) : new[j].kind = "head" => j = 1
    BY AnswerPieces
  <2>4. Incoming' = Incoming \o new
    <3> DEFINE raw == response.raw
    <3>0. raw \in Seq(In) /\ arriving \in Seq(In) /\ new \in Seq(In)
      BY <2>1, <2>3
    <3> HIDE DEF new, raw
    <3>1. (raw \o arriving) \o new = raw \o (arriving \o new)
      BY <3>0, Regroup
    <3>2. response' = response /\ arriving' = arriving \o new
      BY <1>2 DEF new
    <3> QED
      BY <3>1, <3>2 DEF Incoming, raw
  <2> HIDE DEF new
  <2>5. /\ Len(Incoming) \in Nat
        /\ \A j \in 1..Len(Incoming) : (Incoming \o new)[j] = Incoming[j]
        /\ \A j \in 1..Len(Incoming \o new) :
               \/ j \in 1..Len(Incoming)
               \/ j - Len(Incoming) \in 1..Len(new) /\ (Incoming \o new)[j] = new[j - Len(Incoming)]
    BY <2>1, <2>3, Joined
  <2>6. \A j \in 1..Len(Incoming \o new) :
            (Incoming \o new)[j].kind = "head" => j = Len(Incoming) + 1 /\ (Incoming \o new)[j].is = a
    <3> SUFFICES ASSUME NEW j \in 1..Len(Incoming \o new), (Incoming \o new)[j].kind = "head"
                 PROVE  j = Len(Incoming) + 1 /\ (Incoming \o new)[j].is = a
      OBVIOUS
    <3>1. j \notin 1..Len(Incoming)
      BY <2>2, <2>5 DEF NoHead
    <3>2. j - Len(Incoming) = 1 /\ (Incoming \o new)[j] = new[1]
      BY <2>3, <2>5, <3>1
    <3> QED
      BY <2>3, <2>5, <3>2
  <2> QED
    BY <1>2, <1>4, <1>6, <2>4, <2>6 DEF HeadIsAnswer
<1>10. Push!AcceptedIsAnswer'
  BY <1>1, <1>2, <1>4, <1>6 DEF AnswersInTurn, Push!AcceptedIsAnswer
<1>11. AnswersInTurn'
  BY <1>2, <1>6, <1>9, <1>10 DEF AnswersInTurn
<1>12. SessionsAreNamed'
  <2>1. wire' = wire /\ unsent' = unsent
    BY <1>2
  <2>2. \A k \in {3, 4} : A >= k => answers'[k] = answers[k] /\ Len(answers') >= k
    BY <1>1, <1>4, <1>6
  <2>3. A = Len(answers) /\ A \in Nat
    BY <1>1, <1>6
  <2> QED
    BY <1>1, <2>1, <2>2, <2>3 DEF SessionsAreNamed, NamesSession
<1> QED
  BY <1>7, <1>8, <1>11, <1>12

(* Nobody is asked and nobody answers.                                     *)
LEMMA PushRests ==
    ASSUME PushInv, pc' \in {pc, "ended"},
           UNCHANGED <<unsent, wire, arriving, answers, request, response>>
    PROVE  PushInv'
<1>1. AskedCount' = AskedCount /\ Incoming' = Incoming
  BY DEF AskedCount, Incoming
<1>2. PushTypeOK'
  BY DEF PushInv, PushTypeOK
<1>3. AsksInTurn'
  BY <1>1 DEF PushInv, AsksInTurn
<1>4. AnswersInTurn'
  BY <1>1 DEF PushInv, AnswersInTurn, Push!AcceptedIsAnswer, HeadIsAnswer
<1>5. SessionsAreNamed'
  BY DEF PushInv, SessionsAreNamed, NamesSession
<1> QED
  BY <1>2, <1>3, <1>4, <1>5 DEF PushInv

LEMMA PushFrameComes ==
    ASSUME PushInv, Push!ServerSendsFrame, UNCHANGED <<request, response, frames>>
    PROVE  PushInv'
<1> DEFINE p == Push!Piece("$", "frame")
<1>1. /\ arriving' = Append(arriving, p)
      /\ UNCHANGED <<pc, unsent, wire, hungup, broken, answers, request, response>>
  BY DEF Push!ServerSendsFrame
<1>2. p \in In /\ p.kind = "$"
  BY DEF Push!Piece, In
<1> HIDE DEF p
<1>3. arriving \in Seq(In) /\ <<p>> \in Seq(In) /\ NoHead(<<p>>)
  BY <1>2 DEF PushInv, PushTypeOK, NoHead
<1>4. arriving' = arriving \o <<p>>
  BY <1>1, <1>2, <1>3, AppendIsConcat
<1>5. arriving' \in Seq(In) /\ (NoHead(arriving) => NoHead(arriving'))
  BY <1>3, <1>4, NoHeadAdded
<1>6. AskedCount' = AskedCount
  BY <1>1 DEF AskedCount
<1>7. PushTypeOK'
  BY <1>1, <1>5 DEF PushInv, PushTypeOK
<1>8. AsksInTurn'
  BY <1>1, <1>6 DEF PushInv, AsksInTurn
<1>9. ASSUME pc = "recv" PROVE HeadIsAnswer'
  <2> DEFINE raw == response.raw
  <2>1. raw \in Seq(In) /\ HeadIsAnswer
    BY <1>9 DEF PushInv, PushTypeOK, AnswersInTurn
  <2>2. Incoming = raw \o arriving /\ Incoming' = raw \o (arriving \o <<p>>)
    BY <1>1, <1>4 DEF Incoming
  <2> HIDE DEF raw
  <2>3. Incoming \in Seq(In)
    BY <1>3, <2>1, <2>2, ConcatProperties
  <2>4. Incoming' = Incoming \o <<p>>
    BY <1>3, <2>1, <2>2, Regroup
  <2>5. /\ Len(Incoming) \in Nat
        /\ \A j \in 1..Len(Incoming') :
               Incoming'[j].kind = "head" => j \in 1..Len(Incoming) /\ Incoming'[j] = Incoming[j]
    BY <1>3, <2>3, <2>4, NoHeadAdded
  <2> QED
    BY <1>1, <2>1, <2>5 DEF HeadIsAnswer
<1>10. AnswersInTurn'
  BY <1>1, <1>5, <1>9 DEF PushInv, AnswersInTurn, Push!AcceptedIsAnswer
<1>11. SessionsAreNamed'
  BY <1>1 DEF PushInv, SessionsAreNamed, NamesSession
<1> QED
  BY <1>7, <1>8, <1>10, <1>11 DEF PushInv

(* main goes on to request k, whose session is the server's.               *)
LEMMA PushStarts ==
    ASSUME PushInv, NEW k \in 1..5, NEW sn \in Session, Push!StartRequest(k, sn),
           k = request + 1, Len(answers) = request,
           \A j \in 1..request : answers[j].status = "2xx",
           k = 4 => sn = answers[3].session /\ sn # None,
           k = 5 => sn = answers[4].session,
           UNCHANGED <<wire, answers>>, arriving' \in Seq(In), NoHead(arriving')
    PROVE  PushInv'
<1> DEFINE m == Push!Methods[k]
<1>1. /\ m \in Name
      /\ m = "RECORD" => k = 4
      /\ m = "TEARDOWN" => k = 5
  <2>1. k = 1 \/ k = 2 \/ k = 3 \/ k = 4 \/ k = 5
    OBVIOUS
  <2>2. /\ Push!Methods[1] = "OPTIONS" /\ Push!Methods[2] = "ANNOUNCE" /\ Push!Methods[3] = "SETUP"
        /\ Push!Methods[4] = "RECORD" /\ Push!Methods[5] = "TEARDOWN"
    BY DEF Push!Methods
  <2> QED
    BY <2>1, <2>2 DEF Name
<1>2. request' = k /\ unsent' = Push!Request(m, sn) /\ pc' = "send"
  BY DEF Push!StartRequest
<1> HIDE DEF m
<1>3. /\ unsent' \in Seq(Out) /\ OneLast(unsent') /\ Len(unsent') = 2
      /\ \A j \in 1..Len(unsent') : unsent'[j].method = m /\ unsent'[j].session = sn
  <2>1. sn \in Session /\ m \in Name
    BY <1>1
  <2>2. PICK q : q = Push!Request(m, sn)
    OBVIOUS
  <2>3. OneMessage(q) /\ Len(q) = 2 /\ \A j \in 1..2 : q[j].method = m /\ q[j].session = sn
    BY <2>1, <2>2, RequestIsMessage
  <2>4. unsent' = q
    BY <1>2, <2>2
  <2> QED
    BY <2>3, <2>4 DEF OneMessage
<1>4. AskedCount' = AskedCount /\ AskedCount \in Nat
  BY CountIsNat DEF PushInv, AskedCount
<1>5. PushTypeOK'
  BY <1>2, <1>3 DEF PushInv, PushTypeOK
<1>6. AsksInTurn'
  BY <1>2, <1>3, <1>4 DEF PushInv, AsksInTurn, PushTypeOK
<1>7. AnswersInTurn'
  BY <1>2 DEF PushInv, AnswersInTurn, Push!AcceptedIsAnswer, PushTypeOK
<1>8. SessionsAreNamed'
  <2>1. \A j \in 1..Len(wire') : NamesSession(wire[j])'
    BY DEF PushInv, SessionsAreNamed, NamesSession
  <2>2. k = 5 => answers[3].session # None
    BY DEF PushInv, AnswersInTurn
  <2>3. ASSUME NEW j \in 1..Len(unsent') PROVE NamesSession(unsent[j])'
    BY <1>1, <1>3, <2>2 DEF NamesSession
  <2> QED
    BY <2>1, <2>3 DEF SessionsAreNamed
<1> QED
  BY <1>5, <1>6, <1>7, <1>8 DEF PushInv

LEMMA PushSendsRequest ==
    ASSUME PushInv, NEW n \in 1..RawSize, Push!SendRequest(n)
    PROVE  PushInv'
<1>1. /\ pc = "send" /\ n \in 1..Len(unsent) /\ Push!Sends(n)
      /\ IF unsent' = <<>> THEN pc' = "recv" /\ response' = Push!Cleared ELSE UNCHANGED <<pc, response>>
      /\ UNCHANGED <<arriving, answers, request>>
  BY DEF Push!SendRequest, Push!serverVars
<1>2. wire \in Seq(Out) /\ unsent \in Seq(Out) /\ OneLast(unsent) /\ request \in Nat /\ arriving \in Seq(In)
  BY DEF PushInv, PushTypeOK, AsksInTurn
<1>3. /\ wire' \in Seq(Out) /\ unsent' \in Seq(Out) /\ OneLast(unsent')
      /\ AskedCount \in Nat /\ AskedCount' \in Nat
      /\ AskedCount' <= AskedCount + 1 /\ AskedCount <= AskedCount'
      /\ unsent' # <<>> => AskedCount' = AskedCount
      /\ \A j \in 1..Len(wire') : \/ j \in 1..Len(wire) /\ wire'[j] = wire[j]
                                  \/ \E k \in 1..Len(unsent) : wire'[j] = unsent[k]
      /\ \A j \in 1..Len(unsent') : \E k \in 1..Len(unsent) : unsent'[j] = unsent[k]
  BY <1>1, <1>2, SendAsks
<1>4. Push!Cleared \in [status : {"none"}, session : {None}, raw : Seq(In)] /\ Push!Cleared.raw = <<>>
  BY DEF Push!Cleared, Push!NoResponse
<1>5. PushTypeOK'
  BY <1>1, <1>3, <1>4 DEF PushInv, PushTypeOK
<1>6. AsksInTurn'
  BY <1>1, <1>2, <1>3, CountIsNat DEF PushInv, AsksInTurn
<1>7. HeadIsAnswer' \/ unsent' # <<>>
  <2> SUFFICES ASSUME unsent' = <<>> PROVE HeadIsAnswer'
    OBVIOUS
  <2>1. Incoming' = arriving /\ NoHead(arriving)
    BY <1>1, <1>2, <1>4, ConcatEmptySeq DEF Incoming, PushInv, AnswersInTurn
  <2> QED
    BY <2>1 DEF HeadIsAnswer, NoHead
<1>8. AnswersInTurn'
  BY <1>1, <1>7 DEF PushInv, AnswersInTurn, Push!AcceptedIsAnswer
<1>9. SessionsAreNamed'
  BY ZenonT(30), <1>1, <1>3 DEF PushInv, SessionsAreNamed, NamesSession
<1> QED
  BY <1>5, <1>6, <1>8, <1>9 DEF PushInv

LEMMA PushSendsFrames ==
    ASSUME PushInv, NEW n \in 1..RawSize, Push!send_demo_interleaved_rtp(n)
    PROVE  PushInv'
<1>1. /\ pc = "frames" /\ n \in 1..Len(unsent) /\ Push!Sends(n)
      /\ UNCHANGED <<pc, arriving, answers, request, response>>
  BY DEF Push!send_demo_interleaved_rtp, Push!serverVars
<1>2. wire \in Seq(Out) /\ unsent \in Seq(Out) /\ OneLast(unsent)
      /\ \A j \in 1..Len(unsent) : unsent[j].method = "frame"
  BY <1>1 DEF PushInv, PushTypeOK, AsksInTurn
<1>3. /\ wire' \in Seq(Out) /\ unsent' \in Seq(Out) /\ OneLast(unsent')
      /\ AskedCount' = AskedCount
      /\ \A j \in 1..Len(wire') : \/ j \in 1..Len(wire) /\ wire'[j] = wire[j]
                                  \/ \E k \in 1..Len(unsent) : wire'[j] = unsent[k]
      /\ \A j \in 1..Len(unsent') : \E k \in 1..Len(unsent) : unsent'[j] = unsent[k]
  BY <1>1, <1>2, SendAsks
<1>4. PushTypeOK'
  BY <1>1, <1>3 DEF PushInv, PushTypeOK
<1>5. AsksInTurn'
  BY <1>1, <1>2, <1>3 DEF PushInv, AsksInTurn
<1>6. AnswersInTurn'
  BY <1>1 DEF PushInv, AnswersInTurn, Push!AcceptedIsAnswer
<1>7. SessionsAreNamed'
  BY ZenonT(30), <1>1, <1>3 DEF PushInv, SessionsAreNamed, NamesSession
<1> QED
  BY <1>4, <1>5, <1>6, <1>7 DEF PushInv

(* From RECORD's answer to TEARDOWN.                                       *)
LEMMA PushTearsDown ==
    ASSUME PushInv, pc = "frames", Push!StartRequest(5, response.session),
           UNCHANGED <<wire, arriving, answers>>
    PROVE  PushInv'
<1>1. request = 4 /\ Len(answers) = 4 /\ answers[4].status = "2xx" /\ response.session = answers[4].session
  BY DEF PushInv, AsksInTurn, AnswersInTurn
<1>2. answers[4].session \in Session
  <2>1. 4 \in 1..Len(answers) /\ answers \in Seq(Push!Answer)
    BY <1>1 DEF PushInv, PushTypeOK
  <2>2. answers[4] \in Push!Answer
    BY <2>1, ElementOfSeq
  <2> QED
    BY <2>2 DEF Push!Answer, Session
<1>3. \A j \in 1..request : answers[j].status = "2xx"
  BY <1>1 DEF PushInv, AnswersInTurn, Push!AcceptedIsAnswer
<1>4. arriving' \in Seq(In) /\ NoHead(arriving')
  BY DEF PushInv, PushTypeOK, AnswersInTurn
<1> QED
  BY <1>1, <1>2, <1>3, <1>4, PushStarts

(* The next frame after one that was sent, or the first.                   *)
LEMMA PushStreams ==
    ASSUME PushInv, pc' = "frames", unsent' = Push!Request("frame", None),
           Len(answers) = 4, answers[4].status = "2xx", response'.session = answers[4].session,
           request = 4, UNCHANGED <<wire, answers, request>>,
           arriving' \in Seq(In), NoHead(arriving')
    PROVE  PushInv'
<1>1. "frame" \in Name /\ None \in Session
  BY DEF Name, Session
<1>2. /\ unsent' \in Seq(Out) /\ OneLast(unsent')
      /\ Len(unsent') = 2 /\ \A j \in 1..Len(unsent') : unsent'[j].method = "frame"
  BY <1>1, RequestIsMessage DEF OneMessage
<1>3. AskedCount' = AskedCount
  BY DEF AskedCount
<1>4. PushTypeOK'
  BY <1>2 DEF PushInv, PushTypeOK
<1>5. AsksInTurn'
  BY <1>2, <1>3 DEF PushInv, AsksInTurn
<1>6. AnswersInTurn'
  BY DEF PushInv, AnswersInTurn, Push!AcceptedIsAnswer
<1>7. SessionsAreNamed'
  <2>1. \A j \in 1..Len(wire') : NamesSession(wire[j])'
    BY DEF PushInv, SessionsAreNamed, NamesSession
  <2>2. \A j \in 1..Len(unsent') : NamesSession(unsent[j])'
    BY <1>2 DEF NamesSession
  <2> QED
    BY <2>1, <2>2 DEF SessionsAreNamed
<1> QED
  BY <1>4, <1>5, <1>6, <1>7 DEF PushInv

LEMMA PushReceives ==
    ASSUME PushInv, NEW n \in 1..RawSize, Push!recv_rtsp_response(n)
    PROVE  PushInv'
<1> DEFINE piece == SubSeq(arriving, 1, n)
           old == response.raw
           raw == old \o piece
<1>1. /\ pc = "recv" /\ n \in 1..Len(arriving) /\ arriving' = SubSeq(arriving, n + 1, Len(arriving))
      /\ \/ response' = Push!Parsed(raw) /\ Push!Proceed(response')
         \/ response' = [response EXCEPT !.raw = raw] /\ UNCHANGED <<pc, request, unsent>>
      /\ UNCHANGED <<wire, answers>>
  BY DEF Push!recv_rtsp_response, Push!Receives, Push!serverVars
<1>2. /\ arriving \in Seq(In) /\ old \in Seq(In) /\ HeadIsAnswer /\ unsent = <<>>
      /\ request \in 1..5 /\ answers \in Seq(Push!Answer)
      /\ response \in [status : {"none"}, session : {None}, raw : Seq(In)]
  BY <1>1 DEF PushInv, PushTypeOK, AsksInTurn, AnswersInTurn
<1>3. piece \in Seq(In) /\ arriving' \in Seq(In) /\ piece \o arriving' = arriving /\ Len(piece) = n
  <2> DEFINE rest == SubSeq(arriving, n + 1, Len(arriving))
  <2> HIDE DEF old, raw
  <2>1. arriving \in Seq(In) /\ n \in 1..Len(arriving)
    BY <1>1, <1>2
  <2>2. piece \in Seq(In) /\ rest \in Seq(In) /\ piece \o rest = arriving /\ Len(piece) = n
    BY <2>1, Cut
  <2>3. arriving' = rest
    BY <1>1
  <2> HIDE DEF piece, rest
  <2> QED
    BY <2>2, <2>3
<1>4. Incoming = old \o arriving
  BY DEF Incoming
<1> HIDE DEF piece, old
<1>5. raw \in Seq(In) /\ Len(raw) \in Nat /\ Len(raw) >= 1
  BY <1>2, <1>3, ConcatProperties, LenProperties
<1>6. Incoming = raw \o arriving'
  <2>1. (old \o piece) \o arriving' = old \o (piece \o arriving')
    <3>1. old \in Seq(In) /\ piece \in Seq(In) /\ arriving' \in Seq(In)
      BY <1>2, <1>3
    <3> QED
      BY <3>1, Regroup
  <2> QED
    BY <1>3, <1>4, <2>1
<1>7. /\ Len(Incoming) = Len(raw) + Len(arriving') /\ Len(arriving') \in Nat
      /\ \A j \in 1..Len(raw) : Incoming[j] = raw[j]
      /\ \A j \in 1..Len(arriving') : Incoming[Len(raw) + j] = arriving'[j]
  <2> HIDE DEF raw
  <2> QED
    BY <1>3, <1>5, <1>6, Joined
<1>8. AskedCount' = AskedCount
  BY <1>1 DEF AskedCount
<1>9. CASE response' = [response EXCEPT !.raw = raw] /\ UNCHANGED <<pc, request, unsent>>
  <2> HIDE DEF raw
  <2>1. response' \in [status : {"none"}, session : {None}, raw : Seq(In)] /\ response'.raw = raw
    BY <1>2, <1>5, <1>9
  <2>2. Incoming' = Incoming
    BY <1>6, <2>1 DEF Incoming
  <2>3. PushTypeOK'
    BY <1>1, <1>3, <1>9, <2>1 DEF PushInv, PushTypeOK
  <2>4. AsksInTurn'
    BY <1>1, <1>8, <1>9 DEF PushInv, AsksInTurn
  <2>5. AnswersInTurn'
    BY <1>1, <1>2, <1>9, <2>2 DEF PushInv, AnswersInTurn, HeadIsAnswer, Push!AcceptedIsAnswer
  <2>6. SessionsAreNamed'
    BY <1>1, <1>9 DEF PushInv, SessionsAreNamed, NamesSession
  <2> QED
    BY <2>3, <2>4, <2>5, <2>6 DEF PushInv
<1>10. CASE response' = Push!Parsed(raw) /\ Push!Proceed(response')
  <2> HIDE DEF raw
  <2> DEFINE r == response'
  <2>1. ASSUME r.status = "2xx"
        PROVE  /\ Len(answers) = request /\ answers[request] \in Push!Answer
               /\ r.session = answers[request].session
               /\ NoHead(arriving')
               /\ \A j \in 1..request : answers[j].status = "2xx"
    <3>1. Push!Find("head", raw) = 1 /\ r.status = raw[1].is.status /\ r.session = raw[1].is.session
      BY <1>2, <1>10, <2>1 DEF Push!Parsed
    <3>2. 1 \in 1..Len(Incoming) /\ Incoming[1].kind = "head" /\ Incoming[1] = raw[1]
      BY <1>5, <1>7, <3>1, FindHead
    <3>3. /\ Len(answers) = request /\ Incoming[1].is = answers[request]
          /\ \A l \in 1..Len(Incoming) : Incoming[l].kind = "head" => l = 1
      BY <1>2, <3>2 DEF HeadIsAnswer
    <3>4. NoHead(arriving')
      <4> SUFFICES ASSUME NEW j \in 1..Len(arriving') PROVE arriving'[j].kind # "head"
        BY DEF NoHead
      <4>1. Len(raw) + j \in 1..Len(Incoming) /\ Len(raw) + j # 1 /\ Incoming[Len(raw) + j] = arriving'[j]
        BY <1>5, <1>7
      <4> QED
        BY <3>3, <4>1
    <3>5. answers[request] \in Push!Answer
      BY <1>2, <3>3, ElementOfSeq
    <3>6. answers[request].status = "2xx"
      BY <2>1, <3>1, <3>2, <3>3
    <3>7. \A j \in 1..(request - 1) : answers[j].status = "2xx"
      BY DEF PushInv, AnswersInTurn, Push!AcceptedIsAnswer
    <3> QED
      BY <1>2, <3>1, <3>2, <3>3, <3>4, <3>5, <3>6, <3>7
  <2>2. None \in Session /\ \A a \in Push!Answer : a.session \in Session
    BY DEF Session, Push!Answer
  <2>3. CASE request < 3 /\ r.status = "2xx" /\ Push!StartRequest(request + 1, None)
    <3>1. request + 1 \in 1..5 /\ request + 1 # 4 /\ request + 1 # 5
      BY <1>2, <2>3
    <3> QED
      BY <1>1, <1>3, <2>1, <2>2, <2>3, <3>1, PushStarts
  <2>4. CASE request = 3 /\ r.status = "2xx" /\ r.session # None /\ Push!StartRequest(4, r.session)
    BY <1>1, <1>3, <2>1, <2>2, <2>4, PushStarts
  <2>5. CASE /\ request = 4 /\ r.status = "2xx"
             /\ pc' = "frames" /\ unsent' = Push!Request("frame", None) /\ request' = request
    BY <1>1, <1>3, <2>1, <2>5, PushStreams
  <2>6. CASE pc' = "ended" /\ UNCHANGED <<request, unsent>>
    <3>1. PushTypeOK'
      BY <1>1, <1>3, <2>6 DEF PushInv, PushTypeOK
    <3>2. AsksInTurn'
      BY <1>1, <1>8, <2>6 DEF PushInv, AsksInTurn
    <3>3. AnswersInTurn'
      BY <1>1, <2>6 DEF PushInv, AnswersInTurn, Push!AcceptedIsAnswer
    <3>4. SessionsAreNamed'
      BY <1>1, <2>6 DEF PushInv, SessionsAreNamed, NamesSession
    <3> QED
      BY <3>1, <3>2, <3>3, <3>4 DEF PushInv
  <2> QED
    BY <1>10, <2>3, <2>4, <2>5, <2>6 DEF Push!Proceed
<1> QED
  BY <1>1, <1>9, <1>10

LEMMA PushStep ==
    ASSUME PushInv, program = "push", [Push!Next]_<<pc, socket_, peer_, push_>>
    PROVE  PushInv'
<1>1. CASE Push!tcp_connect
  <2>1. CASE Push!StartRequest(1, None)
    <3>1. UNCHANGED <<wire, arriving, answers>> /\ pc = "start"
      BY <1>1 DEF Push!tcp_connect, Push!serverVars
    <3>2. request = 0 /\ Len(answers) = 0 /\ arriving' \in Seq(In) /\ NoHead(arriving') /\ None \in Session
      BY <3>1, CountIsNat DEF PushInv, PushTypeOK, AsksInTurn, AnswersInTurn, Session
    <3> QED
      BY <2>1, <3>1, <3>2, PushStarts
  <2>2. CASE pc' = "ended" /\ UNCHANGED <<request, unsent>>
    BY <1>1, <2>2, PushRests DEF Push!tcp_connect, Push!serverVars
  <2> QED
    BY <1>1, <2>1, <2>2 DEF Push!tcp_connect
<1>2. ASSUME NEW n \in 1..RawSize,
             Push!SendRequest(n) \/ Push!send_demo_interleaved_rtp(n) \/ Push!recv_rtsp_response(n)
      PROVE  PushInv'
  BY <1>2, PushSendsRequest, PushSendsFrames, PushReceives
<1>3. CASE Push!NextFrame
  <2>1. pc = "frames" /\ UNCHANGED <<wire, arriving, answers, response>>
    BY <1>3 DEF Push!NextFrame, Push!serverVars
  <2>2. CASE unsent' = Push!Request("frame", None) /\ UNCHANGED <<pc, request>>
    <3>1. /\ request = 4 /\ Len(answers) = 4 /\ answers[4].status = "2xx"
          /\ response'.session = answers[4].session
          /\ arriving' \in Seq(In) /\ NoHead(arriving')
      BY <2>1 DEF PushInv, PushTypeOK, AsksInTurn, AnswersInTurn
    <3> QED
      BY <2>1, <2>2, <3>1, PushStreams
  <2>3. CASE Push!StartRequest(5, response.session)
    BY <2>1, <2>3, PushTearsDown
  <2> QED
    BY <1>3, <2>2, <2>3 DEF Push!NextFrame
<1>4. CASE Push!SendFails
  <2>1. UNCHANGED <<wire, arriving, answers, response>>
    BY <1>4 DEF Push!SendFails, Push!serverVars
  <2>2. CASE pc' = "ended" /\ UNCHANGED <<unsent, request>>
    BY <2>1, <2>2, PushRests
  <2>3. CASE pc = "frames" /\ Push!StartRequest(5, response.session)
    BY <2>1, <2>3, PushTearsDown
  <2> QED
    BY <1>4, <2>2, <2>3 DEF Push!SendFails
<1>5. CASE Push!Killed({"send", "frames"}) /\ UNCHANGED <<Push!serverVars, request, response, frames>>
  BY <1>5, PushRests DEF Push!Killed, Push!serverVars
<1>6. CASE Push!recv_fails
  BY <1>6, PushRests DEF Push!recv_fails, Push!serverVars
<1>7. CASE Push!ServerAnswersOrHangsUp /\ UNCHANGED <<request, response, frames>>
  <2>1. CASE Push!ServerHangsUp
    BY <1>7, <2>1, PushRests DEF Push!ServerHangsUp, Push!serverVars
  <2>2. ASSUME NEW a \in Push!Answer, Push!ServerAnswers(a) PROVE PushInv'
    BY <1>7, <2>2, PushAnswers
  <2> QED
    BY <1>7, <2>1, <2>2 DEF Push!ServerAnswersOrHangsUp
<1>8. CASE Push!ServerSendsFrame /\ UNCHANGED <<request, response, frames>>
  BY <1>8, PushFrameComes
<1>9. CASE UNCHANGED <<pc, socket_, peer_, push_>>
  BY <1>9, PushRests DEF socket_, peer_, push_
<1> QED
  BY <1>1, <1>2, <1>3, <1>4, <1>5, <1>6, <1>7, <1>8, <1>9 DEF Push!Next, Push!OwnStep, Push!ServerStep

LEMMA PushInit ==
    ASSUME Push!Init
    PROVE  PushInv
<1>1. /\ pc = "start" /\ unsent = <<>> /\ wire = <<>> /\ arriving = <<>> /\ answers = <<>>
      /\ request = 0
  BY DEF Push!Init, Push!SocketInit, Push!ServerInit
<1>2. /\ wire \in Seq(Out) /\ unsent \in Seq(Out) /\ arriving \in Seq(In) /\ answers \in Seq(Push!Answer)
      /\ Len(wire) = 0 /\ Len(unsent) = 0 /\ Len(arriving) = 0 /\ Len(answers) = 0
  BY <1>1
<1>3. AskedCount = 0
  <2>1. AskedIn(wire) = {}
    BY <1>2 DEF AskedIn
  <2> QED
    BY <2>1, FS_EmptySet DEF AskedCount
<1>4. PushTypeOK
  BY <1>1, <1>2 DEF PushTypeOK
<1>5. AsksInTurn
  BY <1>1, <1>2, <1>3 DEF AsksInTurn, OneLast
<1>6. AnswersInTurn
  BY <1>1, <1>2 DEF AnswersInTurn, Push!AcceptedIsAnswer, NoHead
<1>7. SessionsAreNamed
  BY <1>2 DEF SessionsAreNamed
<1> QED
  BY <1>4, <1>5, <1>6, <1>7 DEF PushInv

-----------------------------------------------------------------------------
(* rtsp_client_demo *)

(* What was printed for an earlier request is not all of its answer.       *)
Spoilt(k, prints, replies) ==
    \E j \in 1..(k - 1) : j <= Len(replies) /\ prints[j] # Client!Pieces(replies[j])

ClientTypeOK ==
    /\ pc \in {"start", "send", "recv", "ended"}
    /\ wire \in Seq(Out)
    /\ unsent \in Seq(Out)
    /\ arriving \in Seq(In)
    /\ answers \in Seq(Client!Answer)
    /\ asking \in 0..3
    /\ shown \in Seq(Seq(In))

ClientAsksInTurn ==
    /\ OneLast(unsent)
    /\ Len(answers) <= AskedCount
    /\ AskedCount <= asking
    /\ pc = "start" => asking = 0 /\ unsent = <<>> /\ shown = <<>> /\ arriving = <<>>
    /\ pc \in {"send", "recv"} => asking \in 1..2 /\ Len(shown) = asking - 1
    /\ pc = "send" => AskedCount < asking
    /\ pc = "recv" => unsent = <<>>

ShowsAnswers ==
    \A k \in 1..Len(shown) :
        \/ Spoilt(k, shown, answers)
        \/ shown[k] = <<>>
        \/ k <= Len(answers) /\ Client!IsPrefix(shown[k], Client!Pieces(answers[k]))

(* As long as all was printed, nothing but the answer is on the way.       *)
OnlyTheAnswer ==
    pc \in {"send", "recv"} =>
        \/ Spoilt(asking, shown, answers)
        \/ arriving = <<>> /\ Len(answers) < asking
        \/ Len(answers) = asking /\ arriving = Client!Pieces(answers[asking])

ClientInv == ClientTypeOK /\ ClientAsksInTurn /\ ShowsAnswers /\ OnlyTheAnswer

LEMMA ClientPieces ==
    ASSUME NEW a \in Client!Answer
    PROVE  /\ Client!Pieces(a) \in Seq(In)
           /\ Client!Pieces(a) # <<>>
<1>1. Client!Answer = Push!Answer
  BY DEF Client!Answer, Push!Answer
<1>2. Client!Pieces(a) = Push!Pieces(a)
  BY DEF Client!Pieces, Push!Pieces, Client!Piece, Push!Piece
<1>3. Push!Pieces(a) \in Seq(In) /\ Len(Push!Pieces(a)) >= 2
  BY <1>1, AnswerPieces
<1>4. Push!Pieces(a) # <<>>
  BY <1>3, EmptySeq
<1> QED
  BY <1>2, <1>3, <1>4

LEMMA ClientRests ==
    ASSUME ClientInv, pc' \in {pc, "ended"},
           UNCHANGED <<unsent, wire, arriving, answers, asking, shown>>
    PROVE  ClientInv'
<1>1. AskedCount' = AskedCount
  BY DEF AskedCount
<1>2. ClientTypeOK'
  BY DEF ClientInv, ClientTypeOK
<1>3. ClientAsksInTurn'
  BY <1>1 DEF ClientInv, ClientAsksInTurn
<1>4. ShowsAnswers'
  BY DEF ClientInv, ShowsAnswers
<1>5. OnlyTheAnswer'
  BY DEF ClientInv, OnlyTheAnswer
<1> QED
  BY <1>2, <1>3, <1>4, <1>5 DEF ClientInv

LEMMA ClientAnswers ==
    ASSUME ClientInv, NEW a \in Client!Answer, Client!ServerAnswers(a), UNCHANGED <<asking, shown>>
    PROVE  ClientInv'
<1> DEFINE A == Len(answers)
           new == Client!Pieces(a)
<1>1. /\ wire \in Seq(Out) /\ arriving \in Seq(In) /\ answers \in Seq(Client!Answer) /\ asking \in 0..3
      /\ A \in Nat /\ AskedCount \in Nat
  BY AskedFinite, LenProperties DEF ClientInv, ClientTypeOK, AskedCount
<1>2. /\ A < AskedCount
      /\ answers' = Append(answers, a) /\ arriving' = arriving \o new
      /\ UNCHANGED <<pc, unsent, wire, hungup, broken, framed>>
  BY <1>1, AskedIsAskedIn DEF Client!ServerAnswers
<1>3. AskedCount' = AskedCount
  BY <1>2 DEF AskedCount
<1>4. /\ answers' \in Seq(Client!Answer) /\ Len(answers') = A + 1
      /\ \A k \in 1..A : answers'[k] = answers[k]
      /\ answers'[A + 1] = a
  BY <1>1, <1>2, AppendProperties
<1>5. new \in Seq(In) /\ new # <<>>
  BY ClientPieces
<1> HIDE DEF new
<1>6. arriving' \in Seq(In) /\ (arriving = <<>> => arriving' = new)
  BY <1>1, <1>2, <1>5, ConcatProperties, ConcatEmptySeq
<1>7. ASSUME NEW k \in Nat, Spoilt(k, shown, answers) PROVE Spoilt(k, shown', answers')
  BY <1>1, <1>4, <1>7 DEF Spoilt
<1>8. ClientTypeOK'
  BY <1>2, <1>4, <1>6 DEF ClientInv, ClientTypeOK
<1>9. ClientAsksInTurn'
  BY <1>1, <1>2, <1>3, <1>4 DEF ClientInv, ClientAsksInTurn
<1>10. Len(shown) \in Nat
  BY LenProperties DEF ClientInv, ClientTypeOK
<1>11. ShowsAnswers'
  <2> SUFFICES ASSUME NEW k \in 1..Len(shown')
               PROVE  \/ Spoilt(k, shown', answers')
                      \/ shown'[k] = <<>>
                      \/ k <= Len(answers') /\ Client!IsPrefix(shown'[k], Client!Pieces(answers'[k]))
    BY DEF ShowsAnswers
  <2>1. \/ Spoilt(k, shown, answers)
        \/ shown[k] = <<>>
        \/ k <= A /\ Client!IsPrefix(shown[k], Client!Pieces(answers[k]))
    BY DEF ClientInv, ShowsAnswers
  <2>2. k <= A => k <= Len(answers') /\ answers'[k] = answers[k]
    BY <1>1, <1>4, <1>10
  <2> QED
    BY <1>7, <1>10, <2>1, <2>2
<1>12. ASSUME pc \in {"send", "recv"}, ~Spoilt(asking, shown', answers')
       PROVE  Len(answers') = asking /\ arriving' = Client!Pieces(answers'[asking])
  <2>1. A < asking /\ asking \in 1..2 /\ Len(shown) = asking - 1
    BY <1>1, <1>2, <1>12 DEF ClientInv, ClientAsksInTurn
  <2>2. ~Spoilt(asking, shown, answers)
    BY <1>7, <1>12, <2>1
  <2>3. arriving = <<>>
    BY <1>1, <1>12, <2>1, <2>2 DEF ClientInv, OnlyTheAnswer
  <2>4. A + 1 = asking
    <3> SUFFICES ASSUME A + 1 < asking PROVE FALSE
      BY <1>1, <2>1
    <3>1. A + 1 \in 1..Len(shown) /\ A + 1 \in 1..(asking - 1) /\ A + 1 <= Len(answers')
      BY <1>1, <1>4, <2>1
    <3>2. shown[A + 1] = Client!Pieces(a)
      BY <1>4, <1>12, <3>1 DEF Spoilt
    <3>3. ~Spoilt(A + 1, shown, answers)
      BY <1>1, <2>1, <2>2 DEF Spoilt
    <3>4. ~(A + 1 <= A)
      BY <1>1
    <3>5. shown[A + 1] = <<>>
      BY <3>1, <3>3, <3>4 DEF ClientInv, ShowsAnswers
    <3> QED
      BY <1>5, <3>2, <3>5 DEF new
  <2> QED
    BY <1>4, <1>6, <2>3, <2>4 DEF new
<1>13. OnlyTheAnswer'
  BY <1>2, <1>12 DEF OnlyTheAnswer
<1> QED
  BY <1>8, <1>9, <1>11, <1>13 DEF ClientInv

(* What is printed for this request leaves what was printed before.        *)
LEMMA ClientPrints ==
    ASSUME ClientInv, pc \in {"send", "recv"}, NEW x \in Seq(In), shown' = Append(shown, x),
           answers' = answers,
           \/ Spoilt(asking, shown, answers)
           \/ x = <<>>
           \/ asking <= Len(answers) /\ Client!IsPrefix(x, Client!Pieces(answers[asking]))
    PROVE  /\ ShowsAnswers'
           /\ shown' \in Seq(Seq(In)) /\ Len(shown') = asking
           /\ asking \in 1..2
           /\ Spoilt(asking, shown, answers) => Spoilt(asking + 1, shown', answers')
           /\ asking <= Len(answers) /\ ~Spoilt(asking + 1, shown', answers')
                  => x = Client!Pieces(answers[asking])
<1>1. /\ shown \in Seq(Seq(In)) /\ asking \in 1..2 /\ Len(shown) = asking - 1
  BY DEF ClientInv, ClientTypeOK, ClientAsksInTurn
<1>2. /\ shown' \in Seq(Seq(In)) /\ Len(shown') = asking
      /\ \A k \in 1..(asking - 1) : shown'[k] = shown[k]
      /\ shown'[asking] = x
  <2>1. /\ shown' \in Seq(Seq(In)) /\ Len(shown') = Len(shown) + 1
        /\ \A k \in 1..Len(shown) : shown'[k] = shown[k]
        /\ shown'[Len(shown) + 1] = x
    BY <1>1, AppendProperties
  <2>2. (asking - 1) + 1 = asking
    BY <1>1
  <2> QED
    BY <1>1, <2>1, <2>2
<1>3. ASSUME NEW k \in 1..asking PROVE Spoilt(k, shown', answers') <=> Spoilt(k, shown, answers)
  BY <1>1, <1>2 DEF Spoilt
<1>4. Spoilt(asking, shown, answers) => Spoilt(asking + 1, shown', answers')
  BY <1>1, <1>2 DEF Spoilt
<1>5. ShowsAnswers'
  <2> SUFFICES ASSUME NEW k \in 1..asking
               PROVE  \/ Spoilt(k, shown', answers')
                      \/ shown'[k] = <<>>
                      \/ k <= Len(answers) /\ Client!IsPrefix(shown'[k], Client!Pieces(answers[k]))
    BY <1>2 DEF ShowsAnswers
  <2>1. CASE k = asking
    BY <1>1, <1>2, <1>3, <2>1
  <2>2. CASE k \in 1..Len(shown)
    <3>1. shown'[k] = shown[k]
      BY <1>1, <1>2, <2>2
    <3> QED
      BY <1>3, <2>2, <3>1 DEF ClientInv, ShowsAnswers
  <2> QED
    BY <1>1, <2>1, <2>2
<1>6. ASSUME asking <= Len(answers), ~Spoilt(asking + 1, shown', answers')
      PROVE  x = Client!Pieces(answers[asking])
  <2>1. asking \in 1..((asking + 1) - 1)
    BY <1>1
  <2> QED
    BY <1>2, <1>6, <2>1 DEF Spoilt
<1> QED
  BY <1>1, <1>2, <1>4, <1>5, <1>6

LEMMA ClientStarts ==
    ASSUME ClientInv, asking \in 0..2, Client!StartRequest(asking + 1),
           ShowsAnswers', shown' \in Seq(Seq(In)), Len(shown') = asking,
           UNCHANGED <<wire, answers>>, arriving' \in Seq(In),
           Spoilt(asking + 1, shown', answers') \/ (arriving' = <<>> /\ Len(answers) <= asking)
    PROVE  ClientInv'
<1>1. asking' = asking + 1 /\ asking' \in 1..3 /\ Len(answers) \in Nat
  BY LenProperties DEF Client!StartRequest, ClientInv, ClientTypeOK
<1>2. /\ unsent' \in Seq(Out) /\ OneLast(unsent')
      /\ (pc' = "send" /\ asking' \in 1..2) \/ pc' = "ended"
  <2>1. Len(Client!Methods) = 2
    BY DEF Client!Methods
  <2>2. CASE asking + 1 <= 2
    <3> DEFINE m == Client!Methods[asking + 1]
    <3>1. m \in Name
      <4>1. asking + 1 = 1 \/ asking + 1 = 2
        BY <2>2
      <4>2. Client!Methods[1] = "OPTIONS" /\ Client!Methods[2] = "DESCRIBE"
        BY DEF Client!Methods
      <4> QED
        BY <4>1, <4>2 DEF Name
    <3>2. unsent' = Client!Request(m, None) /\ pc' = "send"
      BY <2>1, <2>2 DEF Client!StartRequest
    <3>3. None \in Session
      BY DEF Session
    <3> HIDE DEF m
    <3>4. OneMessage(unsent')
      BY <3>1, <3>2, <3>3, RequestIsMessage
    <3> QED
      BY <1>1, <2>2, <3>2, <3>4 DEF OneMessage
  <2>3. CASE ~(asking + 1 <= 2)
    <3>1. unsent' = <<>> /\ pc' = "ended"
      BY <2>1, <2>3 DEF Client!StartRequest
    <3> QED
      BY <3>1 DEF OneLast
  <2> QED
    BY <2>2, <2>3
<1>3. AskedCount' = AskedCount /\ AskedCount \in Nat
  BY AskedFinite DEF AskedCount, ClientInv, ClientTypeOK
<1>4. ClientTypeOK'
  BY <1>1, <1>2 DEF ClientInv, ClientTypeOK
<1>5. ClientAsksInTurn'
  BY <1>1, <1>2, <1>3 DEF ClientInv, ClientAsksInTurn
<1>6. OnlyTheAnswer'
  BY <1>1 DEF OnlyTheAnswer
<1> QED
  BY <1>4, <1>5, <1>6 DEF ClientInv

LEMMA ClientSends ==
    ASSUME ClientInv, NEW n \in 1..5, Client!send_all(n)
    PROVE  ClientInv'
<1>1. /\ pc = "send" /\ n \in 1..Len(unsent) /\ Client!Sends(n)
      /\ pc' = (IF unsent' = <<>> THEN "recv" ELSE pc)
      /\ UNCHANGED <<arriving, answers, asking, shown>>
  BY DEF Client!send_all, Client!serverVars
<1>2. Push!Sends(n)
  BY <1>1 DEF Client!Sends, Push!Sends
<1>3. wire \in Seq(Out) /\ unsent \in Seq(Out) /\ OneLast(unsent) /\ asking \in Nat
  BY DEF ClientInv, ClientTypeOK, ClientAsksInTurn
<1>4. /\ wire' \in Seq(Out) /\ unsent' \in Seq(Out) /\ OneLast(unsent')
      /\ AskedCount \in Nat /\ AskedCount' \in Nat
      /\ AskedCount' <= AskedCount + 1 /\ AskedCount <= AskedCount'
      /\ unsent' # <<>> => AskedCount' = AskedCount
  BY <1>1, <1>2, <1>3, SendAsks
<1>5. Len(answers) \in Nat
  BY LenProperties DEF ClientInv, ClientTypeOK
<1>6. ClientTypeOK'
  BY <1>1, <1>4 DEF ClientInv, ClientTypeOK
<1>7. ClientAsksInTurn'
  BY <1>1, <1>3, <1>4, <1>5 DEF ClientInv, ClientAsksInTurn
<1>8. ShowsAnswers'
  BY <1>1 DEF ClientInv, ShowsAnswers
<1>9. OnlyTheAnswer'
  BY <1>1 DEF ClientInv, OnlyTheAnswer
<1> QED
  BY <1>6, <1>7, <1>8, <1>9 DEF ClientInv

LEMMA ClientReceives ==
    ASSUME ClientInv, NEW n \in 1..5, Client!recv_and_print_once(n)
    PROVE  ClientInv'
<1> DEFINE x == SubSeq(arriving, 1, n)
<1>1. /\ pc = "recv" /\ n \in 1..Len(arriving) /\ arriving' = SubSeq(arriving, n + 1, Len(arriving))
      /\ shown' = Append(shown, x) /\ Client!StartRequest(asking + 1)
      /\ UNCHANGED <<wire, answers>>
  BY DEF Client!recv_and_print_once, Client!Receives, Client!serverVars
<1>2. arriving \in Seq(In) /\ asking \in 1..2 /\ answers \in Seq(Client!Answer) /\ Len(answers) \in Nat
  BY <1>1, LenProperties DEF ClientInv, ClientTypeOK, ClientAsksInTurn
<1>3. x \in Seq(In) /\ arriving' \in Seq(In) /\ Len(x) = n /\ Len(arriving') = Len(arriving) - n
      /\ Len(arriving) \in Nat
  <2>1. n \in 1..Len(arriving)
    BY <1>1
  <2> QED
    BY <1>1, <1>2, <2>1, Cut
<1>4. \/ Spoilt(asking, shown, answers)
      \/ Len(answers) = asking /\ arriving = Client!Pieces(answers[asking])
  <2>1. arriving # <<>>
    BY <1>1, <1>2, EmptySeq
  <2> QED
    BY <1>1, <2>1 DEF ClientInv, OnlyTheAnswer
<1>5. Len(arriving) >= n /\ SubSeq(arriving, 1, Len(x)) = x /\ SubSeq(x, 1, Len(x)) = x
  BY <1>1, <1>2, <1>3, SubSeqFull
<1>6. Client!IsPrefix(x, arriving)
  BY <1>3, <1>5 DEF Client!IsPrefix
<1> HIDE DEF x
<1>7. /\ ShowsAnswers'
      /\ shown' \in Seq(Seq(In)) /\ Len(shown') = asking
      /\ Spoilt(asking, shown, answers) => Spoilt(asking + 1, shown', answers')
      /\ asking <= Len(answers) /\ ~Spoilt(asking + 1, shown', answers')
             => x = Client!Pieces(answers[asking])
  BY <1>1, <1>2, <1>3, <1>4, <1>6, ClientPrints
<1>8. Spoilt(asking + 1, shown', answers') \/ (arriving' = <<>> /\ Len(answers) <= asking)
  <2> SUFFICES ASSUME ~Spoilt(asking + 1, shown', answers') PROVE arriving' = <<>> /\ Len(answers) <= asking
    OBVIOUS
  <2>1. Len(answers) = asking /\ x = arriving
    BY <1>2, <1>4, <1>7
  <2>2. Len(arriving') = 0
    BY <1>3, <2>1
  <2> QED
    BY <1>2, <1>3, <2>1, <2>2, EmptySeq
<1> QED
  BY <1>1, <1>2, <1>3, <1>7, <1>8, ClientStarts

(* Nothing came, or the request could not be sent.                         *)
LEMMA ClientPrintsNothing ==
    ASSUME ClientInv, pc \in {"send", "recv"}, shown' = Append(shown, <<>>),
           pc = "recv" => arriving = <<>>,
           Client!StartRequest(asking + 1), UNCHANGED <<wire, arriving, answers>>
    PROVE  ClientInv'
<1>1. <<>> \in Seq(In) /\ asking \in 1..2 /\ Len(answers) \in Nat /\ AskedCount \in Nat /\ arriving \in Seq(In)
  BY LenProperties, AskedFinite DEF ClientInv, ClientTypeOK, ClientAsksInTurn, AskedCount
<1>2. /\ ShowsAnswers'
      /\ shown' \in Seq(Seq(In)) /\ Len(shown') = asking
      /\ Spoilt(asking, shown, answers) => Spoilt(asking + 1, shown', answers')
  BY <1>1, ClientPrints
<1>3. pc = "send" => Len(answers) < asking
  BY <1>1 DEF ClientInv, ClientAsksInTurn
<1>4. Spoilt(asking, shown, answers) \/ (arriving = <<>> /\ Len(answers) <= asking)
  BY <1>1, <1>3 DEF ClientInv, OnlyTheAnswer
<1> QED
  BY <1>1, <1>2, <1>4, ClientStarts

LEMMA ClientStep ==
    ASSUME ClientInv, [Client!Next]_<<pc, socket_, peer_, client_>>
    PROVE  ClientInv'
<1>1. CASE Client!tcp_connect
  <2>1. pc = "start" /\ UNCHANGED <<wire, arriving, answers, shown>>
    BY <1>1 DEF Client!tcp_connect, Client!serverVars
  <2>2. CASE Client!StartRequest(1)
    <3>1. /\ asking = 0 /\ shown = <<>> /\ arriving = <<>> /\ shown \in Seq(Seq(In)) /\ arriving \in Seq(In)
          /\ Len(answers) \in Nat /\ AskedCount \in Nat /\ Len(answers) <= AskedCount /\ AskedCount <= asking
      BY <2>1, LenProperties, AskedFinite DEF ClientInv, ClientTypeOK, ClientAsksInTurn, AskedCount
    <3>2. Len(shown) = 0 /\ Len(answers) = 0 /\ asking + 1 = 1
      BY <3>1
    <3>3. ShowsAnswers'
      BY <2>1, <3>2 DEF ShowsAnswers
    <3> QED
      BY <2>1, <2>2, <3>1, <3>2, <3>3, ClientStarts
  <2>3. CASE pc' = "ended" /\ UNCHANGED <<asking, unsent>>
    BY <2>1, <2>3, ClientRests
  <2> QED
    BY <1>1, <2>2, <2>3 DEF Client!tcp_connect
<1>2. ASSUME NEW n \in 1..5, Client!send_all(n) \/ Client!recv_and_print_once(n) PROVE ClientInv'
  BY <1>2, ClientSends, ClientReceives
<1>3. CASE Client!send_fails
  BY <1>3, ClientPrintsNothing DEF Client!send_fails, Client!serverVars
<1>4. CASE Client!Killed({"send"}) /\ UNCHANGED <<Client!serverVars, asking, shown>>
  BY <1>4, ClientRests DEF Client!Killed, Client!serverVars
<1>5. CASE Client!nothing_to_print
  BY <1>5, ClientPrintsNothing DEF Client!nothing_to_print, Client!NothingComes, Client!serverVars
<1>6. CASE Client!ServerAnswersOrHangsUp /\ UNCHANGED <<asking, shown>>
  <2>1. CASE Client!ServerHangsUp
    BY <1>6, <2>1, ClientRests DEF Client!ServerHangsUp, Client!serverVars
  <2>2. ASSUME NEW a \in Client!Answer, Client!ServerAnswers(a) PROVE ClientInv'
    BY <1>6, <2>2, ClientAnswers
  <2> QED
    BY <1>6, <2>1, <2>2 DEF Client!ServerAnswersOrHangsUp
<1>7. CASE UNCHANGED <<pc, socket_, peer_, client_>>
  BY <1>7, ClientRests DEF socket_, peer_, client_
<1> QED
  BY <1>1, <1>2, <1>3, <1>4, <1>5, <1>6, <1>7 DEF Client!Next, Client!OwnStep, Client!ServerStep

LEMMA ClientInit ==
    ASSUME Client!Init
    PROVE  ClientInv
<1>1. /\ pc = "start" /\ unsent = <<>> /\ wire = <<>> /\ arriving = <<>> /\ answers = <<>>
      /\ asking = 0 /\ shown = <<>>
  BY DEF Client!Init, Client!SocketInit, Client!ServerInit
<1>2. /\ wire \in Seq(Out) /\ unsent \in Seq(Out) /\ arriving \in Seq(In) /\ answers \in Seq(Client!Answer)
      /\ shown \in Seq(Seq(In))
      /\ Len(wire) = 0 /\ Len(unsent) = 0 /\ Len(answers) = 0 /\ Len(shown) = 0
  BY <1>1
<1>3. AskedCount = 0
  <2>1. AskedIn(wire) = {}
    BY <1>2 DEF AskedIn
  <2> QED
    BY <2>1, FS_EmptySet DEF AskedCount
<1> QED
  BY <1>1, <1>2, <1>3 DEF ClientInv, ClientTypeOK, ClientAsksInTurn, ShowsAnswers, OnlyTheAnswer, OneLast

-----------------------------------------------------------------------------
(* mqtt_client_demo *)

MqttInv ==
    /\ pc \in {"start", "send", "sent", "recv", "ended"}
    /\ wire \in Seq(Out)
    /\ unsent \in Seq(Out)
    /\ OneLast(unsent)
    /\ pc \in {"start", "sent", "recv"} => unsent = <<>>
    /\ step \in Nat
    /\ connack \in {"none", "accepted", "refused"}
    /\ arriving \in Seq({"header", "accepted", "refused"})
    /\ \A j \in 1..Len(arriving) : arriving[j] \in {"header", connack}
    /\ MqttDemo!ConnackIsTrue

LEMMA MqttGoesOn ==
    ASSUME step \in Nat, MqttDemo!GoOn
    PROVE  /\ step' \in Nat /\ pc' \in {"send", "ended"}
           /\ unsent' = <<>> \/ OneMessage(unsent')
           /\ unsent' \in Seq(Out) /\ OneLast(unsent')
<1>1. Len(MqttDemo!Packets) = 4 /\ step' = step + 1
  BY DEF MqttDemo!Packets, MqttDemo!GoOn
<1>2. CASE step < 4
  <2>1. step + 1 \in 1..4 /\ unsent' = MqttDemo!Packet(step + 1) /\ pc' = "send"
    BY <1>1, <1>2 DEF MqttDemo!GoOn
  <2>2. OneMessage(unsent')
    BY <2>1, RequestIsMessage
  <2> QED
    BY <1>1, <2>1, <2>2 DEF OneMessage
<1>3. CASE ~(step < 4)
  <2>1. unsent' = <<>> /\ pc' = "ended"
    BY <1>1, <1>3 DEF MqttDemo!GoOn
  <2> QED
    BY <1>1, <2>1 DEF OneLast
<1> QED
  BY <1>2, <1>3

(* "success" needs the broker's code among the bytes.                      *)
LEMMA MqttReceives ==
    ASSUME MqttInv, NEW n \in 0..2, MqttDemo!recv_connack(n)
    PROVE  MqttInv'
<1> DEFINE bytes == SubSeq(arriving, 1, n)
           Byte == {"header", "accepted", "refused"}
<1>1. /\ n \in 1..Len(arriving) \/ (n = 0 /\ arriving = <<>>)
      /\ arriving' = SubSeq(arriving, n + 1, Len(arriving))
      /\ report' = (IF MqttDemo!Accepts(bytes) THEN "success" ELSE "failed")
      /\ MqttDemo!GoOn
      /\ UNCHANGED <<wire, connack>>
  BY DEF MqttDemo!recv_connack, MqttDemo!Receives, MqttDemo!NothingComes
<1>2. arriving \in Seq(Byte) /\ step \in Nat
  BY DEF MqttInv
<1>3. /\ step' \in Nat /\ pc' \in {"send", "ended"}
      /\ unsent' \in Seq(Out) /\ OneLast(unsent')
  BY <1>1, <1>2, MqttGoesOn
<1> HIDE DEF Byte
<1>4. CASE n \in 1..Len(arriving)
  <2>1. /\ bytes \in Seq(Byte) /\ arriving' \in Seq(Byte)
        /\ Len(bytes) = n /\ Len(arriving') = Len(arriving) - n /\ Len(arriving) \in Nat
        /\ \A j \in 1..n : bytes[j] = arriving[j]
        /\ \A j \in 1..(Len(arriving) - n) : arriving'[j] = arriving[n + j]
    BY <1>1, <1>2, <1>4, Cut
  <2> HIDE DEF bytes
  <2>2. MqttDemo!Accepts(bytes) => connack = "accepted"
    <3> SUFFICES ASSUME bytes = <<"header", "accepted">> PROVE connack = "accepted"
      BY DEF MqttDemo!Accepts
    <3>1. Len(bytes) = 2 /\ bytes[2] = "accepted"
      OBVIOUS
    <3>2. 2 \in 1..Len(arriving) /\ arriving[2] = "accepted"
      BY <1>4, <2>1, <3>1
    <3> QED
      BY <3>2 DEF MqttInv
  <2>3. \A j \in 1..Len(arriving') : arriving'[j] \in {"header", connack}
    <3> SUFFICES ASSUME NEW j \in 1..Len(arriving') PROVE arriving'[j] \in {"header", connack}
      OBVIOUS
    <3>1. n + j \in 1..Len(arriving) /\ arriving'[j] = arriving[n + j]
      BY <1>4, <2>1
    <3> QED
      BY <3>1 DEF MqttInv
  <2> QED
    BY <1>1, <1>3, <2>1, <2>2, <2>3 DEF MqttInv, MqttDemo!ConnackIsTrue, Byte
<1>5. CASE n = 0 /\ arriving = <<>>
  <2>1. bytes = <<>> /\ arriving' = <<>>
    BY <1>1, <1>5
  <2>2. ~MqttDemo!Accepts(bytes)
    <3> HIDE DEF bytes
    <3>1. Len(bytes) = 0
      BY <2>1
    <3>2. MqttDemo!Accepts(bytes) => Len(bytes) = 2
      BY DEF MqttDemo!Accepts
    <3> QED
      BY <3>1, <3>2
  <2> HIDE DEF bytes
  <2>3. report' = "failed"
    BY <1>1, <2>2
  <2> QED
    BY <1>1, <1>3, <2>1, <2>3 DEF MqttInv, MqttDemo!ConnackIsTrue
<1> QED
  BY <1>1, <1>4, <1>5

LEMMA MqttStep ==
    ASSUME MqttInv, [MqttDemo!Next]_<<pc, socket_, mqtt_>>
    PROVE  MqttInv'
<1>1. CASE MqttDemo!tcp_connect \/ MqttDemo!AfterPacket
  <2>1. UNCHANGED <<wire, arriving, connack, report>> /\ pc \in {"start", "sent"}
    BY <1>1 DEF MqttDemo!tcp_connect, MqttDemo!AfterPacket
  <2>2. CASE MqttDemo!GoOn
    <3>1. /\ step' \in Nat /\ pc' \in {"send", "ended"}
          /\ unsent' \in Seq(Out) /\ OneLast(unsent')
      BY <2>2, MqttGoesOn DEF MqttInv
    <3> QED
      BY <2>1, <3>1 DEF MqttInv, MqttDemo!ConnackIsTrue
  <2>3. CASE pc' \in {"recv", "ended"} /\ UNCHANGED <<step, unsent>>
    BY <2>1, <2>3 DEF MqttInv, MqttDemo!ConnackIsTrue
  <2> QED
    BY <1>1, <2>2, <2>3 DEF MqttDemo!tcp_connect, MqttDemo!AfterPacket
<1>2. ASSUME NEW n \in 1..2, MqttDemo!write_all(n) PROVE MqttInv'
  <2>1. /\ n \in 1..Len(unsent) /\ MqttDemo!Sends(n)
        /\ pc = "send" /\ pc' = (IF unsent' = <<>> THEN "sent" ELSE pc)
        /\ UNCHANGED <<arriving, step, connack, report>>
    BY <1>2 DEF MqttDemo!write_all
  <2>2. Push!Sends(n)
    BY <2>1 DEF MqttDemo!Sends, Push!Sends
  <2>3. wire \in Seq(Out) /\ unsent \in Seq(Out) /\ OneLast(unsent)
    BY DEF MqttInv
  <2>4. wire' \in Seq(Out) /\ unsent' \in Seq(Out) /\ OneLast(unsent')
    BY <2>1, <2>2, <2>3, SendAsks
  <2> QED
    BY <2>1, <2>4 DEF MqttInv, MqttDemo!ConnackIsTrue
<1>3. CASE MqttDemo!write_fails
  <2>1. <<>> \in Seq(Out) /\ OneLast(<<>>)
    BY DEF OneLast
  <2> QED
    BY <1>3, <2>1 DEF MqttDemo!write_fails, MqttInv, MqttDemo!ConnackIsTrue
<1>4. CASE MqttDemo!Killed({"send"}) /\ UNCHANGED <<step, connack, report>>
  BY <1>4 DEF MqttDemo!Killed, MqttInv, MqttDemo!ConnackIsTrue
<1>5. ASSUME NEW n \in 0..2, MqttDemo!recv_connack(n) PROVE MqttInv'
  BY <1>5, MqttReceives
<1>6. ASSUME NEW code \in {"accepted", "refused"}, MqttDemo!BrokerAnswers(code) PROVE MqttInv'
  <2>1. /\ connack = "none" /\ connack' = code /\ arriving' = <<"header", code>>
        /\ UNCHANGED <<pc, unsent, wire, step, report>>
    BY <1>6 DEF MqttDemo!BrokerAnswers
  <2>2. /\ arriving' \in Seq({"header", "accepted", "refused"}) /\ Len(arriving') = 2
        /\ arriving'[1] = "header" /\ arriving'[2] = code
    BY <2>1
  <2>3. \A j \in 1..Len(arriving') : arriving'[j] \in {"header", connack'}
    BY <2>1, <2>2
  <2>4. MqttDemo!ConnackIsTrue'
    BY <2>1 DEF MqttInv, MqttDemo!ConnackIsTrue
  <2> QED
    BY <2>1, <2>2, <2>3, <2>4 DEF MqttInv
<1>7. CASE MqttDemo!BrokerHangsUp
  BY <1>7 DEF MqttDemo!BrokerHangsUp, MqttInv, MqttDemo!ConnackIsTrue
<1>8. CASE UNCHANGED <<pc, socket_, mqtt_>>
  BY <1>8 DEF socket_, mqtt_, MqttInv, MqttDemo!ConnackIsTrue
<1> QED
  BY <1>1, <1>2, <1>3, <1>4, <1>5, <1>6, <1>7, <1>8 DEF MqttDemo!Next, MqttDemo!OwnStep, MqttDemo!BrokerStep

LEMMA MqttInit ==
    ASSUME MqttDemo!Init
    PROVE  MqttInv
<1>1. /\ pc = "start" /\ unsent = <<>> /\ wire = <<>> /\ arriving = <<>>
      /\ step = 0 /\ connack = "none" /\ report = "none"
  BY DEF MqttDemo!Init, MqttDemo!SocketInit
<1> QED
  BY <1>1 DEF MqttInv, OneLast, MqttDemo!ConnackIsTrue

-----------------------------------------------------------------------------
(* The socket of all three *)

WireInv ==
    /\ broken \in BOOLEAN
    /\ Push!InOnePiece(wire)
    /\ ~broken => Whole(wire \o unsent)

(* Part of a message goes on the wire, nothing more does, or a new message *)
(* is begun after the last one was sent.                                   *)
LEMMA WireKeeps ==
    ASSUME WireInv, wire \in Seq(Out), unsent \in Seq(Out), wire' \in Seq(Out), unsent' \in Seq(Out),
           \/ UNCHANGED <<wire, unsent, broken>>
           \/ wire' = wire /\ broken' = TRUE
           \/ ~broken /\ broken' = broken /\ wire' \o unsent' = wire \o unsent
           \/ wire' = wire /\ broken' = broken /\ unsent = <<>> /\ (unsent' = <<>> \/ OneMessage(unsent'))
    PROVE  WireInv'
<1>1. CASE UNCHANGED <<wire, unsent, broken>>
  BY <1>1 DEF WireInv
<1>2. CASE wire' = wire /\ broken' = TRUE
  BY <1>2 DEF WireInv
<1>3. CASE ~broken /\ broken' = broken /\ wire' \o unsent' = wire \o unsent
  <2>1. Whole(wire' \o unsent')
    BY <1>3 DEF WireInv
  <2>2. Push!InOnePiece(wire' \o unsent')
    BY <2>1 DEF Whole
  <2>3. Push!InOnePiece(wire')
    BY <2>2, PrefixInOnePiece
  <2> QED
    BY <1>3, <2>1, <2>3 DEF WireInv
<1>4. CASE wire' = wire /\ broken' = broken /\ unsent = <<>> /\ (unsent' = <<>> \/ OneMessage(unsent'))
  <2>1. wire \o <<>> = wire
    BY ConcatEmptySeq
  <2>2. ~broken => Whole(wire)
    BY <1>4, <2>1 DEF WireInv
  <2>3. CASE unsent' = <<>>
    BY <1>4, <2>1, <2>2, <2>3 DEF WireInv
  <2>4. CASE OneMessage(unsent')
    <3>1. ~broken => Whole(wire \o unsent')
      BY <2>2, <2>4, MessageAdded
    <3> QED
      BY <1>4, <3>1 DEF WireInv
  <2> QED
    BY <1>4, <2>3, <2>4
<1> QED
  BY <1>1, <1>2, <1>3, <1>4

LEMMA RequestTyped ==
    ASSUME NEW m, NEW sn, Push!Request(m, sn) \in Seq(Out)
    PROVE  OneMessage(Push!Request(m, sn))
<1> DEFINE s == Push!Request(m, sn)
<1>1. /\ s = [x \in 1..2 |-> s[x]] /\ Len(s) = 2
      /\ s[1] = [method |-> m, session |-> sn, part |-> 1, parts |-> 2]
      /\ s[2] = [method |-> m, session |-> sn, part |-> 2, parts |-> 2]
  BY DEF Push!Request
<1>2. s \in Seq(Out)
  OBVIOUS
<1> HIDE DEF s
<1>3. 1 \in 1..Len(s) /\ 2 \in 1..Len(s)
  BY <1>1
<1>4. s[1] \in Out /\ s[2] \in Out
  BY <1>2, <1>3, ElementOfSeq
<1>5. s[1] = [s[2] EXCEPT !.part = 1]
  BY <1>1
<1> QED
  BY <1>1, <1>4, <1>5, TwoPieces DEF s

LEMMA PushWire ==
    ASSUME WireInv, PushInv, PushInv', [Push!Next]_<<pc, socket_, peer_, push_>>
    PROVE  WireInv'
<1>1. /\ wire \in Seq(Out) /\ unsent \in Seq(Out) /\ wire' \in Seq(Out) /\ unsent' \in Seq(Out)
      /\ OneLast(unsent)
      /\ pc \in {"start", "recv"} => unsent = <<>>
  BY DEF PushInv, PushTypeOK, AsksInTurn
<1>2. ASSUME NEW k, NEW sn, Push!StartRequest(k, sn) PROVE OneMessage(unsent')
  BY <1>1, <1>2, RequestTyped DEF Push!StartRequest
<1>3. ASSUME unsent' = Push!Request("frame", None) PROVE OneMessage(unsent')
  BY <1>1, <1>3, RequestTyped
<1>4. ASSUME NEW n \in 1..Len(unsent), Push!Sends(n), broken' = broken PROVE WireInv'
  <2>1. wire' \o unsent' = wire \o unsent
    BY <1>1, <1>4, SendAsks
  <2>2. ~broken
    BY <1>4 DEF Push!Sends
  <2> QED
    BY <1>1, <1>4, <2>1, <2>2, WireKeeps
<1>5. CASE Push!tcp_connect
  <2>1. wire' = wire /\ broken' = broken /\ unsent = <<>>
    BY <1>1, <1>5 DEF Push!tcp_connect
  <2>2. OneMessage(unsent') \/ unsent' = <<>>
    BY <1>2, <1>5, <2>1 DEF Push!tcp_connect
  <2> QED
    BY <1>1, <2>1, <2>2, WireKeeps
<1>6. ASSUME NEW n \in 1..RawSize, Push!SendRequest(n) PROVE WireInv'
  BY <1>4, <1>6 DEF Push!SendRequest
<1>7. ASSUME NEW n \in 1..RawSize, Push!send_demo_interleaved_rtp(n) PROVE WireInv'
  BY <1>4, <1>7 DEF Push!send_demo_interleaved_rtp
<1>8. ASSUME NEW n \in 1..RawSize, Push!recv_rtsp_response(n) PROVE WireInv'
  <2>1. wire' = wire /\ broken' = broken /\ unsent = <<>>
    BY <1>1, <1>8 DEF Push!recv_rtsp_response
  <2>2. unsent' = unsent \/ Push!Proceed(response')
    BY <1>8 DEF Push!recv_rtsp_response
  <2>3. ASSUME Push!Proceed(response') PROVE OneMessage(unsent') \/ unsent' = unsent
    BY <1>2, <1>3, <2>3 DEF Push!Proceed
  <2> QED
    BY <1>1, <2>1, <2>2, <2>3, WireKeeps
<1>9. CASE Push!NextFrame
  <2>1. wire' = wire /\ broken' = broken /\ unsent = <<>>
    BY <1>9 DEF Push!NextFrame
  <2>2. OneMessage(unsent')
    BY <1>2, <1>3, <1>9 DEF Push!NextFrame
  <2> QED
    BY <1>1, <2>1, <2>2, WireKeeps
<1>10. CASE Push!SendFails
  BY <1>1, <1>10, WireKeeps DEF Push!SendFails, Push!SendBreaks
<1>11. CASE UNCHANGED <<wire, unsent, broken>>
  BY <1>1, <1>11, WireKeeps
<1>12. Push!Killed({"send", "frames"}) \/ Push!recv_fails \/ Push!ServerAnswersOrHangsUp \/ Push!ServerSendsFrame
           => UNCHANGED <<wire, unsent, broken>>
  BY DEF Push!Killed, Push!recv_fails, Push!ServerAnswersOrHangsUp, Push!ServerAnswers, Push!ServerHangsUp,
         Push!ServerSendsFrame
<1>13. UNCHANGED <<pc, socket_, peer_, push_>> => UNCHANGED <<wire, unsent, broken>>
  BY DEF socket_
<1> QED
  BY <1>5, <1>6, <1>7, <1>8, <1>9, <1>10, <1>11, <1>12, <1>13 DEF Push!Next, Push!OwnStep, Push!ServerStep

LEMMA ClientWire ==
    ASSUME WireInv, ClientInv, ClientInv', [Client!Next]_<<pc, socket_, peer_, client_>>
    PROVE  WireInv'
<1>1. /\ wire \in Seq(Out) /\ unsent \in Seq(Out) /\ wire' \in Seq(Out) /\ unsent' \in Seq(Out)
      /\ OneLast(unsent)
      /\ pc \in {"start", "recv"} => unsent = <<>>
  BY DEF ClientInv, ClientTypeOK, ClientAsksInTurn
<1>2. ASSUME NEW k, Client!StartRequest(k) PROVE OneMessage(unsent') \/ unsent' = <<>>
  <2>1. \A m : Client!Request(m, None) = Push!Request(m, None)
    BY DEF Client!Request, Push!Request
  <2> QED
    BY <1>1, <1>2, <2>1, RequestTyped DEF Client!StartRequest
<1>3. CASE Client!tcp_connect
  <2>1. wire' = wire /\ broken' = broken /\ unsent = <<>>
    BY <1>1, <1>3 DEF Client!tcp_connect
  <2>2. OneMessage(unsent') \/ unsent' = <<>>
    BY <1>2, <1>3, <2>1 DEF Client!tcp_connect
  <2> QED
    BY <1>1, <2>1, <2>2, WireKeeps
<1>4. ASSUME NEW n \in 1..5, Client!send_all(n) PROVE WireInv'
  <2>1. n \in 1..Len(unsent) /\ Push!Sends(n) /\ broken' = broken /\ ~broken
    BY <1>4 DEF Client!send_all, Client!Sends, Push!Sends
  <2>2. wire' \o unsent' = wire \o unsent
    BY <1>1, <2>1, SendAsks
  <2> QED
    BY <1>1, <2>1, <2>2, WireKeeps
<1>5. ASSUME NEW n \in 1..5, Client!recv_and_print_once(n) PROVE WireInv'
  BY <1>1, <1>2, <1>5, WireKeeps DEF Client!recv_and_print_once
<1>6. CASE Client!nothing_to_print
  BY <1>1, <1>2, <1>6, WireKeeps DEF Client!nothing_to_print
<1>7. CASE Client!send_fails
  BY <1>1, <1>7, WireKeeps DEF Client!send_fails, Client!SendBreaks
<1>8. CASE UNCHANGED <<wire, unsent, broken>>
  BY <1>1, <1>8, WireKeeps
<1>9. Client!Killed({"send"}) \/ Client!ServerAnswersOrHangsUp => UNCHANGED <<wire, unsent, broken>>
  BY DEF Client!Killed, Client!ServerAnswersOrHangsUp, Client!ServerAnswers, Client!ServerHangsUp
<1>10. UNCHANGED <<pc, socket_, peer_, client_>> => UNCHANGED <<wire, unsent, broken>>
  BY DEF socket_
<1> QED
  BY <1>3, <1>4, <1>5, <1>6, <1>7, <1>8, <1>9, <1>10 DEF Client!Next, Client!OwnStep, Client!ServerStep

LEMMA MqttWire ==
    ASSUME WireInv, MqttInv, MqttInv', [MqttDemo!Next]_<<pc, socket_, mqtt_>>
    PROVE  WireInv'
<1>1. /\ wire \in Seq(Out) /\ unsent \in Seq(Out) /\ wire' \in Seq(Out) /\ unsent' \in Seq(Out)
      /\ OneLast(unsent) /\ step \in Nat
      /\ pc \in {"start", "sent", "recv"} => unsent = <<>>
  BY DEF MqttInv
<1>2. CASE MqttDemo!tcp_connect \/ MqttDemo!AfterPacket \/ \E n \in 0..2 : MqttDemo!recv_connack(n)
  <2>1. wire' = wire /\ broken' = broken /\ unsent = <<>> /\ (MqttDemo!GoOn \/ unsent' = unsent)
    BY <1>1, <1>2 DEF MqttDemo!tcp_connect, MqttDemo!AfterPacket, MqttDemo!recv_connack
  <2>2. unsent' = <<>> \/ OneMessage(unsent')
    BY <1>1, <2>1, MqttGoesOn
  <2> QED
    BY <1>1, <2>1, <2>2, WireKeeps
<1>3. ASSUME NEW n \in 1..2, MqttDemo!write_all(n) PROVE WireInv'
  <2>1. n \in 1..Len(unsent) /\ Push!Sends(n) /\ broken' = broken /\ ~broken
    BY <1>3 DEF MqttDemo!write_all, MqttDemo!Sends, Push!Sends
  <2>2. wire' \o unsent' = wire \o unsent
    BY <1>1, <2>1, SendAsks
  <2> QED
    BY <1>1, <2>1, <2>2, WireKeeps
<1>4. CASE MqttDemo!write_fails
  BY <1>1, <1>4, WireKeeps DEF MqttDemo!write_fails, MqttDemo!SendBreaks
<1>5. CASE UNCHANGED <<wire, unsent, broken>>
  BY <1>1, <1>5, WireKeeps
<1>6. ASSUME \/ MqttDemo!Killed({"send"})
             \/ \E code \in {"accepted", "refused"} : MqttDemo!BrokerAnswers(code)
             \/ MqttDemo!BrokerHangsUp
      PROVE  UNCHANGED <<wire, unsent, broken>>
  BY <1>6 DEF MqttDemo!Killed, MqttDemo!BrokerAnswers, MqttDemo!BrokerHangsUp
<1>7. UNCHANGED <<pc, socket_, mqtt_>> => UNCHANGED <<wire, unsent, broken>>
  BY DEF socket_
<1>8. CASE MqttDemo!Next
  <2>1. \/ MqttDemo!tcp_connect \/ MqttDemo!AfterPacket \/ \E n \in 0..2 : MqttDemo!recv_connack(n)
        \/ \E n \in 1..2 : MqttDemo!write_all(n)
        \/ MqttDemo!write_fails
        \/ MqttDemo!Killed({"send"})
        \/ \E code \in {"accepted", "refused"} : MqttDemo!BrokerAnswers(code)
        \/ MqttDemo!BrokerHangsUp
    BY <1>8, Zenon DEF MqttDemo!Next, MqttDemo!OwnStep, MqttDemo!BrokerStep
  <2>2. CASE \E n \in 1..2 : MqttDemo!write_all(n)
    BY <1>3, <2>2
  <2>3. CASE \/ MqttDemo!Killed({"send"})
             \/ \E code \in {"accepted", "refused"} : MqttDemo!BrokerAnswers(code)
             \/ MqttDemo!BrokerHangsUp
    BY <1>5, <1>6, <2>3
  <2> QED
    BY <1>2, <1>4, <2>1, <2>2, <2>3, Zenon
<1> QED
  BY <1>5, <1>7, <1>8

-----------------------------------------------------------------------------
(* Every program *)

TalkInv ==
    /\ program = "push" => PushInv
    /\ program = "client" => ClientInv
    /\ program = "mqtt" => MqttInv
    /\ program # "client" => shown = <<>>
    /\ program # "mqtt" => report = "none"
    /\ program \in {"push", "client", "mqtt"} => WireInv
    /\ program \notin {"push", "client", "mqtt"} => wire = <<>>

LEMMA TalkInit == ProgramInit => TalkInv
<1> SUFFICES ASSUME ProgramInit PROVE TalkInv
  OBVIOUS
<1>1. PushInv /\ ClientInv /\ MqttInv
  BY PushInit, ClientInit, MqttInit DEF ProgramInit
<1>2. shown = <<>> /\ report = "none" /\ wire = <<>> /\ unsent = <<>> /\ broken = FALSE
  BY DEF ProgramInit, Client!Init, MqttDemo!Init, MqttDemo!SocketInit
<1>3. WireInv
  <2>1. <<>> \in Seq(Out) /\ Len(<<>>) = 0 /\ <<>> \o <<>> = <<>>
    OBVIOUS
  <2>2. Push!InOnePiece(<<>>)
    BY DEF Push!InOnePiece
  <2> QED
    BY <1>2, <2>1, <2>2 DEF WireInv, Whole
<1> QED
  BY <1>1, <1>2, <1>3 DEF TalkInv

LEMMA TalkStep == TalkInv /\ [Step]_programVars => TalkInv'
<1> SUFFICES ASSUME TalkInv, [Step]_programVars PROVE TalkInv'
  OBVIOUS
<1>1. CASE program = "push"
  <2>1. program' = program /\ [Push!Next]_<<pc, socket_, peer_, push_>> /\ UNCHANGED <<client_, mqtt_>>
    BY <1>1, SocketStepIsOne
  <2>2. PushInv /\ WireInv /\ shown = <<>> /\ report = "none"
    BY <1>1 DEF TalkInv
  <2>3. PushInv'
    BY <1>1, <2>1, <2>2, PushStep
  <2>4. WireInv'
    BY <2>1, <2>2, <2>3, PushWire
  <2>5. shown' = <<>> /\ report' = "none"
    BY <2>1, <2>2 DEF client_, mqtt_
  <2> QED
    BY <1>1, <2>1, <2>3, <2>4, <2>5 DEF TalkInv
<1>2. CASE program = "client"
  <2>1. program' = program /\ [Client!Next]_<<pc, socket_, peer_, client_>> /\ UNCHANGED mqtt_
    BY <1>2, SocketStepIsOne
  <2>2. ClientInv /\ WireInv /\ report = "none"
    BY <1>2 DEF TalkInv
  <2>3. ClientInv'
    BY <2>1, <2>2, ClientStep
  <2>4. WireInv'
    BY <2>1, <2>2, <2>3, ClientWire
  <2>5. report' = "none"
    BY <2>1, <2>2 DEF mqtt_
  <2> QED
    BY <1>2, <2>1, <2>3, <2>4, <2>5 DEF TalkInv
<1>3. CASE program = "mqtt"
  <2>1. program' = program /\ [MqttDemo!Next]_<<pc, socket_, mqtt_>> /\ UNCHANGED client_
    BY <1>3, SocketStepIsOne
  <2>2. MqttInv /\ WireInv /\ shown = <<>>
    BY <1>3 DEF TalkInv
  <2>3. MqttInv'
    BY <2>1, <2>2, MqttStep
  <2>4. WireInv'
    BY <2>1, <2>2, <2>3, MqttWire
  <2>5. shown' = <<>>
    BY <2>1, <2>2 DEF client_
  <2> QED
    BY <1>3, <2>1, <2>3, <2>4, <2>5 DEF TalkInv
<1>4. CASE program \notin {"push", "client", "mqtt"}
  <2>1. program' = program /\ UNCHANGED <<socket_, client_, mqtt_>>
    BY <1>4, SocketStepIsOne
  <2>2. shown = <<>> /\ report = "none" /\ wire = <<>>
    BY <1>4 DEF TalkInv
  <2>3. shown' = <<>> /\ report' = "none" /\ wire' = <<>>
    BY <2>1, <2>2 DEF socket_, client_, mqtt_
  <2> QED
    BY <1>4, <2>1, <2>3 DEF TalkInv
<1> QED
  BY <1>1, <1>2, <1>3, <1>4

LEMMA TalkAlways == ProgramSpec => []TalkInv
BY TalkInit, TalkStep, PTL DEF ProgramSpec

(* rtsp_push_demo sends a request only after the server has accepted every *)
(* one before it, for every size of raw and of the bodies.                 *)
THEOREM SendsAfterAnswer == ProgramSpec => []AcceptedIsAnswer
<1>1. TalkInv => AcceptedIsAnswer
  BY DEF TalkInv, PushInv, AnswersInTurn, AcceptedIsAnswer
<1> QED
  BY <1>1, TalkAlways, PTL

(* RECORD names the session that SETUP's answer gave; TEARDOWN names that  *)
(* of RECORD's answer, which is the same one unless it names none.         *)
THEOREM NamesTheSession == ProgramSpec => []SessionIsTheServers
<1>1. ASSUME PushInv PROVE Push!SessionIsTheServers
  <2>1. DOMAIN wire = 1..Len(wire)
    BY <1>1, LenProperties DEF PushInv, PushTypeOK
  <2>2. \A j \in DOMAIN wire : NamesSession(wire[j])
    BY <1>1, <2>1 DEF PushInv, SessionsAreNamed
  <2>3. ASSUME NEW j \in 1..Len(answers) PROVE answers[j].session \in {"s1", None}
    <3>1. answers[j] \in Push!Answer
      BY <1>1, ElementOfSeq DEF PushInv, PushTypeOK
    <3> QED
      BY <3>1 DEF Push!Answer
  <2>4. Len(answers) \in Nat
    BY <1>1, LenProperties DEF PushInv, PushTypeOK
  <2>5. ASSUME NEW j \in DOMAIN wire, wire[j].method = "TEARDOWN", answers[4].session # None
        PROVE  wire[j].session = answers[3].session
    <3>1. Len(answers) >= 4 /\ wire[j].session = answers[4].session /\ answers[3].session # None
      BY <2>2, <2>5 DEF NamesSession
    <3>2. 3 \in 1..Len(answers) /\ 4 \in 1..Len(answers)
      BY <2>4, <3>1
    <3> QED
      BY <2>3, <2>5, <3>1, <3>2
  <2> QED
    BY <2>2, <2>5 DEF Push!SessionIsTheServers, Push!Seen, NamesSession
<1>2. TalkInv => SessionIsTheServers
  BY <1>1 DEF TalkInv, SessionIsTheServers
<1> QED
  BY <1>2, TalkAlways, PTL

(* No server finds the beginning of a message inside another one, however  *)
(* send cuts them and whenever it fails.                                   *)
THEOREM SendsWholeMessages == ProgramSpec => []MessagesAreWhole
<1>1. TalkInv => MessagesAreWhole
  <2>1. wire = <<>> => Push!InOnePiece(wire)
    BY DEF Push!InOnePiece
  <2> QED
    BY <2>1 DEF TalkInv, WireInv, MessagesAreWhole
<1> QED
  BY <1>1, TalkAlways, PTL

(* What is printed as an answer is one, for every size of the bodies.      *)
THEOREM PrintsAnswers == ProgramSpec => []ShownIsTrue
<1>1. ASSUME ShowsAnswers, shown \in Seq(Seq(In)), answers \in Seq(Client!Answer)
      PROVE  Client!WholeAnswersAreShown
  <2>1. DOMAIN shown = 1..Len(shown) /\ Len(shown) \in Nat
    BY <1>1, LenProperties
  <2> SUFFICES ASSUME NEW k \in 1..Len(shown)
               PROVE  \/ \E j \in 1..(k - 1) : j > Len(answers) \/ shown[j] # Client!Pieces(answers[j])
                      \/ shown[k] = <<>>
                      \/ k <= Len(answers) /\ Client!IsPrefix(shown[k], Client!Pieces(answers[k]))
    BY <2>1 DEF Client!WholeAnswersAreShown
  <2> QED
    BY <1>1 DEF ShowsAnswers, Spoilt
<1>2. shown = <<>> => Client!WholeAnswersAreShown
  BY DEF Client!WholeAnswersAreShown
<1>3. TalkInv => Client!WholeAnswersAreShown
  BY <1>1, <1>2 DEF TalkInv, ClientInv, ClientTypeOK
<1>4. TalkInv => MqttDemo!ConnackIsTrue
  BY DEF TalkInv, MqttInv, MqttDemo!ConnackIsTrue
<1>5. TalkInv /\ IpcInv => ShownIsTrue
  BY <1>3, <1>4 DEF ShownIsTrue, IpcInv
<1> QED
  BY <1>5, TalkAlways, IpcAlways, PTL
=============================================================================
