------------------------------ MODULE RtspPush ------------------------------
(***************************************************************************)
(* rtsp_push_demo.c: five requests, each sent whole and answered before    *)
(* the next, and between RECORD and TEARDOWN the interleaved RTP frames.   *)
(***************************************************************************)
EXTENDS RtspServer

CONSTANTS
    RawSize,    \* pieces of a response that fit in raw
    Frames      \* frames sent by main

VARIABLES
    request,    \* which of Methods is being sent or answered
    response,   \* struct rtsp_response of main
    frames      \* RTP frames sent

vars == <<socketVars, serverVars, request, response, frames>>

Methods == <<"OPTIONS", "ANNOUNCE", "SETUP", "RECORD", "TEARDOWN">>

NoResponse == [status |-> "none", session |-> None, raw |-> <<>>]

Init ==
    /\ SocketInit
    /\ ServerInit
    /\ request = 0
    /\ response = NoResponse
    /\ frames = 0

(* Mutant: the session is taken from the response before it is parsed. *)
TakesOldSession(k, session) ==
    /\ request' = k
    /\ unsent' = Request(Methods[k], response.session)
    /\ pc' = "send"

StartRequest(k, session) ==
    /\ request' = k
    /\ unsent' = Request(Methods[k], session)
    /\ pc' = "send"

tcp_connect ==
    /\ pc = "start"
    /\ \/ StartRequest(1, None)
       \/ pc' = "ended" /\ UNCHANGED <<request, unsent>>
    /\ UNCHANGED <<wire, arriving, hungup, broken, serverVars, response, frames>>

(* Mutant: the status is not cleared before the response is received. *)
KeepsStatus == [response EXCEPT !.session = None, !.raw = <<>>]

(* memset at the start of recv_rtsp_response. *)
Cleared == NoResponse

(* send_all_bytes of a request; recv_rtsp_response begins after its last   *)
(* piece.                                                                  *)
SendRequest(n) ==
    /\ pc = "send"
    /\ n \in 1..Len(unsent)
    /\ Sends(n)
    /\ IF unsent' = <<>> THEN pc' = "recv" /\ response' = Cleared ELSE UNCHANGED <<pc, response>>
    /\ UNCHANGED <<arriving, hungup, broken, serverVars, request, frames>>

send_demo_interleaved_rtp(n) ==
    /\ pc = "frames"
    /\ n \in 1..Len(unsent)
    /\ Sends(n)
    /\ UNCHANGED <<pc, arriving, hungup, broken, serverVars, request, response, frames>>

NextFrame ==
    /\ pc = "frames"
    /\ unsent = <<>>
    /\ frames' = frames + 1
    /\ IF frames' < Frames
           THEN unsent' = Request("frame", None) /\ UNCHANGED <<pc, request>>
           ELSE StartRequest(5, response.session)
    /\ UNCHANGED <<wire, arriving, hungup, broken, serverVars, response>>

(* send fails: main gives up, but still tries TEARDOWN when it was sending *)
(* frames.                                                                 *)
SendFails ==
    /\ SendBreaks
    /\ \/ pc = "send" /\ pc' = "ended" /\ UNCHANGED <<unsent, request>>
       \/ pc = "frames" /\ StartRequest(5, response.session)
    /\ UNCHANGED <<wire, arriving, hungup, serverVars, response, frames>>

(* Where strstr finds the first piece of a kind in raw: the NUL of a frame *)
(* ends the C string.                                                      *)
Find(kind, raw) ==
    LET at == SelectInSeq(raw, LAMBDA p : p.kind \in {kind, "$"})
    IN  IF at # 0 /\ raw[at].kind = kind THEN at ELSE 0

(* raw holds an empty line and what Content-Length asks for after it. *)
IsWhole(raw) ==
    /\ Find("end", raw) # 0
    /\ Len(raw) >= Find("end", raw)
                     + (IF Find("head", raw) = 0 THEN 0 ELSE raw[Find("head", raw)].is.body)

(* sscanf, which reads a status only at the start of raw, and              *)
(* extract_session.                                                        *)
Parsed(raw) ==
    [status  |-> IF Find("head", raw) = 1 THEN raw[1].is.status ELSE response.status,
     session |-> IF Find("head", raw) = 0 THEN None ELSE raw[Find("head", raw)].is.session,
     raw     |-> raw]

(* What main does with the answer r to the request. *)
Proceed(r) ==
    \/ /\ request < 3 /\ r.status = "2xx"
       /\ StartRequest(request + 1, None)
    \/ /\ request = 3 /\ r.status = "2xx" /\ r.session # None
       /\ StartRequest(4, r.session)
    \/ /\ request = 4 /\ r.status = "2xx"
       /\ pc' = "frames"
       /\ unsent' = Request("frame", None)
       /\ UNCHANGED request
    \/ /\ \/ request = 5
          \/ r.status # "2xx"
          \/ request = 3 /\ r.session = None
       /\ pc' = "ended"
       /\ UNCHANGED <<request, unsent>>

recv_rtsp_response(n) ==
    /\ pc = "recv"
    /\ n \in 1..Len(arriving)
    /\ Len(response.raw) + n <= RawSize
    /\ Receives(n)
    /\ LET raw == response.raw \o SubSeq(arriving, 1, n)
       IN  IF IsWhole(raw) \/ Len(raw) = RawSize
               THEN response' = Parsed(raw) /\ Proceed(response')
               ELSE response' = [response EXCEPT !.raw = raw] /\ UNCHANGED <<pc, request, unsent>>
    /\ UNCHANGED <<wire, hungup, broken, serverVars, frames>>

recv_fails ==
    /\ pc = "recv"
    /\ NothingComes
    /\ pc' = "ended"
    /\ UNCHANGED <<unsent, wire, arriving, hungup, broken, serverVars, request, response, frames>>

OwnStep ==
    \/ tcp_connect
    \/ \E n \in 1..RawSize : SendRequest(n) \/ send_demo_interleaved_rtp(n) \/ recv_rtsp_response(n)
    \/ NextFrame
    \/ SendFails
    \/ Killed({"send", "frames"}) /\ UNCHANGED <<serverVars, request, response, frames>>
    \/ recv_fails

ServerStep ==
    \/ ServerAnswersOrHangsUp /\ UNCHANGED <<request, response, frames>>
    \/ ServerSendsFrame /\ UNCHANGED <<request, response, frames>>

Next == OwnStep \/ ServerStep

(* The requests that the server has seen of one method. *)
Seen(method) == {wire[j].session : j \in {i \in DOMAIN wire : wire[i].method = method}}

(* A request goes out only after the server has accepted every request     *)
(* before it, however the answers are cut, whatever their bodies overflow  *)
(* and although frames are mixed in (recv_rtsp_response, main).            *)
AcceptedIsAnswer ==
    request <= Len(answers) + 1 /\ \A k \in 1..(request - 1) : answers[k].status = "2xx"

(* RECORD names the session that the answer to SETUP gave, and so does     *)
(* TEARDOWN if the answer to RECORD repeated it (extract_session, main).   *)
SessionIsTheServers ==
    /\ \A s \in Seen("RECORD") : s = answers[3].session /\ s # None
    /\ \A s \in Seen("TEARDOWN") : answers[4].session # None => s = answers[3].session

(* TEARDOWN names the session that the answer to SETUP gave, whatever the  *)
(* answer to RECORD holds (main).                                          *)
TeardownNamesSession == \A s \in Seen("TEARDOWN") : s = answers[3].session

(* recv has no timeout: a server that neither answers nor hangs up keeps   *)
(* the program, and so does one whose answer to TEARDOWN is hidden by a    *)
(* frame in front of it and that owes nothing more.                        *)
HeldUp == pc = "recv" /\ arriving = <<>> /\ ~hungup
=============================================================================
