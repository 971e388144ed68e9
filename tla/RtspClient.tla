----------------------------- MODULE RtspClient -----------------------------
(***************************************************************************)
(* rtsp_client_demo.c: OPTIONS and DESCRIBE, and after each one recv whose *)
(* result is printed as the response.                                      *)
(***************************************************************************)
EXTENDS RtspServer

VARIABLES
    asking,     \* which of the two requests is being sent or answered
    shown       \* what was printed as response to each

vars == <<socketVars, serverVars, asking, shown>>

Methods == <<"OPTIONS", "DESCRIBE">>

Init ==
    /\ SocketInit
    /\ ServerInit
    /\ asking = 0
    /\ shown = <<>>

(* main goes on to the next request, whatever became of the last one. *)
StartRequest(k) ==
    /\ asking' = k
    /\ IF k <= Len(Methods)
           THEN pc' = "send" /\ unsent' = Request(Methods[k], None)
           ELSE pc' = "ended" /\ unsent' = <<>>

tcp_connect ==
    /\ pc = "start"
    /\ \/ StartRequest(1)
       \/ pc' = "ended" /\ UNCHANGED <<asking, unsent>>
    /\ UNCHANGED <<wire, arriving, hungup, broken, serverVars, shown>>

send_all(n) ==
    /\ pc = "send"
    /\ n \in 1..Len(unsent)
    /\ Sends(n)
    /\ pc' = IF unsent' = <<>> THEN "recv" ELSE pc
    /\ UNCHANGED <<arriving, hungup, broken, serverVars, asking, shown>>

send_fails ==
    /\ pc = "send"
    /\ SendBreaks
    /\ shown' = Append(shown, <<>>)
    /\ StartRequest(asking + 1)
    /\ UNCHANGED <<wire, arriving, hungup, serverVars>>

recv_and_print_once(n) ==
    /\ pc = "recv"
    /\ n \in 1..Len(arriving)
    /\ Receives(n)
    /\ shown' = Append(shown, SubSeq(arriving, 1, n))
    /\ StartRequest(asking + 1)
    /\ UNCHANGED <<wire, hungup, broken, serverVars>>

(* "server closed connection" *)
nothing_to_print ==
    /\ pc = "recv"
    /\ NothingComes
    /\ shown' = Append(shown, <<>>)
    /\ StartRequest(asking + 1)
    /\ UNCHANGED <<wire, arriving, hungup, broken, serverVars>>

OwnStep ==
    \/ tcp_connect
    \/ \E n \in 1..5 : send_all(n) \/ recv_and_print_once(n)
    \/ send_fails
    \/ Killed({"send"}) /\ UNCHANGED <<serverVars, asking, shown>>
    \/ nothing_to_print

ServerStep == ServerAnswersOrHangsUp /\ UNCHANGED <<asking, shown>>

Next == OwnStep \/ ServerStep

(* An answer received in one piece is shown as the response to its own     *)
(* request; the rest of a divided answer is not, so that this only holds   *)
(* if every answer before it came whole (recv_and_print_once).             *)
WholeAnswersAreShown ==
    \A k \in DOMAIN shown :
        \/ \E j \in 1..(k - 1) : j > Len(answers) \/ shown[j] # Pieces(answers[j])
        \/ shown[k] = <<>>
        \/ k <= Len(answers) /\ IsPrefix(shown[k], Pieces(answers[k]))

(* recv has no timeout, and the server neither answers nor hangs up.       *)
HeldUp == pc = "recv" /\ arriving = <<>> /\ ~hungup
=============================================================================
