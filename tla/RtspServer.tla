----------------------------- MODULE RtspServer -----------------------------
(***************************************************************************)
(* What the RTSP programs talk to: a server that answers every whole       *)
(* request in turn.  An answer is its header, the empty line that ends it, *)
(* and the pieces of a body; once it has answered RECORD the server may    *)
(* also send an interleaved frame, whose bytes hold a NUL.  It may hang up *)
(* at any time.                                                            *)
(***************************************************************************)
EXTENDS Socket, FiniteSets

CONSTANTS
    Bodies,     \* the numbers of pieces that a body has
    None        \* no session

VARIABLES
    answers,    \* what the server has answered, request by request
    framed      \* an interleaved frame was sent

serverVars == <<answers, framed>>

ServerInit == answers = <<>> /\ framed = FALSE

Request(name, id) == [i \in 1..2 |-> [method |-> name, session |-> id, part |-> i, parts |-> 2]]

Answer == [status : {"2xx", "other"}, session : {"s1", None}, body : Bodies]

Piece(kind, a) == [kind |-> kind, is |-> a]

Pieces(a) == <<Piece("head", a), Piece("end", a)>> \o [i \in 1..a.body |-> Piece("body", a)]

(* The whole requests that have arrived. *)
Asked == {j \in DOMAIN wire : wire[j].method # "frame" /\ wire[j].part = wire[j].parts}

ServerAnswers(a) ==
    /\ ~hungup
    /\ Len(answers) < Cardinality(Asked)
    /\ answers' = Append(answers, a)
    /\ arriving' = arriving \o Pieces(a)
    /\ UNCHANGED <<pc, unsent, wire, hungup, broken, framed>>

ServerSendsFrame ==
    /\ ~hungup
    /\ ~framed
    /\ Len(answers) = Cardinality(Asked)
    /\ \E j \in Asked : wire[j].method = "RECORD"
    /\ framed' = TRUE
    /\ arriving' = Append(arriving, Piece("$", "frame"))
    /\ UNCHANGED <<pc, unsent, wire, hungup, broken, answers>>

ServerHangsUp ==
    /\ ~hungup
    /\ pc \notin {"start", "ended"}
    /\ hungup' = TRUE
    /\ UNCHANGED <<pc, unsent, wire, arriving, broken, serverVars>>

ServerAnswersOrHangsUp == (\E a \in Answer : ServerAnswers(a)) \/ ServerHangsUp
=============================================================================
