------------------------------ MODULE TcpPair ------------------------------
(***************************************************************************)
(* tcp_server.c and tcp_client.c: one connection, one message in each      *)
(* direction, one recv on each side.  The client's text may arrive in two  *)
(* pieces; closing before both are read resets the connection, and the     *)
(* reply may be lost.                                                      *)
(***************************************************************************)
EXTENDS Naturals

VARIABLES
    pc,         \* the client
    server,     \* "start", "accept", "recv", "close" or "ended"
    asked,      \* pieces of the text that have arrived, of two
    read,       \* pieces that the server has received
    reply,      \* "none", "sent", or "lost" by a reset
    got         \* whether the client printed the reply

tcpVars == <<server, asked, read, reply, got>>

vars == <<pc, tcpVars>>

Init ==
    /\ pc = "start"
    /\ server = "start"
    /\ asked = 0
    /\ read = 0
    /\ reply = "none"
    /\ got = FALSE

listen ==
    /\ server = "start"
    /\ server' \in {"accept", "ended"}
    /\ UNCHANGED <<pc, asked, read, reply, got>>

connect ==
    /\ pc = "start"
    /\ pc' = IF server = "accept" THEN "recv" ELSE "ended"
    /\ UNCHANGED tcpVars

arrive ==
    /\ pc = "recv"
    /\ asked < 2
    /\ asked' = asked + 1
    /\ UNCHANGED <<pc, server, read, reply, got>>

(* accept returns once a client has come, perhaps with an error. *)
accept ==
    /\ server = "accept"
    /\ pc = "recv"
    /\ server' \in {"recv", "ended"}
    /\ UNCHANGED <<pc, asked, read, reply, got>>

(* recv and the reply. *)
recv_and_send(n) ==
    /\ server = "recv"
    /\ n \in 1..asked
    /\ read' = n
    /\ reply' = "sent"
    /\ server' = "close"
    /\ UNCHANGED <<pc, asked, got>>

recv_fails ==
    /\ server = "recv"
    /\ server' = "close"
    /\ UNCHANGED <<pc, asked, read, reply, got>>

close ==
    /\ server = "close"
    /\ server' = "ended"
    /\ reply' \in IF reply = "sent" /\ read < 2 THEN {"sent", "lost"} ELSE {reply}
    /\ UNCHANGED <<pc, asked, read, got>>

(* recv returns the reply, or 0 or -1 when the server is gone. *)
client_recv ==
    /\ pc = "recv"
    /\ reply # "none" \/ server = "ended"
    /\ got' = (reply = "sent")
    /\ pc' = "ended"
    /\ UNCHANGED <<server, asked, read, reply>>

OwnStep ==
    \/ listen \/ accept \/ recv_fails \/ close \/ arrive \/ client_recv
    \/ \E n \in 1..2 : recv_and_send(n)

(* A client need never be started. *)
Next == OwnStep \/ connect

(* A client whose whole text was read prints the reply; one that does not  *)
(* either found no server, or had its text cut by a single recv, or met a  *)
(* server whose accept or recv failed (main of both programs).             *)
RepliesIfRead == pc = "ended" /\ read = 2 => got

(* The server waits in accept, without a limit, for a client that does not *)
(* come, or that came too early and was refused.                           *)
HeldUp == server = "accept" /\ pc # "recv"
=============================================================================
