------------------------------ MODULE HttpDemo ------------------------------
(***************************************************************************)
(* stage_11_http_https: the accept loop of http_server, which serves one   *)
(* connection at a time and takes one recv for the whole request, and its  *)
(* clients: some run http_client or ask for another path, others connect   *)
(* and need not say anything.                                              *)
(***************************************************************************)
EXTENDS Naturals, SequencesExt

CONSTANTS
    Talkers,    \* clients that send a request and read until the server closes
    Mutes       \* clients that may stay silent, and may hang up

Client == Talkers \cup Mutes

VARIABLES
    pc,         \* the server: "start", "accept", "recv", "send" or "close"
    serving,    \* the clients accepted, the present one last
    backlog,    \* connections not yet accepted
    client,     \* "start", "waiting" or "ended"
    path,       \* what each client asks for
    arrived,    \* pieces of each request that have arrived, of two
    taken,      \* pieces that recv has returned
    answer      \* what each client has received

httpVars == <<serving, backlog, client, path, arrived, taken, answer>>

vars == <<pc, httpVars>>

Init ==
    /\ pc = "start"
    /\ serving = <<>>
    /\ backlog = <<>>
    /\ client = [c \in Client |-> "start"]
    /\ path = [c \in Client |-> "none"]
    /\ arrived = [c \in Client |-> 0]
    /\ taken = [c \in Client |-> 0]
    /\ answer = [c \in Client |-> "none"]

listen ==
    /\ pc = "start"
    /\ pc' \in {"accept", "ended"}
    /\ UNCHANGED httpVars

(* connect, and for a talker also send; without a server it is refused. *)
Connect(c, p) ==
    /\ client[c] = "start"
    /\ path' = [path EXCEPT ![c] = p]
    /\ IF pc \in {"start", "ended"}
           THEN client' = [client EXCEPT ![c] = "ended"] /\ UNCHANGED backlog
           ELSE client' = [client EXCEPT ![c] = "waiting"] /\ backlog' = Append(backlog, c)
    /\ UNCHANGED <<pc, serving, arrived, taken, answer>>

Arrive(c) ==
    /\ client[c] = "waiting"
    /\ arrived[c] < 2
    /\ arrived' = [arrived EXCEPT ![c] = @ + 1]
    /\ UNCHANGED <<pc, serving, backlog, client, path, taken, answer>>

HangUp(c) ==
    /\ c \in Mutes
    /\ client[c] = "waiting"
    /\ client' = [client EXCEPT ![c] = "ended"]
    /\ UNCHANGED <<pc, serving, backlog, path, arrived, taken, answer>>

accept ==
    /\ pc = "accept"
    /\ backlog # <<>>
    /\ serving' = Append(serving, Head(backlog))
    /\ backlog' = Tail(backlog)
    /\ pc' = "recv"
    /\ UNCHANGED <<client, path, arrived, taken, answer>>

recv(n) ==
    /\ pc = "recv"
    /\ n \in 1..arrived[Last(serving)]
    /\ taken' = [taken EXCEPT ![Last(serving)] = n]
    /\ pc' = "send"
    /\ UNCHANGED <<serving, backlog, client, path, arrived, answer>>

(* The client has hung up: recv returns 0 once nothing is left. *)
recv_nothing ==
    /\ pc = "recv"
    /\ arrived[Last(serving)] = 0
    /\ client[Last(serving)] = "ended"
    /\ pc' = "close"
    /\ UNCHANGED httpVars

(* Mutant: the path is compared without the space that ends it, so that    *)
(* the first piece is enough and /status2 would match as well.             *)
ComparesPrefix(p, n) == IF p \in {"/status", "/status2"} THEN "status" ELSE "hello"

(* request.find("GET /status ") == 0: the space comes in the second piece. *)
handle_request(p, n) == IF p = "/status" /\ n = 2 THEN "status" ELSE "hello"

send ==
    /\ pc = "send"
    /\ LET c == Last(serving)
       IN  answer' = [answer EXCEPT ![c] = IF client[c] = "waiting" THEN handle_request(path[c], taken[c]) ELSE @]
    /\ pc' = "close"
    /\ UNCHANGED <<serving, backlog, client, path, arrived, taken>>

(* close_fd: with bytes of the request unread, or still to come, the       *)
(* connection is reset, and the client may lose the answer.                *)
close_fd ==
    /\ pc = "close"
    /\ LET c == Last(serving)
       IN  /\ client' = [client EXCEPT ![c] = "ended"]
           /\ \/ UNCHANGED answer
              \/ /\ taken[c] < 2
                 /\ answer' = [answer EXCEPT ![c] = "reset"]
    /\ pc' = "accept"
    /\ UNCHANGED <<serving, backlog, path, arrived, taken>>

(* What a talker has sent arrives. *)
OwnStep ==
    \/ listen \/ accept \/ recv_nothing \/ send \/ close_fd
    \/ \E n \in 1..2 : recv(n)
    \/ \E c \in Talkers : Arrive(c)

ClientStep ==
    \E c \in Client :
        \/ \E p \in {"/status", "/status2", "/"} : Connect(c, p)
        \/ c \in Mutes /\ Arrive(c)
        \/ HangUp(c)

Next == OwnStep \/ ClientStep

(* Who is in front decides: a client whose request came in one piece gets  *)
(* the answer to its own path, whichever clients were served before it and *)
(* whatever they left unread; connections are served in the order in which *)
(* they came (main, handle_request).                                       *)
AnswersItsClient ==
    \A c \in Client :
        /\ answer[c] \in {"status", "hello"} /\ taken[c] = 2
               => answer[c] = IF path[c] = "/status" THEN "status" ELSE "hello"
        /\ answer[c] = "reset" => taken[c] < 2
        /\ answer[c] # "none" => Contains(serving, c)

(* Every client that has come was served, and the server waits for another *)
(* one in accept; or one that is silent is served, and keeps it in recv.   *)
HeldUp ==
    \/ /\ pc = "accept"
       /\ \A c \in Client : client[c] # "waiting"
    \/ /\ pc = "recv"
       /\ Last(serving) \in Mutes
       /\ arrived[Last(serving)] = 0
       /\ client[Last(serving)] = "waiting"
=============================================================================
