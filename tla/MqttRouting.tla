---------------------------- MODULE MqttRouting ----------------------------
(***************************************************************************)
(* What a broker promises: a message reaches every client that has been    *)
(* granted a filter the topic matches, and no other; a client that leaves  *)
(* has no filters any more.                                                *)
(***************************************************************************)
CONSTANTS
    Clients, Filters, Topics, NoTopic,
    Matches(_, _)   \* does a topic match a filter?

VARIABLES
    interest,   \* interest[c]: the filters granted to client c
    message,    \* the topic of the message just routed, or NoTopic
    reached     \* the clients it was sent to

vars == <<interest, message, reached>>

Init ==
    /\ interest = [c \in Clients |-> {}]
    /\ message = NoTopic
    /\ reached = {}

Silent == message' = NoTopic /\ reached' = {}

Grant(c, fs) ==
    /\ interest' = [interest EXCEPT ![c] = @ \cup fs]
    /\ Silent

Leave(gone) ==
    /\ interest' = [c \in Clients |-> IF c \in gone THEN {} ELSE interest[c]]
    /\ Silent

Route(t) ==
    /\ message' = t
    /\ reached' = {c \in Clients : \E f \in interest[c] : Matches(f, t)}
    /\ UNCHANGED interest

Other == Silent /\ UNCHANGED interest

Next ==
    \/ \E c \in Clients, fs \in SUBSET Filters : Grant(c, fs)
    \/ \E gone \in SUBSET Clients : Leave(gone)
    \/ \E t \in Topics : Route(t)
    \/ Other

Spec == Init /\ [][Next]_vars
=============================================================================
