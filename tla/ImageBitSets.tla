---------------------------- MODULE ImageBitSets ----------------------------
(***************************************************************************)
(* How the bitmaps travel, as sets of chunk indices: the receiver marks    *)
(* chunks, an ACK carries a copy of what is marked, and the sender takes   *)
(* the copy over.  The other modules work with these sets; ImageBitmap     *)
(* does the same with the bytes of the code.                               *)
(***************************************************************************)
EXTENDS Naturals

CONSTANT Indices

VARIABLES received, inAck, remote

vars == <<received, inAck, remote>>

Init == received = {} /\ inAck = {} /\ remote = {}

Mark(i) == received' = received \cup {i} /\ UNCHANGED <<inAck, remote>>

Unmark(i) == received' = received \ {i} /\ UNCHANGED <<inAck, remote>>

Clear == received' = {} /\ UNCHANGED <<inAck, remote>>

FillAck == inAck' = received /\ UNCHANGED <<received, remote>>

TakeAck == remote' = inAck /\ UNCHANGED <<received, inAck>>

Next ==
    \/ \E i \in Indices : Mark(i) \/ Unmark(i)
    \/ Clear
    \/ FillAck
    \/ TakeAck

Spec == Init /\ [][Next]_vars
=============================================================================
