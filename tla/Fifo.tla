------------------------------- MODULE Fifo -------------------------------
(***************************************************************************)
(* What a bounded queue promises: values leave it in the order they came   *)
(* in, and it refuses one only when it is full, or has none.               *)
(***************************************************************************)
EXTENDS Integers, Sequences

CONSTANTS Value, Capacity

VARIABLES
    items,      \* the values in the queue, the oldest first
    answer      \* of the last call: <<the value that went in or came out>>, or <<>> for false

Init == items = <<>> /\ answer = <<>>

Push(v) ==
    /\ Len(items) < Capacity
    /\ items' = Append(items, v)
    /\ answer' = <<v>>

PushFails ==
    /\ Len(items) = Capacity
    /\ answer' = <<>>
    /\ UNCHANGED items

Pop ==
    /\ items # <<>>
    /\ items' = Tail(items)
    /\ answer' = <<Head(items)>>

PopFails ==
    /\ items = <<>>
    /\ answer' = <<>>
    /\ UNCHANGED items

Next == (\E v \in Value : Push(v)) \/ PushFails \/ Pop \/ PopFails

Spec == Init /\ [][Next]_<<items, answer>>
=============================================================================
