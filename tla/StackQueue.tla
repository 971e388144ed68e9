----------------------------- MODULE StackQueue -----------------------------
(***************************************************************************)
(* queue_simple_queue_using_stacks/solution.c.  A stack is the sequence of *)
(* data[0] .. data[top - 1].  The callers keep to what the code asks of    *)
(* them and does not check: no pop from an empty queue, no push on a full  *)
(* stack.                                                                  *)
(***************************************************************************)
EXTENDS Integers, Sequences

CONSTANTS Value, MAX_SIZE

VARIABLES
    in, out,    \* the stacks
    moving,     \* the loop of queue_pop is running
    answer      \* of the last call: <<the value that went in or came out>>

vars == <<in, out, moving, answer>>

queue_init == in = <<>> /\ out = <<>> /\ moving = FALSE /\ answer = <<>>

stack_empty(s) == s = <<>>

stack_push(s, value) == Append(s, value)

Top(s) == s[Len(s)]

stack_pop(s) == SubSeq(s, 1, Len(s) - 1)

queue_empty == stack_empty(in) /\ stack_empty(out)

queue_push(value) ==
    /\ ~moving
    /\ Len(in) < MAX_SIZE
    /\ in' = stack_push(in, value)
    /\ answer' = <<value>>
    /\ UNCHANGED <<out, moving>>

(* Mutant: the values in are moved onto those that wait in out. *)
MovesAnyTime == ~stack_empty(in)

(* queue_pop begins by moving the values in only when out is used up. *)
MovesFirst == stack_empty(out)

Return ==
    /\ out' = stack_pop(out)
    /\ answer' = <<Top(out)>>
    /\ UNCHANGED in

queue_pop ==
    /\ ~moving
    /\ ~queue_empty
    /\ \/ MovesFirst /\ moving' = TRUE /\ UNCHANGED <<in, out, answer>>
       \/ ~MovesFirst /\ Return /\ UNCHANGED moving

(* One turn of the loop, and the return behind it. *)
Move ==
    /\ moving
    /\ \/ /\ ~stack_empty(in)
          /\ in' = stack_pop(in)
          /\ out' = stack_push(out, Top(in))
          /\ UNCHANGED <<moving, answer>>
       \/ /\ stack_empty(in)
          /\ Return
          /\ moving' = FALSE

Next == (\E value \in Value : queue_push(value)) \/ queue_pop \/ Move

Spec == queue_init /\ [][Next]_vars

Reversed(s) == [i \in 1..Len(s) |-> s[Len(s) + 1 - i]]

(* While the loop runs, out holds what came in last; otherwise it holds    *)
(* what came in first.                                                     *)
Items == IF moving THEN in \o Reversed(out) ELSE Reversed(out) \o in

F == INSTANCE Fifo WITH Capacity <- 2 * MAX_SIZE, items <- Items

(* Two stacks are a queue, in the middle of a move too (queue_pop).        *)
StacksAreFifo == F!Spec
=============================================================================
