--------------------------- MODULE CircularQueue ---------------------------
(***************************************************************************)
(* queue_simple_circular_queue/solution.c: a ring of QUEUE_CAPACITY cells. *)
(***************************************************************************)
EXTENDS Integers, Sequences

CONSTANTS Value, QUEUE_CAPACITY

ASSUME CapacityAssumption == QUEUE_CAPACITY \in Nat \ {0}

Cells == 0..(QUEUE_CAPACITY - 1)

VARIABLES
    data,       \* the cells; queue_init leaves in them what they held
    front, rear, size,
    answer      \* of the last call: <<the value>>, or <<>> for false

ringVars == <<data, front, rear, size, answer>>

RingOK ==
    /\ data \in [Cells -> Value]
    /\ front \in Cells
    /\ rear \in Cells
    /\ size \in 0..QUEUE_CAPACITY
    /\ answer \in {<<>>} \cup {<<v>> : v \in Value}

queue_init ==
    /\ data \in [Cells -> Value]
    /\ front = 0
    /\ rear = 0
    /\ size = 0
    /\ answer = <<>>

queue_empty == size = 0

(* Mutant: one value too many fits. *)
FullLate == size > QUEUE_CAPACITY

queue_full == size = QUEUE_CAPACITY

queue_push(value) ==
    \/ /\ queue_full
       /\ answer' = <<>>
       /\ UNCHANGED <<data, front, rear, size>>
    \/ /\ ~queue_full
       /\ data' = [data EXCEPT ![rear] = value]
       /\ rear' = (rear + 1) % QUEUE_CAPACITY
       /\ size' = size + 1
       /\ answer' = <<value>>
       /\ UNCHANGED front

queue_pop ==
    \/ /\ queue_empty
       /\ answer' = <<>>
       /\ UNCHANGED <<data, front, rear, size>>
    \/ /\ ~queue_empty
       /\ front' = (front + 1) % QUEUE_CAPACITY
       /\ size' = size - 1
       /\ answer' = <<data[front]>>
       /\ UNCHANGED <<data, rear>>

RingNext == (\E value \in Value : queue_push(value)) \/ queue_pop

RingSpec == queue_init /\ [][RingNext]_ringVars

(* The values in the ring, from the front on. *)
Items == [k \in 1..size |-> data[(front + k - 1) % QUEUE_CAPACITY]]

F == INSTANCE Fifo WITH Capacity <- QUEUE_CAPACITY, items <- Items

(* The ring is a queue, wherever it starts and however often it has gone   *)
(* round (queue_push, queue_pop).                                          *)
CircularIsFifo == F!Spec
=============================================================================
