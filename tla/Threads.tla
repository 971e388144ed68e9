------------------------------ MODULE Threads ------------------------------
(***************************************************************************)
(* pthread_demo.c: main creates the threads, each adds LOOP_COUNT to       *)
(* g_counter one by one under g_mutex, and main joins them in turn and     *)
(* prints the counter.  ++g_counter is a load and a store.                 *)
(***************************************************************************)
EXTENDS Integers, FiniteSets

CONSTANTS
    THREAD_COUNT,
    LOOP_COUNT

ASSUME CountsAssumption == THREAD_COUNT \in Nat /\ LOOP_COUNT \in Nat

Thread == 0..(THREAD_COUNT - 1)

Nobody == -1

(* What main's array holds before it is written, and what may be found     *)
(* there when main has returned.                                           *)
Garbage == -1

VARIABLES
    pc,         \* main
    ids,        \* main's array of the threads' arguments
    created,    \* threads that main has created, or is waiting for: its i
    at,         \* where each thread is
    i,          \* loop variable of each thread
    id,         \* what each thread has read through arg
    loaded,     \* the value of g_counter that each thread has loaded
    g_counter,
    g_mutex,    \* who holds it
    printed     \* the counter that main printed, or -1

threadVars == <<ids, created, at, i, id, loaded, g_counter, g_mutex, printed>>

vars == <<pc, threadVars>>

Init ==
    /\ pc = "start"
    /\ ids = [t \in Thread |-> Garbage]
    /\ created = 0
    /\ at = [t \in Thread |-> "none"]
    /\ i = [t \in Thread |-> 0]
    /\ id = [t \in Thread |-> -1]
    /\ loaded = [t \in Thread |-> 0]
    /\ g_counter = 0
    /\ g_mutex = Nobody
    /\ printed = -1

(* What a thread may read through arg, which points into the array: once   *)
(* main has returned the array is gone, and the value is undefined.        *)
ArgOf(t) == IF pc = "returned" THEN {ids[t], Garbage} ELSE {ids[t]}

pthread_create ==
    /\ pc = "start"
    /\ created < THREAD_COUNT
    /\ ids' = [ids EXCEPT ![created] = created]
    /\ created' = created + 1
    /\ at' = [at EXCEPT ![created] = "begin"]
    /\ UNCHANGED <<pc, i, id, loaded, g_counter, g_mutex, printed>>

(* main returns 1; the threads that it has created run on. *)
create_fails ==
    /\ pc = "start"
    /\ created < THREAD_COUNT
    /\ ids' = [ids EXCEPT ![created] = created]
    /\ pc' = "returned"
    /\ UNCHANGED <<created, at, i, id, loaded, g_counter, g_mutex, printed>>

(* exit, after the return from main, ends the process with all threads. *)
process_ends ==
    /\ pc = "returned"
    /\ pc' = "ended"
    /\ UNCHANGED threadVars

all_created ==
    /\ pc = "start"
    /\ created = THREAD_COUNT
    /\ pc' = "join"
    /\ created' = 0
    /\ UNCHANGED <<ids, at, i, id, loaded, g_counter, g_mutex, printed>>

(* Mutant: main does not wait for the last thread. *)
JoinsButLast == created < THREAD_COUNT - 1

(* i < THREAD_COUNT in the loop of pthread_join. *)
MoreToJoin == created < THREAD_COUNT

pthread_join ==
    /\ pc = "join"
    /\ MoreToJoin
    /\ at[created] = "done"
    /\ created' = created + 1
    /\ UNCHANGED <<pc, ids, at, i, id, loaded, g_counter, g_mutex, printed>>

print_counter ==
    /\ pc = "join"
    /\ ~MoreToJoin
    /\ printed' = g_counter
    /\ pc' = "ended"
    /\ UNCHANGED <<ids, created, at, i, id, loaded, g_counter, g_mutex>>

Begin(t) ==
    /\ at[t] = "begin"
    /\ \E v \in ArgOf(t) : id' = [id EXCEPT ![t] = v]
    /\ at' = [at EXCEPT ![t] = "loop"]
    /\ UNCHANGED <<ids, created, i, loaded, g_counter, g_mutex, printed>>

Lock(t) ==
    /\ at[t] = "loop"
    /\ i[t] < LOOP_COUNT
    /\ g_mutex = Nobody
    /\ g_mutex' = t
    /\ at' = [at EXCEPT ![t] = "load"]
    /\ UNCHANGED <<ids, created, i, id, loaded, g_counter, printed>>

Load(t) ==
    /\ at[t] = "load"
    /\ loaded' = [loaded EXCEPT ![t] = g_counter]
    /\ at' = [at EXCEPT ![t] = "store"]
    /\ UNCHANGED <<ids, created, i, id, g_counter, g_mutex, printed>>

Store(t) ==
    /\ at[t] = "store"
    /\ g_counter' = loaded[t] + 1
    /\ i' = [i EXCEPT ![t] = @ + 1]
    /\ at' = [at EXCEPT ![t] = "unlock"]
    /\ UNCHANGED <<ids, created, id, loaded, g_mutex, printed>>

Unlock(t) ==
    /\ at[t] = "unlock"
    /\ g_mutex' = Nobody
    /\ at' = [at EXCEPT ![t] = "loop"]
    /\ UNCHANGED <<ids, created, i, id, loaded, g_counter, printed>>

Done(t) ==
    /\ at[t] = "loop"
    /\ i[t] = LOOP_COUNT
    /\ at' = [at EXCEPT ![t] = "done"]
    /\ UNCHANGED <<ids, created, i, id, loaded, g_counter, g_mutex, printed>>

(* A thread runs until the process ends. *)
ThreadStep(t) ==
    /\ pc # "ended"
    /\ Begin(t) \/ Lock(t) \/ Load(t) \/ Store(t) \/ Unlock(t) \/ Done(t)
    /\ UNCHANGED pc

Next ==
    \/ pthread_create
    \/ create_fails
    \/ process_ends
    \/ all_created
    \/ pthread_join
    \/ print_counter
    \/ \E t \in Thread : ThreadStep(t)

Spec == Init /\ [][Next]_vars

(* main prints THREAD_COUNT * LOOP_COUNT: no increment is lost, and main   *)
(* waits for all of them; and unless a pthread_create fails each thread    *)
(* has read its own number, also when it starts long after main has gone   *)
(* on.  After a failed one, main has returned, and a thread that starts in *)
(* what is left of the process may read anything (thread_func, main).      *)
CounterIsExact ==
    /\ printed # -1 => printed = THREAD_COUNT * LOOP_COUNT
    /\ pc \in {"start", "join"} \/ printed # -1 =>
           \A t \in Thread : at[t] \notin {"none", "begin"} => id[t] = t
=============================================================================
