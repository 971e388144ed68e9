----------------------------- MODULE ParentChild -----------------------------
(***************************************************************************)
(* pipe_demo.c and shared_memory_demo.c: a child that leaves a message for *)
(* its parent and returns, through a pipe or through shared memory.        *)
(***************************************************************************)
EXTENDS Naturals

VARIABLES
    pc,         \* the parent
    demo,       \* which of the two programs it is
    inOrder,    \* whether the child's stores reach the parent in program order
    child,      \* "none", "write", "rest" or "ended"
    writers,    \* who has the pipe's write end open
    message,    \* in the pipe or in text: "", "hel" or "hello"
    ready,
    seen        \* what the parent printed, or "none"

ipcVars == <<demo, inOrder, child, writers, message, ready, seen>>

vars == <<pc, ipcVars>>

Init ==
    /\ pc = "start"
    /\ demo = "none"
    /\ inOrder = TRUE
    /\ child = "none"
    /\ writers = {}
    /\ message = ""
    /\ ready = FALSE
    /\ seen = "none"

(* pipe, or mmap and the two stores before fork. *)
Prepare(d) ==
    /\ pc = "start"
    /\ demo' = d
    /\ writers' = IF d = "pipe" THEN {"parent"} ELSE {}
    /\ inOrder' \in BOOLEAN
    /\ pc' \in {"fork", "ended"}
    /\ UNCHANGED <<child, message, ready, seen>>

fork ==
    /\ pc = "fork"
    /\ child' = "write"
    /\ writers' = IF demo = "pipe" THEN {"parent", "child"} ELSE {}
    /\ pc' = "parent"
    /\ UNCHANGED <<demo, inOrder, message, ready, seen>>

(* shared_memory_demo does not look at the result of fork. *)
fork_fails ==
    /\ pc = "fork"
    /\ pc' = IF demo = "pipe" THEN "ended" ELSE "parent"
    /\ UNCHANGED ipcVars

(* Mutant: the parent keeps its write end. *)
KeepsWriteEnd == writers

ClosesWriteEnd == writers \ {"parent"}

CloseWriteEnd ==
    /\ pc = "parent"
    /\ demo = "pipe"
    /\ writers' = ClosesWriteEnd
    /\ pc' = "read"
    /\ UNCHANGED <<demo, inOrder, child, message, ready, seen>>

(* read returns the message, or 0 when no writer is left. *)
ReadPipe ==
    /\ pc = "read"
    /\ message # "" \/ writers = {}
    /\ seen' = IF message = "" THEN seen ELSE message
    /\ pc' = "wait"
    /\ UNCHANGED <<demo, inOrder, child, writers, message, ready>>

PollReady ==
    /\ pc = "parent"
    /\ demo = "shm"
    /\ ready
    /\ pc' = "print"
    /\ UNCHANGED ipcVars

PrintText ==
    /\ pc = "print"
    /\ seen' = message
    /\ pc' = "wait"
    /\ UNCHANGED <<demo, inOrder, child, writers, message, ready>>

waitpid ==
    /\ pc = "wait"
    /\ child \in {"none", "ended"}
    /\ pc' = "ended"
    /\ UNCHANGED ipcVars

(* write is atomic, up to PIPE_BUF bytes; it may fail. *)
ChildWrites ==
    /\ child = "write"
    /\ demo = "pipe"
    /\ message' \in {"", "hello"}
    /\ child' = "rest"
    /\ UNCHANGED <<pc, demo, inOrder, writers, ready, seen>>

ChildCloses ==
    /\ child = "rest"
    /\ demo = "pipe"
    /\ writers' = writers \ {"child"}
    /\ child' = "ended"
    /\ UNCHANGED <<pc, demo, inOrder, message, ready, seen>>

(* data->ready = 1 comes after strcpy, if the stores arrive in order. *)
ReadyDue == inOrder => message = "hello"

ChildStoresText ==
    /\ child = "write"
    /\ demo = "shm"
    /\ message # "hello"
    /\ message' = IF message = "" THEN "hel" ELSE "hello"
    /\ UNCHANGED <<pc, demo, inOrder, child, writers, ready, seen>>

ChildStoresReady ==
    /\ child = "write"
    /\ demo = "shm"
    /\ ~ready
    /\ ReadyDue
    /\ ready' = TRUE
    /\ UNCHANGED <<pc, demo, inOrder, child, writers, message, seen>>

ChildReturns ==
    /\ child = "write"
    /\ demo = "shm"
    /\ ready /\ message = "hello"
    /\ child' = "ended"
    /\ UNCHANGED <<pc, demo, inOrder, writers, message, ready, seen>>

Next ==
    \/ \E d \in {"pipe", "shm"} : Prepare(d)
    \/ fork \/ fork_fails
    \/ CloseWriteEnd \/ ReadPipe \/ PollReady \/ PrintText \/ waitpid
    \/ ChildWrites \/ ChildCloses
    \/ ChildStoresText \/ ChildStoresReady \/ ChildReturns

(* What the parent prints is the whole message, provided that the stores   *)
(* to shared memory reach it in program order, which nothing in the code   *)
(* asks for (main of both programs).                                       *)
ReadsWhole == seen # "none" /\ (demo = "shm" => inOrder) => seen = "hello"

(* fork has failed, and the parent polls for a child that is not there.    *)
HeldUp == demo = "shm" /\ pc = "parent" /\ child = "none"
=============================================================================
