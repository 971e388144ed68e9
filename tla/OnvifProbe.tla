----------------------------- MODULE OnvifProbe -----------------------------
(***************************************************************************)
(* onvif_probe_demo.c: one multicast probe, then select and recvfrom until *)
(* select has waited Wait seconds in vain.                                 *)
(***************************************************************************)
EXTENDS Naturals

CONSTANTS
    Wait,       \* tv_sec
    Devices     \* answers that wait in the socket at a time: bounds its buffer

VARIABLES
    pc,
    timer,      \* what is left of tv
    datagrams,  \* answers in the socket's buffer
    blanks,     \* what makes select report the socket but is no answer: an
                \* empty datagram, or an error; one at a time
    quiet       \* seconds since the probe or the last answer, up to Wait

probeVars == <<timer, datagrams, blanks, quiet>>

vars == <<pc, probeVars>>

Init == pc = "start" /\ timer = Wait /\ datagrams = 0 /\ blanks = 0 /\ quiet = 0

(* Mutant: tv is set once, before the loop; select leaves in it what is    *)
(* left.                                                                   *)
SetOnce == timer

(* tv.tv_sec = 5 before each select *)
Timeout == Wait

socket_sendto ==
    /\ pc = "start"
    /\ \/ pc' = "select" /\ timer' = Timeout
       \/ pc' = "ended" /\ UNCHANGED timer
    /\ UNCHANGED <<datagrams, blanks, quiet>>

SelectReady ==
    /\ pc = "select"
    /\ datagrams + blanks > 0
    /\ pc' = "recvfrom"
    /\ UNCHANGED probeVars

(* n > 0: the answer is printed. *)
recvfrom ==
    /\ pc = "recvfrom"
    /\ datagrams > 0
    /\ datagrams' = datagrams - 1
    /\ pc' = "select"
    /\ timer' = Timeout
    /\ UNCHANGED <<blanks, quiet>>

(* n <= 0: nothing is printed, and the loop goes on all the same. *)
recvfrom_nothing ==
    /\ pc = "recvfrom"
    /\ blanks > 0
    /\ blanks' = blanks - 1
    /\ pc' = "select"
    /\ timer' = Timeout
    /\ UNCHANGED <<datagrams, quiet>>

SelectTimesOut ==
    /\ pc = "select"
    /\ datagrams + blanks = 0
    /\ timer = 0
    /\ pc' = "ended"
    /\ UNCHANGED probeVars

(* select refuses its arguments, at once. *)
SelectFails ==
    /\ pc = "select"
    /\ timer = Wait
    /\ pc' = "ended"
    /\ UNCHANGED probeVars

(* A second passes in which select has nothing to report. *)
Tick ==
    /\ pc = "select"
    /\ datagrams + blanks = 0
    /\ timer > 0
    /\ timer' = timer - 1
    /\ quiet' = IF quiet < Wait THEN quiet + 1 ELSE quiet
    /\ UNCHANGED <<pc, datagrams, blanks>>

(* A device answers the probe, also again and again. *)
DeviceAnswers ==
    /\ pc \in {"select", "recvfrom"}
    /\ datagrams < Devices
    /\ datagrams' = datagrams + 1
    /\ quiet' = 0
    /\ UNCHANGED <<pc, timer, blanks>>

BlankComes ==
    /\ pc \in {"select", "recvfrom"}
    /\ blanks = 0
    /\ blanks' = 1
    /\ UNCHANGED <<pc, timer, datagrams, quiet>>

OwnStep ==
    \/ socket_sendto
    \/ SelectReady
    \/ recvfrom
    \/ recvfrom_nothing
    \/ SelectTimesOut
    \/ SelectFails
    \/ Tick

PeersSend == DeviceAnswers \/ BlankComes

Next == OwnStep \/ PeersSend

(* The search ends by timeout only after Wait seconds without any answer,  *)
(* since the probe or since the last one, and with none left unread: a     *)
(* device that follows another within that time is still heard, also later *)
(* than Wait seconds after the probe (the loop of main).                   *)
NothingIsMissed == pc = "ended" /\ timer = 0 => quiet >= Wait /\ datagrams = 0
=============================================================================
