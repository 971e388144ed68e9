------------------------------- MODULE Socket -------------------------------
(***************************************************************************)
(* One TCP connection as the programs of src/protocol_learning_code use    *)
(* it.  A message is a sequence of pieces that the network does not cut    *)
(* further; send and recv move as many of them as they like.               *)
(***************************************************************************)
EXTENDS Naturals, SequencesExt

VARIABLES
    pc,         \* where the program is: "start" before main, "ended" after it
    unsent,     \* what is left of the message being sent
    wire,       \* every piece sent so far
    arriving,   \* what the peer has sent and the program has not received
    hungup,     \* the peer has closed the connection
    broken      \* a send has failed

socketVars == <<pc, unsent, wire, arriving, hungup, broken>>

SocketInit ==
    /\ pc = "start"
    /\ unsent = <<>>
    /\ wire = <<>>
    /\ arriving = <<>>
    /\ hungup = FALSE
    /\ broken = FALSE

(* Mutant: one send is taken for the whole message. *)
SendsOnce(n) ==
    /\ ~broken
    /\ wire' = wire \o SubSeq(unsent, 1, n)
    /\ unsent' = <<>>

(* send accepts the first n pieces. *)
Sends(n) ==
    /\ ~broken
    /\ wire' = wire \o SubSeq(unsent, 1, n)
    /\ unsent' = SubSeq(unsent, n + 1, Len(unsent))

(* send returns -1 once the peer is gone. *)
SendBreaks == unsent # <<>> /\ hungup /\ ~broken /\ broken' = TRUE

(* On a connection that is gone, send may also raise SIGPIPE, which none   *)
(* of the programs handles; after a failed send it does.                   *)
Killed(sending) ==
    /\ pc \in sending
    /\ unsent # <<>>
    /\ hungup
    /\ pc' = "ended"
    /\ UNCHANGED <<unsent, wire, arriving, hungup, broken>>

(* recv returns the first n pieces. *)
Receives(n) == arriving' = SubSeq(arriving, n + 1, Len(arriving))

(* recv returns 0 or -1: all was read and the peer is gone. *)
NothingComes == arriving = <<>> /\ hungup

(* Every message on the wire is whole before the next one begins: piece i  *)
(* of n follows piece i - 1 of the same message.                           *)
InOnePiece(pieces) ==
    \A j \in DOMAIN pieces :
        IF pieces[j].part = 1
            THEN j = 1 \/ pieces[j - 1].part = pieces[j - 1].parts
            ELSE /\ j > 1
                 /\ pieces[j - 1] = [pieces[j] EXCEPT !.part = @ - 1]
=============================================================================
