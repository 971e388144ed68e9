----------------------------- MODULE ImageCycle -----------------------------
(***************************************************************************)
(* The half-duplex cycle as the two demo programs run it: the sender       *)
(* writes at most IMAGE_MAX_DATA_PER_CYCLE packets, the receiver takes     *)
(* those that the link lets through and answers with                       *)
(* IMAGE_ACK_REPEAT_COUNT ACKs, and the next cycle begins.                 *)
(*                                                                         *)
(* With KeepContexts the two contexts live on from cycle to cycle, as the  *)
(* API intends; without it every cycle is a new run of sender_demo and of  *)
(* receiver_demo, as main() has it.                                        *)
(***************************************************************************)
EXTENDS ImageSender, ImageReceiver, Sequences

CONSTANTS
    image,                      \* the image on sender_demo's command line
    IMAGE_MAX_DATA_PER_CYCLE,
    IMAGE_ACK_REPEAT_COUNT,
    KeepContexts,
    LinkDamages,                \* what the link may damage: "data", "headers"
    MaxSenderCrashes            \* how often the sender may start over

ASSUME CycleAssumption ==
    /\ image \in Images
    /\ IMAGE_MAX_DATA_PER_CYCLE \in Nat \ {0}
    /\ IMAGE_ACK_REPEAT_COUNT \in Nat \ {0}
    /\ KeepContexts \in BOOLEAN
    /\ LinkDamages \subseteq {"data", "headers"}
    /\ MaxSenderCrashes \in Nat

VARIABLES
    phase,          \* where the running program is
    txCount,        \* tx_count of sender_demo
    tx,             \* the packets of this cycle's file not yet read
    inHand,         \* pkt of receiver_demo, as the link delivered it, or none
    initialized,    \* initialized of receiver_demo
    ackSeq,         \* i of receiver_demo's ACK loop
    ackIn,          \* the ACK files that got through, then the one parsed
    crashes         \* number of times the sender started over

cycleVars == <<phase, txCount, tx, inHand, initialized, ackSeq, ackIn, crashes>>

vars == <<sndVars, rcvVars, cycleVars>>

Init ==
    /\ SenderInitState
    /\ ReceiverInitState
    /\ phase = "init"
    /\ txCount = 0
    /\ tx = <<>>
    /\ inHand = {}
    /\ initialized = FALSE
    /\ ackSeq = 0
    /\ ackIn = {}
    /\ crashes = 0

CycleTypeOK ==
    /\ phase \in {"init", "parse", "list", "send", "listen", "handle", "ack"}
    /\ txCount \in 0..IMAGE_MAX_DATA_PER_CYCLE
    /\ tx \in Seq(ChunkPacket)
    /\ Len(tx) <= IMAGE_MAX_DATA_PER_CYCLE
    /\ inHand \subseteq ChunkPacket /\ Cardinality(inHand) <= 1
    /\ initialized \in BOOLEAN
    /\ ackSeq \in 0..IMAGE_ACK_REPEAT_COUNT
    /\ ackIn \subseteq AckPacket
    /\ crashes \in 0..MaxSenderCrashes

TypeOK == SenderTypeOK /\ ReceiverTypeOK /\ CycleTypeOK

(***************************************************************************)
(* sender_demo.                                                            *)
(***************************************************************************)
SenderStarts ==
    /\ phase = "init"
    /\ sender_init(image)
    /\ phase' = "parse"
    /\ UNCHANGED <<rcvVars, txCount, tx, inHand, initialized, ackSeq, ackIn, crashes>>

NoAckFile ==
    /\ phase = "parse"
    /\ phase' = "send"
    /\ ackIn' = {}
    /\ UNCHANGED <<sndVars, rcvVars, txCount, tx, inHand, initialized, ackSeq, crashes>>

(* One of the ACK files of the cycle is on the command line. *)
ParseAckFile(a) ==
    /\ phase = "parse"
    /\ a \in ackIn
    /\ ackIn' = {a}
    /\ \/ sender_parse_ack(a) /\ phase' = "list"
       \/ sender_reject_ack(a) /\ phase' = "send"
    /\ UNCHANGED <<rcvVars, txCount, tx, inHand, initialized, ackSeq, crashes>>

BuildList ==
    /\ phase = "list"
    /\ sender_build_resend_list
    /\ phase' = "send"
    /\ UNCHANGED <<rcvVars, txCount, tx, inHand, initialized, ackSeq, ackIn, crashes>>

(* Mutant: the loop runs once more than IMAGE_MAX_DATA_PER_CYCLE. *)
SendsOneMore ==
    /\ phase = "send"
    /\ txCount <= IMAGE_MAX_DATA_PER_CYCLE
    /\ \E read \in ReadOutcomes \ {"error"} :
        \/ \E c \in resend : /\ get_next_resend(c, read)
                            /\ tx' = Append(tx, BuiltPacket(c, read))
        \/ get_next_new(read) /\ tx' = Append(tx, BuiltPacket(nextNew, read))
    /\ txCount' = txCount + 1
    /\ UNCHANGED <<rcvVars, phase, inHand, initialized, ackSeq, ackIn, crashes>>

SendPacket ==
    /\ phase = "send"
    /\ txCount < IMAGE_MAX_DATA_PER_CYCLE
    /\ \E read \in ReadOutcomes \ {"error"} :
        \/ \E c \in resend : /\ get_next_resend(c, read)
                            /\ tx' = Append(tx, BuiltPacket(c, read))
        \/ get_next_new(read) /\ tx' = Append(tx, BuiltPacket(nextNew, read))
    /\ txCount' = txCount + 1
    /\ UNCHANGED <<rcvVars, phase, inHand, initialized, ackSeq, ackIn, crashes>>

StartListening ==
    /\ phase' = "listen"
    /\ txCount' = 0
    /\ initialized' = (KeepContexts /\ initialized)
    /\ ackIn' = {}
    /\ UNCHANGED <<rcvVars, tx, inHand, ackSeq, crashes>>

(* The chunk cannot be read: its index is consumed and the loop breaks off. *)
ReadFails ==
    /\ phase = "send"
    /\ txCount < IMAGE_MAX_DATA_PER_CYCLE
    /\ "error" \in ReadOutcomes
    /\ get_next_new("error") \/ \E c \in resend : get_next_resend(c, "error")
    /\ StartListening

(* The sending program dies and is started again, all it knew forgotten;   *)
(* what it had already sent is on its way.                                 *)
SenderCrashes ==
    /\ phase \in {"parse", "send"}
    /\ crashes < MaxSenderCrashes
    /\ crashes' = crashes + 1
    /\ sender_init(image)
    /\ UNCHANGED <<rcvVars, phase, txCount, tx, inHand, initialized, ackSeq, ackIn>>

(* The loop ends; without KeepContexts receiver_demo is now run afresh. *)
EndSending ==
    /\ phase = "send"
    /\ txCount = IMAGE_MAX_DATA_PER_CYCLE \/ NothingToSend
    /\ StartListening
    /\ UNCHANGED sndVars

(***************************************************************************)
(* receiver_demo.                                                          *)
(***************************************************************************)
NextCycle == IF KeepContexts THEN "parse" ELSE "init"

(* The link drops the packet, or one of the ACKs further down. *)
PacketLost ==
    /\ phase = "listen"
    /\ tx # <<>>
    /\ tx' = Tail(tx)
    /\ UNCHANGED <<sndVars, rcvVars, phase, txCount, inHand, initialized, ackSeq, ackIn, crashes>>

(* The packet as sent, or with damage to the data, or to the header too. *)
Delivered(p) ==
    {p} \cup
    {[p EXCEPT !.data = "garbage", !.crc_ok = FALSE] : d \in LinkDamages} \cup
    IF "headers" \in LinkDamages
        THEN [image: Images, total: 1..IMAGE_MAX_CHUNKS, index: {p.index},
              data: {p.data}, crc_ok: {FALSE}]
        ELSE {}

(* The first packet read, whatever it is, initialises the context. *)
PacketRead(p) ==
    /\ phase = "listen"
    /\ tx # <<>>
    /\ p \in Delivered(Head(tx))
    /\ inHand' = {p}
    /\ tx' = Tail(tx)
    /\ initialized' = TRUE
    /\ IF initialized THEN UNCHANGED rcvVars ELSE receiver_init(p.image, p.total, TRUE)
    /\ phase' = "handle"
    /\ UNCHANGED <<sndVars, txCount, ackSeq, ackIn, crashes>>

(* The output cannot be opened: the receiver gives up on the whole cycle. *)
InitFails ==
    /\ phase = "listen"
    /\ tx # <<>> /\ ~initialized
    /\ receiver_init(Head(tx).image, Head(tx).total, FALSE)
    /\ tx' = <<>>
    /\ phase' = NextCycle
    /\ UNCHANGED <<sndVars, txCount, inHand, initialized, ackSeq, ackIn, crashes>>

HandlePacket ==
    /\ phase = "handle"
    /\ \E p \in inHand :
        \/ "ok" \in WriteOutcomes /\ receiver_handle_chunk(p)
        \/ \E write \in WriteOutcomes : receiver_write_fails(p, write)
        \/ receiver_reject_chunk(p)
    /\ inHand' = {}
    /\ phase' = "listen"
    /\ UNCHANGED <<sndVars, txCount, tx, initialized, ackSeq, ackIn, crashes>>

EndListening ==
    /\ phase = "listen"
    /\ tx = <<>>
    /\ phase' = IF initialized THEN "ack" ELSE NextCycle    \* "no packet received"
    /\ ackSeq' = 0
    /\ UNCHANGED <<sndVars, rcvVars, txCount, tx, inHand, initialized, ackIn, crashes>>

(* An ACK as built, or one that damage has made say "complete". *)
DeliveredAcks ==
    {BuiltAck} \cup {[BuiltAck EXCEPT !.complete = TRUE, !.crc_ok = FALSE] : d \in LinkDamages}

(* One ACK of the three: it gets through, or the link loses it. *)
SendAck(arriving) ==
    /\ phase = "ack"
    /\ ackSeq < IMAGE_ACK_REPEAT_COUNT
    /\ receiver_build_ack
    /\ ackSeq' = ackSeq + 1
    /\ ackIn' = ackIn \cup arriving
    /\ UNCHANGED <<sndVars, phase, txCount, tx, inHand, initialized, crashes>>

EndCycle ==
    /\ phase = "ack"
    /\ ackSeq = IMAGE_ACK_REPEAT_COUNT
    /\ phase' = NextCycle
    /\ UNCHANGED <<sndVars, txCount, tx, inHand, initialized, ackSeq, ackIn, crashes>>
    /\ IF KeepContexts THEN UNCHANGED rcvVars ELSE receiver_close

Next ==
    \/ SenderStarts
    \/ NoAckFile
    \/ \E a \in ackIn : ParseAckFile(a)
    \/ BuildList
    \/ SendPacket
    \/ ReadFails
    \/ SenderCrashes
    \/ EndSending
    \/ PacketLost
    \/ tx # <<>> /\ \E p \in Delivered(Head(tx)) : PacketRead(p)
    \/ InitFails
    \/ HandlePacket
    \/ EndListening
    \/ \E arriving \in {{}} \cup {{a} : a \in DeliveredAcks} : SendAck(arriving)
    \/ EndCycle

(***************************************************************************)
(* The programs run on, neither disk is broken for good, and the link is   *)
(* lossy but not dead: a chunk that is sent again and again gets through   *)
(* undamaged, and so does an ACK, which is then parsed.                    *)
(***************************************************************************)
ChunkGetsThrough(c) == tx # <<>> /\ Head(tx).index = c /\ PacketRead(Head(tx))

ChunkIsWritten(c) == HandlePacket /\ \E p \in inHand : p.index = c /\ receiver_handle_chunk(p)

Fairness ==
    /\ WF_vars(Next)
    /\ SF_vars(SendPacket)
    /\ \A c \in Chunks(image) : SF_vars(ChunkGetsThrough(c)) /\ SF_vars(ChunkIsWritten(c))
    /\ SF_vars(SendAck({BuiltAck}))
    /\ SF_vars(\E a \in ackIn : a.crc_ok /\ ParseAckFile(a))

Spec == Init /\ [][Next]_vars /\ Fairness

(***************************************************************************)
(* Properties.                                                             *)
(***************************************************************************)

(* Once the receiver has heard one packet, the image gets through, however *)
(* many packets and ACKs the link loses on the way and however often a     *)
(* read or a write fails (the whole cycle of                               *)
(* sender_get_next_packet_for_cycle, receiver_handle_chunk,                *)
(* receiver_build_ack, sender_parse_ack and sender_build_resend_list).     *)
HeardThenDone == initialized ~> sender_is_done

(* The file of one cycle holds no chunk twice, unless the sender crashed:  *)
(* resends and new chunks do not overlap, whatever ACKs were lost before.  *)
NoDuplicateInCycle ==
    crashes = 0 => \A j, k \in 1..Len(tx) : tx[j].index = tx[k].index => j = k

(* When a valid ACK was given to a sender that never crashed, every chunk  *)
(* that was sent in an earlier cycle and that the ACK reports missing is   *)
(* in the resend list the cycle starts with.                               *)
AckedLossIsResent ==
    phase = "send" /\ txCount = 0 /\ crashes = 0 =>
        \A a \in ackIn, p \in packets :
            AckAcceptable(a) => p.index \in a.bitmap \cup resend

(* An ACK that is parsed in the cycle after it was built tells the         *)
(* receiver's state of that moment: nothing the receiver has is resent.    *)
NothingIsResentInVain ==
    phase = "send" /\ (\E a \in ackIn : AckAcceptable(a)) => resend \cap recvBitmap = {}

(* A packet that arrives intact is stored, as long as the disk takes it:   *)
(* damage to another packet does not make the receiver refuse it           *)
(* (receiver_handle_chunk after receiver_init from the first packet).      *)
IntactPacketIsStored ==
    [][\A p \in inHand : phase = "handle" /\ p.crc_ok => p.index \in recvBitmap']_vars
=============================================================================
