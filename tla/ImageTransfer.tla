--------------------------- MODULE ImageTransfer ---------------------------
(***************************************************************************)
(* Sender and receiver joined by a link that may lose, duplicate, reorder  *)
(* and damage packets and ACKs, driven by callers that may call any API    *)
(* function at any time.                                                   *)
(*                                                                         *)
(* packets and acks hold everything ever transmitted.  A message that is   *)
(* never taken is lost, one that is taken twice is duplicated, and any     *)
(* order is possible; the three copies of an ACK are one element taken     *)
(* several times.                                                          *)
(***************************************************************************)
EXTENDS ImageSender, ImageReceiver

CONSTANTS
    DamagedPackets,     \* what a chunk packet may look like after damage
    DamagedAcks,        \* what an ACK may look like after damage
    ForgetAfterAck      \* may a receiver that has sent ACKs of an image be
                        \* initialised for that image once more?

ASSUME DamageAssumption ==
    /\ DamagedPackets \subseteq ChunkPacket
    /\ \A p \in DamagedPackets : ~p.crc_ok
    /\ DamagedAcks \subseteq AckPacket
    /\ \A a \in DamagedAcks : ~a.crc_ok

ASSUME ForgetAssumption == ForgetAfterAck \in BOOLEAN

vars == <<sndVars, rcvVars>>

Init == SenderInitState /\ ReceiverInitState

SenderCall ==
    \/ \E i \in Images : sender_init(i)
    \/ sender_init_fails
    \/ sender_close
    \/ sender_build_resend_list
    \/ \E c \in resend, read \in ReadOutcomes : get_next_resend(c, read)
    \/ \E read \in ReadOutcomes : get_next_new(read)

(* sender_parse_ack on whatever the link delivers. *)
AckArrives ==
    \E a \in acks \cup DamagedAcks : sender_parse_ack(a) \/ sender_reject_ack(a)

ReceiverCall ==
    \/ \E i \in Images, opened \in BOOLEAN :
        /\ ForgetAfterAck \/ \A a \in acks : a.image # i
        /\ receiver_init(i, TotalChunks[i], opened)
    \/ receiver_close
    \/ receiver_build_ack

(* receiver_handle_chunk on whatever the link delivers. *)
ChunkArrives ==
    \E p \in packets \cup DamagedPackets :
        \/ "ok" \in WriteOutcomes /\ receiver_handle_chunk(p)
        \/ \E write \in WriteOutcomes : receiver_write_fails(p, write)
        \/ receiver_reject_chunk(p)

Next ==
    \/ SenderCall /\ UNCHANGED rcvVars
    \/ AckArrives /\ UNCHANGED rcvVars
    \/ ReceiverCall /\ UNCHANGED sndVars
    \/ ChunkArrives /\ UNCHANGED sndVars

Spec == Init /\ [][Next]_vars

(***************************************************************************)
(* Properties.                                                             *)
(***************************************************************************)

(* Every variable of both contexts keeps its range; in particular the      *)
(* indices stay below the arrays' sizes and the counters never pass the    *)
(* number of chunks.                                                       *)
TypeOK == SenderTypeOK /\ ReceiverTypeOK

(* received_chunks is the number of bits set in recv_bitmap and            *)
(* image_complete says that every bit is set, however often chunks are     *)
(* repeated and whatever writes fail in between (receiver_handle_chunk).   *)
CountIsExact ==
    /\ receivedChunks = Cardinality(recvBitmap)
    /\ rcvImage # NoImage => (imageComplete <=> recvBitmap = ChunksUpTo(rcvTotal))

(* An ACK in flight is a true snapshot: its count is that of its bitmap    *)
(* and one that says "complete" is about an image that the file held in    *)
(* full, even when the receiver has since been restarted                   *)
(* (receiver_build_ack).                                                   *)
AcksAreTrue ==
    \A a \in acks :
        /\ a.received = Cardinality(a.bitmap)
        /\ a.bitmap \subseteq ChunksUpTo(a.total)
        /\ (a.complete \/ a.received = a.total) => a.image \in saved

(* The sender says ALL_DONE only of an image whose every byte was in the   *)
(* receiver's file at some time, despite stale, reordered, repeated and damaged ACKs and   *)
(* ACKs of other images (sender_parse_ack).                                *)
DoneIsSound == sender_is_done => sndImage \in saved

(* A bit in recv_bitmap means that the file has the whole chunk: the bit   *)
(* is set only after the write, and neither a failed rewrite nor a damaged *)
(* packet harms a chunk that was stored (receiver_handle_chunk).           *)
FileIsFaithful == \A c \in recvBitmap : file[c] = "whole"

(* "1 if whole image received": image_complete is set only when the file   *)
(* holds the whole image, also when the sender's disk has read errors.     *)
CompleteMeansWhole == imageComplete => HoldsWhole(file, rcvImage)

(* What the sender has sent is exactly the chunks below next_new_chunk,    *)
(* and the resend list holds only those: no chunk is sent both as a resend *)
(* and as a new chunk (sender_get_next_packet_for_cycle).                  *)
SentIsPrefix ==
    /\ localSent = ChunksUpTo(nextNew)
    /\ resend \subseteq localSent

(***************************************************************************)
(* While the receiver keeps what it acknowledged, no chunk is forgotten: one that   *)
(* it lacks is still new to the sender, or will be in the next resend list *)
(* because the sender sent it and does not hold it to be received.         *)
(***************************************************************************)
NoChunkIsStranded ==
    sndImage = rcvImage =>
        \A c \in Chunks(sndImage) \ recvBitmap :
            \/ c >= nextNew
            \/ c \in localSent /\ c \notin remoteRecv

(***************************************************************************)
(* The inductive invariant: the properties above and what they rest on.    *)
(***************************************************************************)

(* A context belongs to an image and has that image's number of chunks.    *)
ContextIsOfImage ==
    /\ rcvImage = NoImage => rcvTotal = 0 /\ ~rcvOpen
    /\ rcvImage \in Images => rcvTotal = TotalChunks[rcvImage]

(* With an open file, the bitmap says exactly what is in the file.         *)
FileMatchesBitmap ==
    rcvOpen => \A c \in ChunksUpTo(rcvTotal) : file[c] = "whole" => c \in recvBitmap

MessagesAreOfImage ==
    /\ \A p \in packets : p.data = "whole" /\ p.total = TotalChunks[p.image]
    /\ \A a \in acks : a.total = TotalChunks[a.image]

CompleteIsSaved == imageComplete => rcvImage \in saved

(* What makes DoneIsSound and its companions inductive: every step of the  *)
(* two contexts preserves the conjunction of them all.                     *)
IInv ==
    /\ TypeOK
    /\ SentIsPrefix
    /\ ContextIsOfImage
    /\ CountIsExact
    /\ FileIsFaithful
    /\ FileMatchesBitmap
    /\ MessagesAreOfImage
    /\ CompleteIsSaved
    /\ AcksAreTrue
    /\ DoneIsSound

(* What NoChunkIsStranded rests on when a receiver keeps what it           *)
(* acknowledged: what the sender holds to be received was reported in some *)
(* ACK, and what was reported of the receiver's image is still there.      *)
ReportsHold ==
    /\ remoteRecv = {} \/ \E a \in acks : a.image = sndImage /\ a.bitmap = remoteRecv
    /\ \A a \in acks : a.image = rcvImage => a.bitmap \subseteq recvBitmap

(* ImageTransfer implements ImageDelivery. *)
Delivery == INSTANCE ImageDelivery
    WITH gathering <- rcvImage,
         got       <- recvBitmap,
         delivered <- saved,
         concluded <- IF sender_is_done THEN sndImage ELSE NoImage

(* The detailed protocol does only what ImageDelivery allows: chunks are   *)
(* gathered one at a time, each once, and the sender concludes only what   *)
(* has been delivered.                                                     *)
ImplementsDelivery == Delivery!Spec
=============================================================================
