---------------------------- MODULE ImageSender ----------------------------
(***************************************************************************)
(* The sender's API, src/image_transfer_c/image_sender.c: one action per   *)
(* function that changes an ImageSendContext, in any legal calling order.  *)
(***************************************************************************)
EXTENDS ImageCommon

CONSTANT ReadOutcomes   \* what fseek/fread of one chunk may do

ASSUME ReadOutcomesAssumption == ReadOutcomes \subseteq {"whole", "prefix", "none", "error"}

VARIABLES
    sndImage,       \* task.image_seq
    sndOpen,        \* image_fp # NULL
    sndState,       \* task.state
    nextNew,        \* task.next_new_chunk
    localSent,      \* local_sent_bitmap
    remoteRecv,     \* remote_recv_bitmap
    resend,         \* resend_list[resend_pos .. resend_count-1]: ascending
    packets         \* every packet handed to the caller to be transmitted

ctxVars == <<sndImage, sndOpen, sndState, nextNew, localSent, remoteRecv, resend>>

sndVars == <<ctxVars, packets>>

SenderTypeOK ==
    /\ sndImage \in Images \cup {NoImage}
    /\ sndOpen \in BOOLEAN
    /\ sndState \in {"IDLE", "READY", "ALL_DONE"}
    /\ nextNew \in 0..TotalOf(sndImage)
    /\ localSent \subseteq Chunks(sndImage)
    /\ remoteRecv \subseteq AnyChunk
    /\ resend \subseteq Chunks(sndImage)
    /\ packets \subseteq ChunkPacket

(* The context after the memset to 0 that sender_init begins with. *)
SenderCleared(i, open, state) ==
    /\ sndImage' = i
    /\ sndOpen' = open
    /\ sndState' = state
    /\ nextNew' = 0
    /\ localSent' = {}
    /\ remoteRecv' = {}
    /\ resend' = {}

SenderInitState ==
    /\ sndImage = NoImage
    /\ sndOpen = FALSE
    /\ sndState = "IDLE"
    /\ nextNew = 0
    /\ localSent = {}
    /\ remoteRecv = {}
    /\ resend = {}
    /\ packets = {}

(* Mutant: the context is not cleared, so the old bitmap survives. *)
KeepsRemoteBitmap(i) ==
    /\ sndImage' = i /\ sndOpen' = TRUE /\ sndState' = "READY"
    /\ nextNew' = 0 /\ localSent' = {} /\ resend' = {}
    /\ UNCHANGED <<remoteRecv, packets>>

(* Mutant: the state of the previous image survives. *)
KeepsState(i) ==
    /\ SenderCleared(i, TRUE, sndState)
    /\ UNCHANGED packets

(* sender_init: starts, or restarts after a crash, with an empty history.  *)
sender_init(i) ==
    /\ SenderCleared(i, TRUE, "READY")
    /\ UNCHANGED packets

(* sender_init when fopen fails or the size is out of range. *)
sender_init_fails ==
    /\ SenderCleared(NoImage, FALSE, "IDLE")
    /\ UNCHANGED packets

sender_close ==
    /\ sndOpen' = FALSE
    /\ UNCHANGED <<sndImage, sndState, nextNew, localSent, remoteRecv, resend, packets>>

(***************************************************************************)
(* sender_build_chunk: IMG_ERR_ARG when the file is closed, IMG_ERR_IO     *)
(* when the seek fails or when nothing was read because of an error; a     *)
(* read that stops early is packed as it is, be it after some bytes        *)
(* ("prefix") or at an end of file before the first ("none").              *)
(***************************************************************************)
BuildSucceeds(c, read) == sndOpen /\ c \in Chunks(sndImage) /\ read # "error"

BuiltPacket(c, read) ==
    [image |-> sndImage, total |-> TotalOf(sndImage), index |-> c,
     data |-> read, crc_ok |-> TRUE]

sender_build_chunk(c, read) ==
    packets' = IF BuildSucceeds(c, read)
               THEN packets \cup {BuiltPacket(c, read)}
               ELSE packets

(* Mutant: the ACK's CRC is not compared. *)
AcceptsDamagedAck(a) == a.image = sndImage /\ a.total = TotalOf(sndImage)

(* ack->... checks of sender_parse_ack, in one condition. *)
AckAcceptable(a) ==
    /\ a.image = sndImage
    /\ a.total = TotalOf(sndImage)
    /\ a.crc_ok

(***************************************************************************)
(* sender_parse_ack: the bitmap replaces the previous one, whatever the    *)
(* age of the ACK, and ALL_DONE is never left again.                       *)
(***************************************************************************)
sender_parse_ack(a) ==
    /\ AckAcceptable(a)
    /\ remoteRecv' = a.bitmap
    /\ sndState' = IF a.complete \/ a.received = TotalOf(sndImage)
                   THEN "ALL_DONE" ELSE sndState
    /\ UNCHANGED <<sndImage, sndOpen, nextNew, localSent, resend, packets>>

sender_reject_ack(a) ==
    /\ ~AckAcceptable(a)
    /\ UNCHANGED sndVars

(* Mutant: chunks that were never sent are listed too. *)
ListsUnsent ==
    /\ resend' = Chunks(sndImage) \ remoteRecv
    /\ UNCHANGED <<sndImage, sndOpen, sndState, nextNew, localSent, remoteRecv, packets>>

(* Mutant: the loop ends one chunk early. *)
ListsAllButLast ==
    /\ resend' = {c \in Chunks(sndImage) :
                    c + 1 < TotalOf(sndImage) /\ c \in localSent /\ c \notin remoteRecv}
    /\ UNCHANGED <<sndImage, sndOpen, sndState, nextNew, localSent, remoteRecv, packets>>

(* Mutant: what the receiver reported is not looked at. *)
ListsAllSent ==
    /\ resend' = localSent
    /\ UNCHANGED <<sndImage, sndOpen, sndState, nextNew, localSent, remoteRecv, packets>>

sender_build_resend_list ==
    /\ resend' = {c \in Chunks(sndImage) : c \in localSent /\ c \notin remoteRecv}
    /\ UNCHANGED <<sndImage, sndOpen, sndState, nextNew, localSent, remoteRecv, packets>>

(* Mutant: resend_pos is not advanced. *)
ResendsAgain(c, read) ==
    /\ sndState # "ALL_DONE"
    /\ c \in resend /\ \A d \in resend : c <= d
    /\ sender_build_chunk(c, read)
    /\ UNCHANGED ctxVars

(* Mutant: bitmap_set of local_sent_bitmap is forgotten. *)
SendsUnmarked(read) ==
    /\ sndState # "ALL_DONE"
    /\ resend = {}
    /\ nextNew < TotalOf(sndImage)
    /\ nextNew' = nextNew + 1
    /\ sender_build_chunk(nextNew, read)
    /\ UNCHANGED <<sndImage, sndOpen, sndState, localSent, remoteRecv, resend>>

(***************************************************************************)
(* sender_get_next_packet_for_cycle: the resend list first, in ascending   *)
(* order, then new chunks.  The index is consumed before the packet is     *)
(* built, also when the build then fails.                                  *)
(***************************************************************************)
get_next_resend(c, read) ==
    /\ sndState # "ALL_DONE"
    /\ c \in resend /\ \A d \in resend : c <= d
    /\ resend' = resend \ {c}
    /\ sender_build_chunk(c, read)
    /\ UNCHANGED <<sndImage, sndOpen, sndState, nextNew, localSent, remoteRecv>>

get_next_new(read) ==
    /\ sndState # "ALL_DONE"
    /\ resend = {}
    /\ nextNew < TotalOf(sndImage)
    /\ nextNew' = nextNew + 1
    /\ localSent' = localSent \cup {nextNew}
    /\ sender_build_chunk(nextNew, read)
    /\ UNCHANGED <<sndImage, sndOpen, sndState, remoteRecv, resend>>

(* IMG_ERR_RANGE: no more packet can be sent in this cycle. *)
NothingToSend ==
    \/ sndState = "ALL_DONE"
    \/ resend = {} /\ nextNew >= TotalOf(sndImage)

sender_is_done == sndState = "ALL_DONE"
=============================================================================
