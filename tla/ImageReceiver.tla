--------------------------- MODULE ImageReceiver ---------------------------
(***************************************************************************)
(* The receiver's API, src/image_transfer_c/image_receiver.c.              *)
(***************************************************************************)
EXTENDS ImageCommon

CONSTANT WriteOutcomes  \* what fseek/fwrite of one chunk may do

ASSUME WriteOutcomesAssumption == WriteOutcomes \subseteq {"ok", "short", "error"}

VARIABLES
    rcvImage,       \* image_seq
    rcvTotal,       \* total_chunks
    rcvOpen,        \* image_fp # NULL
    recvBitmap,     \* recv_bitmap
    receivedChunks, \* received_chunks
    imageComplete,  \* image_complete
    file,           \* contents of each chunk's place in save_path
    acks,           \* every ACK handed to the caller to be transmitted
    saved           \* history: images that the file once held in full

rcvVars == <<rcvImage, rcvTotal, rcvOpen, recvBitmap, receivedChunks,
             imageComplete, file, acks, saved>>

ReceiverTypeOK ==
    /\ rcvImage \in Images \cup {NoImage}
    /\ rcvTotal \in 0..IMAGE_MAX_CHUNKS
    /\ rcvOpen \in BOOLEAN
    /\ recvBitmap \subseteq ChunksUpTo(rcvTotal)
    /\ receivedChunks \in 0..rcvTotal
    /\ imageComplete \in BOOLEAN
    /\ file \in [AnyChunk -> Contents]
    /\ acks \subseteq AckPacket
    /\ saved \subseteq Images

EmptyFile == [c \in AnyChunk |-> "none"]

ReceiverInitState ==
    /\ rcvImage = NoImage
    /\ rcvTotal = 0
    /\ rcvOpen = FALSE
    /\ recvBitmap = {}
    /\ receivedChunks = 0
    /\ imageComplete = FALSE
    /\ file = EmptyFile
    /\ acks = {}
    /\ saved = {}

(* Mutant: recv_bitmap survives the next receiver_init. *)
KeepsBitmap(i, n, opened) ==
    /\ n \in 1..IMAGE_MAX_CHUNKS
    /\ rcvImage' = i
    /\ rcvTotal' = n
    /\ rcvOpen' = opened
    /\ receivedChunks' = 0
    /\ imageComplete' = FALSE
    /\ file' = IF opened THEN EmptyFile ELSE file
    /\ UNCHANGED <<recvBitmap, acks, saved>>

(***************************************************************************)
(* receiver_init with legal arguments: the context is cleared and "wb+"    *)
(* truncates the output; when fopen fails the context is set up all the    *)
(* same, without a file.                                                   *)
(***************************************************************************)
receiver_init(i, n, opened) ==
    /\ n \in 1..IMAGE_MAX_CHUNKS
    /\ rcvImage' = i
    /\ rcvTotal' = n
    /\ rcvOpen' = opened
    /\ recvBitmap' = {}
    /\ receivedChunks' = 0
    /\ imageComplete' = FALSE
    /\ file' = IF opened THEN EmptyFile ELSE file
    /\ UNCHANGED <<acks, saved>>

receiver_close ==
    /\ rcvOpen' = FALSE
    /\ UNCHANGED <<rcvImage, rcvTotal, recvBitmap, receivedChunks,
                   imageComplete, file, acks, saved>>

(* The header checks and the CRC check of receiver_handle_chunk. *)
ChunkAcceptable(p) ==
    /\ rcvOpen
    /\ p.image = rcvImage
    /\ p.total = rcvTotal
    /\ p.index < rcvTotal
    /\ p.crc_ok

(***************************************************************************)
(* What is at the chunk's place after d was written over old: a prefix     *)
(* written over the whole chunk leaves the chunk whole, since the bytes    *)
(* are the same, and a packet without data changes nothing.                *)
(***************************************************************************)
Written(old, d) == IF d = "none" \/ (d = "prefix" /\ old = "whole") THEN old ELSE d

(* The image's chunks are all in the file, each of them in full. *)
HoldsWhole(f, i) == \A c \in Chunks(i) : f[c] = "whole"

(* Mutant: duplicated chunks are counted again. *)
CountsDuplicates(c) ==
    /\ recvBitmap' = recvBitmap \cup {c}
    /\ receivedChunks' = receivedChunks + 1
    /\ imageComplete' = (imageComplete \/ receivedChunks' = rcvTotal)

(* Mutant: the count is compared before the chunk is added to it. *)
ComparesBeforeCounting(c) ==
    /\ recvBitmap' = recvBitmap \cup {c}
    /\ receivedChunks' = IF c \in recvBitmap THEN receivedChunks ELSE receivedChunks + 1
    /\ imageComplete' = (imageComplete \/ receivedChunks = rcvTotal)

MarkReceived(c) ==
    /\ recvBitmap' = recvBitmap \cup {c}
    /\ receivedChunks' = IF c \in recvBitmap THEN receivedChunks ELSE receivedChunks + 1
    /\ imageComplete' = (imageComplete \/ receivedChunks' = rcvTotal)

(* receiver_handle_chunk returning IMG_OK. *)
receiver_handle_chunk(p) ==
    /\ ChunkAcceptable(p)
    /\ file' = [file EXCEPT ![p.index] = Written(@, p.data)]
    /\ MarkReceived(p.index)
    /\ saved' = IF HoldsWhole(file', rcvImage) THEN saved \cup {rcvImage} ELSE saved
    /\ UNCHANGED <<rcvImage, rcvTotal, rcvOpen, acks>>

(* receiver_handle_chunk returning IMG_ERR_RANGE, IMG_ERR_CRC, IMG_ERR_ARG. *)
receiver_reject_chunk(p) ==
    /\ ~ChunkAcceptable(p)
    /\ UNCHANGED rcvVars

(* Mutant: the chunk is marked before it is written. *)
MarksBeforeWriting(p, write) ==
    /\ ChunkAcceptable(p)
    /\ write # "ok"
    /\ MarkReceived(p.index)
    /\ UNCHANGED <<rcvImage, rcvTotal, rcvOpen, file, acks, saved>>

(* receiver_handle_chunk returning IMG_ERR_IO: the disk took only a part of *)
(* the chunk, or nothing.                                                   *)
receiver_write_fails(p, write) ==
    /\ ChunkAcceptable(p)
    /\ write # "ok"
    /\ file' = IF write = "short"
               THEN [file EXCEPT ![p.index] =
                        Written(@, IF p.data = "whole" THEN "prefix" ELSE p.data)]
               ELSE file
    /\ UNCHANGED <<rcvImage, rcvTotal, rcvOpen, recvBitmap, receivedChunks,
                   imageComplete, acks, saved>>

BuiltAck ==
    [image |-> rcvImage, total |-> rcvTotal, received |-> receivedChunks,
     complete |-> imageComplete, bitmap |-> recvBitmap, crc_ok |-> TRUE]

receiver_build_ack ==
    /\ rcvImage # NoImage
    /\ acks' = acks \cup {BuiltAck}
    /\ UNCHANGED <<rcvImage, rcvTotal, rcvOpen, recvBitmap, receivedChunks,
                   imageComplete, file, saved>>

receiver_is_done == imageComplete
=============================================================================
