---------------------------- MODULE ImageCommon ----------------------------
(***************************************************************************)
(* Protocol constants and the numbering of chunks shared by the sender and *)
(* the receiver (src/image_transfer_c/image_transfer.h).                   *)
(*                                                                         *)
(* An image is a model value that stands for its image_seq, so the two     *)
(* sides agree on what an image_seq denotes ("unique image id").           *)
(***************************************************************************)
EXTENDS Naturals, FiniteSets

CONSTANTS
    Images,             \* the images (image_seq values) being transferred
    NoImage,            \* a context after memset(0): it has no image
    TotalChunks,        \* TotalChunks[i]: image_calc_total_chunks(size of i)
    IMAGE_MAX_CHUNKS    \* 2622 in the header, small in the TLC models

ASSUME MaxChunksAssumption == IMAGE_MAX_CHUNKS \in Nat \ {0}

ASSUME ImagesAssumption == NoImage \notin Images

ASSUME TotalChunksAssumption == TotalChunks \in [Images -> 1..IMAGE_MAX_CHUNKS]

(* task.total_chunks of a context: 0 when the context has been cleared. *)
TotalOf(i) == IF i \in Images THEN TotalChunks[i] ELSE 0

(* The chunk indices of an image with n chunks: 0 ~ total_chunks-1. *)
ChunksUpTo(n) == 0..(n - 1)

Chunks(i) == ChunksUpTo(TotalOf(i))

AnyChunk == ChunksUpTo(IMAGE_MAX_CHUNKS)

(***************************************************************************)
(* What fread or fwrite made of the bytes of one chunk: all of them, only  *)
(* a prefix, nothing, or bytes that are not the image's.                   *)
(***************************************************************************)
Contents == {"whole", "prefix", "none", "garbage"}

(***************************************************************************)
(* ImageChunkPacket.  crc_ok abstracts the comparison of crc16 with the    *)
(* CRC of the fields before it: the sender's packets have it, a packet     *)
(* damaged on the link does not.  The magic and the data_len bound reject  *)
(* only packets whose CRC is wrong too, since sender_build_chunk is their  *)
(* only source; cycle_index and flags are read by nobody.                  *)
(***************************************************************************)
ChunkPacket == [image: Images, total: 1..IMAGE_MAX_CHUNKS, index: AnyChunk,
                data: Contents, crc_ok: BOOLEAN]

(***************************************************************************)
(* ImageFullAckPacket.  The bitmap is the set of indices whose bit is 1    *)
(* (ImageBitmap relates the bytes to that set); lost_chunks, cycle_index   *)
(* and ack_seq are read by nobody.                                         *)
(***************************************************************************)
AckPacket == [image: Images, total: 1..IMAGE_MAX_CHUNKS, received: Nat,
              complete: BOOLEAN, bitmap: SUBSET AnyChunk, crc_ok: BOOLEAN]
=============================================================================
