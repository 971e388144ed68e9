---------------------------- MODULE ImageBitmap ----------------------------
(***************************************************************************)
(* The bitmaps as the bytes they are: bitmap_set and its companions of     *)
(* src/image_transfer_c/image_common.c, and the two copies that only move  *)
(* the first (total_chunks + 7) / 8 bytes, into the ACK and out of it.     *)
(* A byte is the set of its bits that are 1.                               *)
(***************************************************************************)
EXTENDS Naturals

CONSTANTS
    BitmapSize,     \* IMAGE_FULL_BITMAP_SIZE: bytes in every bitmap
    total_chunks,               \* of the image whose bitmap it is
    Probed                      \* the chunks that are marked and unmarked

ASSUME BitmapAssumption ==
    /\ BitmapSize \in Nat \ {0}
    /\ total_chunks \in Nat \ {0}
    /\ total_chunks <= 8 * BitmapSize
    /\ Probed \subseteq 0..(total_chunks - 1)

Bitmap == [0..(BitmapSize - 1) -> SUBSET (0..7)]

Zero == [j \in 0..(BitmapSize - 1) |-> {}]

bitmap_set(b, index) == [b EXCEPT ![index \div 8] = @ \cup {index % 8}]

bitmap_clear_bit(b, index) == [b EXCEPT ![index \div 8] = @ \ {index % 8}]

bitmap_is_set(b, index) == (index % 8) \in b[index \div 8]

bitmap_clear_all(b, len) ==
    [j \in 0..(BitmapSize - 1) |-> IF j < len THEN {} ELSE b[j]]

(* Mutant: bitmap_len is rounded down. *)
RoundedDown == total_chunks \div 8

(* ack->bitmap_len *)
BitmapLen == (total_chunks + 7) \div 8

(* memset of the whole target, then memcpy of the first len bytes. *)
CopyOf(b, len) ==
    [j \in 0..(BitmapSize - 1) |-> IF j < len THEN b[j] ELSE {}]

VARIABLES
    recv_bitmap,    \* of the receiver's context
    ack_bitmap,     \* of the last ACK built
    remote_bitmap   \* remote_recv_bitmap of the sender's context

vars == <<recv_bitmap, ack_bitmap, remote_bitmap>>

TypeOK == recv_bitmap \in Bitmap /\ ack_bitmap \in Bitmap /\ remote_bitmap \in Bitmap

Init == recv_bitmap = Zero /\ ack_bitmap = Zero /\ remote_bitmap = Zero

Set(i) ==
    /\ recv_bitmap' = bitmap_set(recv_bitmap, i)
    /\ UNCHANGED <<ack_bitmap, remote_bitmap>>

ClearBit(i) ==
    /\ recv_bitmap' = bitmap_clear_bit(recv_bitmap, i)
    /\ UNCHANGED <<ack_bitmap, remote_bitmap>>

ClearAll ==
    /\ recv_bitmap' = bitmap_clear_all(recv_bitmap, BitmapSize)
    /\ UNCHANGED <<ack_bitmap, remote_bitmap>>

(* Mutant: the ACK's other bytes are not zeroed by memset but left out. *)
CopiesShort ==
    /\ ack_bitmap' = [j \in 0..(BitmapLen - 1) |-> recv_bitmap[j]]
    /\ UNCHANGED <<recv_bitmap, remote_bitmap>>

BuildAckBitmap ==
    /\ ack_bitmap' = CopyOf(recv_bitmap, BitmapLen)
    /\ UNCHANGED <<recv_bitmap, remote_bitmap>>

ParseAckBitmap ==
    /\ BitmapLen <= BitmapSize
    /\ remote_bitmap' = CopyOf(ack_bitmap, BitmapLen)
    /\ UNCHANGED <<recv_bitmap, ack_bitmap>>

Next ==
    \/ \E i \in Probed : Set(i) \/ ClearBit(i)
    \/ ClearAll
    \/ BuildAckBitmap
    \/ ParseAckBitmap

Spec == Init /\ [][Next]_vars

(* The set of chunks that a bitmap stands for. *)
SetOf(b) == {i \in 0..(total_chunks - 1) : bitmap_is_set(b, i)}

(* The bytes behave as sets of chunk indices: setting or clearing a bit    *)
(* touches no other chunk's bit, and the copies by bitmap_len bytes lose   *)
(* none, also when the last byte is used in part (bitmap_set,              *)
(* receiver_build_ack, sender_parse_ack).                                  *)
Sets == INSTANCE ImageBitSets
    WITH Indices  <- Probed,
         received <- SetOf(recv_bitmap),
         inAck    <- SetOf(ack_bitmap),
         remote   <- SetOf(remote_bitmap)

ImplementsSets == Sets!Spec
=============================================================================
