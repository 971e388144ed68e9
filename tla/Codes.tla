------------------------------- MODULE Codes -------------------------------
(***************************************************************************)
(* What goes over the wires in numbers: the checksum and the chunk count   *)
(* of src/image_transfer_c/image_common.c, and MQTT's Remaining Length of  *)
(* src/protocol_learning_code/mqtt/mqtt_client_demo.c.                     *)
(***************************************************************************)
EXTENDS Frame, SequencesExt

CONSTANTS
    MaxBytes,       \* in a message
    Lengths,        \* to encode
    Sizes           \* of images

(* The sizes of src/image_transfer_c/image_common.h.                       *)
IMAGE_CHUNK_DATA_SIZE == 400

IMAGE_MAX_SIZE == 1024 * 1024

IMAGE_MAX_CHUNKS == (IMAGE_MAX_SIZE + IMAGE_CHUNK_DATA_SIZE - 1) \div IMAGE_CHUNK_DATA_SIZE

IMAGE_FULL_BITMAP_SIZE == (IMAGE_MAX_CHUNKS + 7) \div 8

(* The size check of sender_init. *)
AcceptedSize(size) == 0 < size /\ size <= IMAGE_MAX_SIZE

(* The uint16_t cast of the quotient, in image_calc_total_chunks. *)
TotalChunks(size) ==
    ((size + (IMAGE_CHUNK_DATA_SIZE - 1)) \div IMAGE_CHUNK_DATA_SIZE) % 65536

Offset(c) == c * IMAGE_CHUNK_DATA_SIZE

(* data_len: what fread returns for chunk c of a file of that size. *)
DataLen(size, c) ==
    IF Offset(c) + IMAGE_CHUNK_DATA_SIZE <= size THEN IMAGE_CHUNK_DATA_SIZE
    ELSE IF Offset(c) <= size THEN size - Offset(c) ELSE 0

(* Byte b is among those that the packet of chunk c carries. *)
Carries(size, c, b) == Offset(c) <= b /\ b < Offset(c) + DataLen(size, c)

(* A number of 8 or 16 bits is the set of its bits that are 1. *)
Minus(a, b) == (a \ b) \cup (b \ a)

(* The damages of up to 16 bits in a message of n bytes, whose bit 0 is    *)
(* sent first: the two ends, with none or all of the bits between them.    *)
Bursts(n) ==
    LET ends == {p \in (0..(8 * n - 1)) \X (0..(8 * n - 1)) : p[1] <= p[2] /\ p[2] < p[1] + 16}
    IN  UNION {{{p[1], p[2]}, p[1]..p[2]} : p \in ends}

Plain(n, byte) == [i \in 1..n |-> byte]

Damaged(data, burst) == [i \in 1..Len(data) |-> Minus(data[i], {7 - (p % 8) : p \in {q \in burst : q \div 8 = i - 1}})]

(* Calls for a message of n bytes that are all the same. *)
Messages(n) ==
    {[fn |-> "img_crc16_ccitt", data |-> Plain(n, byte), burst |-> burst] :
        byte \in {{}, {0, 2, 5, 6}}, burst \in Bursts(n)}

Calls ==
    (UNION {Messages(n) : n \in 1..MaxBytes})
    \cup {[fn |-> "encode_remaining_length", len |-> n] : n \in Lengths}
    \cup {[fn |-> "image_calc_total_chunks", size |-> n] : n \in Sizes}

Entry(c) ==
    CASE c.fn = "img_crc16_ccitt"         -> [i |-> 0, bit |-> 8, crc |-> 0..15, crcDamaged |-> 0..15]
      [] c.fn = "encode_remaining_length" -> [len |-> c.len, bytes |-> <<>>]
      [] c.fn = "image_calc_total_chunks" -> <<>>

(* 0x1021 *)
Polynomial == {12, 5, 0}

(* One turn of the inner loop. *)
Shift(crc) ==
    LET shifted == {b + 1 : b \in crc \ {15}}
    IN  IF 15 \in crc THEN Minus(shifted, Polynomial) ELSE shifted

(* The checksum of a message and of the damaged one, side by side: a byte  *)
(* goes in, then its bits are shifted out.                                 *)
img_crc16_ccitt ==
    /\ Runs("img_crc16_ccitt")
    /\ \/ /\ loc.bit < 8
          /\ Goes([loc EXCEPT !.bit = @ + 1, !.crc = Shift(@), !.crcDamaged = Shift(@)])
       \/ /\ loc.bit = 8
          /\ loc.i < Len(call.data)
          /\ LET High(byte) == {b + 8 : b \in byte}
             IN  Goes([i          |-> loc.i + 1,
                       bit        |-> 0,
                       crc        |-> Minus(loc.crc, High(call.data[loc.i + 1])),
                       crcDamaged |-> Minus(loc.crcDamaged, High(Damaged(call.data, call.burst)[loc.i + 1]))])
       \/ /\ loc.bit = 8
          /\ loc.i = Len(call.data)
          /\ Returns(<<loc.crc, loc.crcDamaged>>)

(* 0x80 is added to every byte but the last. *)
encode_remaining_length ==
    /\ Runs("encode_remaining_length")
    /\ LET rest == loc.len \div 128
           byte == (loc.len % 128) + (IF rest > 0 THEN 128 ELSE 0)
       IN  IF loc.bytes # <<>> /\ loc.len = 0
               THEN Returns(loc.bytes)
               ELSE Goes([len |-> rest, bytes |-> Append(loc.bytes, byte)])

image_calc_total_chunks ==
    /\ Runs("image_calc_total_chunks")
    /\ Returns(TotalChunks(call.size))

Next == img_crc16_ccitt \/ encode_remaining_length \/ image_calc_total_chunks

(* What an MQTT broker makes of up to four bytes. *)
Decoded(bytes) ==
    LET digit(i) == IF i <= Len(bytes) THEN bytes[i] % 128 ELSE 0
    IN  digit(1) + 128 * digit(2) + 16384 * digit(3) + 2097152 * digit(4)

(* The checksum tells a message from one that a burst has damaged; the     *)
(* bytes say the length and where they end; the first byte is in the first *)
(* chunk, the last one in the last chunk.                                  *)
IsResult(r) ==
    CASE call.fn = "img_crc16_ccitt" -> r[1] # r[2]
      [] call.fn = "encode_remaining_length" ->
           /\ Len(r) <= 4
           /\ Decoded(r) = call.len
           /\ \A i \in 1..Len(r) : r[i] < 256 /\ (r[i] >= 128 <=> i < Len(r))
      [] call.fn = "image_calc_total_chunks" ->
           Carries(call.size, r - 1, call.size - 1)
=============================================================================
