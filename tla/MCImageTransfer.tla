-------------------------- MODULE MCImageTransfer --------------------------
(***************************************************************************)
(* Small instances of ImageTransfer for TLC: images of two or three        *)
(* chunks, and damage that reaches every field the receivers look at.      *)
(***************************************************************************)
EXTENDS ImageTransfer, TLC

CONSTANTS imgA, imgB

OneImage == {imgA}
TwoImages == {imgA, imgB}

ThreeAndOneChunks == imgA :> 3 @@ imgB :> 1
TwoChunks == imgA :> 2

(* Damaged data under an intact header, for every chunk. *)
GarbagePackets ==
    {[image |-> i, total |-> TotalChunks[i], index |-> c, data |-> "garbage",
      crc_ok |-> FALSE] : i \in Images, c \in {0, 1}}

(* A damaged ACK that claims everything has arrived. *)
LyingAcks ==
    {[image |-> i, total |-> TotalChunks[i], received |-> TotalChunks[i],
      complete |-> TRUE, bitmap |-> Chunks(i), crc_ok |-> FALSE] : i \in Images}
=============================================================================
