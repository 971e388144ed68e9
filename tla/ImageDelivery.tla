--------------------------- MODULE ImageDelivery ---------------------------
(***************************************************************************)
(* What the transfer promises, without packets, bitmaps or ACKs: a         *)
(* receiver gathers the chunks of one image at a time, each counted once;  *)
(* an image is delivered when none is missing; and the sender may conclude *)
(* that an image is done only after it has been delivered.                 *)
(***************************************************************************)
EXTENDS Naturals

CONSTANTS Images, NoImage, TotalChunks

VARIABLES
    gathering,  \* the image the receiver is putting together
    got,        \* the chunks of it that the receiver has
    delivered,  \* the images that were complete at some time
    concluded   \* the image the sender holds to be done, or NoImage

vars == <<gathering, got, delivered, concluded>>

AllChunks(i) == 0..(TotalChunks[i] - 1)

Init ==
    /\ gathering = NoImage
    /\ got = {}
    /\ delivered = {}
    /\ concluded = NoImage

Begin(i) ==
    /\ gathering' = i
    /\ got' = {}
    /\ UNCHANGED <<delivered, concluded>>

Gather(c) ==
    /\ gathering \in Images
    /\ c \in AllChunks(gathering) \ got
    /\ got' = got \cup {c}
    /\ delivered' = IF got' = AllChunks(gathering)
                    THEN delivered \cup {gathering} ELSE delivered
    /\ UNCHANGED <<gathering, concluded>>

Conclude(i) ==
    /\ i \in delivered
    /\ concluded' = i
    /\ UNCHANGED <<gathering, got, delivered>>

(* The sender turns to another image, or to the same one once more. *)
Forget ==
    /\ concluded' = NoImage
    /\ UNCHANGED <<gathering, got, delivered>>

Next ==
    \/ \E i \in Images : Begin(i) \/ Conclude(i)
    \/ gathering \in Images /\ \E c \in AllChunks(gathering) : Gather(c)
    \/ Forget

Spec == Init /\ [][Next]_vars
=============================================================================
