------------------------ MODULE ImageTransferProofs ------------------------
(***************************************************************************)
(* Theorems about ImageTransfer, for any images, any number of chunks, any *)
(* damage on the link and any write errors.  They assume that a read gives *)
(* the chunk or an error (WholeReads): where it stops inside a chunk or at *)
(* the end of the file, the run transfer_shortread shows them to be false. *)
(***************************************************************************)
EXTENDS ImageTransfer, FiniteSetTheorems, TLAPS

WholeReads == ReadOutcomes \subseteq {"whole", "error"}

(***************************************************************************)
(* Sets of chunk indices.                                                  *)
(***************************************************************************)

(* A set of indices below n is finite, has at most n members and has n of  *)
(* them only when it is full: what lets received_chunks stand for          *)
(* recv_bitmap.                                                            *)
LEMMA ChunkSets ==
    ASSUME NEW n \in Nat, NEW S \in SUBSET ChunksUpTo(n)
    PROVE  /\ IsFiniteSet(S)
           /\ Cardinality(S) \in 0..n
           /\ Cardinality(S) = n <=> S = ChunksUpTo(n)
<1>1. /\ IsFiniteSet(0..(n-1))
      /\ Cardinality(0..(n-1)) = n
  BY FS_Interval
<1>2. /\ IsFiniteSet(S)
      /\ Cardinality(S) <= n
      /\ n = Cardinality(S) => 0..(n-1) = S
  BY <1>1, FS_Subset DEF ChunksUpTo
<1>3. Cardinality(S) \in Nat
  BY <1>2, FS_CardinalityType
<1> QED
  BY <1>1, <1>2, <1>3 DEF ChunksUpTo

(* Index 0 exists in every image, and no image has an index beyond the     *)
(* arrays.                                                                 *)
LEMMA ChunkRange ==
    ASSUME NEW n \in Nat, 1 <= n
    PROVE  /\ 0 \in ChunksUpTo(n)
           /\ n <= IMAGE_MAX_CHUNKS => ChunksUpTo(n) \subseteq AnyChunk
BY MaxChunksAssumption DEF ChunksUpTo, AnyChunk

(* A set of indices below n, one more added: its size as MarkReceived      *)
(* counts it.                                                              *)
LEMMA AddChunk ==
    ASSUME NEW n \in Nat, NEW S \in SUBSET ChunksUpTo(n), NEW c
    PROVE  Cardinality(S \cup {c}) =
               IF c \in S THEN Cardinality(S) ELSE Cardinality(S) + 1
BY ChunkSets, FS_AddElement

(***************************************************************************)
(* Numbers of chunks.                                                      *)
(***************************************************************************)

(* total_chunks of an image, or of a cleared context, fits the arrays.     *)
LEMMA Totals ==
    /\ \A i \in Images : TotalChunks[i] \in 1..IMAGE_MAX_CHUNKS /\ TotalOf(i) = TotalChunks[i]
    /\ \A i \in Images \cup {NoImage} : TotalOf(i) \in 0..IMAGE_MAX_CHUNKS
    /\ TotalOf(NoImage) = 0
    /\ IMAGE_MAX_CHUNKS \in Nat
BY MaxChunksAssumption, TotalChunksAssumption, ImagesAssumption DEF TotalOf

(***************************************************************************)
(* IInv holds initially.                                                   *)
(***************************************************************************)
LEMMA InitIInv == Init => IInv
<1> SUFFICES ASSUME Init PROVE IInv
  OBVIOUS
<1> USE DEF Init, SenderInitState, ReceiverInitState
<1>1. TypeOK
  <2>1. SenderTypeOK
    <3>1. sndOpen \in BOOLEAN
      OBVIOUS
    <3> QED
      BY <3>1, Totals DEF SenderTypeOK
  <2>2. ReceiverTypeOK
    <3>1. rcvOpen \in BOOLEAN /\ imageComplete \in BOOLEAN
      OBVIOUS
    <3>2. receivedChunks \in 0..rcvTotal /\ rcvTotal \in 0..IMAGE_MAX_CHUNKS
      BY Totals
    <3> QED
      BY <3>1, <3>2, Totals DEF ReceiverTypeOK, EmptyFile, Contents
  <2> QED
    BY <2>1, <2>2 DEF TypeOK
<1>2. Cardinality({}) = 0
  BY FS_EmptySet
<1>3. /\ SentIsPrefix
      /\ ContextIsOfImage
      /\ FileIsFaithful
      /\ FileMatchesBitmap
      /\ MessagesAreOfImage
      /\ CompleteIsSaved
      /\ AcksAreTrue
      /\ DoneIsSound
  BY ImagesAssumption DEF SentIsPrefix, ContextIsOfImage, FileIsFaithful, FileMatchesBitmap,
     MessagesAreOfImage, CompleteIsSaved, AcksAreTrue, DoneIsSound, ChunksUpTo, sender_is_done
<1>4. CountIsExact
  BY <1>2 DEF CountIsExact
<1> QED
  BY <1>1, <1>3, <1>4 DEF IInv

(***************************************************************************)
(* The sender's calls.  They leave the receiver alone, so what is said of  *)
(* it stays true, and it remains to show what is said of the sender.       *)
(***************************************************************************)
SenderInv ==
    /\ SenderTypeOK
    /\ SentIsPrefix
    /\ \A p \in packets : p.data = "whole" /\ p.total = TotalChunks[p.image]
    /\ DoneIsSound

(* Building a chunk adds at most one packet, whole and of the image.       *)
LEMMA BuildKeepsPackets ==
    ASSUME WholeReads, SenderInv,
           NEW c \in Chunks(sndImage), NEW read \in ReadOutcomes,
           sender_build_chunk(c, read)
    PROVE  /\ packets' \subseteq ChunkPacket
           /\ \A p \in packets' : p.data = "whole" /\ p.total = TotalChunks[p.image]
<1>1. CASE BuildSucceeds(c, read)
  <2>1. sndImage \in Images /\ TotalOf(sndImage) = TotalChunks[sndImage]
    BY Totals DEF SenderInv, SenderTypeOK, Chunks, ChunksUpTo, TotalOf
  <2>2. c \in AnyChunk
    BY <2>1, Totals DEF Chunks, ChunksUpTo, AnyChunk
  <2>3. read = "whole"
    BY <1>1, ReadOutcomesAssumption DEF WholeReads, BuildSucceeds
  <2>4. BuiltPacket(c, read) \in ChunkPacket
    BY <2>1, <2>2, <2>3, Totals DEF BuiltPacket, ChunkPacket, Contents
  <2>5. /\ BuiltPacket(c, read).data = "whole"
        /\ BuiltPacket(c, read).total = TotalChunks[BuiltPacket(c, read).image]
    BY <2>1, <2>3 DEF BuiltPacket
  <2> QED
    BY <1>1, <2>4, <2>5 DEF sender_build_chunk, SenderInv, SenderTypeOK
<1>2. CASE ~BuildSucceeds(c, read)
  BY <1>2 DEF sender_build_chunk, SenderInv, SenderTypeOK
<1> QED
  BY <1>1, <1>2

LEMMA SenderCallKeepsInv ==
    ASSUME WholeReads, SenderInv, SenderCall, UNCHANGED rcvVars
    PROVE  SenderInv'
<1> USE DEF SenderInv, SenderTypeOK
<1>0. saved' = saved
  BY DEF rcvVars
<1>1. CASE \E i \in Images : sender_init(i)
  <2> PICK i \in Images : sender_init(i)
    BY <1>1
  <2> QED
    BY <1>0, Totals DEF sender_init, SenderCleared, SentIsPrefix, DoneIsSound, sender_is_done,
       ChunksUpTo
<1>2. CASE sender_init_fails
  <2>1. sndOpen' \in BOOLEAN
    BY <1>2 DEF sender_init_fails, SenderCleared
  <2> QED
    BY <1>2, <1>0, <2>1, Totals DEF sender_init_fails, SenderCleared, SentIsPrefix,
       DoneIsSound, sender_is_done, ChunksUpTo
<1>3. CASE sender_close
  BY <1>3, <1>0 DEF sender_close, SentIsPrefix, DoneIsSound, sender_is_done
<1>4. CASE sender_build_resend_list
  BY <1>4, <1>0 DEF sender_build_resend_list, SentIsPrefix, DoneIsSound, sender_is_done
<1>5. CASE \E c \in resend, read \in ReadOutcomes : get_next_resend(c, read)
  <2> PICK c \in resend, read \in ReadOutcomes : get_next_resend(c, read)
    BY <1>5
  <2>1. /\ packets' \subseteq ChunkPacket
        /\ \A p \in packets' : p.data = "whole" /\ p.total = TotalChunks[p.image]
    BY BuildKeepsPackets DEF get_next_resend
  <2> QED
    BY <1>0, <2>1 DEF get_next_resend, SentIsPrefix, DoneIsSound, sender_is_done
<1>6. CASE \E read \in ReadOutcomes : get_next_new(read)
  <2> PICK read \in ReadOutcomes : get_next_new(read)
    BY <1>6
  <2>1. TotalOf(sndImage) \in Nat /\ nextNew \in Nat
    BY Totals
  <2>2. nextNew \in Chunks(sndImage)
    BY <2>1 DEF get_next_new, Chunks, ChunksUpTo
  <2>3. /\ packets' \subseteq ChunkPacket
        /\ \A p \in packets' : p.data = "whole" /\ p.total = TotalChunks[p.image]
    BY <2>2, BuildKeepsPackets DEF get_next_new
  <2>4. /\ nextNew' \in 0..TotalOf(sndImage')
        /\ localSent' \subseteq Chunks(sndImage')
        /\ localSent' = ChunksUpTo(nextNew')
    BY <2>1, <2>2 DEF get_next_new, SentIsPrefix, ChunksUpTo
  <2> QED
    BY <1>0, <2>3, <2>4 DEF get_next_new, SentIsPrefix, DoneIsSound, sender_is_done
<1> QED
  BY <1>1, <1>2, <1>3, <1>4, <1>5, <1>6 DEF SenderCall

(* An ACK that the sender accepts was built by the receiver, not damaged,  *)
(* and so ALL_DONE is set only of a saved image.                           *)
LEMMA AckArrivesKeepsInv ==
    ASSUME SenderInv, ReceiverTypeOK, AcksAreTrue, MessagesAreOfImage,
           AckArrives, UNCHANGED rcvVars
    PROVE  SenderInv'
<1> USE DEF SenderInv, SenderTypeOK
<1>0. saved' = saved
  BY DEF rcvVars
<1> PICK a \in acks \cup DamagedAcks : sender_parse_ack(a) \/ sender_reject_ack(a)
  BY DEF AckArrives
<1>1. CASE sender_parse_ack(a)
  <2>1. a \in acks /\ a \in AckPacket
    BY <1>1, DamageAssumption DEF sender_parse_ack, AckAcceptable, ReceiverTypeOK
  <2>2. remoteRecv' \subseteq AnyChunk
    BY <1>1, <2>1 DEF sender_parse_ack, AckPacket
  <2>3. a.complete \/ a.received = TotalOf(sndImage) => sndImage \in saved
    BY <1>1, <2>1 DEF sender_parse_ack, AckAcceptable, AcksAreTrue
  <2> QED
    BY <1>0, <1>1, <2>2, <2>3 DEF sender_parse_ack, SentIsPrefix, DoneIsSound, sender_is_done
<1>2. CASE sender_reject_ack(a)
  BY <1>0, <1>2 DEF sender_reject_ack, sndVars, ctxVars, SentIsPrefix, DoneIsSound, sender_is_done
<1> QED
  BY <1>1, <1>2

(***************************************************************************)
(* The receiver's calls.                                                   *)
(***************************************************************************)
AckIsTrue(a) ==
    /\ a.total = TotalChunks[a.image]
    /\ a.received = Cardinality(a.bitmap)
    /\ a.bitmap \subseteq ChunksUpTo(a.total)
    /\ (a.complete \/ a.received = a.total) => a.image \in saved

ReceiverInv ==
    /\ ReceiverTypeOK
    /\ ContextIsOfImage
    /\ CountIsExact
    /\ FileIsFaithful
    /\ FileMatchesBitmap
    /\ CompleteIsSaved
    /\ \A a \in acks : AckIsTrue(a)

(* IInv, seen as what is said of the sender and what is said of the        *)
(* receiver.                                                               *)
LEMMA IInvParts ==
    /\ IInv <=> SenderInv /\ ReceiverInv
    /\ IInv' <=> SenderInv' /\ ReceiverInv'
BY DEF IInv, SenderInv, ReceiverInv, TypeOK, MessagesAreOfImage, AcksAreTrue, AckIsTrue

LEMMA ReceiverCallKeepsInv ==
    ASSUME ReceiverInv, ReceiverCall
    PROVE  ReceiverInv' /\ saved \subseteq saved'
<1> USE DEF ReceiverInv, ReceiverTypeOK
<1>1. CASE \E i \in Images, opened \in BOOLEAN : receiver_init(i, TotalChunks[i], opened)
  <2> PICK i \in Images, opened \in BOOLEAN : receiver_init(i, TotalChunks[i], opened)
    BY <1>1
  <2>0. rcvTotal' \in Nat /\ 1 <= rcvTotal' /\ rcvTotal' <= IMAGE_MAX_CHUNKS
    <3>1. rcvTotal' = TotalChunks[i] /\ TotalChunks[i] \in 1..IMAGE_MAX_CHUNKS
      BY Totals DEF receiver_init
    <3> QED
      BY <3>1, Totals
  <2>1. /\ rcvTotal' \in 1..IMAGE_MAX_CHUNKS
        /\ receivedChunks' = 0 /\ recvBitmap' = {} /\ imageComplete' = FALSE
        /\ acks' = acks /\ saved' = saved
    BY Totals DEF receiver_init
  <2>2. ReceiverTypeOK'
    <3>1. rcvOpen' \in BOOLEAN /\ imageComplete' \in BOOLEAN
      BY DEF receiver_init
    <3>2. receivedChunks' \in 0..rcvTotal' /\ rcvTotal' \in 0..IMAGE_MAX_CHUNKS
      BY <2>1, Totals
    <3>3. file' \in [AnyChunk -> Contents]
      BY DEF receiver_init, EmptyFile, Contents
    <3> QED
      BY <2>1, <3>1, <3>2, <3>3 DEF receiver_init
  <2>3. ContextIsOfImage'
    BY ImagesAssumption DEF receiver_init, ContextIsOfImage
  <2>4. CountIsExact'
    <3>1. 0 \in ChunksUpTo(rcvTotal')
      BY <2>0, ChunkRange
    <3> QED
      BY <2>1, <3>1, FS_EmptySet DEF CountIsExact
  <2>5. FileIsFaithful' /\ CompleteIsSaved'
    BY <2>1 DEF FileIsFaithful, CompleteIsSaved
  <2>6. FileMatchesBitmap'
    <3> SUFFICES ASSUME rcvOpen', NEW c \in ChunksUpTo(rcvTotal') PROVE file'[c] # "whole"
      BY DEF FileMatchesBitmap
    <3>1. file' = EmptyFile
      BY DEF receiver_init
    <3>2. c \in AnyChunk
      BY <2>0, ChunkRange
    <3> QED
      BY <3>1, <3>2 DEF EmptyFile
  <2> QED
    BY <2>1, <2>2, <2>3, <2>4, <2>5, <2>6 DEF AckIsTrue
<1>2. CASE receiver_close
  <2>1. rcvOpen' \in BOOLEAN /\ ~rcvOpen'
    BY <1>2 DEF receiver_close
  <2> QED
    BY <1>2, <2>1 DEF receiver_close, ContextIsOfImage, CountIsExact, FileIsFaithful,
       FileMatchesBitmap, CompleteIsSaved, AckIsTrue
<1>3. CASE receiver_build_ack
  <2>1. rcvImage \in Images /\ rcvTotal = TotalChunks[rcvImage]
    BY <1>3 DEF receiver_build_ack, ContextIsOfImage
  <2>2. recvBitmap \subseteq AnyChunk /\ receivedChunks \in Nat
    BY Totals DEF AnyChunk, ChunksUpTo
  <2>3. BuiltAck \in AckPacket
    BY <2>1, <2>2, Totals DEF BuiltAck, AckPacket
  <2>4. AckIsTrue(BuiltAck)
    <3>1. receivedChunks = rcvTotal => imageComplete
      <4>1. rcvTotal \in Nat /\ recvBitmap \in SUBSET ChunksUpTo(rcvTotal)
        BY Totals
      <4>2. Cardinality(recvBitmap) = rcvTotal <=> recvBitmap = ChunksUpTo(rcvTotal)
        BY <4>1, ChunkSets
      <4> QED
        BY <2>1, <4>2, ImagesAssumption DEF CountIsExact
    <3> QED
      BY <2>1, <3>1 DEF AckIsTrue, BuiltAck, CountIsExact, CompleteIsSaved
  <2> QED
    BY <1>3, <2>3, <2>4 DEF receiver_build_ack, ContextIsOfImage, CountIsExact, FileIsFaithful,
       FileMatchesBitmap, CompleteIsSaved, AckIsTrue
<1> QED
  BY <1>1, <1>2, <1>3 DEF ReceiverCall

(* A packet that the receiver accepts was built by the sender: it is whole *)
(* and its index is one of the image's.                                    *)
LEMMA AcceptedIsWhole ==
    ASSUME SenderInv, ReceiverInv, NEW p \in packets \cup DamagedPackets, ChunkAcceptable(p)
    PROVE  /\ p.data = "whole"
           /\ rcvImage \in Images
           /\ rcvTotal = TotalChunks[rcvImage]
           /\ p.index \in ChunksUpTo(rcvTotal)
           /\ p.index \in AnyChunk
<1>1. p \in packets /\ p \in ChunkPacket
  BY DamageAssumption DEF ChunkAcceptable, SenderInv, SenderTypeOK
<1>2. p.index \in AnyChunk /\ p.index < rcvTotal /\ p.image = rcvImage
  BY <1>1 DEF ChunkAcceptable, ChunkPacket
<1>3. p.index \in ChunksUpTo(rcvTotal)
  BY <1>2, Totals DEF ReceiverInv, ReceiverTypeOK, AnyChunk, ChunksUpTo
<1>4. rcvImage \in Images
  BY <1>1, <1>2 DEF ChunkPacket
<1> QED
  BY <1>1, <1>2, <1>3, <1>4 DEF SenderInv, ReceiverInv, ContextIsOfImage

(* After a chunk was stored, a bit says exactly what is in the file, and   *)
(* the history records the image when the last bit is set.                 *)
LEMMA HandleChunkHistory ==
    ASSUME SenderInv, ReceiverInv, NEW p \in packets \cup DamagedPackets, receiver_handle_chunk(p)
    PROVE  /\ \A d \in ChunksUpTo(rcvTotal) : file'[d] = "whole" <=> d \in recvBitmap'
           /\ saved' = IF recvBitmap' = ChunksUpTo(rcvTotal) THEN saved \cup {rcvImage} ELSE saved
<1> DEFINE c == p.index
<1>1. /\ p.data = "whole"
      /\ rcvImage \in Images
      /\ rcvTotal = TotalChunks[rcvImage]
      /\ c \in ChunksUpTo(rcvTotal)
      /\ c \in AnyChunk
  BY AcceptedIsWhole DEF receiver_handle_chunk
<1>2. rcvTotal \in Nat /\ rcvTotal \in 0..IMAGE_MAX_CHUNKS
  BY Totals DEF ReceiverInv, ReceiverTypeOK
<1>3. /\ UNCHANGED <<rcvImage, rcvTotal, rcvOpen, acks>>
      /\ recvBitmap' = recvBitmap \cup {c}
      /\ file \in [AnyChunk -> Contents]
      /\ file' = [file EXCEPT ![c] = "whole"]
  BY <1>1 DEF receiver_handle_chunk, MarkReceived, Written, ReceiverInv, ReceiverTypeOK
<1>4. recvBitmap \in SUBSET ChunksUpTo(rcvTotal) /\ recvBitmap' \in SUBSET ChunksUpTo(rcvTotal)
  BY <1>1, <1>3 DEF ReceiverInv, ReceiverTypeOK
<1>5. \A d \in ChunksUpTo(rcvTotal) : file'[d] = "whole" <=> d \in recvBitmap'
  <2> SUFFICES ASSUME NEW d \in ChunksUpTo(rcvTotal)
               PROVE  file'[d] = "whole" <=> d \in recvBitmap'
    OBVIOUS
  <2>1. file[d] = "whole" <=> d \in recvBitmap
    BY DEF receiver_handle_chunk, ChunkAcceptable, ReceiverInv, FileIsFaithful, FileMatchesBitmap
  <2>2. d \in AnyChunk
    <3>1. 1 <= rcvTotal /\ rcvTotal <= IMAGE_MAX_CHUNKS
      BY <1>1, Totals
    <3> QED
      BY <3>1, <1>2, ChunkRange
  <2> QED
    BY <1>1, <1>3, <2>1, <2>2
<1> QED
  <2>1. Chunks(rcvImage) = ChunksUpTo(rcvTotal)
    BY <1>1 DEF Chunks, TotalOf
  <2>2. HoldsWhole(file', rcvImage) <=> recvBitmap' = ChunksUpTo(rcvTotal)
    BY <1>4, <1>5, <2>1 DEF HoldsWhole
  <2> QED
    BY <1>5, <2>2 DEF receiver_handle_chunk

(* A chunk stored: the bitmap, the counter, the file and the history move  *)
(* together.                                                               *)
LEMMA HandleChunkKeepsInv ==
    ASSUME SenderInv, ReceiverInv, NEW p \in packets \cup DamagedPackets, receiver_handle_chunk(p)
    PROVE  ReceiverInv' /\ saved \subseteq saved'
<1> DEFINE c == p.index
<1>1. /\ p.data = "whole"
      /\ rcvImage \in Images
      /\ rcvTotal = TotalChunks[rcvImage]
      /\ c \in ChunksUpTo(rcvTotal)
      /\ c \in AnyChunk
  BY AcceptedIsWhole DEF receiver_handle_chunk
<1>2. rcvTotal \in Nat /\ rcvTotal \in 0..IMAGE_MAX_CHUNKS
  BY Totals DEF ReceiverInv, ReceiverTypeOK
<1>3. /\ UNCHANGED <<rcvImage, rcvTotal, rcvOpen, acks>>
      /\ recvBitmap' = recvBitmap \cup {c}
      /\ file \in [AnyChunk -> Contents]
      /\ file' = [file EXCEPT ![c] = "whole"]
  BY <1>1 DEF receiver_handle_chunk, MarkReceived, Written, ReceiverInv, ReceiverTypeOK
<1>4. recvBitmap \in SUBSET ChunksUpTo(rcvTotal) /\ recvBitmap' \in SUBSET ChunksUpTo(rcvTotal)
  BY <1>1, <1>3 DEF ReceiverInv, ReceiverTypeOK
<1>5. receivedChunks' = Cardinality(recvBitmap')
  <2>1. receivedChunks = Cardinality(recvBitmap)
    BY DEF ReceiverInv, CountIsExact
  <2>2. receivedChunks' = IF c \in recvBitmap THEN receivedChunks ELSE receivedChunks + 1
    BY DEF receiver_handle_chunk, MarkReceived
  <2> QED
    BY <1>2, <1>3, <1>4, <2>1, <2>2, AddChunk
<1>6. imageComplete' <=> recvBitmap' = ChunksUpTo(rcvTotal)
  <2>1. receivedChunks' = rcvTotal <=> recvBitmap' = ChunksUpTo(rcvTotal)
    BY <1>2, <1>4, <1>5, ChunkSets
  <2>2. imageComplete <=> recvBitmap = ChunksUpTo(rcvTotal)
    BY <1>1, ImagesAssumption DEF ReceiverInv, CountIsExact
  <2>3. imageComplete' <=> imageComplete \/ receivedChunks' = rcvTotal
    BY DEF receiver_handle_chunk, MarkReceived
  <2> QED
    BY <1>3, <1>4, <2>1, <2>2, <2>3
<1>7. \A d \in ChunksUpTo(rcvTotal) : file'[d] = "whole" <=> d \in recvBitmap'
  BY HandleChunkHistory
<1>8. /\ saved' = IF recvBitmap' = ChunksUpTo(rcvTotal) THEN saved \cup {rcvImage} ELSE saved
      /\ saved \subseteq Images
  BY HandleChunkHistory DEF ReceiverInv, ReceiverTypeOK
<1>9. ReceiverTypeOK'
  <2>1. receivedChunks' \in 0..rcvTotal
    BY <1>2, <1>4, <1>5, ChunkSets
  <2>2. imageComplete' \in BOOLEAN
    BY DEF receiver_handle_chunk, MarkReceived
  <2>3. file' \in [AnyChunk -> Contents]
    BY <1>3 DEF Contents
  <2>4. saved' \subseteq Images
    BY <1>1, <1>8
  <2> QED
    BY <1>3, <1>4, <2>1, <2>2, <2>3, <2>4 DEF ReceiverInv, ReceiverTypeOK
<1>10. ContextIsOfImage' /\ CountIsExact'
  BY <1>3, <1>5, <1>6 DEF ReceiverInv, ContextIsOfImage, CountIsExact
<1>11. FileIsFaithful' /\ FileMatchesBitmap'
  BY <1>3, <1>4, <1>7 DEF FileIsFaithful, FileMatchesBitmap
<1>12. CompleteIsSaved'
  BY <1>3, <1>6, <1>8 DEF CompleteIsSaved
<1>13. \A a \in acks' : AckIsTrue(a)'
  BY <1>3, <1>8 DEF ReceiverInv, AckIsTrue
<1> QED
  BY <1>8, <1>9, <1>10, <1>11, <1>12, <1>13 DEF ReceiverInv

(* A write that fails may spoil only a chunk that is not yet received.     *)
LEMMA WriteFailsKeepsInv ==
    ASSUME SenderInv, ReceiverInv, NEW p \in packets \cup DamagedPackets,
           NEW write, receiver_write_fails(p, write)
    PROVE  ReceiverInv' /\ saved \subseteq saved'
<1>1. p.data = "whole" /\ p.index \in AnyChunk
  BY AcceptedIsWhole DEF receiver_write_fails
<1>2. UNCHANGED <<rcvImage, rcvTotal, rcvOpen, recvBitmap, receivedChunks,
                  imageComplete, acks, saved>>
  BY DEF receiver_write_fails
<1>3. file \in [AnyChunk -> Contents]
  BY DEF ReceiverInv, ReceiverTypeOK
<1>4. /\ file' \in [AnyChunk -> Contents]
      /\ \A c \in AnyChunk : file'[c] = "whole" <=> file[c] = "whole"
  <2>1. CASE write = "short"
    <3>1. file' = [file EXCEPT ![p.index] = Written(@, "prefix")]
      BY <1>1, <2>1 DEF receiver_write_fails
    <3>2. /\ Written(file[p.index], "prefix") \in Contents
          /\ Written(file[p.index], "prefix") = "whole" <=> file[p.index] = "whole"
      BY DEF Written, Contents
    <3> QED
      BY <1>1, <1>3, <3>1, <3>2
  <2>2. CASE write # "short"
    BY <1>3, <2>2 DEF receiver_write_fails
  <2> QED
    BY <2>1, <2>2
<1>5. \A c \in ChunksUpTo(rcvTotal) : c \in AnyChunk
  BY Totals DEF ReceiverInv, ReceiverTypeOK, ChunksUpTo, AnyChunk
<1>6. ReceiverTypeOK'
  BY <1>2, <1>4 DEF ReceiverInv, ReceiverTypeOK
<1>7. FileIsFaithful' /\ FileMatchesBitmap'
  BY <1>2, <1>4, <1>5 DEF ReceiverInv, ReceiverTypeOK, FileIsFaithful, FileMatchesBitmap
<1> QED
  BY <1>2, <1>6, <1>7 DEF ReceiverInv, ContextIsOfImage, CountIsExact, CompleteIsSaved, AckIsTrue

LEMMA ChunkArrivesKeepsInv ==
    ASSUME SenderInv, ReceiverInv, ChunkArrives
    PROVE  ReceiverInv' /\ saved \subseteq saved'
<1> PICK p \in packets \cup DamagedPackets :
        \/ receiver_handle_chunk(p)
        \/ \E write \in WriteOutcomes : receiver_write_fails(p, write)
        \/ receiver_reject_chunk(p)
  BY DEF ChunkArrives
<1>1. CASE receiver_handle_chunk(p)
  BY <1>1, HandleChunkKeepsInv
<1>2. CASE \E write \in WriteOutcomes : receiver_write_fails(p, write)
  BY <1>2, WriteFailsKeepsInv
<1>3. CASE receiver_reject_chunk(p)
  BY <1>3 DEF receiver_reject_chunk, rcvVars, ReceiverInv, ReceiverTypeOK, ContextIsOfImage,
     CountIsExact, FileIsFaithful, FileMatchesBitmap, CompleteIsSaved, AckIsTrue
<1> QED
  BY <1>1, <1>2, <1>3

(***************************************************************************)
(* The inductive invariant.                                                *)
(***************************************************************************)
LEMMA StepKeepsIInv == WholeReads /\ IInv /\ [Next]_vars => IInv'
<1> SUFFICES ASSUME WholeReads, IInv, [Next]_vars PROVE IInv'
  OBVIOUS
<1>1. SenderInv /\ ReceiverInv
  BY IInvParts
<1>2. UNCHANGED rcvVars => ReceiverInv'
  BY <1>1 DEF rcvVars, ReceiverInv, ReceiverTypeOK, ContextIsOfImage, CountIsExact,
     FileIsFaithful, FileMatchesBitmap, CompleteIsSaved, AckIsTrue
<1>3. UNCHANGED sndVars /\ saved \subseteq saved' => SenderInv'
  BY <1>1 DEF sndVars, ctxVars, SenderInv, SenderTypeOK, SentIsPrefix, DoneIsSound, sender_is_done
<1>4. CASE SenderCall /\ UNCHANGED rcvVars
  BY <1>1, <1>2, <1>4, SenderCallKeepsInv, IInvParts
<1>5. CASE AckArrives /\ UNCHANGED rcvVars
  <2>1. ReceiverTypeOK /\ AcksAreTrue /\ MessagesAreOfImage
    BY DEF IInv, TypeOK
  <2> QED
    BY <1>1, <1>2, <1>5, <2>1, AckArrivesKeepsInv, IInvParts
<1>6. CASE ReceiverCall /\ UNCHANGED sndVars
  BY <1>1, <1>3, <1>6, ReceiverCallKeepsInv, IInvParts
<1>7. CASE ChunkArrives /\ UNCHANGED sndVars
  BY <1>1, <1>3, <1>7, ChunkArrivesKeepsInv, IInvParts
<1>8. CASE UNCHANGED vars
  <2>1. UNCHANGED rcvVars /\ UNCHANGED sndVars /\ saved \subseteq saved'
    BY <1>8 DEF vars, rcvVars
  <2> QED
    BY <1>2, <1>3, <2>1, IInvParts
<1> QED
  BY <1>4, <1>5, <1>6, <1>7, <1>8 DEF Next

(* For every image, number of chunks, damage and write error, the contexts *)
(* of both sides keep IInv, hence their types and each property in it.     *)
THEOREM Invariance ==
    ASSUME WholeReads
    PROVE  Spec => []IInv
<1>1. IInv /\ [Next]_vars => IInv'
  BY StepKeepsIInv
<1>2. Init => IInv
  BY InitIInv
<1> QED
  BY <1>1, <1>2, PTL DEF Spec

(* The types of the whole transfer: no index beyond an array, no counter   *)
(* beyond the number of chunks.                                            *)
THEOREM TypeCorrect ==
    ASSUME WholeReads
    PROVE  Spec => []TypeOK
<1>1. IInv => TypeOK
  BY DEF IInv
<1> QED
  BY <1>1, Invariance, PTL

(* The sender never reports an image done that the receiver's file did not *)
(* hold in full (sender_parse_ack).                                        *)
THEOREM SoundCompletion ==
    ASSUME WholeReads
    PROVE  Spec => []DoneIsSound
<1>1. IInv => DoneIsSound
  BY DEF IInv
<1> QED
  BY <1>1, Invariance, PTL

(* Every chunk marked received is in the file in full, whatever was        *)
(* damaged, repeated or failed (receiver_handle_chunk).                    *)
THEOREM FaithfulFile ==
    ASSUME WholeReads
    PROVE  Spec => []FileIsFaithful
<1>1. IInv => FileIsFaithful
  BY DEF IInv
<1> QED
  BY <1>1, Invariance, PTL

(* received_chunks and image_complete agree with recv_bitmap, whatever was *)
(* repeated (receiver_handle_chunk).                                       *)
THEOREM ExactCount ==
    ASSUME WholeReads
    PROVE  Spec => []CountIsExact
<1>1. IInv => CountIsExact
  BY DEF IInv
<1> QED
  BY <1>1, Invariance, PTL

(* Every ACK tells a state that the receiver was in (receiver_build_ack).  *)
THEOREM TrueAcks ==
    ASSUME WholeReads
    PROVE  Spec => []AcksAreTrue
<1>1. IInv => AcksAreTrue
  BY DEF IInv
<1> QED
  BY <1>1, Invariance, PTL

(* What the sender has marked as sent are the chunks before its next new   *)
(* one (sender_get_next_packet_for_cycle).                                 *)
THEOREM SentInOrder ==
    ASSUME WholeReads
    PROVE  Spec => []SentIsPrefix
<1>1. IInv => SentIsPrefix
  BY DEF IInv
<1> QED
  BY <1>1, Invariance, PTL

(***************************************************************************)
(* No chunk is forgotten.                                                  *)
(***************************************************************************)
LEMMA ReportsHoldStep ==
    ASSUME ~ForgetAfterAck, ReportsHold, [Next]_vars
    PROVE  ReportsHold'
<1> USE DEF ReportsHold
<1>1. CASE SenderCall /\ UNCHANGED rcvVars
  <2>1. UNCHANGED <<rcvImage, recvBitmap, acks>>
    BY <1>1 DEF rcvVars
  <2>2. remoteRecv' = {} \/ UNCHANGED <<sndImage, remoteRecv>>
    BY <1>1 DEF SenderCall, sender_init, sender_init_fails, SenderCleared, sender_close,
       sender_build_resend_list, get_next_resend, get_next_new
  <2> QED
    BY <2>1, <2>2
<1>2. CASE AckArrives /\ UNCHANGED rcvVars
  <2>1. UNCHANGED <<rcvImage, recvBitmap, acks>>
    BY <1>2 DEF rcvVars
  <2> PICK a \in acks \cup DamagedAcks : sender_parse_ack(a) \/ sender_reject_ack(a)
    BY <1>2 DEF AckArrives
  <2>2. CASE sender_parse_ack(a)
    <3>1. a \in acks /\ a.image = sndImage'
      BY <2>2, DamageAssumption DEF sender_parse_ack, AckAcceptable
    <3> QED
      BY <2>1, <2>2, <3>1 DEF sender_parse_ack
  <2>3. CASE sender_reject_ack(a)
    BY <2>1, <2>3 DEF sender_reject_ack, sndVars, ctxVars
  <2> QED
    BY <2>2, <2>3
<1>3. CASE ReceiverCall /\ UNCHANGED sndVars
  <2>1. UNCHANGED <<sndImage, remoteRecv>>
    BY <1>3 DEF sndVars, ctxVars
  <2>2. CASE \E i \in Images, opened \in BOOLEAN :
               /\ ForgetAfterAck \/ \A a \in acks : a.image # i
               /\ receiver_init(i, TotalChunks[i], opened)
    BY <2>1, <2>2 DEF receiver_init
  <2>3. CASE receiver_close
    BY <2>1, <2>3 DEF receiver_close
  <2>4. CASE receiver_build_ack
    BY <2>1, <2>4 DEF receiver_build_ack, BuiltAck
  <2> QED
    BY <1>3, <2>2, <2>3, <2>4 DEF ReceiverCall
<1>4. CASE ChunkArrives /\ UNCHANGED sndVars
  <2>1. UNCHANGED <<sndImage, remoteRecv>>
    BY <1>4 DEF sndVars, ctxVars
  <2>2. UNCHANGED <<rcvImage, acks>> /\ recvBitmap \subseteq recvBitmap'
    BY <1>4 DEF ChunkArrives, receiver_handle_chunk, MarkReceived, receiver_write_fails,
       receiver_reject_chunk, rcvVars
  <2> QED
    BY <2>1, <2>2
<1>5. CASE UNCHANGED vars
  BY <1>5 DEF vars, sndVars, ctxVars, rcvVars
<1> QED
  BY <1>1, <1>2, <1>3, <1>4, <1>5 DEF Next

(* With a receiver that keeps what it acknowledged, every chunk it lacks   *)
(* is still to be sent or due to be sent again, however late, often or     *)
(* disordered the ACKs arrive (sender_parse_ack, sender_build_resend_list).*)
THEOREM NothingStranded ==
    ASSUME WholeReads, ~ForgetAfterAck
    PROVE  Spec => []NoChunkIsStranded
<1>1. Init => ReportsHold
  BY DEF Init, SenderInitState, ReceiverInitState, ReportsHold
<1>2. ReportsHold /\ [Next]_vars => ReportsHold'
  BY ReportsHoldStep
<1>3. IInv /\ ReportsHold => NoChunkIsStranded
  <2> SUFFICES ASSUME IInv, ReportsHold, sndImage = rcvImage,
                      NEW c \in Chunks(sndImage) \ recvBitmap, ~(c >= nextNew)
               PROVE  c \in localSent /\ c \notin remoteRecv
    BY DEF NoChunkIsStranded
  <2>1. c \in localSent
    <3>1. c \in Nat /\ nextNew \in Nat
      BY Totals DEF IInv, TypeOK, SenderTypeOK, Chunks, ChunksUpTo
    <3> QED
      BY <3>1 DEF IInv, SentIsPrefix, ChunksUpTo
  <2>2. remoteRecv \subseteq recvBitmap
    BY DEF ReportsHold
  <2> QED
    BY <2>1, <2>2
<1> QED
  BY <1>1, <1>2, <1>3, Invariance, PTL DEF Spec

(***************************************************************************)
(* ImageTransfer implements ImageDelivery.                                 *)
(***************************************************************************)
LEMMA InitRefines == Init => Delivery!Init
BY ImagesAssumption DEF Init, SenderInitState, ReceiverInitState, Delivery!Init, sender_is_done

(* The sender's steps change at most what it concludes, and it concludes   *)
(* only what has been delivered.                                           *)
LEMMA SenderStepRefines ==
    ASSUME IInv, IInv', SenderCall \/ AckArrives, UNCHANGED rcvVars
    PROVE  [Delivery!Next]_(Delivery!vars)
<1> DEFINE concluded == IF sender_is_done THEN sndImage ELSE NoImage
<1>1. UNCHANGED <<rcvImage, recvBitmap, saved>>
  BY DEF rcvVars
<1>2. sndImage' \in Images \cup {NoImage}
  BY DEF IInv, TypeOK, SenderTypeOK
<1>3. CASE sender_is_done'
  <2>1. sndImage' \in saved /\ saved \subseteq Images
    BY <1>1, <1>3 DEF IInv, DoneIsSound, TypeOK, ReceiverTypeOK
  <2>2. Delivery!Conclude(sndImage')
    BY <1>1, <1>3, <2>1 DEF Delivery!Conclude
  <2> QED
    BY <2>1, <2>2 DEF Delivery!Next
<1>4. CASE ~sender_is_done'
  <2>1. Delivery!Forget
    BY <1>1, <1>4 DEF Delivery!Forget
  <2> QED
    BY <2>1 DEF Delivery!Next
<1> QED
  BY <1>3, <1>4

LEMMA ReceiverStepRefines ==
    ASSUME IInv, IInv', ReceiverCall \/ ChunkArrives, UNCHANGED sndVars
    PROVE  [Delivery!Next]_(Delivery!vars)
<1>1. UNCHANGED (IF sender_is_done THEN sndImage ELSE NoImage)
  BY DEF sndVars, ctxVars, sender_is_done
<1>2. CASE UNCHANGED <<rcvImage, recvBitmap, saved>>
  BY <1>1, <1>2 DEF Delivery!vars
<1>3. CASE \E i \in Images, opened \in BOOLEAN : receiver_init(i, TotalChunks[i], opened)
  <2> PICK i \in Images, opened \in BOOLEAN : receiver_init(i, TotalChunks[i], opened)
    BY <1>3
  <2>1. Delivery!Begin(i)
    BY <1>1 DEF receiver_init, Delivery!Begin
  <2> QED
    BY <2>1 DEF Delivery!Next
<1>4. CASE \E p \in packets \cup DamagedPackets : receiver_handle_chunk(p)
  <2> PICK p \in packets \cup DamagedPackets : receiver_handle_chunk(p)
    BY <1>4
  <2> DEFINE c == p.index
  <2>0. SenderInv /\ ReceiverInv /\ ReceiverInv'
    BY IInvParts
  <2>1. /\ rcvImage \in Images
        /\ rcvTotal = TotalChunks[rcvImage]
        /\ c \in ChunksUpTo(rcvTotal)
        /\ c \in AnyChunk
        /\ p.data = "whole"
    BY <2>0, AcceptedIsWhole DEF receiver_handle_chunk
  <2>2. Delivery!AllChunks(rcvImage) = ChunksUpTo(rcvTotal)
    BY <2>1 DEF Delivery!AllChunks, ChunksUpTo
  <2>3. recvBitmap' = recvBitmap \cup {c} /\ rcvImage' = rcvImage
    BY DEF receiver_handle_chunk, MarkReceived
  <2>4. saved' = IF recvBitmap' = ChunksUpTo(rcvTotal) THEN saved \cup {rcvImage} ELSE saved
    BY <2>0, HandleChunkHistory
  <2>5. CASE c \in recvBitmap
    <3>1. recvBitmap' = recvBitmap
      BY <2>3, <2>5
    <3>2. recvBitmap = ChunksUpTo(rcvTotal) => rcvImage \in saved
      BY <2>1, ImagesAssumption DEF IInv, CountIsExact, CompleteIsSaved
    <3>3. saved' = saved
      BY <2>4, <3>1, <3>2
    <3> QED
      BY <1>2, <2>3, <3>1, <3>3
  <2>6. CASE c \notin recvBitmap
    <3>1. Delivery!Gather(c)
      BY <1>1, <2>1, <2>2, <2>3, <2>4, <2>6 DEF Delivery!Gather
    <3> QED
      BY <2>1, <2>2, <3>1 DEF Delivery!Next
  <2> QED
    BY <2>5, <2>6
<1>5. CASE receiver_close \/ receiver_build_ack
  BY <1>2, <1>5 DEF receiver_close, receiver_build_ack
<1>6. CASE \E p \in packets \cup DamagedPackets :
             (\E write \in WriteOutcomes : receiver_write_fails(p, write)) \/ receiver_reject_chunk(p)
  BY <1>2, <1>6 DEF receiver_write_fails, receiver_reject_chunk, rcvVars
<1> QED
  BY <1>3, <1>4, <1>5, <1>6 DEF ReceiverCall, ChunkArrives

(* Every behaviour of the transfer is one that ImageDelivery allows: what  *)
(* the packets, bitmaps, counters and ACKs do amounts to gathering each    *)
(* chunk once and concluding only what was delivered.                      *)
THEOREM Refinement ==
    ASSUME WholeReads
    PROVE  Spec => ImplementsDelivery
<1>1. Init => Delivery!Init
  BY InitRefines
<1>2. IInv /\ IInv' /\ [Next]_vars => [Delivery!Next]_(Delivery!vars)
  <2> SUFFICES ASSUME IInv, IInv', [Next]_vars PROVE [Delivery!Next]_(Delivery!vars)
    OBVIOUS
  <2>1. CASE (SenderCall \/ AckArrives) /\ UNCHANGED rcvVars
    BY <2>1, SenderStepRefines
  <2>2. CASE (ReceiverCall \/ ChunkArrives) /\ UNCHANGED sndVars
    BY <2>2, ReceiverStepRefines
  <2>3. CASE UNCHANGED vars
    BY <2>3 DEF vars, sndVars, ctxVars, rcvVars, Delivery!vars, sender_is_done
  <2> QED
    BY <2>1, <2>2, <2>3 DEF Next
<1> QED
  BY <1>1, <1>2, Invariance, PTL DEF Spec, ImplementsDelivery, Delivery!Spec
=============================================================================
