-------------------------- MODULE ImageCycleProofs --------------------------
(***************************************************************************)
(* Theorems about ImageCycle, for any images, any number of chunks, any    *)
(* limits of a cycle and any damage on the link.  No fairness is used.     *)
(***************************************************************************)
EXTENDS ImageCycle, FiniteSetTheorems, SequenceTheorems, TLAPS

(***************************************************************************)
(* The inductive invariant, in parts.                                      *)
(***************************************************************************)

(* The chunks sent are those below the next new one, and a chunk that is   *)
(* to be resent was sent.                                                  *)
SenderOK ==
    /\ SenderTypeOK
    /\ localSent = ChunksUpTo(nextNew)
    /\ resend \subseteq localSent

(* What makes received_chunks and total_chunks fit into an ACK. *)
ReceiverOK ==
    /\ ReceiverTypeOK
    /\ receivedChunks = Cardinality(recvBitmap)
    /\ rcvImage # NoImage => rcvTotal # 0

(* The packet file starts empty and grows with tx_count. *)
CycleOK ==
    /\ CycleTypeOK
    /\ phase # "send" => txCount = 0
    /\ phase \in {"ack", "init", "parse", "list"} => tx = <<>>
    /\ phase = "send" => Len(tx) <= txCount

(* A chunk in the packet file is no longer to be sent. *)
SentOnce ==
    crashes = 0 /\ phase = "send" =>
        \A j \in 1..Len(tx) : tx[j].index \in localSent \ resend

(* ACKs lie unread only while the receiver does not run, so that their     *)
(* bitmap is still the receiver's.                                         *)
AcksAreFresh ==
    /\ \A a \in ackIn : a.bitmap = recvBitmap
    /\ phase \in {"listen", "handle"} => ackIn = {}
    /\ phase = "list" => \E a \in ackIn : ackIn = {a} /\ remoteRecv = a.bitmap

(* A sender that keeps its context and never crashed knows what it sent. *)
SentIsKnown ==
    KeepContexts /\ crashes = 0 =>
        /\ phase = "init" => packets = {}
        /\ \A p \in packets : p.index \in localSent

IInv ==
    /\ SenderOK
    /\ ReceiverOK
    /\ CycleOK
    /\ SentOnce
    /\ NoDuplicateInCycle
    /\ AcksAreFresh
    /\ NothingIsResentInVain
    /\ SentIsKnown
    /\ KeepContexts => AckedLossIsResent

(***************************************************************************)
(* Numbers and sets of chunks.                                             *)
(***************************************************************************)

(* total_chunks of an image, or of a cleared context, fits the arrays.     *)
LEMMA Totals ==
    /\ \A i \in Images : TotalOf(i) \in 1..IMAGE_MAX_CHUNKS
    /\ \A i \in Images \cup {NoImage} : TotalOf(i) \in 0..IMAGE_MAX_CHUNKS
    /\ TotalOf(NoImage) = 0
    /\ IMAGE_MAX_CHUNKS \in Nat
BY MaxChunksAssumption, TotalChunksAssumption, ImagesAssumption DEF TotalOf

(* Cardinality counts a new chunk once, and never exceeds the total.       *)
LEMMA ChunkSets ==
    ASSUME NEW n \in Nat, NEW S \in SUBSET ChunksUpTo(n)
    PROVE  /\ Cardinality(S) \in 0..n
           /\ \A c : Cardinality(S \cup {c}) =
                         IF c \in S THEN Cardinality(S) ELSE Cardinality(S) + 1
<1>1. IsFiniteSet(0..(n-1)) /\ Cardinality(0..(n-1)) = n
  BY FS_Interval
<1>2. IsFiniteSet(S) /\ Cardinality(S) <= n
  BY <1>1, FS_Subset DEF ChunksUpTo
<1>3. Cardinality(S) \in Nat
  BY <1>2, FS_CardinalityType
<1> QED
  BY <1>2, <1>3, FS_AddElement

(* A packet that the sender builds of a chunk of its image.                *)
LEMMA BuiltIsPacket ==
    ASSUME SenderTypeOK, NEW c \in Chunks(sndImage), NEW read \in ReadOutcomes, read # "error"
    PROVE  BuiltPacket(c, read) \in ChunkPacket /\ BuiltPacket(c, read).index = c
<1>1. sndImage \in Images
  BY Totals DEF SenderTypeOK, Chunks, ChunksUpTo
<1>2. TotalOf(sndImage) \in 1..IMAGE_MAX_CHUNKS /\ c \in AnyChunk
  BY <1>1, Totals DEF Chunks, ChunksUpTo, AnyChunk
<1>3. read \in Contents
  BY ReadOutcomesAssumption DEF Contents
<1> QED
  BY <1>1, <1>2, <1>3 DEF BuiltPacket, ChunkPacket

(* Damage leaves a packet a packet, and an ACK an ACK with its bitmap.     *)
LEMMA DeliveredIsPacket ==
    ASSUME NEW q \in ChunkPacket, NEW p \in Delivered(q)
    PROVE  p \in ChunkPacket
<1>1. CASE p = q
  BY <1>1
<1>2. CASE \E d \in LinkDamages : p = [q EXCEPT !.data = "garbage", !.crc_ok = FALSE]
  BY <1>2 DEF ChunkPacket, Contents
<1>3. CASE p \in [image: Images, total: 1..IMAGE_MAX_CHUNKS, index: {q.index},
                  data: {q.data}, crc_ok: {FALSE}]
  BY <1>3 DEF ChunkPacket
<1> QED
  BY <1>1, <1>2, <1>3 DEF Delivered

LEMMA DeliveredIsAck ==
    ASSUME ReceiverOK, rcvImage # NoImage, NEW a \in DeliveredAcks
    PROVE  a \in AckPacket /\ a.bitmap = recvBitmap
<1>1. rcvImage \in Images /\ rcvTotal \in 1..IMAGE_MAX_CHUNKS
  BY Totals DEF ReceiverOK, ReceiverTypeOK
<1>2. recvBitmap \subseteq AnyChunk /\ receivedChunks \in Nat
  BY <1>1, Totals DEF ReceiverOK, ReceiverTypeOK, AnyChunk, ChunksUpTo
<1>3. imageComplete \in BOOLEAN
  BY DEF ReceiverOK, ReceiverTypeOK
<1>4. BuiltAck \in AckPacket /\ BuiltAck.bitmap = recvBitmap
  BY <1>1, <1>2, <1>3 DEF BuiltAck, AckPacket
<1>5. CASE a = BuiltAck
  BY <1>4, <1>5
<1>6. CASE \E d \in LinkDamages : a = [BuiltAck EXCEPT !.complete = TRUE, !.crc_ok = FALSE]
  BY <1>4, <1>6 DEF AckPacket
<1> QED
  BY <1>5, <1>6 DEF DeliveredAcks

(***************************************************************************)
(* IInv holds initially.                                                   *)
(***************************************************************************)
LEMMA InitIInv == Init => IInv
<1> SUFFICES ASSUME Init PROVE IInv
  OBVIOUS
<1> USE DEF Init, SenderInitState, ReceiverInitState
<1>1. SenderOK
  <2>1. sndOpen \in BOOLEAN
    OBVIOUS
  <2> QED
    BY <2>1, Totals DEF SenderOK, SenderTypeOK, ChunksUpTo
<1>2. ReceiverOK
  <2>1. rcvOpen \in BOOLEAN /\ imageComplete \in BOOLEAN
    OBVIOUS
  <2>2. receivedChunks \in 0..rcvTotal /\ rcvTotal \in 0..IMAGE_MAX_CHUNKS
    BY Totals
  <2>3. Cardinality({}) = 0
    BY FS_EmptySet
  <2>4. file \in [AnyChunk -> Contents]
    BY DEF EmptyFile, Contents
  <2> QED
    BY <2>1, <2>2, <2>3, <2>4 DEF ReceiverOK, ReceiverTypeOK
<1>3. CycleOK
  <2>1. initialized \in BOOLEAN
    OBVIOUS
  <2>2. Cardinality(inHand) <= 1
    BY FS_EmptySet
  <2>3. tx \in Seq(ChunkPacket) /\ Len(tx) = 0
    OBVIOUS
  <2>4. /\ txCount \in 0..IMAGE_MAX_DATA_PER_CYCLE
        /\ ackSeq \in 0..IMAGE_ACK_REPEAT_COUNT
        /\ crashes \in 0..MaxSenderCrashes
        /\ Len(tx) <= IMAGE_MAX_DATA_PER_CYCLE
    BY <2>3, CycleAssumption
  <2> QED
    BY <2>1, <2>2, <2>3, <2>4 DEF CycleOK, CycleTypeOK
<1>4. SentOnce /\ NoDuplicateInCycle
  BY DEF SentOnce, NoDuplicateInCycle
<1>5. AcksAreFresh /\ NothingIsResentInVain /\ SentIsKnown /\ AckedLossIsResent
  BY DEF AcksAreFresh, NothingIsResentInVain, SentIsKnown, AckedLossIsResent
<1> QED
  BY <1>1, <1>2, <1>3, <1>4, <1>5 DEF IInv

(***************************************************************************)
(* The sender's context.                                                   *)
(***************************************************************************)

(* What is handed out to be sent is a packet.                              *)
LEMMA BuildKeepsPackets ==
    ASSUME SenderTypeOK, NEW c \in Chunks(sndImage), NEW read \in ReadOutcomes,
           sender_build_chunk(c, read)
    PROVE  packets' \subseteq ChunkPacket
<1>1. CASE BuildSucceeds(c, read)
  BY <1>1, BuiltIsPacket DEF sender_build_chunk, BuildSucceeds, SenderTypeOK
<1>2. CASE ~BuildSucceeds(c, read)
  BY <1>2 DEF sender_build_chunk, SenderTypeOK
<1> QED
  BY <1>1, <1>2

LEMMA ResendKeepsSender ==
    ASSUME SenderOK, NEW c \in resend, NEW read \in ReadOutcomes, get_next_resend(c, read)
    PROVE  SenderOK'
<1>1. packets' \subseteq ChunkPacket
  BY BuildKeepsPackets DEF SenderOK, SenderTypeOK, get_next_resend
<1> QED
  BY <1>1 DEF SenderOK, SenderTypeOK, get_next_resend

LEMMA NewKeepsSender ==
    ASSUME SenderOK, NEW read \in ReadOutcomes, get_next_new(read)
    PROVE  SenderOK' /\ nextNew \in Chunks(sndImage) /\ nextNew \notin localSent
<1>1. TotalOf(sndImage) \in Nat /\ nextNew \in Nat
  BY Totals DEF SenderOK, SenderTypeOK
<1>2. nextNew \in Chunks(sndImage) /\ nextNew \notin localSent
  BY <1>1 DEF get_next_new, Chunks, ChunksUpTo, SenderOK
<1>3. packets' \subseteq ChunkPacket
  BY <1>2, BuildKeepsPackets DEF get_next_new, SenderOK
<1>4. /\ nextNew' \in 0..TotalOf(sndImage')
      /\ localSent' \subseteq Chunks(sndImage')
      /\ localSent' = ChunksUpTo(nextNew')
  BY <1>1, <1>2 DEF get_next_new, ChunksUpTo, SenderOK, SenderTypeOK
<1> QED
  BY <1>2, <1>3, <1>4 DEF get_next_new, SenderOK, SenderTypeOK

LEMMA InitKeepsSender ==
    ASSUME SenderOK, sender_init(image)
    PROVE  SenderOK'
<1>1. sndOpen' \in BOOLEAN
  BY DEF sender_init, SenderCleared
<1> QED
  BY <1>1, Totals, CycleAssumption
     DEF sender_init, SenderCleared, SenderOK, SenderTypeOK, ChunksUpTo

LEMMA ParseKeepsSender ==
    ASSUME SenderOK, NEW a \in AckPacket, sender_parse_ack(a)
    PROVE  SenderOK'
<1>1. remoteRecv' \subseteq AnyChunk
  BY DEF sender_parse_ack, AckPacket
<1> QED
  BY <1>1 DEF sender_parse_ack, SenderOK, SenderTypeOK

LEMMA SenderStep ==
    ASSUME SenderOK, CycleTypeOK, [Next]_vars
    PROVE  SenderOK'
<1>0. CASE UNCHANGED sndVars
  BY <1>0 DEF sndVars, ctxVars, SenderOK, SenderTypeOK
<1>1. CASE SenderStarts \/ SenderCrashes
  BY <1>1, InitKeepsSender DEF SenderStarts, SenderCrashes
<1>2. CASE \E a \in ackIn : ParseAckFile(a)
  <2> PICK a \in ackIn : ParseAckFile(a)
    BY <1>2
  <2>1. a \in AckPacket
    BY DEF CycleTypeOK
  <2>2. CASE sender_parse_ack(a)
    BY <2>1, <2>2, ParseKeepsSender
  <2>3. CASE sender_reject_ack(a)
    BY <1>0, <2>3 DEF sender_reject_ack
  <2> QED
    BY <2>2, <2>3 DEF ParseAckFile
<1>3. CASE BuildList
  BY <1>3 DEF BuildList, sender_build_resend_list, SenderOK, SenderTypeOK
<1>4. CASE SendPacket
  <2>1. CASE \E c \in resend, read \in ReadOutcomes : get_next_resend(c, read)
    BY <2>1, ResendKeepsSender
  <2>2. CASE \E read \in ReadOutcomes : get_next_new(read)
    BY <2>2, NewKeepsSender
  <2> QED
    BY <1>4, <2>1, <2>2 DEF SendPacket
<1>5. CASE ReadFails
  BY <1>5, ResendKeepsSender, NewKeepsSender DEF ReadFails
<1>6. CASE \/ NoAckFile \/ EndSending \/ PacketLost \/ InitFails \/ HandlePacket \/ EndListening
           \/ EndCycle \/ UNCHANGED vars
  BY <1>0, <1>6 DEF NoAckFile, EndSending, PacketLost, InitFails, HandlePacket, EndListening,
     EndCycle, vars
<1>7. CASE \/ tx # <<>> /\ \E p \in Delivered(Head(tx)) : PacketRead(p)
           \/ \E arriving \in {{}} \cup {{a} : a \in DeliveredAcks} : SendAck(arriving)
  BY <1>0, <1>7 DEF PacketRead, SendAck
<1> QED
  BY <1>1, <1>2, <1>3, <1>4, <1>5, <1>6, <1>7 DEF Next

(***************************************************************************)
(* The receiver's context.                                                 *)
(***************************************************************************)
LEMMA ReceiverInitKeeps ==
    ASSUME ReceiverOK, NEW i \in Images, NEW n \in 1..IMAGE_MAX_CHUNKS, NEW opened \in BOOLEAN,
           receiver_init(i, n, opened)
    PROVE  ReceiverOK' /\ recvBitmap' = {}
<1> USE DEF receiver_init, ReceiverOK, ReceiverTypeOK
<1>1. rcvOpen' \in BOOLEAN /\ imageComplete' \in BOOLEAN
  OBVIOUS
<1>2. rcvTotal' \in 0..IMAGE_MAX_CHUNKS /\ rcvTotal' # 0 /\ receivedChunks' \in 0..rcvTotal'
  BY Totals
<1>3. file' \in [AnyChunk -> Contents]
  BY DEF EmptyFile, Contents
<1>4. receivedChunks' = Cardinality(recvBitmap') /\ recvBitmap' = {}
  BY FS_EmptySet
<1> QED
  BY <1>1, <1>2, <1>3, <1>4

LEMMA HandleKeepsReceiver ==
    ASSUME ReceiverOK, NEW p \in ChunkPacket, receiver_handle_chunk(p)
    PROVE  ReceiverOK'
<1> USE DEF ReceiverOK, ReceiverTypeOK
<1>1. /\ rcvTotal \in Nat /\ recvBitmap \in SUBSET ChunksUpTo(rcvTotal)
      /\ p.index \in ChunksUpTo(rcvTotal) /\ p.index \in AnyChunk
      /\ rcvImage \in Images
  BY Totals DEF receiver_handle_chunk, ChunkAcceptable, ChunkPacket, ChunksUpTo, AnyChunk
<1>2. recvBitmap' = recvBitmap \cup {p.index} /\ recvBitmap' \in SUBSET ChunksUpTo(rcvTotal)
  BY <1>1 DEF receiver_handle_chunk, MarkReceived
<1>3. receivedChunks' = Cardinality(recvBitmap')
  BY <1>1, <1>2, ChunkSets DEF receiver_handle_chunk, MarkReceived
<1>4. receivedChunks' \in 0..rcvTotal
  BY <1>1, <1>2, <1>3, ChunkSets
<1>5. imageComplete' \in BOOLEAN
  <2>1. imageComplete' = (imageComplete \/ receivedChunks' = rcvTotal)
    BY DEF receiver_handle_chunk, MarkReceived
  <2> QED
    BY <2>1
<1>6. file' \in [AnyChunk -> Contents]
  <2>1. Written(file[p.index], p.data) \in Contents
    BY DEF Written, ChunkPacket, Contents
  <2> QED
    BY <1>1, <2>1 DEF receiver_handle_chunk
<1>7. saved' \subseteq Images
  BY <1>1 DEF receiver_handle_chunk
<1>8. UNCHANGED <<rcvImage, rcvTotal, rcvOpen, acks>>
  BY DEF receiver_handle_chunk
<1> QED
  BY <1>2, <1>3, <1>4, <1>5, <1>6, <1>7, <1>8

LEMMA ReceiverStep ==
    ASSUME ReceiverOK, CycleTypeOK, [Next]_vars
    PROVE  ReceiverOK'
<1>0. CASE UNCHANGED rcvVars
  BY <1>0 DEF rcvVars, ReceiverOK, ReceiverTypeOK
<1>1. CASE tx # <<>> /\ \E p \in Delivered(Head(tx)) : PacketRead(p)
  <2> PICK p \in Delivered(Head(tx)) : PacketRead(p)
    BY <1>1
  <2>1. Head(tx) \in ChunkPacket
    BY <1>1 DEF CycleTypeOK
  <2>2. p.image \in Images /\ p.total \in 1..IMAGE_MAX_CHUNKS
    BY <2>1, DeliveredIsPacket DEF ChunkPacket
  <2> QED
    BY <1>0, <2>2, ReceiverInitKeeps DEF PacketRead
<1>2. CASE InitFails
  <2>0. Head(tx) \in ChunkPacket
    BY <1>2 DEF InitFails, CycleTypeOK
  <2>1. Head(tx).image \in Images /\ Head(tx).total \in 1..IMAGE_MAX_CHUNKS
    BY <2>0 DEF ChunkPacket
  <2> QED
    BY <1>2, <2>1, ReceiverInitKeeps DEF InitFails
<1>3. CASE HandlePacket
  <2> PICK p \in inHand : \/ receiver_handle_chunk(p)
                          \/ \E write \in WriteOutcomes : receiver_write_fails(p, write)
                          \/ receiver_reject_chunk(p)
    BY <1>3 DEF HandlePacket
  <2>1. CASE receiver_handle_chunk(p)
    BY <2>1, HandleKeepsReceiver DEF CycleTypeOK
  <2>2. CASE receiver_reject_chunk(p)
    BY <1>0, <2>2 DEF receiver_reject_chunk
  <2>3. ASSUME NEW write \in WriteOutcomes, receiver_write_fails(p, write) PROVE ReceiverOK'
    <3>1. p.index \in AnyChunk /\ p.data \in Contents
      BY <1>3 DEF HandlePacket, CycleTypeOK, ChunkPacket
    <3>2. file' \in [AnyChunk -> Contents]
      BY <2>3, <3>1 DEF receiver_write_fails, Written, Contents, ReceiverOK, ReceiverTypeOK
    <3> QED
      BY <2>3, <3>2 DEF receiver_write_fails, ReceiverOK, ReceiverTypeOK
  <2> QED
    BY <2>1, <2>2, <2>3
<1>4. CASE \E arriving \in {{}} \cup {{a} : a \in DeliveredAcks} : SendAck(arriving)
  <2>1. rcvImage # NoImage
    BY <1>4 DEF SendAck, receiver_build_ack
  <2>2. BuiltAck \in AckPacket
    BY <2>1, DeliveredIsAck DEF DeliveredAcks
  <2>3. acks' = acks \cup {BuiltAck}
    BY <1>4 DEF SendAck, receiver_build_ack
  <2>4. UNCHANGED <<rcvImage, rcvTotal, rcvOpen, recvBitmap, receivedChunks, imageComplete, file, saved>>
    BY <1>4 DEF SendAck, receiver_build_ack
  <2> QED
    BY <2>2, <2>3, <2>4 DEF ReceiverOK, ReceiverTypeOK
<1>5. CASE EndCycle
  <2>1. CASE receiver_close
    <3>1. rcvOpen' \in BOOLEAN
      BY <2>1 DEF receiver_close
    <3> QED
      BY <2>1, <3>1 DEF receiver_close, ReceiverOK, ReceiverTypeOK
  <2> QED
    BY <1>0, <1>5, <2>1 DEF EndCycle
<1>6. CASE \/ SenderStarts \/ NoAckFile \/ BuildList \/ SendPacket \/ ReadFails \/ SenderCrashes
           \/ EndSending \/ PacketLost \/ EndListening \/ UNCHANGED vars
           \/ \E a \in ackIn : ParseAckFile(a)
  BY <1>0, <1>6 DEF SenderStarts, NoAckFile, BuildList, SendPacket, ReadFails, StartListening,
     SenderCrashes, EndSending, PacketLost, EndListening, ParseAckFile, vars
<1> QED
  BY <1>1, <1>2, <1>3, <1>4, <1>5, <1>6 DEF Next


(***************************************************************************)
(* The cycle.                                                              *)
(***************************************************************************)
LEMMA SendPacketGrows ==
    ASSUME SenderOK, CycleOK, SendPacket
    PROVE  \E e \in ChunkPacket :
             /\ tx' = Append(tx, e)
             /\ e.index \in localSent' \ resend'
             /\ e.index \in resend \/ e.index \notin localSent
             /\ localSent \ resend \subseteq localSent' \ resend'
<1>1. CASE \E read \in ReadOutcomes \ {"error"}, c \in resend :
             get_next_resend(c, read) /\ tx' = Append(tx, BuiltPacket(c, read))
  <2> PICK read \in ReadOutcomes \ {"error"}, c \in resend :
             get_next_resend(c, read) /\ tx' = Append(tx, BuiltPacket(c, read))
    BY <1>1
  <2>1. BuiltPacket(c, read) \in ChunkPacket /\ BuiltPacket(c, read).index = c
    BY BuiltIsPacket DEF SenderOK, SenderTypeOK
  <2>2. c \in localSent /\ localSent' = localSent /\ resend' = resend \ {c}
    BY DEF SenderOK, get_next_resend
  <2> QED
    BY <2>1, <2>2
<1>2. CASE \E read \in ReadOutcomes \ {"error"} :
             get_next_new(read) /\ tx' = Append(tx, BuiltPacket(nextNew, read))
  <2> PICK read \in ReadOutcomes \ {"error"} :
             get_next_new(read) /\ tx' = Append(tx, BuiltPacket(nextNew, read))
    BY <1>2
  <2>1. nextNew \in Chunks(sndImage) /\ nextNew \notin localSent
    BY NewKeepsSender
  <2>2. BuiltPacket(nextNew, read) \in ChunkPacket /\ BuiltPacket(nextNew, read).index = nextNew
    BY <2>1, BuiltIsPacket DEF SenderOK
  <2>3. localSent' = localSent \cup {nextNew} /\ resend' = {} /\ resend = {}
    BY DEF get_next_new
  <2> QED
    BY <2>1, <2>2, <2>3
<1> QED
  BY <1>1, <1>2 DEF SendPacket

LEMMA CycleStep ==
    ASSUME SenderOK, ReceiverOK, CycleOK, [Next]_vars
    PROVE  CycleOK'
<1> USE DEF CycleOK, CycleTypeOK
<1>n. /\ IMAGE_MAX_DATA_PER_CYCLE \in Nat /\ IMAGE_ACK_REPEAT_COUNT \in Nat /\ MaxSenderCrashes \in Nat
      /\ txCount \in Nat /\ ackSeq \in Nat /\ crashes \in Nat /\ Len(tx) \in Nat
      /\ (KeepContexts /\ initialized) \in BOOLEAN
  BY CycleAssumption
<1>1. CASE SenderStarts \/ NoAckFile \/ BuildList
  <2>1. UNCHANGED <<txCount, tx, inHand, initialized, ackSeq, crashes>>
    BY <1>1 DEF SenderStarts, NoAckFile, BuildList
  <2>2. /\ phase \in {"init", "parse", "list"} /\ phase' \in {"parse", "send"}
        /\ ackIn' \subseteq ackIn
    BY <1>1 DEF SenderStarts, NoAckFile, BuildList
  <2> QED
    BY <1>n, <2>1, <2>2
<1>2. CASE \E a \in ackIn : ParseAckFile(a)
  BY <1>2, <1>n DEF ParseAckFile
<1>3. CASE SendPacket
  <2> PICK e \in ChunkPacket : tx' = Append(tx, e)
    BY <1>3, SendPacketGrows
  <2>1. tx' \in Seq(ChunkPacket) /\ Len(tx') = Len(tx) + 1
    OBVIOUS
  <2>2. /\ phase = "send" /\ txCount < IMAGE_MAX_DATA_PER_CYCLE /\ txCount' = txCount + 1
        /\ UNCHANGED <<phase, inHand, initialized, ackSeq, ackIn, crashes>>
    BY <1>3 DEF SendPacket
  <2> QED
    BY <1>n, <2>1, <2>2
<1>4. CASE ReadFails \/ EndSending
  <2>1. StartListening
    BY <1>4 DEF ReadFails, EndSending
  <2> QED
    BY <1>n, <2>1 DEF StartListening
<1>5. CASE SenderCrashes
  BY <1>5, <1>n DEF SenderCrashes
<1>6. CASE PacketLost
  <2>1. tx' \in Seq(ChunkPacket) /\ Len(tx') = Len(tx) - 1
    BY <1>6 DEF PacketLost
  <2> QED
    BY <1>6, <1>n, <2>1 DEF PacketLost
<1>7. CASE tx # <<>> /\ \E p \in Delivered(Head(tx)) : PacketRead(p)
  <2> PICK p \in Delivered(Head(tx)) : PacketRead(p)
    BY <1>7
  <2>1. tx' \in Seq(ChunkPacket) /\ Len(tx') = Len(tx) - 1 /\ Head(tx) \in ChunkPacket
    BY <1>7 DEF PacketRead
  <2>2. inHand' = {p} /\ p \in ChunkPacket
    BY <2>1, DeliveredIsPacket DEF PacketRead
  <2>3. Cardinality(inHand') = 1
    BY <2>2, FS_Singleton
  <2> QED
    BY <1>n, <2>1, <2>2, <2>3 DEF PacketRead
<1>8. CASE InitFails
  <2>1. tx' \in Seq(ChunkPacket) /\ Len(tx') = 0
    BY <1>8 DEF InitFails
  <2> QED
    BY <1>8, <1>n, <2>1 DEF InitFails, NextCycle
<1>9. CASE HandlePacket
  <2>1. inHand' = {} /\ Cardinality(inHand') = 0
    BY <1>9, FS_EmptySet DEF HandlePacket
  <2> QED
    BY <1>9, <1>n, <2>1 DEF HandlePacket
<1>10. CASE EndListening
  BY <1>10, <1>n DEF EndListening, NextCycle
<1>11. CASE \E arriving \in {{}} \cup {{a} : a \in DeliveredAcks} : SendAck(arriving)
  <2> PICK arriving \in {{}} \cup {{a} : a \in DeliveredAcks} : SendAck(arriving)
    BY <1>11
  <2>1. rcvImage # NoImage
    BY DEF SendAck, receiver_build_ack
  <2>2. ackIn' \subseteq AckPacket
    BY <2>1, DeliveredIsAck DEF SendAck
  <2> QED
    BY <1>n, <2>2 DEF SendAck
<1>12. CASE EndCycle
  <2>1. UNCHANGED <<txCount, tx, inHand, initialized, ackSeq, ackIn, crashes>>
    BY <1>12 DEF EndCycle
  <2>2. phase = "ack" /\ ackSeq = IMAGE_ACK_REPEAT_COUNT /\ phase' \in {"init", "parse"}
    BY <1>12 DEF EndCycle, NextCycle
  <2> QED
    BY <1>n, <2>1, <2>2
<1>13. CASE UNCHANGED vars
  BY <1>13 DEF vars, cycleVars
<1> QED
  BY <1>1, <1>2, <1>3, <1>4, <1>5, <1>6, <1>7, <1>8, <1>9, <1>10, <1>11, <1>12, <1>13 DEF Next


(***************************************************************************)
(* No chunk twice in a cycle.                                              *)
(***************************************************************************)
LEMMA OnceStep ==
    ASSUME SenderOK, CycleOK, SentOnce, NoDuplicateInCycle, [Next]_vars
    PROVE  SentOnce' /\ NoDuplicateInCycle'
<1> USE DEF SentOnce, NoDuplicateInCycle
<1>t. tx \in Seq(ChunkPacket) /\ Len(tx) \in Nat /\ crashes \in Nat
  BY CycleAssumption DEF CycleOK, CycleTypeOK
<1>1. CASE SendPacket
  <2> SUFFICES ASSUME crashes = 0
               PROVE  /\ \A j \in 1..Len(tx') : tx'[j].index \in localSent' \ resend'
                      /\ \A j, k \in 1..Len(tx') : tx'[j].index = tx'[k].index => j = k
    BY <1>1 DEF SendPacket
  <2> PICK e \in ChunkPacket :
             /\ tx' = Append(tx, e)
             /\ e.index \in localSent' \ resend'
             /\ e.index \in resend \/ e.index \notin localSent
             /\ localSent \ resend \subseteq localSent' \ resend'
    BY <1>1, SendPacketGrows
  <2>1. \A j \in 1..Len(tx) : tx[j].index \in localSent \ resend
    BY <1>1 DEF SendPacket
  <2>2. /\ Len(tx') = Len(tx) + 1
        /\ \A j \in 1..Len(tx) : tx'[j] = tx[j]
        /\ tx'[Len(tx) + 1] = e
    BY <1>t
  <2>3. \A j \in 1..Len(tx') : j \in 1..Len(tx) \/ j = Len(tx) + 1
    BY <1>t, <2>2
  <2>4. \A j \in 1..Len(tx) : tx[j].index # e.index
    BY <2>1
  <2> QED
    BY <2>1, <2>2, <2>3, <2>4
<1>2. CASE SenderStarts \/ NoAckFile \/ BuildList \/ \E a \in ackIn : ParseAckFile(a)
  <2>1. phase \in {"init", "parse", "list"} /\ tx' = tx
    BY <1>2 DEF SenderStarts, NoAckFile, BuildList, ParseAckFile
  <2>2. tx' = <<>> /\ Len(tx') = 0
    BY <2>1 DEF CycleOK
  <2> QED
    BY <2>2
<1>3. CASE SenderCrashes
  <2>1. crashes' # 0
    BY <1>3, <1>t DEF SenderCrashes
  <2> QED
    BY <2>1
<1>4. CASE \/ ReadFails \/ EndSending \/ HandlePacket \/ EndListening \/ EndCycle
           \/ \E arriving \in {{}} \cup {{a} : a \in DeliveredAcks} : SendAck(arriving)
  <2>1. tx' = tx /\ crashes' = crashes /\ phase' # "send"
    BY <1>4 DEF ReadFails, EndSending, StartListening, HandlePacket, EndListening, EndCycle,
       SendAck, NextCycle
  <2> QED
    BY <2>1
<1>5. CASE \/ PacketLost
           \/ tx # <<>> /\ \E p \in Delivered(Head(tx)) : PacketRead(p)
  <2>1. tx # <<>> /\ tx' = Tail(tx) /\ crashes' = crashes /\ phase' # "send"
    BY <1>5 DEF PacketLost, PacketRead
  <2>2. /\ Len(tx') = Len(tx) - 1
        /\ \A j \in 1..Len(tx') : tx'[j] = tx[j + 1] /\ j + 1 \in 1..Len(tx)
    BY <1>t, <2>1
  <2>3. ASSUME crashes = 0, NEW j \in 1..Len(tx'), NEW k \in 1..Len(tx'), tx'[j].index = tx'[k].index
        PROVE  j = k
    <3>1. tx[j + 1].index = tx[k + 1].index /\ j + 1 \in 1..Len(tx) /\ k + 1 \in 1..Len(tx)
      BY <2>2, <2>3
    <3>2. j + 1 = k + 1
      BY <2>3, <3>1 DEF NoDuplicateInCycle
    <3> QED
      BY <3>2
  <2> QED
    BY <2>1, <2>2, <2>3
<1>6. CASE InitFails
  <2>1. tx' = <<>> /\ Len(tx') = 0
    BY <1>6 DEF InitFails
  <2> QED
    BY <2>1
<1>7. CASE UNCHANGED vars
  BY <1>7 DEF vars, cycleVars, sndVars, ctxVars
<1> HIDE DEF SentOnce, NoDuplicateInCycle
<1> QED
  BY <1>1, <1>2, <1>3, <1>4, <1>5, <1>6, <1>7 DEF Next

(***************************************************************************)
(* Nothing is resent in vain: from the ACK loop to the end of sending the  *)
(* receiver does not run, so that its bitmap stays what the ACKs say.      *)
(***************************************************************************)
LEMMA FreshStep ==
    ASSUME SenderOK, ReceiverOK, AcksAreFresh, NothingIsResentInVain, [Next]_vars
    PROVE  AcksAreFresh' /\ NothingIsResentInVain'
<1> USE DEF AcksAreFresh, NothingIsResentInVain
<1>1. CASE NoAckFile
  BY <1>1 DEF NoAckFile
<1>2. CASE \E a \in ackIn : ParseAckFile(a)
  <2> PICK a \in ackIn : ParseAckFile(a)
    BY <1>2
  <2>1. phase = "parse" /\ ackIn' = {a} /\ recvBitmap' = recvBitmap
    BY DEF ParseAckFile, rcvVars
  <2>2. CASE sender_parse_ack(a) /\ phase' = "list"
    BY <2>1, <2>2 DEF sender_parse_ack
  <2>3. CASE sender_reject_ack(a) /\ phase' = "send"
    <3>1. ~AckAcceptable(a)'
      BY <2>3 DEF sender_reject_ack, AckAcceptable, sndVars, ctxVars
    <3> QED
      BY <2>1, <2>3, <3>1
  <2> QED
    BY <2>2, <2>3 DEF ParseAckFile
<1>3. CASE BuildList
  <2>1. UNCHANGED <<ackIn, recvBitmap>> /\ phase = "list" /\ phase' = "send"
    BY <1>3 DEF BuildList, rcvVars
  <2>2. resend' \cap remoteRecv = {}
    BY <1>3 DEF BuildList, sender_build_resend_list
  <2> QED
    BY <2>1, <2>2
<1>4. CASE SendPacket
  <2>1. UNCHANGED <<ackIn, recvBitmap, phase, sndImage>> /\ phase = "send"
    BY <1>4 DEF SendPacket, rcvVars, get_next_new, get_next_resend
  <2>2. resend' \subseteq resend
    BY <1>4 DEF SendPacket, get_next_new, get_next_resend
  <2> QED
    BY <2>1, <2>2 DEF AckAcceptable
<1>5. CASE ReadFails \/ EndSending
  BY <1>5 DEF ReadFails, EndSending, StartListening
<1>6. CASE SenderCrashes \/ SenderStarts
  <2>1. resend' = {} /\ UNCHANGED <<ackIn, recvBitmap>> /\ phase' \in {"parse", "send"}
    BY <1>6 DEF SenderCrashes, SenderStarts, sender_init, SenderCleared, rcvVars
  <2> QED
    BY <2>1
<1>7. CASE \/ PacketLost \/ InitFails \/ HandlePacket
           \/ tx # <<>> /\ \E p \in Delivered(Head(tx)) : PacketRead(p)
  <2>1. phase \in {"listen", "handle"} /\ ackIn' = ackIn /\ phase' \notin {"list", "send"}
    BY <1>7 DEF PacketLost, InitFails, HandlePacket, PacketRead, NextCycle
  <2> QED
    BY <2>1
<1>8. CASE EndListening
  BY <1>8 DEF EndListening, NextCycle
<1>9. CASE \E arriving \in {{}} \cup {{a} : a \in DeliveredAcks} : SendAck(arriving)
  <2> PICK arriving \in {{}} \cup {{a} : a \in DeliveredAcks} : SendAck(arriving)
    BY <1>9
  <2>1. rcvImage # NoImage /\ recvBitmap' = recvBitmap /\ phase = "ack" /\ phase' = "ack"
    BY DEF SendAck, receiver_build_ack
  <2>2. \A a \in arriving : a.bitmap = recvBitmap
    BY <2>1, DeliveredIsAck
  <2> QED
    BY <2>1, <2>2 DEF SendAck
<1>10. CASE EndCycle
  <2>1. UNCHANGED <<ackIn, recvBitmap>> /\ phase' \in {"parse", "init"}
    BY <1>10 DEF EndCycle, NextCycle, receiver_close, rcvVars
  <2> QED
    BY <2>1
<1>11. CASE UNCHANGED vars
  BY <1>11 DEF vars, cycleVars, sndVars, ctxVars, rcvVars, AckAcceptable
<1> HIDE DEF AcksAreFresh, NothingIsResentInVain
<1> QED
  BY <1>1, <1>2, <1>3, <1>4, <1>5, <1>6, <1>7, <1>8, <1>9, <1>10, <1>11 DEF Next


(***************************************************************************)
(* What an ACK reports missing is resent.                                  *)
(***************************************************************************)

(* A packet handed out is one of a chunk that was sent.                    *)
LEMMA BuiltIsKnown ==
    ASSUME NEW c, NEW read, sender_build_chunk(c, read), NEW p \in packets'
    PROVE  p \in packets \/ p.index = c
BY DEF sender_build_chunk, BuiltPacket

LEMMA KnownStep ==
    ASSUME SenderOK, CycleOK, SentIsKnown, [Next]_vars
    PROVE  SentIsKnown'
<1> SUFFICES ASSUME KeepContexts, crashes' = 0
             PROVE  /\ phase' = "init" => packets' = {}
                    /\ \A p \in packets' : p.index \in localSent'
  BY DEF SentIsKnown
<1> USE DEF SentIsKnown
<1>0. crashes \in Nat
  BY CycleAssumption DEF CycleOK, CycleTypeOK
<1>1. CASE SenderStarts
  <2>1. phase = "init" /\ crashes = 0 /\ packets' = packets /\ phase' = "parse"
    BY <1>1 DEF SenderStarts, sender_init
  <2> QED
    BY <2>1
<1>2. CASE SenderCrashes
  BY <1>0, <1>2 DEF SenderCrashes
<1>3. CASE SendPacket \/ ReadFails
  <2>1. crashes = 0 /\ phase' # "init"
    BY <1>3 DEF SendPacket, ReadFails, StartListening
  <2>2. \/ \E c \in resend, read \in ReadOutcomes : get_next_resend(c, read)
        \/ \E read \in ReadOutcomes : get_next_new(read)
    BY <1>3 DEF SendPacket, ReadFails
  <2>3. CASE \E c \in resend, read \in ReadOutcomes : get_next_resend(c, read)
    BY <2>1, <2>3, BuiltIsKnown DEF get_next_resend, SenderOK
  <2>4. CASE \E read \in ReadOutcomes : get_next_new(read)
    BY <2>1, <2>4, BuiltIsKnown DEF get_next_new
  <2> QED
    BY <2>1, <2>2, <2>3, <2>4
<1>4. CASE NoAckFile \/ EndSending \/ BuildList \/ \E a \in ackIn : ParseAckFile(a)
  BY <1>4 DEF NoAckFile, EndSending, StartListening, BuildList, sender_build_resend_list,
     ParseAckFile, sender_parse_ack, sender_reject_ack, sndVars, ctxVars
<1>5. CASE \/ PacketLost \/ InitFails \/ HandlePacket \/ EndListening \/ EndCycle
           \/ tx # <<>> /\ \E p \in Delivered(Head(tx)) : PacketRead(p)
           \/ \E arriving \in {{}} \cup {{a} : a \in DeliveredAcks} : SendAck(arriving)
  <2>1. /\ packets' = packets /\ localSent' = localSent /\ crashes' = crashes
        /\ phase' # "init"
    BY <1>5 DEF PacketLost, InitFails, HandlePacket, EndListening, EndCycle, PacketRead, SendAck,
       NextCycle, sndVars, ctxVars
  <2> QED
    BY <2>1
<1>6. CASE UNCHANGED vars
  BY <1>6 DEF vars, cycleVars, sndVars, ctxVars
<1> HIDE DEF SentIsKnown
<1> QED
  BY <1>1, <1>2, <1>3, <1>4, <1>5, <1>6 DEF Next

LEMMA ListedStep ==
    ASSUME KeepContexts, SenderOK, CycleOK, AcksAreFresh, SentIsKnown, AckedLossIsResent,
           [Next]_vars
    PROVE  AckedLossIsResent'
<1> SUFFICES ASSUME phase' = "send", txCount' = 0, crashes' = 0,
                    NEW a \in ackIn', NEW p \in packets', AckAcceptable(a)'
             PROVE  p.index \in a.bitmap \cup resend'
  BY DEF AckedLossIsResent
<1>0. crashes \in Nat /\ txCount \in Nat
  BY CycleAssumption DEF CycleOK, CycleTypeOK
<1>1. CASE NoAckFile
  BY <1>1 DEF NoAckFile
<1>2. CASE \E b \in ackIn : ParseAckFile(b)
  <2> PICK b \in ackIn : ParseAckFile(b)
    BY <1>2
  <2>1. sender_reject_ack(b) /\ a = b
    BY DEF ParseAckFile
  <2> QED
    BY <2>1 DEF sender_reject_ack, AckAcceptable, sndVars, ctxVars
<1>3. CASE BuildList
  <2>1. /\ phase = "list" /\ ackIn' = ackIn /\ crashes = 0
        /\ packets' = packets /\ localSent' = localSent
        /\ resend' = {c \in Chunks(sndImage) : c \in localSent /\ c \notin remoteRecv}
    BY <1>3 DEF BuildList, sender_build_resend_list
  <2>2. remoteRecv = a.bitmap
    BY <2>1 DEF AcksAreFresh
  <2>3. p.index \in localSent
    BY <2>1 DEF SentIsKnown
  <2>4. p.index \in Chunks(sndImage)
    BY <2>3 DEF SenderOK, SenderTypeOK
  <2> QED
    BY <2>1, <2>2, <2>3, <2>4
<1>4. CASE SendPacket
  BY <1>0, <1>4 DEF SendPacket
<1>5. CASE SenderCrashes
  BY <1>0, <1>5 DEF SenderCrashes
<1>6. CASE \/ SenderStarts \/ ReadFails \/ EndSending \/ PacketLost \/ InitFails \/ HandlePacket
           \/ EndListening \/ EndCycle
           \/ tx # <<>> /\ \E q \in Delivered(Head(tx)) : PacketRead(q)
           \/ \E arriving \in {{}} \cup {{b} : b \in DeliveredAcks} : SendAck(arriving)
  BY <1>6 DEF SenderStarts, ReadFails, EndSending, StartListening, PacketLost, InitFails,
     HandlePacket, EndListening, EndCycle, PacketRead, SendAck, NextCycle
<1>7. CASE UNCHANGED vars
  BY <1>7 DEF vars, cycleVars, sndVars, ctxVars, AckAcceptable, AckedLossIsResent
<1> QED
  BY <1>1, <1>2, <1>3, <1>4, <1>5, <1>6, <1>7 DEF Next

(***************************************************************************)
(* The theorems.                                                           *)
(***************************************************************************)

(* Both programs and the link keep IInv (sender_demo, receiver_demo).      *)
THEOREM Invariance == Spec => []IInv
<1>1. Init => IInv
  BY InitIInv
<1>2. IInv /\ [Next]_vars => IInv'
  <2> SUFFICES ASSUME IInv, [Next]_vars PROVE IInv'
    OBVIOUS
  <2>1. SenderOK' /\ ReceiverOK' /\ CycleOK'
    BY SenderStep, ReceiverStep, CycleStep DEF IInv, CycleOK
  <2>2. SentOnce' /\ NoDuplicateInCycle'
    BY OnceStep DEF IInv
  <2>3. AcksAreFresh' /\ NothingIsResentInVain'
    BY FreshStep DEF IInv
  <2>4. SentIsKnown'
    BY KnownStep DEF IInv
  <2>5. (KeepContexts => AckedLossIsResent)'
    BY ListedStep DEF IInv
  <2> QED
    BY <2>1, <2>2, <2>3, <2>4, <2>5 DEF IInv
<1> QED
  BY <1>1, <1>2, PTL DEF Spec

(* No cycle exceeds its limit, and nothing leaves the arrays.              *)
THEOREM TypeCorrect == Spec => []TypeOK
<1>1. IInv => TypeOK
  BY DEF IInv, SenderOK, ReceiverOK, CycleOK, TypeOK
<1> QED
  BY <1>1, Invariance, PTL

(* A cycle's packets are of different chunks, resent and new ones together *)
(* (sender_get_next_packet_for_cycle, sender_build_resend_list).           *)
THEOREM SentOnceInCycle == Spec => []NoDuplicateInCycle
<1>1. IInv => NoDuplicateInCycle
  BY DEF IInv
<1> QED
  BY <1>1, Invariance, PTL

(* What the receiver has is not resent after an ACK (receiver_build_ack,   *)
(* sender_parse_ack, sender_build_resend_list).                            *)
THEOREM NoVainResend == Spec => []NothingIsResentInVain
<1>1. IInv => NothingIsResentInVain
  BY DEF IInv
<1> QED
  BY <1>1, Invariance, PTL

(* With contexts that live on, what an ACK reports missing is resent; the  *)
(* demo programs, which do not keep them, show it to be false.             *)
THEOREM LossIsResent ==
    ASSUME KeepContexts
    PROVE  Spec => []AckedLossIsResent
<1>1. IInv => AckedLossIsResent
  BY DEF IInv
<1> QED
  BY <1>1, Invariance, PTL

=============================================================================
