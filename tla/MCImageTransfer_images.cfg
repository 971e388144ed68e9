\* Two images, of three chunks and one, one after the other over the same link.
CONSTANTS
    imgA = imgA
    imgB = imgB
    NoImage = NoImage
    Images <- TwoImages
    TotalChunks <- ThreeAndOneChunks
    IMAGE_MAX_CHUNKS = 3
    ReadOutcomes = {"whole", "error"}
    WriteOutcomes = {"ok"}
    DamagedPackets <- GarbagePackets
    DamagedAcks <- LyingAcks
    ForgetAfterAck = FALSE
SPECIFICATION Spec
INVARIANTS
    DoneIsSound
    NoChunkIsStranded
    SentIsPrefix
CHECK_DEADLOCK FALSE
