\* The sender's disk may fail in the middle of a chunk.
CONSTANTS
    imgA = imgA
    imgB = imgB
    NoImage = NoImage
    Images <- OneImage
    TotalChunks <- TwoChunks
    IMAGE_MAX_CHUNKS = 2
    ReadOutcomes = {"whole", "prefix", "none", "error"}
    WriteOutcomes = {"ok", "short", "error"}
    DamagedPackets <- GarbagePackets
    DamagedAcks <- LyingAcks
    ForgetAfterAck = TRUE
SPECIFICATION Spec
INVARIANTS
    CompleteMeansWhole
CHECK_DEADLOCK FALSE
