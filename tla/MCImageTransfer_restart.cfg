\* One image of two chunks; both ends may restart at any time.
CONSTANTS
    imgA = imgA
    imgB = imgB
    NoImage = NoImage
    Images <- OneImage
    TotalChunks <- TwoChunks
    IMAGE_MAX_CHUNKS = 2
    ReadOutcomes = {"whole", "error"}
    WriteOutcomes = {"ok", "short", "error"}
    DamagedPackets <- GarbagePackets
    DamagedAcks <- LyingAcks
    ForgetAfterAck = TRUE
SPECIFICATION Spec
INVARIANTS
    TypeOK
    CountIsExact
    AcksAreTrue
    DoneIsSound
    FileIsFaithful
    IInv
PROPERTIES
    ImplementsDelivery
CHECK_DEADLOCK FALSE
