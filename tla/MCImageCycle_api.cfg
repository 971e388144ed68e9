\* Contexts kept over the cycles, over a lossy link; the sender may crash and start over.
CONSTANTS
    imgA = imgA
    NoImage = NoImage
    Images <- OneImage
    TotalChunks <- ThreeChunks
    IMAGE_MAX_CHUNKS = 3
    ReadOutcomes = {"whole", "error"}
    WriteOutcomes = {"ok", "error"}
    image = imgA
    IMAGE_MAX_DATA_PER_CYCLE = 2
    IMAGE_ACK_REPEAT_COUNT = 2
    KeepContexts = TRUE
    MaxSenderCrashes = 1
    LinkDamages = {"data"}
SPECIFICATION Spec
INVARIANTS
    TypeOK
    NoDuplicateInCycle
    AckedLossIsResent
    NothingIsResentInVain
PROPERTIES
    HeardThenDone
