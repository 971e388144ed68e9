\* The demo programs over a link that damages packets.
CONSTANTS
    imgA = imgA
    NoImage = NoImage
    Images <- OneImage
    TotalChunks <- ThreeChunks
    IMAGE_MAX_CHUNKS = 3
    ReadOutcomes = {"whole"}
    WriteOutcomes = {"ok"}
    image = imgA
    IMAGE_MAX_DATA_PER_CYCLE = 2
    IMAGE_ACK_REPEAT_COUNT = 3
    KeepContexts = FALSE
    MaxSenderCrashes = 0
    LinkDamages = {"headers"}
SPECIFICATION Spec
PROPERTIES
    IntactPacketIsStored
