\* A recorder whose filter keeps a packet back, and whose fwrite may fail.
CONSTANTS
    THREAD_COUNT = 3
    LOOP_COUNT = 2
    None = None
    Bodies = {0, 2}
    RawSize = 3
    Frames = 2
    Interval = 2
    MaxTime = 6
    Wait = 2
    Devices = 3
    Limits = {0, 2}
    OldFrames = {0, 4}
    MaxVideo = 3
    MaxHeld = 1
    Runs = 3
    Talkers = {c1, c2}
    Mutes = {m1}
SPECIFICATION ProgramSpec
INVARIANTS
    SavedIsInFile
CHECK_DEADLOCK FALSE
