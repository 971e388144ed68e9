\* Every small input of every data structure and algorithm.
CONSTANTS
    Machines = {"bitmap", "topic", "circular", "stackqueue", "minstack",
                "search", "arrays", "stacks", "lists", "codes"}
    BitmapSize = 3
    total_chunks = 11
    Probed = {0, 1, 7, 8, 10}
    MaxLen = 4
    Value = {1, 2, 3}
    QUEUE_CAPACITY = 3
    MAX_SIZE = 3
    Keys = {1, 2, 3, 4}
    MaxKeys = 5
    Elements = {0, 1, 2}
    MaxArray = 4
    Numbers <- SmallNumbers
    MaxText = 5
    MaxNodes = 4
    ROWS = 3
    COLS = 3
    MaxBytes = 3
    Lengths = {0, 1, 127, 128, 129, 16383, 16384, 2097151, 2097152, 268435455}
    Sizes = {1, 399, 400, 401, 799, 800, 1048400, 1048576}
SPECIFICATION DataSpec
INVARIANTS
    TypeOK
    MatchesElsewhere
    MinIsMinimum
    SearchIsRight
    ReturnsAreRight
    ListsAreSound
PROPERTIES
    ImplementsSets
    CircularIsFifo
    StacksAreFifo
    CallsReturn
CHECK_DEADLOCK FALSE
