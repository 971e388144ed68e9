\* Two connections and memory for three subscriptions.
CONSTANTS
    Conns = {c1, c2}
    Nodes = {n1, n2, n3}
    Filters <- TwoFilters
    Topics <- ThreeTopics
    SubscribeLists <- Lists
    GRANTED_SIZE = 2
    NULL = NULL
    Unused = Unused
    NoMessage = NoMessage
SPECIFICATION Spec
INVARIANTS
    TypeOK
    NoDanglingSubscription
    ListIsGranted
PROPERTIES
    ImplementsRouting
