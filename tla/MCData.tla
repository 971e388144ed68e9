------------------------------- MODULE MCData -------------------------------
(***************************************************************************)
(* The data structures and the algorithms, each on its own: a behaviour    *)
(* belongs to one of them, and leaves the variables of the others alone.   *)
(* Init and Next are the bitmaps'.                                         *)
(***************************************************************************)
EXTENDS ImageBitmap, CircularQueue, BinarySearch, MqttTopic

CONSTANTS
    Machines,           \* which of them to run
    MaxLen,             \* characters of a filter, and of a topic
    MAX_SIZE,           \* of the stacks
    Elements, MaxArray, \* of the arrays that need not be sorted
    Numbers,            \* in the expressions
    MaxText,            \* characters between brackets
    MaxNodes,           \* in a list
    ROWS, COLS,
    MaxBytes,           \* of the messages with a checksum
    Lengths,            \* Remaining Lengths
    Sizes               \* of the images

MaxInt == 2147483647
MaxLength == 268435455     \* what four bytes can say
MaxImage == 1048576        \* sender_init takes none that is larger

ASSUME DataAssumption ==
    /\ Elements \subseteq Int /\ Numbers \subseteq Int
    /\ MAX_SIZE \in Nat /\ MaxNodes \in Nat
    /\ MaxArray \in Nat /\ MaxArray < MaxInt
    /\ ROWS \in Nat \ {0} /\ COLS \in Nat \ {0}
    /\ MaxText \in Nat /\ MaxBytes \in Nat
    /\ Lengths \subseteq 0..MaxLength
    /\ Sizes \subseteq 1..MaxImage

VARIABLES
    which,                          \* the machine that runs
    filter, topic,                  \* typed one character after the other
    in, out, moving, popped,        \* StackQueue
    stack, min_data                 \* StackSolutions

SmallNumbers == {-3, 0, 1, 2}

topicVars == <<filter, topic>>
stackQueueVars == <<in, out, moving, popped>>
minVars == <<stack, min_data>>

Stacks == INSTANCE StackQueue WITH answer <- popped
Arr == INSTANCE ArraySolutions WITH Values <- Elements, MaxSize <- MaxArray
Stk == INSTANCE StackSolutions WITH Values <- Elements, MaxSize <- MaxArray, data <- stack
Lst == INSTANCE ListSolutions WITH Values <- Elements
Code == INSTANCE Codes

Functions == {"search", "arrays", "stacks", "lists", "codes"}

NoCall == [fn |-> "none"]

Begins(calls, Entry(_)) == call \in calls /\ loc = Entry(call)

DataInit ==
    /\ which \in Machines
    /\ Init
    /\ filter = <<>> /\ topic = <<>>
    /\ data \in [Cells -> IF which = "circular" THEN Value ELSE {CHOOSE v \in Value : TRUE}]
    /\ front = 0 /\ rear = 0 /\ size = 0 /\ answer = <<>>
    /\ in = <<>> /\ out = <<>> /\ moving = FALSE /\ popped = <<>>
    /\ Stk!min_stack_init
    /\ ret = <<>>
    /\ CASE which = "search" -> Begins(Searches, SearchEntry)
         [] which = "arrays" -> Begins(Arr!Calls, Arr!Entry)
         [] which = "stacks" -> Begins(Stk!Calls, Stk!Entry)
         [] which = "lists"  -> Begins(Lst!Calls, Lst!Entry)
         [] which = "codes"  -> Begins(Code!Calls, Code!Entry)
         [] OTHER            -> call = NoCall /\ loc = <<>>

(* A filter, then a topic, of up to MaxLen characters. *)
TypeFilter(ch) ==
    /\ Len(filter) < MaxLen
    /\ topic = <<>>
    /\ filter' = Append(filter, ch)
    /\ UNCHANGED topic

TypeTopic(ch) ==
    /\ Len(topic) < MaxLen
    /\ topic' = Append(topic, ch)
    /\ UNCHANGED filter

TopicNext ==
    \/ \E ch \in {"a", "b", "/", "+", "#"} : TypeFilter(ch)
    \/ \E ch \in {"a", "b", "/"} : TypeTopic(ch)

Turn(machine) == which = machine /\ UNCHANGED which

(* The step of the function that was called. *)
Call ==
    \/ Turn("search") /\ binary_search
    \/ Turn("arrays") /\ Arr!Next
    \/ Turn("stacks") /\ Stk!Next
    \/ Turn("lists")  /\ Lst!Next
    \/ Turn("codes")  /\ Code!Next

DataNext ==
    \/ Turn("bitmap") /\ Next
       /\ UNCHANGED <<topicVars, ringVars, stackQueueVars, minVars, frameVars>>
    \/ Turn("topic") /\ TopicNext
       /\ UNCHANGED <<vars, ringVars, stackQueueVars, minVars, frameVars>>
    \/ Turn("circular") /\ RingNext
       /\ UNCHANGED <<vars, topicVars, stackQueueVars, minVars, frameVars>>
    \/ Turn("stackqueue") /\ Stacks!Next
       /\ UNCHANGED <<vars, topicVars, ringVars, minVars, frameVars>>
    \/ Turn("minstack") /\ Stk!MinNext
       /\ UNCHANGED <<vars, topicVars, ringVars, stackQueueVars, frameVars>>
    \/ Call
       /\ UNCHANGED <<vars, topicVars, ringVars, stackQueueVars, minVars>>

(* A function that was called goes on. *)
DataSpec ==
    /\ DataInit
    /\ [][DataNext]_<<which, vars, topicVars, ringVars, stackQueueVars, minVars, frameVars>>
    /\ WF_frameVars(Call)

(* "+" matches one level and "#" the remaining ones, empty levels          *)
(* included, which README.md calls legal (topic_filter_match).             *)
MatchesAsDocumented ==
    IsFilter(filter) => (topic_filter_match(filter, topic) <=> MatchesByLevels(filter, topic))

(* So it is for every topic but those that end in two empty levels         *)
(* (topic_filter_match).                                                   *)
MatchesElsewhere == EndsEmpty(Levels(topic)) \/ MatchesAsDocumented

(* Two stacks are a queue, in the middle of a move too (queue_pop of       *)
(* queue_simple_queue_using_stacks/solution.c).                            *)
StacksAreFifo == Stacks!StacksAreFifo

(* min_stack_get_min is the least of the values in the stack, also after   *)
(* the least one has been popped (min_stack_push, min_stack_pop).          *)
MinIsMinimum == Stk!MinIsMinimum

(* What a function returns is what it is for, as its module's IsResult     *)
(* says; and shortest_path needs no more of its queue than there is.       *)
ReturnsAreRight ==
    /\ ret # <<>> =>
         CASE which = "arrays" -> Arr!IsResult(ret[1])
           [] which = "stacks" -> Stk!IsResult(ret[1])
           [] which = "codes"  -> Code!IsResult(ret[1])
           [] OTHER            -> TRUE
    /\ which = "stacks" => Stk!QueueFits

(* The list functions return the right nodes in the right order, read no   *)
(* node after its free, and main's free_list leaves none behind that the   *)
(* function has not freed (remove_elements, reverse_list, free_list).      *)
ListsAreSound ==
    which = "lists" =>
        /\ Lst!InUse \cap loc.freed = {}
        /\ ret # <<>> => Lst!IsResult(ret[1]) /\ Lst!AllFreed

(* Every call returns: no loop runs for ever, none of detect_cycle's over  *)
(* a list that has a cycle either.                                         *)
CallsReturn == which \in Functions ~> ret # <<>>
=============================================================================
