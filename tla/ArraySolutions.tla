--------------------------- MODULE ArraySolutions ---------------------------
(***************************************************************************)
(* The array problems of src/algorithm_learning_code, and the task buffer  *)
(* of src/stl_learning_code/stage_07_projects.                             *)
(***************************************************************************)
EXTENDS Frame, FiniteSets, SequencesExt

CONSTANTS
    Values,     \* of the elements
    MaxSize,    \* of the arrays
    MaxInt      \* INT_MAX

Summands == Values \cap Nat     \* min_sub_array_len takes no negative ones

ArraysOf(S) == UNION {[1..n -> S] : n \in 0..MaxSize}

Calls ==
    {[fn |-> "move_zeroes", nums |-> a] : a \in ArraysOf(Values)}
    \cup {[fn |-> "rotate", nums |-> [i \in 1..n |-> i], k |-> k] : n \in 0..MaxSize, k \in 0..(MaxSize + 1)}
    \cup {[fn |-> "min_sub_array_len", nums |-> a, target |-> t] : a \in ArraysOf(Summands), t \in 1..(MaxSize + 1)}
    \cup {[fn |-> "run", nums |-> u] : u \in ArraysOf(BOOLEAN)}

Entry(c) ==
    CASE c.fn = "move_zeroes"       -> [nums |-> c.nums, read |-> 0, write |-> 0]
      [] c.fn = "rotate"            -> [nums |-> c.nums, range |-> 0, left |-> 0, right |-> 0]
      [] c.fn = "min_sub_array_len" -> [left |-> 0, right |-> -1, sum |-> 0, best |-> MaxInt]
      [] c.fn = "run"               -> [added |-> 0, tasks |-> <<>>, done |-> <<>>]

size == Len(call.nums)

(* The read loop, then the loop that fills up with zeroes. *)
move_zeroes ==
    /\ Runs("move_zeroes")
    /\ \/ /\ loc.read < size
          /\ LET x == loc.nums[loc.read + 1]
             IN  IF x # 0
                     THEN Goes([nums |-> [loc.nums EXCEPT ![loc.write + 1] = x], read |-> loc.read + 1, write |-> loc.write + 1])
                     ELSE Goes([loc EXCEPT !.read = @ + 1])
       \/ /\ loc.read = size
          /\ loc.write < size
          /\ Goes([loc EXCEPT !.nums[loc.write + 1] = 0, !.write = @ + 1])
       \/ /\ loc.read = size
          /\ loc.write = size
          /\ Returns(loc.nums)

(* The arguments of the three calls of reverse_range. *)
Ranges(k) == <<<<0, size - 1>>, <<0, k - 1>>, <<k, size - 1>>>>

(* The next call of reverse_range, or one exchange of the present one. *)
rotate ==
    /\ Runs("rotate")
    /\ \/ size = 0 /\ Returns(loc.nums)
       \/ /\ size > 0
          /\ loc.left < loc.right
          /\ Goes([loc EXCEPT !.nums[loc.left + 1] = loc.nums[loc.right + 1],
                              !.nums[loc.right + 1] = loc.nums[loc.left + 1],
                              !.left = @ + 1,
                              !.right = @ - 1])
       \/ /\ size > 0
          /\ loc.left >= loc.right
          /\ IF loc.range = 3
                 THEN Returns(loc.nums)
                 ELSE LET range == Ranges(call.k % size)[loc.range + 1]
                      IN  Goes([loc EXCEPT !.range = @ + 1, !.left = range[1], !.right = range[2]])

(* The window shrinks while its sum is enough, then right goes on. *)
min_sub_array_len ==
    /\ Runs("min_sub_array_len")
    /\ \/ /\ loc.sum >= call.target
          /\ Goes([loc EXCEPT !.best = IF loc.right - loc.left + 1 < @ THEN loc.right - loc.left + 1 ELSE @,
                              !.sum = @ - call.nums[loc.left + 1],
                              !.left = @ + 1])
       \/ /\ loc.sum < call.target
          /\ loc.right + 1 < size
          /\ Goes([loc EXCEPT !.right = @ + 1, !.sum = @ + call.nums[loc.right + 2]])
       \/ /\ loc.sum < call.target
          /\ loc.right + 1 = size
          /\ Returns(IF loc.best = MaxInt THEN 0 ELSE loc.best)

(* Mutant: urgent tasks are appended as well. *)
Appends(tasks, id, urgent) == Append(tasks, id)

(* PriorityBuffer::add_task *)
add_task(tasks, id, urgent) == IF urgent THEN <<id>> \o tasks ELSE Append(tasks, id)

(* main adds the tasks, then PriorityBuffer::run takes them from the front *)
(* until there are none.                                                   *)
run ==
    /\ Runs("run")
    /\ \/ /\ loc.added < size
          /\ Goes([loc EXCEPT !.tasks = add_task(@, loc.added + 1, call.nums[loc.added + 1]), !.added = @ + 1])
       \/ /\ loc.added = size
          /\ loc.tasks # <<>>
          /\ Goes([loc EXCEPT !.done = Append(@, Head(loc.tasks)), !.tasks = Tail(@)])
       \/ /\ loc.added = size
          /\ loc.tasks = <<>>
          /\ Returns(loc.done)

Next == move_zeroes \/ rotate \/ min_sub_array_len \/ run

NonZero == {i \in 1..size : call.nums[i] # 0}

(* The sum of the first i elements. *)
SumOf[i \in 0..size] == IF i = 0 THEN 0 ELSE SumOf[i - 1] + call.nums[i]

Windows == {w \in (1..size) \X (1..size) : w[1] <= w[2] /\ SumOf[w[2]] - SumOf[w[1] - 1] >= call.target}

(* Which of the tasks 1..size come before which. *)
Before(i, j) ==
    \/ call.nums[i] /\ ~call.nums[j]
    \/ call.nums[i] /\ call.nums[j] /\ i > j
    \/ ~call.nums[i] /\ ~call.nums[j] /\ i < j

(* The results, by what they are for: the elements that are not zero in    *)
(* their order, then zeroes; every element k places further round; the     *)
(* shortest window that sums to the target; urgent tasks first, the last   *)
(* one added first, then the others in their order.                        *)
IsResult(r) ==
    CASE call.fn = "move_zeroes" ->
           /\ Len(r) = size
           /\ \A i \in NonZero : r[Cardinality(NonZero \cap 1..i)] = call.nums[i]
           /\ \A i \in 1..size : i > Cardinality(NonZero) => r[i] = 0
      [] call.fn = "rotate" ->
           Len(r) = size /\ \A i \in 1..size : r[((i - 1 + call.k) % size) + 1] = call.nums[i]
      [] call.fn = "min_sub_array_len" ->
           IF Windows = {} THEN r = 0
           ELSE /\ \E w \in Windows : r = w[2] - w[1] + 1
                /\ \A w \in Windows : r <= w[2] - w[1] + 1
      [] call.fn = "run" ->
           /\ ToSet(r) = 1..size
           /\ Len(r) = size
           /\ \A i, j \in 1..size : i < j => Before(r[i], r[j])
=============================================================================
