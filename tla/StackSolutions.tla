--------------------------- MODULE StackSolutions ---------------------------
(***************************************************************************)
(* The stack, queue and grid problems of src/algorithm_learning_code, and  *)
(* the bracket checker of src/stl_learning_code/stage_07_projects.  Two    *)
(* kinds of brackets stand for the three.  The minimum stack, which lives  *)
(* from call to call, has variables of its own.                            *)
(***************************************************************************)
EXTENDS Frame, FiniteSets, SequencesExt

CONSTANTS
    Values,         \* of the elements
    Numbers,        \* in the expressions
    MaxSize,        \* of the arrays
    MaxText,        \* characters in a text
    ROWS, COLS,     \* of the grids
    MAX_SIZE        \* of the minimum stack

VARIABLES data, min_data    \* of the minimum stack: the cells below top

minVars == <<data, min_data>>

Inputs(S, max) == UNION {[1..n -> S] : n \in 0..max}

Left == {"(", "["}
Right == {")", "]"}
Characters == Left \cup Right \cup {"x"}

is_pair(left, right) == <<left, right>> \in {<<"(", ")">>, <<"[", "]">>}

Operators == {"+", "-", "*", "/"}

Token(n) == [op |-> "number", value |-> n]
Operator(op) == [op |-> op, value |-> 0]

is_operator(token) == token.op \in Operators

(* q is what C makes of a / b: the quotient, rounded towards zero. *)
IsQuotient(a, b, q) ==
    LET Abs(x) == IF x < 0 THEN -x ELSE x
        rest   == a - q * b
    IN  Abs(rest) < Abs(b) /\ (rest = 0 \/ (rest < 0) = (a < 0))

IsValue(left, right, op, v) ==
    CASE op = "+" -> v = left + right
      [] op = "-" -> v = left - right
      [] op = "*" -> v = left * right
      [] op = "/" -> right # 0 /\ IsQuotient(left, right, v)

(* The values that can occur in an expression of two operators. *)
Results == UNION {(-(m * m * m))..(m * m * m) : m \in Numbers}

(* (a op1 b) op2 c, or a op1 (b op2 c), and that it is v. *)
Means(e, v) ==
    IF e.leftFirst
        THEN \E m \in Results : IsValue(e.a, e.b, e.op1, m) /\ IsValue(m, e.c, e.op2, v)
        ELSE \E m \in Results : IsValue(e.b, e.c, e.op2, m) /\ IsValue(e.a, m, e.op1, v)

Expressions ==
    {e \in [leftFirst : BOOLEAN, a : Numbers, b : Numbers, c : Numbers, op1 : Operators, op2 : Operators] :
        \E v \in Results : Means(e, v)}

Tokens(e) ==
    IF e.leftFirst
        THEN <<Token(e.a), Token(e.b), Operator(e.op1), Token(e.c), Operator(e.op2)>>
        ELSE <<Token(e.a), Token(e.b), Token(e.c), Operator(e.op2), Operator(e.op1)>>

Grid == [(0..(ROWS - 1)) \X (0..(COLS - 1)) -> {0, 1}]

Calls ==
    {[fn |-> "is_valid_parentheses", text |-> t] : t \in Inputs(Characters, MaxText)}
    \cup {[fn |-> "eval_rpn", of |-> e] : e \in Expressions}
    \cup {[fn |-> "daily_temperatures", nums |-> a] : a \in Inputs(Values, MaxSize)}
    \cup {[fn |-> "max_sliding_window", nums |-> a, k |-> k] : a \in Inputs(Values, MaxSize), k \in 1..(MaxSize + 1)}
    \cup {[fn |-> "shortest_path", grid |-> g] : g \in Grid}

(* i counts the elements that are done with; a stack or a queue is the     *)
(* sequence of its cells in use.                                           *)
Entry(c) ==
    CASE c.fn = "is_valid_parentheses" -> [i |-> 0, stack |-> <<>>]
      [] c.fn = "eval_rpn"             -> [i |-> 0, stack |-> <<>>]
      [] c.fn = "daily_temperatures"   -> [i |-> 0, stack |-> <<>>, answer |-> <<>>]
      [] c.fn = "max_sliding_window"   -> [i |-> 0, deque |-> <<>>, left |-> FALSE, result |-> <<>>]
      [] c.fn = "shortest_path"        -> [front |-> 0, queue |-> <<>>, visited |-> {}, i |-> 4]

is_valid_parentheses ==
    /\ Runs("is_valid_parentheses")
    /\ IF loc.i = Len(call.text)
           THEN Returns(loc.stack = <<>>)
           ELSE LET ch == call.text[loc.i + 1]
                IN  \/ /\ ch \in Left
                       /\ Goes([i |-> loc.i + 1, stack |-> Append(loc.stack, ch)])
                    \/ /\ ch \in Right
                       /\ IF loc.stack = <<>> \/ ~is_pair(Last(loc.stack), ch)
                              THEN Returns(FALSE)
                              ELSE Goes([i |-> loc.i + 1, stack |-> Front(loc.stack)])
                    \/ /\ ch \notin Left \cup Right
                       /\ Goes([loc EXCEPT !.i = @ + 1])

(* C's / *)
Quotient(a, b) ==
    IF a >= 0 THEN IF b > 0 THEN a \div b ELSE -(a \div (-b))
    ELSE IF b > 0 THEN -((-a) \div b) ELSE (-a) \div (-b)

apply_operator(left, right, op) ==
    CASE op = "+" -> left + right
      [] op = "-" -> left - right
      [] op = "*" -> left * right
      [] op = "/" -> Quotient(left, right)

eval_rpn ==
    /\ Runs("eval_rpn")
    /\ LET tokens == Tokens(call.of)
           token  == tokens[loc.i + 1]
           height == Len(loc.stack)
       IN  \/ /\ loc.i < Len(tokens)
              /\ ~is_operator(token)
              /\ Goes([i |-> loc.i + 1, stack |-> Append(loc.stack, token.value)])
           \/ /\ loc.i < Len(tokens)
              /\ is_operator(token)
              /\ LET v == apply_operator(loc.stack[height - 1], loc.stack[height], token.op)
                 IN  Goes([i |-> loc.i + 1, stack |-> Append(SubSeq(loc.stack, 1, height - 2), v)])
           \/ /\ loc.i = Len(tokens)
              /\ Returns(loc.stack[height])

(* One turn of the while loop, or what follows it. *)
daily_temperatures ==
    /\ Runs("daily_temperatures")
    /\ LET colder == loc.stack # <<>> /\ call.nums[loc.i + 1] > call.nums[Last(loc.stack) + 1]
       IN  IF loc.i = Len(call.nums)
               THEN Returns(loc.answer)
               ELSE \/ /\ colder
                       /\ Goes([loc EXCEPT !.stack = Front(@), !.answer[Last(loc.stack) + 1] = loc.i - Last(loc.stack)])
                    \/ /\ ~colder
                       /\ Goes([i |-> loc.i + 1, stack |-> Append(loc.stack, loc.i), answer |-> Append(loc.answer, 0)])

(* left: the index that has left the window is gone from the deque.  Then  *)
(* one turn of the while loop, or what follows it.                         *)
max_sliding_window ==
    /\ Runs("max_sliding_window")
    /\ LET value(j) == call.nums[j + 1]
       IN  \/ /\ loc.i = Len(call.nums)
              /\ Returns(loc.result)
           \/ /\ loc.i < Len(call.nums)
              /\ ~loc.left
              /\ Goes([loc EXCEPT !.left = TRUE,
                                  !.deque = IF @ # <<>> /\ Head(@) <= loc.i - call.k THEN Tail(@) ELSE @])
           \/ /\ loc.left
              /\ loc.deque # <<>>
              /\ value(Last(loc.deque)) <= value(loc.i)
              /\ Goes([loc EXCEPT !.deque = Front(@)])
           \/ /\ loc.left
              /\ IF loc.deque = <<>> THEN TRUE ELSE value(Last(loc.deque)) > value(loc.i)
              /\ LET deque == Append(loc.deque, loc.i)
                 IN  Goes([i      |-> loc.i + 1,
                           deque  |-> deque,
                           left   |-> FALSE,
                           result |-> IF loc.i >= call.k - 1 THEN Append(loc.result, value(Head(deque))) ELSE loc.result])

Start == <<0, 0>>
Goal == <<ROWS - 1, COLS - 1>>

Free(cell) == cell \in DOMAIN call.grid /\ call.grid[cell] = 0

(* dr and dc *)
Moves == <<<<-1, 0>>, <<1, 0>>, <<0, -1>>, <<0, 1>>>>

(* A cell is taken from the queue, then every turn of the inner loop looks *)
(* at one neighbour, and queues it if it is free and was not visited.      *)
shortest_path ==
    /\ Runs("shortest_path")
    /\ \/ /\ loc.queue = <<>>
          /\ IF Free(Start) /\ Free(Goal)
                 THEN Goes([loc EXCEPT !.queue = <<[at |-> Start, dist |-> 0]>>, !.visited = {Start}])
                 ELSE Returns(-1)
       \/ /\ loc.queue # <<>>
          /\ loc.i = 4
          /\ loc.front = Len(loc.queue)
          /\ Returns(-1)
       \/ /\ loc.i = 4
          /\ loc.front < Len(loc.queue)
          /\ LET cur == loc.queue[loc.front + 1]
             IN  IF cur.at = Goal
                     THEN Returns(cur.dist)
                     ELSE Goes([loc EXCEPT !.front = @ + 1, !.i = 0])
       \/ /\ loc.i < 4
          /\ LET cur  == loc.queue[loc.front]
                 cell == <<cur.at[1] + Moves[loc.i + 1][1], cur.at[2] + Moves[loc.i + 1][2]>>
             IN  IF Free(cell) /\ cell \notin loc.visited
                     THEN Goes([loc EXCEPT !.queue = Append(@, [at |-> cell, dist |-> cur.dist + 1]),
                                           !.visited = @ \cup {cell},
                                           !.i = @ + 1])
                     ELSE Goes([loc EXCEPT !.i = @ + 1])

Next == is_valid_parentheses \/ eval_rpn \/ daily_temperatures \/ max_sliding_window \/ shortest_path

(* How many of the first i characters are in S; and how many brackets are  *)
(* open behind them.                                                       *)
CountOf(S, i) == Cardinality({j \in 1..i : call.text[j] \in S})
Depth(i) == CountOf(Left, i) - CountOf(Right, i)

(* The right bracket p ends what the left bracket q has begun. *)
Ends(q, p) ==
    /\ call.text[q] \in Left /\ call.text[p] \in Right
    /\ Depth(p) = Depth(q) - 1
    /\ \A r \in q..(p - 1) : Depth(r) >= Depth(q)

Matched ==
    /\ Depth(Len(call.text)) = 0
    /\ \A i \in 1..Len(call.text) : Depth(i) >= 0
    /\ \A p \in 1..Len(call.text) : \A q \in 1..(p - 1) : Ends(q, p) => is_pair(call.text[q], call.text[p])

Touches(a, b) == <<a[1] - b[1], a[2] - b[2]>> \in {<<-1, 0>>, <<1, 0>>, <<0, -1>>, <<0, 1>>}

Around(cells) == {cell \in DOMAIN call.grid : Free(cell) /\ \E o \in cells : Touches(cell, o)}

(* The cells that d moves over free cells can reach. *)
Within[d \in 0..(ROWS * COLS)] ==
    IF d = 0 THEN {Start} ELSE Within[d - 1] \cup Around(Within[d - 1])

IsResult(r) ==
    CASE call.fn = "is_valid_parentheses" -> r = Matched
      [] call.fn = "eval_rpn" -> Means(call.of, r)
      [] call.fn = "daily_temperatures" ->
           /\ Len(r) = Len(call.nums)
           /\ \A i \in 1..Len(r) :
                LET warmer == {d \in 1..(Len(r) - i) : call.nums[i + d] > call.nums[i]}
                IN  IF warmer = {} THEN r[i] = 0 ELSE r[i] \in warmer /\ \A d \in warmer : r[i] <= d
      [] call.fn = "max_sliding_window" ->
           /\ Len(r) = IF call.k <= Len(call.nums) THEN Len(call.nums) - call.k + 1 ELSE 0
           /\ \A i \in 1..Len(r) :
                LET window == {call.nums[j] : j \in i..(i + call.k - 1)}
                IN  r[i] \in window /\ \A v \in window : v <= r[i]
      [] call.fn = "shortest_path" ->
           IF Free(Start) /\ Goal \in Within[ROWS * COLS] /\ Free(Goal)
               THEN Goal \in Within[r] /\ (r = 0 \/ Goal \notin Within[r - 1])
               ELSE r = -1

(* Every cell is queued once at most: the queue of ROWS * COLS nodes is    *)
(* enough (shortest_path).                                                 *)
QueueFits == call.fn = "shortest_path" => Len(loc.queue) <= ROWS * COLS

(***************************************************************************)
(* stack_simple_min_stack: beside every value, the least of those up to it.*)
(***************************************************************************)
top == Len(data)

min_stack_init == data = <<>> /\ min_data = <<>>

(* Mutant: the value is compared with the last one. *)
ComparesWithLast(value) == top = 0 \/ value < data[top]

IsLeast(value) == top = 0 \/ value < min_data[top]

(* The callers stay below MAX_SIZE. *)
min_stack_push(value) ==
    /\ top < MAX_SIZE
    /\ data' = Append(data, value)
    /\ min_data' = Append(min_data, IF IsLeast(value) THEN value ELSE min_data[top])

min_stack_pop ==
    IF top > 0
        THEN /\ data' = SubSeq(data, 1, top - 1)
             /\ min_data' = SubSeq(min_data, 1, top - 1)
        ELSE UNCHANGED minVars

MinNext == (\E value \in Values : min_stack_push(value)) \/ min_stack_pop

(* min_stack_get_min is the least of the values in the stack, also after   *)
(* the least one has been popped.                                          *)
MinIsMinimum ==
    top > 0 =>
        /\ \E i \in 1..top : data[i] = min_data[top]
        /\ \A i \in 1..top : min_data[top] <= data[i]
=============================================================================
