--------------------------- MODULE ListSolutions ---------------------------
(***************************************************************************)
(* The linked lists of src/algorithm_learning_code, with the free_list     *)
(* that main calls on what reverse_list and remove_elements return, and    *)
(* the class LinkedList of linkconvert.cpp.                                *)
(***************************************************************************)
EXTENDS Frame, SequencesExt

CONSTANTS
    Values,     \* of the nodes
    MaxNodes    \* in a list

NULL == 0
dummy == -1     \* the node on the stack of remove_elements and merge_two_lists

Lists == UNION {[1..n -> Values] : n \in 0..MaxNodes}

Ascending(vals) == \A i, j \in 1..Len(vals) : i <= j => vals[i] <= vals[j]

Calls ==
    {[fn |-> f, vals |-> [i \in 1..n |-> i]] : f \in {"reverse_list", "LinkedList"}, n \in 0..MaxNodes}
    \cup {[fn |-> "remove_elements", vals |-> l, val |-> v] : l \in Lists, v \in Values}
    \cup {[fn |-> "merge_two_lists", vals |-> a \o b, first |-> Len(a)] : a, b \in {l \in Lists : Ascending(l)}}
    \cup {[fn |-> "detect_cycle", vals |-> [i \in 1..n |-> i], back |-> b] : n \in 1..MaxNodes, b \in 0..MaxNodes}

HeadOf(from, n) == IF from <= n THEN from ELSE NULL

(* Every node points to the one behind it, and the last one to end. *)
Linked(n, end) == [p \in 1..n |-> IF p = n THEN end ELSE p + 1]

WithDummy(next, head) == [p \in {dummy} \cup DOMAIN next |-> IF p = dummy THEN head ELSE next[p]]

Entry(c) ==
    LET n    == Len(c.vals)
        head == HeadOf(1, n)
    IN  CASE c.fn = "reverse_list" ->
               [at |-> "loop", next |-> Linked(n, NULL), freed |-> {}, prev |-> NULL, cur |-> head]
          [] c.fn = "LinkedList" ->
               [at |-> "push", next |-> <<>>, freed |-> {}, head |-> NULL, tmp |-> NULL]
          [] c.fn = "remove_elements" ->
               [at |-> "loop", next |-> WithDummy(Linked(n, NULL), head), freed |-> {}, prev |-> dummy]
          [] c.fn = "merge_two_lists" ->
               [at |-> "loop", next |-> WithDummy([p \in 1..n |-> IF p \in {c.first, n} THEN NULL ELSE p + 1], NULL), freed |-> {},
                tail |-> dummy, l1 |-> HeadOf(1, c.first), l2 |-> HeadOf(c.first + 1, n)]
          [] c.fn = "detect_cycle" ->
               [at |-> "loop", next |-> Linked(n, IF c.back <= n THEN c.back ELSE NULL), freed |-> {},
                slow |-> head, fast |-> head, p1 |-> NULL]

At(fn, at) == Runs(fn) /\ loc.at = at

(* main prints what the function has returned, node by node; result are    *)
(* the nodes printed.                                                      *)
Prints(next, head) == Goes([at |-> "print", next |-> next, freed |-> loc.freed, head |-> head, cur |-> head, result |-> <<>>])

print_list ==
    /\ ret = <<>>
    /\ loc.at = "print"
    /\ \/ /\ loc.cur # NULL
          /\ Goes([loc EXCEPT !.result = Append(@, loc.cur), !.cur = loc.next[loc.cur]])
       \/ /\ loc.cur = NULL
          /\ IF call.fn \in {"reverse_list", "remove_elements"} THEN Goes([loc EXCEPT !.at = "free"]) ELSE Returns(loc.result)

(* The nodes that came from malloc. *)
free_list ==
    /\ ret = <<>>
    /\ loc.at = "free"
    /\ IF loc.head # NULL
           THEN Goes([loc EXCEPT !.head = loc.next[loc.head], !.freed = @ \cup {loc.head}])
           ELSE Returns(loc.result)

(* One node turned round. *)
TurnsRound == Goes([loc EXCEPT !.next[loc.cur] = loc.prev, !.prev = loc.cur, !.cur = loc.next[loc.cur]])

reverse_list ==
    /\ At("reverse_list", "loop")
    /\ IF loc.cur # NULL THEN TurnsRound ELSE Prints(loc.next, loc.prev)

(* main of linkconvert.cpp pushes the values, one node behind the last:    *)
(* tmp walks there.  Then reserver is called.                              *)
push ==
    /\ At("LinkedList", "push")
    /\ LET newNode == Len(loc.next) + 1
       IN  \/ /\ newNode > Len(call.vals)
              /\ Goes([at |-> "loop", next |-> loc.next, freed |-> {}, prev |-> NULL, cur |-> loc.head])
           \/ /\ newNode <= Len(call.vals)
              /\ \/ /\ loc.head = NULL
                    /\ Goes([loc EXCEPT !.next = <<NULL>>, !.head = newNode])
                 \/ /\ loc.head # NULL /\ loc.tmp = NULL
                    /\ Goes([loc EXCEPT !.tmp = loc.head])
                 \/ /\ loc.tmp # NULL
                    /\ IF loc.next[loc.tmp] # NULL
                           THEN Goes([loc EXCEPT !.tmp = loc.next[@]])
                           ELSE Goes([loc EXCEPT !.next = Append([@ EXCEPT ![loc.tmp] = newNode], NULL), !.tmp = NULL])

(* Its list is printed, and never freed. *)
reserver ==
    /\ At("LinkedList", "loop")
    /\ IF loc.cur # NULL THEN TurnsRound ELSE Prints(loc.next, loc.prev)

(* Mutant: prev goes on behind a node that was removed. *)
StepsOver(node) == Goes([loc EXCEPT !.next[loc.prev] = loc.next[node], !.freed = @ \cup {node},
                                    !.prev = IF loc.next[node] = NULL THEN loc.prev ELSE loc.next[node]])

Unlink(node) == Goes([loc EXCEPT !.next[loc.prev] = loc.next[node], !.freed = @ \cup {node}])

remove_elements ==
    /\ At("remove_elements", "loop")
    /\ LET node == loc.next[loc.prev]
       IN  IF node = NULL
               THEN Prints(loc.next, loc.next[dummy])
               ELSE IF call.vals[node] = call.val THEN Unlink(node) ELSE Goes([loc EXCEPT !.prev = node])

merge_two_lists ==
    /\ At("merge_two_lists", "loop")
    /\ \/ /\ loc.l1 # NULL /\ loc.l2 # NULL
          /\ IF call.vals[loc.l1] <= call.vals[loc.l2]
                 THEN Goes([loc EXCEPT !.next[loc.tail] = loc.l1, !.tail = loc.l1, !.l1 = loc.next[loc.l1]])
                 ELSE Goes([loc EXCEPT !.next[loc.tail] = loc.l2, !.tail = loc.l2, !.l2 = loc.next[loc.l2]])
       \/ /\ loc.l1 = NULL \/ loc.l2 = NULL
          /\ LET next == [loc.next EXCEPT ![loc.tail] = IF loc.l1 # NULL THEN loc.l1 ELSE loc.l2]
             IN  Prints(next, next[dummy])

(* The inner loop runs once p1 is set. *)
detect_cycle ==
    /\ At("detect_cycle", "loop")
    /\ \/ /\ loc.p1 # NULL
          /\ IF loc.p1 = loc.slow
                 THEN Returns(loc.p1)
                 ELSE Goes([loc EXCEPT !.p1 = loc.next[@], !.slow = loc.next[@]])
       \/ /\ loc.p1 = NULL
          /\ LET fast == IF loc.fast = NULL THEN NULL ELSE loc.next[loc.fast]
             IN  IF fast = NULL
                     THEN Returns(NULL)
                     ELSE LET slow2 == loc.next[loc.slow]
                              fast2 == loc.next[fast]
                          IN  Goes([loc EXCEPT !.slow = slow2, !.fast = fast2, !.p1 = IF slow2 = fast2 THEN 1 ELSE NULL])

Next == print_list \/ free_list \/ reverse_list \/ push \/ reserver \/ remove_elements \/ merge_two_lists \/ detect_cycle

Nodes == 1..Len(call.vals)

(* The nodes of the list returned, and which of them come before which:    *)
(* the other way round; in the old order; in the order of their values,    *)
(* the first list before the second one.                                   *)
Kept == {p \in Nodes : call.fn = "remove_elements" => call.vals[p] # call.val}

Comes(p, q) ==
    CASE call.fn \in {"reverse_list", "LinkedList"} -> p > q
      [] call.fn = "remove_elements" -> p < q
      [] call.fn = "merge_two_lists" -> call.vals[p] < call.vals[q] \/ (call.vals[p] = call.vals[q] /\ p < q)

(* And detect_cycle finds the node that the last one points back to. *)
IsResult(r) ==
    IF call.fn = "detect_cycle"
        THEN r = IF call.back <= Len(call.vals) THEN call.back ELSE NULL
        ELSE ToSet(r) = Kept /\ \A i, j \in 1..Len(r) : i < j => Comes(r[i], r[j])

(* The nodes that came from malloc are given back, each once. *)
AllFreed == call.fn \in {"reverse_list", "remove_elements"} => loc.freed = Nodes

(* The nodes that the next step reads. *)
InUse ==
    CASE loc.at = "print" -> {loc.cur}
      [] loc.at = "free" -> {loc.head}
      [] loc.at = "loop" /\ call.fn = "remove_elements" -> {loc.prev, loc.next[loc.prev]}
      [] OTHER -> {}
=============================================================================
