--------------------------- MODULE AlgorithmProofs ---------------------------
(***************************************************************************)
(* What the list and the array functions of src/algorithm_learning_code    *)
(* and the task buffer of src/stl_learning_code return, for every input.   *)
(***************************************************************************)
EXTENDS DataProofs

-----------------------------------------------------------------------------
(* A linked list of the nodes S, in the order R: next leads from every one *)
(* to the one that follows it, and from the last one to NULL, which is 0.  *)

TotalOrder(R, S) ==
    /\ 0 \notin S
    /\ \A x \in S : <<x, x>> \notin R
    /\ \A x, y \in S : x = y \/ <<x, y>> \in R \/ <<y, x>> \in R
    /\ \A x, y, z \in S : <<x, y>> \in R /\ <<y, z>> \in R => <<x, z>> \in R

Follows(R, S, p, q) ==
    IF q = 0 THEN \A x \in S : <<p, x>> \notin R
    ELSE q \in S /\ <<p, q>> \in R /\ \A x \in S : ~(<<p, x>> \in R /\ <<x, q>> \in R)

First(R, S, h) ==
    IF h = 0 THEN S = {} ELSE h \in S /\ \A x \in S : x = h \/ <<h, x>> \in R

(* result are the nodes before cur. *)
Printed(R, S, cur, result) ==
    /\ cur \in S \cup {0}
    /\ result \in Seq(S)
    /\ \A i1, i2 \in 1..Len(result) : i1 < i2 => <<result[i1], result[i2]>> \in R
    /\ \A x \in S : (\E i1 \in 1..Len(result) : result[i1] = x) <=> cur = 0 \/ <<x, cur>> \in R

(* The nodes from h on are not freed yet. *)
FreedBefore(R, S, h, freed) ==
    /\ h \in S \cup {0}
    /\ \A x \in S : x \in freed <=> h = 0 \/ <<x, h>> \in R

LEMMA NothingPrinted ==
    ASSUME NEW R, NEW S, NEW h, TotalOrder(R, S), First(R, S, h)
    PROVE  Printed(R, S, h, <<>>)
<1>1. Len(<<>>) = 0 /\ <<>> \in Seq(S)
  OBVIOUS
<1>2. \A x \in S : ~(h = 0 \/ <<x, h>> \in R)
  BY DEF TotalOrder, First
<1> QED
  BY <1>1, <1>2 DEF First, Printed

(* The nodes before the one that follows cur are cur and those before it.  *)
LEMMA BeforeNext ==
    ASSUME NEW R, NEW S, NEW cur \in S, NEW q, NEW x \in S, TotalOrder(R, S), Follows(R, S, cur, q)
    PROVE  /\ q \in S \cup {0}
           /\ q = 0 \/ <<x, q>> \in R <=> x = cur \/ <<x, cur>> \in R
BY DEF TotalOrder, Follows

LEMMA PrintsNode ==
    ASSUME NEW R, NEW S, NEW cur \in S, NEW q, NEW result,
           TotalOrder(R, S), Follows(R, S, cur, q), Printed(R, S, cur, result)
    PROVE  Printed(R, S, q, Append(result, cur))
<1> DEFINE longer == Append(result, cur)
<1>1. PICK n \in Nat : n = Len(result) /\ result \in Seq(S)
  BY DEF Printed
<1>2. /\ longer \in Seq(S) /\ Len(longer) = n + 1
      /\ \A j \in 1..n : longer[j] = result[j]
      /\ longer[n + 1] = cur
  BY <1>1, OneMore
<1>3. \A j \in 1..n : result[j] \in S /\ <<result[j], cur>> \in R
  <2> TAKE j \in 1..n
  <2>1. result[j] \in S
    BY <1>1, ElementOfSeq
  <2> QED
    BY <1>1, <2>1 DEF Printed, TotalOrder
<1> HIDE DEF longer
<1>4. \A i1, i2 \in 1..(n + 1) : i1 < i2 => <<longer[i1], longer[i2]>> \in R
  <2> SUFFICES ASSUME NEW i1 \in 1..(n + 1), NEW i2 \in 1..(n + 1), i1 < i2
               PROVE  <<longer[i1], longer[i2]>> \in R
    OBVIOUS
  <2>1. i1 \in 1..n
    BY <1>1
  <2>2. CASE i2 = n + 1
    BY <1>2, <1>3, <2>1, <2>2
  <2>3. CASE i2 # n + 1
    <3>1. i2 \in 1..n
      BY <1>1, <2>3
    <3> QED
      BY <1>1, <1>2, <2>1, <3>1 DEF Printed
  <2> QED
    BY <2>2, <2>3
<1>5. \A x \in S : (\E i1 \in 1..(n + 1) : longer[i1] = x) <=> x = cur \/ <<x, cur>> \in R
  <2> TAKE x \in S
  <2>1. (\E i1 \in 1..(n + 1) : longer[i1] = x) <=> x = cur \/ \E i1 \in 1..n : result[i1] = x
    <3>1. \A i1 \in 1..(n + 1) : i1 \in 1..n \/ i1 = n + 1
      BY <1>1
    <3>2. n + 1 \in 1..(n + 1) /\ \A i1 \in 1..n : i1 \in 1..(n + 1)
      BY <1>1
    <3> QED
      BY <1>2, <3>1, <3>2
  <2>2. cur # 0
    BY DEF TotalOrder
  <2> QED
    BY <1>1, <2>1, <2>2 DEF Printed
<1>6. q \in S \cup {0} /\ \A x \in S : (\E i1 \in 1..(n + 1) : longer[i1] = x) <=> q = 0 \/ <<x, q>> \in R
  <2>1. q \in S \cup {0}
    BY DEF Follows
  <2>2. \A x \in S : q = 0 \/ <<x, q>> \in R <=> x = cur \/ <<x, cur>> \in R
    BY BeforeNext
  <2> QED
    BY <1>5, <2>1, <2>2
<1>7. Printed(R, S, q, longer)
  BY <1>2, <1>4, <1>6 DEF Printed
<1> QED
  BY <1>7 DEF longer

LEMMA FreesNode ==
    ASSUME NEW R, NEW S, NEW h \in S, NEW q, NEW freed,
           TotalOrder(R, S), Follows(R, S, h, q), FreedBefore(R, S, h, freed)
    PROVE  FreedBefore(R, S, q, freed \cup {h})
<1>1. \A x \in S : q = 0 \/ <<x, q>> \in R <=> x = h \/ <<x, h>> \in R
  BY BeforeNext
<1>2. q \in S \cup {0} /\ h # 0
  BY DEF Follows, TotalOrder
<1> QED
  BY <1>1, <1>2 DEF FreedBefore

LEMMA NothingFreed ==
    ASSUME NEW R, NEW S, NEW h, NEW freed, TotalOrder(R, S), First(R, S, h), freed \cap S = {}
    PROVE  FreedBefore(R, S, h, freed)
BY DEF First, FreedBefore, TotalOrder

-----------------------------------------------------------------------------
(* linked_list_simple_reverse and linkconvert.cpp: prev nodes have been    *)
(* turned round.                                                           *)

Turning(n, next, prev, cur) ==
    /\ next \in [1..n -> 0..n]
    /\ prev \in 0..n
    /\ cur = IF prev < n THEN prev + 1 ELSE 0
    /\ \A p \in 1..n : next[p] = IF p <= prev THEN p - 1 ELSE IF p < n THEN p + 1 ELSE 0

Downwards(n) == {e \in (1..n) \X (1..n) : e[1] > e[2]}

LEMMA DownIsAnOrder ==
    ASSUME NEW n \in Nat
    PROVE  /\ \A p, q \in 1..n : <<p, q>> \in Downwards(n) <=> p > q
           /\ TotalOrder(Downwards(n), 1..n)
<1>1. \A p, q \in 1..n : <<p, q>> \in Downwards(n) <=> p > q
  BY DEF Downwards
<1> QED
  BY <1>1 DEF TotalOrder

LEMMA TurnsOne ==
    ASSUME NEW n \in Nat, NEW next, NEW prev, NEW cur, Turning(n, next, prev, cur), cur # 0
    PROVE  Turning(n, [next EXCEPT ![cur] = prev], cur, next[cur])
<1>1. prev \in Nat /\ prev < n /\ cur = prev + 1 /\ cur \in 1..n
  BY DEF Turning
<1>2. next[cur] = IF cur < n THEN cur + 1 ELSE 0
  BY <1>1 DEF Turning
<1>3. [next EXCEPT ![cur] = prev] \in [1..n -> 0..n]
  BY <1>1 DEF Turning
<1>4. ASSUME NEW p \in 1..n
      PROVE  [next EXCEPT ![cur] = prev][p] = IF p <= cur THEN p - 1 ELSE IF p < n THEN p + 1 ELSE 0
  <2>1. CASE p = cur
    BY <1>1, <2>1 DEF Turning
  <2>2. CASE p # cur
    <3>1. [next EXCEPT ![cur] = prev][p] = next[p] /\ (p <= cur <=> p <= prev)
      BY <1>1, <2>2 DEF Turning
    <3> QED
      BY <3>1 DEF Turning
  <2> QED
    BY <2>1, <2>2
<1> QED
  BY <1>1, <1>2, <1>3, <1>4 DEF Turning

LEMMA AllTurned ==
    ASSUME NEW n \in Nat, NEW next, NEW prev, NEW cur, Turning(n, next, prev, cur), cur = 0
    PROVE  /\ First(Downwards(n), 1..n, prev)
           /\ \A p \in 1..n : Follows(Downwards(n), 1..n, p, next[p])
<1>1. prev = n /\ \A p \in 1..n : next[p] = p - 1
  BY DEF Turning
<1>2. \A p, q \in 1..n : <<p, q>> \in Downwards(n) <=> p > q
  BY DownIsAnOrder
<1>3. First(Downwards(n), 1..n, n)
  BY <1>2 DEF First
<1>4. ASSUME NEW p \in 1..n PROVE Follows(Downwards(n), 1..n, p, p - 1)
  <2>1. CASE p = 1
    BY <1>2, <2>1 DEF Follows
  <2>2. CASE p # 1
    <3>1. p - 1 \in 1..n /\ p - 1 # 0 /\ p > p - 1
      BY <2>2
    <3>2. \A x \in 1..n : ~(p > x /\ x > p - 1)
      OBVIOUS
    <3> QED
      BY <1>2, <3>1, <3>2 DEF Follows
  <2> QED
    BY <2>1, <2>2
<1> QED
  BY <1>1, <1>3, <1>4

(* m values have been pushed, and tmp walks to the last one.               *)
Pushing(n, m, next, head, tmp) ==
    /\ next \in Seq(Nat) /\ Len(next) = m /\ m \in 0..n
    /\ head = IF m = 0 THEN 0 ELSE 1
    /\ tmp \in 0..m
    /\ \A p \in 1..m : next[p] = IF p < m THEN p + 1 ELSE 0

LEMMA PushesFirst ==
    ASSUME NEW n \in Nat, NEW m, NEW next, NEW tmp, Pushing(n, m, next, 0, tmp), m < n
    PROVE  m = 0 /\ tmp = 0 /\ Pushing(n, 1, <<0>>, 1, 0)
<1>1. m = 0 /\ tmp = 0 /\ 1 \in 0..n
  BY DEF Pushing
<1>2. <<0>> \in Seq(Nat) /\ Len(<<0>>) = 1 /\ <<0>>[1] = 0
  OBVIOUS
<1>3. \A p \in 1..1 : p = 1
  OBVIOUS
<1> QED
  BY <1>1, <1>2, <1>3 DEF Pushing

LEMMA PushesLast ==
    ASSUME NEW n \in Nat, NEW m \in Nat, NEW next, NEW head, NEW tmp,
           Pushing(n, m, next, head, tmp), tmp # 0, next[tmp] = 0, m < n
    PROVE  Pushing(n, m + 1, Append([next EXCEPT ![tmp] = m + 1], 0), head, 0)
<1>1. next \in Seq(Nat) /\ Len(next) = m /\ tmp \in 1..m /\ m \in 1..m /\ m \in Nat /\ m + 1 \in Nat
  BY DEF Pushing
<1>2. tmp = m
  BY <1>1 DEF Pushing
<1> DEFINE linked == [next EXCEPT ![tmp] = m + 1]
<1>3. linked \in Seq(Nat) /\ Len(linked) = m /\ \A p \in 1..m : linked[p] = IF p = m THEN m + 1 ELSE next[p]
  BY <1>1, <1>2, ExceptSeq
<1> HIDE DEF linked
<1>4. /\ Append(linked, 0) \in Seq(Nat) /\ Len(Append(linked, 0)) = m + 1
      /\ \A p \in 1..m : Append(linked, 0)[p] = linked[p]
      /\ Append(linked, 0)[m + 1] = 0
  BY <1>1, <1>3, OneMore
<1>5. ASSUME NEW p \in 1..(m + 1) PROVE Append(linked, 0)[p] = IF p < m + 1 THEN p + 1 ELSE 0
  <2>1. CASE p = m + 1
    BY <1>4, <2>1
  <2>2. CASE p # m + 1
    <3>1. p \in 1..m /\ p < m + 1
      BY <1>1, <2>2
    <3>2. next[p] = IF p < m THEN p + 1 ELSE 0
      BY <3>1 DEF Pushing
    <3>3. linked[p] = p + 1
      BY <1>3, <3>1, <3>2
    <3> QED
      BY <1>4, <3>1, <3>3
  <2> QED
    BY <2>1, <2>2
<1>6. head = 1 /\ m + 1 # 0 /\ 0 \in 0..(m + 1) /\ m + 1 \in 0..n
  BY <1>1 DEF Pushing
<1> QED
  BY <1>4, <1>5, <1>6 DEF Pushing, linked

LEMMA AllPushed ==
    ASSUME NEW n \in Nat, NEW m \in Nat, NEW next, NEW head, NEW tmp, Pushing(n, m, next, head, tmp), m >= n
    PROVE  Turning(n, next, 0, head)
<1>1. m = n /\ next \in [1..n -> Nat]
  BY DEF Pushing
<1>2. \A p \in 1..n : next[p] \in 0..n
  BY <1>1 DEF Pushing
<1>3. next \in [1..n -> 0..n]
  BY <1>1, <1>2
<1> QED
  BY <1>1, <1>3 DEF Pushing, Turning

-----------------------------------------------------------------------------
(* linked_list_simple_delete_node: the dummy is -1, and the list are the   *)
(* nodes that have not been freed.                                         *)

Upwards(n) == {e \in (-1..n) \X (-1..n) : e[1] < e[2]}

Removing(kept, n, next, freed, prev) ==
    LET list == (1..n) \ freed
    IN  /\ freed \subseteq (1..n) \ kept
        /\ DOMAIN next = {-1} \cup 1..n
        /\ prev \in list \cup {-1}
        /\ \A x \in list : x <= prev => x \in kept
        /\ \A p \in list \cup {-1} : next[p] \in 0..n /\ Follows(Upwards(n), list, p, next[p])

LEMMA UpIsAnOrder ==
    ASSUME NEW n \in Nat, NEW S \in SUBSET (1..n)
    PROVE  /\ \A p, q \in -1..n : <<p, q>> \in Upwards(n) <=> p < q
           /\ TotalOrder(Upwards(n), S)
<1>1. \A p, q \in -1..n : <<p, q>> \in Upwards(n) <=> p < q
  BY DEF Upwards
<1>2. \A p \in S : p \in 1..n /\ p \in -1..n /\ p # 0
  OBVIOUS
<1> QED
  BY <1>1, <1>2 DEF TotalOrder

(* What Follows says of numbers.                                           *)
LEMMA FollowsUp ==
    ASSUME NEW n \in Nat, NEW S \in SUBSET (1..n), NEW p \in -1..n, NEW q \in 0..n
    PROVE  Follows(Upwards(n), S, p, q) <=>
               IF q = 0 THEN \A x \in S : x <= p ELSE q \in S /\ p < q /\ \A x \in S : x <= p \/ q <= x
<1>1. \A x \in S : x \in -1..n /\ x \in Int
  OBVIOUS
<1>2. \A x \in S : <<p, x>> \in Upwards(n) <=> p < x
  BY <1>1, UpIsAnOrder
<1>3. \A x \in S : <<x, q>> \in Upwards(n) <=> x < q
  BY <1>1, UpIsAnOrder
<1>4. \A x \in S : (x <= p <=> ~(p < x)) /\ (q <= x <=> ~(x < q))
  BY <1>1
<1>5. <<p, q>> \in Upwards(n) <=> p < q
  BY UpIsAnOrder
<1> QED
  BY <1>2, <1>3, <1>4, <1>5 DEF Follows

LEMMA RemovingStarts ==
    ASSUME NEW n \in Nat, NEW kept, NEW next,
           next = Lst!WithDummy(Lst!Linked(n, 0), Lst!HeadOf(1, n))
    PROVE  Removing(kept, n, next, {}, -1)
<1>1. /\ DOMAIN next = {-1} \cup 1..n
      /\ next[-1] = IF 1 <= n THEN 1 ELSE 0
      /\ \A p \in 1..n : next[p] = IF p = n THEN 0 ELSE p + 1
  BY DEF Lst!WithDummy, Lst!Linked, Lst!HeadOf, Lst!dummy, Lst!NULL
<1>2. (1..n) \ {} = 1..n
  OBVIOUS
<1>3. next[-1] \in 0..n /\ Follows(Upwards(n), 1..n, -1, next[-1])
  BY <1>1, FollowsUp
<1>4. ASSUME NEW p \in 1..n PROVE next[p] \in 0..n /\ Follows(Upwards(n), 1..n, p, next[p])
  <2>1. next[p] = IF p = n THEN 0 ELSE p + 1
    BY <1>1
  <2>2. next[p] \in 0..n /\ p \in -1..n
    BY <2>1
  <2>3. IF next[p] = 0 THEN \A x \in 1..n : x <= p
        ELSE next[p] \in 1..n /\ p < next[p] /\ \A x \in 1..n : x <= p \/ next[p] <= x
    BY <2>1
  <2> QED
    BY <2>2, <2>3, FollowsUp
<1> QED
  BY <1>1, <1>2, <1>3, <1>4 DEF Removing

LEMMA KeepsNode ==
    ASSUME NEW n \in Nat, NEW kept, NEW next, NEW freed, NEW prev, NEW node,
           Removing(kept, n, next, freed, prev), node = next[prev], node # 0, node \in kept
    PROVE  Removing(kept, n, next, freed, node)
<1> PICK list \in SUBSET (1..n) : list = (1..n) \ freed
  OBVIOUS
<1>1. prev \in list \cup {-1} /\ prev \in -1..n /\ node \in 0..n /\ Follows(Upwards(n), list, prev, node)
  BY DEF Removing
<1>2. node \in list /\ prev < node /\ \A x \in list : x <= prev \/ node <= x
  BY <1>1, FollowsUp
<1>3. \A x \in list : x <= node => x \in kept
  <2> SUFFICES ASSUME NEW x \in list, x <= node PROVE x \in kept
    OBVIOUS
  <2>1. x <= prev \/ x = node
    BY <1>2
  <2> QED
    BY <2>1 DEF Removing
<1> QED
  BY <1>2, <1>3 DEF Removing

LEMMA UnlinksNode ==
    ASSUME NEW n \in Nat, NEW kept \in SUBSET (1..n), NEW next, NEW freed, NEW prev, NEW node,
           Removing(kept, n, next, freed, prev), node = next[prev], node # 0, node \notin kept
    PROVE  Removing(kept, n, [next EXCEPT ![prev] = next[node]], freed \cup {node}, prev)
<1> PICK list \in SUBSET (1..n), shorter \in SUBSET (1..n), after \in {next[node]} :
           list = (1..n) \ freed /\ shorter = (1..n) \ (freed \cup {node})
  OBVIOUS
<1> DEFINE linked == [next EXCEPT ![prev] = after]
<1>1. prev \in list \cup {-1} /\ prev \in -1..n /\ node \in 0..n /\ Follows(Upwards(n), list, prev, node)
  BY DEF Removing
<1>2. node \in list /\ prev < node /\ \A x \in list : x <= prev \/ node <= x
  BY <1>1, FollowsUp
<1>3. after \in 0..n /\ Follows(Upwards(n), list, node, after) /\ node \in -1..n
  BY <1>2 DEF Removing
<1>4. IF after = 0 THEN \A x \in list : x <= node ELSE after \in list /\ node < after /\ \A x \in list : x <= node \/ after <= x
  BY <1>3, FollowsUp
<1>5. shorter = list \ {node} /\ shorter \in SUBSET (1..n)
  OBVIOUS
<1>6. Follows(Upwards(n), shorter, prev, after)
  <2>1. CASE after = 0
    <3>1. \A x \in shorter : x <= prev
      BY <1>2, <1>4, <1>5, <2>1
    <3> QED
      BY <1>1, <1>3, <1>5, <2>1, <3>1, FollowsUp
  <2>2. CASE after # 0
    <3>1. after \in shorter /\ prev < after
      BY <1>1, <1>2, <1>4, <1>5, <2>2
    <3>2. \A x \in shorter : x <= prev \/ after <= x
      BY <1>2, <1>4, <1>5, <2>2
    <3> QED
      BY <1>1, <1>3, <1>5, <2>2, <3>1, <3>2, FollowsUp
  <2> QED
    BY <2>1, <2>2
<1>7. ASSUME NEW p \in shorter \cup {-1}, p # prev
      PROVE  next[p] \in 0..n /\ Follows(Upwards(n), shorter, p, next[p])
  <2>1. p \in list \cup {-1} /\ p \in -1..n
    BY <1>5
  <2>2. PICK q \in 0..n : q = next[p] /\ Follows(Upwards(n), list, p, q)
    BY <2>1 DEF Removing
  <2>3. IF q = 0 THEN \A x \in list : x <= p
        ELSE q \in list /\ p < q /\ \A x \in list : x <= p \/ q <= x
    BY <2>1, <2>2, FollowsUp
  <2>4. q # node
    <3> SUFFICES ASSUME q = node PROVE FALSE
      OBVIOUS
    <3>1. p < node /\ \A x \in list : x <= p \/ node <= x
      BY <1>1, <1>2, <2>3
    <3>2. prev = -1 \/ prev <= p
      BY <1>1, <1>2, <3>1
    <3>3. p = -1 \/ p <= prev
      BY <1>2, <2>1, <3>1
    <3> QED
      BY <1>1, <1>7, <2>1, <3>2, <3>3
  <2>5. q # 0 => q \in shorter
    BY <1>5, <2>3, <2>4
  <2>6. IF q = 0 THEN \A x \in shorter : x <= p
        ELSE q \in shorter /\ p < q /\ \A x \in shorter : x <= p \/ q <= x
    BY <1>5, <2>3, <2>5
  <2> QED
    <3>1. Follows(Upwards(n), shorter, p, q)
      BY <2>1, <2>6, FollowsUp
    <3> QED
      BY <2>2, <3>1
<1>8. /\ DOMAIN linked = {-1} \cup 1..n
      /\ linked[prev] = after
      /\ \A p \in shorter \cup {-1} : p # prev => linked[p] = next[p]
  BY <1>1, <1>5 DEF Removing
<1>9. \A p \in shorter \cup {-1} : linked[p] \in 0..n /\ Follows(Upwards(n), shorter, p, linked[p])
  BY <1>3, <1>6, <1>7, <1>8
<1>10. freed \cup {node} \subseteq (1..n) \ kept
  BY <1>2 DEF Removing
<1>11. prev \in shorter \cup {-1} /\ \A x \in shorter : x <= prev => x \in kept
  BY <1>1, <1>2, <1>5 DEF Removing
<1> HIDE DEF linked
<1>12. linked = [next EXCEPT ![prev] = next[node]] /\ shorter = (1..n) \ (freed \cup {node})
  BY DEF linked
<1> QED
  BY <1>8, <1>9, <1>10, <1>11, <1>12 DEF Removing

LEMMA AllRemoved ==
    ASSUME NEW n \in Nat, NEW kept \in SUBSET (1..n), NEW next, NEW freed, NEW prev,
           Removing(kept, n, next, freed, prev), next[prev] = 0
    PROVE  /\ freed = (1..n) \ kept
           /\ First(Upwards(n), kept, next[-1])
           /\ \A p \in kept : Follows(Upwards(n), kept, p, next[p])
<1> PICK list \in SUBSET (1..n) : list = (1..n) \ freed
  OBVIOUS
<1>1. prev \in -1..n /\ Follows(Upwards(n), list, prev, 0)
  BY DEF Removing
<1>2. \A x \in list : x <= prev
  BY <1>1, FollowsUp
<1>3. list = kept
  BY <1>2 DEF Removing
<1>4. next[-1] \in 0..n /\ Follows(Upwards(n), kept, -1, next[-1])
  BY <1>3 DEF Removing
<1>5. IF next[-1] = 0 THEN \A x \in kept : x <= -1 ELSE next[-1] \in kept /\ \A x \in kept : x <= -1 \/ next[-1] <= x
  BY <1>4, FollowsUp
<1>6. First(Upwards(n), kept, next[-1])
  <2>1. CASE next[-1] = 0
    <3>1. kept = {}
      BY <1>5, <2>1
    <3> QED
      BY <2>1, <3>1 DEF First
  <2>2. CASE next[-1] # 0
    <3>1. \A x \in kept : x = next[-1] \/ next[-1] < x
      BY <1>4, <1>5, <2>2
    <3>2. \A x \in kept : x \in -1..n /\ next[-1] \in -1..n
      BY <1>4
    <3> QED
      BY <1>5, <2>2, <3>1, <3>2, UpIsAnOrder DEF First
  <2> QED
    BY <2>1, <2>2
<1>7. freed = (1..n) \ kept
  BY <1>3 DEF Removing
<1> QED
  BY <1>3, <1>6, <1>7 DEF Removing

-----------------------------------------------------------------------------
(* linked_list_medium_merge_two_lists *)

(* From the dummy, next leads through the nodes of done, up to tail.       *)
LinkedUpTo(R, done, next, tail) ==
    /\ IF tail = -1 THEN done = {} ELSE tail \in done /\ next[-1] # 0 /\ First(R, done, next[-1])
    /\ \A x \in done : x = tail \/ (<<x, tail>> \in R /\ Follows(R, done, x, next[x]))

LEMMA LinksNode ==
    ASSUME NEW R, NEW done, NEW next, NEW tail, NEW node,
           LinkedUpTo(R, done, next, tail), TotalOrder(R, done \cup {node}),
           node \notin done, node # -1, -1 \notin done, {tail, -1} \subseteq DOMAIN next, done \subseteq DOMAIN next,
           \A x \in done : <<x, node>> \in R
    PROVE  LinkedUpTo(R, done \cup {node}, [next EXCEPT ![tail] = node], node)
<1> PICK linked : linked = [next EXCEPT ![tail] = node]
  OBVIOUS
<1>1. linked[tail] = node /\ \A x \in done \cup {-1} : x # tail => linked[x] = next[x]
  OBVIOUS
<1>2. node # 0 /\ 0 \notin done
  BY DEF TotalOrder
<1>3. linked[-1] # 0 /\ First(R, done \cup {node}, linked[-1])
  <2>1. CASE tail = -1
    BY <1>1, <1>2, <2>1 DEF LinkedUpTo, First
  <2>2. CASE tail # -1
    BY <1>1, <1>2, <2>2 DEF LinkedUpTo, First
  <2> QED
    BY <2>1, <2>2
<1>4. ASSUME NEW x \in done PROVE Follows(R, done \cup {node}, x, linked[x])
  <2>1. CASE x = tail
    <3>1. linked[x] = node /\ <<x, node>> \in R
      BY <1>1, <2>1
    <3>2. \A y \in done \cup {node} : ~(<<x, y>> \in R /\ <<y, node>> \in R)
      <4> SUFFICES ASSUME NEW y \in done \cup {node}, <<x, y>> \in R, <<y, node>> \in R PROVE FALSE
        OBVIOUS
      <4>1. y \in done
        BY DEF TotalOrder
      <4>2. y = x \/ <<y, x>> \in R
        BY <2>1, <4>1 DEF LinkedUpTo
      <4> QED
        BY <4>1, <4>2 DEF TotalOrder
    <3> QED
      BY <1>2, <3>1, <3>2 DEF Follows
  <2>2. CASE x # tail
    <3>1. linked[x] = next[x] /\ <<x, tail>> \in R /\ Follows(R, done, x, next[x])
      BY <1>1, <2>2 DEF LinkedUpTo
    <3>2. next[x] # 0 /\ next[x] \in done
      <4>1. tail \in done
        BY DEF LinkedUpTo
      <4> QED
        BY <1>2, <3>1, <4>1 DEF Follows
    <3>3. ~(<<x, node>> \in R /\ <<node, next[x]>> \in R)
      BY <3>2 DEF TotalOrder
    <3> QED
      BY <3>1, <3>2, <3>3 DEF Follows
  <2> QED
    BY <2>1, <2>2
<1>5. LinkedUpTo(R, done \cup {node}, linked, node)
  <2>1. \A x \in done \cup {node} : x = node \/ (<<x, node>> \in R /\ Follows(R, done \cup {node}, x, linked[x]))
    BY <1>4
  <2> QED
    BY <1>3, <2>1 DEF LinkedUpTo
<1> QED
  BY <1>5

LEMMA LinksRest ==
    ASSUME NEW R, NEW done, NEW rest, NEW next, NEW tail, NEW h,
           LinkedUpTo(R, done, next, tail), TotalOrder(R, done \cup rest), done \cap rest = {},
           -1 \notin done \cup rest, {tail, -1} \subseteq DOMAIN next, done \cup rest \subseteq DOMAIN next,
           \A x \in done, y \in rest : <<x, y>> \in R,
           First(R, rest, h), \A y \in rest : Follows(R, rest, y, next[y]),
           NEW linked, linked = [next EXCEPT ![tail] = h], NEW all, all = done \cup rest
    PROVE  /\ First(R, all, linked[-1])
           /\ \A x \in all : Follows(R, all, x, linked[x])
<1>1. linked[tail] = h /\ \A x \in all \cup {-1} : x # tail => linked[x] = next[x]
  OBVIOUS
<1>2. 0 \notin all
  BY DEF TotalOrder
<1>3. First(R, all, linked[-1])
  <2>1. CASE tail = -1
    <3>1. linked[-1] = h /\ all = rest
      BY <1>1, <2>1 DEF LinkedUpTo
    <3> QED
      BY <3>1
  <2>2. CASE tail # -1
    BY <1>1, <1>2, <2>2 DEF LinkedUpTo, First
  <2> QED
    BY <2>1, <2>2
<1>4. ASSUME NEW x \in done PROVE Follows(R, all, x, linked[x])
  <2>1. CASE x = tail
    <3>1. linked[x] = h
      BY <1>1, <2>1
    <3>2. \A y \in done : y = x \/ <<y, x>> \in R
      BY <2>1 DEF LinkedUpTo
    <3>3. \A y \in done : <<x, y>> \notin R
      BY <3>2 DEF TotalOrder
    <3>4. CASE h = 0
      BY <3>1, <3>3, <3>4 DEF First, Follows
    <3>5. CASE h # 0
      <4>1. h \in rest /\ <<x, h>> \in R /\ \A y \in rest : y = h \/ <<h, y>> \in R
        BY <3>5 DEF First
      <4>2. \A y \in rest : <<y, h>> \notin R
        BY <4>1 DEF TotalOrder
      <4> QED
        BY <3>1, <3>3, <3>5, <4>1, <4>2 DEF Follows
    <3> QED
      BY <3>4, <3>5
  <2>2. CASE x # tail
    <3>1. linked[x] = next[x] /\ <<x, tail>> \in R /\ Follows(R, done, x, next[x])
      BY <1>1, <2>2 DEF LinkedUpTo
    <3>2. next[x] # 0 /\ next[x] \in done
      <4>1. tail \in done
        BY DEF LinkedUpTo
      <4> QED
        BY <1>2, <3>1, <4>1 DEF Follows
    <3>3. \A y \in rest : ~(<<x, y>> \in R /\ <<y, next[x]>> \in R)
      BY <3>2 DEF TotalOrder
    <3> QED
      BY <3>1, <3>2, <3>3 DEF Follows
  <2> QED
    BY <2>1, <2>2
<1>5. ASSUME NEW x \in rest PROVE Follows(R, all, x, linked[x])
  <2>1. x # tail /\ linked[x] = next[x]
    BY <1>1 DEF LinkedUpTo
  <2>2. \A y \in done : <<x, y>> \notin R
    BY DEF TotalOrder
  <2> QED
    BY <2>1, <2>2 DEF Follows
<1> QED
  BY <1>3, <1>4, <1>5

MergeOrder(vals, n) ==
    {e \in (1..n) \X (1..n) : vals[e[1]] < vals[e[2]] \/ (vals[e[1]] = vals[e[2]] /\ e[1] < e[2])}

(* Two ascending lists, the first f nodes and the others.                  *)
TwoLists(vals, n, f) ==
    /\ \A x \in 1..n : vals[x] \in Int
    /\ f \in 0..n
    /\ \A x, y \in 1..n : x <= y /\ (y <= f \/ f < x) => vals[x] <= vals[y]

Done(n, f, l1, l2) == {x \in 1..n : IF x <= f THEN l1 = 0 \/ x < l1 ELSE l2 = 0 \/ x < l2}

Merging(R, n, f, done, next, tail, l1, l2) ==
    /\ l1 \in 0..f /\ l2 \in {0} \cup (f + 1)..n
    /\ DOMAIN next = {-1} \cup 1..n
    /\ tail \in done \cup {-1}
    /\ LinkedUpTo(R, done, next, tail)
    /\ \A x \in done, y \in (1..n) \ done : <<x, y>> \in R
    /\ \A y \in (1..n) \ done : next[y] = IF y \in {f, n} THEN 0 ELSE y + 1

LEMMA MergeIsAnOrder ==
    ASSUME NEW n \in Nat, NEW vals, \A x \in 1..n : vals[x] \in Int, NEW S \in SUBSET (1..n)
    PROVE  /\ \A p, q \in 1..n : <<p, q>> \in MergeOrder(vals, n) <=> vals[p] < vals[q] \/ (vals[p] = vals[q] /\ p < q)
           /\ TotalOrder(MergeOrder(vals, n), S)
<1>1. \A p, q \in 1..n : <<p, q>> \in MergeOrder(vals, n) <=> vals[p] < vals[q] \/ (vals[p] = vals[q] /\ p < q)
  BY DEF MergeOrder
<1>2. \A p \in S : p \in 1..n /\ p \in Int /\ p # 0 /\ vals[p] \in Int
  OBVIOUS
<1>3. \A p \in S : <<p, p>> \notin MergeOrder(vals, n)
  BY <1>1, <1>2
<1>4. \A p, q \in S : p = q \/ <<p, q>> \in MergeOrder(vals, n) \/ <<q, p>> \in MergeOrder(vals, n)
  <2> TAKE p, q \in S
  <2>1. p \in 1..n /\ q \in 1..n /\ vals[p] \in Int /\ vals[q] \in Int
    BY <1>2
  <2> QED
    BY <1>1, <2>1
<1>5. ASSUME NEW p \in S, NEW q \in S, NEW r \in S, <<p, q>> \in MergeOrder(vals, n), <<q, r>> \in MergeOrder(vals, n)
      PROVE  <<p, r>> \in MergeOrder(vals, n)
  <2>1. vals[p] < vals[q] \/ (vals[p] = vals[q] /\ p < q)
    BY <1>1, <1>2, <1>5
  <2>2. vals[q] < vals[r] \/ (vals[q] = vals[r] /\ q < r)
    BY <1>1, <1>2, <1>5
  <2>3. vals[p] < vals[r] \/ (vals[p] = vals[r] /\ p < r)
    BY <1>2, <2>1, <2>2
  <2> QED
    BY <1>1, <1>2, <2>3
<1> QED
  BY <1>1, <1>2, <1>3, <1>4, <1>5 DEF TotalOrder

LEMMA MergingStarts ==
    ASSUME NEW R, NEW n \in Nat, NEW f \in 0..n, NEW next,
           next = Lst!WithDummy([p \in 1..n |-> IF p \in {f, n} THEN 0 ELSE p + 1], 0)
    PROVE  /\ Done(n, f, Lst!HeadOf(1, f), Lst!HeadOf(f + 1, n)) = {}
           /\ Merging(R, n, f, {}, next, -1, Lst!HeadOf(1, f), Lst!HeadOf(f + 1, n))
<1>1. /\ DOMAIN next = {-1} \cup 1..n
      /\ \A y \in 1..n : next[y] = IF y \in {f, n} THEN 0 ELSE y + 1
  BY DEF Lst!WithDummy, Lst!dummy
<1>2. /\ Lst!HeadOf(1, f) = IF f = 0 THEN 0 ELSE 1
      /\ Lst!HeadOf(f + 1, n) = IF f = n THEN 0 ELSE f + 1
  BY DEF Lst!HeadOf, Lst!NULL
<1>3. Done(n, f, Lst!HeadOf(1, f), Lst!HeadOf(f + 1, n)) = {}
  BY <1>2 DEF Done
<1>4. Lst!HeadOf(1, f) \in 0..f /\ Lst!HeadOf(f + 1, n) \in {0} \cup (f + 1)..n
  BY <1>2
<1> QED
  BY <1>1, <1>3, <1>4 DEF Merging, LinkedUpTo

(* The head of either list is done with next.                              *)
LEMMA OneMoreDone ==
    ASSUME NEW n \in Nat, NEW f \in 0..n, NEW l1 \in 0..f, NEW l2 \in {0} \cup (f + 1)..n
    PROVE  /\ l1 # 0 => /\ l1 \in 1..n /\ l1 \notin Done(n, f, l1, l2)
                        /\ Done(n, f, IF l1 \in {f, n} THEN 0 ELSE l1 + 1, l2) = Done(n, f, l1, l2) \cup {l1}
                        /\ (IF l1 \in {f, n} THEN 0 ELSE l1 + 1) \in 0..f
           /\ l2 # 0 => /\ l2 \in 1..n /\ l2 \notin Done(n, f, l1, l2)
                        /\ Done(n, f, l1, IF l2 \in {f, n} THEN 0 ELSE l2 + 1) = Done(n, f, l1, l2) \cup {l2}
                        /\ (IF l2 \in {f, n} THEN 0 ELSE l2 + 1) \in {0} \cup (f + 1)..n
<1>1. ASSUME l1 # 0
      PROVE  /\ l1 \in 1..n /\ l1 \notin Done(n, f, l1, l2)
             /\ Done(n, f, IF l1 \in {f, n} THEN 0 ELSE l1 + 1, l2) = Done(n, f, l1, l2) \cup {l1}
             /\ (IF l1 \in {f, n} THEN 0 ELSE l1 + 1) \in 0..f
  BY <1>1 DEF Done
<1>2. ASSUME l2 # 0
      PROVE  /\ l2 \in 1..n /\ l2 \notin Done(n, f, l1, l2)
             /\ Done(n, f, l1, IF l2 \in {f, n} THEN 0 ELSE l2 + 1) = Done(n, f, l1, l2) \cup {l2}
             /\ (IF l2 \in {f, n} THEN 0 ELSE l2 + 1) \in {0} \cup (f + 1)..n
  BY <1>2 DEF Done
<1> QED
  BY <1>1, <1>2

LEMMA TakesNode ==
    ASSUME NEW R, NEW n \in Nat, NEW f \in 0..n, NEW done \in SUBSET (1..n), NEW next, NEW tail, NEW l1, NEW l2,
           NEW node \in 1..n, NEW m1 \in 0..f, NEW m2 \in {0} \cup (f + 1)..n,
           Merging(R, n, f, done, next, tail, l1, l2), TotalOrder(R, 1..n),
           node \notin done, \A y \in (1..n) \ (done \cup {node}) : <<node, y>> \in R
    PROVE  Merging(R, n, f, done \cup {node}, [next EXCEPT ![tail] = node], node, m1, m2)
<1> PICK linked, more : linked = [next EXCEPT ![tail] = node] /\ more = done \cup {node}
  OBVIOUS
<1>1. LinkedUpTo(R, more, linked, node)
  <2>1. TotalOrder(R, done \cup {node})
    BY DEF TotalOrder
  <2>2. -1 \notin done /\ node # -1 /\ {tail, -1} \subseteq DOMAIN next /\ done \subseteq DOMAIN next
    BY DEF Merging
  <2>3. LinkedUpTo(R, done, next, tail) /\ \A x \in done : <<x, node>> \in R
    BY DEF Merging
  <2> QED
    BY <2>1, <2>2, <2>3, LinksNode
<1>2. DOMAIN linked = {-1} \cup 1..n
  BY DEF Merging
<1>3. \A y \in (1..n) \ more : y # tail /\ linked[y] = IF y \in {f, n} THEN 0 ELSE y + 1
  BY DEF Merging
<1>4. \A x \in more, y \in (1..n) \ more : <<x, y>> \in R
  BY DEF Merging
<1>5. Merging(R, n, f, more, linked, node, m1, m2)
  BY <1>1, <1>2, <1>3, <1>4 DEF Merging
<1> QED
  BY <1>5


(* What is not done begins at the heads.                                   *)
LEMMA HeadsComeNext ==
    ASSUME NEW vals, NEW n \in Nat, NEW f, TwoLists(vals, n, f),
           NEW l1 \in 0..f, NEW l2 \in {0} \cup (f + 1)..n, l1 # 0, l2 # 0
    PROVE  /\ vals[l1] <= vals[l2] =>
                  \A y \in (1..n) \ (Done(n, f, l1, l2) \cup {l1}) : <<l1, y>> \in MergeOrder(vals, n)
           /\ ~(vals[l1] <= vals[l2]) =>
                  \A y \in (1..n) \ (Done(n, f, l1, l2) \cup {l2}) : <<l2, y>> \in MergeOrder(vals, n)
<1>1. /\ l1 \in 1..n /\ l2 \in 1..n /\ l1 <= f /\ f < l2 /\ f \in 0..n
      /\ \A x \in 1..n : vals[x] \in Int
      /\ \A x, y \in 1..n : x <= y /\ (y <= f \/ f < x) => vals[x] <= vals[y]
  BY DEF TwoLists
<1>2. \A p, q \in 1..n : <<p, q>> \in MergeOrder(vals, n) <=> vals[p] < vals[q] \/ (vals[p] = vals[q] /\ p < q)
  BY <1>1, MergeIsAnOrder
<1>3. ASSUME NEW y \in 1..n, y \notin Done(n, f, l1, l2)
      PROVE  IF y <= f THEN l1 <= y /\ vals[l1] <= vals[y] ELSE l2 <= y /\ vals[l2] <= vals[y]
  BY <1>1, <1>3 DEF Done
<1>4. ASSUME vals[l1] <= vals[l2], NEW y \in 1..n, y \notin Done(n, f, l1, l2), y # l1
      PROVE  <<l1, y>> \in MergeOrder(vals, n)
  <2>1. l1 < y /\ vals[l1] <= vals[y]
    BY <1>1, <1>3, <1>4
  <2> QED
    BY <1>1, <1>2, <2>1
<1>5. ASSUME ~(vals[l1] <= vals[l2]), NEW y \in 1..n, y \notin Done(n, f, l1, l2), y # l2
      PROVE  <<l2, y>> \in MergeOrder(vals, n)
  <2>1. CASE y <= f
    <3>1. vals[l2] < vals[y]
      BY <1>1, <1>3, <1>5, <2>1
    <3> QED
      BY <1>1, <1>2, <3>1
  <2>2. CASE ~(y <= f)
    <3>1. l2 < y /\ vals[l2] <= vals[y]
      BY <1>1, <1>3, <1>5, <2>2
    <3> QED
      BY <1>1, <1>2, <3>1
  <2> QED
    BY <2>1, <2>2
<1> QED
  BY <1>4, <1>5

(* When one list is done, the rest of the other is one list.               *)
LEMMA RestIsAList ==
    ASSUME NEW vals, NEW n \in Nat, NEW f, TwoLists(vals, n, f), NEW rest, NEW next,
           NEW l1 \in 0..f, NEW l2 \in {0} \cup (f + 1)..n, l1 = 0 \/ l2 = 0,
           rest = (1..n) \ Done(n, f, l1, l2),
           \A y \in rest : next[y] = IF y \in {f, n} THEN 0 ELSE y + 1
    PROVE  /\ First(MergeOrder(vals, n), rest, IF l1 # 0 THEN l1 ELSE l2)
           /\ \A y \in rest : Follows(MergeOrder(vals, n), rest, y, next[y])
<1> PICK h, last : h = (IF l1 # 0 THEN l1 ELSE l2) /\ last = IF l1 # 0 THEN f ELSE n
  OBVIOUS
<1>1. /\ f \in 0..n /\ f \in Int
      /\ \A x \in 1..n : vals[x] \in Int
      /\ \A x, y \in 1..n : x <= y /\ (y <= f \/ f < x) => vals[x] <= vals[y]
  BY DEF TwoLists
<1>2. h \in 0..n /\ last \in 0..n /\ rest = IF h = 0 THEN {} ELSE h..last
  <2>1. CASE l1 # 0
    BY <1>1, <2>1 DEF Done
  <2>2. CASE l1 = 0 /\ l2 # 0
    BY <1>1, <2>2 DEF Done
  <2>3. CASE l1 = 0 /\ l2 = 0
    BY <1>1, <2>3 DEF Done
  <2> QED
    BY <2>1, <2>2, <2>3
<1>3. h # 0 => h \in rest /\ last \in rest
  BY <1>1, <1>2
<1>4. \A y \in rest : y \in 1..n /\ h <= y /\ y <= last /\ next[y] = IF y = last THEN 0 ELSE y + 1
  <2>1. CASE l1 # 0
    BY <1>1, <1>2, <2>1
  <2>2. CASE l1 = 0
    BY <1>1, <1>2, <2>2
  <2> QED
    BY <2>1, <2>2
<1>5. \A x, y \in rest : x <= y => vals[x] <= vals[y]
  <2>1. CASE l1 # 0
    BY <1>1, <1>4, <2>1
  <2>2. CASE l1 = 0
    BY <1>1, <1>2, <1>4, <2>2
  <2> QED
    BY <2>1, <2>2
<1>6. \A p, q \in 1..n : <<p, q>> \in MergeOrder(vals, n) <=> vals[p] < vals[q] \/ (vals[p] = vals[q] /\ p < q)
  BY <1>1, MergeIsAnOrder
<1>7. \A x, y \in rest : <<x, y>> \in MergeOrder(vals, n) <=> x < y
  <2> TAKE x, y \in rest
  <2>1. x \in 1..n /\ y \in 1..n /\ vals[x] \in Int /\ vals[y] \in Int
    BY <1>1, <1>4
  <2>2. (x <= y => vals[x] <= vals[y]) /\ (y <= x => vals[y] <= vals[x])
    BY <1>5
  <2> QED
    BY <1>6, <2>1, <2>2
<1>8. First(MergeOrder(vals, n), rest, h)
  BY <1>2, <1>3, <1>4, <1>7 DEF First
<1>9. ASSUME NEW y \in rest PROVE Follows(MergeOrder(vals, n), rest, y, next[y])
  <2>1. CASE y = last
    BY <1>4, <1>7, <2>1 DEF Follows
  <2>2. CASE y # last
    <3>1. next[y] = y + 1 /\ y + 1 # 0 /\ y + 1 \in rest /\ y < y + 1
      BY <1>2, <1>4, <2>2
    <3>2. \A x \in rest : ~(y < x /\ x < y + 1)
      BY <1>4
    <3> QED
      BY <1>7, <3>1, <3>2 DEF Follows
  <2> QED
    BY <2>1, <2>2
<1> QED
  BY <1>8, <1>9

-----------------------------------------------------------------------------
(* linked_list_medium_cycle_entry: the last one of n nodes points back to  *)
(* the node b, so that a round is ring = n - b + 1 nodes long.             *)

(* k steps from the head lead to p.                                        *)
Reached(n, b, ring, k, p) ==
    /\ p \in 1..n
    /\ k = p - 1 \/ (b <= p /\ \E q \in Nat \ {0} : k = p - 1 + q * ring)

LEMMA TimesIsLarger ==
    ASSUME NEW ring \in Nat \ {0}, NEW q \in Int
    PROVE  /\ q * ring \in Int
           /\ q > 0 => q * ring >= ring
           /\ q <= 0 => q * ring <= 0
OBVIOUS

LEMMA ReachesNext ==
    ASSUME NEW n \in Nat, NEW b \in 1..n, NEW ring, ring = n - b + 1, NEW k \in Nat, NEW p,
           Reached(n, b, ring, k, p), NEW k1, k1 = k + 1, NEW p1, p1 = IF p = n THEN b ELSE p + 1
    PROVE  Reached(n, b, ring, k1, p1)
<1>1. p \in 1..n /\ p1 \in 1..n /\ ring \in Nat \ {0}
  BY DEF Reached
<1>2. CASE p # n /\ k = p - 1
  BY <1>1, <1>2 DEF Reached
<1>3. CASE p = n /\ k = p - 1
  <2>1. k1 = b - 1 + 1 * ring /\ 1 \in Nat \ {0}
    BY <1>1, <1>3
  <2> QED
    BY <1>1, <1>3, <2>1 DEF Reached
<1>4. CASE k # p - 1
  <2>1. PICK q \in Nat \ {0} : b <= p /\ k = p - 1 + q * ring
    BY <1>4 DEF Reached
  <2>2. (q + 1) * ring = q * ring + ring /\ q * ring \in Int
    BY <1>1, TimesIsLarger
  <2>3. CASE p # n
    <3>1. k1 = p1 - 1 + q * ring /\ b <= p1
      BY <1>1, <2>1, <2>2, <2>3
    <3> QED
      BY <1>1, <3>1 DEF Reached
  <2>4. CASE p = n
    <3>1. k1 = p1 - 1 + (q + 1) * ring /\ b <= p1 /\ q + 1 \in Nat \ {0}
      BY <1>1, <2>1, <2>2, <2>4
    <3> QED
      BY <1>1, <3>1 DEF Reached
  <2> QED
    BY <2>3, <2>4
<1> QED
  BY <1>2, <1>3, <1>4

Rounds(ring, d) == \E m \in Nat \ {0} : d = m * ring

(* slow and fast, which goes twice as far, meet after whole rounds.        *)
LEMMA MeetAfterRounds ==
    ASSUME NEW n \in Nat, NEW b \in 1..n, NEW ring \in Nat, ring = n - b + 1, NEW k \in Nat \ {0}, NEW p,
           Reached(n, b, ring, k, p), NEW twice, twice = 2 * k, Reached(n, b, ring, twice, p)
    PROVE  b <= p /\ Rounds(ring, k)
<1>1. p \in 1..n /\ ring \in Nat \ {0}
  BY DEF Reached
<1>2. CASE k = p - 1
  <2>1. PICK q \in Nat \ {0} : b <= p /\ twice = p - 1 + q * ring
    BY <1>1, <1>2 DEF Reached
  <2>2. k = q * ring
    BY <1>1, <1>2, <2>1, TimesIsLarger
  <2> QED
    BY <2>1, <2>2 DEF Rounds
<1>3. CASE k # p - 1
  <2>1. PICK q1 \in Nat \ {0} : b <= p /\ k = p - 1 + q1 * ring
    BY <1>3 DEF Reached
  <2>2. twice # p - 1
    BY <1>1, <2>1, TimesIsLarger
  <2>3. PICK q2 \in Nat \ {0} : twice = p - 1 + q2 * ring
    BY <2>2 DEF Reached
  <2>4. (q2 - q1) * ring = q2 * ring - q1 * ring
    OBVIOUS
  <2>5. k = (q2 - q1) * ring
    BY <1>1, <2>1, <2>3, <2>4, TimesIsLarger
  <2>6. q2 - q1 > 0
    BY <1>1, <2>5, TimesIsLarger
  <2>7. PICK m \in Nat \ {0} : m = q2 - q1
    BY <2>6
  <2> QED
    BY <2>1, <2>5, <2>7 DEF Rounds
<1> QED
  BY <1>2, <1>3

(* p1, behind by those rounds, meets slow where the cycle is entered.      *)
LEMMA MeetAtEntry ==
    ASSUME NEW n \in Nat, NEW b \in 1..n, NEW ring \in Nat, ring = n - b + 1,
           NEW k \in 0..(b - 1), NEW k2 \in Nat, Rounds(ring, k2 - k), NEW p1, NEW slow,
           Reached(n, b, ring, k, p1), Reached(n, b, ring, k2, slow), b <= slow
    PROVE  IF p1 = slow THEN p1 = b ELSE k + 1 \in 0..(b - 1)
<1> PICK m \in Nat \ {0} : k2 - k = m * ring
  BY DEF Rounds
<1>1. /\ p1 \in 1..n /\ slow \in 1..n /\ ring \in Nat \ {0}
      /\ m * ring \in Int /\ m * ring >= ring /\ k2 = k + m * ring
  BY TimesIsLarger DEF Reached
<1>2. p1 = k + 1
  <2> SUFFICES ASSUME NEW q \in Nat \ {0}, b <= p1, k = p1 - 1 + q * ring PROVE FALSE
    BY <1>1 DEF Reached
  <2>1. q * ring \in Int /\ q * ring >= ring
    BY <1>1, TimesIsLarger
  <2> QED
    BY <1>1, <2>1
<1>3. \E q \in Nat : k2 = slow - 1 + q * ring
  <2>1. CASE k2 = slow - 1
    <3>1. 0 * ring = 0
      BY <1>1
    <3>2. k2 = slow - 1 + 0 * ring
      BY <1>1, <2>1, <3>1
    <3> QED
      BY <3>2
  <2>2. CASE k2 # slow - 1
    BY <2>2 DEF Reached
  <2> QED
    BY <2>1, <2>2
<1>4. CASE p1 = slow
  BY <1>1, <1>2, <1>3, <1>4
<1>5. CASE p1 # slow /\ k = b - 1
  <2>1. PICK q \in Nat : k2 = slow - 1 + q * ring
    BY <1>3
  <2>2. (m - q) * ring = m * ring - q * ring /\ q * ring \in Int
    BY <1>1, TimesIsLarger
  <2>3. slow - b = (m - q) * ring /\ slow - b < ring /\ 0 <= slow - b
    BY <1>1, <1>3, <1>5, <2>1, <2>2
  <2>4. ~(m - q > 0)
    BY <1>1, <2>3, TimesIsLarger
  <2>5. slow = b
    BY <1>1, <2>3, <2>4, TimesIsLarger
  <2> QED
    BY <1>2, <1>5, <2>5
<1> QED
  BY <1>1, <1>4, <1>5

Gaining(n, b, ring, slow, fast) ==
    \E k, k2 \in Nat : k2 = 2 * k /\ Reached(n, b, ring, k, slow) /\ Reached(n, b, ring, k2, fast)

Chasing(n, b, ring, slow, fast, p1) ==
    IF p1 = 0 THEN Gaining(n, b, ring, slow, fast)
    ELSE \E k \in 0..(b - 1), k2 \in Nat :
             Reached(n, b, ring, k, p1) /\ Reached(n, b, ring, k2, slow) /\ b <= slow /\ Rounds(ring, k2 - k)

LEMMA ChasesOn ==
    ASSUME NEW n \in Nat, NEW b \in 1..n, NEW ring \in Nat, ring = n - b + 1, NEW next,
           \A p \in 1..n : next[p] = IF p = n THEN b ELSE p + 1,
           NEW slow, NEW fast, Gaining(n, b, ring, slow, fast),
           NEW slow2, NEW fast2, slow2 = next[slow], fast2 = next[next[fast]]
    PROVE  /\ Gaining(n, b, ring, slow2, fast2)
           /\ slow2 = fast2 => Chasing(n, b, ring, slow2, fast2, 1)
<1>1. /\ Gaining(n, b, ring, slow2, fast2)
      /\ slow2 = fast2 => Chasing(n, b, ring, slow2, fast2, 1)
  <2>1. PICK k, k2 \in Nat : k2 = 2 * k /\ Reached(n, b, ring, k, slow) /\ Reached(n, b, ring, k2, fast)
    BY DEF Gaining
  <2>2. PICK k1 \in Nat \ {0}, k3 \in Nat, k4 \in Nat : k1 = k + 1 /\ k3 = k2 + 1 /\ k4 = k3 + 1 /\ k4 = 2 * k1
    BY <2>1
  <2>3. PICK fast1 : slow2 = next[slow] /\ fast1 = next[fast] /\ fast2 = next[fast1]
    OBVIOUS
  <2>4. slow \in 1..n /\ fast \in 1..n
    BY <2>1 DEF Reached
  <2>5. Reached(n, b, ring, k1, slow2)
    BY <2>1, <2>2, <2>3, <2>4, ReachesNext
  <2>6. Reached(n, b, ring, k3, fast1)
    BY <2>1, <2>2, <2>3, <2>4, ReachesNext
  <2>7. fast1 \in 1..n
    BY <2>6 DEF Reached
  <2>8. Reached(n, b, ring, k4, fast2)
    BY <2>2, <2>3, <2>6, <2>7, ReachesNext
  <2>9. ASSUME slow2 = fast2 PROVE Chasing(n, b, ring, slow2, fast2, 1)
    <3>1. b <= slow2 /\ Rounds(ring, k1)
      BY <2>2, <2>5, <2>8, <2>9, MeetAfterRounds
    <3>2. Reached(n, b, ring, 0, 1) /\ 0 \in 0..(b - 1)
      BY DEF Reached
    <3>3. k1 - 0 = k1
      OBVIOUS
    <3>4. Chasing(n, b, ring, slow2, fast2, 1)
      BY <2>5, <3>1, <3>2, <3>3 DEF Chasing
    <3> QED
      BY <3>4
  <2> QED
    BY <2>2, <2>3, <2>4, <2>5, <2>7, <2>8, <2>9 DEF Gaining
<1> QED
  BY <1>1

LEMMA WalksOn ==
    ASSUME NEW n \in Nat, NEW b \in 1..n, NEW ring \in Nat, ring = n - b + 1, NEW next,
           \A p \in 1..n : next[p] = IF p = n THEN b ELSE p + 1,
           NEW slow, NEW fast, NEW p1, p1 # 0, Chasing(n, b, ring, slow, fast, p1)
    PROVE  IF p1 = slow THEN p1 = b ELSE Chasing(n, b, ring, next[slow], fast, next[p1])
<1>2. ASSUME p1 # slow
      PROVE  Chasing(n, b, ring, next[slow], fast, next[p1])
  <2>1. PICK k \in 0..(b - 1), k2 \in Nat :
            Reached(n, b, ring, k, p1) /\ Reached(n, b, ring, k2, slow) /\ b <= slow /\ Rounds(ring, k2 - k)
    BY DEF Chasing
  <2>2. PICK k1 \in Nat, k3 \in Nat : k1 = k + 1 /\ k3 = k2 + 1
    OBVIOUS
  <2>3. k1 \in 0..(b - 1)
    BY <1>2, <2>1, <2>2, MeetAtEntry
  <2>4. slow \in 1..n /\ p1 \in 1..n
    BY <2>1 DEF Reached
  <2>5. Reached(n, b, ring, k1, next[p1])
    <3>1. next[p1] = (IF p1 = n THEN b ELSE p1 + 1) /\ k \in Nat /\ k1 = k + 1 /\ Reached(n, b, ring, k, p1)
      BY <2>1, <2>2, <2>4
    <3> QED
      BY <3>1, ReachesNext
  <2>6. Reached(n, b, ring, k3, next[slow])
    <3>1. next[slow] = (IF slow = n THEN b ELSE slow + 1) /\ k3 = k2 + 1 /\ Reached(n, b, ring, k2, slow)
      BY <2>1, <2>2, <2>4
    <3> QED
      BY <3>1, ReachesNext
  <2>7. k3 - k1 = k2 - k
    BY <2>2
  <2>8. next[p1] # 0 /\ b <= next[slow]
    BY <2>1, <2>4
  <2> QED
    BY <2>1, <2>3, <2>5, <2>6, <2>7, <2>8 DEF Chasing
<1>3. ASSUME p1 = slow
      PROVE  p1 = b
  <2>1. PICK k \in 0..(b - 1), k2 \in Nat :
            Reached(n, b, ring, k, p1) /\ Reached(n, b, ring, k2, slow) /\ b <= slow /\ Rounds(ring, k2 - k)
    BY DEF Chasing
  <2> QED
    BY <1>3, <2>1, MeetAtEntry
<1> QED
  BY <1>2, <1>3


(* Without a cycle fast is at the node 2 * slow - 1, or at the end.        *)
Straight(n, slow, fast, p1) ==
    p1 = 0 /\ slow \in 1..n /\ fast \in 0..n /\ (fast = 0 \/ fast + 1 = 2 * slow)

LEMMA StraightOn ==
    ASSUME NEW n \in Nat, NEW next, \A p \in 1..n : next[p] = IF p = n THEN 0 ELSE p + 1,
           NEW slow, NEW fast, NEW p1, Straight(n, slow, fast, p1), fast # 0, next[fast] # 0
    PROVE  LET slow2 == next[slow]
               fast2 == next[next[fast]]
           IN  slow2 # fast2 /\ Straight(n, slow2, fast2, 0)
<1>1. slow \in 1..n /\ fast \in 1..n /\ fast + 1 = 2 * slow
  BY DEF Straight
<1>2. fast < n /\ next[fast] = fast + 1
  BY <1>1
<1>3. slow < n /\ next[slow] = slow + 1
  BY <1>1, <1>2
<1>4. next[next[fast]] = IF fast + 1 = n THEN 0 ELSE fast + 2
  <2>1. PICK f \in 1..n : f = fast + 1
    BY <1>1, <1>2
  <2>2. next[f] = IF f = n THEN 0 ELSE f + 1
    OBVIOUS
  <2> QED
    BY <1>1, <1>2, <2>1, <2>2
<1> QED
  BY <1>1, <1>2, <1>3, <1>4 DEF Straight

-----------------------------------------------------------------------------
(* The lists, all together                                                 *)

nodes == Len(call.vals)

ListOrder ==
    CASE call.fn \in {"reverse_list", "LinkedList"} -> Downwards(nodes)
      [] call.fn = "remove_elements" -> Upwards(nodes)
      [] call.fn = "merge_two_lists" -> MergeOrder(call.vals, nodes)

ListCallOK ==
    /\ call.fn \in {"reverse_list", "LinkedList", "remove_elements", "merge_two_lists", "detect_cycle"}
    /\ call.vals \in Seq(Int)
    /\ call.fn = "merge_two_lists" => TwoLists(call.vals, nodes, call.first)
    /\ call.fn = "detect_cycle" => nodes > 0 /\ call.back \in Nat

PushOK ==
    /\ loc = [at |-> "push", next |-> loc.next, freed |-> {}, head |-> loc.head, tmp |-> loc.tmp]
    /\ Pushing(nodes, Len(loc.next), loc.next, loc.head, loc.tmp)
    /\ ret = <<>>

TurnOK ==
    /\ loc = [at |-> "loop", next |-> loc.next, freed |-> {}, prev |-> loc.prev, cur |-> loc.cur]
    /\ Turning(nodes, loc.next, loc.prev, loc.cur)
    /\ ret = <<>>

RemoveOK ==
    /\ loc = [at |-> "loop", next |-> loc.next, freed |-> loc.freed, prev |-> loc.prev]
    /\ Removing(Lst!Kept, nodes, loc.next, loc.freed, loc.prev)
    /\ ret = <<>>

MergeOK ==
    /\ loc = [at |-> "loop", next |-> loc.next, freed |-> {}, tail |-> loc.tail, l1 |-> loc.l1, l2 |-> loc.l2]
    /\ Merging(ListOrder, nodes, call.first, Done(nodes, call.first, loc.l1, loc.l2), loc.next, loc.tail, loc.l1, loc.l2)
    /\ ret = <<>>

PrintOK ==
    /\ loc = [at |-> loc.at, next |-> loc.next, freed |-> loc.freed, head |-> loc.head, cur |-> loc.cur, result |-> loc.result]
    /\ \A p \in Lst!Kept : Follows(ListOrder, Lst!Kept, p, loc.next[p])
    /\ Printed(ListOrder, Lst!Kept, loc.cur, loc.result)
    /\ loc.at = "print" => First(ListOrder, Lst!Kept, loc.head) /\ loc.freed = Lst!Nodes \ Lst!Kept
    /\ loc.at = "free" => /\ loc.cur = 0
                          /\ FreedBefore(ListOrder, Lst!Kept, loc.head, loc.freed)
                          /\ Lst!Nodes \ Lst!Kept \subseteq loc.freed /\ loc.freed \subseteq Lst!Nodes
    /\ ret # <<>> => /\ loc.cur = 0 /\ ret = <<loc.result>>
                     /\ call.fn \in {"reverse_list", "remove_elements"} => loc.at = "free" /\ loc.head = 0

LastNext == IF call.back <= nodes THEN call.back ELSE 0

CycleOK ==
    /\ loc = [at |-> "loop", next |-> loc.next, freed |-> {}, slow |-> loc.slow, fast |-> loc.fast, p1 |-> loc.p1]
    /\ DOMAIN loc.next = 1..nodes
    /\ \A p \in 1..nodes : loc.next[p] = IF p = nodes THEN LastNext ELSE p + 1
    /\ IF ret # <<>> THEN ret = <<LastNext>>
       ELSE IF LastNext = 0 THEN Straight(nodes, loc.slow, loc.fast, loc.p1)
       ELSE Chasing(nodes, LastNext, nodes - LastNext + 1, loc.slow, loc.fast, loc.p1)

ListLocOK ==
    CASE call.fn = "detect_cycle" -> CycleOK
      [] call.fn # "detect_cycle" /\ loc.at \in {"print", "free"} -> PrintOK
      [] call.fn = "LinkedList" /\ loc.at = "push" -> PushOK
      [] call.fn \in {"reverse_list", "LinkedList"} /\ loc.at = "loop" -> TurnOK
      [] call.fn = "remove_elements" /\ loc.at = "loop" -> RemoveOK
      [] call.fn = "merge_two_lists" /\ loc.at = "loop" -> MergeOK
      [] OTHER -> FALSE

ListInv == which = "lists" => ListCallOK /\ ListLocOK

LEMMA OrderIsComes ==
    ASSUME ListCallOK, call.fn # "detect_cycle"
    PROVE  /\ nodes \in Nat /\ Lst!Nodes = 1..nodes /\ Lst!Kept \in SUBSET (1..nodes)
           /\ call.fn # "remove_elements" => Lst!Kept = 1..nodes
           /\ \A p, q \in 1..nodes : <<p, q>> \in ListOrder <=> Lst!Comes(p, q)
           /\ TotalOrder(ListOrder, 1..nodes)
           /\ TotalOrder(ListOrder, Lst!Kept)
<1>1. nodes \in Nat /\ Lst!Nodes = 1..nodes /\ Lst!Kept \in SUBSET (1..nodes)
  BY DEF ListCallOK, nodes, Lst!Nodes, Lst!Kept
<1>2. call.fn # "remove_elements" => Lst!Kept = 1..nodes
  BY <1>1 DEF Lst!Kept
<1>3. CASE call.fn \in {"reverse_list", "LinkedList"}
  <2>1. ListOrder = Downwards(nodes)
    BY <1>3 DEF ListOrder
  <2>2. \A p, q \in 1..nodes : Lst!Comes(p, q) <=> p > q
    BY <1>3 DEF Lst!Comes
  <2> QED
    BY <1>1, <1>2, <1>3, <2>1, <2>2, DownIsAnOrder
<1>4. CASE call.fn = "remove_elements"
  <2>1. ListOrder = Upwards(nodes)
    BY <1>4 DEF ListOrder
  <2>2. \A p, q \in 1..nodes : Lst!Comes(p, q) <=> p < q
    BY <1>4 DEF Lst!Comes
  <2>3. \A p \in 1..nodes : p \in -1..nodes
    BY <1>1
  <2>4. \A p, q \in 1..nodes : <<p, q>> \in Upwards(nodes) <=> p < q
    BY <1>1, <2>3, UpIsAnOrder
  <2>5. TotalOrder(Upwards(nodes), 1..nodes) /\ TotalOrder(Upwards(nodes), Lst!Kept)
    BY <1>1, UpIsAnOrder
  <2> QED
    BY <1>1, <1>4, <2>1, <2>2, <2>4, <2>5
<1>5. CASE call.fn = "merge_two_lists"
  <2>1. ListOrder = MergeOrder(call.vals, nodes)
    BY <1>5 DEF ListOrder
  <2>2. \A p, q \in 1..nodes : Lst!Comes(p, q) <=> call.vals[p] < call.vals[q] \/ (call.vals[p] = call.vals[q] /\ p < q)
    BY <1>5 DEF Lst!Comes
  <2>3. \A x \in 1..nodes : call.vals[x] \in Int
    BY DEF ListCallOK, nodes
  <2> QED
    BY <1>1, <1>2, <1>5, <2>1, <2>2, <2>3, MergeIsAnOrder
<1> QED
  BY <1>3, <1>4, <1>5 DEF ListCallOK


LEMMA ListsStepIs ==
    ASSUME which = "lists",
           [DataNext]_<<which, vars, topicVars, ringVars, stackQueueVars, minVars, frameVars>>
    PROVE  /\ which' = which
           /\ call' = call
           /\ Lst!Next \/ UNCHANGED <<loc, ret>>
<1>1. CASE Call
  <2>1. Lst!Next /\ which' = which
    BY <1>1 DEF Call, Turn
  <2>2. call' = call
    BY <2>1 DEF Lst!Next, Lst!print_list, Lst!free_list, Lst!reverse_list, Lst!push, Lst!reserver, Lst!remove_elements,
                Lst!merge_two_lists, Lst!detect_cycle, Lst!TurnsRound, Lst!Unlink, Lst!Prints, Lst!Goes, Lst!Returns
  <2> QED
    BY <2>1, <2>2
<1>2. CASE UNCHANGED <<which, vars, topicVars, ringVars, stackQueueVars, minVars, frameVars>>
  BY <1>2 DEF frameVars
<1>3. CASE DataNext /\ ~Call
  BY <1>3 DEF DataNext, Turn
<1> QED
  BY <1>1, <1>2, <1>3

LEMMA ListsAreSequences ==
    ASSUME NEW l \in Lst!Lists
    PROVE  l \in Seq(Int) /\ Len(l) \in Nat /\ \A x \in 1..Len(l) : l[x] \in Int
<1>1. PICK m \in 0..MaxNodes : l \in [1..m -> Elements]
  BY DEF Lst!Lists
<1>2. m \in Nat /\ l \in [1..m -> Int]
  <2>1. m \in Nat
    BY DataAssumption
  <2> QED
    BY <1>1, <2>1, DataAssumption
<1> QED
  BY <1>2

(* Two ascending lists, one behind the other in the call.                  *)
LEMMA TwoListsAre ==
    ASSUME NEW a \in Lst!Lists, NEW b \in Lst!Lists, Lst!Ascending(a), Lst!Ascending(b)
    PROVE  /\ a \o b \in Seq(Int)
           /\ TwoLists(a \o b, Len(a \o b), Len(a))
<1>1. /\ a \in Seq(Int) /\ Len(a) \in Nat /\ \A x \in 1..Len(a) : a[x] \in Int
      /\ b \in Seq(Int) /\ Len(b) \in Nat /\ \A x \in 1..Len(b) : b[x] \in Int
  BY ListsAreSequences
<1> PICK f \in Nat, g \in Nat : f = Len(a) /\ g = Len(b)
  BY <1>1
<1>2. PICK n \in Nat, vals \in Seq(Int) : n = f + g /\ vals = a \o b
  <2>1. a \o b \in Seq(Int) /\ f + g \in Nat
    BY <1>1, ConcatProperties
  <2> QED
    BY <2>1
<1>3. Len(vals) = n /\ \A x \in 1..n : vals[x] = IF x <= f THEN a[x] ELSE b[x - f]
  BY <1>1, <1>2, ConcatProperties
<1>4. ASSUME NEW x \in 1..n PROVE vals[x] \in Int
  BY <1>3, ElementOfSeq
<1>5. ASSUME NEW x \in 1..n, NEW y \in 1..n, x <= y, y <= f \/ f < x PROVE vals[x] <= vals[y]
  <2>1. CASE y <= f
    <3>1. x \in 1..f /\ y \in 1..f /\ vals[x] = a[x] /\ vals[y] = a[y]
      BY <1>2, <1>3, <1>5, <2>1
    <3> QED
      BY <1>2, <1>5, <3>1 DEF Lst!Ascending
  <2>2. CASE f < x
    <3>1. PICK i1 \in 1..g, i2 \in 1..g : i1 = x - f /\ i2 = y - f
      <4>1. x - f \in 1..g /\ y - f \in 1..g
        BY <1>2, <1>5, <2>2
      <4> QED
        BY <4>1
    <3>2. i1 <= i2 /\ vals[x] = b[i1] /\ vals[y] = b[i2]
      BY <1>2, <1>3, <1>5, <2>2, <3>1
    <3> QED
      BY <1>2, <3>1, <3>2 DEF Lst!Ascending
  <2> QED
    BY <1>5, <2>1, <2>2
<1>6. f \in 0..n
  BY <1>2
<1>7. TwoLists(vals, n, f)
  BY <1>4, <1>5, <1>6 DEF TwoLists
<1> QED
  BY <1>2, <1>3, <1>7

LEMMA ListStarts == DataInit => ListInv
<1> SUFFICES ASSUME DataInit, which = "lists" PROVE ListCallOK /\ ListLocOK
  BY DEF ListInv
<1>1. call \in Lst!Calls /\ loc = Lst!Entry(call) /\ ret = <<>>
  BY DEF DataInit, Begins
<1> USE DEF nodes
<1>2. CASE \E f \in {"reverse_list", "LinkedList"}, m \in 0..MaxNodes : call = [fn |-> f, vals |-> [i1 \in 1..m |-> i1]]
  <2>1. PICK f \in {"reverse_list", "LinkedList"}, m \in 0..MaxNodes : call = [fn |-> f, vals |-> [i1 \in 1..m |-> i1]]
    BY <1>2
  <2>2. m \in Nat
    BY DataAssumption
  <2>3. call.vals \in Seq(Int) /\ nodes = m /\ call.fn = f
    BY <2>1, <2>2
  <2>4. ListCallOK
    BY <2>3 DEF ListCallOK
  <2>5. CASE f = "reverse_list"
    <3>1. loc = [at |-> "loop", next |-> Lst!Linked(m, 0), freed |-> {}, prev |-> 0, cur |-> Lst!HeadOf(1, m)]
      BY <1>1, <2>3, <2>5 DEF Lst!Entry, Lst!NULL
    <3>2. Turning(m, Lst!Linked(m, 0), 0, Lst!HeadOf(1, m))
      BY <2>2 DEF Turning, Lst!Linked, Lst!HeadOf, Lst!NULL
    <3>3. TurnOK
      BY <1>1, <2>3, <3>1, <3>2 DEF TurnOK
    <3> QED
      BY <2>3, <2>4, <2>5, <3>1, <3>3 DEF ListLocOK
  <2>6. CASE f = "LinkedList"
    <3>1. loc = [at |-> "push", next |-> <<>>, freed |-> {}, head |-> 0, tmp |-> 0]
      BY <1>1, <2>3, <2>6 DEF Lst!Entry, Lst!NULL
    <3>2. Len(loc.next) = 0 /\ Pushing(m, 0, <<>>, 0, 0)
      BY <2>2, <3>1 DEF Pushing
    <3>3. PushOK
      BY <1>1, <2>3, <3>1, <3>2 DEF PushOK
    <3> QED
      BY <2>3, <2>4, <2>6, <3>1, <3>3 DEF ListLocOK
  <2> QED
    BY <2>5, <2>6
<1>3. CASE \E l \in Lst!Lists, v \in Elements : call = [fn |-> "remove_elements", vals |-> l, val |-> v]
  <2>1. PICK l \in Lst!Lists, v \in Elements : call = [fn |-> "remove_elements", vals |-> l, val |-> v]
    BY <1>3
  <2>2. l \in Seq(Int) /\ Len(l) \in Nat
    BY ListsAreSequences
  <2>3. call.fn = "remove_elements" /\ call.vals = l
    BY <2>1
  <2>4. ListCallOK
    BY <2>2, <2>3 DEF ListCallOK
  <2>5. PICK next : next = Lst!WithDummy(Lst!Linked(nodes, 0), Lst!HeadOf(1, nodes))
    OBVIOUS
  <2>6. loc = [at |-> "loop", next |-> next, freed |-> {}, prev |-> -1]
    BY <1>1, <2>3, <2>5 DEF Lst!Entry, Lst!NULL, Lst!dummy
  <2>7. Removing(Lst!Kept, nodes, next, {}, -1)
    BY <2>2, <2>3, <2>5, RemovingStarts
  <2>8. RemoveOK
    BY <1>1, <2>6, <2>7 DEF RemoveOK
  <2> QED
    BY <2>3, <2>4, <2>6, <2>8 DEF ListLocOK
<1>4. CASE \E a, b \in {l \in Lst!Lists : Lst!Ascending(l)} :
               call = [fn |-> "merge_two_lists", vals |-> a \o b, first |-> Len(a)]
  <2>1. PICK a, b \in {l \in Lst!Lists : Lst!Ascending(l)} :
               call = [fn |-> "merge_two_lists", vals |-> a \o b, first |-> Len(a)]
    BY <1>4
  <2>2. call.fn = "merge_two_lists" /\ call.vals \in Seq(Int) /\ TwoLists(call.vals, nodes, call.first)
    BY <2>1, TwoListsAre
  <2>3. ListCallOK
    BY <2>2 DEF ListCallOK
  <2>4. nodes \in Nat /\ call.first \in 0..nodes
    BY <2>2 DEF TwoLists
  <2>5. PICK next, l1, l2 : /\ next = Lst!WithDummy([p \in 1..nodes |-> IF p \in {call.first, nodes} THEN 0 ELSE p + 1], 0)
                            /\ l1 = Lst!HeadOf(1, call.first) /\ l2 = Lst!HeadOf(call.first + 1, nodes)
    OBVIOUS
  <2>6. loc = [at |-> "loop", next |-> next, freed |-> {}, tail |-> -1, l1 |-> l1, l2 |-> l2]
    BY <1>1, <2>2, <2>5 DEF Lst!Entry, Lst!NULL, Lst!dummy
  <2>7. Merging(ListOrder, nodes, call.first, Done(nodes, call.first, l1, l2), next, -1, l1, l2)
    BY <2>4, <2>5, MergingStarts
  <2>8. MergeOK
    BY <1>1, <2>6, <2>7 DEF MergeOK
  <2> QED
    BY <2>2, <2>3, <2>6, <2>8 DEF ListLocOK
<1>5. CASE \E m \in 1..MaxNodes, b \in 0..MaxNodes : call = [fn |-> "detect_cycle", vals |-> [i1 \in 1..m |-> i1], back |-> b]
  <2>1. PICK m \in 1..MaxNodes, b \in 0..MaxNodes : call = [fn |-> "detect_cycle", vals |-> [i1 \in 1..m |-> i1], back |-> b]
    BY <1>5
  <2>2. m \in Nat \ {0} /\ b \in Nat
    BY DataAssumption
  <2>3. call.fn = "detect_cycle" /\ call.vals \in Seq(Int) /\ nodes = m /\ call.back = b
    BY <2>1, <2>2
  <2>4. ListCallOK
    BY <2>2, <2>3 DEF ListCallOK
  <2>5. loc = [at |-> "loop", next |-> Lst!Linked(m, LastNext), freed |-> {}, slow |-> 1, fast |-> 1, p1 |-> 0]
    BY <1>1, <2>2, <2>3 DEF Lst!Entry, Lst!NULL, Lst!HeadOf, LastNext
  <2>6. DOMAIN loc.next = 1..m /\ \A p \in 1..m : loc.next[p] = IF p = m THEN LastNext ELSE p + 1
    BY <2>5 DEF Lst!Linked
  <2>7. CASE LastNext = 0
    <3>1. Straight(m, 1, 1, 0)
      BY <2>2 DEF Straight
    <3> QED
      BY <1>1, <2>3, <2>4, <2>5, <2>6, <2>7, <3>1 DEF CycleOK, ListLocOK
  <2>8. CASE LastNext # 0
    <3>1. Reached(m, LastNext, m - LastNext + 1, 0, 1)
      BY <2>2 DEF Reached
    <3>2. Chasing(m, LastNext, m - LastNext + 1, 1, 1, 0)
      <4>1. 0 = 2 * 0 /\ 0 \in Nat
        OBVIOUS
      <4> QED
        BY <3>1, <4>1 DEF Chasing, Gaining
    <3> QED
      BY <1>1, <2>3, <2>4, <2>5, <2>6, <2>8, <3>2 DEF CycleOK, ListLocOK
  <2> QED
    BY <2>7, <2>8
<1> QED
  BY <1>1, <1>2, <1>3, <1>4, <1>5 DEF Lst!Calls


LEMMA PrintStarts ==
    ASSUME NEW next, NEW head, which = "lists", ListCallOK, call.fn # "detect_cycle", ret = <<>>,
           loc.freed = Lst!Nodes \ Lst!Kept, First(ListOrder, Lst!Kept, head),
           \A p \in Lst!Kept : Follows(ListOrder, Lst!Kept, p, next[p]),
           Lst!Prints(next, head), call' = call
    PROVE  (ListCallOK /\ ListLocOK)'
<1>1. /\ loc' = [at |-> "print", next |-> next, freed |-> loc.freed, head |-> head, cur |-> head, result |-> <<>>]
      /\ ret' = <<>> /\ ListCallOK' /\ ListOrder' = ListOrder /\ Lst!Kept' = Lst!Kept /\ Lst!Nodes' = Lst!Nodes
  BY DEF Lst!Prints, Lst!Goes, ListCallOK, ListOrder, Lst!Kept, Lst!Nodes, nodes
<1>2. Printed(ListOrder, Lst!Kept, head, <<>>)
  BY OrderIsComes, NothingPrinted
<1>3. PrintOK'
  BY <1>1, <1>2 DEF PrintOK
<1> QED
  BY <1>1, <1>3 DEF ListLocOK

LEMMA PrintStep ==
    ASSUME which = "lists", ListCallOK, ListLocOK, call.fn # "detect_cycle", loc.at \in {"print", "free"},
           Lst!print_list \/ Lst!free_list, call' = call
    PROVE  (ListCallOK /\ ListLocOK)'
<1>1. /\ ListCallOK' /\ ListOrder' = ListOrder /\ Lst!Kept' = Lst!Kept /\ Lst!Nodes' = Lst!Nodes
      /\ PrintOK /\ ret = <<>>
  BY DEF ListCallOK, ListOrder, Lst!Kept, Lst!Nodes, nodes, ListLocOK, Lst!print_list, Lst!free_list
<1>2. /\ 0 \notin Lst!Kept /\ TotalOrder(ListOrder, Lst!Kept) /\ Lst!Kept \subseteq Lst!Nodes
      /\ loc = [at |-> loc.at, next |-> loc.next, freed |-> loc.freed, head |-> loc.head, cur |-> loc.cur, result |-> loc.result]
  BY <1>1, OrderIsComes DEF PrintOK
<1>3. CASE loc.at = "print" /\ loc.cur # 0
  <2>1. /\ loc' = [at |-> "print", next |-> loc.next, freed |-> loc.freed, head |-> loc.head,
                   cur |-> loc.next[loc.cur], result |-> Append(loc.result, loc.cur)]
        /\ ret' = <<>>
    BY <1>1, <1>2, <1>3 DEF Lst!print_list, Lst!free_list, Lst!Goes, Lst!NULL
  <2>2. loc.cur \in Lst!Kept /\ Follows(ListOrder, Lst!Kept, loc.cur, loc.next[loc.cur]) /\ Printed(ListOrder, Lst!Kept, loc.cur, loc.result)
    BY <1>1, <1>3 DEF PrintOK, Printed
  <2>3. Printed(ListOrder, Lst!Kept, loc.next[loc.cur], Append(loc.result, loc.cur))
    BY <1>2, <2>2, PrintsNode
  <2>4. PrintOK'
    BY <1>1, <1>3, <2>1, <2>3 DEF PrintOK
  <2> QED
    BY <1>1, <2>1, <2>4 DEF ListLocOK
<1>4. CASE loc.at = "print" /\ loc.cur = 0 /\ call.fn \in {"reverse_list", "remove_elements"}
  <2>1. /\ loc' = [at |-> "free", next |-> loc.next, freed |-> loc.freed, head |-> loc.head, cur |-> 0, result |-> loc.result]
        /\ ret' = <<>>
    BY <1>1, <1>2, <1>4 DEF Lst!print_list, Lst!free_list, Lst!Goes, Lst!NULL
  <2>2. FreedBefore(ListOrder, Lst!Kept, loc.head, loc.freed)
    BY <1>1, <1>2, <1>4, NothingFreed DEF PrintOK
  <2>3. PrintOK'
    BY <1>1, <1>4, <2>1, <2>2 DEF PrintOK
  <2> QED
    BY <1>1, <2>1, <2>3 DEF ListLocOK
<1>5. CASE loc.at = "print" /\ loc.cur = 0 /\ call.fn \notin {"reverse_list", "remove_elements"}
  <2>1. loc' = loc /\ ret' = <<loc.result>>
    BY <1>5 DEF Lst!print_list, Lst!free_list, Lst!Returns, Lst!NULL
  <2>2. PrintOK'
    BY <1>1, <1>5, <2>1 DEF PrintOK
  <2> QED
    BY <1>1, <1>5, <2>1, <2>2 DEF ListLocOK
<1>6. CASE loc.at = "free" /\ loc.head # 0
  <2>1. /\ loc' = [at |-> "free", next |-> loc.next, freed |-> loc.freed \cup {loc.head}, head |-> loc.next[loc.head],
                   cur |-> loc.cur, result |-> loc.result]
        /\ ret' = <<>>
    BY <1>1, <1>2, <1>6 DEF Lst!print_list, Lst!free_list, Lst!Goes, Lst!NULL
  <2>2. /\ loc.head \in Lst!Kept /\ FreedBefore(ListOrder, Lst!Kept, loc.head, loc.freed)
        /\ Follows(ListOrder, Lst!Kept, loc.head, loc.next[loc.head])
    BY <1>1, <1>6 DEF PrintOK, FreedBefore
  <2>3. FreedBefore(ListOrder, Lst!Kept, loc.next[loc.head], loc.freed \cup {loc.head})
    BY <1>2, <2>2, FreesNode
  <2>4. PrintOK'
    BY <1>1, <1>2, <1>6, <2>1, <2>2, <2>3 DEF PrintOK
  <2> QED
    BY <1>1, <2>1, <2>4 DEF ListLocOK
<1>7. CASE loc.at = "free" /\ loc.head = 0
  <2>1. loc' = loc /\ ret' = <<loc.result>>
    BY <1>7 DEF Lst!print_list, Lst!free_list, Lst!Returns, Lst!NULL
  <2>2. PrintOK'
    BY <1>1, <1>7, <2>1 DEF PrintOK
  <2> QED
    BY <1>1, <1>7, <2>1, <2>2 DEF ListLocOK
<1> QED
  BY <1>3, <1>4, <1>5, <1>6, <1>7

LEMMA TurnStep ==
    ASSUME which = "lists", ListCallOK, ListLocOK, loc.at = "loop", call.fn \in {"reverse_list", "LinkedList"},
           Lst!reverse_list \/ Lst!reserver, call' = call
    PROVE  (ListCallOK /\ ListLocOK)'
<1>1. /\ ListCallOK' /\ nodes' = nodes /\ nodes \in Nat /\ TurnOK
      /\ Lst!Nodes = 1..nodes /\ Lst!Kept = 1..nodes /\ ListOrder = Downwards(nodes)
  BY OrderIsComes DEF ListCallOK, ListLocOK, nodes, ListOrder
<1>2. CASE loc.cur # 0
  <2>1. Lst!TurnsRound
    BY <1>2 DEF Lst!reverse_list, Lst!reserver, Lst!NULL
  <2>2. /\ loc' = [at |-> "loop", next |-> [loc.next EXCEPT ![loc.cur] = loc.prev], freed |-> {},
                   prev |-> loc.cur, cur |-> loc.next[loc.cur]]
        /\ ret' = <<>>
    <3>1. loc = [at |-> "loop", next |-> loc.next, freed |-> {}, prev |-> loc.prev, cur |-> loc.cur] /\ ret = <<>>
      BY <1>1 DEF TurnOK
    <3>2. /\ loc' = [loc EXCEPT !.next[loc.cur] = loc.prev, !.prev = loc.cur, !.cur = loc.next[loc.cur]]
          /\ ret' = ret
      BY <2>1 DEF Lst!TurnsRound, Lst!Goes
    <3>3. PICK nx, pv, cr : nx = loc.next /\ pv = loc.prev /\ cr = loc.cur
      OBVIOUS
    <3>4. loc = [at |-> "loop", next |-> nx, freed |-> {}, prev |-> pv, cur |-> cr]
      BY <3>1, <3>3
    <3>5. loc' = [loc EXCEPT !.next[cr] = pv, !.prev = cr, !.cur = nx[cr]]
      BY <3>2, <3>3
    <3>6. loc' = [at |-> "loop", next |-> [nx EXCEPT ![cr] = pv], freed |-> {}, prev |-> cr, cur |-> nx[cr]]
      BY <3>4, <3>5
    <3> QED
      BY <3>1, <3>2, <3>3, <3>6
  <2>3. Turning(nodes, [loc.next EXCEPT ![loc.cur] = loc.prev], loc.cur, loc.next[loc.cur])
    BY <1>1, <1>2, TurnsOne DEF TurnOK
  <2>4. TurnOK'
    BY <1>1, <2>2, <2>3 DEF TurnOK
  <2> QED
    BY <1>1, <2>2, <2>4 DEF ListLocOK
<1>3. CASE loc.cur = 0
  <2>1. Lst!Prints(loc.next, loc.prev)
    BY <1>3 DEF Lst!reverse_list, Lst!reserver, Lst!NULL
  <2>2. First(Downwards(nodes), 1..nodes, loc.prev) /\ \A p \in 1..nodes : Follows(Downwards(nodes), 1..nodes, p, loc.next[p])
    BY <1>1, <1>3, AllTurned DEF TurnOK
  <2>3. loc.freed = Lst!Nodes \ Lst!Kept /\ ret = <<>>
    BY <1>1 DEF TurnOK
  <2> QED
    BY <1>1, <2>1, <2>2, <2>3, PrintStarts
<1> QED
  BY <1>2, <1>3

LEMMA PushStep ==
    ASSUME which = "lists", ListCallOK, ListLocOK, loc.at = "push", call.fn = "LinkedList",
           Lst!push, call' = call
    PROVE  (ListCallOK /\ ListLocOK)'
<1>1. /\ ListCallOK' /\ nodes' = nodes /\ nodes \in Nat /\ PushOK
  BY OrderIsComes DEF ListCallOK, ListLocOK, nodes
<1>2. PICK n \in Nat, m \in Nat : n = nodes /\ n = Len(call.vals) /\ m = Len(loc.next)
  BY <1>1 DEF PushOK, Pushing, nodes
<1>3. Pushing(n, m, loc.next, loc.head, loc.tmp) /\ ret = <<>>
  BY <1>1, <1>2 DEF PushOK
<1>4. CASE m + 1 > n
  <2>1. loc' = [at |-> "loop", next |-> loc.next, freed |-> {}, prev |-> 0, cur |-> loc.head] /\ ret' = <<>>
    BY <1>2, <1>3, <1>4 DEF Lst!push, Lst!Goes, Lst!NULL
  <2>2. Turning(n, loc.next, 0, loc.head)
    <3>1. m >= n
      BY <1>4
    <3> QED
      BY <1>3, <3>1, AllPushed
  <2>3. TurnOK'
    BY <1>1, <1>2, <2>1, <2>2 DEF TurnOK
  <2> QED
    BY <1>1, <2>1, <2>3 DEF ListLocOK
<1>5. CASE m + 1 <= n /\ loc.head = 0
  <2>1. m = 0 /\ loc.tmp = 0 /\ Pushing(n, 1, <<0>>, 1, 0)
    <3>1. m < n
      BY <1>5
    <3> QED
      BY <1>3, <1>5, <3>1, PushesFirst
  <2>2. loc' = [at |-> "push", next |-> <<0>>, freed |-> {}, head |-> 1, tmp |-> 0] /\ ret' = <<>>
    <3>1. ~(m + 1 > n) /\ m + 1 = 1
      BY <1>5, <2>1
    <3>2. loc' = [loc EXCEPT !.next = <<0>>, !.head = m + 1] /\ ret' = ret
      BY <1>2, <1>5, <2>1, <3>1 DEF Lst!push, Lst!Goes, Lst!NULL
    <3>3. PICK nx, hd : nx = loc.next /\ hd = loc.head
      OBVIOUS
    <3>4. loc = [at |-> "push", next |-> nx, freed |-> {}, head |-> hd, tmp |-> 0]
      BY <1>1, <2>1, <3>3 DEF PushOK
    <3>5. loc' = [loc EXCEPT !.next = <<0>>, !.head = 1]
      BY <3>1, <3>2
    <3>6. loc' = [at |-> "push", next |-> <<0>>, freed |-> {}, head |-> 1, tmp |-> 0]
      BY <3>4, <3>5
    <3> QED
      BY <1>3, <3>2, <3>6
  <2>3. PushOK'
    BY <1>1, <1>2, <2>1, <2>2 DEF PushOK
  <2> QED
    BY <1>1, <2>2, <2>3 DEF ListLocOK
<1>6. CASE m + 1 <= n /\ loc.head # 0 /\ loc.tmp = 0
  <2>1. loc' = [at |-> "push", next |-> loc.next, freed |-> {}, head |-> loc.head, tmp |-> loc.head] /\ ret' = <<>>
    BY <1>1, <1>2, <1>3, <1>6 DEF PushOK, Lst!push, Lst!Goes, Lst!NULL
  <2>2. Pushing(n, m, loc.next, loc.head, loc.head)
    BY <1>3, <1>6 DEF Pushing
  <2>3. PushOK'
    BY <1>1, <1>2, <2>1, <2>2 DEF PushOK
  <2> QED
    BY <1>1, <2>1, <2>3 DEF ListLocOK
<1>7. CASE m + 1 <= n /\ loc.tmp # 0 /\ loc.next[loc.tmp] # 0
  <2>1. loc.head # 0
    BY <1>3, <1>7 DEF Pushing
  <2>2. loc' = [at |-> "push", next |-> loc.next, freed |-> {}, head |-> loc.head, tmp |-> loc.next[loc.tmp]] /\ ret' = <<>>
    BY <1>1, <1>2, <1>3, <1>7, <2>1 DEF PushOK, Lst!push, Lst!Goes, Lst!NULL
  <2>3. Pushing(n, m, loc.next, loc.head, loc.next[loc.tmp])
    BY <1>3, <1>7 DEF Pushing
  <2>4. PushOK'
    BY <1>1, <1>2, <2>2, <2>3 DEF PushOK
  <2> QED
    BY <1>1, <2>2, <2>4 DEF ListLocOK
<1>8. CASE m + 1 <= n /\ loc.tmp # 0 /\ loc.next[loc.tmp] = 0
  <2>1. loc.head # 0
    BY <1>3, <1>8 DEF Pushing
  <2>2. PICK longer : longer = Append([loc.next EXCEPT ![loc.tmp] = m + 1], 0)
    OBVIOUS
  <2>3. loc' = [at |-> "push", next |-> longer, freed |-> {}, head |-> loc.head, tmp |-> 0] /\ ret' = <<>>
    <3>1. ~(m + 1 > n)
      BY <1>8
    <3>2. loc' = [loc EXCEPT !.next = Append([@ EXCEPT ![loc.tmp] = m + 1], 0), !.tmp = 0] /\ ret' = ret
      BY <1>2, <1>8, <2>1, <3>1 DEF Lst!push, Lst!Goes, Lst!NULL
    <3>3. PICK nx, hd, tp : nx = loc.next /\ hd = loc.head /\ tp = loc.tmp
      OBVIOUS
    <3>4. loc = [at |-> "push", next |-> nx, freed |-> {}, head |-> hd, tmp |-> tp]
      BY <1>1, <3>3 DEF PushOK
    <3>5. loc' = [loc EXCEPT !.next = longer, !.tmp = 0]
      BY <2>2, <3>2
    <3>6. loc' = [at |-> "push", next |-> longer, freed |-> {}, head |-> hd, tmp |-> 0]
      BY <3>4, <3>5
    <3> QED
      BY <1>3, <3>2, <3>3, <3>6
  <2>4. Pushing(n, m + 1, longer, loc.head, 0)
    <3>1. m < n
      BY <1>8
    <3> QED
      BY <1>3, <1>8, <2>2, <3>1, PushesLast
  <2>5. Len(longer) = m + 1
    BY <2>4 DEF Pushing
  <2>6. PushOK'
    BY <1>1, <1>2, <2>3, <2>4, <2>5 DEF PushOK
  <2> QED
    BY <1>1, <2>3, <2>6 DEF ListLocOK
<1> QED
  BY <1>2, <1>4, <1>5, <1>6, <1>7, <1>8


LEMMA RemoveStep ==
    ASSUME which = "lists", ListCallOK, ListLocOK, loc.at = "loop", call.fn = "remove_elements",
           Lst!remove_elements, call' = call
    PROVE  (ListCallOK /\ ListLocOK)'
<1>1. /\ ListCallOK' /\ nodes' = nodes /\ nodes \in Nat /\ RemoveOK /\ Lst!Kept' = Lst!Kept
      /\ Lst!Nodes = 1..nodes /\ Lst!Kept \in SUBSET (1..nodes) /\ ListOrder = Upwards(nodes)
  BY OrderIsComes DEF ListCallOK, ListLocOK, nodes, ListOrder, Lst!Kept, Lst!Nodes
<1> PICK n \in Nat : n = nodes
  BY <1>1
<1>2. PICK kept \in SUBSET (1..n) : kept = Lst!Kept
  BY <1>1
<1>3. PICK nx, fr, pv : nx = loc.next /\ fr = loc.freed /\ pv = loc.prev
  OBVIOUS
<1>4. PICK node : node = nx[pv]
  OBVIOUS
<1>5. /\ loc = [at |-> "loop", next |-> nx, freed |-> fr, prev |-> pv] /\ ret = <<>>
      /\ Removing(kept, n, nx, fr, pv)
  BY <1>1, <1>2, <1>3 DEF RemoveOK
<1>6. CASE node = 0
  <2>1. Lst!Prints(nx, nx[-1])
    BY <1>3, <1>4, <1>6 DEF Lst!remove_elements, Lst!NULL, Lst!dummy
  <2>2. /\ fr = (1..n) \ kept
        /\ First(Upwards(n), kept, nx[-1])
        /\ \A p \in kept : Follows(Upwards(n), kept, p, nx[p])
    <3>1. nx[pv] = 0 /\ Removing(kept, n, nx, fr, pv)
      BY <1>4, <1>5, <1>6
    <3> QED
      BY <3>1, AllRemoved
  <2> QED
    BY <1>1, <1>2, <1>3, <1>5, <2>1, <2>2, PrintStarts
<1>7. CASE node # 0
  <2>1. node \in 1..n
    <3>1. pv \in ((1..n) \ fr) \cup {-1}
      BY <1>5 DEF Removing
    <3>2. nx[pv] \in 0..n
      BY <1>5, <3>1 DEF Removing
    <3> QED
      BY <1>4, <1>7, <3>2
  <2>2. node \in kept <=> call.vals[node] # call.val
    BY <1>1, <1>2, <2>1 DEF Lst!Kept
  <2>3. CASE node \in kept
    <3>1. loc' = [loc EXCEPT !.prev = node] /\ ret' = ret
      BY <1>3, <1>4, <1>7, <2>2, <2>3 DEF Lst!remove_elements, Lst!NULL, Lst!Goes
    <3>2. loc' = [at |-> "loop", next |-> nx, freed |-> fr, prev |-> node]
      BY <1>5, <3>1
    <3>3. Removing(kept, n, nx, fr, node)
      BY <1>4, <1>5, <1>7, <2>3, KeepsNode
    <3>4. RemoveOK'
      BY <1>1, <1>2, <1>5, <3>1, <3>2, <3>3 DEF RemoveOK
    <3> QED
      BY <1>1, <3>2, <3>4 DEF ListLocOK
  <2>4. CASE node \notin kept
    <3>1. loc' = [loc EXCEPT !.next[pv] = nx[node], !.freed = @ \cup {node}] /\ ret' = ret
      BY <1>3, <1>4, <1>7, <2>2, <2>4 DEF Lst!remove_elements, Lst!NULL, Lst!Unlink, Lst!Goes
    <3>2. loc' = [at |-> "loop", next |-> [nx EXCEPT ![pv] = nx[node]], freed |-> fr \cup {node}, prev |-> pv]
      BY <1>5, <3>1
    <3>3. Removing(kept, n, [nx EXCEPT ![pv] = nx[node]], fr \cup {node}, pv)
      BY <1>4, <1>5, <1>7, <2>4, UnlinksNode
    <3>4. RemoveOK'
      BY <1>1, <1>2, <1>5, <3>1, <3>2, <3>3 DEF RemoveOK
    <3> QED
      BY <1>1, <3>2, <3>4 DEF ListLocOK
  <2> QED
    BY <2>3, <2>4
<1> QED
  BY <1>6, <1>7

LEMMA MergeStep ==
    ASSUME which = "lists", ListCallOK, ListLocOK, loc.at = "loop", call.fn = "merge_two_lists",
           Lst!merge_two_lists, call' = call
    PROVE  (ListCallOK /\ ListLocOK)'
<1>1. /\ ListCallOK' /\ nodes' = nodes /\ nodes \in Nat /\ MergeOK /\ ListOrder' = ListOrder
      /\ Lst!Nodes = 1..nodes /\ Lst!Kept = 1..nodes /\ ListOrder = MergeOrder(call.vals, nodes)
      /\ TwoLists(call.vals, nodes, call.first) /\ TotalOrder(ListOrder, 1..nodes)
  BY OrderIsComes DEF ListCallOK, ListLocOK, nodes, ListOrder
<1> PICK n \in Nat : n = nodes
  BY <1>1
<1>2. PICK f, vals, R : f = call.first /\ vals = call.vals /\ R = ListOrder
  OBVIOUS
<1>3. PICK nx, tl, l1, l2 : nx = loc.next /\ tl = loc.tail /\ l1 = loc.l1 /\ l2 = loc.l2
  OBVIOUS
<1>4. /\ R = MergeOrder(vals, n) /\ TwoLists(vals, n, f) /\ TotalOrder(R, 1..n) /\ f \in 0..n
  BY <1>1, <1>2 DEF TwoLists
<1>5. PICK done \in SUBSET (1..n) : done = Done(n, f, l1, l2)
  BY DEF Done
<1>6. /\ loc = [at |-> "loop", next |-> nx, freed |-> {}, tail |-> tl, l1 |-> l1, l2 |-> l2] /\ ret = <<>>
      /\ Merging(R, n, f, done, nx, tl, l1, l2)
  BY <1>1, <1>2, <1>3, <1>5 DEF MergeOK
<1>7. l1 \in 0..f /\ l2 \in {0} \cup (f + 1)..n
  BY <1>6 DEF Merging
<1>14. ASSUME NEW next, NEW tail, NEW k1, NEW k2, ret' = <<>>,
              loc' = [at |-> "loop", next |-> next, freed |-> {}, tail |-> tail, l1 |-> k1, l2 |-> k2],
              Merging(R, n, f, Done(n, f, k1, k2), next, tail, k1, k2)
       PROVE  MergeOK'
  <2>1. nodes' = n /\ call.first' = f /\ ListOrder' = R
    BY <1>1, <1>2
  <2>2. /\ loc'.next = next /\ loc'.tail = tail /\ loc'.l1 = k1 /\ loc'.l2 = k2
        /\ loc' = [at |-> "loop", next |-> loc'.next, freed |-> {}, tail |-> loc'.tail, l1 |-> loc'.l1, l2 |-> loc'.l2]
    BY <1>14
  <2> QED
    BY <1>14, <2>1, <2>2 DEF MergeOK
<1>8. CASE l1 # 0 /\ l2 # 0 /\ vals[l1] <= vals[l2]
  <2>1. PICK m1 : m1 = IF l1 \in {f, n} THEN 0 ELSE l1 + 1
    OBVIOUS
  <2>2. l1 \in 1..n /\ l1 \notin done /\ Done(n, f, m1, l2) = done \cup {l1} /\ m1 \in 0..f
    BY <1>4, <1>5, <1>7, <1>8, <2>1, OneMoreDone
  <2>3. nx[l1] = m1
    BY <1>6, <2>1, <2>2 DEF Merging
  <2>4. /\ loc' = [loc EXCEPT !.next[tl] = l1, !.tail = l1, !.l1 = nx[l1]]
        /\ ret' = ret
    BY <1>2, <1>3, <1>8 DEF Lst!merge_two_lists, Lst!NULL, Lst!Goes
  <2>5. loc' = [at |-> "loop", next |-> [nx EXCEPT ![tl] = l1], freed |-> {}, tail |-> l1, l1 |-> m1, l2 |-> l2]
    BY <1>6, <2>3, <2>4
  <2>6. \A y \in (1..n) \ (done \cup {l1}) : <<l1, y>> \in R
    BY <1>4, <1>5, <1>7, <1>8, HeadsComeNext
  <2>7. Merging(R, n, f, done \cup {l1}, [nx EXCEPT ![tl] = l1], l1, m1, l2)
    BY <1>4, <1>6, <1>7, <2>2, <2>6, TakesNode
  <2>8. Merging(R, n, f, Done(n, f, m1, l2), [nx EXCEPT ![tl] = l1], l1, m1, l2)
    BY <2>2, <2>7
  <2>9. MergeOK'
    BY <1>14, <1>6, <2>4, <2>5, <2>8
  <2> QED
    BY <1>1, <2>5, <2>9 DEF ListLocOK
<1>9. CASE l1 # 0 /\ l2 # 0 /\ ~(vals[l1] <= vals[l2])
  <2>1. PICK m2 : m2 = IF l2 \in {f, n} THEN 0 ELSE l2 + 1
    OBVIOUS
  <2>2. l2 \in 1..n /\ l2 \notin done /\ Done(n, f, l1, m2) = done \cup {l2} /\ m2 \in {0} \cup (f + 1)..n
    BY <1>4, <1>5, <1>7, <1>9, <2>1, OneMoreDone
  <2>3. nx[l2] = m2
    BY <1>6, <2>1, <2>2 DEF Merging
  <2>4. /\ loc' = [loc EXCEPT !.next[tl] = l2, !.tail = l2, !.l2 = nx[l2]]
        /\ ret' = ret
    BY <1>2, <1>3, <1>9 DEF Lst!merge_two_lists, Lst!NULL, Lst!Goes
  <2>5. loc' = [at |-> "loop", next |-> [nx EXCEPT ![tl] = l2], freed |-> {}, tail |-> l2, l1 |-> l1, l2 |-> m2]
    BY <1>6, <2>3, <2>4
  <2>6. \A y \in (1..n) \ (done \cup {l2}) : <<l2, y>> \in R
    BY <1>4, <1>5, <1>7, <1>9, HeadsComeNext
  <2>7. Merging(R, n, f, done \cup {l2}, [nx EXCEPT ![tl] = l2], l2, l1, m2)
    BY <1>4, <1>6, <1>7, <2>2, <2>6, TakesNode
  <2>8. Merging(R, n, f, Done(n, f, l1, m2), [nx EXCEPT ![tl] = l2], l2, l1, m2)
    BY <2>2, <2>7
  <2>9. MergeOK'
    BY <1>14, <1>6, <2>4, <2>5, <2>8
  <2> QED
    BY <1>1, <2>5, <2>9 DEF ListLocOK
<1>10. CASE l1 = 0 \/ l2 = 0
  <2> PICK rest : rest = (1..n) \ done
    OBVIOUS
  <2>1. PICK h, linked : h = (IF l1 # 0 THEN l1 ELSE l2) /\ linked = [nx EXCEPT ![tl] = h]
    OBVIOUS
  <2>2. Lst!Prints(linked, linked[-1])
    BY <1>3, <1>10, <2>1 DEF Lst!merge_two_lists, Lst!NULL, Lst!dummy
  <2>3. First(R, rest, h) /\ \A y \in rest : Follows(R, rest, y, nx[y])
    <3>1. \A y \in rest : nx[y] = IF y \in {f, n} THEN 0 ELSE y + 1
      BY <1>6, <2>1 DEF Merging
    <3>2. TwoLists(vals, n, f) /\ rest = (1..n) \ Done(n, f, l1, l2)
      BY <1>4, <1>5
    <3>3. /\ First(MergeOrder(vals, n), rest, IF l1 # 0 THEN l1 ELSE l2)
          /\ \A y \in rest : Follows(MergeOrder(vals, n), rest, y, nx[y])
      BY <1>7, <1>10, <3>1, <3>2, RestIsAList
    <3> QED
      BY <1>4, <2>1, <3>3
  <2> PICK all : all = 1..n
    OBVIOUS
  <2>4. all = done \cup rest /\ done \cap rest = {} /\ -1 \notin done \cup rest
    <3>1. -1 \notin 1..n
      OBVIOUS
    <3>2. done \subseteq all /\ rest = all \ done
      OBVIOUS
    <3>3. all = done \cup rest /\ done \cap rest = {}
      BY <3>2
    <3> QED
      BY <3>1, <3>3
  <2>5. /\ LinkedUpTo(R, done, nx, tl) /\ {tl, -1} \subseteq DOMAIN nx /\ done \cup rest \subseteq DOMAIN nx
        /\ \A x \in done, y \in rest : <<x, y>> \in R
    BY <1>6 DEF Merging
  <2>6. /\ First(R, all, linked[-1])
        /\ \A x \in all : Follows(R, all, x, linked[x])
    <3>1. TotalOrder(R, done \cup rest)
      BY <1>4, <2>4
    <3> QED
      BY <2>1, <2>3, <2>4, <2>5, <3>1, LinksRest
  <2>7. First(R, 1..n, linked[-1]) /\ \A x \in 1..n : Follows(R, 1..n, x, linked[x])
    BY <2>6
  <2>8. loc.freed = Lst!Nodes \ Lst!Kept /\ ret = <<>>
    BY <1>1, <1>6
  <2> QED
    BY <1>1, <1>2, <2>2, <2>7, <2>8, PrintStarts
<1> QED
  BY <1>8, <1>9, <1>10

LEMMA CycleStep ==
    ASSUME which = "lists", ListCallOK, ListLocOK, call.fn = "detect_cycle",
           Lst!detect_cycle, call' = call
    PROVE  (ListCallOK /\ ListLocOK)'
<1>1. ListCallOK' /\ nodes' = nodes /\ nodes \in Nat \ {0} /\ CycleOK /\ LastNext' = LastNext /\ LastNext \in 0..nodes
  BY DEF ListCallOK, ListLocOK, nodes, LastNext
<1> PICK n \in Nat : n = nodes
  BY <1>1
<1>2. PICK b \in 0..n : b = LastNext
  BY <1>1
<1>3. PICK nx, sl, fs, p1 : nx = loc.next /\ sl = loc.slow /\ fs = loc.fast /\ p1 = loc.p1
  OBVIOUS
<1>4. /\ loc = [at |-> "loop", next |-> nx, freed |-> {}, slow |-> sl, fast |-> fs, p1 |-> p1] /\ ret = <<>>
      /\ DOMAIN nx = 1..n /\ \A p \in 1..n : nx[p] = IF p = n THEN b ELSE p + 1
      /\ IF b = 0 THEN Straight(n, sl, fs, p1) ELSE Chasing(n, b, n - b + 1, sl, fs, p1)
  BY <1>1, <1>2, <1>3 DEF CycleOK, Lst!detect_cycle, Lst!At, Lst!Runs
<1>5. ASSUME NEW s2, NEW f2, NEW q1, ret' = ret,
             loc' = [at |-> "loop", next |-> nx, freed |-> {}, slow |-> s2, fast |-> f2, p1 |-> q1],
             IF b = 0 THEN Straight(n, s2, f2, q1) ELSE Chasing(n, b, n - b + 1, s2, f2, q1)
      PROVE  (ListCallOK /\ ListLocOK)'
  <2>1. CycleOK'
    BY <1>1, <1>2, <1>4, <1>5 DEF CycleOK
  <2> QED
    BY <1>1, <2>1 DEF ListLocOK
<1>6. ASSUME loc' = loc, ret' = <<b>>
      PROVE  (ListCallOK /\ ListLocOK)'
  <2>1. CycleOK'
    BY <1>1, <1>2, <1>4, <1>6 DEF CycleOK
  <2> QED
    BY <1>1, <2>1 DEF ListLocOK
<1>7. ASSUME b # 0
      PROVE  /\ p1 = 0 => /\ fs # 0 /\ nx[fs] # 0
                          /\ \A s2, f2, q1 : s2 = nx[sl] /\ f2 = nx[nx[fs]] /\ q1 = (IF s2 = f2 THEN 1 ELSE 0)
                                             => Chasing(n, b, n - b + 1, s2, f2, q1)
             /\ p1 # 0 => IF p1 = sl THEN p1 = b ELSE Chasing(n, b, n - b + 1, nx[sl], fs, nx[p1])
  <2>1. PICK ring \in Nat : ring = n - b + 1
    OBVIOUS
  <2>2. b \in 1..n
    BY <1>7
  <2>3. \A p \in 1..n : nx[p] = IF p = n THEN b ELSE p + 1
    BY <1>4
  <2>4. Chasing(n, b, ring, sl, fs, p1)
    BY <1>4, <1>7, <2>1
  <2>5. ASSUME p1 = 0
        PROVE  /\ fs # 0 /\ nx[fs] # 0
               /\ \A s2, f2, q1 : s2 = nx[sl] /\ f2 = nx[nx[fs]] /\ q1 = (IF s2 = f2 THEN 1 ELSE 0)
                                  => Chasing(n, b, ring, s2, f2, q1)
    <3>1. Gaining(n, b, ring, sl, fs)
      BY <2>4, <2>5 DEF Chasing
    <3>2. PICK s2, f2 : s2 = nx[sl] /\ f2 = nx[nx[fs]]
      OBVIOUS
    <3>3. Gaining(n, b, ring, s2, f2) /\ (s2 = f2 => Chasing(n, b, ring, s2, f2, 1))
      BY <2>1, <2>2, <2>3, <3>1, <3>2, ChasesOn
    <3>5. fs \in 1..n
      BY <3>1 DEF Gaining, Reached
    <3>6. fs # 0 /\ nx[fs] # 0
      BY <2>2, <2>3, <3>5
    <3>4. s2 # f2 => Chasing(n, b, ring, s2, f2, 0)
      BY <3>3 DEF Chasing
    <3> QED
      BY <3>2, <3>3, <3>4, <3>6
  <2>6. ASSUME p1 # 0
        PROVE  IF p1 = sl THEN p1 = b ELSE Chasing(n, b, ring, nx[sl], fs, nx[p1])
    BY <2>1, <2>2, <2>3, <2>4, <2>6, WalksOn
  <2> QED
    BY <2>1, <2>5, <2>6
<1>8. CASE p1 # 0 /\ p1 = sl
  <2>1. b # 0 /\ p1 = b
    BY <1>4, <1>7, <1>8 DEF Straight
  <2>2. loc' = loc /\ ret' = <<p1>>
    BY <1>3, <1>8 DEF Lst!detect_cycle, Lst!NULL, Lst!Returns
  <2> QED
    BY <1>6, <2>1, <2>2
<1>9. CASE p1 # 0 /\ p1 # sl
  <2>1. b # 0 /\ Chasing(n, b, n - b + 1, nx[sl], fs, nx[p1])
    BY <1>4, <1>7, <1>9 DEF Straight
  <2>2. loc' = [loc EXCEPT !.p1 = nx[@], !.slow = nx[@]] /\ ret' = ret
    BY <1>3, <1>9 DEF Lst!detect_cycle, Lst!NULL, Lst!Goes
  <2>3. loc' = [at |-> "loop", next |-> nx, freed |-> {}, slow |-> nx[sl], fast |-> fs, p1 |-> nx[p1]]
    BY <1>4, <2>2
  <2> QED
    BY <1>5, <2>1, <2>2, <2>3
<1>10. CASE p1 = 0 /\ (fs = 0 \/ nx[fs] = 0)
  <2>1. b = 0
    BY <1>7, <1>10
  <2>2. loc' = loc /\ ret' = <<0>>
    BY <1>3, <1>10 DEF Lst!detect_cycle, Lst!NULL, Lst!Returns
  <2> QED
    BY <1>6, <2>1, <2>2
<1>11. CASE p1 = 0 /\ fs # 0 /\ nx[fs] # 0
  <2>1. PICK s2, f1, f2, q1 : s2 = nx[sl] /\ f1 = nx[fs] /\ f2 = nx[f1] /\ q1 = IF s2 = f2 THEN 1 ELSE 0
    OBVIOUS
  <2>2. loc' = [loc EXCEPT !.slow = s2, !.fast = f2, !.p1 = q1] /\ ret' = ret
    BY <1>3, <1>11, <2>1 DEF Lst!detect_cycle, Lst!NULL, Lst!Goes
  <2>3. loc' = [at |-> "loop", next |-> nx, freed |-> {}, slow |-> s2, fast |-> f2, p1 |-> q1]
    BY <1>4, <2>2
  <2>4. CASE b = 0
    <3>1. \A p \in 1..n : nx[p] = IF p = n THEN 0 ELSE p + 1
      BY <1>4, <2>4
    <3>2. s2 # f2 /\ Straight(n, s2, f2, 0)
      BY SMTT(20), <1>4, <1>11, <2>1, <2>4, <3>1, StraightOn
    <3>3. q1 = 0
      BY <2>1, <3>2
    <3> QED
      BY <1>5, <2>2, <2>3, <2>4, <3>2, <3>3
  <2>5. CASE b # 0
    <3>1. Chasing(n, b, n - b + 1, s2, f2, q1)
      BY <1>7, <1>11, <2>1, <2>5
    <3> QED
      BY <1>5, <2>2, <2>3, <2>5, <3>1
  <2> QED
    BY <2>4, <2>5
<1> QED
  BY <1>8, <1>9, <1>10, <1>11

(* The list functions return the right nodes in the right order, read no   *)
(* node after its free, and main's free_list leaves none behind, for lists *)
(* of every length: from the order in which the nodes of a list follow one *)
(* another, the ones that were freed, and for detect_cycle the steps that  *)
(* slow and fast have gone.                                                *)
THEOREM ListFunctionsAreSound == DataSpec => []ListsAreSound
<1>1. ListInv /\ [DataNext]_<<which, vars, topicVars, ringVars, stackQueueVars, minVars, frameVars>> => ListInv'
  <2> SUFFICES ASSUME ListInv,
                      [DataNext]_<<which, vars, topicVars, ringVars, stackQueueVars, minVars, frameVars>>,
                      which' = "lists"
               PROVE  (ListCallOK /\ ListLocOK)'
    BY DEF ListInv
  <2>1. which = "lists" /\ ListCallOK /\ ListLocOK
    BY DEF DataNext, Call, Turn, ListInv
  <2>2. /\ call' = call
        /\ Lst!Next \/ UNCHANGED <<loc, ret>>
    BY <2>1, ListsStepIs
  <2>3. CASE UNCHANGED <<loc, ret>>
    BY <2>1, <2>2, <2>3 DEF ListCallOK, ListLocOK, PushOK, TurnOK, RemoveOK, MergeOK, PrintOK, CycleOK, LastNext,
                            ListOrder, nodes, Lst!Kept, Lst!Nodes
  <2>4. CASE Lst!print_list \/ Lst!free_list
    <3>1. loc.at \in {"print", "free"}
      BY <2>4 DEF Lst!print_list, Lst!free_list
    <3>2. call.fn # "detect_cycle"
      BY <2>1, <3>1 DEF ListLocOK, CycleOK
    <3> QED
      BY <2>1, <2>2, <2>4, <3>1, <3>2, PrintStep
  <2>5. CASE Lst!reverse_list \/ Lst!reserver
    BY <2>1, <2>2, <2>5, TurnStep DEF Lst!reverse_list, Lst!reserver, Lst!At, Lst!Runs
  <2>6. CASE Lst!push
    BY <2>1, <2>2, <2>6, PushStep DEF Lst!push, Lst!At, Lst!Runs
  <2>7. CASE Lst!remove_elements
    BY <2>1, <2>2, <2>7, RemoveStep DEF Lst!remove_elements, Lst!At, Lst!Runs
  <2>8. CASE Lst!merge_two_lists
    BY <2>1, <2>2, <2>8, MergeStep DEF Lst!merge_two_lists, Lst!At, Lst!Runs
  <2>9. CASE Lst!detect_cycle
    BY <2>1, <2>2, <2>9, CycleStep DEF Lst!detect_cycle, Lst!At, Lst!Runs
  <2> QED
    BY <2>2, <2>3, <2>4, <2>5, <2>6, <2>7, <2>8, <2>9 DEF Lst!Next
<1>2. ListInv => ListsAreSound
  <2> SUFFICES ASSUME which = "lists", ListCallOK, ListLocOK
               PROVE  /\ Lst!InUse \cap loc.freed = {}
                      /\ ret # <<>> => Lst!IsResult(ret[1]) /\ Lst!AllFreed
    BY DEF ListInv, ListsAreSound
  <2>1. CASE call.fn = "detect_cycle"
    <3>1. CycleOK /\ loc.freed = {}
      BY <2>1 DEF ListLocOK, CycleOK
    <3> QED
      BY <2>1, <3>1 DEF CycleOK, LastNext, nodes, Lst!IsResult, Lst!AllFreed, Lst!NULL
  <2>2. CASE call.fn # "detect_cycle" /\ loc.at \in {"print", "free"}
    <3>1. PrintOK
      BY <2>2 DEF ListLocOK
    <3>2. /\ nodes \in Nat /\ Lst!Nodes = 1..nodes /\ Lst!Kept \in SUBSET (1..nodes)
          /\ \A p, q \in 1..nodes : <<p, q>> \in ListOrder <=> Lst!Comes(p, q)
          /\ TotalOrder(ListOrder, Lst!Kept)
      BY <2>2, OrderIsComes
    <3>3. Lst!InUse \cap loc.freed = {}
      <4>1. CASE loc.at = "print"
        BY <3>1, <3>2, <4>1 DEF PrintOK, Printed, Lst!InUse
      <4>2. CASE loc.at = "free"
        <5>1. Lst!InUse = {loc.head}
          BY <4>2 DEF Lst!InUse
        <5>2. loc.head \notin loc.freed
          <6>1. /\ loc.head \in Lst!Kept \cup {0} /\ loc.freed \subseteq 1..nodes
                /\ \A x \in Lst!Kept : x \in loc.freed <=> loc.head = 0 \/ <<x, loc.head>> \in ListOrder
            BY <3>1, <3>2, <4>2 DEF PrintOK, FreedBefore
          <6>2. CASE loc.head = 0
            BY <3>2, <6>1, <6>2
          <6>3. CASE loc.head \in Lst!Kept
            BY <3>2, <6>1, <6>3 DEF TotalOrder
          <6> QED
            BY <6>1, <6>2, <6>3
        <5> QED
          BY <5>1, <5>2
      <4> QED
        BY <2>2, <4>1, <4>2
    <3>4. ASSUME ret # <<>> PROVE Lst!IsResult(ret[1]) /\ Lst!AllFreed
      <4>1. PICK r \in Seq(Lst!Kept) : r = loc.result
        BY <3>1 DEF PrintOK, Printed
      <4>2. ret[1] = r /\ Printed(ListOrder, Lst!Kept, 0, r)
        BY <3>1, <3>4, <4>1 DEF PrintOK
      <4>3. \A j \in 1..Len(r) : r[j] \in Lst!Kept
        BY ElementOfSeq
      <4>4. Lst!ToSet(r) = Lst!Kept
        BY <4>2, <4>3 DEF Printed, Lst!ToSet
      <4>5. \A i1, i2 \in 1..Len(r) : i1 < i2 => Lst!Comes(r[i1], r[i2])
        BY <3>2, <4>2, <4>3 DEF Printed
      <4>6. Lst!AllFreed
        BY <3>1, <3>2, <3>4 DEF PrintOK, FreedBefore, Lst!AllFreed
      <4> QED
        BY <2>2, <4>2, <4>4, <4>5, <4>6 DEF Lst!IsResult
    <3> QED
      BY <3>3, <3>4
  <2>3. CASE call.fn # "detect_cycle" /\ loc.at \notin {"print", "free"}
    <3>1. ret = <<>>
      BY <2>3 DEF ListLocOK, PushOK, TurnOK, RemoveOK, MergeOK
    <3>2. CASE loc.at = "loop" /\ call.fn = "remove_elements"
      <4>1. RemoveOK
        BY <3>2 DEF ListLocOK
      <4>2. PICK list : list = (1..nodes) \ loc.freed
        OBVIOUS
      <4>3. /\ loc.freed \subseteq 1..nodes /\ loc.prev \in list \cup {-1}
            /\ Follows(Upwards(nodes), list, loc.prev, loc.next[loc.prev])
        BY <4>1, <4>2 DEF RemoveOK, Removing
      <4>4. loc.next[loc.prev] \in list \cup {0}
        BY <4>3 DEF Follows
      <4>5. 0 \notin loc.freed /\ -1 \notin loc.freed
        BY <4>3
      <4>6. loc.prev \notin loc.freed /\ loc.next[loc.prev] \notin loc.freed
        BY <4>2, <4>3, <4>4, <4>5
      <4>7. Lst!InUse = {loc.prev, loc.next[loc.prev]}
        BY <3>2 DEF Lst!InUse
      <4> QED
        BY <3>1, <4>6, <4>7
    <3>3. CASE ~(loc.at = "loop" /\ call.fn = "remove_elements")
      <4>1. loc.freed = {}
        BY <2>3, <3>3 DEF ListLocOK, PushOK, TurnOK, MergeOK
      <4> QED
        BY <3>1, <4>1
    <3> QED
      BY <3>2, <3>3
  <2> QED
    BY <2>1, <2>2, <2>3
<1> QED
  BY <1>1, <1>2, ListStarts, PTL DEF DataSpec


-----------------------------------------------------------------------------
(* priority_task_buffer: the tasks that were run, then those that wait.    *)

(* Task x is run before task y. *)
Earlier(U, x, y) ==
    \/ x \in U /\ y \notin U
    \/ x \in U /\ y \in U /\ x > y
    \/ x \notin U /\ y \notin U /\ x < y

Lined(U, m, s) ==
    /\ \A p \in 1..m : s[p] \in 1..m
    /\ \A x \in 1..m : \E p \in 1..m : s[p] = x
    /\ \A p, q \in 1..m : p < q => Earlier(U, s[p], s[q])

Buffered(U, m, done, tasks) ==
    /\ done \in Seq(Nat) /\ tasks \in Seq(Nat) /\ Len(done) + Len(tasks) = m
    /\ Lined(U, m, done \o tasks)

(* An urgent task comes before all others, another one behind them.        *)
LEMMA LinedFirst ==
    ASSUME NEW U, NEW m \in Nat, NEW s, NEW t, Lined(U, m, s), m + 1 \in U,
           t[1] = m + 1, \A p \in 1..m : t[p + 1] = s[p]
    PROVE  Lined(U, m + 1, t)
<1> PICK m1 \in Nat : m1 = m + 1
  OBVIOUS
<1>1. \A p \in 1..m1 : p = 1 \/ (p - 1 \in 1..m /\ t[p] = s[p - 1])
  <2>1. \A p \in 1..m1 : p # 1 => p - 1 \in 1..m /\ (p - 1) + 1 = p
    OBVIOUS
  <2> QED
    BY <2>1
<1>2. \A p \in 1..m : s[p] \in 1..m
  BY DEF Lined
<1>3. ASSUME NEW p \in 1..m1 PROVE t[p] \in 1..m1
  <2>1. CASE p = 1
    BY <2>1
  <2>2. CASE p # 1
    <3>1. t[p] \in 1..m
      BY <1>1, <1>2, <2>2
    <3> QED
      BY <3>1
  <2> QED
    BY <2>1, <2>2
<1>4. ASSUME NEW x \in 1..m1 PROVE \E p \in 1..m1 : t[p] = x
  <2>1. CASE x = m + 1
    <3>1. 1 \in 1..m1 /\ t[1] = x
      BY <2>1
    <3> QED
      BY <3>1
  <2>2. CASE x # m + 1
    <3>1. x \in 1..m
      BY <2>2
    <3>2. PICK p \in 1..m : s[p] = x
      BY <3>1 DEF Lined
    <3>3. p + 1 \in 1..m1 /\ t[p + 1] = x
      BY <3>2
    <3> QED
      BY <3>3
  <2> QED
    BY <2>1, <2>2
<1>5. ASSUME NEW p \in 1..m1, NEW q \in 1..m1, p < q PROVE Earlier(U, t[p], t[q])
  <2>1. q - 1 \in 1..m /\ t[q] = s[q - 1]
    BY <1>1, <1>5
  <2>2. CASE p = 1
    <3>1. t[q] \in 1..m
      BY <1>2, <2>1
    <3>2. t[q] < m + 1
      BY <3>1
    <3> QED
      BY <2>2, <3>2 DEF Earlier
  <2>3. CASE p # 1
    <3>1. p - 1 \in 1..m /\ t[p] = s[p - 1] /\ p - 1 < q - 1
      BY <1>1, <1>5, <2>3
    <3> QED
      BY <2>1, <3>1 DEF Lined
  <2> QED
    BY <2>2, <2>3
<1> QED
  BY <1>3, <1>4, <1>5 DEF Lined

LEMMA LinedLast ==
    ASSUME NEW U, NEW m \in Nat, NEW s, NEW t, Lined(U, m, s), m + 1 \notin U,
           t[m + 1] = m + 1, \A p \in 1..m : t[p] = s[p]
    PROVE  Lined(U, m + 1, t)
<1> PICK m1 \in Nat : m1 = m + 1
  OBVIOUS
<1>1. \A p \in 1..m1 : p = m1 \/ (p \in 1..m /\ t[p] = s[p] /\ s[p] \in 1..m)
  <2>1. \A p \in 1..m1 : p # m1 => p \in 1..m
    OBVIOUS
  <2>2. \A p \in 1..m : s[p] \in 1..m
    BY DEF Lined
  <2> QED
    BY <2>1, <2>2
<1>3. ASSUME NEW p \in 1..m1 PROVE t[p] \in 1..m1
  <2>1. CASE p = m1
    BY <2>1
  <2>2. CASE p # m1
    <3>1. t[p] \in 1..m
      BY <1>1, <2>2
    <3> QED
      BY <3>1
  <2> QED
    BY <2>1, <2>2
<1>4. ASSUME NEW x \in 1..m1 PROVE \E p \in 1..m1 : t[p] = x
  <2>1. CASE x = m1
    BY <2>1
  <2>2. CASE x # m1
    <3>1. x \in 1..m
      BY <2>2
    <3>2. PICK p \in 1..m : s[p] = x
      BY <3>1 DEF Lined
    <3>3. p \in 1..m1 /\ t[p] = x
      BY <3>2
    <3> QED
      BY <3>3
  <2> QED
    BY <2>1, <2>2
<1>5. ASSUME NEW p \in 1..m1, NEW q \in 1..m1, p < q PROVE Earlier(U, t[p], t[q])
  <2>1. p \in 1..m /\ t[p] = s[p] /\ s[p] \in 1..m
    BY <1>1, <1>5
  <2>2. CASE q = m1
    <3>1. t[p] < m1 /\ t[q] = m1 /\ m1 \notin U
      BY <2>1, <2>2
    <3> QED
      BY <3>1 DEF Earlier
  <2>3. CASE q # m1
    <3>1. q \in 1..m /\ t[q] = s[q]
      BY <1>1, <2>3
    <3> QED
      BY <1>5, <2>1, <3>1 DEF Lined
  <2> QED
    BY <2>2, <2>3
<1> QED
  BY <1>3, <1>4, <1>5 DEF Lined

LEMMA AddsUrgent ==
    ASSUME NEW U, NEW m \in Nat, NEW tasks, Buffered(U, m, <<>>, tasks), m + 1 \in U
    PROVE  Buffered(U, m + 1, <<>>, <<m + 1>> \o tasks)
<1>1. tasks \in Seq(Nat) /\ Len(tasks) = m /\ Lined(U, m, tasks)
  <2>1. tasks \in Seq(Nat) /\ Len(<<>>) + Len(tasks) = m /\ Len(<<>>) = 0 /\ Lined(U, m, <<>> \o tasks)
    BY DEF Buffered
  <2>2. <<>> \o tasks = tasks
    BY <2>1, ConcatEmptySeq
  <2> QED
    BY <2>1, <2>2
<1>2. PICK one \in Seq(Nat) : one = <<m + 1>>
  <2>1. PICK m1 \in Nat : m1 = m + 1
    OBVIOUS
  <2>2. <<m1>> \in Seq(Nat)
    OBVIOUS
  <2> QED
    BY <2>1, <2>2
<1>3. Len(one) = 1 /\ one[1] = m + 1
  BY <1>2
<1>4. PICK t \in Seq(Nat) : t = one \o tasks
  BY <1>1, ConcatProperties
<1>5. Len(t) = 1 + m /\ \A p \in 1..(1 + m) : t[p] = IF p <= 1 THEN one[p] ELSE tasks[p - 1]
  <2>1. /\ Len(one \o tasks) = Len(one) + Len(tasks)
        /\ \A p \in 1..(Len(one) + Len(tasks)) : (one \o tasks)[p] = IF p <= Len(one) THEN one[p] ELSE tasks[p - Len(one)]
    BY <1>1, ConcatProperties
  <2> QED
    BY <1>1, <1>3, <1>4, <2>1
<1>6. t[1] = m + 1 /\ \A p \in 1..m : t[p + 1] = tasks[p]
  <2>1. t[1] = m + 1
    <3>1. 1 \in 1..(1 + m)
      OBVIOUS
    <3> QED
      BY <1>3, <1>5, <3>1
  <2>2. ASSUME NEW p \in 1..m PROVE t[p + 1] = tasks[p]
    <3>1. p + 1 \in 1..(1 + m) /\ ~(p + 1 <= 1) /\ p + 1 - 1 = p
      OBVIOUS
    <3> QED
      BY <1>5, <3>1
  <2> QED
    BY <2>1, <2>2
<1>7. Lined(U, m + 1, t)
  BY <1>1, <1>6, LinedFirst
<1>8. <<>> \o t = t /\ Len(<<>>) = 0 /\ <<>> \in Seq(Nat)
  BY ConcatEmptySeq
<1> QED
  BY <1>2, <1>4, <1>5, <1>7, <1>8 DEF Buffered

LEMMA AddsOther ==
    ASSUME NEW U, NEW m \in Nat, NEW tasks, Buffered(U, m, <<>>, tasks), m + 1 \notin U
    PROVE  Buffered(U, m + 1, <<>>, Append(tasks, m + 1))
<1>1. tasks \in Seq(Nat) /\ Len(tasks) = m /\ Lined(U, m, tasks)
  <2>1. tasks \in Seq(Nat) /\ Len(<<>>) + Len(tasks) = m /\ Len(<<>>) = 0 /\ Lined(U, m, <<>> \o tasks)
    BY DEF Buffered
  <2>2. <<>> \o tasks = tasks
    BY <2>1, ConcatEmptySeq
  <2> QED
    BY <2>1, <2>2
<1>4. PICK t \in Seq(Nat) : t = Append(tasks, m + 1)
  <2>1. m + 1 \in Nat
    OBVIOUS
  <2> QED
    BY <1>1, <2>1, AppendProperties
<1>5. Len(t) = m + 1 /\ t[m + 1] = m + 1 /\ \A p \in 1..m : t[p] = tasks[p]
  BY <1>1, <1>4, AppendProperties
<1>7. Lined(U, m + 1, t)
  BY <1>1, <1>5, LinedLast
<1>8. <<>> \o t = t /\ Len(<<>>) = 0 /\ <<>> \in Seq(Nat)
  BY ConcatEmptySeq
<1> QED
  BY <1>4, <1>5, <1>7, <1>8 DEF Buffered

LEMMA RunsFirst ==
    ASSUME NEW U, NEW m \in Nat, NEW done, NEW tasks, Buffered(U, m, done, tasks), tasks # <<>>
    PROVE  Buffered(U, m, Append(done, Head(tasks)), Tail(tasks))
<1>1. done \in Seq(Nat) /\ tasks \in Seq(Nat) /\ Len(done) + Len(tasks) = m
  BY DEF Buffered
<1>2. PICK d \in Nat, k \in Nat : d = Len(done) /\ k = Len(tasks)
  BY <1>1
<1>3. k > 0 /\ Head(tasks) = tasks[1] /\ Head(tasks) \in Nat
  BY <1>1, <1>2, HeadTailProperties
<1>4. PICK done2 \in Seq(Nat), tasks2 \in Seq(Nat) : done2 = Append(done, Head(tasks)) /\ tasks2 = Tail(tasks)
  <2>1. Tail(tasks) \in Seq(Nat)
    BY <1>1, HeadTailProperties
  <2>2. Append(done, Head(tasks)) \in Seq(Nat)
    BY <1>1, <1>3, AppendProperties
  <2> QED
    BY <2>1, <2>2
<1>5. /\ Len(done2) = d + 1 /\ done2[d + 1] = tasks[1] /\ \A p \in 1..d : done2[p] = done[p]
      /\ Len(tasks2) = k - 1 /\ \A p \in 1..(k - 1) : tasks2[p] = tasks[p + 1]
  BY <1>1, <1>2, <1>3, <1>4, AppendProperties, HeadTailProperties
<1>6. PICK all \in Seq(Nat), all2 \in Seq(Nat) : all = done \o tasks /\ all2 = done2 \o tasks2
  BY <1>1, ConcatProperties
<1>7. /\ Len(all) = d + k /\ \A p \in 1..(d + k) : all[p] = IF p <= d THEN done[p] ELSE tasks[p - d]
      /\ Len(all2) = d + k /\ \A p \in 1..(d + k) : all2[p] = IF p <= d + 1 THEN done2[p] ELSE tasks2[p - (d + 1)]
  <2>1. Len(all) = d + k /\ \A p \in 1..(d + k) : all[p] = IF p <= d THEN done[p] ELSE tasks[p - d]
    BY <1>1, <1>2, <1>6, ConcatProperties
  <2>2. (d + 1) + (k - 1) = d + k
    BY <1>2
  <2>3. Len(all2) = d + k /\ \A p \in 1..(d + k) : all2[p] = IF p <= d + 1 THEN done2[p] ELSE tasks2[p - (d + 1)]
    <3>1. /\ Len(done2 \o tasks2) = Len(done2) + Len(tasks2)
          /\ \A p \in 1..(Len(done2) + Len(tasks2)) :
                 (done2 \o tasks2)[p] = IF p <= Len(done2) THEN done2[p] ELSE tasks2[p - Len(done2)]
      BY ConcatProperties
    <3>2. Len(done2) + Len(tasks2) = d + k
      BY <1>5, <2>2
    <3> QED
      BY <1>5, <1>6, <3>1, <3>2
  <2> QED
    BY <2>1, <2>3
<1>8. ASSUME NEW p \in 1..(d + k) PROVE all2[p] = all[p]
  <2>1. CASE p <= d
    <3>1. p \in 1..d /\ p <= d + 1
      BY <1>2, <2>1
    <3> QED
      BY <1>5, <1>7, <2>1, <3>1
  <2>2. CASE p = d + 1
    <3>1. p <= d + 1 /\ ~(p <= d) /\ p - d = 1
      BY <1>2, <2>2
    <3>2. all2[p] = done2[p] /\ all[p] = tasks[p - d]
      BY <1>7, <3>1
    <3> QED
      BY <1>5, <2>2, <3>1, <3>2
  <2>3. CASE p > d + 1
    <3>1. p - (d + 1) \in 1..(k - 1) /\ p - (d + 1) + 1 = p - d /\ ~(p <= d) /\ ~(p <= d + 1)
      BY <1>2, <2>3
    <3>2. tasks2[p - (d + 1)] = tasks[p - d]
      BY <1>5, <3>1
    <3> QED
      BY <1>7, <3>1, <3>2
  <2> QED
    BY <2>1, <2>2, <2>3
<1>9. all2 = all
  BY <1>7, <1>8, SeqEqual
<1>10. Len(done2) + Len(tasks2) = m
  <2>1. d + k = m /\ (d + 1) + (k - 1) = d + k
    BY <1>1, <1>2
  <2> QED
    BY <1>5, <2>1
<1>11. Lined(U, m, all)
  BY <1>6 DEF Buffered
<1> QED
  BY <1>4, <1>6, <1>9, <1>10, <1>11 DEF Buffered

Urgent == {x \in 1..Len(call.nums) : call.nums[x]}

RunInv ==
    which = "arrays" /\ call.fn = "run" =>
        /\ Len(call.nums) \in Nat /\ loc.added \in 0..Len(call.nums)
        /\ loc = [added |-> loc.added, tasks |-> loc.tasks, done |-> loc.done]
        /\ Buffered(Urgent, loc.added, loc.done, loc.tasks)
        /\ loc.added < Len(call.nums) => loc.done = <<>>
        /\ ret # <<>> => ret = <<loc.done>> /\ loc.tasks = <<>> /\ loc.added = Len(call.nums)

LEMMA RunStarts == DataInit => RunInv
<1> SUFFICES ASSUME DataInit, which = "arrays", call.fn = "run"
             PROVE  RunInv
  BY DEF RunInv
<1>1. call \in Arr!Calls /\ loc = Arr!Entry(call) /\ ret = <<>>
  BY DEF DataInit, Begins
<1>2. PICK u \in Arr!ArraysOf(BOOLEAN) : call = [fn |-> "run", nums |-> u]
  BY <1>1 DEF Arr!Calls
<1>3. PICK n \in 0..MaxArray : u \in [1..n -> BOOLEAN]
  BY <1>2 DEF Arr!ArraysOf
<1>4. n \in Nat /\ Len(call.nums) \in Nat
  BY <1>2, <1>3, DataAssumption
<1>5. loc = [added |-> 0, tasks |-> <<>>, done |-> <<>>]
  BY <1>1, <1>2 DEF Arr!Entry
<1>6. Buffered(Urgent, 0, <<>>, <<>>)
  <2>1. <<>> \in Seq(Nat) /\ Len(<<>>) = 0 /\ 0 + 0 = 0
    OBVIOUS
  <2>2. Lined(Urgent, 0, <<>> \o <<>>)
    BY DEF Lined
  <2> QED
    BY <2>1, <2>2 DEF Buffered
<1> QED
  BY <1>1, <1>4, <1>5, <1>6 DEF RunInv

LEMMA RunStep ==
    ASSUME RunInv, which = "arrays", call.fn = "run", which' = which, call' = call, Arr!run
    PROVE  RunInv'
<1>1. PICK n, m, tasks, done, U : /\ n = Len(call.nums) /\ m = loc.added /\ tasks = loc.tasks /\ done = loc.done /\ U = Urgent
  OBVIOUS
<1>2. /\ ret = <<>> /\ n \in Nat /\ m \in 0..n
      /\ loc = [added |-> m, tasks |-> tasks, done |-> done]
      /\ Buffered(U, m, done, tasks)
      /\ m < n => done = <<>>
  BY <1>1 DEF RunInv, Arr!run, Arr!Runs
<1>3. ASSUME NEW m2, NEW tasks2, NEW done2, loc' = [added |-> m2, tasks |-> tasks2, done |-> done2], ret' = ret,
             m2 \in 0..n, Buffered(U, m2, done2, tasks2), m2 < n => done2 = <<>>
      PROVE  RunInv'
  <2>1. Urgent' = U /\ Len(call.nums)' = n
    BY <1>1 DEF Urgent
  <2>2. /\ loc'.added = m2 /\ loc'.tasks = tasks2 /\ loc'.done = done2
        /\ loc' = [added |-> loc'.added, tasks |-> loc'.tasks, done |-> loc'.done]
    BY <1>3
  <2> QED
    BY <1>2, <1>3, <2>1, <2>2 DEF RunInv
<1>4. CASE m < n
  <2>1. loc' = [loc EXCEPT !.tasks = Arr!add_task(@, m + 1, call.nums[m + 1]), !.added = @ + 1] /\ ret' = ret
    <3>1. ~(m = n)
      BY <1>2, <1>4
    <3> QED
      BY <1>1, <1>4, <3>1 DEF Arr!run, Arr!size, Arr!Goes
  <2>2. m \in Nat /\ m + 1 \in 1..n /\ m + 1 \in 0..n /\ done = <<>>
    BY <1>2, <1>4
  <2>3. PICK tasks2 : tasks2 = Arr!add_task(tasks, m + 1, call.nums[m + 1])
    OBVIOUS
  <2>4. loc' = [added |-> m + 1, tasks |-> tasks2, done |-> done]
    BY <1>2, <2>1, <2>3
  <2>5. m + 1 \in U <=> call.nums[m + 1]
    BY <1>1, <2>2 DEF Urgent
  <2>6. Buffered(U, m + 1, <<>>, tasks2)
    <3>1. CASE m + 1 \in U
      <4>1. tasks2 = <<m + 1>> \o tasks
        BY <2>3, <2>5, <3>1 DEF Arr!add_task
      <4> QED
        BY <1>2, <2>2, <3>1, <4>1, AddsUrgent
    <3>2. CASE m + 1 \notin U
      <4>1. tasks2 = Append(tasks, m + 1)
        BY <2>3, <2>5, <3>2 DEF Arr!add_task
      <4> QED
        BY <1>2, <2>2, <3>2, <4>1, AddsOther
    <3> QED
      BY <3>1, <3>2
  <2> QED
    BY <1>3, <2>1, <2>2, <2>4, <2>6
<1>5. CASE m = n /\ tasks # <<>>
  <2>1. loc' = [loc EXCEPT !.done = Append(@, Head(tasks)), !.tasks = Tail(@)] /\ ret' = ret
    <3>1. ~(m < n)
      BY <1>2, <1>5
    <3> QED
      BY <1>1, <1>5, <3>1 DEF Arr!run, Arr!size, Arr!Goes
  <2>2. loc' = [added |-> m, tasks |-> Tail(tasks), done |-> Append(done, Head(tasks))]
    BY <1>2, <2>1
  <2>3. m \in Nat /\ ~(m < n)
    BY <1>2, <1>5
  <2>4. Buffered(U, m, Append(done, Head(tasks)), Tail(tasks))
    BY <1>2, <1>5, <2>3, RunsFirst
  <2> QED
    BY <1>2, <1>3, <2>1, <2>2, <2>3, <2>4
<1>6. CASE m = n /\ tasks = <<>>
  <2>1. ret' = <<done>> /\ loc' = loc
    <3>1. ~(m < n)
      BY <1>2, <1>6
    <3> QED
      BY <1>1, <1>6, <3>1 DEF Arr!run, Arr!size, Arr!Returns
  <2>2. Urgent' = U /\ Len(call.nums)' = n
    BY <1>1 DEF Urgent
  <2> QED
    BY <1>1, <1>2, <1>6, <2>1, <2>2 DEF RunInv
<1> QED
  <2>1. m < n \/ m = n
    BY <1>2
  <2> QED
    BY <1>4, <1>5, <1>6, <2>1

(* PriorityBuffer::run runs every task once, the urgent ones first, the    *)
(* last one added first, then the others in their order, for every number  *)
(* of tasks.                                                               *)
THEOREM UrgentTasksFirst ==
    DataSpec => [](which = "arrays" /\ call.fn = "run" /\ ret # <<>> => Arr!IsResult(ret[1]))
<1>1. RunInv /\ [DataNext]_<<which, vars, topicVars, ringVars, stackQueueVars, minVars, frameVars>> => RunInv'
  <2> SUFFICES ASSUME RunInv,
                      [DataNext]_<<which, vars, topicVars, ringVars, stackQueueVars, minVars, frameVars>>,
                      which' = "arrays", call'.fn = "run"
               PROVE  RunInv'
    BY DEF RunInv
  <2>1. which = "arrays"
    BY DEF DataNext, Call, Turn
  <2>2. /\ which' = which /\ call' = call
        /\ Arr!Next \/ UNCHANGED <<loc, ret>>
    BY <2>1, ArraysStepIs
  <2>3. CASE Arr!run
    BY <2>1, <2>2, <2>3, RunStep
  <2>4. CASE UNCHANGED <<loc, ret>>
    BY <2>1, <2>2, <2>4 DEF RunInv, Urgent
  <2> QED
    BY <2>2, <2>3, <2>4 DEF Arr!Next, Arr!Runs, Arr!move_zeroes, Arr!min_sub_array_len, Arr!rotate
<1>2. RunInv => (which = "arrays" /\ call.fn = "run" /\ ret # <<>> => Arr!IsResult(ret[1]))
  <2> SUFFICES ASSUME RunInv, which = "arrays", call.fn = "run", ret # <<>>
               PROVE  Arr!IsResult(ret[1])
    OBVIOUS
  <2>1. PICK r, n, U : r = loc.done /\ n = Len(call.nums) /\ U = Urgent
    OBVIOUS
  <2>2. ret[1] = r /\ n \in Nat /\ Buffered(U, n, r, <<>>)
    BY <2>1 DEF RunInv
  <2>3. r \in Seq(Nat) /\ Len(r) = n /\ Lined(U, n, r)
    <3>1. r \in Seq(Nat) /\ Len(r) + Len(<<>>) = n /\ Len(<<>>) = 0 /\ Lined(U, n, r \o <<>>)
      BY <2>2 DEF Buffered
    <3>2. r \o <<>> = r
      BY <3>1, ConcatEmptySeq
    <3> QED
      BY <3>1, <3>2
  <2>4. Arr!ToSet(r) = 1..n
    BY <2>3 DEF Arr!ToSet, Lined
  <2>5. ASSUME NEW i1 \in 1..n, NEW i2 \in 1..n, i1 < i2 PROVE Arr!Before(r[i1], r[i2])
    <3>1. PICK x \in 1..n, y \in 1..n : x = r[i1] /\ y = r[i2] /\ Earlier(U, x, y)
      BY <2>3, <2>5 DEF Lined
    <3>2. (x \in U <=> call.nums[x]) /\ (y \in U <=> call.nums[y])
      BY <2>1 DEF Urgent
    <3> QED
      BY <3>1, <3>2 DEF Earlier, Arr!Before
  <2> QED
    BY <2>1, <2>2, <2>3, <2>4, <2>5 DEF Arr!IsResult, Arr!size
<1> QED
  BY <1>1, <1>2, RunStarts, PTL DEF DataSpec


-----------------------------------------------------------------------------
(* How many of the first i positions are in S.                             *)
Count(S, i) == Cardinality(S \cap 1..i)

LEMMA SameCardinality ==
    ASSUME NEW S
    PROVE  Arr!Cardinality(S) = Cardinality(S) /\ Stk!Cardinality(S) = Cardinality(S)
BY DEF Arr!Cardinality, Stk!Cardinality, Cardinality

LEMMA CountIsFinite ==
    ASSUME NEW S, NEW i \in Nat
    PROVE  /\ IsFiniteSet(S \cap 1..i)
           /\ Count(S, i) \in 0..i
<1>1. IsFiniteSet(1..i) /\ Cardinality(1..i) = i
  <2>1. 1 \in Int /\ i \in Int
    OBVIOUS
  <2>2. IsFiniteSet(1..i) /\ Cardinality(1..i) = IF 1 > i THEN 0 ELSE i - 1 + 1
    BY <2>1, FS_Interval
  <2> QED
    BY <2>2
<1>2. S \cap 1..i \subseteq 1..i
  OBVIOUS
<1>3. IsFiniteSet(S \cap 1..i) /\ Cardinality(S \cap 1..i) <= i
  BY <1>1, <1>2, FS_Subset
<1>4. Cardinality(S \cap 1..i) \in Nat
  BY <1>3, FS_CardinalityType
<1> QED
  BY <1>3, <1>4 DEF Count

LEMMA CountType ==
    ASSUME NEW S, NEW i \in Nat
    PROVE  Count(S, i) \in 0..i
BY CountIsFinite

LEMMA CountNone ==
    ASSUME NEW S
    PROVE  Count(S, 0) = 0
<1>1. Count(S, 0) \in 0..0
  BY CountType
<1> QED
  BY <1>1

LEMMA CountNext ==
    ASSUME NEW S, NEW i \in Nat
    PROVE  Count(S, i + 1) = IF i + 1 \in S THEN Count(S, i) + 1 ELSE Count(S, i)
<1>1. PICK T : T = S \cap 1..i
  OBVIOUS
<1>2. IsFiniteSet(T) /\ Cardinality(T) = Count(S, i) /\ i + 1 \notin T
  BY <1>1, CountIsFinite DEF Count
<1>3. CASE i + 1 \in S
  <2>1. S \cap 1..(i + 1) = T \cup {i + 1}
    BY <1>1, <1>3
  <2>2. Cardinality(T \cup {i + 1}) = Cardinality(T) + 1
    BY <1>2, FS_AddElement
  <2> QED
    BY <1>2, <1>3, <2>1, <2>2 DEF Count
<1>4. CASE i + 1 \notin S
  <2>1. S \cap 1..(i + 1) = T
    BY <1>1, <1>4
  <2> QED
    BY <1>2, <1>4, <2>1 DEF Count
<1> QED
  BY <1>3, <1>4

LEMMA CountRises ==
    ASSUME NEW S, NEW i \in Nat, NEW j \in Nat, i <= j
    PROVE  Count(S, i) <= Count(S, j)
<1>1. IsFiniteSet(S \cap 1..j)
  BY CountIsFinite
<1>2. S \cap 1..i \subseteq S \cap 1..j
  OBVIOUS
<1> QED
  BY <1>1, <1>2, FS_Subset DEF Count

-----------------------------------------------------------------------------
(* array_easy_move_zeroes: N are the positions of the elements of a that   *)
(* are not zero.                                                           *)

Moved(N, a, n, s, read, write) ==
    /\ s \in [1..n -> Int] /\ read \in 0..n /\ write \in 0..n
    /\ \A j \in 1..n : j \in N /\ j <= read => s[Count(N, j)] = a[j]
    /\ read < n => write = Count(N, read) /\ \A j \in 1..n : j > read => s[j] = a[j]
    /\ read = n => write >= Count(N, n) /\ \A j \in 1..n : Count(N, n) < j /\ j <= write => s[j] = 0

(* A position of N is among the first Count(N, i).                         *)
LEMMA CountOfElement ==
    ASSUME NEW N, NEW j \in Nat \ {0}, NEW i \in Nat, j \in N, j <= i
    PROVE  Count(N, j) \in 1..Count(N, i)
<1>1. PICK p \in Nat : j = p + 1
  <2>1. j - 1 \in Nat /\ j = (j - 1) + 1
    OBVIOUS
  <2> QED
    BY <2>1
<1>2. Count(N, p) \in Nat /\ Count(N, i) \in Nat /\ Count(N, j) \in Nat
  BY CountType
<1>3. Count(N, j) = Count(N, p) + 1
  BY <1>1, CountNext
<1>4. Count(N, j) <= Count(N, i)
  BY CountRises
<1> QED
  BY <1>2, <1>3, <1>4

LEMMA MovesNext ==
    ASSUME NEW N, NEW a, NEW n \in Nat, NEW s, NEW read, NEW write, Moved(N, a, n, s, read, write), read < n,
           NEW t, NEW write2,
           \/ read + 1 \in N /\ t = [s EXCEPT ![write + 1] = s[read + 1]] /\ write2 = write + 1
           \/ read + 1 \notin N /\ t = s /\ write2 = write
    PROVE  Moved(N, a, n, t, read + 1, write2)
<1>1. /\ s \in [1..n -> Int] /\ read \in 0..n /\ write \in 0..n
      /\ \A j \in 1..n : j \in N /\ j <= read => s[Count(N, j)] = a[j]
      /\ write = Count(N, read) /\ \A j \in 1..n : j > read => s[j] = a[j]
  BY DEF Moved
<1>2. read \in Nat /\ write \in 0..read /\ write \in Nat
  <2>1. read \in Nat
    BY <1>1
  <2> QED
    BY <1>1, <2>1, CountType
<1>3. write2 = Count(N, read + 1)
  BY <1>1, <1>2, CountNext
<1>4. write2 \in 0..n /\ read + 1 \in 0..n /\ read + 1 \in 1..n
  BY <1>1, <1>2
<1>5. t \in [1..n -> Int]
  <2>1. s[read + 1] \in Int
    BY <1>1, <1>4
  <2> QED
    BY <1>1, <2>1
<1>6. ASSUME NEW j \in 1..n, j \in N, j <= read + 1 PROVE t[Count(N, j)] = a[j]
  <2>0. PICK c : c = Count(N, j)
    OBVIOUS
  <2>1. CASE j = read + 1
    <3>1. c = write + 1 /\ c \in 1..n
      BY <1>2, <1>3, <1>4, <1>6, <2>0, <2>1
    <3>2. t[c] = s[read + 1]
      BY <1>1, <1>6, <2>1, <3>1
    <3>3. s[j] = a[j]
      BY <1>1, <2>1, <1>2
    <3> QED
      BY <2>0, <2>1, <3>2, <3>3
  <2>2. CASE j # read + 1
    <3>1. j \in Nat \ {0} /\ j <= read
      BY <1>2, <1>6, <2>2
    <3>2. c \in 1..write
      BY <1>1, <1>2, <1>6, <2>0, <3>1, CountOfElement
    <3>3. s[c] = a[j]
      BY <1>1, <1>6, <2>0, <3>1
    <3>4. c # write + 1 /\ c \in 1..n
      BY <1>1, <3>2
    <3>5. t[c] = s[c]
      BY <1>1, <3>4
    <3> QED
      BY <2>0, <3>3, <3>5
  <2> QED
    BY <2>1, <2>2
<1>7. ASSUME NEW j \in 1..n, j > read + 1 PROVE t[j] = a[j]
  <2>1. j # write + 1 /\ j > read
    BY <1>2, <1>7
  <2>2. t[j] = s[j]
    BY <1>1, <2>1
  <2> QED
    BY <1>1, <2>1, <2>2
<1>8. ASSUME read + 1 = n PROVE write2 >= Count(N, n) /\ \A j \in 1..n : Count(N, n) < j /\ j <= write2 => t[j] = 0
  <2>1. write2 = Count(N, n) /\ write2 \in Nat
    BY <1>3, <1>4, <1>8
  <2>2. \A j \in 1..n : ~(write2 < j /\ j <= write2)
    BY <2>1
  <2> QED
    BY <2>1, <2>2
<1> QED
  BY <1>3, <1>4, <1>5, <1>6, <1>7, <1>8 DEF Moved

LEMMA FillsUp ==
    ASSUME NEW N, NEW a, NEW n \in Nat, NEW s, NEW write, Moved(N, a, n, s, n, write), write < n
    PROVE  Moved(N, a, n, [s EXCEPT ![write + 1] = 0], n, write + 1)
<1>1. /\ s \in [1..n -> Int] /\ write \in 0..n
      /\ \A j \in 1..n : j \in N /\ j <= n => s[Count(N, j)] = a[j]
      /\ write >= Count(N, n) /\ \A j \in 1..n : Count(N, n) < j /\ j <= write => s[j] = 0
  BY DEF Moved
<1>2. PICK t : t = [s EXCEPT ![write + 1] = 0]
  OBVIOUS
<1>3. PICK all \in Nat : all = Count(N, n)
  BY CountType
<1>4. write + 1 \in 0..n /\ write \in Nat /\ n \in 0..n /\ ~(n < n) /\ write + 1 \in 1..n /\ write + 1 >= all
  BY <1>1, <1>3
<1>5. t \in [1..n -> Int] /\ t[write + 1] = 0 /\ \A j \in 1..n : j # write + 1 => t[j] = s[j]
  BY <1>1, <1>2, <1>4
<1>6. ASSUME NEW j \in 1..n, j \in N PROVE t[Count(N, j)] = a[j]
  <2>1. Count(N, j) \in 1..all
    <3>1. j \in Nat \ {0} /\ j <= n
      OBVIOUS
    <3> QED
      BY <1>3, <1>6, <3>1, CountOfElement
  <2>2. PICK c \in 1..n : c = Count(N, j) /\ c # write + 1
    BY <1>1, <1>3, <2>1
  <2> QED
    BY <1>1, <1>5, <1>6, <2>2
<1>7. ASSUME NEW j \in 1..n, all < j, j <= write + 1 PROVE t[j] = 0
  <2>1. CASE j <= write
    <3>1. s[j] = 0 /\ j # write + 1
      BY <1>1, <1>3, <1>7, <2>1
    <3> QED
      BY <1>5, <3>1
  <2>2. CASE ~(j <= write)
    <3>1. j = write + 1
      BY <1>4, <1>7, <2>2
    <3> QED
      BY <1>5, <3>1
  <2> QED
    BY <2>1, <2>2
<1> QED
  BY <1>2, <1>3, <1>4, <1>5, <1>6, <1>7 DEF Moved

MoveInv ==
    which = "arrays" /\ call.fn = "move_zeroes" =>
        /\ Len(call.nums) \in Nat
        /\ loc = [nums |-> loc.nums, read |-> loc.read, write |-> loc.write]
        /\ Moved(Arr!NonZero, call.nums, Len(call.nums), loc.nums, loc.read, loc.write)
        /\ ret # <<>> => ret = <<loc.nums>> /\ loc.read = Len(call.nums) /\ loc.write = Len(call.nums)

LEMMA MoveStarts == DataInit => MoveInv
<1> SUFFICES ASSUME DataInit, which = "arrays", call.fn = "move_zeroes"
             PROVE  MoveInv
  BY DEF MoveInv
<1>1. call \in Arr!Calls /\ loc = Arr!Entry(call) /\ ret = <<>>
  BY DEF DataInit, Begins
<1>2. PICK u \in Arr!ArraysOf(Elements) : call = [fn |-> "move_zeroes", nums |-> u]
  BY <1>1 DEF Arr!Calls
<1>3. PICK n \in 0..MaxArray : u \in [1..n -> Elements]
  BY <1>2 DEF Arr!ArraysOf
<1>4. n \in Nat /\ u \in [1..n -> Int]
  <2>1. Elements \subseteq Int /\ n \in Nat
    BY <1>3, DataAssumption
  <2> QED
    BY <1>3, <2>1
<1>5. Len(u) = n
  BY <1>4
<1>6. loc = [nums |-> u, read |-> 0, write |-> 0] /\ call.nums = u
  BY <1>1, <1>2 DEF Arr!Entry
<1>7. PICK N : N = Arr!NonZero
  OBVIOUS
<1>8. Moved(N, u, n, u, 0, 0)
  <2>1. Count(N, 0) = 0
    BY CountNone
  <2>2. \A j \in 1..n : ~(j <= 0)
    OBVIOUS
  <2> QED
    BY <1>4, <2>1, <2>2 DEF Moved
<1> QED
  BY <1>1, <1>4, <1>5, <1>6, <1>7, <1>8 DEF MoveInv

LEMMA MoveStep ==
    ASSUME MoveInv, which = "arrays", call.fn = "move_zeroes", which' = which, call' = call, Arr!move_zeroes
    PROVE  MoveInv'
<1>1. PICK a, n, s, read, write, N :
          a = call.nums /\ n = Len(call.nums) /\ s = loc.nums /\ read = loc.read /\ write = loc.write /\ N = Arr!NonZero
  OBVIOUS
<1>2. /\ ret = <<>> /\ n \in Nat
      /\ loc = [nums |-> s, read |-> read, write |-> write]
      /\ Moved(N, a, n, s, read, write)
  BY <1>1 DEF MoveInv, Arr!move_zeroes, Arr!Runs
<1>3. N' = N /\ Arr!NonZero' = N /\ call.nums' = a /\ Len(call.nums)' = n
  BY <1>1 DEF Arr!NonZero, Arr!size
<1>4. ASSUME NEW t, NEW read2, NEW write2, loc' = [nums |-> t, read |-> read2, write |-> write2], ret' = ret,
             Moved(N, a, n, t, read2, write2)
      PROVE  MoveInv'
  <2>1. /\ loc'.nums = t /\ loc'.read = read2 /\ loc'.write = write2
        /\ loc' = [nums |-> loc'.nums, read |-> loc'.read, write |-> loc'.write]
    BY <1>4
  <2> QED
    BY <1>2, <1>3, <1>4, <2>1 DEF MoveInv
<1>5. /\ s \in [1..n -> Int] /\ read \in 0..n /\ write \in 0..n
      /\ read < n => \A j \in 1..n : j > read => s[j] = a[j]
  BY <1>2 DEF Moved
<1>6. CASE read < n
  <2>1. LET x == s[read + 1]
        IN  IF x # 0
                THEN Arr!Goes([nums |-> [s EXCEPT ![write + 1] = x], read |-> read + 1, write |-> write + 1])
                ELSE Arr!Goes([loc EXCEPT !.read = @ + 1])
    <3>1. ~(read = n)
      BY <1>5, <1>6
    <3> QED
      BY <1>1, <1>6, <3>1 DEF Arr!move_zeroes, Arr!size
  <2>2. read + 1 \in 1..n /\ read + 1 > read
    BY <1>2, <1>5, <1>6
  <2>3. read + 1 \in N <=> s[read + 1] # 0
    BY <1>1, <1>5, <1>6, <2>2 DEF Arr!NonZero, Arr!size
  <2>4. CASE read + 1 \in N
    <3>1. loc' = [nums |-> [s EXCEPT ![write + 1] = s[read + 1]], read |-> read + 1, write |-> write + 1] /\ ret' = ret
      BY <2>1, <2>3, <2>4 DEF Arr!Goes
    <3>2. Moved(N, a, n, [s EXCEPT ![write + 1] = s[read + 1]], read + 1, write + 1)
      BY <1>2, <1>6, <2>4, MovesNext
    <3> QED
      BY <1>4, <3>1, <3>2
  <2>5. CASE read + 1 \notin N
    <3>1. loc' = [loc EXCEPT !.read = @ + 1] /\ ret' = ret
      BY <2>1, <2>3, <2>5 DEF Arr!Goes
    <3>2. loc' = [nums |-> s, read |-> read + 1, write |-> write]
      BY <1>2, <3>1
    <3>3. Moved(N, a, n, s, read + 1, write)
      BY <1>2, <1>6, <2>5, MovesNext
    <3> QED
      BY <1>4, <3>1, <3>2, <3>3
  <2> QED
    BY <2>4, <2>5
<1>7. CASE read = n /\ write < n
  <2>1. loc' = [loc EXCEPT !.nums[write + 1] = 0, !.write = @ + 1] /\ ret' = ret
    <3>1. ~(read < n) /\ ~(write = n)
      BY <1>2, <1>5, <1>7
    <3> QED
      BY <1>1, <1>7, <3>1 DEF Arr!move_zeroes, Arr!size, Arr!Goes
  <2>2. loc' = [nums |-> [s EXCEPT ![write + 1] = 0], read |-> n, write |-> write + 1]
    BY <1>2, <1>7, <2>1
  <2>3. Moved(N, a, n, [s EXCEPT ![write + 1] = 0], n, write + 1)
    BY <1>2, <1>7, FillsUp
  <2> QED
    BY <1>4, <2>1, <2>2, <2>3
<1>8. CASE read = n /\ write = n
  <2>1. ret' = <<s>> /\ loc' = loc
    <3>1. ~(read < n) /\ ~(write < n)
      BY <1>2, <1>5, <1>8
    <3> QED
      BY <1>1, <1>8, <3>1 DEF Arr!move_zeroes, Arr!size, Arr!Returns
  <2> QED
    BY <1>1, <1>2, <1>3, <1>8, <2>1 DEF MoveInv
<1> QED
  <2>1. read < n \/ (read = n /\ write < n) \/ (read = n /\ write = n)
    BY <1>2, <1>5
  <2> QED
    BY <1>6, <1>7, <1>8, <2>1

(* move_zeroes keeps the order of the elements that are not zero and puts  *)
(* the zeroes behind them, for arrays of every length.                     *)
THEOREM ZeroesMoveBehind ==
    DataSpec => [](which = "arrays" /\ call.fn = "move_zeroes" /\ ret # <<>> => Arr!IsResult(ret[1]))
<1>1. MoveInv /\ [DataNext]_<<which, vars, topicVars, ringVars, stackQueueVars, minVars, frameVars>> => MoveInv'
  <2> SUFFICES ASSUME MoveInv,
                      [DataNext]_<<which, vars, topicVars, ringVars, stackQueueVars, minVars, frameVars>>,
                      which' = "arrays", call'.fn = "move_zeroes"
               PROVE  MoveInv'
    BY DEF MoveInv
  <2>1. which = "arrays"
    BY DEF DataNext, Call, Turn
  <2>2. /\ which' = which /\ call' = call
        /\ Arr!Next \/ UNCHANGED <<loc, ret>>
    BY <2>1, ArraysStepIs
  <2>3. CASE Arr!move_zeroes
    BY <2>1, <2>2, <2>3, MoveStep
  <2>4. CASE UNCHANGED <<loc, ret>>
    BY <2>1, <2>2, <2>4 DEF MoveInv, Arr!NonZero, Arr!size
  <2> QED
    BY <2>2, <2>3, <2>4 DEF Arr!Next, Arr!Runs, Arr!rotate, Arr!min_sub_array_len, Arr!run
<1>2. MoveInv => (which = "arrays" /\ call.fn = "move_zeroes" /\ ret # <<>> => Arr!IsResult(ret[1]))
  <2> SUFFICES ASSUME MoveInv, which = "arrays", call.fn = "move_zeroes", ret # <<>>
               PROVE  Arr!IsResult(ret[1])
    OBVIOUS
  <2>1. PICK r, n, N, a : r = loc.nums /\ n = Len(call.nums) /\ N = Arr!NonZero /\ a = call.nums
    OBVIOUS
  <2>2. ret[1] = r /\ n \in Nat /\ Moved(N, a, n, r, n, n)
    BY <2>1 DEF MoveInv
  <2>3. /\ r \in [1..n -> Int]
        /\ \A j \in 1..n : j \in N => r[Count(N, j)] = a[j]
        /\ \A j \in 1..n : Count(N, n) < j => r[j] = 0
    BY <2>2 DEF Moved
  <2>4. Len(r) = n
    BY <2>2, <2>3
  <2>5. N \subseteq 1..n
    BY <2>1 DEF Arr!NonZero, Arr!size
  <2>6. Cardinality(N) = Count(N, n) /\ Cardinality(N) \in Nat
    <3>1. N \cap 1..n = N
      BY <2>5
    <3>2. Count(N, n) \in Nat
      BY <2>2, CountType
    <3> QED
      BY <3>1, <3>2 DEF Count
  <2>7. \A j \in 1..n : j > Cardinality(N) => r[j] = 0
    BY <2>2, <2>3, <2>6
  <2>8. \A j \in N : r[Cardinality(N \cap 1..j)] = a[j]
    BY <2>3, <2>5 DEF Count
  <2>9. /\ \A j \in Arr!NonZero : r[Arr!Cardinality(Arr!NonZero \cap 1..j)] = call.nums[j]
        /\ \A j \in 1..Arr!size : j > Arr!Cardinality(Arr!NonZero) => r[j] = 0
        /\ Len(r) = Arr!size
    BY <2>1, <2>4, <2>7, <2>8, SameCardinality DEF Arr!size
  <2> QED
    <3>1. Arr!IsResult(r)
      BY <2>9 DEF Arr!IsResult
    <3> QED
      BY <2>2, <3>1
<1> QED
  BY <1>1, <1>2, MoveStarts, PTL DEF DataSpec


-----------------------------------------------------------------------------
(* array_medium_minimum_size_subarray: f are the sums of the elements of a *)
(* up to each position.                                                    *)

SumsOf(a, n, f) == f = [i \in 0..n |-> IF i = 0 THEN 0 ELSE f[i - 1] + a[i]]

(* The recursive definition of SumOf has a solution.                       *)
LEMMA SumsExist ==
    ASSUME NEW n \in Nat, NEW a \in [1..n -> Nat]
    PROVE  \E f : SumsOf(a, n, f)
<1> DEFINE Bad == {m \in Nat : m <= n /\ ~ \E f : SumsOf(a, m, f)}
<1>1. SUFFICES ASSUME n \in Bad PROVE FALSE
  OBVIOUS
<1>2. PICK m \in Bad : \A y \in Bad : ~(<<y, m>> \in OpToRel(<, Nat))
  BY <1>1, NatLessThanWellFounded, WFMin
<1>3. m \in Nat /\ m <= n /\ ~ \E f : SumsOf(a, m, f)
  BY <1>2
<1>4. CASE m = 0
  <2>1. PICK f : f = [i \in 0..0 |-> 0]
    OBVIOUS
  <2>2. SumsOf(a, 0, f)
    BY <2>1 DEF SumsOf
  <2> QED
    BY <1>3, <1>4, <2>2
<1>5. CASE m # 0
  <2>1. PICK k \in Nat : m = k + 1 /\ k <= n
    <3>1. m - 1 \in Nat /\ m = (m - 1) + 1 /\ m - 1 <= n
      BY <1>3, <1>5
    <3> QED
      BY <3>1
  <2>2. k \notin Bad
    <3>1. <<k, m>> \in OpToRel(<, Nat)
      BY <1>3, <2>1 DEF OpToRel
    <3> QED
      BY <1>2, <3>1
  <2>3. PICK f : SumsOf(a, k, f)
    BY <2>1, <2>2
  <2>4. PICK g : g = [i \in 0..m |-> IF i = 0 THEN 0 ELSE f[i - 1] + a[i]]
    OBVIOUS
  <2>5. \A i \in 0..k : g[i] = f[i]
    <3>1. f = [i \in 0..k |-> IF i = 0 THEN 0 ELSE f[i - 1] + a[i]]
      BY <2>3 DEF SumsOf
    <3>2. \A i \in 0..k : i \in 0..m
      BY <2>1
    <3> QED
      BY <2>4, <3>1, <3>2
  <2>6. ASSUME NEW i \in 0..m PROVE g[i] = IF i = 0 THEN 0 ELSE g[i - 1] + a[i]
    <3>1. CASE i = 0
      BY <2>4, <3>1
    <3>2. CASE i # 0
      <4>1. i - 1 \in 0..k
        BY <2>1, <3>2
      <4> QED
        BY <2>4, <2>5, <3>2, <4>1
    <3> QED
      BY <3>1, <3>2
  <2>7. SumsOf(a, m, g)
    BY <2>4, <2>6 DEF SumsOf
  <2> QED
    BY <1>3, <2>7
<1> QED
  BY <1>4, <1>5

LEMMA SumsAreNaturals ==
    ASSUME NEW n \in Nat, NEW a \in [1..n -> Nat], NEW f, SumsOf(a, n, f)
    PROVE  /\ f \in [0..n -> Nat]
           /\ f[0] = 0
           /\ \A i \in 1..n : f[i] = f[i - 1] + a[i]
<1>1. f = [i \in 0..n |-> IF i = 0 THEN 0 ELSE f[i - 1] + a[i]]
  BY DEF SumsOf
<1>2. f[0] = 0
  <2>1. 0 \in 0..n
    OBVIOUS
  <2> QED
    BY <1>1, <2>1
<1>3. ASSUME NEW i \in 1..n PROVE f[i] = f[i - 1] + a[i]
  <2>1. i \in 0..n /\ i # 0
    OBVIOUS
  <2> QED
    BY <1>1, <2>1
<1>4. \A i \in 0..n : f[i] \in Nat
  <2> DEFINE Bad == {i \in Nat : i <= n /\ f[i] \notin Nat}
  <2>1. SUFFICES ASSUME NEW j \in Bad PROVE FALSE
    OBVIOUS
  <2>2. PICK m \in Bad : \A y \in Bad : ~(<<y, m>> \in OpToRel(<, Nat))
    BY <2>1, NatLessThanWellFounded, WFMin
  <2>3. m \in Nat /\ m <= n /\ f[m] \notin Nat /\ m # 0
    BY <1>2, <2>2
  <2>4. PICK k \in Nat : k = m - 1 /\ k < m /\ k <= n /\ m \in 1..n
    BY <2>3
  <2>5. k \notin Bad
    <3>1. <<k, m>> \in OpToRel(<, Nat)
      BY <2>3, <2>4 DEF OpToRel
    <3> QED
      BY <2>2, <3>1
  <2>6. f[k] \in Nat
    BY <2>4, <2>5
  <2>7. f[m] = f[k] + a[m] /\ a[m] \in Nat
    BY <1>3, <2>4
  <2> QED
    BY <2>3, <2>6, <2>7
<1> QED
  BY <1>1, <1>2, <1>3, <1>4

LEMMA SumsRise ==
    ASSUME NEW n \in Nat, NEW a \in [1..n -> Nat], NEW f, SumsOf(a, n, f), NEW i \in 0..n, NEW j \in 0..n, i <= j
    PROVE  f[i] <= f[j]
<1>1. /\ f \in [0..n -> Nat]
      /\ \A p \in 1..n : f[p] = f[p - 1] + a[p]
  BY SumsAreNaturals
<1> DEFINE Bad == {p \in Nat : p <= n /\ i <= p /\ ~(f[i] <= f[p])}
<1>2. SUFFICES ASSUME j \in Bad PROVE FALSE
  OBVIOUS
<1>3. PICK m \in Bad : \A y \in Bad : ~(<<y, m>> \in OpToRel(<, Nat))
  BY <1>2, NatLessThanWellFounded, WFMin
<1>4. m \in Nat /\ m <= n /\ i <= m /\ ~(f[i] <= f[m])
  BY <1>3
<1>5. m # i
  BY <1>1, <1>4
<1>6. PICK k \in Nat : k = m - 1 /\ k < m /\ k <= n /\ m \in 1..n /\ i <= k
  BY <1>4, <1>5
<1>7. k \notin Bad
  <2>1. <<k, m>> \in OpToRel(<, Nat)
    BY <1>4, <1>6 DEF OpToRel
  <2> QED
    BY <1>3, <2>1
<1>8. f[i] <= f[k]
  BY <1>6, <1>7
<1>9. f[m] = f[k] + a[m] /\ a[m] \in Nat /\ f[k] \in Nat /\ f[i] \in Nat
  BY <1>1, <1>6
<1> QED
  BY <1>4, <1>8, <1>9

Enough(f, n, t) == {w \in (1..n) \X (1..n) : w[1] <= w[2] /\ f[w[2]] - f[w[1] - 1] >= t}

(* The window has passed every one that starts before it or ends before    *)
(* its end.                                                                *)
Shortest(f, n, t, left, right, sum, best) ==
    /\ left \in 0..n /\ right \in 0..n /\ left <= right
    /\ sum = f[right] - f[left]
    /\ best \in Nat
    /\ best = MaxInt \/ \E w \in Enough(f, n, t) : best = w[2] - w[1] + 1
    /\ \A w \in Enough(f, n, t) : w[1] <= left \/ w[2] < right => best <= w[2] - w[1] + 1

LEMMA IsEnough ==
    ASSUME NEW f, NEW n \in Nat, NEW t, NEW x \in 1..n, NEW y \in 1..n, x <= y, f[y] - f[x - 1] >= t
    PROVE  <<x, y>> \in Enough(f, n, t)
<1>1. <<x, y>> \in (1..n) \X (1..n) /\ <<x, y>>[1] = x /\ <<x, y>>[2] = y
  OBVIOUS
<1> QED
  BY <1>1 DEF Enough

LEMMA MaxIntIsNatural == MaxInt \in Nat
BY SMT DEF MaxInt

LEMMA Shrinks ==
    ASSUME NEW n \in Nat, NEW a \in [1..n -> Nat], NEW f, SumsOf(a, n, f), NEW t \in Nat \ {0},
           NEW left, NEW right, NEW sum, NEW best, Shortest(f, n, t, left, right, sum, best), sum >= t,
           NEW best2, best2 = IF right - left < best THEN right - left ELSE best
    PROVE  left + 1 \in 1..n /\ Shortest(f, n, t, left + 1, right, sum - a[left + 1], best2)
<1>1. /\ left \in 0..n /\ right \in 0..n /\ left <= right
      /\ sum = f[right] - f[left]
      /\ best \in Nat
      /\ best = MaxInt \/ \E w \in Enough(f, n, t) : best = w[2] - w[1] + 1
      /\ \A w \in Enough(f, n, t) : w[1] <= left \/ w[2] < right => best <= w[2] - w[1] + 1
  BY DEF Shortest
<1>2. /\ f \in [0..n -> Nat]
      /\ \A p \in 1..n : f[p] = f[p - 1] + a[p]
  BY SumsAreNaturals
<1>a. left \in Nat /\ right \in Nat /\ left <= right /\ best \in Nat /\ f[right] - f[left] >= t
  BY <1>1
<1>3. left # right
  BY <1>1, <1>2
<1>4. left + 1 \in 0..n /\ left + 1 <= right /\ left + 1 \in 1..n /\ right \in 1..n /\ left + 1 - 1 = left
  BY <1>1, <1>3
<1>5. sum - a[left + 1] = f[right] - f[left + 1]
  <2>1. f[left + 1] = f[left] + a[left + 1]
    <3>1. PICK p \in 1..n : p = left + 1 /\ p - 1 = left
      BY <1>1, <1>4
    <3>2. f[p] = f[p - 1] + a[p]
      BY <1>2
    <3> QED
      BY <3>1, <3>2
  <2>2. f[left] \in Nat /\ f[right] \in Nat /\ a[left + 1] \in Nat
    BY <1>1, <1>2, <1>4
  <2> QED
    BY <1>1, <2>1, <2>2
<1>6. best2 \in Nat /\ best2 <= best /\ best2 <= right - left
  BY <1>1
<1>7. best2 = MaxInt \/ \E w \in Enough(f, n, t) : best2 = w[2] - w[1] + 1
  <2>1. CASE right - left < best
    <3>1. PICK w : w = <<left + 1, right>>
      OBVIOUS
    <3>2. w \in Enough(f, n, t)
      <4>1. f[right] - f[left + 1 - 1] >= t
        BY <1>a, <1>4
      <4> QED
        BY <1>a, <1>4, <3>1, <4>1, IsEnough
    <3>3. best2 = w[2] - w[1] + 1
      <4>1. right - (left + 1) + 1 = right - left
        BY <1>a
      <4> QED
        BY <2>1, <3>1, <4>1
    <3> QED
      BY <3>2, <3>3
  <2>2. CASE ~(right - left < best)
    <3>1. best2 = best
      BY <2>2
    <3> QED
      BY <1>1, <3>1
  <2> QED
    BY <2>1, <2>2
<1>8. ASSUME NEW w \in Enough(f, n, t), w[1] <= left + 1 \/ w[2] < right PROVE best2 <= w[2] - w[1] + 1
  <2>1. w[1] \in 1..n /\ w[2] \in 1..n
    BY DEF Enough
  <2>2. CASE w[1] <= left \/ w[2] < right
    <3>1. best <= w[2] - w[1] + 1
      BY <1>1, <2>2
    <3> QED
      BY <1>a, <1>6, <2>1, <3>1
  <2>3. CASE w[1] = left + 1 /\ w[2] >= right
    BY <1>a, <1>6, <2>1, <2>3
  <2>4. (w[1] <= left \/ w[2] < right) \/ (w[1] = left + 1 /\ w[2] >= right)
    BY <1>a, <1>8, <2>1
  <2> QED
    BY <2>2, <2>3, <2>4
<1> QED
  BY <1>1, <1>4, <1>5, <1>6, <1>7, <1>8 DEF Shortest

(* No window that ends here and starts behind left is enough.              *)
LEMMA NotEnough ==
    ASSUME NEW n \in Nat, NEW a \in [1..n -> Nat], NEW f, SumsOf(a, n, f), NEW t \in Nat \ {0},
           NEW left, NEW right, NEW sum, NEW best, Shortest(f, n, t, left, right, sum, best), sum < t,
           NEW w \in Enough(f, n, t), w[2] <= right
    PROVE  best <= w[2] - w[1] + 1
<1>1. /\ left \in 0..n /\ right \in 0..n /\ left <= right
      /\ sum = f[right] - f[left]
      /\ \A v \in Enough(f, n, t) : v[1] <= left \/ v[2] < right => best <= v[2] - v[1] + 1
  BY DEF Shortest
<1>2. w[1] \in 1..n /\ w[2] \in 1..n /\ f[w[2]] - f[w[1] - 1] >= t
  BY DEF Enough
<1>3. CASE w[1] <= left \/ w[2] < right
  BY <1>1, <1>3
<1>4. CASE ~(w[1] <= left \/ w[2] < right)
  <2>1. w[2] = right /\ left <= w[1] - 1 /\ w[1] - 1 \in 0..n
    <3>1. left \in Nat /\ right \in Nat /\ w[1] \in 1..n /\ w[2] \in 1..n
      BY <1>1, <1>2
    <3> QED
      BY <1>4, <3>1
  <2>2. f[left] <= f[w[1] - 1]
    BY <1>1, <2>1, SumsRise
  <2>3. f \in [0..n -> Nat]
    BY SumsAreNaturals
  <2>4. f[left] \in Nat /\ f[w[1] - 1] \in Nat /\ f[right] \in Nat
    BY <1>1, <2>1, <2>3
  <2>5. f[right] - f[left] < t /\ f[right] - f[w[1] - 1] >= t
    BY <1>1, <1>2, <2>1
  <2>6. FALSE
    BY <2>2, <2>4, <2>5
  <2> QED
    BY <2>6
<1> QED
  BY <1>3, <1>4

LEMMA Grows ==
    ASSUME NEW n \in Nat, NEW a \in [1..n -> Nat], NEW f, SumsOf(a, n, f), NEW t \in Nat \ {0},
           NEW left, NEW right, NEW sum, NEW best, Shortest(f, n, t, left, right, sum, best), sum < t, right < n
    PROVE  Shortest(f, n, t, left, right + 1, sum + a[right + 1], best)
<1>1. /\ left \in 0..n /\ right \in 0..n /\ left <= right
      /\ sum = f[right] - f[left]
      /\ best \in Nat
      /\ best = MaxInt \/ \E w \in Enough(f, n, t) : best = w[2] - w[1] + 1
      /\ \A w \in Enough(f, n, t) : w[1] <= left \/ w[2] < right => best <= w[2] - w[1] + 1
  BY DEF Shortest
<1>2. /\ f \in [0..n -> Nat]
      /\ \A p \in 1..n : f[p] = f[p - 1] + a[p]
  BY SumsAreNaturals
<1>3. right + 1 \in 0..n /\ right + 1 \in 1..n /\ left <= right + 1 /\ right + 1 - 1 = right
  BY <1>1
<1>4. sum + a[right + 1] = f[right + 1] - f[left]
  <2>1. f[right + 1] = f[right] + a[right + 1]
    <3>1. PICK p \in 1..n : p = right + 1 /\ p - 1 = right
      BY <1>1, <1>3
    <3>2. f[p] = f[p - 1] + a[p]
      BY <1>2
    <3> QED
      BY <3>1, <3>2
  <2>2. f[left] \in Nat /\ f[right] \in Nat /\ a[right + 1] \in Nat
    BY <1>1, <1>2, <1>3
  <2> QED
    BY <1>1, <2>1, <2>2
<1>5. ASSUME NEW w \in Enough(f, n, t), w[1] <= left \/ w[2] < right + 1 PROVE best <= w[2] - w[1] + 1
  <2>1. w[1] \in 1..n /\ w[2] \in 1..n
    BY DEF Enough
  <2>2. CASE w[1] <= left
    BY <1>1, <2>2
  <2>3. CASE w[2] < right + 1
    <3>1. w[2] <= right
      BY <1>1, <2>1, <2>3
    <3> QED
      BY <3>1, NotEnough
  <2> QED
    BY <1>5, <2>2, <2>3
<1> QED
  BY <1>1, <1>3, <1>4, <1>5 DEF Shortest

SubArrayInv ==
    which = "arrays" /\ call.fn = "min_sub_array_len" =>
        /\ Len(call.nums) \in 0..MaxArray /\ call.nums \in [1..Len(call.nums) -> Nat]
        /\ call.target \in Nat \ {0}
        /\ loc = [left |-> loc.left, right |-> loc.right, sum |-> loc.sum, best |-> loc.best]
        /\ loc.right \in Int
        /\ Shortest(Arr!SumOf, Len(call.nums), call.target, loc.left, loc.right + 1, loc.sum, loc.best)
        /\ ret # <<>> =>
               /\ loc.sum < call.target /\ loc.right + 1 = Len(call.nums)
               /\ ret = <<IF loc.best = MaxInt THEN 0 ELSE loc.best>>

LEMMA SumOfIs ==
    ASSUME Len(call.nums) \in Nat, call.nums \in [1..Len(call.nums) -> Nat]
    PROVE  SumsOf(call.nums, Len(call.nums), Arr!SumOf)
<1>1. \E f : SumsOf(call.nums, Len(call.nums), f)
  BY SumsExist
<1>2. \E f : f = [i \in 0..Arr!size |-> IF i = 0 THEN 0 ELSE f[i - 1] + call.nums[i]]
  BY <1>1 DEF SumsOf, Arr!size
<1>3. Arr!SumOf = CHOOSE f : f = [i \in 0..Arr!size |-> IF i = 0 THEN 0 ELSE f[i - 1] + call.nums[i]]
  BY DEF Arr!SumOf
<1>4. Arr!SumOf = [i \in 0..Arr!size |-> IF i = 0 THEN 0 ELSE Arr!SumOf[i - 1] + call.nums[i]]
  BY <1>2, <1>3
<1> QED
  BY <1>4 DEF SumsOf, Arr!size

LEMMA SubArrayStarts == DataInit => SubArrayInv
<1> SUFFICES ASSUME DataInit, which = "arrays", call.fn = "min_sub_array_len"
             PROVE  SubArrayInv
  BY DEF SubArrayInv
<1>1. call \in Arr!Calls /\ loc = Arr!Entry(call) /\ ret = <<>>
  BY DEF DataInit, Begins
<1>2. PICK u \in Arr!ArraysOf(Arr!Summands), t \in 1..(MaxArray + 1) :
          call = [fn |-> "min_sub_array_len", nums |-> u, target |-> t]
  BY <1>1 DEF Arr!Calls
<1>3. PICK n \in 0..MaxArray : u \in [1..n -> Arr!Summands]
  BY <1>2 DEF Arr!ArraysOf
<1>4. MaxArray \in Nat
  BY DataAssumption
<1>5. n \in Nat /\ t \in Nat \ {0} /\ u \in [1..n -> Nat]
  <2>1. Arr!Summands \subseteq Nat
    BY DEF Arr!Summands
  <2>2. u \in [1..n -> Nat]
    BY <1>3, <2>1
  <2>3. n \in Nat /\ t \in Nat \ {0}
    BY <1>4
  <2> QED
    BY <2>2, <2>3
<1>6. Len(u) = n
  BY <1>5
<1>7. call.nums = u /\ call.target = t
  BY <1>2
<1>8. loc = [left |-> 0, right |-> -1, sum |-> 0, best |-> MaxInt]
  BY <1>1, <1>2 DEF Arr!Entry
<1>9. loc.left = 0 /\ loc.right = -1 /\ loc.sum = 0 /\ loc.best = MaxInt /\ loc.right + 1 = 0
  BY <1>8
<1>10. PICK f : f = Arr!SumOf /\ SumsOf(u, n, f)
  BY <1>5, <1>6, <1>7, SumOfIs
<1>11. Shortest(f, n, t, 0, 0, 0, MaxInt)
  <2>1. f[0] = 0
    BY <1>5, <1>10, SumsAreNaturals
  <2>2. \A w \in Enough(f, n, t) : ~(w[1] <= 0 \/ w[2] < 0)
    <3> SUFFICES ASSUME NEW w \in Enough(f, n, t) PROVE ~(w[1] <= 0 \/ w[2] < 0)
      OBVIOUS
    <3>1. w[1] \in 1..n /\ w[2] \in 1..n
      BY DEF Enough
    <3> QED
      BY <1>5, <3>1
  <2> QED
    BY <1>5, <2>1, <2>2, MaxIntIsNatural DEF Shortest
<1> QED
  BY <1>1, <1>3, <1>5, <1>6, <1>7, <1>8, <1>9, <1>10, <1>11 DEF SubArrayInv

LEMMA SubArrayStep ==
    ASSUME SubArrayInv, which = "arrays", call.fn = "min_sub_array_len", which' = which, call' = call,
           Arr!min_sub_array_len
    PROVE  SubArrayInv'
<1>1. PICK a, n, t, f, left, right, sum, best :
          /\ a = call.nums /\ n = Len(call.nums) /\ t = call.target /\ f = Arr!SumOf
          /\ left = loc.left /\ right = loc.right /\ sum = loc.sum /\ best = loc.best
  OBVIOUS
<1>2. /\ ret = <<>> /\ n \in Nat /\ a \in [1..n -> Nat] /\ t \in Nat \ {0} /\ right \in Int
      /\ loc = [left |-> left, right |-> right, sum |-> sum, best |-> best]
      /\ Shortest(f, n, t, left, right + 1, sum, best)
  <2>1. MaxArray \in Nat
    BY DataAssumption
  <2> QED
    BY <1>1, <2>1 DEF SubArrayInv, Arr!min_sub_array_len, Arr!Runs
<1>3. SumsOf(a, n, f)
  BY <1>1, <1>2, SumOfIs
<1>4. call.nums' = a /\ Len(call.nums)' = n /\ call.target' = t /\ Arr!SumOf' = f /\ n \in 0..MaxArray
  BY <1>1 DEF Arr!SumOf, Arr!size, SubArrayInv
<1>5. ASSUME NEW left2, NEW right2 \in Int, NEW sum2, NEW best2, ret' = ret,
             loc' = [left |-> left2, right |-> right2, sum |-> sum2, best |-> best2],
             Shortest(f, n, t, left2, right2 + 1, sum2, best2)
      PROVE  SubArrayInv'
  <2>1. /\ loc'.left = left2 /\ loc'.right = right2 /\ loc'.sum = sum2 /\ loc'.best = best2
        /\ loc' = [left |-> loc'.left, right |-> loc'.right, sum |-> loc'.sum, best |-> loc'.best]
    BY <1>5
  <2> QED
    BY <1>2, <1>4, <1>5, <2>1 DEF SubArrayInv
<1>6. left \in 0..n /\ right + 1 \in 0..n /\ sum = f[right + 1] - f[left] /\ sum \in Int /\ best \in Nat
  <2>1. left \in 0..n /\ right + 1 \in 0..n /\ sum = f[right + 1] - f[left] /\ best \in Nat
    BY <1>2 DEF Shortest
  <2>2. f \in [0..n -> Nat]
    BY <1>2, <1>3, SumsAreNaturals
  <2>3. f[right + 1] \in Nat /\ f[left] \in Nat
    BY <2>1, <2>2
  <2> QED
    BY <2>1, <2>3
<1>7. CASE sum >= t
  <2>1. loc' = [loc EXCEPT !.best = IF right - left + 1 < @ THEN right - left + 1 ELSE @,
                           !.sum = @ - a[left + 1],
                           !.left = @ + 1] /\ ret' = ret
    <3>1. ~(sum < t)
      BY <1>2, <1>6, <1>7
    <3> QED
      BY <1>1, <1>7, <3>1 DEF Arr!min_sub_array_len, Arr!Goes
  <2>2. PICK best2 : best2 = IF right + 1 - left < best THEN right + 1 - left ELSE best
    OBVIOUS
  <2>3. right - left + 1 = right + 1 - left
    BY <1>2, <1>6
  <2>4. loc' = [left |-> left + 1, right |-> right, sum |-> sum - a[left + 1], best |-> best2]
    BY <1>2, <2>1, <2>2, <2>3
  <2>5. Shortest(f, n, t, left + 1, right + 1, sum - a[left + 1], best2)
    <3>1. PICK end, sum2 : end = right + 1 /\ sum2 = sum - a[left + 1]
      OBVIOUS
    <3>2. Shortest(f, n, t, left, end, sum, best) /\ best2 = IF end - left < best THEN end - left ELSE best
      <4>1. Shortest(f, n, t, left, end, sum, best)
        BY <1>2, <3>1
      <4>2. best2 = IF end - left < best THEN end - left ELSE best
        BY <1>2, <1>6, <2>2, <3>1
      <4> QED
        BY <4>1, <4>2
    <3>3. Shortest(f, n, t, left + 1, end, sum - a[left + 1], best2)
      BY <1>2, <1>3, <1>7, <3>2, Shrinks
    <3> QED
      BY <3>1, <3>3
  <2> QED
    BY <1>2, <1>5, <2>1, <2>4, <2>5
<1>8. CASE sum < t /\ right + 1 < n
  <2>1. loc' = [loc EXCEPT !.right = @ + 1, !.sum = @ + a[right + 2]] /\ ret' = ret
    <3>1. ~(sum >= t) /\ ~(right + 1 = n)
      BY <1>2, <1>6, <1>8
    <3> QED
      BY <1>1, <1>8, <3>1 DEF Arr!min_sub_array_len, Arr!size, Arr!Goes
  <2>2. right + 2 = right + 1 + 1 /\ right + 1 \in Int
    BY <1>2
  <2>3. loc' = [left |-> left, right |-> right + 1, sum |-> sum + a[right + 1 + 1], best |-> best]
    BY <1>2, <2>1, <2>2
  <2>4. Shortest(f, n, t, left, right + 1 + 1, sum + a[right + 1 + 1], best)
    BY <1>2, <1>3, <1>8, Grows
  <2> QED
    BY <1>5, <2>1, <2>2, <2>3, <2>4
<1>9. CASE sum < t /\ right + 1 = n
  <2>1. ret' = <<IF best = MaxInt THEN 0 ELSE best>> /\ loc' = loc
    <3>1. ~(sum >= t) /\ ~(right + 1 < n)
      BY <1>2, <1>6, <1>9
    <3> QED
      BY <1>1, <1>9, <3>1 DEF Arr!min_sub_array_len, Arr!size, Arr!Returns
  <2> QED
    BY <1>1, <1>2, <1>4, <1>9, <2>1 DEF SubArrayInv
<1> QED
  <2>1. sum >= t \/ (sum < t /\ right + 1 < n) \/ (sum < t /\ right + 1 = n)
    BY <1>2, <1>6
  <2> QED
    BY <1>7, <1>8, <1>9, <2>1

(* min_sub_array_len finds the length of the shortest window that sums to  *)
(* the target, or 0, for every array whose length is below INT_MAX.        *)
THEOREM ShortestWindow ==
    DataSpec => [](which = "arrays" /\ call.fn = "min_sub_array_len" /\ ret # <<>> => Arr!IsResult(ret[1]))
<1>1. SubArrayInv /\ [DataNext]_<<which, vars, topicVars, ringVars, stackQueueVars, minVars, frameVars>>
          => SubArrayInv'
  <2> SUFFICES ASSUME SubArrayInv,
                      [DataNext]_<<which, vars, topicVars, ringVars, stackQueueVars, minVars, frameVars>>,
                      which' = "arrays", call'.fn = "min_sub_array_len"
               PROVE  SubArrayInv'
    BY DEF SubArrayInv
  <2>1. which = "arrays"
    BY DEF DataNext, Call, Turn
  <2>2. /\ which' = which /\ call' = call
        /\ Arr!Next \/ UNCHANGED <<loc, ret>>
    BY <2>1, ArraysStepIs
  <2>3. CASE Arr!min_sub_array_len
    BY <2>1, <2>2, <2>3, SubArrayStep
  <2>4. CASE UNCHANGED <<loc, ret>>
    BY <2>1, <2>2, <2>4 DEF SubArrayInv, Arr!SumOf, Arr!size
  <2> QED
    BY <2>2, <2>3, <2>4 DEF Arr!Next, Arr!Runs, Arr!rotate, Arr!move_zeroes, Arr!run
<1>2. SubArrayInv => (which = "arrays" /\ call.fn = "min_sub_array_len" /\ ret # <<>> => Arr!IsResult(ret[1]))
  <2> SUFFICES ASSUME SubArrayInv, which = "arrays", call.fn = "min_sub_array_len", ret # <<>>
               PROVE  Arr!IsResult(ret[1])
    OBVIOUS
  <2>1. PICK a, n, t, f, left, sum, best :
          /\ a = call.nums /\ n = Len(call.nums) /\ t = call.target /\ f = Arr!SumOf
          /\ left = loc.left /\ sum = loc.sum /\ best = loc.best
    OBVIOUS
  <2>2. /\ n \in Nat /\ a \in [1..n -> Nat] /\ t \in Nat \ {0} /\ n < MaxInt
        /\ Shortest(f, n, t, left, n, sum, best) /\ sum < t
        /\ ret[1] = IF best = MaxInt THEN 0 ELSE best
    <3>1. MaxArray \in Nat /\ MaxArray < MaxInt
      BY DataAssumption
    <3>2. n \in 0..MaxArray
      BY <2>1 DEF SubArrayInv
    <3>3. n \in Nat /\ n < MaxInt
      BY <3>1, <3>2, MaxIntIsNatural
    <3> QED
      BY <2>1, <3>3 DEF SubArrayInv
  <2>3. SumsOf(a, n, f)
    BY <2>1, <2>2, SumOfIs
  <2>4. PICK W : W = Enough(f, n, t) /\ W = Arr!Windows
    BY <2>1 DEF Enough, Arr!Windows, Arr!size
  <2>5. ASSUME NEW w \in W PROVE best <= w[2] - w[1] + 1 /\ w[2] - w[1] + 1 \in 1..n
    <3>1. w[1] \in 1..n /\ w[2] \in 1..n /\ w[1] <= w[2]
      BY <2>4 DEF Enough
    <3>2. w[2] <= n
      BY <2>2, <3>1
    <3>3. best <= w[2] - w[1] + 1
      BY <2>2, <2>3, <2>4, <3>2, NotEnough
    <3> QED
      BY <2>2, <3>1, <3>3
  <2>6. best \in Nat /\ (best = MaxInt \/ \E w \in W : best = w[2] - w[1] + 1)
    BY <2>2, <2>4 DEF Shortest
  <2>7. CASE best = MaxInt
    <3>1. W = {}
      BY <2>2, <2>5, <2>7, MaxIntIsNatural
    <3>2. Arr!Windows = {} /\ ret[1] = 0
      BY <2>2, <2>4, <2>7, <3>1
    <3> QED
      BY <3>2 DEF Arr!IsResult
  <2>8. CASE best # MaxInt
    <3>1. ret[1] = best /\ Arr!Windows # {}
      BY <2>2, <2>4, <2>6, <2>8
    <3>2. \E w \in Arr!Windows : ret[1] = w[2] - w[1] + 1
      BY <2>4, <2>6, <2>8, <3>1
    <3>3. \A w \in Arr!Windows : ret[1] <= w[2] - w[1] + 1
      BY <2>4, <2>5, <3>1
    <3> QED
      BY <3>1, <3>2, <3>3 DEF Arr!IsResult
  <2> QED
    BY <2>7, <2>8
<1> QED
  BY <1>1, <1>2, SubArrayStarts, PTL DEF DataSpec
=============================================================================
