---------------------------- MODULE ReturnProofs ----------------------------
(***************************************************************************)
(* What the functions over stacks, queues and grids return, and what goes  *)
(* over the wires in numbers, for every input; and what follows from this  *)
(* and the two modules before for all functions together.                  *)
(***************************************************************************)
EXTENDS AlgorithmProofs

-----------------------------------------------------------------------------
(* stack_easy_valid_parentheses: d[i] is how many brackets are open behind *)
(* the first i characters of tx.                                           *)

Positions(S, tx, n) == {p \in 1..n : tx[p] \in S}

Depths(tx, n) ==
    [i \in 0..n |-> Count(Positions(Stk!Left, tx, n), i) - Count(Positions(Stk!Right, tx, n), i)]

LEMMA DepthsAre ==
    ASSUME NEW n \in Nat, NEW tx, NEW d, d = Depths(tx, n)
    PROVE  /\ d \in [0..n -> Int] /\ d[0] = 0
           /\ \A i \in 0..(n - 1) :
                  d[i + 1] = IF tx[i + 1] \in Stk!Left THEN d[i] + 1
                             ELSE IF tx[i + 1] \in Stk!Right THEN d[i] - 1 ELSE d[i]
<1>1. PICK L, R : L = Positions(Stk!Left, tx, n) /\ R = Positions(Stk!Right, tx, n)
  OBVIOUS
<1>2. d = [i \in 0..n |-> Count(L, i) - Count(R, i)]
  BY <1>1 DEF Depths
<1>3. \A i \in 0..n : Count(L, i) \in Nat /\ Count(R, i) \in Nat
  <2>1. \A i \in 0..n : i \in Nat
    OBVIOUS
  <2>2. \A i \in Nat : \A S : Count(S, i) \in Nat
    <3> SUFFICES ASSUME NEW i \in Nat, NEW S PROVE Count(S, i) \in Nat
      OBVIOUS
    <3>1. Count(S, i) \in 0..i
      BY CountType
    <3> QED
      BY <3>1
  <2> QED
    BY <2>1, <2>2
<1>4. d \in [0..n -> Int]
  BY <1>2, <1>3
<1>5. d[0] = 0
  <2>1. Count(L, 0) = 0 /\ Count(R, 0) = 0 /\ 0 \in 0..n
    BY CountNone
  <2> QED
    BY <1>2, <2>1
<1>6. ASSUME NEW i \in 0..(n - 1)
      PROVE  d[i + 1] = IF tx[i + 1] \in Stk!Left THEN d[i] + 1
                        ELSE IF tx[i + 1] \in Stk!Right THEN d[i] - 1 ELSE d[i]
  <2>1. i \in Nat /\ i \in 0..n /\ i + 1 \in 0..n /\ i + 1 \in 1..n
    OBVIOUS
  <2>2. Count(L, i + 1) = IF i + 1 \in L THEN Count(L, i) + 1 ELSE Count(L, i)
    BY <2>1, CountNext
  <2>3. Count(R, i + 1) = IF i + 1 \in R THEN Count(R, i) + 1 ELSE Count(R, i)
    BY <2>1, CountNext
  <2>4. (i + 1 \in L <=> tx[i + 1] \in Stk!Left) /\ (i + 1 \in R <=> tx[i + 1] \in Stk!Right)
    BY <1>1, <2>1 DEF Positions
  <2>5. ~(tx[i + 1] \in Stk!Left /\ tx[i + 1] \in Stk!Right)
    BY DEF Stk!Left, Stk!Right
  <2>6. d[i + 1] = Count(L, i + 1) - Count(R, i + 1) /\ d[i] = Count(L, i) - Count(R, i)
    BY <1>2, <2>1
  <2>7. Count(L, i) \in Nat /\ Count(R, i) \in Nat
    BY <1>3, <2>1
  <2>8. PICK cl \in Nat, cr \in Nat, cl1 \in Nat, cr1 \in Nat :
            cl = Count(L, i) /\ cr = Count(R, i) /\ cl1 = Count(L, i + 1) /\ cr1 = Count(R, i + 1)
    BY <1>3, <2>1, <2>7
  <2>9. /\ cl1 = IF tx[i + 1] \in Stk!Left THEN cl + 1 ELSE cl
        /\ cr1 = IF tx[i + 1] \in Stk!Right THEN cr + 1 ELSE cr
        /\ d[i + 1] = cl1 - cr1 /\ d[i] = cl - cr
    BY <2>2, <2>3, <2>4, <2>6, <2>8
  <2>10. CASE tx[i + 1] \in Stk!Left
    <3>1. cl1 = cl + 1 /\ cr1 = cr
      BY <2>5, <2>9, <2>10
    <3> QED
      BY <2>9, <2>10, <3>1
  <2>11. CASE tx[i + 1] \notin Stk!Left
    BY <2>9, <2>11
  <2> QED
    BY <2>10, <2>11
<1> QED
  BY <1>4, <1>5, <1>6

EndsAt(tx, d, q, p) ==
    /\ tx[q] \in Stk!Left /\ tx[p] \in Stk!Right
    /\ d[p] = d[q] - 1
    /\ \A r \in q..(p - 1) : d[r] >= d[q]

PairedUpTo(tx, d, i) ==
    /\ \A j \in 1..i : d[j] >= 0
    /\ \A p \in 1..i : \A q \in 1..(p - 1) : EndsAt(tx, d, q, p) => Stk!is_pair(tx[q], tx[p])

(* The bracket that opened depth k, and is still open behind i.            *)
Opened(tx, d, i, k, q) ==
    /\ q \in 1..i /\ tx[q] \in Stk!Left /\ d[q] = k
    /\ \A r \in q..i : d[r] >= k

Nested(tx, n, d, i, st) ==
    /\ i \in 0..n
    /\ st \in Seq(Stk!Left) /\ Len(st) = d[i]
    /\ PairedUpTo(tx, d, i)
    /\ \A k \in 1..Len(st) : \E q : Opened(tx, d, i, k, q) /\ st[k] = tx[q]

(* There is only one such bracket.                                         *)
LEMMA OpenedOnce ==
    ASSUME NEW n \in Nat, NEW tx, NEW d, d = Depths(tx, n), NEW i \in 0..n, NEW k \in Int,
           NEW q, NEW p, Opened(tx, d, i, k, q), Opened(tx, d, i, k, p), q < p
    PROVE  FALSE
<1>1. /\ d \in [0..n -> Int]
      /\ \A j \in 0..(n - 1) :
             d[j + 1] = IF tx[j + 1] \in Stk!Left THEN d[j] + 1
                        ELSE IF tx[j + 1] \in Stk!Right THEN d[j] - 1 ELSE d[j]
  BY DepthsAre
<1>2. q \in 1..i /\ p \in 1..i /\ tx[p] \in Stk!Left /\ d[p] = k /\ \A r \in q..i : d[r] >= k
  BY DEF Opened
<1>3. PICK j \in 0..(n - 1) : p = j + 1 /\ j \in q..i
  <2>1. p - 1 \in 0..(n - 1) /\ p = (p - 1) + 1 /\ p - 1 \in q..i
    BY <1>2
  <2> QED
    BY <2>1
<1>4. d[p] = d[j] + 1
  BY <1>1, <1>2, <1>3
<1>5. d[j] \in Int /\ d[j] >= k
  <2>1. j \in 0..n
    OBVIOUS
  <2> QED
    BY <1>1, <1>2, <1>3, <2>1
<1> QED
  BY <1>2, <1>4, <1>5

(* What a bracket or another character leaves as it was.                   *)
LEMMA StaysOpened ==
    ASSUME NEW n \in Nat, NEW tx, NEW d, d \in [0..n -> Int], NEW i \in 0..(n - 1), NEW k \in Int, NEW q,
           Opened(tx, d, i, k, q), d[i + 1] >= k
    PROVE  Opened(tx, d, i + 1, k, q)
<1>1. q \in 1..i /\ tx[q] \in Stk!Left /\ d[q] = k /\ \A r \in q..i : d[r] >= k
  BY DEF Opened
<1>2. \A r \in q..(i + 1) : r \in q..i \/ r = i + 1
  BY <1>1
<1>3. q \in 1..(i + 1)
  BY <1>1
<1> QED
  BY <1>1, <1>2, <1>3 DEF Opened

LEMMA PairedNext ==
    ASSUME NEW n \in Nat, NEW tx, NEW d, NEW i \in 0..(n - 1), PairedUpTo(tx, d, i),
           d[i + 1] >= 0,
           \A q \in 1..i : EndsAt(tx, d, q, i + 1) => Stk!is_pair(tx[q], tx[i + 1])
    PROVE  PairedUpTo(tx, d, i + 1)
<1>1. \A p \in 1..(i + 1) : p \in 1..i \/ p = i + 1
  OBVIOUS
<1>2. i + 1 - 1 = i
  OBVIOUS
<1> QED
  BY <1>1, <1>2 DEF PairedUpTo

LEMMA Opens ==
    ASSUME NEW n \in Nat, NEW tx, NEW d, d = Depths(tx, n), NEW i, NEW st, Nested(tx, n, d, i, st), i < n,
           tx[i + 1] \in Stk!Left
    PROVE  Nested(tx, n, d, i + 1, Append(st, tx[i + 1]))
<1>1. /\ i \in 0..n
      /\ st \in Seq(Stk!Left) /\ Len(st) = d[i]
      /\ PairedUpTo(tx, d, i)
      /\ \A k \in 1..Len(st) : \E q : Opened(tx, d, i, k, q) /\ st[k] = tx[q]
  BY DEF Nested
<1>2. i \in 0..(n - 1) /\ i + 1 \in 0..n /\ i + 1 \in 1..(i + 1)
  BY <1>1
<1>3. d \in [0..n -> Int] /\ d[i + 1] = d[i] + 1
  BY <1>2, DepthsAre
<1>4. PICK h \in Nat : h = Len(st) /\ h = d[i] /\ h + 1 = d[i + 1]
  BY <1>1, <1>3
<1>5. PICK st2 : st2 = Append(st, tx[i + 1])
  OBVIOUS
<1>6. st2 \in Seq(Stk!Left) /\ Len(st2) = h + 1 /\ st2[h + 1] = tx[i + 1] /\ \A k \in 1..h : st2[k] = st[k]
  BY <1>1, <1>4, <1>5, AppendProperties
<1>7. PairedUpTo(tx, d, i + 1)
  <2>1. tx[i + 1] \notin Stk!Right
    BY DEF Stk!Left, Stk!Right
  <2>2. \A q \in 1..i : ~EndsAt(tx, d, q, i + 1)
    BY <2>1 DEF EndsAt
  <2>3. \A q \in 1..i : EndsAt(tx, d, q, i + 1) => Stk!is_pair(tx[q], tx[i + 1])
    BY <2>2
  <2>4. d[i + 1] >= 0
    BY <1>4
  <2> QED
    BY <1>1, <1>2, <2>3, <2>4, PairedNext
<1>8. ASSUME NEW k \in 1..(h + 1) PROVE \E q : Opened(tx, d, i + 1, k, q) /\ st2[k] = tx[q]
  <2>1. CASE k = h + 1
    <3>1. \A r \in (i + 1)..(i + 1) : r = i + 1
      BY <1>2
    <3>2. Opened(tx, d, i + 1, k, i + 1)
      BY <1>2, <1>4, <2>1, <3>1 DEF Opened
    <3> QED
      BY <1>6, <2>1, <3>2
  <2>2. CASE k # h + 1
    <3>1. k \in 1..h
      BY <2>2
    <3>2. PICK q : Opened(tx, d, i, k, q) /\ st[k] = tx[q]
      BY <1>1, <1>4, <3>1
    <3>3. d[i + 1] >= k
      BY <1>4, <3>1
    <3>4. Opened(tx, d, i + 1, k, q)
      BY <1>2, <1>3, <3>2, <3>3, StaysOpened
    <3> QED
      BY <1>6, <3>1, <3>2, <3>4
  <2> QED
    BY <2>1, <2>2
<1> QED
  BY <1>2, <1>4, <1>5, <1>6, <1>7, <1>8 DEF Nested

LEMMA Passes ==
    ASSUME NEW n \in Nat, NEW tx, NEW d, d = Depths(tx, n), NEW i, NEW st, Nested(tx, n, d, i, st), i < n,
           tx[i + 1] \notin Stk!Left, tx[i + 1] \notin Stk!Right
    PROVE  Nested(tx, n, d, i + 1, st)
<1>1. /\ i \in 0..n
      /\ st \in Seq(Stk!Left) /\ Len(st) = d[i]
      /\ PairedUpTo(tx, d, i)
      /\ \A k \in 1..Len(st) : \E q : Opened(tx, d, i, k, q) /\ st[k] = tx[q]
  BY DEF Nested
<1>2. i \in 0..(n - 1) /\ i + 1 \in 0..n
  BY <1>1
<1>3. d \in [0..n -> Int] /\ d[i + 1] = d[i]
  BY <1>2, DepthsAre
<1>4. PICK h \in Nat : h = Len(st) /\ h = d[i] /\ h = d[i + 1]
  BY <1>1, <1>3
<1>5. PairedUpTo(tx, d, i + 1)
  <2>1. \A q \in 1..i : ~EndsAt(tx, d, q, i + 1)
    BY DEF EndsAt
  <2> QED
    BY <1>1, <1>2, <1>4, <2>1, PairedNext
<1>6. ASSUME NEW k \in 1..h PROVE \E q : Opened(tx, d, i + 1, k, q) /\ st[k] = tx[q]
  <2>1. PICK q : Opened(tx, d, i, k, q) /\ st[k] = tx[q]
    BY <1>1, <1>4
  <2>2. d[i + 1] >= k
    BY <1>4
  <2>3. Opened(tx, d, i + 1, k, q)
    BY <1>2, <1>3, <2>1, <2>2, StaysOpened
  <2> QED
    BY <2>1, <2>3
<1> QED
  BY <1>1, <1>2, <1>4, <1>5, <1>6 DEF Nested

(* A right bracket ends what the left bracket on top of the stack began,   *)
(* and nothing else.                                                       *)
LEMMA EndsTheLast ==
    ASSUME NEW n \in Nat, NEW tx, NEW d, d = Depths(tx, n), NEW i, NEW st, Nested(tx, n, d, i, st), i < n,
           tx[i + 1] \in Stk!Right, NEW h \in Nat \ {0}, h = Len(st)
    PROVE  /\ d[i] = h /\ d[i + 1] = h - 1
           /\ \A q \in 1..i : EndsAt(tx, d, q, i + 1) => tx[q] = st[h]
           /\ \E q \in 1..i : EndsAt(tx, d, q, i + 1) /\ tx[q] = st[h]
<1>1. /\ i \in 0..n /\ Len(st) = d[i]
      /\ \A k \in 1..Len(st) : \E q : Opened(tx, d, i, k, q) /\ st[k] = tx[q]
  BY DEF Nested
<1>2. i \in 0..(n - 1) /\ i + 1 \in 0..n /\ i + 1 - 1 = i
  BY <1>1
<1>3. d \in [0..n -> Int] /\ d[i + 1] = d[i] - 1
  <2>1. tx[i + 1] \notin Stk!Left
    BY DEF Stk!Left, Stk!Right
  <2> QED
    BY <1>2, <2>1, DepthsAre
<1>4. d[i] = h /\ d[i + 1] = h - 1
  BY <1>1, <1>3
<1>5. PICK p : Opened(tx, d, i, h, p) /\ st[h] = tx[p]
  BY <1>1
<1>6. p \in 1..i /\ tx[p] \in Stk!Left /\ d[p] = h /\ \A r \in p..i : d[r] >= h
  BY <1>5 DEF Opened
<1>7. EndsAt(tx, d, p, i + 1)
  BY <1>2, <1>4, <1>6 DEF EndsAt
<1>8. ASSUME NEW q \in 1..i, EndsAt(tx, d, q, i + 1) PROVE tx[q] = st[h]
  <2>1. tx[q] \in Stk!Left /\ d[i + 1] = d[q] - 1 /\ \A r \in q..i : d[r] >= d[q]
    BY <1>2, <1>8 DEF EndsAt
  <2>2. q \in 0..n
    BY <1>2
  <2>3. d[q] \in Int
    BY <1>3, <2>2
  <2>4. d[q] = h
    BY <1>4, <2>1, <2>3
  <2>5. Opened(tx, d, i, h, q)
    BY <2>1, <2>4 DEF Opened
  <2>6. ~(q < p) /\ ~(p < q)
    BY <1>1, <1>5, <2>5, OpenedOnce
  <2>7. q = p
    BY <1>6, <2>6
  <2> QED
    BY <1>5, <2>7
<1> QED
  BY <1>4, <1>5, <1>6, <1>7, <1>8

LEMMA Closes ==
    ASSUME NEW n \in Nat, NEW tx, NEW d, d = Depths(tx, n), NEW i, NEW st, Nested(tx, n, d, i, st), i < n,
           tx[i + 1] \in Stk!Right, NEW h \in Nat \ {0}, h = Len(st), Stk!is_pair(st[h], tx[i + 1])
    PROVE  Nested(tx, n, d, i + 1, SubSeq(st, 1, h - 1))
<1>1. /\ i \in 0..n
      /\ st \in Seq(Stk!Left)
      /\ PairedUpTo(tx, d, i)
      /\ \A k \in 1..Len(st) : \E q : Opened(tx, d, i, k, q) /\ st[k] = tx[q]
  BY DEF Nested
<1>2. i \in 0..(n - 1) /\ i + 1 \in 0..n
  BY <1>1
<1>3. d[i + 1] = h - 1 /\ h - 1 \in Nat /\ \A q \in 1..i : EndsAt(tx, d, q, i + 1) => tx[q] = st[h]
  BY EndsTheLast
<1>4. PairedUpTo(tx, d, i + 1)
  <2>1. \A q \in 1..i : EndsAt(tx, d, q, i + 1) => Stk!is_pair(tx[q], tx[i + 1])
    BY <1>3
  <2>2. d[i + 1] >= 0
    BY <1>3
  <2> QED
    BY <1>1, <1>2, <2>1, <2>2, PairedNext
<1>5. PICK st2 : st2 = SubSeq(st, 1, h - 1)
  OBVIOUS
<1>6. st2 \in Seq(Stk!Left) /\ Len(st2) = h - 1 /\ \A k \in 1..(h - 1) : st2[k] = st[k]
  BY <1>1, <1>5
<1>7. ASSUME NEW k \in 1..(h - 1) PROVE \E q : Opened(tx, d, i + 1, k, q) /\ st2[k] = tx[q]
  <2>1. k \in 1..h
    OBVIOUS
  <2>2. PICK q : Opened(tx, d, i, k, q) /\ st[k] = tx[q]
    BY <1>1, <2>1
  <2>3. d[i + 1] >= k
    BY <1>3
  <2>4. d \in [0..n -> Int]
    BY DepthsAre
  <2>5. Opened(tx, d, i + 1, k, q)
    BY <1>2, <2>2, <2>3, <2>4, StaysOpened
  <2> QED
    BY <1>6, <2>2, <2>5
<1> QED
  BY <1>2, <1>3, <1>4, <1>5, <1>6, <1>7 DEF Nested

IsMatched(tx, n, d) == d[n] = 0 /\ PairedUpTo(tx, d, n)

LEMMA DepthIs ==
    ASSUME NEW i \in 0..Len(call.text), Len(call.text) \in Nat
    PROVE  Stk!Depth(i) = Depths(call.text, Len(call.text))[i]
<1>1. PICK n, tx : n = Len(call.text) /\ tx = call.text
  OBVIOUS
<1>2. ASSUME NEW S PROVE Stk!CountOf(S, i) = Count(Positions(S, tx, n), i)
  <2>1. {j \in 1..i : call.text[j] \in S} = Positions(S, tx, n) \cap 1..i
    BY <1>1 DEF Positions
  <2> QED
    BY <2>1, SameCardinality DEF Stk!CountOf, Count
<1>3. Stk!Depth(i) = Count(Positions(Stk!Left, tx, n), i) - Count(Positions(Stk!Right, tx, n), i)
  BY <1>2 DEF Stk!Depth
<1> QED
  BY <1>1, <1>3 DEF Depths

LEMMA MatchedIs ==
    ASSUME NEW n \in Nat, n = Len(call.text), NEW d, d = Depths(call.text, n)
    PROVE  Stk!Matched <=> IsMatched(call.text, n, d)
<1>1. \A i \in 0..n : Stk!Depth(i) = d[i]
  BY DepthIs
<1>2. \A i \in 1..n : i \in 0..n
  OBVIOUS
<1>3. ASSUME NEW p \in 1..n, NEW q \in 1..(p - 1) PROVE Stk!Ends(q, p) <=> EndsAt(call.text, d, q, p)
  <2>1. q \in 0..n /\ p \in 0..n /\ \A r \in q..(p - 1) : r \in 0..n
    OBVIOUS
  <2> QED
    BY <1>1, <2>1 DEF Stk!Ends, EndsAt
<1>4. n \in 0..n
  OBVIOUS
<1>5. Stk!Depth(n) = d[n] /\ \A i \in 1..n : Stk!Depth(i) = d[i]
  BY <1>1, <1>2, <1>4
<1>6. ASSUME Stk!Matched PROVE IsMatched(call.text, n, d)
  BY <1>3, <1>5, <1>6 DEF Stk!Matched, IsMatched, PairedUpTo
<1>7. ASSUME IsMatched(call.text, n, d) PROVE Stk!Matched
  BY <1>3, <1>5, <1>7 DEF Stk!Matched, IsMatched, PairedUpTo
<1> QED
  BY <1>6, <1>7

ParenthesesInv ==
    which = "stacks" /\ call.fn = "is_valid_parentheses" =>
        /\ Len(call.text) \in Nat
        /\ loc = [i |-> loc.i, stack |-> loc.stack]
        /\ Nested(call.text, Len(call.text), Depths(call.text, Len(call.text)), loc.i, loc.stack)
        /\ \/ ret = <<>>
           \/ ret = <<TRUE>> /\ IsMatched(call.text, Len(call.text), Depths(call.text, Len(call.text)))
           \/ ret = <<FALSE>> /\ ~IsMatched(call.text, Len(call.text), Depths(call.text, Len(call.text)))

LEMMA ParenthesesStart == DataInit => ParenthesesInv
<1> SUFFICES ASSUME DataInit, which = "stacks", call.fn = "is_valid_parentheses"
             PROVE  ParenthesesInv
  BY DEF ParenthesesInv
<1>1. call \in Stk!Calls /\ loc = Stk!Entry(call) /\ ret = <<>>
  BY DEF DataInit, Begins
<1>2. PICK tx \in Stk!Inputs(Stk!Characters, MaxText) : call = [fn |-> "is_valid_parentheses", text |-> tx]
  BY <1>1 DEF Stk!Calls
<1>3. PICK n \in 0..MaxText : tx \in [1..n -> Stk!Characters]
  BY <1>2 DEF Stk!Inputs
<1>4. n \in Nat /\ Len(tx) = n
  <2>1. MaxText \in Nat
    BY DataAssumption
  <2>2. n \in Nat
    BY <2>1
  <2> QED
    BY <1>3, <2>2
<1>5. loc = [i |-> 0, stack |-> <<>>] /\ call.text = tx
  BY <1>1, <1>2 DEF Stk!Entry
<1>6. PICK d : d = Depths(tx, n)
  OBVIOUS
<1>7. Nested(tx, n, d, 0, <<>>)
  <2>1. d[0] = 0
    BY <1>4, <1>6, DepthsAre
  <2>2. PairedUpTo(tx, d, 0)
    BY DEF PairedUpTo
  <2>3. <<>> \in Seq(Stk!Left) /\ Len(<<>>) = 0
    OBVIOUS
  <2> QED
    BY <1>4, <2>1, <2>2, <2>3 DEF Nested
<1> QED
  BY <1>1, <1>4, <1>5, <1>6, <1>7 DEF ParenthesesInv

LEMMA ParenthesesStep ==
    ASSUME ParenthesesInv, which = "stacks", call.fn = "is_valid_parentheses", which' = which, call' = call,
           Stk!is_valid_parentheses
    PROVE  ParenthesesInv'
<1>1. PICK tx, n, d, i, st : /\ tx = call.text /\ n = Len(call.text) /\ d = Depths(tx, n)
                             /\ i = loc.i /\ st = loc.stack
  OBVIOUS
<1>2. /\ ret = <<>> /\ n \in Nat
      /\ loc = [i |-> i, stack |-> st]
      /\ Nested(tx, n, d, i, st)
  BY <1>1 DEF ParenthesesInv, Stk!is_valid_parentheses, Stk!Runs
<1>3. call.text' = tx /\ Len(call.text)' = n
  BY <1>1
<1>4. ASSUME NEW st2, loc' = [i |-> i + 1, stack |-> st2], ret' = ret, Nested(tx, n, d, i + 1, st2)
      PROVE  ParenthesesInv'
  <2>1. loc'.i = i + 1 /\ loc'.stack = st2 /\ loc' = [i |-> loc'.i, stack |-> loc'.stack]
    BY <1>4
  <2> QED
    BY <1>1, <1>2, <1>3, <1>4, <2>1 DEF ParenthesesInv
<1>5. ASSUME loc' = loc, \/ ret' = <<TRUE>> /\ IsMatched(tx, n, d)
                         \/ ret' = <<FALSE>> /\ ~IsMatched(tx, n, d)
      PROVE  ParenthesesInv'
  BY <1>1, <1>2, <1>3, <1>5 DEF ParenthesesInv
<1>6. i \in 0..n /\ st \in Seq(Stk!Left) /\ Len(st) = d[i] /\ PairedUpTo(tx, d, i)
  BY <1>2 DEF Nested
<1>7. CASE i = n
  <2>1. ret' = <<st = <<>>>> /\ loc' = loc
    BY <1>1, <1>7 DEF Stk!is_valid_parentheses, Stk!Returns
  <2>2. CASE st = <<>>
    <3>1. ret' = <<TRUE>>
      BY <2>1, <2>2
    <3>2. IsMatched(tx, n, d)
      BY <1>6, <1>7, <2>2 DEF IsMatched
    <3> QED
      BY <1>5, <2>1, <3>1, <3>2
  <2>3. CASE st # <<>>
    <3>1. ret' = <<FALSE>>
      <4>1. (st = <<>>) = FALSE
        BY <2>3
      <4> QED
        BY <2>1, <4>1
    <3>2. Len(st) # 0
      BY <1>6, <2>3, EmptySeq
    <3>3. ~IsMatched(tx, n, d)
      BY <1>6, <1>7, <3>2 DEF IsMatched
    <3> QED
      BY <1>5, <2>1, <3>1, <3>3
  <2> QED
    BY <2>2, <2>3
<1>8. CASE i # n
  <2>1. i < n /\ i \in 0..(n - 1) /\ i + 1 \in 1..n
    BY <1>2, <1>6, <1>8
  <2>2. PICK ch : ch = tx[i + 1]
    OBVIOUS
  <2>3. \/ ch \in Stk!Left /\ loc' = [i |-> i + 1, stack |-> Append(st, ch)] /\ ret' = ret
        \/ /\ ch \in Stk!Right
           /\ \/ /\ st = <<>> \/ ~Stk!is_pair(st[Len(st)], ch)
                 /\ ret' = <<FALSE>> /\ loc' = loc
              \/ /\ st # <<>> /\ Stk!is_pair(st[Len(st)], ch)
                 /\ loc' = [i |-> i + 1, stack |-> SubSeq(st, 1, Len(st) - 1)] /\ ret' = ret
        \/ /\ ch \notin Stk!Left /\ ch \notin Stk!Right
           /\ loc' = [loc EXCEPT !.i = @ + 1] /\ ret' = ret
    BY <1>1, <1>8, <2>2 DEF Stk!is_valid_parentheses, Stk!Goes, Stk!Returns, Stk!Front, Stk!Last
  <2>4. CASE ch \in Stk!Left
    <3>1. ch \notin Stk!Right
      BY <2>4 DEF Stk!Left, Stk!Right
    <3>2. Nested(tx, n, d, i + 1, Append(st, ch))
      BY <1>1, <1>2, <2>1, <2>2, <2>4, Opens
    <3> QED
      BY <1>4, <2>3, <2>4, <3>1, <3>2
  <2>5. CASE ch \in Stk!Right /\ st = <<>>
    <3>1. ret' = <<FALSE>> /\ loc' = loc
      <4>1. ch \notin Stk!Left
        BY <2>5 DEF Stk!Left, Stk!Right
      <4> QED
        BY <2>3, <2>5, <4>1
    <3>2. d[i + 1] = 0 - 1
      <4>1. d[i] = 0
        BY <1>6, <2>5
      <4>2. tx[i + 1] \notin Stk!Left
        BY <2>2, <2>5 DEF Stk!Left, Stk!Right
      <4>3. d[i + 1] = d[i] - 1
        <5>1. i \in 0..(n - 1) /\ tx[i + 1] \in Stk!Right
          BY <1>1, <2>1, <2>2, <2>5
        <5>2. \A j \in 0..(n - 1) :
                  d[j + 1] = IF tx[j + 1] \in Stk!Left THEN d[j] + 1
                             ELSE IF tx[j + 1] \in Stk!Right THEN d[j] - 1 ELSE d[j]
          BY <1>1, <1>2, DepthsAre
        <5> QED
          BY <4>2, <5>1, <5>2
      <4> QED
        BY <4>1, <4>3
    <3>3. ~IsMatched(tx, n, d)
      <4>1. ~(d[i + 1] >= 0)
        BY <3>2
      <4> QED
        BY <2>1, <4>1 DEF IsMatched, PairedUpTo
    <3> QED
      BY <1>5, <3>1, <3>3
  <2>6. CASE ch \in Stk!Right /\ st # <<>>
    <3>1. PICK h \in Nat \ {0} : h = Len(st)
      BY <1>6, <2>6, EmptySeq
    <3>2. ch \notin Stk!Left
      BY <2>6 DEF Stk!Left, Stk!Right
    <3>a. /\ n \in Nat /\ d = Depths(tx, n) /\ Nested(tx, n, d, i, st) /\ i < n
          /\ tx[i + 1] \in Stk!Right
      BY <1>1, <1>2, <2>1, <2>2, <2>6
    <3>3. CASE Stk!is_pair(st[h], ch)
      <4>1. loc' = [i |-> i + 1, stack |-> SubSeq(st, 1, h - 1)] /\ ret' = ret
        BY <2>3, <2>6, <3>1, <3>2, <3>3
      <4>2. Nested(tx, n, d, i + 1, SubSeq(st, 1, h - 1))
        BY <2>2, <3>a, <3>1, <3>3, Closes
      <4> QED
        BY <1>4, <4>1, <4>2
    <3>4. CASE ~Stk!is_pair(st[h], ch)
      <4>1. ret' = <<FALSE>> /\ loc' = loc
        BY <2>3, <2>6, <3>1, <3>2, <3>4
      <4>2. PICK q \in 1..i : EndsAt(tx, d, q, i + 1) /\ tx[q] = st[h]
        BY <3>a, <3>1, EndsTheLast
      <4>3. q \in 1..(i + 1 - 1) /\ ~Stk!is_pair(tx[q], tx[i + 1])
        BY <1>6, <2>2, <3>4, <4>2
      <4>4. ~IsMatched(tx, n, d)
        BY <2>1, <4>2, <4>3 DEF IsMatched, PairedUpTo
      <4> QED
        BY <1>5, <4>1, <4>4
    <3> QED
      BY <3>3, <3>4
  <2>7. CASE ch \notin Stk!Left /\ ch \notin Stk!Right
    <3>1. loc' = [i |-> i + 1, stack |-> st] /\ ret' = ret
      BY <1>2, <2>3, <2>7
    <3>2. Nested(tx, n, d, i + 1, st)
      BY <1>1, <1>2, <2>1, <2>2, <2>7, Passes
    <3> QED
      BY <1>4, <3>1, <3>2
  <2> QED
    BY <2>4, <2>5, <2>6, <2>7
<1> QED
  BY <1>7, <1>8

(* is_valid_parentheses accepts the texts in which every bracket is closed *)
(* by one of its kind, and no other, for texts of every length.            *)
THEOREM ParenthesesAreMatched ==
    DataSpec => [](which = "stacks" /\ call.fn = "is_valid_parentheses" /\ ret # <<>> => Stk!IsResult(ret[1]))
<1>1. ParenthesesInv /\ [DataNext]_<<which, vars, topicVars, ringVars, stackQueueVars, minVars, frameVars>>
          => ParenthesesInv'
  <2> SUFFICES ASSUME ParenthesesInv,
                      [DataNext]_<<which, vars, topicVars, ringVars, stackQueueVars, minVars, frameVars>>,
                      which' = "stacks", call'.fn = "is_valid_parentheses"
               PROVE  ParenthesesInv'
    BY DEF ParenthesesInv
  <2>1. which = "stacks"
    BY DEF DataNext, Call, Turn
  <2>2. /\ which' = which /\ call' = call
        /\ Stk!Next \/ UNCHANGED <<loc, ret>>
    BY <2>1, StacksStepIs
  <2>3. CASE Stk!is_valid_parentheses
    BY <2>1, <2>2, <2>3, ParenthesesStep
  <2>4. CASE UNCHANGED <<loc, ret>>
    BY <2>1, <2>2, <2>4 DEF ParenthesesInv
  <2> QED
    BY <2>2, <2>3, <2>4 DEF Stk!Next, Stk!Runs, Stk!daily_temperatures, Stk!eval_rpn, Stk!shortest_path,
                            Stk!max_sliding_window
<1>2. ParenthesesInv =>
          (which = "stacks" /\ call.fn = "is_valid_parentheses" /\ ret # <<>> => Stk!IsResult(ret[1]))
  <2> SUFFICES ASSUME ParenthesesInv, which = "stacks", call.fn = "is_valid_parentheses", ret # <<>>
               PROVE  Stk!IsResult(ret[1])
    OBVIOUS
  <2>1. PICK n, d : n = Len(call.text) /\ d = Depths(call.text, n)
    OBVIOUS
  <2>2. n \in Nat /\ (Stk!Matched <=> IsMatched(call.text, n, d))
    BY <2>1, MatchedIs DEF ParenthesesInv
  <2>3. Stk!Matched \in BOOLEAN
    BY DEF Stk!Matched
  <2>4. CASE ret = <<TRUE>> /\ IsMatched(call.text, n, d)
    <3>1. ret[1] = Stk!Matched
      BY <2>2, <2>3, <2>4
    <3> QED
      BY <3>1 DEF Stk!IsResult
  <2>5. CASE ret = <<FALSE>> /\ ~IsMatched(call.text, n, d)
    <3>1. ret[1] = Stk!Matched
      BY <2>2, <2>3, <2>5
    <3> QED
      BY <3>1 DEF Stk!IsResult
  <2> QED
    BY <2>1, <2>4, <2>5 DEF ParenthesesInv
<1> QED
  BY <1>1, <1>2, ParenthesesStart, PTL DEF DataSpec


-----------------------------------------------------------------------------
(* stack_medium_evaluate_rpn: IsQuotient leaves one quotient only.         *)

LEMMA DivIs ==
    ASSUME NEW n \in Nat \ {0}, NEW q \in Int, NEW b \in 0..(n - 1), NEW k \in Int, k = n * q + b
    PROVE  k \div n = q
<1>1. (n * q + b) \div n = q
  OBVIOUS
<1> QED
  BY <1>1

LEMMA QuotientIsOne ==
    ASSUME NEW a \in Int, NEW b \in Int, NEW q \in Int, Stk!IsQuotient(a, b, q)
    PROVE  Stk!Quotient(a, b) = q
<1>1. PICK rest \in Int : rest = a - q * b
  OBVIOUS
<1>2. /\ (IF rest < 0 THEN -rest ELSE rest) < (IF b < 0 THEN -b ELSE b)
      /\ rest = 0 \/ (rest < 0) = (a < 0)
  BY <1>1 DEF Stk!IsQuotient
<1>3. rest = 0 \/ (rest < 0 <=> a < 0)
  BY <1>2
<1>4. b # 0
  BY <1>2
<1>5. CASE b > 0 /\ a >= 0
  <2>1. b \in Nat \ {0} /\ rest \in 0..(b - 1)
    BY <1>2, <1>3, <1>5
  <2>2. a = b * q + rest
    BY <1>1
  <2>3. a \div b = q
    BY <2>1, <2>2, DivIs
  <2> QED
    BY <1>5, <2>3 DEF Stk!Quotient
<1>6. CASE b < 0 /\ a >= 0
  <2>1. PICK c \in Nat \ {0}, p \in Int : c = -b /\ p = -q
    BY <1>6
  <2>2. rest \in 0..(c - 1)
    BY <1>2, <1>3, <1>6, <2>1
  <2>3. a = c * p + rest
    BY <1>1, <2>1
  <2>4. a \div c = p
    BY <2>1, <2>2, <2>3, DivIs
  <2> QED
    BY <1>6, <2>1, <2>4 DEF Stk!Quotient
<1>7. CASE b > 0 /\ a < 0
  <2>1. PICK c \in Nat, p \in Int, s \in Int : c = -a /\ p = -q /\ s = -rest
    BY <1>7
  <2>2. b \in Nat \ {0} /\ s \in 0..(b - 1)
    BY <1>2, <1>3, <1>7, <2>1
  <2>3. c = b * p + s
    BY <1>1, <2>1
  <2>4. c \div b = p
    BY <2>1, <2>2, <2>3, DivIs
  <2> QED
    BY <1>7, <2>1, <2>4 DEF Stk!Quotient
<1>8. CASE b < 0 /\ a < 0
  <2>1. PICK c \in Nat \ {0}, n \in Nat, s \in Int : c = -b /\ n = -a /\ s = -rest
    BY <1>8
  <2>2. s \in 0..(c - 1)
    BY <1>2, <1>3, <1>8, <2>1
  <2>3. n = c * q + s
    BY <1>1, <2>1
  <2>4. n \div c = q
    BY <2>1, <2>2, <2>3, DivIs
  <2> QED
    BY <1>8, <2>1, <2>4 DEF Stk!Quotient
<1> QED
  BY <1>4, <1>5, <1>6, <1>7, <1>8

LEMMA ValueIs ==
    ASSUME NEW left \in Int, NEW right \in Int, NEW op \in Stk!Operators, NEW v \in Int,
           Stk!IsValue(left, right, op, v)
    PROVE  Stk!apply_operator(left, right, op) = v
<1>1. CASE op = "+"
  BY <1>1 DEF Stk!IsValue, Stk!apply_operator
<1>2. CASE op = "-"
  BY <1>2 DEF Stk!IsValue, Stk!apply_operator
<1>3. CASE op = "*"
  BY <1>3 DEF Stk!IsValue, Stk!apply_operator
<1>4. CASE op = "/"
  <2>1. Stk!IsQuotient(left, right, v)
    BY <1>4 DEF Stk!IsValue
  <2>2. Stk!Quotient(left, right) = v
    BY <2>1, QuotientIsOne
  <2> QED
    BY <1>4, <2>2 DEF Stk!apply_operator
<1> QED
  BY <1>1, <1>2, <1>3, <1>4 DEF Stk!Operators

(* The operator takes the two values on top, and its value takes their     *)
(* place.                                                                  *)
LEMMA TwoOnTop ==
    ASSUME NEW a, NEW b, NEW v
    PROVE  /\ Len(<<a, b>>) = 2
           /\ Append(SubSeq(<<a, b>>, 1, 2 - 2), v) = <<v>>
<1>1. Len(<<a, b>>) = 2 /\ 2 - 2 \in Int /\ 1 \in Int /\ 2 - 2 < 1
  OBVIOUS
<1>2. SubSeq(<<a, b>>, 1, 2 - 2) = <<>>
  BY <1>1, SubSeqEmpty
<1>3. Append(<<>>, v) = <<v>>
  OBVIOUS
<1> QED
  BY <1>1, <1>2, <1>3

LEMMA ThreeOnTop ==
    ASSUME NEW a, NEW b, NEW c, NEW v
    PROVE  /\ Len(<<a, b, c>>) = 3
           /\ Append(SubSeq(<<a, b, c>>, 1, 3 - 2), v) = <<a, v>>
<1>1. <<a, b, c>> \in Seq({a, b, c}) /\ Len(<<a, b, c>>) = 3
  OBVIOUS
<1>2. PICK s \in Seq({a, b, c}) : s = <<a, b, c>> /\ Len(s) = 3 /\ s[1] = a
  BY <1>1
<1>3. PICK one : one = SubSeq(s, 1, 1)
  OBVIOUS
<1>4. one \in Seq({a, b, c}) /\ Len(one) = 1 /\ one[1] = a
  BY <1>2, <1>3
<1>5. one = <<a>>
  <2>1. <<a>> \in Seq({a, b, c}) /\ Len(<<a>>) = 1 /\ <<a>>[1] = a
    OBVIOUS
  <2>2. \A k \in 1..1 : k = 1
    OBVIOUS
  <2> QED
    BY <1>4, <2>1, <2>2, SeqEqual
<1>6. SubSeq(<<a, b, c>>, 1, 3 - 2) = <<a>>
  <2>1. 3 - 2 = 1
    OBVIOUS
  <2> QED
    BY <1>2, <1>3, <1>5, <2>1
<1>7. Append(<<a>>, v) = <<a, v>>
  <2>1. <<a>> \in Seq({a, v}) /\ Len(<<a>>) = 1 /\ <<a>>[1] = a
    OBVIOUS
  <2>2. PICK s2 : s2 = Append(<<a>>, v)
    OBVIOUS
  <2>3. s2 \in Seq({a, v}) /\ Len(s2) = 2 /\ s2[1] = a /\ s2[2] = v
    BY <2>1, <2>2, AppendProperties
  <2>4. <<a, v>> \in Seq({a, v}) /\ Len(<<a, v>>) = 2 /\ <<a, v>>[1] = a /\ <<a, v>>[2] = v
    OBVIOUS
  <2>5. \A k \in 1..2 : k = 1 \/ k = 2
    OBVIOUS
  <2> QED
    BY <2>2, <2>3, <2>4, <2>5, SeqEqual
<1> QED
  BY <1>1, <1>6, <1>7

(* m is the value of the inner operator, v that of the outer one.          *)
Evaluates(e, m, v) ==
    /\ e.a \in Int /\ e.b \in Int /\ e.c \in Int /\ e.op1 \in Stk!Operators /\ e.op2 \in Stk!Operators
    /\ e.leftFirst \in BOOLEAN
    /\ IF e.leftFirst
           THEN Stk!apply_operator(e.a, e.b, e.op1) = m /\ Stk!apply_operator(m, e.c, e.op2) = v
           ELSE Stk!apply_operator(e.b, e.c, e.op2) = m /\ Stk!apply_operator(e.a, m, e.op1) = v
    /\ Stk!Means(e, v)

StackIs(e, m, v, i, st) ==
    \/ i = 0 /\ st = <<>>
    \/ i = 1 /\ st = <<e.a>>
    \/ i = 2 /\ st = <<e.a, e.b>>
    \/ i = 3 /\ e.leftFirst /\ st = <<m>>
    \/ i = 3 /\ ~e.leftFirst /\ st = <<e.a, e.b, e.c>>
    \/ i = 4 /\ e.leftFirst /\ st = <<m, e.c>>
    \/ i = 4 /\ ~e.leftFirst /\ st = <<e.a, m>>
    \/ i = 5 /\ st = <<v>>

RpnInv ==
    which = "stacks" /\ call.fn = "eval_rpn" =>
        /\ loc = [i |-> loc.i, stack |-> loc.stack]
        /\ \E m, v : /\ Evaluates(call.of, m, v)
                     /\ StackIs(call.of, m, v, loc.i, loc.stack)
                     /\ ret # <<>> => ret = <<v>>

LEMMA RpnStarts == DataInit => RpnInv
<1> SUFFICES ASSUME DataInit, which = "stacks", call.fn = "eval_rpn"
             PROVE  RpnInv
  BY DEF RpnInv
<1>1. call \in Stk!Calls /\ loc = Stk!Entry(call) /\ ret = <<>>
  BY DEF DataInit, Begins
<1>2. PICK e \in Stk!Expressions : call = [fn |-> "eval_rpn", of |-> e]
  BY <1>1 DEF Stk!Calls
<1>3. loc = [i |-> 0, stack |-> <<>>] /\ call.of = e
  BY <1>1, <1>2 DEF Stk!Entry
<1>4. Numbers \subseteq Int /\ Stk!Results \subseteq Int
  <2>1. \A x, y : x..y \subseteq Int
    OBVIOUS
  <2> QED
    BY <2>1, DataAssumption DEF Stk!Results
<1>5. e \in [leftFirst : BOOLEAN, a : Numbers, b : Numbers, c : Numbers, op1 : Stk!Operators, op2 : Stk!Operators]
  BY DEF Stk!Expressions
<1>6. PICK v \in Int : Stk!Means(e, v)
  <2>1. \E v \in Stk!Results : Stk!Means(e, v)
    BY DEF Stk!Expressions
  <2> QED
    BY <1>4, <2>1
<1>7. /\ e.a \in Int /\ e.b \in Int /\ e.c \in Int /\ e.op1 \in Stk!Operators /\ e.op2 \in Stk!Operators
      /\ e.leftFirst \in BOOLEAN
  BY <1>4, <1>5
<1>8. \E m : Evaluates(e, m, v)
  <2>1. CASE e.leftFirst
    <3>1. PICK m \in Int : Stk!IsValue(e.a, e.b, e.op1, m) /\ Stk!IsValue(m, e.c, e.op2, v)
      BY <1>4, <1>6, <2>1 DEF Stk!Means
    <3>2. Stk!apply_operator(e.a, e.b, e.op1) = m /\ Stk!apply_operator(m, e.c, e.op2) = v
      BY <1>7, <3>1, ValueIs
    <3> QED
      BY <1>6, <1>7, <2>1, <3>2 DEF Evaluates
  <2>2. CASE ~e.leftFirst
    <3>1. PICK m \in Int : Stk!IsValue(e.b, e.c, e.op2, m) /\ Stk!IsValue(e.a, m, e.op1, v)
      BY <1>4, <1>6, <2>2 DEF Stk!Means
    <3>2. Stk!apply_operator(e.b, e.c, e.op2) = m /\ Stk!apply_operator(e.a, m, e.op1) = v
      BY <1>7, <3>1, ValueIs
    <3> QED
      BY <1>6, <1>7, <2>2, <3>2 DEF Evaluates
  <2> QED
    BY <2>1, <2>2
<1>9. PICK m : Evaluates(e, m, v)
  BY <1>8
<1>10. StackIs(e, m, v, 0, <<>>)
  BY DEF StackIs
<1> QED
  BY <1>1, <1>3, <1>9, <1>10 DEF RpnInv

LEMMA TokensAre ==
    ASSUME NEW e
    PROVE  /\ Len(Stk!Tokens(e)) = 5
           /\ Stk!Tokens(e)[1] = Stk!Token(e.a) /\ Stk!Tokens(e)[2] = Stk!Token(e.b)
           /\ e.leftFirst => /\ Stk!Tokens(e)[3] = Stk!Operator(e.op1)
                             /\ Stk!Tokens(e)[4] = Stk!Token(e.c)
                             /\ Stk!Tokens(e)[5] = Stk!Operator(e.op2)
           /\ ~e.leftFirst => /\ Stk!Tokens(e)[3] = Stk!Token(e.c)
                              /\ Stk!Tokens(e)[4] = Stk!Operator(e.op2)
                              /\ Stk!Tokens(e)[5] = Stk!Operator(e.op1)
BY DEF Stk!Tokens

LEMMA RpnStep ==
    ASSUME RpnInv, which = "stacks", call.fn = "eval_rpn", which' = which, call' = call, Stk!eval_rpn
    PROVE  RpnInv'
<1>1. PICK e, i, st, tokens : e = call.of /\ i = loc.i /\ st = loc.stack /\ tokens = Stk!Tokens(call.of)
  OBVIOUS
<1>2. ret = <<>> /\ loc = [i |-> i, stack |-> st]
  BY <1>1 DEF RpnInv, Stk!eval_rpn, Stk!Runs
<1>3. PICK m, v : Evaluates(e, m, v) /\ StackIs(e, m, v, i, st)
  BY <1>1 DEF RpnInv
<1>4. \/ /\ i < Len(tokens) /\ ~Stk!is_operator(tokens[i + 1])
         /\ loc' = [i |-> i + 1, stack |-> Append(st, tokens[i + 1].value)] /\ ret' = ret
      \/ /\ i < Len(tokens) /\ Stk!is_operator(tokens[i + 1])
         /\ loc' = [i     |-> i + 1,
                    stack |-> Append(SubSeq(st, 1, Len(st) - 2),
                                     Stk!apply_operator(st[Len(st) - 1], st[Len(st)], tokens[i + 1].op))]
         /\ ret' = ret
      \/ i = Len(tokens) /\ ret' = <<st[Len(st)]>> /\ loc' = loc
  BY <1>1 DEF Stk!eval_rpn, Stk!Goes, Stk!Returns
<1>5. /\ Len(tokens) = 5
      /\ tokens[1] = Stk!Token(e.a) /\ tokens[2] = Stk!Token(e.b)
      /\ e.leftFirst => /\ tokens[3] = Stk!Operator(e.op1)
                        /\ tokens[4] = Stk!Token(e.c)
                        /\ tokens[5] = Stk!Operator(e.op2)
      /\ ~e.leftFirst => /\ tokens[3] = Stk!Token(e.c)
                         /\ tokens[4] = Stk!Operator(e.op2)
                         /\ tokens[5] = Stk!Operator(e.op1)
  BY <1>1, TokensAre
<1>6. \A x : ~Stk!is_operator(Stk!Token(x)) /\ Stk!Token(x).value = x
  BY DEF Stk!is_operator, Stk!Token, Stk!Operators
<1>7. /\ Stk!is_operator(Stk!Operator(e.op1)) /\ Stk!Operator(e.op1).op = e.op1
      /\ Stk!is_operator(Stk!Operator(e.op2)) /\ Stk!Operator(e.op2).op = e.op2
  BY <1>3 DEF Evaluates, Stk!is_operator, Stk!Operator
<1>8. ASSUME NEW j, NEW st2, loc' = [i |-> j, stack |-> st2], ret' = ret, StackIs(e, m, v, j, st2)
      PROVE  RpnInv'
  <2>1. loc'.i = j /\ loc'.stack = st2 /\ loc' = [i |-> loc'.i, stack |-> loc'.stack]
    BY <1>8
  <2> QED
    BY <1>1, <1>2, <1>3, <1>8, <2>1 DEF RpnInv
<1>9. CASE i = 0 /\ st = <<>>
  <2>1. loc' = [i |-> 1, stack |-> <<e.a>>] /\ ret' = ret
    BY <1>4, <1>5, <1>6, <1>9
  <2>2. StackIs(e, m, v, 1, <<e.a>>)
    BY DEF StackIs
  <2> QED
    BY <1>8, <2>1, <2>2
<1>10. CASE i = 1 /\ st = <<e.a>>
  <2>1. loc' = [i |-> 2, stack |-> <<e.a, e.b>>] /\ ret' = ret
    BY <1>4, <1>5, <1>6, <1>10
  <2>2. StackIs(e, m, v, 2, <<e.a, e.b>>)
    BY DEF StackIs
  <2> QED
    BY <1>8, <2>1, <2>2
<1>11. CASE i = 2 /\ st = <<e.a, e.b>>
  <2>1. CASE e.leftFirst
    <3>1. loc' = [i |-> 3, stack |-> Append(SubSeq(st, 1, 2 - 2), Stk!apply_operator(e.a, e.b, e.op1))] /\ ret' = ret
      BY <1>4, <1>5, <1>7, <1>11, <2>1
    <3>2. loc' = [i |-> 3, stack |-> <<m>>]
      BY <1>3, <1>11, <2>1, <3>1, TwoOnTop DEF Evaluates
    <3>3. StackIs(e, m, v, 3, <<m>>)
      BY <2>1 DEF StackIs
    <3> QED
      BY <1>8, <3>1, <3>2, <3>3
  <2>2. CASE ~e.leftFirst
    <3>1. loc' = [i |-> 3, stack |-> <<e.a, e.b, e.c>>] /\ ret' = ret
      BY <1>4, <1>5, <1>6, <1>11, <2>2
    <3>2. StackIs(e, m, v, 3, <<e.a, e.b, e.c>>)
      BY <2>2 DEF StackIs
    <3> QED
      BY <1>8, <3>1, <3>2
  <2> QED
    BY <2>1, <2>2
<1>12. CASE i = 3 /\ e.leftFirst /\ st = <<m>>
  <2>1. loc' = [i |-> 4, stack |-> <<m, e.c>>] /\ ret' = ret
    BY <1>4, <1>5, <1>6, <1>12
  <2>2. StackIs(e, m, v, 4, <<m, e.c>>)
    BY <1>12 DEF StackIs
  <2> QED
    BY <1>8, <2>1, <2>2
<1>13. CASE i = 3 /\ ~e.leftFirst /\ st = <<e.a, e.b, e.c>>
  <2>1. loc' = [i |-> 4, stack |-> Append(SubSeq(st, 1, 3 - 2), Stk!apply_operator(e.b, e.c, e.op2))] /\ ret' = ret
    BY <1>4, <1>5, <1>7, <1>13
  <2>2. loc' = [i |-> 4, stack |-> <<e.a, m>>]
    BY <1>3, <1>13, <2>1, ThreeOnTop DEF Evaluates
  <2>3. StackIs(e, m, v, 4, <<e.a, m>>)
    BY <1>13 DEF StackIs
  <2> QED
    BY <1>8, <2>1, <2>2, <2>3
<1>14. CASE i = 4 /\ e.leftFirst /\ st = <<m, e.c>>
  <2>1. loc' = [i |-> 5, stack |-> Append(SubSeq(st, 1, 2 - 2), Stk!apply_operator(m, e.c, e.op2))] /\ ret' = ret
    BY <1>4, <1>5, <1>7, <1>14
  <2>2. loc' = [i |-> 5, stack |-> <<v>>]
    BY <1>3, <1>14, <2>1, TwoOnTop DEF Evaluates
  <2>3. StackIs(e, m, v, 5, <<v>>)
    BY DEF StackIs
  <2> QED
    BY <1>8, <2>1, <2>2, <2>3
<1>15. CASE i = 4 /\ ~e.leftFirst /\ st = <<e.a, m>>
  <2>1. loc' = [i |-> 5, stack |-> Append(SubSeq(st, 1, 2 - 2), Stk!apply_operator(e.a, m, e.op1))] /\ ret' = ret
    BY <1>4, <1>5, <1>7, <1>15
  <2>2. loc' = [i |-> 5, stack |-> <<v>>]
    BY <1>3, <1>15, <2>1, TwoOnTop DEF Evaluates
  <2>3. StackIs(e, m, v, 5, <<v>>)
    BY DEF StackIs
  <2> QED
    BY <1>8, <2>1, <2>2, <2>3
<1>16. CASE i = 5 /\ st = <<v>>
  <2>1. ret' = <<v>> /\ loc' = loc
    BY <1>4, <1>5, <1>16
  <2> QED
    BY <1>1, <1>2, <1>3, <2>1 DEF RpnInv
<1> QED
  BY <1>3, <1>9, <1>10, <1>11, <1>12, <1>13, <1>14, <1>15, <1>16 DEF StackIs

(* eval_rpn gives an expression of two operators its value, / rounded      *)
(* towards zero, for all integers.                                         *)
THEOREM ExpressionsAreEvaluated ==
    DataSpec => [](which = "stacks" /\ call.fn = "eval_rpn" /\ ret # <<>> => Stk!IsResult(ret[1]))
<1>1. RpnInv /\ [DataNext]_<<which, vars, topicVars, ringVars, stackQueueVars, minVars, frameVars>> => RpnInv'
  <2> SUFFICES ASSUME RpnInv,
                      [DataNext]_<<which, vars, topicVars, ringVars, stackQueueVars, minVars, frameVars>>,
                      which' = "stacks", call'.fn = "eval_rpn"
               PROVE  RpnInv'
    BY DEF RpnInv
  <2>1. which = "stacks"
    BY DEF DataNext, Call, Turn
  <2>2. /\ which' = which /\ call' = call
        /\ Stk!Next \/ UNCHANGED <<loc, ret>>
    BY <2>1, StacksStepIs
  <2>3. CASE Stk!eval_rpn
    BY <2>1, <2>2, <2>3, RpnStep
  <2>4. CASE UNCHANGED <<loc, ret>>
    BY <2>1, <2>2, <2>4 DEF RpnInv
  <2> QED
    BY <2>2, <2>3, <2>4 DEF Stk!Next, Stk!Runs, Stk!daily_temperatures, Stk!is_valid_parentheses, Stk!shortest_path,
                            Stk!max_sliding_window
<1>2. RpnInv => (which = "stacks" /\ call.fn = "eval_rpn" /\ ret # <<>> => Stk!IsResult(ret[1]))
  <2> SUFFICES ASSUME RpnInv, which = "stacks", call.fn = "eval_rpn", ret # <<>>
               PROVE  Stk!IsResult(ret[1])
    OBVIOUS
  <2>1. PICK v : Stk!Means(call.of, v) /\ ret = <<v>>
    BY DEF RpnInv, Evaluates
  <2>2. Stk!Means(call.of, ret[1])
    BY <2>1
  <2> QED
    BY <2>2 DEF Stk!IsResult
<1> QED
  BY <1>1, <1>2, RpnStarts, PTL DEF DataSpec


-----------------------------------------------------------------------------
(* queue_medium_bfs_grid: W[d] are the cells that d moves over the free    *)
(* cells P can reach.                                                      *)

AroundIn(P, S) == {c \in P : \E o \in S : Stk!Touches(c, o)}

ReachOf(P, m, W) == W = [d \in 0..m |-> IF d = 0 THEN {Stk!Start} ELSE W[d - 1] \cup AroundIn(P, W[d - 1])]

(* The recursive definition of Within has a solution.                      *)
LEMMA ReachExists ==
    ASSUME NEW P, NEW n \in Nat
    PROVE  \E W : ReachOf(P, n, W)
<1> DEFINE Bad == {m \in Nat : ~ \E W : ReachOf(P, m, W)}
<1>1. SUFFICES ASSUME n \in Bad PROVE FALSE
  OBVIOUS
<1>2. PICK m \in Bad : \A y \in Bad : ~(<<y, m>> \in OpToRel(<, Nat))
  BY <1>1, NatLessThanWellFounded, WFMin
<1>3. m \in Nat /\ ~ \E W : ReachOf(P, m, W)
  BY <1>2
<1>4. CASE m = 0
  <2>1. PICK W : W = [d \in 0..0 |-> {Stk!Start}]
    OBVIOUS
  <2>2. ReachOf(P, 0, W)
    BY <2>1 DEF ReachOf
  <2> QED
    BY <1>3, <1>4, <2>2
<1>5. CASE m # 0
  <2>1. PICK k \in Nat : m = k + 1
    <3>1. m - 1 \in Nat /\ m = (m - 1) + 1
      BY <1>3, <1>5
    <3> QED
      BY <3>1
  <2>2. k \notin Bad
    <3>1. <<k, m>> \in OpToRel(<, Nat)
      BY <1>3, <2>1 DEF OpToRel
    <3> QED
      BY <1>2, <3>1
  <2>3. PICK f : ReachOf(P, k, f)
    BY <2>1, <2>2
  <2>4. PICK g : g = [d \in 0..m |-> IF d = 0 THEN {Stk!Start} ELSE f[d - 1] \cup AroundIn(P, f[d - 1])]
    OBVIOUS
  <2>5. \A d \in 0..k : g[d] = f[d]
    <3>1. f = [d \in 0..k |-> IF d = 0 THEN {Stk!Start} ELSE f[d - 1] \cup AroundIn(P, f[d - 1])]
      BY <2>3 DEF ReachOf
    <3>2. \A d \in 0..k : d \in 0..m
      BY <2>1
    <3> QED
      BY <2>4, <3>1, <3>2
  <2>6. ASSUME NEW d \in 0..m PROVE g[d] = IF d = 0 THEN {Stk!Start} ELSE g[d - 1] \cup AroundIn(P, g[d - 1])
    <3>1. CASE d = 0
      BY <2>4, <3>1
    <3>2. CASE d # 0
      <4>1. d - 1 \in 0..k
        BY <2>1, <3>2
      <4>2. g[d - 1] = f[d - 1]
        BY <2>5, <4>1
      <4>3. g[d] = f[d - 1] \cup AroundIn(P, f[d - 1])
        BY <2>4, <3>2
      <4> QED
        BY <3>2, <4>2, <4>3
    <3> QED
      BY <3>1, <3>2
  <2>7. ReachOf(P, m, g)
    BY <2>4, <2>6 DEF ReachOf
  <2> QED
    BY <1>3, <2>7
<1> QED
  BY <1>4, <1>5

Spreads(P, n, W) == W[0] = {Stk!Start} /\ \A d \in 1..n : W[d] = W[d - 1] \cup AroundIn(P, W[d - 1])

LEMMA ReachIs ==
    ASSUME NEW P, NEW n \in Nat, NEW W, ReachOf(P, n, W)
    PROVE  Spreads(P, n, W)
<1>1. W = [d \in 0..n |-> IF d = 0 THEN {Stk!Start} ELSE W[d - 1] \cup AroundIn(P, W[d - 1])]
  BY DEF ReachOf
<1>2. 0 \in 0..n /\ \A d \in 1..n : d \in 0..n /\ d # 0
  OBVIOUS
<1> QED
  BY <1>1, <1>2 DEF Spreads

LEMMA ReachRises ==
    ASSUME NEW P, NEW n \in Nat, NEW W, ReachOf(P, n, W), NEW i \in 0..n, NEW j \in 0..n, i <= j
    PROVE  W[i] \subseteq W[j]
<1>0. \A d \in 1..n : W[d] = W[d - 1] \cup AroundIn(P, W[d - 1])
  <2>1. Spreads(P, n, W)
    BY ReachIs
  <2> QED
    BY <2>1 DEF Spreads
<1> DEFINE Bad == {p \in Nat : p <= n /\ i <= p /\ ~(W[i] \subseteq W[p])}
<1>2. SUFFICES ASSUME j \in Bad PROVE FALSE
  OBVIOUS
<1>3. PICK m \in Bad : \A y \in Bad : ~(<<y, m>> \in OpToRel(<, Nat))
  BY <1>2, NatLessThanWellFounded, WFMin
<1>4. m \in Nat /\ m <= n /\ i <= m /\ ~(W[i] \subseteq W[m])
  BY <1>3
<1>5. m # i
  BY <1>4
<1>6. PICK k \in Nat : k = m - 1 /\ k < m /\ k <= n /\ m \in 1..n /\ i <= k
  BY <1>4, <1>5
<1>7. k \notin Bad
  <2>1. <<k, m>> \in OpToRel(<, Nat)
    BY <1>4, <1>6 DEF OpToRel
  <2> QED
    BY <1>3, <2>1
<1>8. W[i] \subseteq W[k]
  BY <1>6, <1>7
<1>9. W[m] = W[k] \cup AroundIn(P, W[k])
  BY <1>6, <1>0
<1> QED
  BY <1>4, <1>8, <1>9

Neighbour(a, k) == <<a[1] + Stk!Moves[k + 1][1], a[2] + Stk!Moves[k + 1][2]>>

LEMMA TouchesIs ==
    ASSUME NEW c \in CellsOf, NEW o \in CellsOf
    PROVE  Stk!Touches(c, o) <=> \E k \in 0..3 : c = Neighbour(o, k)
<1>1. PICK c1 \in Int, c2 \in Int, o1 \in Int, o2 \in Int : c = <<c1, c2>> /\ o = <<o1, o2>>
  BY DEF CellsOf
<1>2. Stk!Touches(c, o) <=> \/ c1 - o1 = -1 /\ c2 - o2 = 0
                            \/ c1 - o1 = 1 /\ c2 - o2 = 0
                            \/ c1 - o1 = 0 /\ c2 - o2 = -1
                            \/ c1 - o1 = 0 /\ c2 - o2 = 1
  BY <1>1 DEF Stk!Touches
<1>3. /\ Neighbour(o, 0) = <<o1 + (-1), o2 + 0>> /\ Neighbour(o, 1) = <<o1 + 1, o2 + 0>>
      /\ Neighbour(o, 2) = <<o1 + 0, o2 + (-1)>> /\ Neighbour(o, 3) = <<o1 + 0, o2 + 1>>
  BY <1>1 DEF Neighbour, Stk!Moves
<1>4. /\ c = Neighbour(o, 0) <=> c1 - o1 = -1 /\ c2 - o2 = 0
      /\ c = Neighbour(o, 1) <=> c1 - o1 = 1 /\ c2 - o2 = 0
      /\ c = Neighbour(o, 2) <=> c1 - o1 = 0 /\ c2 - o2 = -1
      /\ c = Neighbour(o, 3) <=> c1 - o1 = 0 /\ c2 - o2 = 1
  BY <1>1, <1>3
<1>5. \A k \in 0..3 : k = 0 \/ k = 1 \/ k = 2 \/ k = 3
  OBVIOUS
<1>6. 0 \in 0..3 /\ 1 \in 0..3 /\ 2 \in 0..3 /\ 3 \in 0..3
  OBVIOUS
<1> QED
  BY <1>2, <1>4, <1>5, <1>6

FreeIn(grid) == {cell \in DOMAIN grid : grid[cell] = 0}

LEMMA WithinIs ==
    ROWS * COLS \in Nat => ReachOf(FreeIn(call.grid), ROWS * COLS, Stk!Within)
<1> SUFFICES ASSUME ROWS * COLS \in Nat PROVE ReachOf(FreeIn(call.grid), ROWS * COLS, Stk!Within)
  OBVIOUS
<1>1. ASSUME NEW S PROVE Stk!Around(S) = AroundIn(FreeIn(call.grid), S)
  BY DEF Stk!Around, AroundIn, FreeIn, Stk!Free
<1>2. PICK V : ReachOf(FreeIn(call.grid), ROWS * COLS, V)
  BY ReachExists
<1>3. V = [d \in 0..(ROWS * COLS) |-> IF d = 0 THEN {Stk!Start} ELSE V[d - 1] \cup Stk!Around(V[d - 1])]
  BY <1>1, <1>2 DEF ReachOf
<1>4. Stk!Within = CHOOSE W : W = [d \in 0..(ROWS * COLS) |->
                                      IF d = 0 THEN {Stk!Start} ELSE W[d - 1] \cup Stk!Around(W[d - 1])]
  BY DEF Stk!Within
<1>5. Stk!Within = [d \in 0..(ROWS * COLS) |->
                       IF d = 0 THEN {Stk!Start} ELSE Stk!Within[d - 1] \cup Stk!Around(Stk!Within[d - 1])]
  BY <1>3, <1>4
<1> QED
  BY <1>1, <1>5 DEF ReachOf

(* d moves reach c, and d - 1 do not.                                      *)
Exactly(W, c, d) == c \in W[d] /\ (d = 0 \/ c \notin W[d - 1])

(* What is in the queue, the first element at place 1.                     *)
Queued(P, n, W, m, at, dist, V) ==
    /\ m \in 1..n /\ P \subseteq CellsOf
    /\ V = {at[j] : j \in 1..m}
    /\ \A j \in 1..m : at[j] \in P /\ dist[j] \in 0..(j - 1) /\ Exactly(W, at[j], dist[j])
    /\ \A j, k \in 1..m : j <= k => dist[j] <= dist[k]

(* The elements that were taken from it: of the last one, the first i      *)
(* neighbours have been looked at.                                         *)
Scanned(P, at, V, f, i) ==
    /\ \A j \in 1..f : at[j] # Stk!Goal
    /\ \A j \in 1..f : \A k \in 0..3 :
           (j < f \/ k < i) /\ Neighbour(at[j], k) \in P => Neighbour(at[j], k) \in V

Ahead(W, m, dist, V, f) ==
    IF f = 0 THEN m = 1 ELSE W[dist[f]] \subseteq V /\ \A j \in 1..m : dist[j] <= dist[f] + 1

(* When all neighbours of the elements up to f have been visited, so has   *)
(* every cell next to one that fewer moves reach.                          *)
LEMMA AroundIsVisited ==
    ASSUME NEW P, NEW at, NEW V, NEW f \in Nat, P \subseteq CellsOf, \A j \in 1..f : at[j] \in P,
           Scanned(P, at, V, f, 4), NEW S, \A o \in S : \E j \in 1..f : at[j] = o
    PROVE  AroundIn(P, S) \subseteq V
<1> SUFFICES ASSUME NEW c \in AroundIn(P, S) PROVE c \in V
  OBVIOUS
<1>1. c \in P /\ \E o \in S : Stk!Touches(c, o)
  BY DEF AroundIn
<1>2. PICK o \in S : Stk!Touches(c, o)
  BY <1>1
<1>3. PICK j \in 1..f : at[j] = o
  OBVIOUS
<1>5. o \in CellsOf /\ c \in CellsOf
  BY <1>1, <1>3
<1>6. PICK k \in 0..3 : c = Neighbour(o, k)
  BY <1>2, <1>5, TouchesIs
<1>7. k < 4
  OBVIOUS
<1> QED
  BY <1>1, <1>3, <1>6, <1>7 DEF Scanned

LEMMA TakesCell ==
    ASSUME NEW P, NEW n \in Nat, NEW W, ReachOf(P, n, W), NEW m, NEW at, NEW dist, NEW V, NEW f \in Nat,
           Queued(P, n, W, m, at, dist, V), Scanned(P, at, V, f, 4), Ahead(W, m, dist, V, f),
           f < m, at[f + 1] # Stk!Goal
    PROVE  Scanned(P, at, V, f + 1, 0) /\ Ahead(W, m, dist, V, f + 1)
<1>0. W[0] = {Stk!Start} /\ \A d \in 1..n : W[d] = W[d - 1] \cup AroundIn(P, W[d - 1])
  <2>1. Spreads(P, n, W)
    BY ReachIs
  <2> QED
    BY <2>1 DEF Spreads
<1>1. /\ m \in 1..n /\ P \subseteq CellsOf
      /\ V = {at[j] : j \in 1..m}
      /\ \A j \in 1..m : at[j] \in P /\ dist[j] \in 0..(j - 1) /\ Exactly(W, at[j], dist[j])
      /\ \A j, k \in 1..m : j <= k => dist[j] <= dist[k]
  BY DEF Queued
<1>2. f + 1 \in 1..m /\ m \in Nat /\ \A j \in 1..(f + 1) : j \in 1..f \/ j = f + 1
  BY <1>1
<1>3. Scanned(P, at, V, f + 1, 0)
  <2>1. \A j \in 1..(f + 1) : at[j] # Stk!Goal
    BY <1>2 DEF Scanned
  <2>2. ASSUME NEW j \in 1..(f + 1), NEW k \in 0..3, j < f + 1 \/ k < 0, Neighbour(at[j], k) \in P
        PROVE  Neighbour(at[j], k) \in V
    <3>1. j \in 1..f /\ k < 4
      BY <2>2
    <3> QED
      BY <2>2, <3>1 DEF Scanned
  <2> QED
    BY <2>1, <2>2 DEF Scanned
<1>4. CASE f = 0
  <2>1. m = 1
    BY <1>4 DEF Ahead
  <2>2. dist[1] = 0 /\ at[1] = Stk!Start /\ at[1] \in V
    <3>1. 1 \in 1..m
      BY <2>1
    <3>2. dist[1] \in 0..0 /\ Exactly(W, at[1], dist[1])
      BY <1>1, <3>1
    <3>3. dist[1] = 0
      BY <3>2
    <3>4. at[1] \in {Stk!Start}
      BY <3>2, <3>3, <1>0 DEF Exactly
    <3> QED
      BY <1>1, <3>1, <3>3, <3>4
  <2>3. W[dist[1]] \subseteq V
    BY <2>2, <1>0
  <2>4. \A j \in 1..m : dist[j] <= dist[1] + 1
    <3>1. \A j \in 1..m : j = 1
      BY <2>1
    <3> QED
      BY <2>2, <3>1
  <2> QED
    BY <1>3, <1>4, <2>3, <2>4 DEF Ahead
<1>5. CASE f # 0
  <2>1. W[dist[f]] \subseteq V /\ \A j \in 1..m : dist[j] <= dist[f] + 1
    BY <1>5 DEF Ahead
  <2>2. f \in 1..m /\ f <= f + 1
    BY <1>2, <1>5
  <2>3. PICK d \in Nat, d2 \in Nat : d = dist[f] /\ d2 = dist[f + 1]
    BY <1>1, <1>2, <2>2
  <2>4. d <= d2 /\ d2 <= d + 1 /\ d <= n /\ d2 <= n
    <3>1. d \in 0..(f - 1) /\ d2 \in 0..(f + 1 - 1)
      BY <1>1, <1>2, <2>2, <2>3
    <3> QED
      BY <1>1, <1>2, <2>1, <2>2, <2>3, <3>1
  <2>5. W[d2] \subseteq V
    <3>1. CASE d2 = d
      BY <2>1, <2>3, <3>1
    <3>2. CASE d2 = d + 1
      <4>1. d2 \in 1..n /\ d2 - 1 = d
        BY <2>3, <2>4, <3>2
      <4>2. W[d2] = W[d] \cup AroundIn(P, W[d])
        BY <4>1, <1>0
      <4>3. ASSUME NEW o \in W[d] PROVE \E j \in 1..f : at[j] = o
        <5>1. PICK j \in 1..m : at[j] = o
          BY <1>1, <2>1, <2>3
        <5>2. PICK e \in Nat : e = dist[j] /\ e <= j - 1 /\ Exactly(W, o, e)
          BY <1>1, <5>1
        <5>3. e <= d
          <6>1. SUFFICES ASSUME e > d PROVE FALSE
            BY <5>2
          <6>2. e # 0 /\ e - 1 \in 0..n /\ d \in 0..n /\ d <= e - 1
            BY <1>1, <1>2, <2>3, <2>4, <5>2, <6>1
          <6>3. W[d] \subseteq W[e - 1]
            BY <6>2, ReachRises
          <6> QED
            BY <5>2, <6>2, <6>3 DEF Exactly
        <5>4. ~(f + 1 <= j)
          <6>1. f + 1 <= j => d2 <= e
            BY <1>1, <1>2, <2>3, <5>2
          <6> QED
            BY <2>3, <3>2, <5>2, <5>3, <6>1
        <5>5. j \in 1..f
          BY <5>4
        <5> QED
          BY <5>1, <5>5
      <4>4. AroundIn(P, W[d]) \subseteq V
        <5>1. \A j \in 1..f : j \in 1..m
          BY <1>2
        <5>2. \A j \in 1..f : at[j] \in P
          BY <1>1, <5>1
        <5> QED
          BY <1>1, <4>3, <5>2, AroundIsVisited
      <4> QED
        BY <2>1, <2>3, <4>2, <4>4
    <3> QED
      BY <2>3, <2>4, <3>1, <3>2
  <2>6. \A j \in 1..m : dist[j] <= dist[f + 1] + 1
    <3> SUFFICES ASSUME NEW j \in 1..m PROVE dist[j] <= dist[f + 1] + 1
      OBVIOUS
    <3>1. dist[j] <= d + 1 /\ dist[j] \in Int
      BY <1>1, <2>1, <2>3
    <3> QED
      BY <2>3, <2>4, <3>1
  <2>7. f + 1 # 0
    OBVIOUS
  <2> QED
    BY <1>3, <2>3, <2>5, <2>6, <2>7 DEF Ahead
<1> QED
  BY <1>4, <1>5

(* A sequence with one more element.                                       *)
Longer(m, at, dist, at2, dist2, c, d) ==
    /\ \A j \in 1..m : at2[j] = at[j] /\ dist2[j] = dist[j]
    /\ at2[m + 1] = c /\ dist2[m + 1] = d

LEMMA QueuesCell ==
    ASSUME NEW P, NEW n \in Nat, NEW W, ReachOf(P, n, W), NEW m, NEW at, NEW dist, NEW V, NEW f \in Nat \ {0},
           NEW i \in 0..3,
           Queued(P, n, W, m, at, dist, V), Scanned(P, at, V, f, i), Ahead(W, m, dist, V, f), f <= m, m + 1 <= n,
           NEW c, c = Neighbour(at[f], i), c \in P, c \notin V,
           NEW at2, NEW dist2, Longer(m, at, dist, at2, dist2, c, dist[f] + 1)
    PROVE  /\ Queued(P, n, W, m + 1, at2, dist2, V \cup {c})
           /\ Scanned(P, at2, V \cup {c}, f, i + 1)
           /\ Ahead(W, m + 1, dist2, V \cup {c}, f)
<1>0. W[0] = {Stk!Start} /\ \A d \in 1..n : W[d] = W[d - 1] \cup AroundIn(P, W[d - 1])
  <2>1. Spreads(P, n, W)
    BY ReachIs
  <2> QED
    BY <2>1 DEF Spreads
<1>a. (\A j \in 1..m : at2[j] = at[j] /\ dist2[j] = dist[j]) /\ at2[m + 1] = c /\ dist2[m + 1] = dist[f] + 1
  BY DEF Longer
<1>1. /\ m \in 1..n /\ P \subseteq CellsOf
      /\ V = {at[j] : j \in 1..m}
      /\ \A j \in 1..m : at[j] \in P /\ dist[j] \in 0..(j - 1) /\ Exactly(W, at[j], dist[j])
      /\ \A j, k \in 1..m : j <= k => dist[j] <= dist[k]
  BY DEF Queued
<1>2. PICK m2 \in Nat : m2 = m + 1
  BY <1>1
<1>3. f \in 1..m /\ m2 \in 1..n /\ m2 \in 1..m2 /\ \A j \in 1..m2 : j \in 1..m \/ j = m2
  BY <1>1, <1>2
<1>4. PICK d \in Nat : d = dist[f]
  BY <1>1, <1>3
<1>5. d \in 0..(f - 1) /\ d + 1 \in 1..n /\ d + 1 - 1 = d /\ d + 1 \in 0..(m2 - 1) /\ d + 1 # 0
  <2>1. d \in 0..(f - 1)
    BY <1>1, <1>3, <1>4
  <2> QED
    BY <1>1, <1>2, <1>3, <2>1
<1>6. W[d] \subseteq V /\ \A j \in 1..m : dist[j] <= d + 1
  BY <1>4 DEF Ahead
<1>7. Exactly(W, c, d + 1)
  <2>1. at[f] \in W[d] /\ at[f] \in CellsOf /\ c \in CellsOf
    BY <1>1, <1>3, <1>4 DEF Exactly
  <2>2. i \in 0..3 /\ Stk!Touches(c, at[f])
    BY <2>1, TouchesIs
  <2>3. c \in AroundIn(P, W[d])
    BY <2>1, <2>2 DEF AroundIn
  <2>4. W[d + 1] = W[d] \cup AroundIn(P, W[d])
    BY <1>5, <1>0
  <2>5. c \in W[d + 1] /\ c \notin W[d]
    BY <1>6, <2>3, <2>4
  <2> QED
    BY <1>5, <2>5 DEF Exactly
<1>8. V \cup {c} = {at2[j] : j \in 1..m2}
  <2>1. ASSUME NEW x \in V \cup {c} PROVE \E j \in 1..m2 : x = at2[j]
    <3>1. CASE x = c
      BY <1>a, <1>2, <1>3, <3>1
    <3>2. CASE x \in V
      <4>1. PICK j \in 1..m : x = at[j]
        BY <1>1, <3>2
      <4>2. j \in 1..m2 /\ at2[j] = x
        BY <1>a, <1>1, <1>2, <4>1
      <4> QED
        BY <4>2
    <3> QED
      BY <3>1, <3>2
  <2>2. ASSUME NEW j \in 1..m2 PROVE at2[j] \in V \cup {c}
    BY <1>a, <1>1, <1>2, <1>3
  <2> QED
    BY <2>1, <2>2
<1>9. \A j \in 1..m2 : at2[j] \in P /\ dist2[j] \in 0..(j - 1) /\ Exactly(W, at2[j], dist2[j])
  <2> SUFFICES ASSUME NEW j \in 1..m2 PROVE at2[j] \in P /\ dist2[j] \in 0..(j - 1) /\ Exactly(W, at2[j], dist2[j])
    OBVIOUS
  <2>1. CASE j \in 1..m
    BY <1>a, <1>1, <2>1
  <2>2. CASE j = m2
    <3>1. at2[j] = c /\ dist2[j] = d + 1 /\ d + 1 \in 0..(j - 1)
      BY <1>a, <1>2, <1>4, <1>5, <2>2
    <3> QED
      BY <1>7, <3>1
  <2> QED
    BY <1>3, <2>1, <2>2
<1>10. ASSUME NEW j \in 1..m2, NEW k \in 1..m2, j <= k PROVE dist2[j] <= dist2[k]
  <2>1. CASE k \in 1..m
    <3>1. j \in 1..m
      <4>1. m \in Nat /\ m2 \in Nat
        BY <1>1, <1>2
      <4> QED
        BY <1>10, <2>1, <4>1
    <3> QED
      BY <1>a, <1>1, <1>10, <2>1, <3>1
  <2>2. CASE k = m2 /\ j \in 1..m
    BY <1>a, <1>2, <1>4, <1>6, <2>2
  <2>3. CASE k = m2 /\ j = m2
    BY <1>a, <1>2, <1>4, <2>3
  <2> QED
    BY <1>3, <2>1, <2>2, <2>3
<1>11. Queued(P, n, W, m2, at2, dist2, V \cup {c})
  BY <1>1, <1>3, <1>8, <1>9, <1>10 DEF Queued
<1>12. Scanned(P, at2, V \cup {c}, f, i + 1)
  <2>1. \A j \in 1..f : at2[j] = at[j]
    <3>1. m \in Nat /\ \A j \in 1..f : j \in 1..m
      BY <1>1, <1>3
    <3> QED
      BY <1>a, <3>1
  <2>2. ASSUME NEW j \in 1..f, NEW k \in 0..3, j < f \/ k < i + 1, Neighbour(at2[j], k) \in P
        PROVE  Neighbour(at2[j], k) \in V \cup {c}
    <3>1. CASE j < f \/ k < i
      BY <2>1, <2>2, <3>1 DEF Scanned
    <3>2. CASE ~(j < f \/ k < i)
      <4>1. j = f /\ k = i
        BY <2>2, <3>2
      <4> QED
        BY <2>1, <4>1
    <3> QED
      BY <3>1, <3>2
  <2> QED
    BY <2>1, <2>2 DEF Scanned
<1>13. Ahead(W, m2, dist2, V \cup {c}, f)
  <2>1. dist2[f] = d
    BY <1>a, <1>3, <1>4
  <2>2. \A j \in 1..m2 : dist2[j] <= d + 1
    <3> SUFFICES ASSUME NEW j \in 1..m2 PROVE dist2[j] <= d + 1
      OBVIOUS
    <3>1. CASE j \in 1..m
      BY <1>a, <1>6, <3>1
    <3>2. CASE j = m2
      BY <1>a, <1>2, <1>4, <3>2
    <3> QED
      BY <1>3, <3>1, <3>2
  <2> QED
    BY <1>6, <2>1, <2>2 DEF Ahead
<1> QED
  BY <1>2, <1>11, <1>12, <1>13

LEMMA PassesCell ==
    ASSUME NEW P, NEW at, NEW V, NEW f \in Nat, NEW i \in 0..3, Scanned(P, at, V, f, i),
           NEW c, c = Neighbour(at[f], i), c \notin P \/ c \in V
    PROVE  Scanned(P, at, V, f, i + 1)
<1>1. ASSUME NEW j \in 1..f, NEW k \in 0..3, j < f \/ k < i + 1, Neighbour(at[j], k) \in P
      PROVE  Neighbour(at[j], k) \in V
  <2>1. CASE j < f \/ k < i
    BY <1>1, <2>1 DEF Scanned
  <2>2. CASE ~(j < f \/ k < i)
    <3>1. j = f /\ k = i
      BY <1>1, <2>2
    <3> QED
      BY <1>1, <3>1
  <2> QED
    BY <2>1, <2>2
<1> QED
  BY <1>1 DEF Scanned

(* When the queue is exhausted, no number of moves reaches the goal.       *)
LEMMA NoneLeft ==
    ASSUME NEW P, NEW n \in Nat, NEW W, ReachOf(P, n, W), NEW m, NEW at, NEW dist, NEW V,
           Queued(P, n, W, m, at, dist, V), Scanned(P, at, V, m, 4)
    PROVE  Stk!Goal \notin W[n]
<1>0. W[0] = {Stk!Start} /\ \A d \in 1..n : W[d] = W[d - 1] \cup AroundIn(P, W[d - 1])
  <2>1. Spreads(P, n, W)
    BY ReachIs
  <2> QED
    BY <2>1 DEF Spreads
<1>1. /\ m \in 1..n /\ P \subseteq CellsOf
      /\ V = {at[j] : j \in 1..m}
      /\ \A j \in 1..m : at[j] \in P /\ dist[j] \in 0..(j - 1) /\ Exactly(W, at[j], dist[j])
  BY DEF Queued
<1>2. Stk!Start \in V
  <2>1. 1 \in 1..m
    BY <1>1
  <2>2. dist[1] \in 0..0 /\ Exactly(W, at[1], dist[1])
    BY <1>1, <2>1
  <2>3. at[1] \in {Stk!Start}
    BY <2>2, <1>0 DEF Exactly
  <2> QED
    BY <1>1, <2>1, <2>3
<1>3. W[n] \subseteq V
  <2> DEFINE Bad == {d \in Nat : d <= n /\ ~(W[d] \subseteq V)}
  <2>1. SUFFICES ASSUME n \in Bad PROVE FALSE
    OBVIOUS
  <2>2. PICK e \in Bad : \A y \in Bad : ~(<<y, e>> \in OpToRel(<, Nat))
    BY <2>1, NatLessThanWellFounded, WFMin
  <2>3. e \in Nat /\ e <= n /\ ~(W[e] \subseteq V)
    BY <2>2
  <2>4. e # 0
    BY <1>2, <2>3, <1>0
  <2>5. PICK k \in Nat : k = e - 1 /\ k < e /\ k <= n /\ e \in 1..n
    BY <2>3, <2>4
  <2>6. k \notin Bad
    <3>1. <<k, e>> \in OpToRel(<, Nat)
      BY <2>3, <2>5 DEF OpToRel
    <3> QED
      BY <2>2, <3>1
  <2>7. W[k] \subseteq V
    BY <2>5, <2>6
  <2>8. AroundIn(P, W[k]) \subseteq V
    <3>1. \A o \in W[k] : \E j \in 1..m : at[j] = o
      BY <1>1, <2>7
    <3>2. m \in Nat
      BY <1>1
    <3>3. P \subseteq CellsOf /\ \A j \in 1..m : at[j] \in P
      BY <1>1
    <3> QED
      BY <3>1, <3>2, <3>3, AroundIsVisited
  <2>9. W[e] = W[k] \cup AroundIn(P, W[k])
    BY <2>5, <1>0
  <2> QED
    BY <2>3, <2>7, <2>8, <2>9
<1>4. \A j \in 1..m : at[j] # Stk!Goal
  BY DEF Scanned
<1> QED
  BY <1>1, <1>3, <1>4

PathIs(P, n, W, r) ==
    IF Stk!Start \in P /\ Stk!Goal \in P /\ Stk!Goal \in W[n]
        THEN Stk!Goal \in W[r] /\ (r = 0 \/ Stk!Goal \notin W[r - 1])
        ELSE r = -1

LEMMA GoalIsFound ==
    ASSUME NEW P, NEW n \in Nat, NEW W, ReachOf(P, n, W), NEW m, NEW at, NEW dist, NEW V,
           Queued(P, n, W, m, at, dist, V), NEW j \in 1..m, at[j] = Stk!Goal, Stk!Start \in P, Stk!Goal \in P
    PROVE  PathIs(P, n, W, dist[j])
<1>1. m \in 1..n /\ dist[j] \in 0..(j - 1) /\ Exactly(W, Stk!Goal, dist[j])
  BY DEF Queued
<1>2. dist[j] \in 0..n /\ n \in 0..n /\ dist[j] <= n
  BY <1>1
<1>3. W[dist[j]] \subseteq W[n]
  BY <1>2, ReachRises
<1> QED
  BY <1>1, <1>3 DEF PathIs, Exactly

(* The search behind the queue q: Start and Goal are free, and it goes     *)
(* level by level.                                                         *)
CellsIn(q) == [j \in 1..Len(q) |-> q[j].at]
DistsIn(q) == [j \in 1..Len(q) |-> q[j].dist]

Searched(P, n, W, q, V, f, i) ==
    /\ Queued(P, n, W, Len(q), CellsIn(q), DistsIn(q), V)
    /\ Scanned(P, CellsIn(q), V, f, i)
    /\ Ahead(W, Len(q), DistsIn(q), V, f)

PathSearchInv ==
    which = "stacks" /\ call.fn = "shortest_path" =>
        /\ loc.queue # <<>> =>
               /\ Stk!Start \in FreeIn(call.grid) /\ Stk!Goal \in FreeIn(call.grid)
               /\ \A W : ReachOf(FreeIn(call.grid), ROWS * COLS, W) =>
                      Searched(FreeIn(call.grid), ROWS * COLS, W, loc.queue, loc.visited, loc.front, loc.i)
        /\ ret # <<>> =>
               \A W : ReachOf(FreeIn(call.grid), ROWS * COLS, W) => PathIs(FreeIn(call.grid), ROWS * COLS, W, ret[1])

LEMMA PathSearchStarts == DataInit => PathSearchInv
<1> SUFFICES ASSUME DataInit, which = "stacks", call.fn = "shortest_path"
             PROVE  PathSearchInv
  BY DEF PathSearchInv
<1>1. call \in Stk!Calls /\ loc = Stk!Entry(call) /\ ret = <<>>
  BY DEF DataInit, Begins
<1>2. loc = [front |-> 0, queue |-> <<>>, visited |-> {}, i |-> 4]
  BY <1>1 DEF Stk!Entry
<1> QED
  BY <1>1, <1>2 DEF PathSearchInv

LEMMA SearchBegins ==
    ASSUME NEW P, NEW n \in Nat \ {0}, NEW W, ReachOf(P, n, W), P \subseteq CellsOf, Stk!Start \in P
    PROVE  Searched(P, n, W, <<[at |-> Stk!Start, dist |-> 0]>>, {Stk!Start}, 0, 4)
<1>1. PICK q, at, dist : q = <<[at |-> Stk!Start, dist |-> 0]>> /\ at = CellsIn(q) /\ dist = DistsIn(q)
  OBVIOUS
<1>2. Len(q) = 1 /\ q[1] = [at |-> Stk!Start, dist |-> 0]
  BY <1>1
<1>3. at[1] = Stk!Start /\ dist[1] = 0
  BY <1>1, <1>2 DEF CellsIn, DistsIn
<1>4. W[0] = {Stk!Start}
  <2>1. Spreads(P, n, W)
    BY ReachIs
  <2> QED
    BY <2>1 DEF Spreads
<1>5. \A j \in 1..1 : j = 1
  OBVIOUS
<1>6. Queued(P, n, W, 1, at, dist, {Stk!Start})
  BY <1>3, <1>4, <1>5 DEF Queued, Exactly
<1>7. Scanned(P, at, {Stk!Start}, 0, 4) /\ Ahead(W, 1, dist, {Stk!Start}, 0)
  BY DEF Scanned, Ahead
<1> QED
  BY <1>1, <1>2, <1>6, <1>7 DEF Searched

LEMMA SearchQueues ==
    ASSUME NEW P, NEW n \in Nat, NEW W, ReachOf(P, n, W), NEW q \in Seq([at : CellsOf, dist : Nat]), NEW V,
           NEW f \in 1..Len(q), NEW i \in 0..3, Searched(P, n, W, q, V, f, i), Len(q) + 1 <= n,
           NEW c, c = Neighbour(q[f].at, i), c \in P, c \notin V, c \in CellsOf
    PROVE  Searched(P, n, W, Append(q, [at |-> c, dist |-> q[f].dist + 1]), V \cup {c}, f, i + 1)
<1>1. PICK m \in Nat : m = Len(q)
  BY LenProperties
<1>2. PICK at, dist, node, q2 : /\ at = CellsIn(q) /\ dist = DistsIn(q) /\ node = [at |-> c, dist |-> q[f].dist + 1]
                               /\ q2 = Append(q, node)
  OBVIOUS
<1>3. q[f] \in [at : CellsOf, dist : Nat]
  BY ElementOfSeq
<1>4. node \in [at : CellsOf, dist : Nat]
  BY <1>2, <1>3
<1>5. /\ Len(q2) = m + 1
      /\ \A j \in 1..m : q2[j] = q[j]
      /\ q2[m + 1] = node
  BY <1>1, <1>2, <1>4, OneMore
<1>6. PICK at2, dist2 : at2 = CellsIn(q2) /\ dist2 = DistsIn(q2)
  OBVIOUS
<1>7. \A j \in 1..m : j \in 1..(m + 1)
  OBVIOUS
<1>8. \A j \in 1..m : at2[j] = at[j] /\ dist2[j] = dist[j]
  BY <1>1, <1>2, <1>5, <1>6, <1>7 DEF CellsIn, DistsIn
<1>9. at[f] = q[f].at /\ dist[f] = q[f].dist
  BY <1>1, <1>2 DEF CellsIn, DistsIn
<1>10. at2[m + 1] = c /\ dist2[m + 1] = dist[f] + 1
  <2>1. m + 1 \in 1..(m + 1)
    OBVIOUS
  <2> QED
    BY <1>2, <1>5, <1>6, <1>9, <2>1 DEF CellsIn, DistsIn
<1>11. Queued(P, n, W, m, at, dist, V) /\ Scanned(P, at, V, f, i) /\ Ahead(W, m, dist, V, f)
  BY <1>1, <1>2 DEF Searched
<1>12. /\ Queued(P, n, W, m + 1, at2, dist2, V \cup {c})
       /\ Scanned(P, at2, V \cup {c}, f, i + 1)
       /\ Ahead(W, m + 1, dist2, V \cup {c}, f)
  <2>1. f \in Nat \ {0} /\ f <= m /\ m + 1 <= n /\ c = Neighbour(at[f], i)
    BY <1>1, <1>9
  <2>2. Longer(m, at, dist, at2, dist2, c, dist[f] + 1)
    BY <1>8, <1>10 DEF Longer
  <2> QED
    BY <1>11, <2>1, <2>2, QueuesCell
<1> QED
  BY <1>2, <1>5, <1>6, <1>12 DEF Searched

LEMMA SearchGoesOn ==
    ASSUME PathInv, PathInv', PathSearchInv, which = "stacks", call.fn = "shortest_path", which' = which, call' = call,
           Stk!shortest_path
    PROVE  PathSearchInv'
<1>1. PICK P, n : P = FreeIn(call.grid) /\ n = ROWS * COLS
  OBVIOUS
<1>2. PICK q, V, f, i : q = loc.queue /\ V = loc.visited /\ f = loc.front /\ i = loc.i
  OBVIOUS
<1>3. /\ q \in Seq([at : CellsOf, dist : Nat]) /\ Len(q) \in Nat /\ f \in 0..Len(q) /\ i \in 0..4
      /\ i < 4 => f > 0
      /\ loc = [front |-> f, queue |-> q, visited |-> V, i |-> i]
  BY <1>2, LenProperties DEF PathInv
<1>4. P \subseteq CellsOf /\ \A c : Stk!Free(c) <=> c \in P
  BY <1>1 DEF PathInv, FreeIn, Stk!Free
<1>5. n \in Nat \ {0} /\ Len(loc'.queue) <= n
  <2>1. n \in Nat /\ n = Cardinality(CellsOf)
    BY <1>1, CellsAreFinite, FS_CardinalityType
  <2>2. loc'.visited \subseteq CellsOf /\ Len(loc'.queue) = Cardinality(loc'.visited)
    BY DEF PathInv
  <2>3. Len(loc'.queue) <= n
    BY <2>1, <2>2, CellsAreFinite, FS_Subset
  <2>4. n # 0
    <3>1. Stk!Start \in CellsOf
      BY DataAssumption DEF CellsOf, Stk!Start
    <3> QED
      BY <2>1, <3>1, CellsAreFinite, FS_EmptySet
  <2> QED
    BY <2>1, <2>3, <2>4
<1>6. /\ q # <<>> => /\ Stk!Start \in P /\ Stk!Goal \in P
                      /\ \A W : ReachOf(P, n, W) => Searched(P, n, W, q, V, f, i)
  BY <1>1, <1>2 DEF PathSearchInv
<1>7. SUFFICES /\ loc'.queue # <<>> =>
                    /\ Stk!Start \in P /\ Stk!Goal \in P
                    /\ \A W : ReachOf(P, n, W) => Searched(P, n, W, loc'.queue, loc'.visited, loc'.front, loc'.i)
               /\ ret' # <<>> => \A W : ReachOf(P, n, W) => PathIs(P, n, W, ret'[1])
  BY <1>1 DEF PathSearchInv
<1>8. ret = <<>>
  BY DEF Stk!shortest_path, Stk!Runs
<1>9. ASSUME q = <<>>, Stk!Free(Stk!Start), Stk!Free(Stk!Goal), ret' = ret,
             loc' = [loc EXCEPT !.queue = <<[at |-> Stk!Start, dist |-> 0]>>, !.visited = {Stk!Start}]
      PROVE  /\ loc'.queue # <<>> =>
                    /\ Stk!Start \in P /\ Stk!Goal \in P
                    /\ \A W : ReachOf(P, n, W) => Searched(P, n, W, loc'.queue, loc'.visited, loc'.front, loc'.i)
             /\ ret' # <<>> => \A W : ReachOf(P, n, W) => PathIs(P, n, W, ret'[1])
  <2>1. f = 0 /\ i = 4
    BY <1>3, <1>9
  <2>2. loc' = [front |-> 0, queue |-> <<[at |-> Stk!Start, dist |-> 0]>>, visited |-> {Stk!Start}, i |-> 4]
    BY <1>3, <1>9, <2>1
  <2>3. Stk!Start \in P /\ Stk!Goal \in P
    BY <1>4, <1>9
  <2>4. \A W : ReachOf(P, n, W) => Searched(P, n, W, <<[at |-> Stk!Start, dist |-> 0]>>, {Stk!Start}, 0, 4)
    BY <1>4, <1>5, <2>3, SearchBegins
  <2>5. /\ loc'.queue = <<[at |-> Stk!Start, dist |-> 0]>> /\ loc'.visited = {Stk!Start}
        /\ loc'.front = 0 /\ loc'.i = 4
    BY <2>2
  <2>6. ~(ret' # <<>>)
    BY <1>8, <1>9
  <2> QED
    BY <2>3, <2>4, <2>5, <2>6
<1>10. ASSUME q = <<>>, ~(Stk!Free(Stk!Start) /\ Stk!Free(Stk!Goal)), loc' = loc, ret' = <<-1>>
       PROVE  /\ loc'.queue # <<>> =>
                    /\ Stk!Start \in P /\ Stk!Goal \in P
                    /\ \A W : ReachOf(P, n, W) => Searched(P, n, W, loc'.queue, loc'.visited, loc'.front, loc'.i)
              /\ ret' # <<>> => \A W : ReachOf(P, n, W) => PathIs(P, n, W, ret'[1])
  <2>1. ~(Stk!Start \in P /\ Stk!Goal \in P) /\ ret'[1] = -1
    BY <1>4, <1>10
  <2> QED
    BY <1>2, <1>10, <2>1 DEF PathIs
<1>11. ASSUME q # <<>>, i = 4, f = Len(q), loc' = loc, ret' = <<-1>>
       PROVE  /\ loc'.queue # <<>> =>
                    /\ Stk!Start \in P /\ Stk!Goal \in P
                    /\ \A W : ReachOf(P, n, W) => Searched(P, n, W, loc'.queue, loc'.visited, loc'.front, loc'.i)
              /\ ret' # <<>> => \A W : ReachOf(P, n, W) => PathIs(P, n, W, ret'[1])
  <2>1. ASSUME NEW W, ReachOf(P, n, W) PROVE PathIs(P, n, W, -1)
    <3>1. Queued(P, n, W, Len(q), CellsIn(q), DistsIn(q), V) /\ Scanned(P, CellsIn(q), V, Len(q), 4)
      BY <1>6, <1>11, <2>1 DEF Searched
    <3>2. Stk!Goal \notin W[n]
      BY <1>5, <2>1, <3>1, NoneLeft
    <3> QED
      BY <3>2 DEF PathIs
  <2> QED
    BY <1>2, <1>6, <1>11, <2>1
<1>12. ASSUME i = 4, f < Len(q), q[f + 1].at = Stk!Goal, loc' = loc, ret' = <<q[f + 1].dist>>
       PROVE  /\ loc'.queue # <<>> =>
                    /\ Stk!Start \in P /\ Stk!Goal \in P
                    /\ \A W : ReachOf(P, n, W) => Searched(P, n, W, loc'.queue, loc'.visited, loc'.front, loc'.i)
              /\ ret' # <<>> => \A W : ReachOf(P, n, W) => PathIs(P, n, W, ret'[1])
  <2>1. q # <<>> /\ f + 1 \in 1..Len(q)
    BY <1>3, <1>12
  <2>2. ASSUME NEW W, ReachOf(P, n, W) PROVE PathIs(P, n, W, q[f + 1].dist)
    <3>1. Queued(P, n, W, Len(q), CellsIn(q), DistsIn(q), V)
      BY <1>6, <2>1, <2>2 DEF Searched
    <3>2. CellsIn(q)[f + 1] = Stk!Goal /\ DistsIn(q)[f + 1] = q[f + 1].dist
      BY <1>12, <2>1 DEF CellsIn, DistsIn
    <3>3. PathIs(P, n, W, DistsIn(q)[f + 1])
      BY <1>5, <1>6, <2>1, <2>2, <3>1, <3>2, GoalIsFound
    <3> QED
      BY <3>2, <3>3
  <2> QED
    BY <1>2, <1>6, <1>12, <2>1, <2>2
<1>13. ASSUME i = 4, f < Len(q), q[f + 1].at # Stk!Goal, loc' = [loc EXCEPT !.front = @ + 1, !.i = 0], ret' = ret
       PROVE  /\ loc'.queue # <<>> =>
                    /\ Stk!Start \in P /\ Stk!Goal \in P
                    /\ \A W : ReachOf(P, n, W) => Searched(P, n, W, loc'.queue, loc'.visited, loc'.front, loc'.i)
              /\ ret' # <<>> => \A W : ReachOf(P, n, W) => PathIs(P, n, W, ret'[1])
  <2>1. q # <<>> /\ f + 1 \in 1..Len(q) /\ f \in Nat
    BY <1>3, <1>13
  <2>2. loc' = [front |-> f + 1, queue |-> q, visited |-> V, i |-> 0]
    BY <1>3, <1>13
  <2>3. ASSUME NEW W, ReachOf(P, n, W) PROVE Searched(P, n, W, q, V, f + 1, 0)
    <3>1. Queued(P, n, W, Len(q), CellsIn(q), DistsIn(q), V) /\ Scanned(P, CellsIn(q), V, f, 4) /\ Ahead(W, Len(q), DistsIn(q), V, f)
      BY <1>6, <1>13, <2>1, <2>3 DEF Searched
    <3>2. CellsIn(q)[f + 1] # Stk!Goal
      BY <1>13, <2>1 DEF CellsIn
    <3>3. Scanned(P, CellsIn(q), V, f + 1, 0) /\ Ahead(W, Len(q), DistsIn(q), V, f + 1)
      BY <1>5, <1>13, <2>1, <2>3, <3>1, <3>2, TakesCell
    <3> QED
      BY <3>1, <3>3 DEF Searched
  <2>4. loc'.queue = q /\ loc'.visited = V /\ loc'.front = f + 1 /\ loc'.i = 0
    BY <2>2
  <2>5. ~(ret' # <<>>)
    BY <1>8, <1>13
  <2> QED
    BY <1>6, <2>1, <2>3, <2>4, <2>5
<1>14. ASSUME i < 4, NEW c, c = Neighbour(q[f].at, i), Stk!Free(c), c \notin V, ret' = ret,
              loc' = [loc EXCEPT !.queue = Append(@, [at |-> c, dist |-> q[f].dist + 1]),
                                 !.visited = @ \cup {c},
                                 !.i = @ + 1]
       PROVE  /\ loc'.queue # <<>> =>
                    /\ Stk!Start \in P /\ Stk!Goal \in P
                    /\ \A W : ReachOf(P, n, W) => Searched(P, n, W, loc'.queue, loc'.visited, loc'.front, loc'.i)
              /\ ret' # <<>> => \A W : ReachOf(P, n, W) => PathIs(P, n, W, ret'[1])
  <2>1. q # <<>> /\ f \in 1..Len(q) /\ i \in 0..3 /\ c \in P /\ c \in CellsOf
    BY <1>3, <1>4, <1>14
  <2>2. PICK node : node = [at |-> c, dist |-> q[f].dist + 1]
    OBVIOUS
  <2>3. loc' = [front |-> f, queue |-> Append(q, node), visited |-> V \cup {c}, i |-> i + 1]
    BY <1>3, <1>14, <2>2
  <2>4. Len(q) + 1 <= n
    <3>1. q[f] \in [at : CellsOf, dist : Nat]
      BY <1>3, <2>1, ElementOfSeq
    <3>2. node \in [at : CellsOf, dist : Nat]
      BY <2>1, <2>2, <3>1
    <3>3. Len(Append(q, node)) = Len(q) + 1
      BY <1>3, <3>2, AppendProperties
    <3> QED
      BY <1>5, <2>3, <3>3
  <2>5. \A W : ReachOf(P, n, W) => Searched(P, n, W, Append(q, node), V \cup {c}, f, i + 1)
    BY <1>3, <1>5, <1>6, <1>14, <2>1, <2>2, <2>4, SearchQueues
  <2>6. loc'.queue = Append(q, node) /\ loc'.visited = V \cup {c} /\ loc'.front = f /\ loc'.i = i + 1
    BY <2>3
  <2>7. ~(ret' # <<>>)
    BY <1>8, <1>14
  <2> QED
    BY <1>6, <2>1, <2>5, <2>6, <2>7
<1>15. ASSUME i < 4, NEW c, c = Neighbour(q[f].at, i), ~(Stk!Free(c) /\ c \notin V), ret' = ret,
              loc' = [loc EXCEPT !.i = @ + 1]
       PROVE  /\ loc'.queue # <<>> =>
                    /\ Stk!Start \in P /\ Stk!Goal \in P
                    /\ \A W : ReachOf(P, n, W) => Searched(P, n, W, loc'.queue, loc'.visited, loc'.front, loc'.i)
              /\ ret' # <<>> => \A W : ReachOf(P, n, W) => PathIs(P, n, W, ret'[1])
  <2>1. q # <<>> /\ f \in 1..Len(q) /\ f \in Nat /\ i \in 0..3 /\ (c \notin P \/ c \in V)
    BY <1>3, <1>4, <1>15
  <2>2. loc' = [front |-> f, queue |-> q, visited |-> V, i |-> i + 1]
    BY <1>3, <1>15
  <2>3. ASSUME NEW W, ReachOf(P, n, W) PROVE Searched(P, n, W, q, V, f, i + 1)
    <3>1. Queued(P, n, W, Len(q), CellsIn(q), DistsIn(q), V) /\ Scanned(P, CellsIn(q), V, f, i) /\ Ahead(W, Len(q), DistsIn(q), V, f)
      BY <1>6, <2>1, <2>3 DEF Searched
    <3>2. c = Neighbour(CellsIn(q)[f], i)
      BY <1>15, <2>1 DEF CellsIn
    <3>3. Scanned(P, CellsIn(q), V, f, i + 1)
      BY <2>1, <3>1, <3>2, PassesCell
    <3> QED
      BY <3>1, <3>3 DEF Searched
  <2> QED
    BY <1>6, <1>8, <1>15, <2>1, <2>2, <2>3
<1>16. CASE q = <<>>
  BY <1>2, <1>3, <1>9, <1>10, <1>16 DEF Stk!shortest_path, Stk!Goes, Stk!Returns
<1>17. CASE q # <<>> /\ i = 4
  BY <1>2, <1>3, <1>11, <1>12, <1>13, <1>17 DEF Stk!shortest_path, Stk!Goes, Stk!Returns
<1>18. CASE q # <<>> /\ i < 4
  <2>1. PICK c : c = Neighbour(q[f].at, i)
    OBVIOUS
  <2>2. /\ ret' = ret
        /\ IF Stk!Free(c) /\ c \notin V
              THEN loc' = [loc EXCEPT !.queue = Append(@, [at |-> c, dist |-> q[f].dist + 1]),
                                      !.visited = @ \cup {c},
                                      !.i = @ + 1]
              ELSE loc' = [loc EXCEPT !.i = @ + 1]
    BY <1>2, <1>18, <2>1 DEF Stk!shortest_path, Stk!Goes, Stk!Returns, Neighbour
  <2> QED
    BY <1>14, <1>15, <1>18, <2>1, <2>2
<1> QED
  BY <1>3, <1>16, <1>17, <1>18

(* shortest_path returns the least number of moves over free cells from    *)
(* corner to corner, or -1 when no number of moves is enough, for every    *)
(* grid of every size.                                                     *)
THEOREM ShortestPathIsFound ==
    DataSpec => [](which = "stacks" /\ call.fn = "shortest_path" /\ ret # <<>> => Stk!IsResult(ret[1]))
<1>1. PathInv /\ PathSearchInv /\ [DataNext]_<<which, vars, topicVars, ringVars, stackQueueVars, minVars, frameVars>>
      => PathInv' /\ PathSearchInv'
  <2> SUFFICES ASSUME PathInv, PathSearchInv,
                      [DataNext]_<<which, vars, topicVars, ringVars, stackQueueVars, minVars, frameVars>>,
                      which' = "stacks", call'.fn = "shortest_path"
               PROVE  PathInv' /\ PathSearchInv'
    BY DEF PathInv, PathSearchInv
  <2>1. which = "stacks"
    BY DEF DataNext, Call, Turn
  <2>2. /\ which' = which /\ call' = call
        /\ Stk!Next \/ UNCHANGED <<loc, ret>>
    BY <2>1, StacksStepIs
  <2>3. CASE Stk!shortest_path
    BY <2>1, <2>2, <2>3, PathGoesOn, SearchGoesOn
  <2>4. CASE UNCHANGED <<loc, ret>>
    BY <2>1, <2>2, <2>4 DEF PathInv, PathSearchInv
  <2> QED
    BY <2>2, <2>3, <2>4 DEF Stk!Next, Stk!Runs, Stk!daily_temperatures, Stk!is_valid_parentheses, Stk!eval_rpn,
                            Stk!max_sliding_window
<1>2. PathInv /\ PathSearchInv => (which = "stacks" /\ call.fn = "shortest_path" /\ ret # <<>> => Stk!IsResult(ret[1]))
  <2> SUFFICES ASSUME PathInv, PathSearchInv, which = "stacks", call.fn = "shortest_path", ret # <<>>
               PROVE  Stk!IsResult(ret[1])
    OBVIOUS
  <2>1. ROWS * COLS \in Nat
    BY CellsAreFinite, FS_CardinalityType
  <2>2. PathIs(FreeIn(call.grid), ROWS * COLS, Stk!Within, ret[1])
    BY <2>1, WithinIs DEF PathSearchInv
  <2>3. \A c : Stk!Free(c) <=> c \in FreeIn(call.grid)
    BY DEF FreeIn, Stk!Free
  <2>4. PICK W : W = Stk!Within
    OBVIOUS
  <2>5. IF Stk!Free(Stk!Start) /\ Stk!Goal \in W[ROWS * COLS] /\ Stk!Free(Stk!Goal)
            THEN Stk!Goal \in W[ret[1]] /\ (ret[1] = 0 \/ Stk!Goal \notin W[ret[1] - 1])
            ELSE ret[1] = -1
    BY <2>2, <2>3, <2>4 DEF PathIs
  <2> QED
    BY <2>4, <2>5 DEF Stk!IsResult
<1> QED
  BY <1>1, <1>2, PathStarts, PathSearchStarts, PTL DEF DataSpec

(***************************************************************************)
(* The arithmetic of chunks, for every size n that sender_init accepts.    *)
(***************************************************************************)

(* The header's constants, and total_chunks without the cast.              *)
LEMMA ChunkSizes ==
    /\ Code!IMAGE_CHUNK_DATA_SIZE = 400
    /\ Code!IMAGE_MAX_SIZE = 1048576
    /\ Code!IMAGE_MAX_CHUNKS = 2622
    /\ Code!IMAGE_FULL_BITMAP_SIZE = 328
BY SMT DEF Code!IMAGE_CHUNK_DATA_SIZE, Code!IMAGE_MAX_SIZE, Code!IMAGE_MAX_CHUNKS, Code!IMAGE_FULL_BITMAP_SIZE

LEMMA TotalIsQuotient ==
    ASSUME NEW n \in Nat, Code!AcceptedSize(n)
    PROVE  /\ Code!TotalChunks(n) = (n + 399) \div 400
           /\ 1 <= (n + 399) \div 400
           /\ (n + 399) \div 400 <= 2622
<1>1. 0 < n /\ n <= 1048576
  BY ChunkSizes, SMT DEF Code!AcceptedSize
<1>2. 1 <= (n + 399) \div 400 /\ (n + 399) \div 400 <= 2622
  BY <1>1, SMT
<1>3. Code!TotalChunks(n) = ((n + 399) \div 400) % 65536
  BY ChunkSizes, SMT DEF Code!TotalChunks
<1> QED
  BY <1>2, <1>3, SMT

(* total_chunks of a legal image fits the protocol's fields and arrays: it *)
(* is at least 1 and at most IMAGE_MAX_CHUNKS, unharmed by the cast to     *)
(* uint16_t, and bitmap_len is at most IMAGE_FULL_BITMAP_SIZE, so that     *)
(* neither receiver_init nor receiver_build_ack ever refuses it.           *)
THEOREM TotalChunksFit ==
    ASSUME NEW n \in Nat, Code!AcceptedSize(n)
    PROVE  /\ 1 <= Code!TotalChunks(n)
           /\ Code!TotalChunks(n) <= Code!IMAGE_MAX_CHUNKS
           /\ (Code!TotalChunks(n) + 7) \div 8 <= Code!IMAGE_FULL_BITMAP_SIZE
BY TotalIsQuotient, ChunkSizes, SMT

(* A chunk's place in the file. *)
LEMMA Places ==
    ASSUME NEW n \in Nat, NEW c \in Nat, NEW b \in Nat
    PROVE  /\ Code!Offset(c) = c * 400
           /\ Code!Carries(n, c, b) <=> c * 400 <= b /\ b < (c + 1) * 400 /\ b < n
<1>1. Code!Offset(c) = c * 400
  BY ChunkSizes, SMT DEF Code!Offset
<1>2. CASE c * 400 + 400 <= n
  BY <1>1, <1>2, ChunkSizes, SMT DEF Code!Carries, Code!DataLen
<1>3. CASE ~(c * 400 + 400 <= n) /\ c * 400 <= n
  BY <1>1, <1>3, ChunkSizes, SMT DEF Code!Carries, Code!DataLen
<1>4. CASE ~(c * 400 <= n)
  BY <1>1, <1>4, ChunkSizes, SMT DEF Code!Carries, Code!DataLen
<1> QED
  BY <1>1, <1>2, <1>3, <1>4, SMT

(* The chunks 0 ~ total_chunks-1 tile the image: each of its bytes is      *)
(* carried by exactly one of them, no byte beyond its end is carried by    *)
(* any, and no chunk is empty.  So the file of a receiver with every bit   *)
(* set has all the image's bytes and not one more, in whatever order and   *)
(* however often the chunks were written; and while a bit is missing, so   *)
(* is at least one byte.                                                   *)
THEOREM ChunksTileImage ==
    ASSUME NEW n \in Nat, Code!AcceptedSize(n)
    PROVE  /\ \A b \in Nat : b < n <=>
                  \E c \in Nat : c < Code!TotalChunks(n) /\ Code!Carries(n, c, b)
           /\ \A c, d, b \in Nat : Code!Carries(n, c, b) /\ Code!Carries(n, d, b) => c = d
           /\ \A c \in Nat : c < Code!TotalChunks(n) => Code!Carries(n, c, Code!Offset(c))
<1> DEFINE total == Code!TotalChunks(n)
<1>1. total = (n + 399) \div 400
  BY TotalIsQuotient, SMT
<1>2. ASSUME NEW b \in Nat, b < n
      PROVE  \E c \in Nat : c < total /\ Code!Carries(n, c, b)
  <2>1. b \div 400 \in Nat /\ b \div 400 < (n + 399) \div 400
    BY <1>2, SMT
  <2>2. (b \div 400) * 400 <= b /\ b < (b \div 400 + 1) * 400
    BY SMT
  <2>3. Code!Carries(n, b \div 400, b)
    BY <1>2, <2>1, <2>2, Places, SMT
  <2> QED
    BY <1>1, <2>1, <2>3, SMT
<1>3. ASSUME NEW b \in Nat, NEW c \in Nat, Code!Carries(n, c, b)
      PROVE  b < n
  BY <1>3, Places, SMT
<1>4. ASSUME NEW c \in Nat, NEW d \in Nat, NEW b \in Nat,
             Code!Carries(n, c, b), Code!Carries(n, d, b)
      PROVE  c = d
  <2>1. /\ c * 400 <= b /\ b < (c + 1) * 400
        /\ d * 400 <= b /\ b < (d + 1) * 400
    BY <1>4, Places, SMT
  <2> QED
    BY <2>1, SMT
<1>5. ASSUME NEW c \in Nat, c < total
      PROVE  Code!Carries(n, c, Code!Offset(c))
  <2>1. c * 400 \in Nat /\ c * 400 < n
    BY <1>1, <1>5, SMT
  <2>2. Code!Offset(c) = c * 400
    BY ChunkSizes, SMT DEF Code!Offset
  <2>3. Code!Carries(n, c, c * 400)
    BY <2>1, Places, SMT
  <2> QED
    BY <2>2, <2>3, SMT
<1> QED
  BY <1>2, <1>3, <1>4, <1>5, SMT


-----------------------------------------------------------------------------
(* The call stays the same, and a step is one of its function.             *)
LEMMA CodesStepIs ==
    ASSUME which = "codes",
           [DataNext]_<<which, vars, topicVars, ringVars, stackQueueVars, minVars, frameVars>>
    PROVE  /\ which' = which
           /\ call' = call
           /\ Code!Next \/ UNCHANGED <<loc, ret>>
<1>1. CASE Call
  <2>1. Code!Next /\ which' = which
    BY <1>1 DEF Call, Turn
  <2>2. call' = call
    BY <2>1 DEF Code!Next, Code!img_crc16_ccitt, Code!encode_remaining_length, Code!image_calc_total_chunks, Code!Goes,
                Code!Returns
  <2> QED
    BY <2>1, <2>2
<1>2. CASE UNCHANGED <<which, vars, topicVars, ringVars, stackQueueVars, minVars, frameVars>>
  BY <1>2 DEF frameVars
<1>3. CASE DataNext /\ ~Call
  BY <1>3 DEF DataNext, Turn
<1> QED
  BY <1>1, <1>2, <1>3

LEMMA CodesCalls ==
    ASSUME NEW c \in Code!Calls
    PROVE  \/ \E n \in 1..MaxBytes : \E byte \in {{}, {0, 2, 5, 6}} : \E burst \in Code!Bursts(n) :
                 c = [fn |-> "img_crc16_ccitt", data |-> Code!Plain(n, byte), burst |-> burst]
           \/ \E n \in Lengths : c = [fn |-> "encode_remaining_length", len |-> n]
           \/ \E n \in Sizes : c = [fn |-> "image_calc_total_chunks", size |-> n]
<1>1. \/ \E n \in 1..MaxBytes : c \in Code!Messages(n)
      \/ \E n \in Lengths : c = [fn |-> "encode_remaining_length", len |-> n]
      \/ \E n \in Sizes : c = [fn |-> "image_calc_total_chunks", size |-> n]
  <2>1. \/ c \in UNION {Code!Messages(n) : n \in 1..MaxBytes}
        \/ c \in {[fn |-> "encode_remaining_length", len |-> n] : n \in Lengths}
        \/ c \in {[fn |-> "image_calc_total_chunks", size |-> n] : n \in Sizes}
    BY DEF Code!Calls
  <2>2. c \in UNION {Code!Messages(n) : n \in 1..MaxBytes} => \E n \in 1..MaxBytes : c \in Code!Messages(n)
    OBVIOUS
  <2> QED
    BY <2>1, <2>2
<1>2. ASSUME NEW n \in 1..MaxBytes, c \in Code!Messages(n)
      PROVE  \E byte \in {{}, {0, 2, 5, 6}} : \E burst \in Code!Bursts(n) :
                 c = [fn |-> "img_crc16_ccitt", data |-> Code!Plain(n, byte), burst |-> burst]
  BY <1>2 DEF Code!Messages
<1> QED
  BY <1>1, <1>2

ChunksInv ==
    which = "codes" /\ call.fn = "image_calc_total_chunks" =>
        /\ call.size \in Sizes
        /\ ret # <<>> => ret = <<Code!TotalChunks(call.size)>>

LEMMA ChunksStart == DataInit => ChunksInv
<1> SUFFICES ASSUME DataInit, which = "codes", call.fn = "image_calc_total_chunks"
             PROVE  ChunksInv
  BY DEF ChunksInv
<1>1. call \in Code!Calls /\ ret = <<>>
  BY DEF DataInit, Begins
<1>2. PICK n \in Sizes : call = [fn |-> "image_calc_total_chunks", size |-> n]
  BY <1>1, CodesCalls
<1> QED
  BY <1>1, <1>2 DEF ChunksInv

(* image_calc_total_chunks makes the last chunk the one with the last      *)
(* byte, for every size that sender_init takes.                            *)
THEOREM LastByteInLastChunk ==
    DataSpec => [](which = "codes" /\ call.fn = "image_calc_total_chunks" /\ ret # <<>> => Code!IsResult(ret[1]))
<1>1. ChunksInv /\ [DataNext]_<<which, vars, topicVars, ringVars, stackQueueVars, minVars, frameVars>> => ChunksInv'
  <2> SUFFICES ASSUME ChunksInv,
                      [DataNext]_<<which, vars, topicVars, ringVars, stackQueueVars, minVars, frameVars>>,
                      which' = "codes", call'.fn = "image_calc_total_chunks"
               PROVE  ChunksInv'
    BY DEF ChunksInv
  <2>1. which = "codes"
    BY DEF DataNext, Call, Turn
  <2>2. /\ which' = which /\ call' = call
        /\ Code!Next \/ UNCHANGED <<loc, ret>>
    BY <2>1, CodesStepIs
  <2>3. CASE Code!image_calc_total_chunks
    BY <2>1, <2>2, <2>3 DEF ChunksInv, Code!image_calc_total_chunks, Code!Returns
  <2>4. CASE UNCHANGED <<loc, ret>>
    BY <2>1, <2>2, <2>4 DEF ChunksInv
  <2> QED
    BY <2>2, <2>3, <2>4 DEF Code!Next, Code!Runs, Code!img_crc16_ccitt, Code!encode_remaining_length
<1>2. ChunksInv => (which = "codes" /\ call.fn = "image_calc_total_chunks" /\ ret # <<>> => Code!IsResult(ret[1]))
  <2> SUFFICES ASSUME ChunksInv, which = "codes", call.fn = "image_calc_total_chunks", ret # <<>>
               PROVE  Code!IsResult(ret[1])
    OBVIOUS
  <2>1. PICK n \in Sizes : n = call.size /\ ret[1] = Code!TotalChunks(n)
    BY DEF ChunksInv
  <2>2. n \in Nat /\ 1 <= n /\ Code!AcceptedSize(n)
    <3>1. n \in 1..MaxImage
      BY DataAssumption
    <3>2. MaxImage = Code!IMAGE_MAX_SIZE /\ MaxImage \in Nat
      BY ChunkSizes, SMT DEF MaxImage
    <3> QED
      BY <3>1, <3>2 DEF Code!AcceptedSize
  <2>3. PICK t \in Nat : t = (n + 399) \div 400
    BY <2>2
  <2>4. ret[1] = t /\ 1 <= t
    BY <2>1, <2>2, <2>3, TotalIsQuotient
  <2>5. (t - 1) * 400 <= n - 1 /\ n - 1 < (t - 1 + 1) * 400 /\ n - 1 < n
    BY <2>2, <2>3
  <2>6. t - 1 \in Nat /\ n - 1 \in Nat
    BY <2>2, <2>4
  <2>7. Code!Carries(n, t - 1, n - 1)
    BY <2>2, <2>5, <2>6, Places
  <2>8. Code!Carries(call.size, ret[1] - 1, call.size - 1)
    BY <2>1, <2>4, <2>7
  <2> QED
    BY <2>8 DEF Code!IsResult
<1> QED
  BY <1>1, <1>2, ChunksStart, PTL DEF DataSpec

-----------------------------------------------------------------------------
(* img_crc16_ccitt: bit b of the register is an integer, and bit q of the  *)
(* message comes in at 15 - (q - t) when t bits have been shifted out.     *)

All(burst, t) == {b \in Int : 15 - b + t \in burst}

(* Of the burst, what is not in the register after i bytes.                *)
Future(burst, i, t) == {b \in Int : 15 - b + t \in burst /\ 15 - b + t >= 8 * i}

Feedback == {0, 5, 12}

LEMMA ShiftHas ==
    ASSUME NEW X \in SUBSET Int
    PROVE  /\ Code!Shift(X) \in SUBSET Int
           /\ \A b \in Int : b \in Code!Shift(X) <=> ~(b - 1 \in X /\ b # 16 <=> 15 \in X /\ b \in Feedback)
<1> DEFINE shifted == {b + 1 : b \in X \ {15}}
<1>1. \A b \in Int : b \in shifted <=> b - 1 \in X /\ b # 16
  <2> TAKE b \in Int
  <2>1. b \in shifted => b - 1 \in X /\ b # 16
    <3>1. SUFFICES ASSUME NEW c \in X \ {15}, b = c + 1 PROVE b - 1 \in X /\ b # 16
      OBVIOUS
    <3>2. c \in Int /\ b - 1 = c
      BY <3>1
    <3> QED
      BY <3>1, <3>2
  <2>2. ASSUME b - 1 \in X, b # 16 PROVE b \in shifted
    <3>1. b - 1 \in X \ {15} /\ b = (b - 1) + 1
      BY <2>2
    <3> QED
      BY <3>1
  <2> QED
    BY <2>1, <2>2
<1>2. shifted \in SUBSET Int
  OBVIOUS
<1>3. Code!Polynomial = Feedback /\ Feedback \subseteq Int
  BY DEF Code!Polynomial, Feedback
<1>4. Code!Shift(X) = IF 15 \in X THEN (shifted \ Feedback) \cup (Feedback \ shifted) ELSE shifted
  BY <1>3 DEF Code!Shift, Code!Minus
<1> HIDE DEF shifted
<1> QED
  BY <1>1, <1>2, <1>3, <1>4

LEMMA MinusHas ==
    ASSUME NEW A \in SUBSET Int, NEW B \in SUBSET Int
    PROVE  /\ Code!Minus(A, B) \in SUBSET Int
           /\ \A b \in Int : b \in Code!Minus(A, B) <=> ~(b \in A <=> b \in B)
BY DEF Code!Minus

LEMMA SameBits ==
    ASSUME NEW A \in SUBSET Int, NEW B \in SUBSET Int, \A b \in Int : b \in A <=> b \in B
    PROVE  A = B
OBVIOUS

LEMMA ShiftIsLinear ==
    ASSUME NEW A \in SUBSET Int, NEW B \in SUBSET Int
    PROVE  Code!Shift(Code!Minus(A, B)) = Code!Minus(Code!Shift(A), Code!Shift(B))
<1>1. PICK M \in SUBSET Int : M = Code!Minus(A, B) /\ \A b \in Int : b \in M <=> ~(b \in A <=> b \in B)
  BY MinusHas
<1>2. PICK L \in SUBSET Int :
        /\ L = Code!Shift(M)
        /\ \A b \in Int : b \in L <=> ~(b - 1 \in M /\ b # 16 <=> 15 \in M /\ b \in Feedback)
  BY ShiftHas
<1>3. PICK SA \in SUBSET Int :
        /\ SA = Code!Shift(A)
        /\ \A b \in Int : b \in SA <=> ~(b - 1 \in A /\ b # 16 <=> 15 \in A /\ b \in Feedback)
  BY ShiftHas
<1>4. PICK SB \in SUBSET Int :
        /\ SB = Code!Shift(B)
        /\ \A b \in Int : b \in SB <=> ~(b - 1 \in B /\ b # 16 <=> 15 \in B /\ b \in Feedback)
  BY ShiftHas
<1>5. PICK R \in SUBSET Int : R = Code!Minus(SA, SB) /\ \A b \in Int : b \in R <=> ~(b \in SA <=> b \in SB)
  BY MinusHas
<1>6. ASSUME NEW b \in Int PROVE b \in L <=> b \in R
  <2>1. b - 1 \in Int /\ 15 \in Int
    OBVIOUS
  <2>2. /\ b \in L <=> ~(b - 1 \in M /\ b # 16 <=> 15 \in M /\ b \in Feedback)
        /\ b - 1 \in M <=> ~(b - 1 \in A <=> b - 1 \in B)
        /\ 15 \in M <=> ~(15 \in A <=> 15 \in B)
    BY <1>1, <1>2, <2>1
  <2>3. /\ b \in SA <=> ~(b - 1 \in A /\ b # 16 <=> 15 \in A /\ b \in Feedback)
        /\ b \in SB <=> ~(b - 1 \in B /\ b # 16 <=> 15 \in B /\ b \in Feedback)
        /\ b \in R <=> ~(b \in SA <=> b \in SB)
    BY <1>3, <1>4, <1>5
  <2> QED
    BY <2>2, <2>3
<1> QED
  BY <1>1, <1>2, <1>3, <1>4, <1>5, <1>6, SameBits

(* What is not zero stays so: 15 comes back at 0, and the others go on.    *)
LEMMA ShiftKeeps ==
    ASSUME NEW V \in SUBSET (0..15)
    PROVE  /\ Code!Shift(V) \subseteq 0..15
           /\ V # {} => Code!Shift(V) # {}
<1>1. V \in SUBSET Int
  OBVIOUS
<1>2. PICK S \in SUBSET Int :
        /\ S = Code!Shift(V)
        /\ \A b \in Int : b \in S <=> ~(b - 1 \in V /\ b # 16 <=> 15 \in V /\ b \in Feedback)
  BY <1>1, ShiftHas
<1>3. ASSUME NEW b \in S PROVE b \in 0..15
  <2>1. (b - 1 \in V /\ b # 16) \/ b \in Feedback
    BY <1>2
  <2> QED
    BY <2>1 DEF Feedback
<1>4. CASE 15 \in V
  <2>1. 0 \in S
    <3>1. 0 - 1 \notin V /\ 0 \in Feedback
      BY DEF Feedback
    <3> QED
      BY <1>2, <1>4, <3>1
  <2> QED
    BY <1>2, <1>3, <2>1
<1>5. ASSUME 15 \notin V, NEW c \in V PROVE c + 1 \in S
  <2>1. c + 1 \in Int /\ c + 1 - 1 = c /\ c + 1 # 16
    BY <1>5
  <2> QED
    BY <1>2, <1>5, <2>1
<1> QED
  BY <1>2, <1>3, <1>4, <1>5

LEMMA FutureComes ==
    ASSUME NEW burst, NEW i \in Int, NEW t \in Int, t < 8 * i
    PROVE  Future(burst, i, t + 1) = Code!Shift(Future(burst, i, t))
<1>1. PICK A \in SUBSET Int : A = Future(burst, i, t)
  BY DEF Future
<1>2. PICK B \in SUBSET Int : B = Future(burst, i, t + 1)
  BY DEF Future
<1>3. PICK S \in SUBSET Int :
        /\ S = Code!Shift(A)
        /\ \A b \in Int : b \in S <=> ~(b - 1 \in A /\ b # 16 <=> 15 \in A /\ b \in Feedback)
  BY ShiftHas
<1>4. 15 \notin A
  BY <1>1 DEF Future
<1>5. ASSUME NEW b \in Int PROVE b \in B <=> b \in S
  <2>1. b \in S <=> b - 1 \in A /\ b # 16
    BY <1>3, <1>4
  <2>2. b # 16 \/ b - 1 \notin A
    BY <1>4
  <2>3. b - 1 \in A <=> 15 - (b - 1) + t \in burst /\ 15 - (b - 1) + t >= 8 * i
    BY <1>1 DEF Future
  <2>4. b \in B <=> 15 - b + (t + 1) \in burst /\ 15 - b + (t + 1) >= 8 * i
    BY <1>2 DEF Future
  <2>5. 15 - b + (t + 1) = 15 - (b - 1) + t
    OBVIOUS
  <2> QED
    BY <2>1, <2>2, <2>3, <2>4, <2>5
<1> QED
  BY <1>1, <1>2, <1>3, <1>5, SameBits

LEMMA AllComes ==
    ASSUME NEW burst, NEW t \in Int, t \notin burst
    PROVE  All(burst, t + 1) = Code!Shift(All(burst, t))
<1>1. PICK A \in SUBSET Int : A = All(burst, t)
  BY DEF All
<1>2. PICK B \in SUBSET Int : B = All(burst, t + 1)
  BY DEF All
<1>3. PICK S \in SUBSET Int :
        /\ S = Code!Shift(A)
        /\ \A b \in Int : b \in S <=> ~(b - 1 \in A /\ b # 16 <=> 15 \in A /\ b \in Feedback)
  BY ShiftHas
<1>4. 15 \notin A
  <2>1. 15 - 15 + t = t
    OBVIOUS
  <2> QED
    BY <1>1, <2>1 DEF All
<1>5. ASSUME NEW b \in Int PROVE b \in B <=> b \in S
  <2>1. b \in S <=> b - 1 \in A /\ b # 16
    BY <1>3, <1>4
  <2>2. b # 16 \/ b - 1 \notin A
    BY <1>4
  <2>3. b - 1 \in A <=> 15 - (b - 1) + t \in burst
    BY <1>1 DEF All
  <2>4. b \in B <=> 15 - b + (t + 1) \in burst
    BY <1>2 DEF All
  <2>5. 15 - b + (t + 1) = 15 - (b - 1) + t
    OBVIOUS
  <2> QED
    BY <2>1, <2>2, <2>3, <2>4, <2>5
<1> QED
  BY <1>1, <1>2, <1>3, <1>5, SameBits

(* The registers differ by D.  With what is still to come of the burst,    *)
(* they differ by all of it before its first bit p is shifted out, and by  *)
(* something ever after.                                                   *)
Shows(burst, p, i, t, D) ==
    /\ t <= p => Code!Minus(D, Future(burst, i, t)) = All(burst, t)
    /\ t >= p => /\ Code!Minus(D, Future(burst, i, t)) # {}
                 /\ Code!Minus(D, Future(burst, i, t)) \subseteq 0..15

LEMMA AllIsInside ==
    ASSUME NEW p \in Int, NEW burst \in SUBSET (p..(p + 15)), p \in burst
    PROVE  All(burst, p) # {} /\ All(burst, p) \subseteq 0..15
<1>1. 15 \in All(burst, p)
  BY DEF All
<1>2. ASSUME NEW b \in All(burst, p) PROVE b \in 0..15
  <2>1. b \in Int /\ 15 - b + p \in p..(p + 15)
    BY DEF All
  <2> QED
    BY <2>1
<1> QED
  BY <1>1, <1>2

LEMMA ShowsFurther ==
    ASSUME NEW p \in Int, NEW burst \in SUBSET (p..(p + 15)), p \in burst, NEW i \in Int, NEW t \in Int, t < 8 * i,
           NEW D \in SUBSET Int, Shows(burst, p, i, t, D)
    PROVE  Shows(burst, p, i, t + 1, Code!Shift(D))
<1>1. PICK W, V : W = Future(burst, i, t) /\ V = Code!Minus(D, W)
  OBVIOUS
<1>2. W \in SUBSET Int
  BY <1>1 DEF Future
<1>3. Code!Minus(Code!Shift(D), Future(burst, i, t + 1)) = Code!Shift(V)
  BY <1>1, <1>2, FutureComes, ShiftIsLinear
<1>4. CASE t < p
  <2>1. V = All(burst, t) /\ t \notin burst
    BY <1>1, <1>4 DEF Shows
  <2>2. Code!Shift(V) = All(burst, t + 1)
    BY <2>1, AllComes
  <2>3. t + 1 >= p => t + 1 = p
    BY <1>4
  <2> QED
    BY <1>3, <2>2, <2>3, AllIsInside DEF Shows
<1>5. CASE t >= p
  <2>1. V # {} /\ V \in SUBSET (0..15)
    BY <1>1, <1>5 DEF Shows
  <2>2. Code!Shift(V) # {} /\ Code!Shift(V) \subseteq 0..15
    BY <2>1, ShiftKeeps
  <2>3. ~(t + 1 <= p)
    BY <1>5
  <2> QED
    BY <1>3, <2>2, <2>3 DEF Shows
<1> QED
  BY <1>4, <1>5


LEMMA MinusOfSets ==
    /\ \A A, B, C : Code!Minus(Code!Minus(A, C), Code!Minus(B, C)) = Code!Minus(A, B)
    /\ \A A, B, C, E : Code!Minus(Code!Minus(A, C), Code!Minus(B, Code!Minus(C, E))) = Code!Minus(Code!Minus(A, B), E)
    /\ \A A, B : Code!Minus(A, B) = {} <=> A = B
    /\ \A A : Code!Minus(A, {}) = A /\ Code!Minus({}, A) = A /\ Code!Minus(A, A) = {}
<1>1. ASSUME NEW A, NEW B, NEW C
      PROVE  Code!Minus(Code!Minus(A, C), Code!Minus(B, C)) = Code!Minus(A, B)
  BY DEF Code!Minus
<1>2. ASSUME NEW A, NEW B, NEW C, NEW E
      PROVE  Code!Minus(Code!Minus(A, C), Code!Minus(B, Code!Minus(C, E))) = Code!Minus(Code!Minus(A, B), E)
  BY DEF Code!Minus
<1>3. ASSUME NEW A, NEW B PROVE Code!Minus(A, B) = {} <=> A = B
  BY DEF Code!Minus
<1>4. ASSUME NEW A PROVE Code!Minus(A, {}) = A /\ Code!Minus({}, A) = A /\ Code!Minus(A, A) = {}
  BY DEF Code!Minus
<1> QED
  BY <1>1, <1>2, <1>3, <1>4

(* The upper half of the register is where a byte goes in.                 *)
Upper(byte) == {b + 8 : b \in byte}

(* What the burst changes in byte i.                                       *)
Changes(burst, i) == {7 - (q % 8) : q \in {q \in burst : q \div 8 = i}}

LEMMA UpperIsLinear ==
    ASSUME NEW A \in SUBSET Int, NEW B \in SUBSET Int
    PROVE  /\ Upper(Code!Minus(A, B)) = Code!Minus(Upper(A), Upper(B))
           /\ Upper(A) \in SUBSET Int
<1>0. ASSUME NEW X \in SUBSET Int PROVE Upper(X) \in SUBSET Int
  BY DEF Upper
<1>1. PICK UA, UB : UA = Upper(A) /\ UB = Upper(B) /\ UA \in SUBSET Int /\ UB \in SUBSET Int
  BY <1>0
<1>2. ASSUME NEW X \in SUBSET Int, NEW b \in Int PROVE b \in Upper(X) <=> b - 8 \in X
  <2>1. ASSUME NEW c \in X, b = c + 8 PROVE b - 8 \in X
    <3>1. c \in Int /\ b - 8 = c
      BY <2>1
    <3> QED
      BY <3>1
  <2>2. ASSUME b - 8 \in X PROVE b \in Upper(X)
    <3>1. b = (b - 8) + 8
      OBVIOUS
    <3> QED
      BY <2>2, <3>1 DEF Upper
  <2> QED
    BY <2>1, <2>2 DEF Upper
<1>3. PICK M \in SUBSET Int : M = Code!Minus(A, B) /\ \A b \in Int : b \in M <=> ~(b \in A <=> b \in B)
  BY MinusHas
<1>4. PICK R \in SUBSET Int : R = Code!Minus(UA, UB) /\ \A b \in Int : b \in R <=> ~(b \in UA <=> b \in UB)
  BY <1>1, MinusHas
<1>5. PICK L \in SUBSET Int : L = Upper(M)
  BY <1>0, <1>3
<1>6. ASSUME NEW b \in Int PROVE b \in L <=> b \in R
  <2>1. b - 8 \in Int
    OBVIOUS
  <2>2. /\ b \in L <=> b - 8 \in M
        /\ b \in UA <=> b - 8 \in A
        /\ b \in UB <=> b - 8 \in B
    BY <1>1, <1>2, <1>5
  <2> QED
    BY <1>3, <1>4, <2>1, <2>2
<1> QED
  BY <1>1, <1>3, <1>4, <1>5, <1>6, SameBits

LEMMA UpperHas ==
    ASSUME NEW burst \in SUBSET Nat, NEW i \in Nat
    PROVE  /\ Upper(Changes(burst, i)) \in SUBSET Int
           /\ \A b \in Int : b \in Upper(Changes(burst, i)) <=>
                  15 - b + 8 * i \in burst /\ 15 - b + 8 * i >= 8 * i /\ 15 - b + 8 * i < 8 * (i + 1)
<1>1. Changes(burst, i) \in SUBSET Int
  BY DEF Changes
<1>2. ASSUME NEW b \in Int, b \in Upper(Changes(burst, i))
      PROVE  15 - b + 8 * i \in burst /\ 15 - b + 8 * i >= 8 * i /\ 15 - b + 8 * i < 8 * (i + 1)
  <2>1. PICK c \in Changes(burst, i) : b = c + 8
    BY <1>2 DEF Upper
  <2>2. PICK q \in burst : q \div 8 = i /\ c = 7 - (q % 8)
    BY <2>1 DEF Changes
  <2>3. q \in Nat /\ 15 - b + 8 * i = q /\ q >= 8 * i /\ q < 8 * (i + 1)
    BY <2>1, <2>2
  <2> QED
    BY <2>3
<1>3. ASSUME NEW b \in Int, 15 - b + 8 * i \in burst, 15 - b + 8 * i >= 8 * i, 15 - b + 8 * i < 8 * (i + 1)
      PROVE  b \in Upper(Changes(burst, i))
  <2>1. PICK q \in burst : q = 15 - b + 8 * i
    BY <1>3
  <2>2. q \in Nat /\ q \div 8 = i /\ 7 - (q % 8) = b - 8
    BY <1>3, <2>1
  <2>3. b - 8 \in Changes(burst, i)
    BY <2>2 DEF Changes
  <2>4. b = (b - 8) + 8
    OBVIOUS
  <2> QED
    BY <2>3, <2>4 DEF Upper
<1>4. Upper(Changes(burst, i)) \in SUBSET Int
  BY <1>1, UpperIsLinear
<1> QED
  BY <1>2, <1>3, <1>4

(* A byte goes in: what was to come of the burst in it is in the register. *)
LEMMA ByteComes ==
    ASSUME NEW burst \in SUBSET Nat, NEW i \in Nat, NEW p, NEW D, Shows(burst, p, i, 8 * i, D)
    PROVE  Shows(burst, p, i + 1, 8 * i, Code!Minus(D, Upper(Changes(burst, i))))
<1>1. PICK U \in SUBSET Int :
        /\ U = Upper(Changes(burst, i))
        /\ \A b \in Int : b \in U <=> 15 - b + 8 * i \in burst /\ 15 - b + 8 * i >= 8 * i /\ 15 - b + 8 * i < 8 * (i + 1)
  BY UpperHas
<1>2. PICK A \in SUBSET Int : A = Future(burst, i, 8 * i)
  BY DEF Future
<1>3. PICK B \in SUBSET Int : B = Future(burst, i + 1, 8 * i)
  BY DEF Future
<1>4. PICK M \in SUBSET Int : M = Code!Minus(A, U) /\ \A b \in Int : b \in M <=> ~(b \in A <=> b \in U)
  BY MinusHas
<1>5. ASSUME NEW b \in Int PROVE b \in B <=> b \in M
  <2>1. b \in A <=> 15 - b + 8 * i \in burst /\ 15 - b + 8 * i >= 8 * i
    BY <1>2 DEF Future
  <2>2. b \in B <=> 15 - b + 8 * i \in burst /\ 15 - b + 8 * i >= 8 * (i + 1)
    BY <1>3 DEF Future
  <2>3. PICK q \in Int : q = 15 - b + 8 * i
    OBVIOUS
  <2>4. ~(q >= 8 * (i + 1)) <=> q < 8 * (i + 1)
    OBVIOUS
  <2>5. q >= 8 * (i + 1) => q >= 8 * i
    OBVIOUS
  <2> QED
    BY <1>1, <1>4, <2>1, <2>2, <2>3, <2>4, <2>5
<1>6. B = M
  BY <1>3, <1>4, <1>5, SameBits
<1>7. Code!Minus(Code!Minus(D, U), B) = Code!Minus(D, A)
  BY <1>4, <1>6, MinusOfSets
<1> QED
  BY <1>1, <1>2, <1>3, <1>7 DEF Shows

(* The registers before the first byte, and behind the last one.           *)
LEMMA ShowsFirst ==
    ASSUME NEW p \in Nat, NEW burst \in SUBSET (p..(p + 15)), p \in burst
    PROVE  Shows(burst, p, 0, 0, {})
<1>1. Future(burst, 0, 0) = All(burst, 0)
  <2>1. \A b \in Int : 15 - b + 0 \in burst => 15 - b + 0 >= 8 * 0
    OBVIOUS
  <2> QED
    BY <2>1 DEF Future, All
<1>2. Code!Minus({}, All(burst, 0)) = All(burst, 0)
  BY MinusOfSets
<1>3. p = 0 => All(burst, 0) # {} /\ All(burst, 0) \subseteq 0..15
  BY AllIsInside
<1>4. 0 >= p => p = 0
  OBVIOUS
<1> QED
  BY <1>1, <1>2, <1>3, <1>4 DEF Shows

LEMMA ShowsLast ==
    ASSUME NEW n \in Nat, NEW burst \in SUBSET (0..(8 * n - 1)), NEW p \in burst, NEW D, Shows(burst, p, n, 8 * n, D)
    PROVE  D # {}
<1>1. Future(burst, n, 8 * n) = {}
  BY DEF Future
<1>2. 8 * n >= p
  OBVIOUS
<1>3. Code!Minus(D, {}) = D
  BY MinusOfSets
<1> QED
  BY <1>1, <1>2, <1>3 DEF Shows


(* The local variables after bit shifts behind byte i.                     *)
Computes(n, burst, p, l) ==
    \E i \in 0..n, bit \in 0..8 : \E a, b \in SUBSET Int :
        /\ l = [i |-> i, bit |-> bit, crc |-> a, crcDamaged |-> b]
        /\ i = 0 => bit = 8
        /\ Shows(burst, p, i, 8 * i - 8 + bit, Code!Minus(a, b))

IsDamage(c, n, byte, p) ==
    /\ c.data = Code!Plain(n, byte)
    /\ c.burst \in SUBSET (p..(p + 15))
    /\ p \in c.burst
    /\ c.burst \subseteq 0..(8 * n - 1)

LEMMA BurstsAre ==
    ASSUME NEW n \in Nat, NEW burst \in Code!Bursts(n)
    PROVE  \E p \in Nat : burst \in SUBSET (p..(p + 15)) /\ p \in burst /\ burst \subseteq 0..(8 * n - 1)
<1> DEFINE ends == {p \in (0..(8 * n - 1)) \X (0..(8 * n - 1)) : p[1] <= p[2] /\ p[2] < p[1] + 16}
<1>1. PICK e \in ends : burst \in {{e[1], e[2]}, e[1]..e[2]}
  BY DEF Code!Bursts
<1>2. PICK p, q \in 0..(8 * n - 1) : e[1] = p /\ e[2] = q /\ p <= q /\ q < p + 16
  BY <1>1
<1>3. p \in Nat /\ q \in Nat /\ p \in p..(p + 15) /\ q \in p..(p + 15) /\ p \in p..q
  BY <1>2
<1>4. CASE burst = {p, q}
  BY <1>2, <1>3, <1>4
<1>5. CASE burst = p..q
  <2>1. p..q \subseteq p..(p + 15) /\ p..q \subseteq 0..(8 * n - 1)
    BY <1>2, <1>3
  <2> QED
    BY <1>3, <1>5, <2>1
<1> QED
  BY <1>1, <1>2, <1>4, <1>5

CrcInv ==
    which = "codes" /\ call.fn = "img_crc16_ccitt" =>
        \E n, p \in Nat : \E byte \in SUBSET Int :
            /\ IsDamage(call, n, byte, p)
            /\ \/ ret = <<>> /\ Computes(n, call.burst, p, loc)
               \/ ret # <<>> /\ ret[1][1] # ret[1][2]

LEMMA CrcStart == DataInit => CrcInv
<1> SUFFICES ASSUME DataInit, which = "codes", call.fn = "img_crc16_ccitt"
             PROVE  CrcInv
  BY DEF CrcInv
<1>1. call \in Code!Calls /\ ret = <<>> /\ loc = Code!Entry(call)
  BY DEF DataInit, Begins
<1>2. PICK n \in 1..MaxBytes : \E byte \in {{}, {0, 2, 5, 6}} : \E burst \in Code!Bursts(n) :
        call = [fn |-> "img_crc16_ccitt", data |-> Code!Plain(n, byte), burst |-> burst]
  BY <1>1, CodesCalls
<1>2a. PICK byte \in {{}, {0, 2, 5, 6}} : \E burst \in Code!Bursts(n) :
        call = [fn |-> "img_crc16_ccitt", data |-> Code!Plain(n, byte), burst |-> burst]
  BY <1>2
<1>2b. PICK burst \in Code!Bursts(n) :
        call = [fn |-> "img_crc16_ccitt", data |-> Code!Plain(n, byte), burst |-> burst]
  BY <1>2a
<1>3. n \in Nat /\ byte \in SUBSET Int
  BY DataAssumption
<1>4. PICK p \in Nat : burst \in SUBSET (p..(p + 15)) /\ p \in burst /\ burst \subseteq 0..(8 * n - 1)
  BY <1>3, BurstsAre
<1>5. IsDamage(call, n, byte, p) /\ call.burst = burst
  BY <1>2b, <1>4 DEF IsDamage
<1>6. loc = [i |-> 0, bit |-> 8, crc |-> 0..15, crcDamaged |-> 0..15]
  BY <1>1, <1>2b DEF Code!Entry
<1>7. Computes(n, burst, p, loc)
  <2>1. Code!Minus(0..15, 0..15) = {} /\ 8 * 0 - 8 + 8 = 0
    BY MinusOfSets
  <2>2. Shows(burst, p, 0, 8 * 0 - 8 + 8, Code!Minus(0..15, 0..15))
    BY <1>4, <2>1, ShowsFirst
  <2>3. 0 \in 0..n /\ 8 \in 0..8 /\ 0..15 \in SUBSET Int
    BY <1>3
  <2> QED
    BY <1>6, <2>2, <2>3 DEF Computes
<1> QED
  BY <1>1, <1>3, <1>5, <1>7 DEF CrcInv

LEMMA ShiftComputes ==
    ASSUME NEW n \in Nat, NEW p \in Nat, NEW burst \in SUBSET (p..(p + 15)), p \in burst, NEW l, NEW m,
           Computes(n, burst, p, l), l.bit < 8,
           m = [l EXCEPT !.bit = @ + 1, !.crc = Code!Shift(@), !.crcDamaged = Code!Shift(@)]
    PROVE  Computes(n, burst, p, m)
<1>1. PICK i \in 0..n, bit \in 0..8, a \in SUBSET Int, b \in SUBSET Int :
        /\ l = [i |-> i, bit |-> bit, crc |-> a, crcDamaged |-> b]
        /\ i = 0 => bit = 8
        /\ Shows(burst, p, i, 8 * i - 8 + bit, Code!Minus(a, b))
  BY DEF Computes
<1>2. m = [i |-> i, bit |-> bit + 1, crc |-> Code!Shift(a), crcDamaged |-> Code!Shift(b)] /\ bit < 8
  BY <1>1
<1>3. PICK t \in Int : t = 8 * i - 8 + bit
  OBVIOUS
<1>4. t < 8 * i /\ t + 1 = 8 * i - 8 + (bit + 1) /\ bit + 1 \in 0..8 /\ i # 0
  BY <1>1, <1>2, <1>3
<1>5. PICK D \in SUBSET Int : D = Code!Minus(a, b)
  BY MinusHas
<1>6. Shows(burst, p, i, t + 1, Code!Shift(D))
  BY <1>1, <1>3, <1>4, <1>5, ShowsFurther
<1>7. Code!Shift(D) = Code!Minus(Code!Shift(a), Code!Shift(b)) /\ Code!Shift(a) \in SUBSET Int /\ Code!Shift(b) \in SUBSET Int
  BY <1>5, ShiftIsLinear, ShiftHas
<1>8. /\ Shows(burst, p, i, 8 * i - 8 + (bit + 1), Code!Minus(Code!Shift(a), Code!Shift(b)))
      /\ i = 0 => bit + 1 = 8
  BY <1>4, <1>6, <1>7
<1> QED
  BY <1>2, <1>4, <1>7, <1>8 DEF Computes

LEMMA ByteComputes ==
    ASSUME NEW n \in Nat, NEW p \in Nat, NEW burst \in SUBSET Nat, NEW byte \in SUBSET Int,
           NEW l, NEW m, Computes(n, burst, p, l), l.bit = 8, l.i < n,
           m = [i          |-> l.i + 1,
                bit        |-> 0,
                crc        |-> Code!Minus(l.crc, Upper(byte)),
                crcDamaged |-> Code!Minus(l.crcDamaged, Upper(Code!Minus(byte, Changes(burst, l.i))))]
    PROVE  Computes(n, burst, p, m)
<1>1. PICK i \in 0..n, bit \in 0..8, a \in SUBSET Int, b \in SUBSET Int :
        /\ l = [i |-> i, bit |-> bit, crc |-> a, crcDamaged |-> b]
        /\ Shows(burst, p, i, 8 * i - 8 + bit, Code!Minus(a, b))
  BY DEF Computes
<1>0. Changes(burst, i) \in SUBSET Int
  BY DEF Changes
<1>2. PICK E \in SUBSET Int : E = Changes(burst, i)
  BY <1>0
<1>3. PICK c, d : c = Code!Minus(a, Upper(byte)) /\ d = Code!Minus(b, Upper(Code!Minus(byte, E)))
  OBVIOUS
<1>4. m = [i |-> i + 1, bit |-> 0, crc |-> c, crcDamaged |-> d]
  BY <1>1, <1>2, <1>3
<1>5. bit = 8 /\ 8 * i - 8 + 8 = 8 * i /\ 8 * (i + 1) - 8 + 0 = 8 * i /\ i + 1 \in 0..n /\ i + 1 # 0 /\ i \in Nat
  BY <1>1
<1>6. Shows(burst, p, i, 8 * i, Code!Minus(a, b))
  BY <1>1, <1>5
<1>7. Shows(burst, p, i + 1, 8 * i, Code!Minus(Code!Minus(a, b), Upper(E)))
  BY <1>2, <1>5, <1>6, ByteComes
<1>8. PICK U \in SUBSET Int, V \in SUBSET Int : U = Upper(byte) /\ V = Upper(E)
  BY <1>2, UpperIsLinear
<1>9. c = Code!Minus(a, U) /\ d = Code!Minus(b, Code!Minus(U, V))
  BY <1>2, <1>3, <1>8, UpperIsLinear
<1>10. Code!Minus(c, d) = Code!Minus(Code!Minus(a, b), V)
  BY <1>9, MinusOfSets
<1>11. c \in SUBSET Int /\ d \in SUBSET Int
  BY <1>8, <1>9, MinusHas
<1>12. Shows(burst, p, i + 1, 8 * (i + 1) - 8 + 0, Code!Minus(c, d)) /\ 0 \in 0..8
  BY <1>5, <1>7, <1>8, <1>10
<1> QED
  BY <1>4, <1>5, <1>11, <1>12 DEF Computes

LEMMA CrcComputed ==
    ASSUME NEW n \in Nat, NEW burst \in SUBSET (0..(8 * n - 1)), NEW p \in burst, NEW l,
           Computes(n, burst, p, l), l.bit = 8, l.i = n
    PROVE  l.crc # l.crcDamaged
<1>1. PICK a, b : /\ l = [i |-> n, bit |-> 8, crc |-> a, crcDamaged |-> b]
                  /\ Shows(burst, p, n, 8 * n - 8 + 8, Code!Minus(a, b))
  BY DEF Computes
<1>2. 8 * n - 8 + 8 = 8 * n
  OBVIOUS
<1>3. Code!Minus(a, b) # {}
  BY <1>1, <1>2, ShowsLast
<1>4. a # b
  BY <1>3, MinusOfSets
<1> QED
  BY <1>1, <1>4

(* img_crc16_ccitt returns another checksum for a message that a burst of  *)
(* up to 16 bits has damaged, whatever the message's length and byte.      *)
THEOREM BurstsAreDetected ==
    DataSpec => [](which = "codes" /\ call.fn = "img_crc16_ccitt" /\ ret # <<>> => Code!IsResult(ret[1]))
<1>1. CrcInv /\ [DataNext]_<<which, vars, topicVars, ringVars, stackQueueVars, minVars, frameVars>> => CrcInv'
  <2> SUFFICES ASSUME CrcInv,
                      [DataNext]_<<which, vars, topicVars, ringVars, stackQueueVars, minVars, frameVars>>,
                      which' = "codes", call'.fn = "img_crc16_ccitt"
               PROVE  CrcInv'
    BY DEF CrcInv
  <2>1. which = "codes"
    BY DEF DataNext, Call, Turn
  <2>2. /\ which' = which /\ call' = call
        /\ Code!Next \/ UNCHANGED <<loc, ret>>
    BY <2>1, CodesStepIs
  <2>3. PICK n, p \in Nat : \E byte \in SUBSET Int :
            /\ IsDamage(call, n, byte, p)
            /\ \/ ret = <<>> /\ Computes(n, call.burst, p, loc)
               \/ ret # <<>> /\ ret[1][1] # ret[1][2]
    BY <2>1, <2>2 DEF CrcInv
  <2>4. PICK byte \in SUBSET Int :
            /\ IsDamage(call, n, byte, p)
            /\ \/ ret = <<>> /\ Computes(n, call.burst, p, loc)
               \/ ret # <<>> /\ ret[1][1] # ret[1][2]
    BY <2>3
  <2>5. PICK burst : /\ burst = call.burst /\ call.data = Code!Plain(n, byte)
                     /\ burst \in SUBSET (p..(p + 15)) /\ p \in burst /\ burst \in SUBSET (0..(8 * n - 1))
    BY <2>4 DEF IsDamage
  <2>6. /\ call' = call /\ IsDamage(call', n, byte, p) /\ call'.burst = burst
    BY <2>2, <2>4, <2>5
  <2>7. CASE Code!img_crc16_ccitt
    <3>1. ret = <<>> /\ Computes(n, burst, p, loc)
      BY <2>4, <2>5, <2>7 DEF Code!img_crc16_ccitt, Code!Runs
    <3>2. CASE loc.bit < 8 /\ Code!Goes([loc EXCEPT !.bit = @ + 1, !.crc = Code!Shift(@), !.crcDamaged = Code!Shift(@)])
      <4>1. Computes(n, burst, p, loc')
        BY <2>5, <3>1, <3>2, ShiftComputes DEF Code!Goes
      <4>2. ret' = <<>>
        BY <3>1, <3>2 DEF Code!Goes
      <4> QED
        BY <2>6, <4>1, <4>2 DEF CrcInv
    <3>3. CASE /\ loc.bit = 8 /\ loc.i < n
               /\ Code!Goes([i          |-> loc.i + 1,
                             bit        |-> 0,
                             crc        |-> Code!Minus(loc.crc, Upper(byte)),
                             crcDamaged |-> Code!Minus(loc.crcDamaged, Upper(Code!Minus(byte, Changes(burst, loc.i))))])
      <4>1. Computes(n, burst, p, loc')
        <5>1. burst \in SUBSET Nat
          BY <2>5
        <5> QED
          BY <3>1, <3>3, <5>1, ByteComputes DEF Code!Goes
      <4>2. ret' = <<>>
        BY <3>1, <3>3 DEF Code!Goes
      <4> QED
        BY <2>6, <4>1, <4>2 DEF CrcInv
    <3>4. CASE loc.bit = 8 /\ loc.i = n /\ Code!Returns(<<loc.crc, loc.crcDamaged>>)
      <4>1. loc.crc # loc.crcDamaged
        BY <2>5, <3>1, <3>4, CrcComputed
      <4>2. ret' = <<<<loc.crc, loc.crcDamaged>>>>
        BY <3>4 DEF Code!Returns
      <4>3. ret' # <<>> /\ ret'[1][1] # ret'[1][2]
        BY <4>1, <4>2
      <4> QED
        BY <2>6, <4>3 DEF CrcInv
    <3>5. /\ Len(call.data) = n
          /\ \A i \in 0..(n - 1) : /\ call.data[i + 1] = byte
                                   /\ Code!Damaged(call.data, burst)[i + 1] = Code!Minus(byte, Changes(burst, i))
      <4>1. Len(call.data) = n /\ \A i \in 1..n : call.data[i] = byte
        BY <2>5 DEF Code!Plain
      <4>2. ASSUME NEW i \in 0..(n - 1)
            PROVE  /\ call.data[i + 1] = byte
                   /\ Code!Damaged(call.data, burst)[i + 1] = Code!Minus(byte, Changes(burst, i))
        <5>1. i + 1 \in 1..n /\ i + 1 - 1 = i
          OBVIOUS
        <5> QED
          BY <4>1, <5>1 DEF Code!Damaged, Changes
      <4> QED
        BY <4>1, <4>2
    <3>6. loc.bit = 8 /\ loc.i < n => loc.i \in 0..(n - 1)
      <4>1. loc.i \in 0..n
        BY <3>1 DEF Computes
      <4> QED
        BY <4>1
    <3>7. \/ loc.bit < 8 /\ Code!Goes([loc EXCEPT !.bit = @ + 1, !.crc = Code!Shift(@), !.crcDamaged = Code!Shift(@)])
          \/ /\ loc.bit = 8 /\ loc.i < n
             /\ Code!Goes([i          |-> loc.i + 1,
                           bit        |-> 0,
                           crc        |-> Code!Minus(loc.crc, Upper(call.data[loc.i + 1])),
                           crcDamaged |-> Code!Minus(loc.crcDamaged, Upper(Code!Damaged(call.data, burst)[loc.i + 1]))])
          \/ loc.bit = 8 /\ loc.i = n /\ Code!Returns(<<loc.crc, loc.crcDamaged>>)
      BY <2>5, <2>7, <3>5 DEF Code!img_crc16_ccitt, Upper
    <3> QED
      BY <3>2, <3>3, <3>4, <3>5, <3>6, <3>7
  <2>8. CASE UNCHANGED <<loc, ret>>
    BY <2>4, <2>6, <2>8 DEF CrcInv
  <2> QED
    BY <2>1, <2>2, <2>7, <2>8 DEF Code!Next, Code!Runs, Code!image_calc_total_chunks, Code!encode_remaining_length
<1>2. CrcInv => (which = "codes" /\ call.fn = "img_crc16_ccitt" /\ ret # <<>> => Code!IsResult(ret[1]))
  BY DEF CrcInv, Code!IsResult
<1> QED
  BY <1>1, <1>2, CrcStart, PTL DEF DataSpec


-----------------------------------------------------------------------------
(* encode_remaining_length: what is left, len, counts as much as the next  *)
(* of the digits.                                                          *)
Digit(bytes, i) == IF i <= Len(bytes) THEN bytes[i] % 128 ELSE 0

Weight(k) == IF k = 0 THEN 1 ELSE IF k = 1 THEN 128 ELSE IF k = 2 THEN 16384 ELSE IF k = 3 THEN 2097152 ELSE 268435456

Stands(bytes, len) == Code!Decoded(bytes) + Weight(Len(bytes)) * len

(* The next byte.                                                          *)
NextByte(len) == (len % 128) + (IF len \div 128 > 0 THEN 128 ELSE 0)

Encodes(n, bytes, len) ==
    /\ bytes \in Seq(Nat) /\ Len(bytes) \in 0..4 /\ len \in Nat
    /\ n = Stands(bytes, len)
    /\ \A i \in 1..Len(bytes) : bytes[i] < 256 /\ (bytes[i] >= 128 <=> i < Len(bytes) \/ len > 0)

LEMMA MaxLengthIs == MaxLength = 268435455
BY SMT DEF MaxLength

LEMMA DigitIs ==
    ASSUME NEW bytes \in Seq(Nat), NEW i \in Nat \ {0}
    PROVE  Digit(bytes, i) \in Nat
<1>1. CASE i <= Len(bytes)
  <2>1. Len(bytes) \in Nat /\ i \in 1..Len(bytes)
    BY <1>1
  <2>2. bytes[i] \in Nat
    BY <2>1
  <2>3. bytes[i] % 128 \in Nat
    BY <2>2
  <2> QED
    BY <1>1, <2>3 DEF Digit
<1>2. CASE ~(i <= Len(bytes))
  BY <1>2 DEF Digit
<1> QED
  BY <1>1, <1>2

FromDigits(a, b, c, d) == a + 128 * b + 16384 * c + 2097152 * d

LEMMA FromDigitsIs ==
    ASSUME NEW a \in Nat, NEW b \in Nat, NEW c \in Nat, NEW d \in Nat
    PROVE  FromDigits(a, b, c, d) \in Nat
BY SMT DEF FromDigits

LEMMA DecodedIs ==
    ASSUME NEW bytes \in Seq(Nat)
    PROVE  /\ Code!Decoded(bytes) =
                  FromDigits(Digit(bytes, 1), Digit(bytes, 2), Digit(bytes, 3), Digit(bytes, 4))
           /\ Code!Decoded(bytes) \in Nat
<1>1. Code!Decoded(bytes) = FromDigits(Digit(bytes, 1), Digit(bytes, 2), Digit(bytes, 3), Digit(bytes, 4))
  BY SMT DEF Code!Decoded, Digit, FromDigits
<1>2. Digit(bytes, 1) \in Nat /\ Digit(bytes, 2) \in Nat /\ Digit(bytes, 3) \in Nat /\ Digit(bytes, 4) \in Nat
  BY DigitIs
<1>3. FromDigits(Digit(bytes, 1), Digit(bytes, 2), Digit(bytes, 3), Digit(bytes, 4)) \in Nat
  BY <1>2, FromDigitsIs
<1> QED
  BY <1>1, <1>3

Same(bytes, len, x, k) ==
    Code!Decoded(Append(bytes, x)) + Weight(k + 1) * (len \div 128) = Code!Decoded(bytes) + Weight(k) * len

LEMMA DigitAdded ==
    ASSUME NEW bytes \in Seq(Nat), NEW len \in Nat, NEW x \in Nat, x % 128 = len % 128, NEW k \in 0..3, k = Len(bytes)
    PROVE  Same(bytes, len, x, k)
<1>1. PICK more \in Seq(Nat) : more = Append(bytes, x)
  <2>1. Append(bytes, x) \in Seq(Nat)
    OBVIOUS
  <2> QED
    BY <2>1
<1>2. PICK q \in Nat, r \in 0..127 : q = len \div 128 /\ r = len % 128 /\ len = 128 * q + r
  <2>1. len \div 128 \in Nat /\ len % 128 \in 0..127 /\ len = 128 * (len \div 128) + (len % 128)
    OBVIOUS
  <2> QED
    BY <2>1
<1>3. /\ \A i \in 1..4 : i # k + 1 => Digit(more, i) = Digit(bytes, i)
      /\ Digit(more, k + 1) = r
      /\ Digit(bytes, k + 1) = 0
  <2>1. Len(more) = k + 1 /\ Len(bytes) = k /\ \A i \in 1..(k + 1) : more[i] = IF i <= k THEN bytes[i] ELSE x
    BY <1>1
  <2>2. ASSUME NEW i \in 1..4, i # k + 1 PROVE Digit(more, i) = Digit(bytes, i)
    BY <2>1, <2>2 DEF Digit
  <2>3. Digit(more, k + 1) = r /\ Digit(bytes, k + 1) = 0
    <3>1. k + 1 \in 1..(k + 1) /\ ~(k + 1 <= k)
      OBVIOUS
    <3>2. more[k + 1] = x
      BY <2>1, <3>1
    <3> QED
      BY <1>2, <2>1, <3>1, <3>2 DEF Digit
  <2> QED
    BY <2>2, <2>3
<1>4. PICK a, b, c, d \in Nat :
        /\ a = Digit(bytes, 1) /\ b = Digit(bytes, 2) /\ c = Digit(bytes, 3) /\ d = Digit(bytes, 4)
        /\ Code!Decoded(bytes) = FromDigits(a, b, c, d)
  <2>1. Digit(bytes, 1) \in Nat /\ Digit(bytes, 2) \in Nat /\ Digit(bytes, 3) \in Nat /\ Digit(bytes, 4) \in Nat
    BY DigitIs
  <2>2. Code!Decoded(bytes) = FromDigits(Digit(bytes, 1), Digit(bytes, 2), Digit(bytes, 3), Digit(bytes, 4))
    BY DecodedIs
  <2> QED
    BY <2>1, <2>2
<1>5. Code!Decoded(more) = FromDigits(Digit(more, 1), Digit(more, 2), Digit(more, 3), Digit(more, 4))
  BY DecodedIs
<1>6. CASE k = 0
  <2>1. Digit(more, 1) = r /\ Digit(more, 2) = b /\ Digit(more, 3) = c /\ Digit(more, 4) = d /\ a = 0
    BY <1>3, <1>4, <1>6
  <2>2. Weight(k) = 1 /\ Weight(k + 1) = 128
    BY <1>6, SMT DEF Weight
  <2>3. Code!Decoded(more) = FromDigits(r, b, c, d) /\ Code!Decoded(bytes) = FromDigits(0, b, c, d)
    BY <1>4, <1>5, <2>1
  <2>4. FromDigits(r, b, c, d) + 128 * q = FromDigits(0, b, c, d) + 1 * len
    BY <1>2, SMT DEF FromDigits
  <2> QED
    BY <1>1, <1>2, <2>2, <2>3, <2>4, SMT DEF Same
<1>7. CASE k = 1
  <2>1. Digit(more, 1) = a /\ Digit(more, 2) = r /\ Digit(more, 3) = c /\ Digit(more, 4) = d /\ b = 0
    BY <1>3, <1>4, <1>7
  <2>2. Weight(k) = 128 /\ Weight(k + 1) = 16384
    BY <1>7, SMT DEF Weight
  <2>3. Code!Decoded(more) = FromDigits(a, r, c, d) /\ Code!Decoded(bytes) = FromDigits(a, 0, c, d)
    BY <1>4, <1>5, <2>1
  <2>4. FromDigits(a, r, c, d) + 16384 * q = FromDigits(a, 0, c, d) + 128 * len
    BY <1>2, SMT DEF FromDigits
  <2> QED
    BY <1>1, <1>2, <2>2, <2>3, <2>4, SMT DEF Same
<1>8. CASE k = 2
  <2>1. Digit(more, 1) = a /\ Digit(more, 2) = b /\ Digit(more, 3) = r /\ Digit(more, 4) = d /\ c = 0
    BY <1>3, <1>4, <1>8
  <2>2. Weight(k) = 16384 /\ Weight(k + 1) = 2097152
    BY <1>8, SMT DEF Weight
  <2>3. Code!Decoded(more) = FromDigits(a, b, r, d) /\ Code!Decoded(bytes) = FromDigits(a, b, 0, d)
    BY <1>4, <1>5, <2>1
  <2>4. FromDigits(a, b, r, d) + 2097152 * q = FromDigits(a, b, 0, d) + 16384 * len
    BY <1>2, SMT DEF FromDigits
  <2> QED
    BY <1>1, <1>2, <2>2, <2>3, <2>4, SMT DEF Same
<1>9. CASE k = 3
  <2>1. Digit(more, 1) = a /\ Digit(more, 2) = b /\ Digit(more, 3) = c /\ Digit(more, 4) = r /\ d = 0
    BY <1>3, <1>4, <1>9
  <2>2. Weight(k) = 2097152 /\ Weight(k + 1) = 268435456
    BY <1>9, SMT DEF Weight
  <2>3. Code!Decoded(more) = FromDigits(a, b, c, r) /\ Code!Decoded(bytes) = FromDigits(a, b, c, 0)
    BY <1>4, <1>5, <2>1
  <2>4. FromDigits(a, b, c, r) + 268435456 * q = FromDigits(a, b, c, 0) + 2097152 * len
    BY <1>2, SMT DEF FromDigits
  <2> QED
    BY <1>1, <1>2, <2>2, <2>3, <2>4, SMT DEF Same
<1> QED
  BY <1>6, <1>7, <1>8, <1>9

LEMMA StandsStill ==
    ASSUME NEW bytes \in Seq(Nat), NEW len \in Nat, NEW x \in Nat, x % 128 = len % 128, Len(bytes) \in 0..3
    PROVE  Stands(Append(bytes, x), len \div 128) = Stands(bytes, len)
<1>1. PICK k \in 0..3 : k = Len(bytes)
  OBVIOUS
<1>2. Same(bytes, len, x, k)
  BY <1>1, DigitAdded
<1>3. Len(Append(bytes, x)) = k + 1
  BY <1>1
<1> QED
  BY <1>1, <1>2, <1>3 DEF Stands, Same

(* Four bytes are enough for every length that is allowed.                 *)
LEMMA DigitEncodes ==
    ASSUME NEW n \in Nat, n <= MaxLength, NEW bytes \in Seq(Nat), NEW len \in Nat, Encodes(n, bytes, len), ~(bytes # <<>> /\ len = 0),
           NEW x \in Nat, x = NextByte(len)
    PROVE  Encodes(n, Append(bytes, x), len \div 128)
<1>1. PICK k \in 0..4 : k = Len(bytes)
  BY DEF Encodes
<1>2. bytes \in Seq(Nat) /\ len \in Nat /\ n = Stands(bytes, len)
  BY <1>1 DEF Encodes
<1>3. k # 4
  <2> SUFFICES ASSUME k = 4 PROVE FALSE
    OBVIOUS
  <2>1. bytes # <<>>
    <3>1. Len(bytes) = 4 /\ Len(<<>>) = 0
      BY <1>1
    <3>2. Len(bytes) # Len(<<>>)
      BY <3>1
    <3> QED
      BY <3>2
  <2>2. len >= 1
    BY <1>2, <2>1
  <2>3. Weight(k) = 268435456
    BY SMT DEF Weight
  <2>4. Code!Decoded(bytes) \in Nat /\ n \in Nat /\ n <= 268435455
    <3>1. Code!Decoded(bytes) \in Nat
      BY <1>2, DecodedIs, SMT
    <3>2. n <= 268435455
      BY MaxLengthIs, SMT
    <3> QED
      BY <3>1, <3>2, SMT
  <2>5. n = Code!Decoded(bytes) + Weight(k) * len
    BY <1>1, <1>2 DEF Stands
  <2> QED
    BY <1>2, <2>2, <2>3, <2>4, <2>5, SMT
<1>4. /\ x \in Nat /\ x < 256 /\ x % 128 = len % 128 /\ (x >= 128 <=> len \div 128 > 0)
      /\ len \div 128 \in Nat
  <2>1. PICK q \in Nat, r \in 0..127 : q = len \div 128 /\ r = len % 128
    <3>1. len \div 128 \in Nat /\ len % 128 \in 0..127
      BY <1>2
    <3> QED
      BY <3>1
  <2>2. x = r + (IF q > 0 THEN 128 ELSE 0)
    BY <2>1 DEF NextByte
  <2>3. x \in Nat /\ x < 256 /\ x % 128 = r /\ (x >= 128 <=> q > 0)
    <3>1. CASE q > 0
      BY <2>2, <3>1
    <3>2. CASE ~(q > 0)
      BY <2>2, <3>2
    <3> QED
      BY <3>1, <3>2
  <2> QED
    BY <2>1, <2>3
<1>5. n = Stands(Append(bytes, x), len \div 128)
  <2>1. Len(bytes) \in 0..3 /\ x % 128 = len % 128
    <3>1. k \in 0..3
      BY <1>3
    <3> QED
      BY <1>1, <1>4, <3>1
  <2>2. Stands(Append(bytes, x), len \div 128) = Stands(bytes, len)
    BY <2>1, StandsStill
  <2> QED
    BY <1>2, <2>2
<1>6. PICK more \in Seq(Nat) : /\ more = Append(bytes, x) /\ Len(more) = k + 1 /\ k + 1 \in 0..4
                               /\ \A i \in 1..(k + 1) : more[i] = IF i <= k THEN bytes[i] ELSE x
  <2>1. Append(bytes, x) \in Seq(Nat)
    BY <1>2, <1>4
  <2>2. Len(Append(bytes, x)) = k + 1 /\ \A i \in 1..(k + 1) : Append(bytes, x)[i] = IF i <= k THEN bytes[i] ELSE x
    BY <1>1, <1>2, <1>4
  <2>3. k + 1 \in 0..4
    BY <1>3
  <2> QED
    BY <2>1, <2>2, <2>3
<1>7. ASSUME NEW i \in 1..(k + 1)
      PROVE  more[i] < 256 /\ (more[i] >= 128 <=> i < k + 1 \/ len \div 128 > 0)
  <2>1. CASE i <= k
    <3>1. i \in 1..Len(bytes) /\ i < k + 1 /\ bytes # <<>>
      BY <1>1, <1>2, <2>1
    <3>2. len > 0
      BY <1>2, <3>1
    <3>3. bytes[i] < 256 /\ bytes[i] >= 128
      BY <3>1, <3>2 DEF Encodes
    <3> QED
      BY <1>6, <2>1, <3>1, <3>3
  <2>2. CASE i = k + 1
    BY <1>4, <1>6, <2>2
  <2> QED
    BY <2>1, <2>2
<1> QED
  BY <1>4, <1>5, <1>6, <1>7 DEF Encodes

EncodeInv ==
    which = "codes" /\ call.fn = "encode_remaining_length" =>
        /\ call.len \in Nat /\ call.len <= MaxLength
        /\ loc = [len |-> loc.len, bytes |-> loc.bytes]
        /\ Encodes(call.len, loc.bytes, loc.len)
        /\ ret # <<>> => ret = <<loc.bytes>> /\ loc.len = 0

LEMMA EncodeStart == DataInit => EncodeInv
<1> SUFFICES ASSUME DataInit, which = "codes", call.fn = "encode_remaining_length"
             PROVE  EncodeInv
  BY DEF EncodeInv
<1>1. call \in Code!Calls /\ ret = <<>> /\ loc = Code!Entry(call)
  BY DEF DataInit, Begins
<1>2. PICK n \in Lengths : call = [fn |-> "encode_remaining_length", len |-> n]
  BY <1>1, CodesCalls
<1>3. n \in Nat /\ n <= MaxLength
  <2>1. n \in 0..MaxLength
    BY DataAssumption
  <2> QED
    BY <2>1
<1>4. loc = [len |-> n, bytes |-> <<>>]
  BY <1>1, <1>2 DEF Code!Entry
<1>5. Encodes(n, <<>>, n)
  <2>1. <<>> \in Seq(Nat) /\ Len(<<>>) = 0
    OBVIOUS
  <2>2. Digit(<<>>, 1) = 0 /\ Digit(<<>>, 2) = 0 /\ Digit(<<>>, 3) = 0 /\ Digit(<<>>, 4) = 0
    BY <2>1 DEF Digit
  <2>3. Code!Decoded(<<>>) = 0
    <3>1. PICK bytes \in Seq(Nat) : bytes = <<>>
      BY <2>1
    <3>2. FromDigits(0, 0, 0, 0) = 0
      BY SMT DEF FromDigits
    <3>3. Code!Decoded(bytes) = FromDigits(Digit(bytes, 1), Digit(bytes, 2), Digit(bytes, 3), Digit(bytes, 4))
      BY DecodedIs
    <3> QED
      BY <2>2, <3>1, <3>2, <3>3
  <2>4. Weight(0) = 1
    BY SMT DEF Weight
  <2>5. Stands(<<>>, n) = n
    BY <1>3, <2>1, <2>3, <2>4 DEF Stands
  <2> QED
    BY <1>3, <2>1, <2>5 DEF Encodes
<1> QED
  BY <1>1, <1>2, <1>3, <1>4, <1>5 DEF EncodeInv

(* encode_remaining_length returns at most four bytes, from which a broker *)
(* reads the length again, and each byte but the last says that another    *)
(* one follows; for every length that MQTT allows.                         *)
THEOREM LengthsAreDecoded ==
    DataSpec => [](which = "codes" /\ call.fn = "encode_remaining_length" /\ ret # <<>> => Code!IsResult(ret[1]))
<1>1. EncodeInv /\ [DataNext]_<<which, vars, topicVars, ringVars, stackQueueVars, minVars, frameVars>> => EncodeInv'
  <2> SUFFICES ASSUME EncodeInv,
                      [DataNext]_<<which, vars, topicVars, ringVars, stackQueueVars, minVars, frameVars>>,
                      which' = "codes", call'.fn = "encode_remaining_length"
               PROVE  EncodeInv'
    BY DEF EncodeInv
  <2>1. which = "codes"
    BY DEF DataNext, Call, Turn
  <2>2. /\ which' = which /\ call' = call
        /\ Code!Next \/ UNCHANGED <<loc, ret>>
    BY <2>1, CodesStepIs
  <2>3. /\ call.len \in Nat /\ call.len <= MaxLength
        /\ loc = [len |-> loc.len, bytes |-> loc.bytes]
        /\ Encodes(call.len, loc.bytes, loc.len)
        /\ ret # <<>> => ret = <<loc.bytes>> /\ loc.len = 0
    BY <2>1, <2>2 DEF EncodeInv
  <2>4. CASE Code!encode_remaining_length
    <3>1. ret = <<>>
      BY <2>4 DEF Code!encode_remaining_length, Code!Runs
    <3>2. PICK x : x = NextByte(loc.len)
      OBVIOUS
    <3>3. CASE loc.bytes # <<>> /\ loc.len = 0
      <4>1. ret' = <<loc.bytes>> /\ loc' = loc
        BY <2>4, <3>3 DEF Code!encode_remaining_length, Code!Returns
      <4> QED
        BY <2>2, <2>3, <3>3, <4>1 DEF EncodeInv
    <3>4. CASE ~(loc.bytes # <<>> /\ loc.len = 0)
      <4>1. ret' = <<>> /\ loc' = [len |-> loc.len \div 128, bytes |-> Append(loc.bytes, x)]
        BY <2>4, <3>1, <3>2, <3>4 DEF Code!encode_remaining_length, Code!Goes, NextByte
      <4>2. Encodes(call.len, Append(loc.bytes, x), loc.len \div 128)
        <5>1. loc.bytes \in Seq(Nat) /\ loc.len \in Nat
          BY <2>3 DEF Encodes
        <5>2. x \in Nat
          BY <3>2, <5>1 DEF NextByte
        <5>3. PICK n \in Nat, b \in Seq(Nat), k \in Nat :
                /\ n = call.len /\ b = loc.bytes /\ k = loc.len /\ n <= MaxLength
                /\ Encodes(n, b, k)
                /\ ~(b # <<>> /\ k = 0)
                /\ x = NextByte(k)
          BY <2>3, <3>2, <3>4, <5>1
        <5>4. Encodes(n, Append(b, x), k \div 128)
          BY <5>2, <5>3, DigitEncodes
        <5> QED
          BY <5>3, <5>4
      <4> QED
        BY <2>2, <2>3, <4>1, <4>2 DEF EncodeInv
    <3> QED
      BY <3>3, <3>4
  <2>5. CASE UNCHANGED <<loc, ret>>
    BY <2>2, <2>3, <2>5 DEF EncodeInv
  <2> QED
    BY <2>1, <2>2, <2>4, <2>5 DEF Code!Next, Code!Runs, Code!image_calc_total_chunks, Code!img_crc16_ccitt
<1>2. EncodeInv => (which = "codes" /\ call.fn = "encode_remaining_length" /\ ret # <<>> => Code!IsResult(ret[1]))
  <2> SUFFICES ASSUME EncodeInv, which = "codes", call.fn = "encode_remaining_length", ret # <<>>
               PROVE  Code!IsResult(ret[1])
    OBVIOUS
  <2>1. PICK r \in Seq(Nat) : r = ret[1] /\ Encodes(call.len, r, 0)
    BY DEF EncodeInv, Encodes
  <2>2. /\ Len(r) <= 4 /\ call.len = Code!Decoded(r)
        /\ \A i \in 1..Len(r) : r[i] < 256 /\ (r[i] >= 128 <=> i < Len(r))
    <3>1. PICK w \in Nat : w = Weight(Len(r))
      BY SMT DEF Weight
    <3>2. w * 0 = 0 /\ Code!Decoded(r) \in Nat
      BY DecodedIs, SMT
    <3>3. call.len = Code!Decoded(r) + w * 0
      BY <2>1, <3>1 DEF Encodes, Stands
    <3>4. call.len = Code!Decoded(r)
      BY <3>2, <3>3
    <3>5. Len(r) <= 4
      <4>1. PICK m \in 0..4 : m = Len(r)
        BY <2>1 DEF Encodes
      <4>2. m <= 4
        OBVIOUS
      <4> QED
        BY <4>1, <4>2
    <3>6. ASSUME NEW i \in 1..Len(r) PROVE r[i] < 256 /\ (r[i] >= 128 <=> i < Len(r))
      BY <2>1 DEF Encodes
    <3> QED
      BY <3>4, <3>5, <3>6
  <2> QED
    BY <2>1, <2>2 DEF Code!IsResult
<1> QED
  BY <1>1, <1>2, EncodeStart, PTL DEF DataSpec


-----------------------------------------------------------------------------
(* Which functions there are.                                              *)
KnownCall ==
    /\ which = "arrays" => call.fn \in {"move_zeroes", "rotate", "min_sub_array_len", "run"}
    /\ which = "stacks" => call.fn \in {"is_valid_parentheses", "eval_rpn", "daily_temperatures", "max_sliding_window",
                                        "shortest_path"}
    /\ which = "codes" => call.fn \in {"img_crc16_ccitt", "encode_remaining_length", "image_calc_total_chunks"}

LEMMA CallsAreKnown == DataSpec => []KnownCall
<1>1. DataInit => KnownCall
  <2> SUFFICES ASSUME DataInit PROVE KnownCall
    OBVIOUS
  <2>1. ASSUME which = "arrays"
        PROVE  call.fn \in {"move_zeroes", "rotate", "min_sub_array_len", "run"}
    <3>1. call \in Arr!Calls
      BY <2>1 DEF DataInit, Begins
    <3> QED
      BY <3>1 DEF Arr!Calls
  <2>2. ASSUME which = "stacks"
        PROVE  call.fn \in {"is_valid_parentheses", "eval_rpn", "daily_temperatures", "max_sliding_window",
                            "shortest_path"}
    <3>1. call \in Stk!Calls
      BY <2>2 DEF DataInit, Begins
    <3> QED
      BY <3>1 DEF Stk!Calls
  <2>3. ASSUME which = "codes"
        PROVE  call.fn \in {"img_crc16_ccitt", "encode_remaining_length", "image_calc_total_chunks"}
    <3>1. call \in Code!Calls
      BY <2>3 DEF DataInit, Begins
    <3> QED
      BY <3>1, CodesCalls
  <2> QED
    BY <2>1, <2>2, <2>3 DEF KnownCall
<1>2. KnownCall /\ [DataNext]_<<which, vars, topicVars, ringVars, stackQueueVars, minVars, frameVars>> => KnownCall'
  <2> SUFFICES ASSUME KnownCall,
                      [DataNext]_<<which, vars, topicVars, ringVars, stackQueueVars, minVars, frameVars>>
               PROVE  KnownCall'
    OBVIOUS
  <2>1. which' = which
    BY DEF DataNext, Call, Turn
  <2>2. which \in {"arrays", "stacks", "codes"} => call' = call
    BY ArraysStepIs, StacksStepIs, CodesStepIs
  <2> QED
    BY <2>1, <2>2 DEF KnownCall
<1> QED
  BY <1>1, <1>2, PTL DEF DataSpec

(* What a function returns is what it is for: each of those that work on   *)
(* arrays, stacks, queues and grids, and those that make the numbers on    *)
(* the wires, for every input; and the queue of shortest_path is large     *)
(* enough.                                                                 *)
THEOREM ReturnsRight == DataSpec => []ReturnsAreRight
<1> DEFINE Right(m, fn, result) == which = m /\ call.fn = fn /\ ret # <<>> => result
<1>1. DataSpec => /\ []Right("arrays", "move_zeroes", Arr!IsResult(ret[1]))
                  /\ []Right("arrays", "rotate", Arr!IsResult(ret[1]))
                  /\ []Right("arrays", "min_sub_array_len", Arr!IsResult(ret[1]))
                  /\ []Right("arrays", "run", Arr!IsResult(ret[1]))
  BY ZeroesMoveBehind, RotatesByK, ShortestWindow, UrgentTasksFirst
<1>2. DataSpec => /\ []Right("stacks", "is_valid_parentheses", Stk!IsResult(ret[1]))
                  /\ []Right("stacks", "eval_rpn", Stk!IsResult(ret[1]))
                  /\ []Right("stacks", "daily_temperatures", Stk!IsResult(ret[1]))
                  /\ []Right("stacks", "max_sliding_window", Stk!IsResult(ret[1]))
                  /\ []Right("stacks", "shortest_path", Stk!IsResult(ret[1]))
  BY ParenthesesAreMatched, ExpressionsAreEvaluated, NextWarmerDay, MaximumOfWindows, ShortestPathIsFound
<1>3. DataSpec => /\ []Right("codes", "img_crc16_ccitt", Code!IsResult(ret[1]))
                  /\ []Right("codes", "encode_remaining_length", Code!IsResult(ret[1]))
                  /\ []Right("codes", "image_calc_total_chunks", Code!IsResult(ret[1]))
  BY BurstsAreDetected, LengthsAreDecoded, LastByteInLastChunk
<1>4. ASSUME KnownCall, which = "stacks" => Stk!QueueFits,
             Right("arrays", "move_zeroes", Arr!IsResult(ret[1])),
             Right("arrays", "rotate", Arr!IsResult(ret[1])),
             Right("arrays", "min_sub_array_len", Arr!IsResult(ret[1])),
             Right("arrays", "run", Arr!IsResult(ret[1])),
             Right("stacks", "is_valid_parentheses", Stk!IsResult(ret[1])),
             Right("stacks", "eval_rpn", Stk!IsResult(ret[1])),
             Right("stacks", "daily_temperatures", Stk!IsResult(ret[1])),
             Right("stacks", "max_sliding_window", Stk!IsResult(ret[1])),
             Right("stacks", "shortest_path", Stk!IsResult(ret[1])),
             Right("codes", "img_crc16_ccitt", Code!IsResult(ret[1])),
             Right("codes", "encode_remaining_length", Code!IsResult(ret[1])),
             Right("codes", "image_calc_total_chunks", Code!IsResult(ret[1]))
      PROVE  ReturnsAreRight
  BY <1>4 DEF KnownCall, ReturnsAreRight
<1> HIDE DEF Right
<1> QED
  BY <1>1, <1>2, <1>3, <1>4, CallsAreKnown, QueueIsLargeEnough, PTL
=============================================================================
