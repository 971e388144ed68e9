-------------------------- MODULE MqttTopicProofs --------------------------
(***************************************************************************)
(* What topic_filter_match computes, for every filter and every topic.     *)
(***************************************************************************)
EXTENDS MqttTopic, SequenceTheorems, WellFoundedInduction, TLAPS, Integers

-----------------------------------------------------------------------------
(* Lists of levels, each of them a sequence of characters of C.            *)

Lists(C) == {f \in Seq(Seq(C)) : Len(f) >= 1}

(* g is the level a, and f behind it.                                      *)
Headed(C, a, f, g) ==
    /\ f \in Lists(C) /\ g \in Lists(C)
    /\ Len(g) = Len(f) + 1
    /\ g[1] = a
    /\ \A n \in Nat : 1 <= n /\ n <= Len(f) => g[n + 1] = f[n]

(* g is f with the character c before its first level.                     *)
Prefixed(C, c, f, g) ==
    /\ f \in Lists(C) /\ g \in Lists(C) /\ c \in C
    /\ Len(g) = Len(f)
    /\ g[1] = <<c>> \o f[1]
    /\ \A n \in Nat : 2 <= n /\ n <= Len(f) => g[n] = f[n]

LEMMA HeadedIs ==
    ASSUME NEW C, NEW f \in Lists(C), NEW a \in Seq(C)
    PROVE  Headed(C, a, f, <<a>> \o f)
BY DEF Headed, Lists

LEMMA PrefixedIs ==
    ASSUME NEW C, NEW f \in Lists(C), NEW c \in C
    PROVE  Prefixed(C, c, f, [f EXCEPT ![1] = <<c>> \o @])
<1>1. PICK g : g = [f EXCEPT ![1] = <<c>> \o @]
  OBVIOUS
<1>2. f \in Seq(Seq(C)) /\ Len(f) \in Nat /\ Len(f) >= 1 /\ DOMAIN f = 1..Len(f)
  BY DEF Lists
<1>3. f[1] \in Seq(C) /\ <<c>> \o f[1] \in Seq(C)
  BY <1>2
<1>4. g \in Seq(Seq(C)) /\ Len(g) = Len(f) /\ g[1] = <<c>> \o f[1]
  BY <1>1, <1>2, <1>3
<1>5. \A n \in Nat : 2 <= n /\ n <= Len(f) => g[n] = f[n]
  BY <1>1, <1>2
<1> QED
  BY <1>1, <1>2, <1>4, <1>5 DEF Prefixed, Lists

(* The first level of a list with a prefix.                                *)
LEMMA PrefixedHas ==
    ASSUME NEW C, NEW c, NEW f, NEW g, Prefixed(C, c, f, g)
    PROVE  /\ f[1] \in Seq(C) /\ g[1] \in Seq(C) /\ Len(g[1]) = Len(f[1]) + 1
           /\ g[1][1] = c
           /\ \A k \in 1..Len(f[1]) : g[1][k + 1] = f[1][k]
<1>1. f[1] \in Seq(C) /\ g[1] = <<c>> \o f[1] /\ c \in C
  BY DEF Prefixed, Lists
<1> QED
  BY <1>1

(* Levels are compared one by one.                                         *)
LEMMA HeadedMatch ==
    ASSUME NEW C, NEW a, NEW f, NEW f2, NEW b, NEW t, NEW t2,
           Headed(C, a, f, f2), Headed(C, b, t, t2)
    PROVE  LevelsMatch(f2, t2) <=> a \in {<<"+">>, b} /\ LevelsMatch(f, t)
<1>1. PICK m \in Nat, n \in Nat : m = Len(f) /\ n = Len(t) /\ m >= 1 /\ n >= 1
  BY DEF Headed, Lists
<1>2. Len(f2) = m + 1 /\ Len(t2) = n + 1 /\ f2[1] = a /\ t2[1] = b /\ f2[m + 1] = f[m]
  BY <1>1 DEF Headed
<1>3. \A k \in Nat : 1 <= k /\ k <= m /\ k <= n => f2[k + 1] = f[k] /\ t2[k + 1] = t[k]
  BY <1>1 DEF Headed
<1> DEFINE Same(p, q, k) == p[k] \in {<<"+">>, q[k]}
<1>4. \A k \in Nat : 1 <= k /\ k <= m /\ k <= n => (Same(f2, t2, k + 1) <=> Same(f, t, k))
  BY <1>3
<1>5. Same(f2, t2, 1) <=> a \in {<<"+">>, b}
  BY <1>2
<1> HIDE DEF Same
<1>6. ASSUME NEW l \in Nat, l <= m, l <= n
      PROVE  (\A k \in 1..(l + 1) : Same(f2, t2, k)) <=> Same(f2, t2, 1) /\ \A k \in 1..l : Same(f, t, k)
  <2>1. ASSUME \A k \in 1..(l + 1) : Same(f2, t2, k) PROVE Same(f2, t2, 1) /\ \A k \in 1..l : Same(f, t, k)
    BY <1>4, <1>6, <2>1
  <2>2. ASSUME Same(f2, t2, 1), \A k \in 1..l : Same(f, t, k), NEW k \in 1..(l + 1) PROVE Same(f2, t2, k)
    <3>1. CASE k = 1
      BY <2>2, <3>1
    <3>2. CASE k # 1
      <4>1. PICK j \in Nat : j = k - 1
        BY <3>2
      <4>2. 1 <= j /\ j <= l /\ j + 1 = k
        BY <3>2, <4>1
      <4> QED
        BY <1>4, <1>6, <2>2, <4>2
    <3> QED
      BY <3>1, <3>2
  <2> QED
    BY <2>1, <2>2
<1>7. CASE f[m] = <<"#">>
  <2>1. m - 1 \in Nat /\ m - 1 + 1 = m /\ m - 1 <= m /\ m + 1 - 1 = m
    BY <1>1
  <2>2. n >= m => ((\A k \in 1..m : Same(f2, t2, k)) <=> Same(f2, t2, 1) /\ \A k \in 1..(m - 1) : Same(f, t, k))
    <3>1. n >= m => m - 1 <= n
      BY <1>1
    <3> QED
      BY <1>6, <2>1, <3>1
  <2>3. LevelsMatch(f2, t2) <=> n + 1 >= m + 1 /\ \A k \in 1..m : Same(f2, t2, k)
    BY <1>1, <1>2, <1>7, <2>1 DEF LevelsMatch, Same
  <2>4. LevelsMatch(f, t) <=> n >= m /\ \A k \in 1..(m - 1) : Same(f, t, k)
    BY <1>1, <1>7 DEF LevelsMatch, Same
  <2> QED
    BY <1>1, <1>5, <2>2, <2>3, <2>4
<1>8. CASE f[m] # <<"#">>
  <2>1. LevelsMatch(f2, t2) <=> n + 1 = m + 1 /\ \A k \in 1..(m + 1) : Same(f2, t2, k)
    BY <1>1, <1>2, <1>8 DEF LevelsMatch, Same
  <2>2. LevelsMatch(f, t) <=> n = m /\ \A k \in 1..m : Same(f, t, k)
    BY <1>1, <1>8 DEF LevelsMatch, Same
  <2>3. n = m => ((\A k \in 1..(m + 1) : Same(f2, t2, k)) <=> Same(f2, t2, 1) /\ \A k \in 1..m : Same(f, t, k))
    BY <1>1, <1>6
  <2> QED
    BY <1>1, <1>5, <2>1, <2>2, <2>3
<1> QED
  BY <1>7, <1>8

LEMMA OneOrMore ==
    ASSUME NEW C, NEW f \in Lists(C)
    PROVE  Len(f) = 1 \/ Len(f) > 1
<1>1. PICK n \in Nat : n = Len(f) /\ n >= 1
  BY DEF Lists
<1>2. n = 1 \/ n > 1
  BY <1>1
<1> QED
  BY <1>1, <1>2

(* A last level of one, or of both.                                        *)
LEMMA LastMatch ==
    ASSUME NEW C, NEW f \in Lists(C), NEW t \in Lists(C)
    PROVE  /\ Len(f) = 1 /\ Len(t) = 1 => (LevelsMatch(f, t) <=> f[1] \in {<<"+">>, <<"#">>, t[1]})
           /\ Len(f) = 1 /\ Len(t) > 1 => (LevelsMatch(f, t) <=> f[1] = <<"#">>)
           /\ Len(f) > 1 /\ Len(t) = 1 => ~LevelsMatch(f, t)
<1>1. PICK m \in Nat, n \in Nat : m = Len(f) /\ n = Len(t) /\ m >= 1 /\ n >= 1
  BY DEF Lists
<1>2. CASE m = 1
  <2>1. LevelsMatch(f, t) <=> IF f[1] = <<"#">> THEN n >= 1 /\ \A k \in 1..0 : f[k] \in {<<"+">>, t[k]}
                              ELSE n = 1 /\ \A k \in 1..1 : f[k] \in {<<"+">>, t[k]}
    BY <1>1, <1>2 DEF LevelsMatch
  <2>2. (\A k \in 1..1 : f[k] \in {<<"+">>, t[k]}) <=> f[1] \in {<<"+">>, t[1]}
    OBVIOUS
  <2>3. CASE f[1] = <<"#">>
    BY <1>1, <1>2, <2>1, <2>3
  <2>4. CASE f[1] # <<"#">>
    BY <1>1, <1>2, <2>1, <2>2, <2>4
  <2> QED
    BY <2>3, <2>4
<1>3. CASE m > 1
  BY <1>1, <1>3 DEF LevelsMatch
<1> QED
  BY <1>1, <1>2, <1>3

(* The first level does not match.                                         *)
LEMMA FirstMatch ==
    ASSUME NEW C, NEW f \in Lists(C), NEW t \in Lists(C), f[1] \notin {<<"+">>, <<"#">>, t[1]}
    PROVE  ~LevelsMatch(f, t)
<1>1. PICK m \in Nat : m = Len(f) /\ m >= 1
  BY DEF Lists
<1>2. 1 \in 1..m
  BY <1>1
<1>3. CASE f[m] = <<"#">>
  <2>1. m # 1
    BY <1>3
  <2>2. 1 \in 1..(m - 1)
    BY <1>1, <2>1
  <2> QED
    BY <1>1, <1>3, <2>2 DEF LevelsMatch
<1>4. CASE f[m] # <<"#">>
  BY <1>1, <1>2, <1>4 DEF LevelsMatch
<1> QED
  BY <1>3, <1>4

(* The same character before both first levels changes nothing.            *)
LEMMA PrefixedMatch ==
    ASSUME NEW C, NEW c, NEW f, NEW f2, NEW t, NEW t2, Prefixed(C, c, f, f2), Prefixed(C, c, t, t2),
           f[1] \notin {<<"+">>, <<"#">>}, f2[1] \notin {<<"+">>, <<"#">>}
    PROVE  LevelsMatch(f2, t2) <=> LevelsMatch(f, t)
<1>1. PICK m \in Nat, n \in Nat : m = Len(f) /\ n = Len(t) /\ m >= 1 /\ n >= 1
  BY DEF Prefixed, Lists
<1>2. Len(f2) = m /\ Len(t2) = n
  BY <1>1 DEF Prefixed
<1>3. f2[m] = <<"#">> <=> f[m] = <<"#">>
  <2>1. CASE m = 1
    BY <2>1
  <2>2. CASE m # 1
    <3>1. f2[m] = f[m]
      BY <1>1, <2>2 DEF Prefixed
    <3> QED
      BY <3>1
  <2> QED
    BY <2>1, <2>2
<1> DEFINE Same(p, q, k) == p[k] \in {<<"+">>, q[k]}
<1>4. f2[1] = t2[1] <=> f[1] = t[1]
  <2>1. f[1] \in Seq(C) /\ t[1] \in Seq(C) /\ f2[1] \in Seq(C) /\ t2[1] \in Seq(C)
        /\ f2[1] = <<c>> \o f[1] /\ t2[1] = <<c>> \o t[1]
    BY DEF Prefixed, Lists
  <2>2. ASSUME f2[1] = t2[1] PROVE f[1] = t[1]
    <3>1. Len(f[1]) = Len(t[1])
      BY <2>2, PrefixedHas
    <3>2. \A k \in 1..Len(f[1]) : f[1][k] = t[1][k]
      BY <2>2, <3>1, PrefixedHas
    <3> QED
      BY <2>1, <3>1, <3>2, SeqEqual
  <2> QED
    BY <2>1, <2>2
<1>5. ASSUME NEW k \in Nat, 1 <= k, k <= m, k <= n PROVE Same(f2, t2, k) <=> Same(f, t, k)
  <2>1. CASE k = 1
    BY <1>4, <2>1
  <2>2. CASE k # 1
    <3>1. f2[k] = f[k] /\ t2[k] = t[k]
      BY <1>1, <1>5, <2>2 DEF Prefixed
    <3> QED
      BY <3>1
  <2> QED
    BY <2>1, <2>2
<1> HIDE DEF Same
<1>6. CASE f[m] = <<"#">>
  <2>1. LevelsMatch(f2, t2) <=> n >= m /\ \A k \in 1..(m - 1) : Same(f2, t2, k)
    BY <1>1, <1>2, <1>3, <1>6 DEF LevelsMatch, Same
  <2>2. LevelsMatch(f, t) <=> n >= m /\ \A k \in 1..(m - 1) : Same(f, t, k)
    BY <1>1, <1>6 DEF LevelsMatch, Same
  <2>3. n >= m => \A k \in 1..(m - 1) : k \in Nat /\ 1 <= k /\ k <= m /\ k <= n
    BY <1>1
  <2> QED
    BY <1>5, <2>1, <2>2, <2>3
<1>7. CASE f[m] # <<"#">>
  <2>1. LevelsMatch(f2, t2) <=> n = m /\ \A k \in 1..m : Same(f2, t2, k)
    BY <1>1, <1>2, <1>3, <1>7 DEF LevelsMatch, Same
  <2>2. LevelsMatch(f, t) <=> n = m /\ \A k \in 1..m : Same(f, t, k)
    BY <1>1, <1>7 DEF LevelsMatch, Same
  <2>3. n = m => \A k \in 1..m : k \in Nat /\ 1 <= k /\ k <= m /\ k <= n
    BY <1>1
  <2> QED
    BY <1>5, <2>1, <2>2, <2>3
<1> QED
  BY <1>6, <1>7
-----------------------------------------------------------------------------
(* Where wildcards may stand.                                              *)

LEMMA RestIsWellFormed ==
    ASSUME NEW C, NEW a, NEW f, NEW g, Headed(C, a, f, g), WellFormed(g)
    PROVE  WellFormed(f) /\ a # <<"#">>
<1>1. PICK m \in Nat : m = Len(f) /\ m >= 1 /\ Len(g) = m + 1 /\ g[1] = a
  BY DEF Headed, Lists
<1>2. ASSUME NEW n \in 1..m
      PROVE  /\ Has(f[n], "+") => f[n] = <<"+">>
             /\ Has(f[n], "#") => f[n] = <<"#">> /\ n = m
  <2>1. n + 1 \in 1..Len(g) /\ g[n + 1] = f[n] /\ (n + 1 = Len(g) <=> n = m)
    BY <1>1 DEF Headed
  <2> QED
    BY <2>1 DEF WellFormed
<1>3. a # <<"#">>
  <2>1. SUFFICES ASSUME a = <<"#">> PROVE FALSE
    OBVIOUS
  <2>2. Has(g[1], "#")
    BY <1>1, <2>1 DEF Has
  <2>3. 1 \in 1..Len(g) /\ 1 # Len(g)
    BY <1>1
  <2> QED
    BY <2>2, <2>3 DEF WellFormed
<1> QED
  BY <1>1, <1>2, <1>3 DEF WellFormed

(* Behind a letter no wildcard is in the same level.                       *)
LEMMA LetterIsWellFormed ==
    ASSUME NEW C, NEW c, NEW f, NEW g, Prefixed(C, c, f, g), c \notin {"+", "#"}, WellFormed(g)
    PROVE  /\ WellFormed(f)
           /\ ~Has(f[1], "+") /\ ~Has(f[1], "#")
           /\ f[1] \notin {<<"+">>, <<"#">>} /\ g[1] \notin {<<"+">>, <<"#">>}
<1>1. PICK m \in Nat : m = Len(f) /\ m >= 1 /\ Len(g) = m
  BY DEF Prefixed, Lists
<1>2. g[1] \notin {<<"+">>, <<"#">>}
  BY PrefixedHas
<1>3. ASSUME NEW w \in {"+", "#"}, Has(f[1], w) PROVE FALSE
  <2>1. PICK k \in 1..Len(f[1]) : f[1][k] = w
    BY <1>3 DEF Has
  <2>2. k + 1 \in 1..Len(g[1]) /\ g[1][k + 1] = w
    BY <2>1, PrefixedHas
  <2>3. Has(g[1], w)
    BY <2>2 DEF Has
  <2>4. 1 \in 1..Len(g)
    BY <1>1
  <2> QED
    BY <1>2, <2>3, <2>4 DEF WellFormed
<1>4. ~Has(f[1], "+") /\ ~Has(f[1], "#")
  BY <1>3
<1>5. f[1] \notin {<<"+">>, <<"#">>}
  BY <1>4 DEF Has
<1>6. ASSUME NEW n \in 1..m
      PROVE  /\ Has(f[n], "+") => f[n] = <<"+">>
             /\ Has(f[n], "#") => f[n] = <<"#">> /\ n = m
  <2>1. CASE n = 1
    BY <1>4, <2>1
  <2>2. CASE n # 1
    <3>1. g[n] = f[n] /\ n \in 1..Len(g)
      BY <1>1, <2>2 DEF Prefixed
    <3> QED
      BY <1>1, <3>1 DEF WellFormed
  <2> QED
    BY <2>1, <2>2
<1> QED
  BY <1>1, <1>2, <1>4, <1>5, <1>6 DEF WellFormed

(* A wildcard is alone in its level, and "#" in the last one.              *)
LEMMA WildcardIsAlone ==
    ASSUME NEW C, NEW c \in {"+", "#"}, NEW f, NEW g, Prefixed(C, c, f, g), WellFormed(g)
    PROVE  /\ f[1] = <<>> /\ g[1] = <<c>>
           /\ c = "#" => Len(f) = 1
<1>1. PICK m \in Nat : m = Len(f) /\ m >= 1 /\ Len(g) = m
  BY DEF Prefixed, Lists
<1>2. Len(g[1]) \in Nat /\ Len(g[1]) >= 1 /\ g[1][1] = c /\ f[1] \in Seq(C) /\ Len(g[1]) = Len(f[1]) + 1
  BY PrefixedHas
<1>3. Has(g[1], c)
  BY <1>2 DEF Has
<1>4. 1 \in 1..Len(g)
  BY <1>1
<1>5. g[1] = <<c>> /\ (c = "#" => 1 = Len(g))
  BY <1>3, <1>4 DEF WellFormed
<1>6. Len(f[1]) = 0
  BY <1>2, <1>5
<1> QED
  BY <1>1, <1>2, <1>5, <1>6

-----------------------------------------------------------------------------
(* Two empty levels at the end.                                            *)

LEMMA EndsBehind ==
    ASSUME NEW C, NEW a, NEW f, NEW g, Headed(C, a, f, g)
    PROVE  /\ EndsEmpty(f) => EndsEmpty(g)
           /\ a = <<>> /\ Len(f) = 1 /\ f[1] = <<>> => EndsEmpty(g)
<1>1. PICK m \in Nat : m = Len(f) /\ m >= 1 /\ Len(g) = m + 1 /\ g[1] = a
  BY DEF Headed, Lists
<1>2. ASSUME EndsEmpty(f) PROVE EndsEmpty(g)
  <2>1. m >= 2 /\ f[m] = <<>> /\ f[m - 1] = <<>>
    BY <1>1, <1>2 DEF EndsEmpty
  <2>2. g[m + 1] = f[m]
    BY <1>1 DEF Headed
  <2>3. PICK j \in Nat : j = m - 1 /\ 1 <= j /\ j <= m /\ j + 1 = m
    BY <2>1
  <2>4. g[j + 1] = f[j]
    BY <1>1, <2>3 DEF Headed
  <2>5. m + 1 >= 2 /\ m + 1 - 1 = m
    BY <1>1
  <2> QED
    BY <1>1, <2>1, <2>2, <2>3, <2>4, <2>5 DEF EndsEmpty
<1>3. ASSUME a = <<>>, m = 1, f[1] = <<>> PROVE EndsEmpty(g)
  <2>1. g[1 + 1] = f[1]
    BY <1>1, <1>3 DEF Headed
  <2> QED
    BY <1>1, <1>3, <2>1 DEF EndsEmpty
<1> QED
  BY <1>1, <1>2, <1>3

LEMMA EndsWithPrefix ==
    ASSUME NEW C, NEW c, NEW f, NEW g, Prefixed(C, c, f, g), f[1] # <<>>, EndsEmpty(f)
    PROVE  EndsEmpty(g)
<1>1. PICK m \in Nat : m = Len(f) /\ m >= 2 /\ Len(g) = m /\ f[m] = <<>> /\ f[m - 1] = <<>>
  <2>1. PICK m \in Nat : m = Len(f) /\ Len(g) = m
    BY DEF Prefixed, Lists
  <2> QED
    BY <2>1 DEF EndsEmpty
<1>2. m - 1 \in Nat /\ m - 1 # 1
  BY <1>1
<1>3. g[m] = f[m] /\ g[m - 1] = f[m - 1]
  BY <1>1, <1>2 DEF Prefixed
<1> QED
  BY <1>1, <1>3 DEF EndsEmpty

-----------------------------------------------------------------------------
(* The recursive definition of Levels: from[k], of the levels of what      *)
(* begins at the k-th character.                                           *)

LevelsFrom(s, first, from) ==
    from = [k \in first..(Len(s) + 1) |->
            IF k > Len(s) THEN <<<<>>>>
            ELSE IF s[k] = "/" THEN <<<<>>>> \o from[k + 1]
            ELSE [from[k + 1] EXCEPT ![1] = <<s[k]>> \o @]]

LEMMA LevelsExist ==
    ASSUME NEW C, NEW s \in Seq(C)
    PROVE  \E from : LevelsFrom(s, 1, from)
<1> DEFINE N == Len(s)
           Bad == {m \in Nat : m <= N /\ ~ \E from : LevelsFrom(s, N + 1 - m, from)}
<1>0. N \in Nat /\ N + 1 - N = 1
  OBVIOUS
<1>1. SUFFICES ASSUME N \in Bad PROVE FALSE
  BY <1>0
<1>2. PICK m \in Bad : \A y \in Bad : ~(<<y, m>> \in OpToRel(<, Nat))
  BY <1>1, NatLessThanWellFounded, WFMin
<1>3. m \in Nat /\ m <= N /\ ~ \E from : LevelsFrom(s, N + 1 - m, from)
  BY <1>2
<1>4. PICK p \in Nat : p = N + 1 - m /\ 1 <= p /\ p <= N + 1
  BY <1>0, <1>3
<1>5. CASE m = 0
  <2>1. PICK f : f = [k \in (N + 1)..(N + 1) |-> <<<<>>>>]
    OBVIOUS
  <2>2. p = N + 1
    BY <1>4, <1>5
  <2>3. \A k \in (N + 1)..(N + 1) : k > N
    BY <1>0
  <2>4. LevelsFrom(s, N + 1, f)
    BY <2>1, <2>3 DEF LevelsFrom
  <2> QED
    BY <1>3, <1>4, <2>2, <2>4
<1>6. CASE m # 0
  <2>1. PICK j \in Nat : m = j + 1 /\ j <= N
    <3>1. m - 1 \in Nat /\ m = (m - 1) + 1 /\ m - 1 <= N
      BY <1>0, <1>3, <1>6
    <3> QED
      BY <3>1
  <2>2. j \notin Bad
    <3>1. <<j, m>> \in OpToRel(<, Nat)
      BY <1>3, <2>1 DEF OpToRel
    <3> QED
      BY <1>2, <3>1
  <2>3. N + 1 - j = p + 1 /\ p <= N
    BY <1>0, <1>4, <2>1
  <2>4. PICK f : LevelsFrom(s, p + 1, f)
    BY <2>1, <2>2, <2>3
  <2> DEFINE E(from, k) == IF k > N THEN <<<<>>>>
                           ELSE IF s[k] = "/" THEN <<<<>>>> \o from[k + 1]
                           ELSE [from[k + 1] EXCEPT ![1] = <<s[k]>> \o @]
  <2>5. PICK g : g = [k \in p..(N + 1) |-> IF k = p THEN E(f, p) ELSE f[k]]
    OBVIOUS
  <2>6. f = [k \in (p + 1)..(N + 1) |-> E(f, k)]
    BY <2>4 DEF LevelsFrom
  <2>7. \A k \in (p + 1)..(N + 1) : g[k] = f[k]
    <3>1. \A k \in (p + 1)..(N + 1) : k \in p..(N + 1) /\ k # p
      BY <1>0, <1>4
    <3> QED
      BY <2>5, <3>1
  <2>8. ASSUME NEW k \in p..(N + 1) PROVE g[k] = E(g, k)
    <3>1. g[k] = E(f, k)
      <4>1. CASE k = p
        BY <2>5, <4>1
      <4>2. CASE k # p
        <5>1. k \in (p + 1)..(N + 1)
          BY <1>0, <1>4, <4>2
        <5> QED
          BY <2>6, <2>7, <5>1
      <4> QED
        BY <4>1, <4>2
    <3>2. CASE k > N
      BY <3>1, <3>2
    <3>3. CASE ~(k > N)
      <4>1. k + 1 \in (p + 1)..(N + 1)
        BY <1>0, <1>4, <3>3
      <4>2. g[k + 1] = f[k + 1]
        BY <2>7, <4>1
      <4> QED
        BY <3>1, <4>2
    <3> QED
      BY <3>2, <3>3
  <2>9. LevelsFrom(s, p, g)
    <3>1. g = [k \in p..(N + 1) |-> E(g, k)]
      <4>1. g = [k \in p..(N + 1) |-> g[k]]
        BY <2>5
      <4> HIDE DEF E
      <4> QED
        BY <2>8, <4>1
    <3> QED
      BY <3>1 DEF LevelsFrom
  <2> QED
    BY <1>3, <1>4, <2>9
<1> QED
  BY <1>5, <1>6
(* The levels of what begins at each character.                            *)
LevelsAre(C, s, from) ==
    /\ \A k \in 1..(Len(s) + 1) : from[k] \in Lists(C)
    /\ Len(from[Len(s) + 1]) = 1 /\ from[Len(s) + 1][1] = <<>>
    /\ \A k \in 1..Len(s) : IF s[k] = "/" THEN Headed(C, <<>>, from[k + 1], from[k])
                            ELSE Prefixed(C, s[k], from[k + 1], from[k])

LEMMA LevelsFromIs ==
    ASSUME NEW C, NEW s \in Seq(C), NEW from, LevelsFrom(s, 1, from)
    PROVE  LevelsAre(C, s, from)
<1>1. PICK N \in Nat : N = Len(s)
  OBVIOUS
<1>2. from[N + 1] = <<<<>>>>
  <2>1. N + 1 \in 1..(N + 1) /\ N + 1 > N
    BY <1>1
  <2> QED
    BY <1>1, <2>1 DEF LevelsFrom
<1>3. ASSUME NEW k \in 1..N
      PROVE  from[k] = IF s[k] = "/" THEN <<<<>>>> \o from[k + 1]
                       ELSE [from[k + 1] EXCEPT ![1] = <<s[k]>> \o @]
  <2>1. k \in 1..(N + 1) /\ ~(k > N)
    BY <1>1
  <2> QED
    BY <1>1, <2>1 DEF LevelsFrom
<1>4. <<>> \in Seq(C) /\ <<<<>>>> \in Lists(C)
  BY DEF Lists
<1>5. ASSUME NEW k \in 1..N, from[k + 1] \in Lists(C)
      PROVE  IF s[k] = "/" THEN Headed(C, <<>>, from[k + 1], from[k])
             ELSE Prefixed(C, s[k], from[k + 1], from[k])
  <2>1. s[k] \in C
    BY <1>1
  <2>2. CASE s[k] = "/"
    <3>1. from[k] = <<<<>>>> \o from[k + 1]
      BY <1>3, <2>2
    <3>2. Headed(C, <<>>, from[k + 1], <<<<>>>> \o from[k + 1])
      BY <1>4, <1>5, HeadedIs
    <3> QED
      BY <2>2, <3>1, <3>2
  <2>3. CASE s[k] # "/"
    <3>1. from[k] = [from[k + 1] EXCEPT ![1] = <<s[k]>> \o @]
      BY <1>3, <2>3
    <3>2. Prefixed(C, s[k], from[k + 1], [from[k + 1] EXCEPT ![1] = <<s[k]>> \o @])
      BY <1>5, <2>1, PrefixedIs
    <3> QED
      BY <2>3, <3>1, <3>2
  <2> QED
    BY <2>2, <2>3
<1>6. \A k \in 1..(N + 1) : from[k] \in Lists(C)
  <2> DEFINE Bad == {m \in Nat : m <= N /\ from[N + 1 - m] \notin Lists(C)}
  <2>1. SUFFICES ASSUME NEW i \in Bad PROVE FALSE
    <3>1. ASSUME NEW k \in 1..(N + 1) PROVE from[k] \in Lists(C)
      <4>1. N + 1 - k \in Nat /\ N + 1 - k <= N /\ N + 1 - (N + 1 - k) = k
        BY <1>1
      <4> QED
        BY <2>1, <4>1
    <3> QED
      BY <3>1
  <2>2. PICK m \in Bad : \A y \in Bad : ~(<<y, m>> \in OpToRel(<, Nat))
    BY <2>1, NatLessThanWellFounded, WFMin
  <2>3. m \in Nat /\ m <= N /\ from[N + 1 - m] \notin Lists(C) /\ m # 0
    <3>1. from[N + 1] \in Lists(C) /\ N + 1 - 0 = N + 1
      BY <1>2, <1>4
    <3> QED
      BY <2>2, <3>1
  <2>4. PICK j \in Nat : j = m - 1 /\ j <= N /\ j < m
    BY <2>3
  <2>5. j \notin Bad
    <3>1. <<j, m>> \in OpToRel(<, Nat)
      BY <2>3, <2>4 DEF OpToRel
    <3> QED
      BY <2>2, <3>1
  <2>6. PICK k \in 1..N : k = N + 1 - m /\ k + 1 = N + 1 - j
    BY <2>3, <2>4
  <2>7. from[k + 1] \in Lists(C)
    BY <2>4, <2>5, <2>6
  <2>8. from[k] \in Lists(C)
    BY <1>5, <2>7 DEF Headed, Prefixed
  <2> QED
    BY <2>3, <2>6, <2>8
<1>7. ASSUME NEW k \in 1..N
      PROVE  IF s[k] = "/" THEN Headed(C, <<>>, from[k + 1], from[k])
             ELSE Prefixed(C, s[k], from[k + 1], from[k])
  <2>1. k + 1 \in 1..(N + 1)
    BY <1>1
  <2> QED
    BY <1>5, <1>6, <2>1
<1>8. Len(from[N + 1]) = 1 /\ from[N + 1][1] = <<>>
  BY <1>2
<1> QED
  BY <1>1, <1>6, <1>7, <1>8 DEF LevelsAre

LEMMA LevelsIs ==
    ASSUME NEW C, NEW s \in Seq(C)
    PROVE  \E from : LevelsAre(C, s, from) /\ Levels(s) = from[1]
<1>1. PICK from : from = CHOOSE g : LevelsFrom(s, 1, g)
  OBVIOUS
<1>2. LevelsFrom(s, 1, from)
  BY <1>1, LevelsExist
<1>3. Levels(s) = from[1]
  BY <1>1 DEF Levels, LevelsFrom
<1> QED
  BY <1>2, <1>3, LevelsFromIs

(* The first level is empty where a level ends, and is the only one at the *)
(* end.                                                                    *)
LEMMA LevelsAt ==
    ASSUME NEW C, NEW s \in Seq(C), NEW from, LevelsAre(C, s, from), NEW k \in 1..(Len(s) + 1)
    PROVE  /\ from[k] \in Lists(C)
           /\ from[k][1] = <<>> <=> CharAt(s, k) = "/" \/ k = Len(s) + 1
           /\ k = Len(s) + 1 => Len(from[k]) = 1
           /\ k # Len(s) + 1 => from[k][1] # <<>> \/ Len(from[k]) > 1
           /\ from[k][1] # <<>> => from[k][1][1] = s[k]
           /\ k <= Len(s) => CharAt(s, k) = s[k] /\ s[k] \in C
           /\ k = Len(s) + 1 => CharAt(s, k) = NUL
<1>1. PICK N \in Nat : N = Len(s)
  OBVIOUS
<1>2. from[k] \in Lists(C)
  BY DEF LevelsAre
<1>3. CASE k = N + 1
  <2>1. CharAt(s, k) = NUL
    BY <1>1, <1>3 DEF CharAt
  <2>2. Len(from[k]) = 1 /\ from[k][1] = <<>>
    BY <1>1, <1>3 DEF LevelsAre
  <2>3. ~(k <= N)
    BY <1>1, <1>3
  <2> QED
    BY <1>1, <1>2, <1>3, <2>1, <2>2, <2>3
<1>4. CASE k # N + 1
  <2>1. k \in 1..N /\ k <= N
    BY <1>1, <1>4
  <2>2. CharAt(s, k) = s[k] /\ s[k] \in C
    BY <1>1, <2>1 DEF CharAt
  <2>3. CASE s[k] = "/"
    <3>1. Headed(C, <<>>, from[k + 1], from[k])
      BY <1>1, <2>1, <2>3 DEF LevelsAre
    <3>2. from[k][1] = <<>> /\ Len(from[k]) > 1
      BY <3>1 DEF Headed, Lists
    <3> QED
      BY <1>1, <1>2, <1>4, <2>2, <2>3, <3>2
  <2>4. CASE s[k] # "/"
    <3>1. Prefixed(C, s[k], from[k + 1], from[k])
      BY <1>1, <2>1, <2>4 DEF LevelsAre
    <3>2. from[k][1][1] = s[k] /\ from[k][1] # <<>>
      BY <3>1, PrefixedHas
    <3> QED
      BY <1>1, <1>2, <1>4, <2>2, <2>4, <3>2
  <2> QED
    BY <2>3, <2>4
<1> QED
  BY <1>3, <1>4

(* The steps from one character to the next.                               *)
LEMMA LevelsNext ==
    ASSUME NEW C, NEW s \in Seq(C), NEW from, LevelsAre(C, s, from), NEW k \in 1..Len(s)
    PROVE  /\ CharAt(s, k) = "/" => Headed(C, <<>>, from[k + 1], from[k])
           /\ CharAt(s, k) # "/" => Prefixed(C, CharAt(s, k), from[k + 1], from[k])
<1>1. CharAt(s, k) = s[k]
  BY DEF CharAt
<1> QED
  BY <1>1 DEF LevelsAre
-----------------------------------------------------------------------------
(* EndOfLevel, and the list of levels there.                               *)

LEMMA PrefixHeaded ==
    ASSUME NEW C, NEW c, NEW f, NEW g, Prefixed(C, c, f, g), NEW b, NEW h, Headed(C, b, h, f)
    PROVE  Headed(C, g[1], h, g)
<1>1. PICK m \in Nat : m = Len(h) /\ m >= 1 /\ Len(f) = m + 1 /\ Len(g) = m + 1
  BY DEF Prefixed, Headed, Lists
<1>2. ASSUME NEW n \in Nat, 1 <= n, n <= m PROVE g[n + 1] = h[n]
  <2>1. f[n + 1] = h[n]
    BY <1>1, <1>2 DEF Headed
  <2>2. g[n + 1] = f[n + 1]
    <3>1. n + 1 \in Nat /\ 2 <= n + 1 /\ n + 1 <= Len(f)
      BY <1>1, <1>2
    <3> QED
      BY <3>1 DEF Prefixed
  <2> QED
    BY <2>1, <2>2
<1> QED
  BY <1>1, <1>2 DEF Prefixed, Headed

LEMMA EndOfLevelIs ==
    ASSUME NEW C, NEW s \in Seq(C), NEW p \in 1..(Len(s) + 1), NUL \notin C
    PROVE  /\ EndOfLevel(s, p) \in p..(Len(s) + 1)
           /\ CharAt(s, EndOfLevel(s, p)) \in {"/", NUL}
           /\ \A r \in p..(EndOfLevel(s, p) - 1) : CharAt(s, r) \notin {"/", NUL}
<1>1. PICK N \in Nat : N = Len(s)
  OBVIOUS
<1> DEFINE Stops == {q \in Nat : p <= q /\ q <= N + 1 /\ CharAt(s, q) \in {"/", NUL}}
<1>2. N + 1 \in Stops
  <2>1. CharAt(s, N + 1) = NUL
    BY <1>1 DEF CharAt
  <2> QED
    BY <1>1, <2>1
<1>3. PICK q \in Stops : \A y \in Stops : ~(<<y, q>> \in OpToRel(<, Nat))
  BY <1>2, NatLessThanWellFounded, WFMin
<1>4. q \in p..(N + 1) /\ CharAt(s, q) \in {"/", NUL}
  <2>1. q \in Nat /\ p <= q /\ q <= N + 1 /\ CharAt(s, q) \in {"/", NUL}
    BY <1>3
  <2> QED
    BY <1>1, <2>1
<1>5. ASSUME NEW r \in p..(q - 1) PROVE CharAt(s, r) \notin {"/", NUL}
  <2>1. r \in Nat /\ p <= r /\ r <= N + 1 /\ <<r, q>> \in OpToRel(<, Nat)
    BY <1>1, <1>4 DEF OpToRel
  <2> QED
    BY <1>3, <2>1
<1>6. \E z \in p..(Len(s) + 1) : /\ CharAt(s, z) \in {"/", NUL}
                                 /\ \A r \in p..(z - 1) : CharAt(s, r) \notin {"/", NUL}
  BY <1>1, <1>4, <1>5
<1> QED
  BY <1>6 DEF EndOfLevel

(* What stands from p to the end of its level is the first level there.    *)
LEMMA LevelEnds ==
    ASSUME NEW C, NEW s \in Seq(C), NUL \notin C, NEW from, LevelsAre(C, s, from),
           NEW p \in 1..(Len(s) + 1), NEW q, q = EndOfLevel(s, p)
    PROVE  /\ q \in 1..(Len(s) + 1)
           /\ CharAt(s, q) \in {"/", NUL}
           /\ CharAt(s, q) = "/" => q \in 1..Len(s) /\ \E b : Headed(C, b, from[q + 1], from[p])
           /\ CharAt(s, q) = NUL => Len(from[p]) = 1
<1>1. PICK N \in Nat : N = Len(s)
  OBVIOUS
<1>2. /\ q \in p..(N + 1)
      /\ CharAt(s, q) \in {"/", NUL}
      /\ \A r \in p..(q - 1) : CharAt(s, r) \notin {"/", NUL}
  BY <1>1, EndOfLevelIs
<1>3. q \in Nat /\ p \in Nat /\ 1 <= p /\ p <= q /\ q <= N + 1 /\ q - p \in Nat
  BY <1>1, <1>2
<1>4. CharAt(s, q) = "/" => q <= N
  <2>1. CharAt(s, N + 1) = NUL
    BY <1>1 DEF CharAt
  <2> QED
    BY <1>3, <2>1 DEF NUL
<1>5. CharAt(s, q) = NUL => q = N + 1
  <2>1. SUFFICES ASSUME q # N + 1 PROVE CharAt(s, q) # NUL
    OBVIOUS
  <2>2. q \in 1..N
    BY <1>3, <2>1
  <2>3. CharAt(s, q) = s[q] /\ s[q] \in C
    BY <1>1, <2>2 DEF CharAt
  <2> QED
    BY <2>3
<1> DEFINE Ends(k) == IF CharAt(s, q) = "/" THEN \E b : Headed(C, b, from[q + 1], from[k]) ELSE Len(from[k]) = 1
           Bad == {j \in Nat : j <= q - p /\ ~Ends(q - j)}
<1>6. Ends(q)
  <2>1. CASE CharAt(s, q) = "/"
    <3>1. q \in 1..Len(s)
      BY <1>1, <1>3, <1>4, <2>1
    <3>2. Headed(C, <<>>, from[q + 1], from[q])
      BY <2>1, <3>1, LevelsNext
    <3> QED
      BY <2>1, <3>2
  <2>2. CASE CharAt(s, q) # "/"
    <3>1. q = N + 1
      BY <1>2, <1>5, <2>2
    <3> QED
      BY <1>1, <2>2, <3>1 DEF LevelsAre
  <2> QED
    BY <2>1, <2>2
<1>7. ASSUME NEW k \in p..(q - 1), Ends(k + 1) PROVE Ends(k)
  <2>1. k \in 1..Len(s) /\ CharAt(s, k) # "/"
    BY <1>1, <1>2, <1>3
  <2>2. Prefixed(C, CharAt(s, k), from[k + 1], from[k])
    BY <2>1, LevelsNext
  <2>3. CASE CharAt(s, q) = "/"
    <3>1. PICK b : Headed(C, b, from[q + 1], from[k + 1])
      BY <1>7, <2>3
    <3>2. Headed(C, from[k][1], from[q + 1], from[k])
      BY <2>2, <3>1, PrefixHeaded
    <3> QED
      BY <2>3, <3>2
  <2>4. CASE CharAt(s, q) # "/"
    BY <1>7, <2>2, <2>4 DEF Prefixed
  <2> QED
    BY <2>3, <2>4
<1> HIDE DEF Ends
<1>8. Ends(p)
  <2>1. SUFFICES ASSUME NEW i \in Bad PROVE FALSE
    <3>1. q - p <= q - p /\ q - (q - p) = p
      BY <1>3
    <3> QED
      BY <1>3, <2>1, <3>1
  <2>2. PICK m \in Bad : \A y \in Bad : ~(<<y, m>> \in OpToRel(<, Nat))
    BY <2>1, NatLessThanWellFounded, WFMin
  <2>3. m \in Nat /\ m <= q - p /\ ~Ends(q - m) /\ m # 0
    <3>1. q - 0 = q
      BY <1>3
    <3> QED
      BY <1>6, <2>2, <3>1
  <2>4. PICK j \in Nat : j = m - 1 /\ j <= q - p /\ j < m
    BY <1>3, <2>3
  <2>5. j \notin Bad
    <3>1. <<j, m>> \in OpToRel(<, Nat)
      BY <2>3, <2>4 DEF OpToRel
    <3> QED
      BY <2>2, <3>1
  <2>6. PICK k \in p..(q - 1) : k = q - m /\ k + 1 = q - j
    BY <1>3, <2>3, <2>4
  <2>7. Ends(k + 1)
    BY <2>4, <2>5, <2>6
  <2> QED
    BY <1>7, <2>3, <2>6, <2>7
<1>9. CharAt(s, q) = NUL => CharAt(s, q) # "/"
  BY DEF NUL
<1> QED
  BY <1>1, <1>2, <1>3, <1>4, <1>8, <1>9 DEF Ends

-----------------------------------------------------------------------------
(* The loop.                                                               *)

MatchesFrom(filter, topic, first, matches) ==
    matches = [fp \in first..(Len(filter) + 1) |->
               [tp \in 1..(Len(topic) + 1) |-> Iteration(filter, topic, matches, fp, tp)]]

(* An iteration asks only for what comes behind in the filter.             *)
LEMMA IterationSame ==
    ASSUME NEW C, NEW filter \in Seq(C), NEW topic, NEW fp \in 1..(Len(filter) + 1), NEW tp, NEW m1, NEW m2,
           fp <= Len(filter) => m1[fp + 1] = m2[fp + 1],
           fp + 1 <= Len(filter) => m1[fp + 2] = m2[fp + 2]
    PROVE  Iteration(filter, topic, m1, fp, tp) = Iteration(filter, topic, m2, fp, tp)
<1>1. fp > Len(filter) => CharAt(filter, fp) = NUL
  BY DEF CharAt
<1>2. fp + 1 > Len(filter) => CharAt(filter, fp + 1) = NUL
  BY DEF CharAt
<1>3. CASE CharAt(filter, fp) = NUL
  BY <1>3 DEF Iteration, NUL
<1>4. CASE CharAt(filter, fp) # NUL
  <2>1. m1[fp + 1] = m2[fp + 1]
    BY <1>1, <1>4
  <2>2. CASE CharAt(filter, fp + 1) # NUL
    <3>1. m1[fp + 2] = m2[fp + 2]
      BY <1>2, <2>2
    <3> QED
      BY <2>1, <3>1 DEF Iteration
  <2>3. CASE CharAt(filter, fp + 1) = NUL
    <3>1. CharAt(filter, fp + 1) # "/"
      BY <2>3 DEF NUL
    <3> QED
      BY <2>1, <3>1 DEF Iteration
  <2> QED
    BY <2>2, <2>3
<1> QED
  BY <1>3, <1>4

LEMMA MatcherExists ==
    ASSUME NEW C, NEW filter \in Seq(C), NEW topic
    PROVE  \E matches : MatchesFrom(filter, topic, 1, matches)
<1>0. PICK N \in Nat : N = Len(filter)
  OBVIOUS
<1> DEFINE Bad == {m \in Nat : m <= N + 1 /\ ~ \E f : MatchesFrom(filter, topic, N + 2 - m, f)}
<1>1. SUFFICES ASSUME N + 1 \in Bad PROVE FALSE
  <2>1. N + 1 \in Nat /\ N + 1 <= N + 1 /\ N + 2 - (N + 1) = 1
    BY <1>0
  <2> QED
    BY <1>1, <2>1
<1>2. PICK m \in Bad : \A y \in Bad : ~(<<y, m>> \in OpToRel(<, Nat))
  BY <1>1, NatLessThanWellFounded, WFMin
<1>3. m \in Nat /\ m <= N + 1 /\ ~ \E f : MatchesFrom(filter, topic, N + 2 - m, f)
  BY <1>2
<1>4. PICK p \in Nat : p = N + 2 - m /\ 1 <= p /\ p <= N + 2
  <2>1. N + 2 - m \in Nat /\ 1 <= N + 2 - m /\ N + 2 - m <= N + 2
    BY <1>0, <1>3
  <2> QED
    BY <2>1
<1> DEFINE Row(f, fp) == [tp \in 1..(Len(topic) + 1) |-> Iteration(filter, topic, f, fp, tp)]
<1>5. CASE m = 0
  <2>1. PICK f : f = [fp \in {} |-> {}]
    OBVIOUS
  <2>2. p..(N + 1) = {}
    BY <1>4, <1>5
  <2>3. f = [fp \in p..(N + 1) |-> Row(f, fp)]
    BY <2>1, <2>2
  <2> QED
    BY <1>0, <1>3, <1>4, <2>3 DEF MatchesFrom
<1>6. CASE m # 0
  <2>1. PICK j \in Nat : m = j + 1 /\ j <= N + 1
    <3>1. m - 1 \in Nat /\ m = (m - 1) + 1 /\ m - 1 <= N + 1
      BY <1>0, <1>3, <1>6
    <3> QED
      BY <3>1
  <2>2. j \notin Bad
    <3>1. <<j, m>> \in OpToRel(<, Nat)
      BY <1>3, <2>1 DEF OpToRel
    <3> QED
      BY <1>2, <3>1
  <2>3. N + 2 - j = p + 1 /\ p <= N + 1
    BY <1>0, <1>4, <2>1
  <2>4. PICK f : MatchesFrom(filter, topic, p + 1, f)
    BY <2>1, <2>2, <2>3
  <2>5. PICK g : g = [fp \in p..(N + 1) |-> IF fp = p THEN Row(f, p) ELSE f[fp]]
    OBVIOUS
  <2>6. f = [fp \in (p + 1)..(N + 1) |-> Row(f, fp)]
    BY <1>0, <2>4 DEF MatchesFrom
  <2>7. \A fp \in (p + 1)..(N + 1) : g[fp] = f[fp]
    <3>1. \A fp \in (p + 1)..(N + 1) : fp \in p..(N + 1) /\ fp # p
      BY <1>0, <1>4
    <3> QED
      BY <2>5, <3>1
  <2>8. ASSUME NEW fp \in p..(N + 1) PROVE g[fp] = Row(g, fp)
    <3>1. g[fp] = Row(f, fp)
      <4>1. CASE fp = p
        BY <2>5, <4>1
      <4>2. CASE fp # p
        <5>1. fp \in (p + 1)..(N + 1)
          BY <1>0, <1>4, <4>2
        <5> QED
          BY <2>6, <2>7, <5>1
      <4> QED
        BY <4>1, <4>2
    <3>2. fp <= N => fp + 1 \in (p + 1)..(N + 1)
      BY <1>0, <1>4
    <3>3. fp + 1 <= N => fp + 2 \in (p + 1)..(N + 1)
      BY <1>0, <1>4
    <3>4. fp \in 1..(N + 1)
      BY <1>0, <1>4
    <3>5. \A tp : Iteration(filter, topic, f, fp, tp) = Iteration(filter, topic, g, fp, tp)
      BY <1>0, <2>7, <3>2, <3>3, <3>4, IterationSame
    <3> QED
      BY <3>1, <3>5
  <2>9. g = [fp \in p..(N + 1) |-> Row(g, fp)]
    <3>1. g = [fp \in p..(N + 1) |-> g[fp]]
      BY <2>5
    <3> HIDE DEF Row
    <3> QED
      BY <2>8, <3>1
  <2> QED
    BY <1>0, <1>3, <1>4, <2>9 DEF MatchesFrom
<1> QED
  BY <1>5, <1>6

LEMMA MatcherIs ==
    ASSUME NEW C, NEW filter \in Seq(C), NEW topic \in Seq(C)
    PROVE  \E matches :
              /\ topic_filter_match(filter, topic) = matches[1][1]
              /\ \A fp \in 1..(Len(filter) + 1), tp \in 1..(Len(topic) + 1) :
                    matches[fp][tp] = Iteration(filter, topic, matches, fp, tp)
<1>1. PICK matches : matches = CHOOSE m : MatchesFrom(filter, topic, 1, m)
  OBVIOUS
<1>2. MatchesFrom(filter, topic, 1, matches)
  BY <1>1, MatcherExists
<1>3. topic_filter_match(filter, topic) = matches[1][1]
  BY <1>1 DEF topic_filter_match, MatchesFrom
<1>4. ASSUME NEW fp \in 1..(Len(filter) + 1), NEW tp \in 1..(Len(topic) + 1)
      PROVE  matches[fp][tp] = Iteration(filter, topic, matches, fp, tp)
  <2>1. matches[fp] = [t \in 1..(Len(topic) + 1) |-> Iteration(filter, topic, matches, fp, t)]
    BY <1>2 DEF MatchesFrom
  <2> QED
    BY <2>1
<1> QED
  BY <1>3, <1>4

(* What an iteration does with a character of each kind.                   *)
LEMMA IterationIs ==
    ASSUME NEW filter, NEW topic, NEW matches, NEW fp, NEW tp, NEW f, NEW f1, NEW t, NEW q, NEW t1,
           f = CharAt(filter, fp), f1 = CharAt(filter, fp + 1), t = CharAt(topic, tp),
           q = IF f = "+" THEN EndOfLevel(topic, tp) ELSE tp + 1, t1 = CharAt(topic, q)
    PROVE  LET M == Iteration(filter, topic, matches, fp, tp)
           IN  /\ f = NUL => (M <=> t = NUL)
               /\ f = "#" => (M <=> f1 = NUL)
               /\ f \notin {NUL, "#", "+", t} => ~M
               /\ f \notin {NUL, "#"} /\ f \in {"+", t} =>
                    /\ f1 = "/" /\ t1 = "/" => M = matches[fp + 2][q + 1]
                    /\ ~(f1 = "/" /\ t1 = "/") /\ f1 # NUL /\ t1 # NUL => M = matches[fp + 1][q]
                    /\ f1 = NUL /\ t1 = NUL => M
                    /\ f1 = NUL /\ t1 # NUL => ~M
                    /\ f1 \notin {NUL, "#"} /\ t1 = NUL => ~M
BY DEF Iteration, NUL

-----------------------------------------------------------------------------
(* From every two positions on the loop returns whether the levels match   *)
(* that begin there, if the topic does not end in two empty ones.          *)

Setting(C, filter, topic, F, T, matches) ==
    /\ filter \in Seq(C) /\ topic \in Seq(C) /\ NUL \notin C
    /\ LevelsAre(C, filter, F) /\ LevelsAre(C, topic, T)
    /\ \A fp \in 1..(Len(filter) + 1), tp \in 1..(Len(topic) + 1) :
          matches[fp][tp] = Iteration(filter, topic, matches, fp, tp)

Agrees(F, T, matches, fp, tp) ==
    WellFormed(F[fp]) /\ ~EndsEmpty(T[tp]) => (matches[fp][tp] <=> LevelsMatch(F[fp], T[tp]))

(* Nothing is left of one of the two.                                      *)
LEMMA BothEnd ==
    ASSUME NEW C, NEW filter \in Seq(C), NEW topic \in Seq(C), NEW F, NEW T,
           LevelsAre(C, filter, F), LevelsAre(C, topic, T)
    PROVE  /\ \A tp \in 1..(Len(topic) + 1) : LevelsMatch(F[Len(filter) + 1], T[tp]) <=> tp = Len(topic) + 1
           /\ \A fp \in 1..(Len(filter) + 1) : F[fp][1] \notin {<<"+">>, <<"#">>} =>
                 (LevelsMatch(F[fp], T[Len(topic) + 1]) <=> fp = Len(filter) + 1)
<1>1. PICK N \in Nat, M \in Nat : N = Len(filter) /\ M = Len(topic)
  OBVIOUS
<1>2. N + 1 \in 1..(N + 1) /\ M + 1 \in 1..(M + 1)
  BY <1>1
<1>3. F[N + 1] \in Lists(C) /\ Len(F[N + 1]) = 1 /\ F[N + 1][1] = <<>>
  BY <1>1, <1>2, LevelsAt
<1>4. T[M + 1] \in Lists(C) /\ Len(T[M + 1]) = 1 /\ T[M + 1][1] = <<>>
  BY <1>1, <1>2, LevelsAt
<1>5. ASSUME NEW tp \in 1..(M + 1) PROVE LevelsMatch(F[N + 1], T[tp]) <=> tp = M + 1
  <2>1. T[tp] \in Lists(C)
    BY <1>1, LevelsAt
  <2>2. CASE tp = M + 1
    BY <1>3, <1>4, <2>2, LastMatch
  <2>3. CASE tp # M + 1 /\ T[tp][1] # <<>>
    <3>1. F[N + 1][1] \notin {<<"+">>, <<"#">>, T[tp][1]}
      BY <1>3, <2>3
    <3> QED
      BY <1>3, <2>1, <2>3, <3>1, FirstMatch
  <2>4. CASE tp # M + 1 /\ T[tp][1] = <<>>
    <3>1. Len(T[tp]) > 1
      BY <1>1, <2>4, LevelsAt
    <3>2. F[N + 1][1] # <<"#">>
      BY <1>3
    <3>3. ~LevelsMatch(F[N + 1], T[tp])
      BY <1>3, <2>1, <3>1, <3>2, LastMatch
    <3> QED
      BY <2>4, <3>3
  <2> QED
    BY <2>2, <2>3, <2>4
<1>6. ASSUME NEW fp \in 1..(N + 1), F[fp][1] \notin {<<"+">>, <<"#">>}
      PROVE  LevelsMatch(F[fp], T[M + 1]) <=> fp = N + 1
  <2>1. F[fp] \in Lists(C)
    BY <1>1, LevelsAt
  <2>2. CASE fp = N + 1
    BY <1>3, <1>4, <2>2, LastMatch
  <2>3. CASE fp # N + 1 /\ F[fp][1] # <<>>
    <3>1. F[fp][1] \notin {<<"+">>, <<"#">>, T[M + 1][1]}
      BY <1>4, <1>6, <2>3
    <3> QED
      BY <1>4, <2>1, <2>3, <3>1, FirstMatch
  <2>4. CASE fp # N + 1 /\ F[fp][1] = <<>>
    <3>1. Len(F[fp]) > 1
      BY <1>1, <2>4, LevelsAt
    <3> QED
      BY <1>4, <2>1, <2>4, <3>1, LastMatch
  <2> QED
    BY <2>2, <2>3, <2>4
<1> QED
  BY <1>1, <1>5, <1>6

LEMMA FilterEnds ==
    ASSUME NEW C, NEW filter, NEW topic, NEW F, NEW T, NEW matches, Setting(C, filter, topic, F, T, matches),
           NEW tp \in 1..(Len(topic) + 1)
    PROVE  Agrees(F, T, matches, Len(filter) + 1, tp)
<1> USE DEF Setting
<1>1. Len(filter) + 1 \in 1..(Len(filter) + 1)
  OBVIOUS
<1>2. CharAt(filter, Len(filter) + 1) = NUL
  BY <1>1, LevelsAt
<1>3. CharAt(topic, tp) = NUL <=> tp = Len(topic) + 1
  <2>1. tp <= Len(topic) \/ tp = Len(topic) + 1
    OBVIOUS
  <2>2. tp <= Len(topic) => CharAt(topic, tp) \in C /\ tp # Len(topic) + 1
    BY LevelsAt
  <2>3. tp = Len(topic) + 1 => CharAt(topic, tp) = NUL
    BY LevelsAt
  <2> QED
    BY <2>1, <2>2, <2>3
<1>4. Iteration(filter, topic, matches, Len(filter) + 1, tp) <=> CharAt(topic, tp) = NUL
  BY <1>2, IterationIs
<1>5. matches[Len(filter) + 1][tp] = Iteration(filter, topic, matches, Len(filter) + 1, tp)
  BY <1>1
<1>6. LevelsMatch(F[Len(filter) + 1], T[tp]) <=> tp = Len(topic) + 1
  BY BothEnd
<1> QED
  BY <1>3, <1>4, <1>5, <1>6 DEF Agrees

(* "#" matches all levels that are left.                                   *)
LEMMA HashMatches ==
    ASSUME NEW C, NEW filter, NEW topic, NEW F, NEW T, NEW matches, Setting(C, filter, topic, F, T, matches),
           NEW fp \in 1..Len(filter), NEW tp \in 1..(Len(topic) + 1), CharAt(filter, fp) = "#"
    PROVE  Agrees(F, T, matches, fp, tp)
<1> USE DEF Setting
<1> SUFFICES ASSUME WellFormed(F[fp]) PROVE matches[fp][tp] <=> LevelsMatch(F[fp], T[tp])
  BY DEF Agrees
<1>1. fp \in 1..(Len(filter) + 1) /\ fp + 1 \in 1..(Len(filter) + 1)
  OBVIOUS
<1>2. Prefixed(C, "#", F[fp + 1], F[fp])
  BY LevelsNext
<1>3. F[fp + 1][1] = <<>> /\ F[fp][1] = <<"#">> /\ Len(F[fp + 1]) = 1
  BY <1>2, WildcardIsAlone
<1>4. F[fp] \in Lists(C) /\ Len(F[fp]) = 1
  BY <1>2, <1>3 DEF Prefixed
<1>5. fp + 1 = Len(filter) + 1
  <2>1. ~(F[fp + 1][1] # <<>> \/ Len(F[fp + 1]) > 1)
    BY <1>3
  <2> QED
    BY <1>1, <2>1, LevelsAt
<1>6. CharAt(filter, fp + 1) = NUL
  BY <1>1, <1>5, LevelsAt
<1>7. Iteration(filter, topic, matches, fp, tp)
  BY <1>6, IterationIs
<1>8. matches[fp][tp]
  BY <1>1, <1>7
<1>9. T[tp] \in Lists(C)
  BY LevelsAt
<1>10. Len(T[tp]) = 1 \/ Len(T[tp]) > 1
  BY <1>9, OneOrMore
<1>11. LevelsMatch(F[fp], T[tp])
  BY <1>3, <1>4, <1>9, <1>10, LastMatch
<1> QED
  BY <1>8, <1>11

(* "+" matches the level that begins here.                                 *)
LEMMA PlusMatches ==
    ASSUME NEW C, NEW filter, NEW topic, NEW F, NEW T, NEW matches, Setting(C, filter, topic, F, T, matches),
           NEW fp \in 1..Len(filter), NEW tp \in 1..(Len(topic) + 1), CharAt(filter, fp) = "+",
           fp + 1 <= Len(filter) => \A tq \in 1..(Len(topic) + 1) : Agrees(F, T, matches, fp + 2, tq)
    PROVE  Agrees(F, T, matches, fp, tp)
<1> USE DEF Setting
<1> SUFFICES ASSUME WellFormed(F[fp]), ~EndsEmpty(T[tp]) PROVE matches[fp][tp] <=> LevelsMatch(F[fp], T[tp])
  BY DEF Agrees
<1>1. fp \in 1..(Len(filter) + 1) /\ fp + 1 \in 1..(Len(filter) + 1) /\ fp + 1 + 1 = fp + 2
  OBVIOUS
<1>2. Prefixed(C, "+", F[fp + 1], F[fp])
  BY LevelsNext
<1>3. F[fp + 1][1] = <<>> /\ F[fp][1] = <<"+">>
  BY <1>2, WildcardIsAlone
<1>4. PICK q : q = EndOfLevel(topic, tp)
  OBVIOUS
<1>5. /\ q \in 1..(Len(topic) + 1)
      /\ CharAt(topic, q) \in {"/", NUL}
      /\ CharAt(topic, q) = "/" => q \in 1..Len(topic) /\ \E b : Headed(C, b, T[q + 1], T[tp])
      /\ CharAt(topic, q) = NUL => Len(T[tp]) = 1
  <2>1. topic \in Seq(C) /\ NUL \notin C /\ LevelsAre(C, topic, T)
    OBVIOUS
  <2> HIDE DEF Setting
  <2> QED
    BY <1>4, <2>1, LevelEnds
<1>6. matches[fp][tp] = Iteration(filter, topic, matches, fp, tp)
  BY <1>1
<1>7. F[fp] \in Lists(C) /\ T[tp] \in Lists(C)
  BY <1>1, LevelsAt
<1>8. "+" \notin {NUL, "#"} /\ "/" # "#" /\ NUL # "#" /\ NUL # "/"
  BY DEF NUL
<1>9. CASE CharAt(filter, fp + 1) = "/"
  <2>1. fp + 1 <= Len(filter)
    <3>1. fp + 1 # Len(filter) + 1
      BY <1>1, <1>8, <1>9, LevelsAt
    <3> QED
      BY <1>1, <3>1
  <2>2. Headed(C, <<>>, F[fp + 2], F[fp + 1])
    <3>1. fp + 1 \in 1..Len(filter)
      BY <2>1
    <3> QED
      BY <1>1, <1>9, <3>1, LevelsNext
  <2>3. Headed(C, <<"+">>, F[fp + 2], F[fp])
    BY <1>2, <1>3, <2>2, PrefixHeaded
  <2>4. CASE CharAt(topic, q) = "/"
    <3>1. PICK b : Headed(C, b, T[q + 1], T[tp])
      BY <1>5, <2>4
    <3>2. q + 1 \in 1..(Len(topic) + 1)
      BY <1>5, <2>4
    <3>3. WellFormed(F[fp + 2]) /\ ~EndsEmpty(T[q + 1])
      BY <2>3, <3>1, RestIsWellFormed, EndsBehind
    <3>4. matches[fp + 2][q + 1] <=> LevelsMatch(F[fp + 2], T[q + 1])
      BY <2>1, <3>2, <3>3 DEF Agrees
    <3>5. LevelsMatch(F[fp], T[tp]) <=> LevelsMatch(F[fp + 2], T[q + 1])
      BY <2>3, <3>1, HeadedMatch
    <3>6. Iteration(filter, topic, matches, fp, tp) = matches[fp + 2][q + 1]
      BY <1>4, <1>8, <1>9, <2>4, IterationIs
    <3> QED
      BY <1>6, <3>4, <3>5, <3>6
  <2>5. CASE CharAt(topic, q) = NUL
    <3>1. ~Iteration(filter, topic, matches, fp, tp)
      BY <1>4, <1>8, <1>9, <2>5, IterationIs
    <3>2. Len(F[fp]) > 1
      BY <2>3 DEF Headed, Lists
    <3>3. ~LevelsMatch(F[fp], T[tp])
      BY <1>5, <1>7, <2>5, <3>2, LastMatch
    <3> QED
      BY <1>6, <3>1, <3>3
  <2> QED
    BY <1>5, <2>4, <2>5
<1>10. CASE CharAt(filter, fp + 1) # "/"
  <2>1. fp + 1 = Len(filter) + 1
    BY <1>1, <1>3, <1>10, LevelsAt
  <2>2. CharAt(filter, fp + 1) = NUL /\ Len(F[fp + 1]) = 1
    BY <1>1, <2>1, LevelsAt
  <2>3. Len(F[fp]) = 1
    BY <1>2, <2>2 DEF Prefixed
  <2>4. /\ CharAt(topic, q) = "/" => ~Iteration(filter, topic, matches, fp, tp)
        /\ CharAt(topic, q) = NUL => Iteration(filter, topic, matches, fp, tp)
    <3>1. CharAt(topic, q) # NUL => ~Iteration(filter, topic, matches, fp, tp)
      BY <1>4, <1>8, <2>2, IterationIs
    <3>2. ASSUME CharAt(topic, q) = NUL PROVE Iteration(filter, topic, matches, fp, tp)
      <4>1. CharAt(filter, fp) \notin {NUL, "#"} /\ CharAt(filter, fp) \in {"+", CharAt(topic, tp)}
        BY <1>8
      <4> QED
        BY <1>4, <2>2, <3>2, <4>1, IterationIs
    <3> QED
      BY <1>8, <3>1, <3>2
  <2>5. CASE CharAt(topic, q) = "/"
    <3>1. Len(T[tp]) > 1
      BY <1>5, <2>5 DEF Headed, Lists
    <3>2. ~LevelsMatch(F[fp], T[tp])
      BY <1>3, <1>7, <2>3, <3>1, LastMatch
    <3> QED
      BY <1>6, <2>4, <2>5, <3>2
  <2>6. CASE CharAt(topic, q) = NUL
    <3>1. LevelsMatch(F[fp], T[tp])
      BY <1>3, <1>5, <1>7, <2>3, <2>6, LastMatch
    <3> QED
      BY <1>6, <2>4, <2>6, <3>1
  <2> QED
    BY <1>5, <2>5, <2>6
<1> QED
  BY <1>9, <1>10

(* Two characters that differ end the comparison.                          *)
LEMMA Mismatch ==
    ASSUME NEW C, NEW filter, NEW topic, NEW F, NEW T, NEW matches, Setting(C, filter, topic, F, T, matches),
           NEW fp \in 1..Len(filter), NEW tp \in 1..(Len(topic) + 1),
           CharAt(filter, fp) \notin {"#", "+", CharAt(topic, tp)}, WellFormed(F[fp])
    PROVE  ~matches[fp][tp] /\ ~LevelsMatch(F[fp], T[tp])
<1> USE DEF Setting
<1>1. fp \in 1..(Len(filter) + 1) /\ fp # Len(filter) + 1
  OBVIOUS
<1>2. CharAt(filter, fp) # NUL
  BY <1>1, LevelsAt
<1>3. matches[fp][tp] = Iteration(filter, topic, matches, fp, tp)
  BY <1>1
<1>4. ~Iteration(filter, topic, matches, fp, tp)
  BY <1>2, IterationIs
<1>5. F[fp] \in Lists(C) /\ T[tp] \in Lists(C)
  BY <1>1, LevelsAt
<1>6. CASE CharAt(filter, fp) = "/"
  <2>1. F[fp][1] = <<>>
    BY <1>1, <1>6, LevelsAt
  <2>3. CASE tp # Len(topic) + 1
    <3>1. T[tp][1] # <<>>
      BY <1>6, <2>3, LevelsAt
    <3>2. F[fp][1] \notin {<<"+">>, <<"#">>, T[tp][1]}
      BY <2>1, <3>1
    <3>3. ~LevelsMatch(F[fp], T[tp])
      BY <1>5, <3>2, FirstMatch
    <3> QED
      BY <1>3, <1>4, <3>3
  <2>4. tp = Len(topic) + 1 => ~LevelsMatch(F[fp], T[tp])
    BY <1>1, <2>1, BothEnd
  <2> QED
    BY <1>3, <1>4, <2>3, <2>4
<1>7. CASE CharAt(filter, fp) # "/"
  <2>1. Prefixed(C, CharAt(filter, fp), F[fp + 1], F[fp])
    BY <1>7, LevelsNext
  <2>2. F[fp][1] \notin {<<"+">>, <<"#">>}
    BY <2>1, LetterIsWellFormed
  <2>3. F[fp][1][1] = CharAt(filter, fp) /\ Len(F[fp][1]) # 0
    <3>1. F[fp + 1][1] \in Seq(C) /\ Len(F[fp][1]) = Len(F[fp + 1][1]) + 1
      BY <2>1, PrefixedHas
    <3>2. F[fp][1][1] = CharAt(filter, fp)
      BY <2>1, PrefixedHas
    <3> QED
      BY <3>1, <3>2
  <2>4. F[fp][1] # T[tp][1]
    <3>1. CASE T[tp][1] = <<>>
      <4>1. Len(T[tp][1]) = 0
        BY <3>1
      <4> QED
        BY <2>3, <4>1
    <3>2. CASE T[tp][1] # <<>>
      <4>1. T[tp][1][1] = topic[tp]
        BY <3>2, LevelsAt
      <4>2. tp # Len(topic) + 1
        BY <3>2, LevelsAt
      <4>3. CharAt(topic, tp) = topic[tp]
        BY <4>2, LevelsAt
      <4> QED
        BY <2>3, <4>1, <4>3
    <3> QED
      BY <3>1, <3>2
  <2>5. ~LevelsMatch(F[fp], T[tp])
    BY <1>5, <2>2, <2>4, FirstMatch
  <2> QED
    BY <1>3, <1>4, <2>5
<1> QED
  BY <1>6, <1>7

(* The same character in both, and no wildcard.                            *)
LEMMA SameCharacter ==
    ASSUME NEW filter, NEW topic, NEW matches, NEW fp, NEW tp \in Nat,
           CharAt(filter, fp) \notin {NUL, "#", "+"}, CharAt(topic, tp) = CharAt(filter, fp),
           NEW f1, NEW t1, f1 = CharAt(filter, fp + 1), t1 = CharAt(topic, tp + 1)
    PROVE  LET M == Iteration(filter, topic, matches, fp, tp)
           IN  /\ f1 = "/" /\ t1 = "/" => M = matches[fp + 2][tp + 2]
               /\ f1 # NUL /\ t1 # NUL /\ (f1 # "/" \/ t1 # "/") => M = matches[fp + 1][tp + 1]
               /\ f1 = NUL => (M <=> t1 = NUL)
               /\ f1 \notin {NUL, "#"} /\ t1 = NUL => ~M
<1>1. PICK f, t, q :
         /\ f = CharAt(filter, fp) /\ t = CharAt(topic, tp)
         /\ q = IF f = "+" THEN EndOfLevel(topic, tp) ELSE tp + 1
  OBVIOUS
<1>2. q = tp + 1 /\ q + 1 = tp + 2
  BY <1>1
<1> QED
  BY <1>1, <1>2, IterationIs

(* A "/" in both ends a level in both.                                     *)
LEMMA SlashMatches ==
    ASSUME NEW C, NEW filter, NEW topic, NEW F, NEW T, NEW matches, Setting(C, filter, topic, F, T, matches),
           NEW fp \in 1..Len(filter), NEW tp \in 1..(Len(topic) + 1),
           CharAt(filter, fp) = "/", CharAt(topic, tp) = "/",
           \A tq \in 1..(Len(topic) + 1) : Agrees(F, T, matches, fp + 1, tq),
           fp + 1 <= Len(filter) => \A tq \in 1..(Len(topic) + 1) : Agrees(F, T, matches, fp + 2, tq)
    PROVE  Agrees(F, T, matches, fp, tp)
<1> USE DEF Setting
<1> SUFFICES ASSUME WellFormed(F[fp]), ~EndsEmpty(T[tp]) PROVE matches[fp][tp] <=> LevelsMatch(F[fp], T[tp])
  BY DEF Agrees
<1>1. fp \in 1..(Len(filter) + 1) /\ fp + 1 \in 1..(Len(filter) + 1) /\ fp + 1 + 1 = fp + 2
  OBVIOUS
<1>2. NUL # "/" /\ "/" \notin {NUL, "#", "+"}
  BY DEF NUL
<1>3. tp \in 1..Len(topic) /\ tp + 1 \in 1..(Len(topic) + 1) /\ tp + 1 + 1 = tp + 2
  <2>1. tp # Len(topic) + 1
    BY <1>2, LevelsAt
  <2> QED
    BY <2>1
<1>4. Headed(C, <<>>, F[fp + 1], F[fp]) /\ Headed(C, <<>>, T[tp + 1], T[tp])
  BY <1>3, LevelsNext
<1>5. LevelsMatch(F[fp], T[tp]) <=> LevelsMatch(F[fp + 1], T[tp + 1])
  BY <1>4, HeadedMatch
<1>6. WellFormed(F[fp + 1]) /\ ~EndsEmpty(T[tp + 1])
  BY <1>4, RestIsWellFormed, EndsBehind
<1>7. tp + 1 # Len(topic) + 1
  <2>1. tp + 1 = Len(topic) + 1 => Len(T[tp + 1]) = 1 /\ T[tp + 1][1] = <<>>
    BY <1>3, LevelsAt
  <2> QED
    BY <1>4, <2>1, EndsBehind
<1>8. CharAt(topic, tp + 1) # NUL
  <2>1. tp + 1 <= Len(topic)
    BY <1>3, <1>7
  <2>2. CharAt(topic, tp + 1) \in C
    BY <1>3, <2>1, LevelsAt
  <2> QED
    BY <2>2
<1>9. matches[fp][tp] = Iteration(filter, topic, matches, fp, tp)
  BY <1>1
<1>10. CASE CharAt(filter, fp + 1) = NUL
  <2>1. fp + 1 = Len(filter) + 1
    BY <1>1, <1>10, LevelsAt
  <2>2. ~LevelsMatch(F[fp + 1], T[tp + 1])
    BY <1>3, <1>7, <2>1, BothEnd
  <2>3. ~Iteration(filter, topic, matches, fp, tp)
    BY <1>2, <1>8, <1>10, SameCharacter
  <2> QED
    BY <1>5, <1>9, <2>2, <2>3
<1>11. CASE CharAt(filter, fp + 1) = "/" /\ CharAt(topic, tp + 1) = "/"
  <2>1. fp + 1 \in 1..Len(filter) /\ fp + 1 <= Len(filter)
    <3>1. fp + 1 # Len(filter) + 1
      BY <1>1, <1>2, <1>11, LevelsAt
    <3> QED
      BY <1>1, <3>1
  <2>2. tp + 1 \in 1..Len(topic) /\ tp + 2 \in 1..(Len(topic) + 1)
    BY <1>3, <1>7
  <2>3. Headed(C, <<>>, F[fp + 2], F[fp + 1]) /\ Headed(C, <<>>, T[tp + 2], T[tp + 1])
    BY <1>1, <1>3, <1>11, <2>1, <2>2, LevelsNext
  <2>4. LevelsMatch(F[fp + 1], T[tp + 1]) <=> LevelsMatch(F[fp + 2], T[tp + 2])
    BY <2>3, HeadedMatch
  <2>5. WellFormed(F[fp + 2]) /\ ~EndsEmpty(T[tp + 2])
    BY <1>6, <2>3, RestIsWellFormed, EndsBehind
  <2>6. matches[fp + 2][tp + 2] <=> LevelsMatch(F[fp + 2], T[tp + 2])
    BY <2>1, <2>2, <2>5 DEF Agrees
  <2>7. Iteration(filter, topic, matches, fp, tp) = matches[fp + 2][tp + 2]
    <3>1. /\ tp \in Nat
          /\ CharAt(filter, fp) \notin {NUL, "#", "+"} /\ CharAt(topic, tp) = CharAt(filter, fp)
      BY <1>2, <1>3
    <3> HIDE DEF Setting
    <3>2. PICK f1, t1 : f1 = CharAt(filter, fp + 1) /\ t1 = CharAt(topic, tp + 1)
      OBVIOUS
    <3>3. f1 = "/" /\ t1 = "/"
      BY <1>11, <3>2
    <3> QED
      BY <3>1, <3>2, <3>3, SameCharacter
  <2> QED
    BY <1>5, <1>9, <2>4, <2>6, <2>7
<1>12. CASE CharAt(filter, fp + 1) # NUL /\ ~(CharAt(filter, fp + 1) = "/" /\ CharAt(topic, tp + 1) = "/")
  <2>1. Iteration(filter, topic, matches, fp, tp) = matches[fp + 1][tp + 1]
    BY SMTT(20), <1>2, <1>8, <1>12, SameCharacter
  <2>2. matches[fp + 1][tp + 1] <=> LevelsMatch(F[fp + 1], T[tp + 1])
    BY <1>3, <1>6 DEF Agrees
  <2> QED
    BY <1>5, <1>9, <2>1, <2>2
<1> QED
  BY <1>10, <1>11, <1>12

(* The same letter in both leaves the rest of the level.                   *)
LEMMA LetterMatches ==
    ASSUME NEW C, NEW filter, NEW topic, NEW F, NEW T, NEW matches, Setting(C, filter, topic, F, T, matches),
           NEW fp \in 1..Len(filter), NEW tp \in 1..(Len(topic) + 1), NEW c,
           c \notin {NUL, "#", "+", "/"}, CharAt(filter, fp) = c, CharAt(topic, tp) = c,
           \A tq \in 1..(Len(topic) + 1) : Agrees(F, T, matches, fp + 1, tq),
           fp + 1 <= Len(filter) => \A tq \in 1..(Len(topic) + 1) : Agrees(F, T, matches, fp + 2, tq)
    PROVE  Agrees(F, T, matches, fp, tp)
<1> USE DEF Setting
<1> SUFFICES ASSUME WellFormed(F[fp]), ~EndsEmpty(T[tp]) PROVE matches[fp][tp] <=> LevelsMatch(F[fp], T[tp])
  BY DEF Agrees
<1>1. fp \in 1..(Len(filter) + 1) /\ fp + 1 \in 1..(Len(filter) + 1) /\ fp + 1 + 1 = fp + 2
  OBVIOUS
<1>2. NUL # "/" /\ "/" \notin {NUL, "#", "+"}
  BY DEF NUL
<1>3. tp \in 1..Len(topic) /\ tp + 1 \in 1..(Len(topic) + 1) /\ tp + 1 + 1 = tp + 2
  <2>1. tp # Len(topic) + 1
    BY LevelsAt
  <2> QED
    BY <2>1
<1>4. Prefixed(C, c, F[fp + 1], F[fp]) /\ Prefixed(C, c, T[tp + 1], T[tp])
  BY <1>3, LevelsNext
<1>5. /\ WellFormed(F[fp + 1])
      /\ ~Has(F[fp + 1][1], "+") /\ ~Has(F[fp + 1][1], "#")
      /\ F[fp + 1][1] \notin {<<"+">>, <<"#">>} /\ F[fp][1] \notin {<<"+">>, <<"#">>}
  BY <1>4, LetterIsWellFormed
<1>6. LevelsMatch(F[fp], T[tp]) <=> LevelsMatch(F[fp + 1], T[tp + 1])
  BY <1>4, <1>5, PrefixedMatch
<1>7. CharAt(filter, fp + 1) \notin {"+", "#"}
  <2>1. SUFFICES ASSUME CharAt(filter, fp + 1) \in {"+", "#"} PROVE FALSE
    OBVIOUS
  <2>2. fp + 1 \in 1..Len(filter)
    <3>1. fp + 1 # Len(filter) + 1
      <4>1. fp + 1 = Len(filter) + 1 => CharAt(filter, fp + 1) = NUL
        BY <1>1, LevelsAt
      <4> QED
        BY <2>1, <4>1 DEF NUL
    <3> QED
      BY <1>1, <3>1
  <2>3. PICK d : d = CharAt(filter, fp + 1)
    OBVIOUS
  <2>4. Prefixed(C, d, F[fp + 2], F[fp + 1])
    <3>1. d # "/"
      BY <2>1, <2>3
    <3>2. filter \in Seq(C) /\ LevelsAre(C, filter, F)
      OBVIOUS
    <3> HIDE DEF Setting
    <3>3. PICK k \in 1..Len(filter) : k = fp + 1 /\ k + 1 = fp + 2
      BY <1>1, <2>2
    <3>4. Prefixed(C, d, F[k + 1], F[k])
      BY <2>3, <3>1, <3>2, <3>3, LevelsNext
    <3> QED
      BY <3>3, <3>4
  <2>5. Has(F[fp + 1][1], d)
    <3>1. /\ F[fp + 2][1] \in Seq(C) /\ Len(F[fp + 1][1]) = Len(F[fp + 2][1]) + 1
          /\ F[fp + 1][1][1] = d
      BY SMTT(20), <2>4, PrefixedHas
    <3>2. 1 \in 1..Len(F[fp + 1][1])
      BY <3>1
    <3> QED
      BY <3>1, <3>2 DEF Has
  <2> QED
    BY <1>5, <2>1, <2>3, <2>5
<1>8. matches[fp][tp] = Iteration(filter, topic, matches, fp, tp)
  BY <1>1
<1>9. CharAt(topic, tp + 1) = NUL <=> tp + 1 = Len(topic) + 1
  <2>1. tp + 1 = Len(topic) + 1 => CharAt(topic, tp + 1) = NUL
    BY <1>3, LevelsAt
  <2>2. tp + 1 # Len(topic) + 1 => tp + 1 <= Len(topic)
    BY <1>3
  <2>3. tp + 1 <= Len(topic) => CharAt(topic, tp + 1) \in C
    BY <1>3, LevelsAt
  <2> QED
    BY <2>1, <2>2, <2>3
<1>10. CharAt(filter, fp + 1) = NUL <=> fp + 1 = Len(filter) + 1
  <2>1. fp + 1 = Len(filter) + 1 => CharAt(filter, fp + 1) = NUL
    BY <1>1, LevelsAt
  <2>2. fp + 1 # Len(filter) + 1 => fp + 1 <= Len(filter)
    BY <1>1
  <2>3. fp + 1 <= Len(filter) => CharAt(filter, fp + 1) \in C
    BY <1>1, LevelsAt
  <2> QED
    BY <2>1, <2>2, <2>3
<1>11. CASE CharAt(filter, fp + 1) = NUL
  <2>1. LevelsMatch(F[fp + 1], T[tp + 1]) <=> tp + 1 = Len(topic) + 1
    BY <1>3, <1>10, <1>11, BothEnd
  <2>2. Iteration(filter, topic, matches, fp, tp) <=> CharAt(topic, tp + 1) = NUL
    BY <1>11, SameCharacter
  <2> QED
    BY <1>6, <1>8, <1>9, <2>1, <2>2
<1>12. CASE CharAt(filter, fp + 1) # NUL /\ CharAt(topic, tp + 1) = NUL
  <2>1. ~LevelsMatch(F[fp + 1], T[tp + 1])
    BY <1>1, <1>5, <1>9, <1>10, <1>12, BothEnd
  <2>2. ~Iteration(filter, topic, matches, fp, tp)
    BY <1>7, <1>12, SameCharacter
  <2> QED
    BY <1>6, <1>8, <2>1, <2>2
<1>13. CASE CharAt(filter, fp + 1) = "/" /\ CharAt(topic, tp + 1) = "/"
  <2>1. fp + 1 \in 1..Len(filter) /\ fp + 1 <= Len(filter)
    BY <1>1, <1>2, <1>10, <1>13
  <2>2. tp + 1 \in 1..Len(topic) /\ tp + 2 \in 1..(Len(topic) + 1)
    BY <1>2, <1>3, <1>9, <1>13
  <2>3. Headed(C, <<>>, F[fp + 2], F[fp + 1]) /\ Headed(C, <<>>, T[tp + 2], T[tp + 1])
    BY <1>1, <1>3, <1>13, <2>1, <2>2, LevelsNext
  <2>4. LevelsMatch(F[fp + 1], T[tp + 1]) <=> LevelsMatch(F[fp + 2], T[tp + 2])
    BY <2>3, HeadedMatch
  <2>5. WellFormed(F[fp + 2])
    BY <1>5, <2>3, RestIsWellFormed
  <2>6. ~EndsEmpty(T[tp + 2])
    BY <1>4, <2>3, PrefixHeaded, EndsBehind
  <2>7. matches[fp + 2][tp + 2] <=> LevelsMatch(F[fp + 2], T[tp + 2])
    BY <2>1, <2>2, <2>5, <2>6 DEF Agrees
  <2>8. Iteration(filter, topic, matches, fp, tp) = matches[fp + 2][tp + 2]
    <3>1. tp \in Nat
      BY <1>3
    <3> HIDE DEF Setting
    <3> QED
      BY <1>13, <3>1, SameCharacter
  <2> QED
    BY <1>6, <1>8, <2>4, <2>7, <2>8
<1>14. CASE /\ CharAt(filter, fp + 1) # NUL /\ CharAt(topic, tp + 1) # NUL
            /\ ~(CharAt(filter, fp + 1) = "/" /\ CharAt(topic, tp + 1) = "/")
  <2>1. Iteration(filter, topic, matches, fp, tp) = matches[fp + 1][tp + 1]
    <3>1. tp \in Nat
      BY <1>3
    <3> HIDE DEF Setting
    <3> QED
      BY <1>14, <3>1, SameCharacter
  <2>2. CASE CharAt(filter, fp + 1) # CharAt(topic, tp + 1)
    <3>1. fp + 1 \in 1..Len(filter)
      BY <1>1, <1>10, <1>14
    <3>2. CharAt(filter, fp + 1) \notin {"#", "+", CharAt(topic, tp + 1)}
      BY <1>7, <2>2
    <3>3. PICK k, l : k = fp + 1 /\ l = tp + 1
      OBVIOUS
    <3>4. ~matches[k][l] /\ ~LevelsMatch(F[k], T[l])
      <4>1. k \in 1..Len(filter) /\ l \in 1..(Len(topic) + 1) /\ WellFormed(F[k])
        BY <1>3, <1>5, <3>1, <3>3
      <4> QED
        BY <3>2, <3>3, <4>1, Mismatch
    <3> QED
      BY <1>6, <1>8, <2>1, <3>3, <3>4
  <2>3. CASE CharAt(filter, fp + 1) = CharAt(topic, tp + 1)
    <3>1. CharAt(topic, tp + 1) # "/" /\ tp + 1 # Len(topic) + 1
      BY <1>9, <1>14, <2>3
    <3>2. T[tp + 1][1] # <<>>
      BY <1>3, <3>1, LevelsAt
    <3>3. ~EndsEmpty(T[tp + 1])
      BY <1>4, <3>2, EndsWithPrefix
    <3>4. matches[fp + 1][tp + 1] <=> LevelsMatch(F[fp + 1], T[tp + 1])
      BY <1>3, <1>5, <3>3 DEF Agrees
    <3> QED
      BY <1>6, <1>8, <2>1, <3>4
  <2> QED
    BY <2>2, <2>3
<1> QED
  BY <1>11, <1>12, <1>13, <1>14

(* One position of the filter, when those behind it are right.             *)
LEMMA PositionMatches ==
    ASSUME NEW C, NEW filter, NEW topic, NEW F, NEW T, NEW matches, Setting(C, filter, topic, F, T, matches),
           NEW fp \in 1..(Len(filter) + 1), NEW tp \in 1..(Len(topic) + 1),
           \A k \in 1..(Len(filter) + 1) :
              k > fp => \A tq \in 1..(Len(topic) + 1) : Agrees(F, T, matches, k, tq)
    PROVE  Agrees(F, T, matches, fp, tp)
<1>1. CASE fp = Len(filter) + 1
  BY <1>1, FilterEnds
<1>2. CASE fp # Len(filter) + 1
  <2>1. filter \in Seq(C)
    BY DEF Setting
  <2>2. fp \in 1..Len(filter)
    BY <1>2, <2>1
  <2>3. \A tq \in 1..(Len(topic) + 1) : Agrees(F, T, matches, fp + 1, tq)
    <3>1. fp + 1 \in 1..(Len(filter) + 1) /\ fp + 1 > fp
      BY <2>1, <2>2
    <3> QED
      BY <3>1
  <2>4. fp + 1 <= Len(filter) => \A tq \in 1..(Len(topic) + 1) : Agrees(F, T, matches, fp + 2, tq)
    <3>1. fp + 1 <= Len(filter) => fp + 2 \in 1..(Len(filter) + 1) /\ fp + 2 > fp
      BY <2>1, <2>2
    <3> QED
      BY <3>1
  <2>5. PICK c : c = CharAt(filter, fp)
    OBVIOUS
  <2>6. c # NUL
    BY <1>2, <2>2, <2>5, LevelsAt DEF Setting
  <2>7. CASE c = "#"
    BY <2>2, <2>5, <2>7, HashMatches
  <2>8. CASE c = "+"
    BY <2>2, <2>4, <2>5, <2>8, PlusMatches
  <2>9. CASE c \notin {"#", "+", CharAt(topic, tp)}
    BY <2>2, <2>5, <2>9, Mismatch DEF Agrees
  <2>10. CASE c = "/" /\ CharAt(topic, tp) = "/"
    BY <2>2, <2>3, <2>4, <2>5, <2>10, SlashMatches
  <2>11. CASE c \notin {"#", "+", "/"} /\ c = CharAt(topic, tp)
    BY <2>2, <2>3, <2>4, <2>5, <2>6, <2>11, LetterMatches
  <2> QED
    BY <2>7, <2>8, <2>9, <2>10, <2>11
<1> QED
  BY <1>1, <1>2

(* topic_filter_match, mqtt_mongoose_broker.c:41-75: what the loop over    *)
(* characters returns for a filter with its wildcards in place, and for a  *)
(* topic that does not end in two empty levels, is what comparing the      *)
(* levels one by one gives, whatever the characters are.                   *)
THEOREM MatcherIsRight ==
    ASSUME NEW C, NUL \notin C, NEW filter \in Seq(C), NEW topic \in Seq(C),
           IsFilter(filter), ~EndsEmpty(Levels(topic))
    PROVE  topic_filter_match(filter, topic) <=> MatchesByLevels(filter, topic)
<1>1. PICK F : LevelsAre(C, filter, F) /\ Levels(filter) = F[1]
  BY LevelsIs
<1>2. PICK T : LevelsAre(C, topic, T) /\ Levels(topic) = T[1]
  BY LevelsIs
<1>3. PICK matches : /\ topic_filter_match(filter, topic) = matches[1][1]
                     /\ \A fp \in 1..(Len(filter) + 1), tp \in 1..(Len(topic) + 1) :
                           matches[fp][tp] = Iteration(filter, topic, matches, fp, tp)
  BY MatcherIs
<1>4. Setting(C, filter, topic, F, T, matches)
  BY <1>1, <1>2, <1>3 DEF Setting
<1>5. PICK N \in Nat : N = Len(filter)
  OBVIOUS
<1> DEFINE Right(k) == \A tp \in 1..(Len(topic) + 1) : Agrees(F, T, matches, k, tp)
           Bad == {m \in Nat : m <= N /\ ~Right(N + 1 - m)}
<1> HIDE DEF Right
<1>6. Bad = {}
  <2>1. SUFFICES ASSUME NEW i \in Bad PROVE FALSE
    OBVIOUS
  <2>2. PICK m \in Bad : \A y \in Bad : ~(<<y, m>> \in OpToRel(<, Nat))
    BY <2>1, NatLessThanWellFounded, WFMin
  <2>3. PICK fp \in 1..(N + 1) : fp = N + 1 - m /\ ~Right(fp)
    <3>1. m \in Nat /\ m <= N /\ ~Right(N + 1 - m)
      BY <2>2
    <3>2. N + 1 - m \in 1..(N + 1)
      BY <1>5, <3>1
    <3> QED
      BY <3>1, <3>2
  <2>4. ASSUME NEW k \in 1..(N + 1), k > fp PROVE Right(k)
    <3>1. PICK j \in Nat : j = N + 1 - k /\ j < m /\ j <= N /\ k = N + 1 - j
      <4>1. m \in Nat /\ m <= N
        BY <2>2
      <4>2. /\ N + 1 - k \in Nat /\ N + 1 - k < m /\ N + 1 - k <= N
            /\ k = N + 1 - (N + 1 - k)
        BY <1>5, <2>3, <2>4, <4>1
      <4> QED
        BY <4>2
    <3>2. <<j, m>> \in OpToRel(<, Nat)
      BY <2>2, <3>1 DEF OpToRel
    <3>3. j \notin Bad
      BY <2>2, <3>2
    <3> QED
      BY <3>1, <3>3
  <2>5. ASSUME NEW tp \in 1..(Len(topic) + 1) PROVE Agrees(F, T, matches, fp, tp)
    <3>1. \A k \in 1..(Len(filter) + 1) :
             k > fp => \A tq \in 1..(Len(topic) + 1) : Agrees(F, T, matches, k, tq)
      BY <1>5, <2>4 DEF Right
    <3> QED
      BY <1>4, <1>5, <3>1, PositionMatches
  <2> QED
    BY <2>3, <2>5 DEF Right
<1>7. Right(1)
  <2>1. N \in Nat /\ N <= N /\ N + 1 - N = 1
    BY <1>5
  <2> QED
    BY <1>6, <2>1
<1>8. Agrees(F, T, matches, 1, 1)
  BY <1>7 DEF Right
<1> QED
  BY <1>1, <1>2, <1>3, <1>8 DEF Agrees, IsFilter, MatchesByLevels
=============================================================================
