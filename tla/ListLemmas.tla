----------------------------- MODULE ListLemmas -----------------------------
(***************************************************************************)
(* Lists of pointers without repetitions: the server appends to agent_list *)
(* and requests_list and removes single entries from them.  Below them,    *)
(* induction over numbers, what a list keeps that is copied without some   *)
(* of its entries, as the agent copies its rule files, and lists joined.   *)
(***************************************************************************)
EXTENDS SequencesExt, SequenceTheorems, WellFoundedInduction, TLAPS

\* Appending what is not there keeps a sequence free of repetitions.
LEMMA AppendNew ==
    ASSUME NEW S, NEW q \in Seq(S), NEW x \in S, IsInjective(q), x \notin Range(q)
    PROVE  /\ Append(q, x) \in Seq(S)
           /\ IsInjective(Append(q, x))
           /\ Range(Append(q, x)) = Range(q) \cup {x}
<1>1. /\ Append(q, x) \in Seq(S)
      /\ DOMAIN Append(q, x) = 1 .. Len(q) + 1
      /\ DOMAIN q = 1 .. Len(q) /\ Len(q) \in Nat
      /\ \A i \in 1 .. Len(q) : Append(q, x)[i] = q[i]
      /\ Append(q, x)[Len(q) + 1] = x
  OBVIOUS
<1>2. IsInjective(Append(q, x))
  <2>1. \A i \in 1 .. Len(q) : q[i] # x
    BY <1>1 DEF Range
  <2> QED BY <1>1, <2>1 DEF IsInjective
<1>3. Range(Append(q, x)) = Range(q) \cup {x}
  BY <1>1 DEF Range
<1> QED BY <1>1, <1>2, <1>3

\* What RemoveAt keeps: every entry but the one at position i, in order.
LEMMA RemoveAtIsShift ==
    ASSUME NEW S, NEW q \in Seq(S), NEW i \in DOMAIN q
    PROVE  /\ RemoveAt(q, i) \in Seq(S)
           /\ Len(RemoveAt(q, i)) = Len(q) - 1
           /\ \A j \in 1 .. Len(q) - 1 :
                 RemoveAt(q, i)[j] = IF j < i THEN q[j] ELSE q[j + 1]
<1> DEFINE a == SubSeq(q, 1, i - 1)
           b == SubSeq(q, i + 1, Len(q))
<1>1. i \in 1 .. Len(q) /\ Len(q) \in Nat
  OBVIOUS
<1>2. a \in Seq(S) /\ Len(a) = i - 1 /\ \A j \in 1 .. i - 1 : a[j] = q[j]
  BY <1>1
<1>3. /\ b \in Seq(S) /\ Len(b) = Len(q) - i
      /\ \A j \in 1 .. Len(q) - i : b[j] = q[i + j]
  BY <1>1
<1> HIDE DEF a, b
<1>4. /\ a \o b \in Seq(S) /\ Len(a \o b) = Len(q) - 1
      /\ \A j \in 1 .. Len(q) - 1 :
            (a \o b)[j] = IF j < i THEN a[j] ELSE b[j - (i - 1)]
  <2>1. /\ a \o b \in Seq(S) /\ Len(a \o b) = Len(a) + Len(b)
        /\ \A j \in 1 .. Len(a) + Len(b) :
              (a \o b)[j] = IF j <= Len(a) THEN a[j] ELSE b[j - Len(a)]
    BY <1>2, <1>3, ConcatProperties
  <2>2. Len(a) + Len(b) = Len(q) - 1
    BY <1>1, <1>2, <1>3
  <2>3. \A j \in 1 .. Len(q) - 1 : j <= Len(a) <=> j < i
    BY <1>1, <1>2
  <2> QED BY <2>1, <2>2, <2>3, <1>2
<1>5. \A j \in 1 .. Len(q) - 1 :
         (a \o b)[j] = IF j < i THEN q[j] ELSE q[j + 1]
  <2> TAKE j \in 1 .. Len(q) - 1
  <2>1. CASE j < i
    BY <2>1, <1>1, <1>2, <1>4
  <2>2. CASE ~(j < i)
    <3>1. j - (i - 1) \in 1 .. Len(q) - i /\ i + (j - (i - 1)) = j + 1
      BY <2>2, <1>1
    <3> QED BY <3>1, <2>2, <1>3, <1>4
  <2> QED BY <2>1, <2>2
<1> QED BY <1>4, <1>5 DEF RemoveAt, a, b

\* A sequence without repetitions loses exactly the entry removed, and keeps
\* its last entry when another one is removed.
LEMMA RemoveAtOfInjective ==
    ASSUME NEW S, NEW q \in Seq(S), IsInjective(q), NEW i \in DOMAIN q
    PROVE  /\ IsInjective(RemoveAt(q, i))
           /\ Range(RemoveAt(q, i)) = Range(q) \ {q[i]}
           /\ Last(q) # q[i] => /\ RemoveAt(q, i) # <<>>
                                /\ Last(RemoveAt(q, i)) = Last(q)
<1> DEFINE r == RemoveAt(q, i)
<1>0. /\ r \in Seq(S) /\ Len(r) = Len(q) - 1
      /\ \A j \in 1 .. Len(q) - 1 : r[j] = IF j < i THEN q[j] ELSE q[j + 1]
  <2> HIDE DEF r
  <2> QED BY RemoveAtIsShift DEF r
<1> HIDE DEF r
<1>1. /\ Len(q) \in Nat /\ DOMAIN q = 1 .. Len(q) /\ i \in 1 .. Len(q)
      /\ DOMAIN r = 1 .. Len(q) - 1 /\ Len(r) = Len(q) - 1
      /\ \A j \in 1 .. Len(q) - 1 : r[j] = IF j < i THEN q[j] ELSE q[j + 1]
  BY <1>0
<1>2. \A x, y \in 1 .. Len(q) : q[x] = q[y] => x = y
  BY <1>1 DEF IsInjective
<1>3. IsInjective(r)
  BY <1>1, <1>2 DEF IsInjective
<1>4. Range(r) \subseteq Range(q) \ {q[i]}
  BY <1>1, <1>2 DEF Range
<1>5. Range(q) \ {q[i]} \subseteq Range(r)
  <2> SUFFICES ASSUME NEW k \in 1 .. Len(q), k # i PROVE q[k] \in Range(r)
    BY <1>1 DEF Range
  <2>1. CASE k < i
    <3>1. k \in DOMAIN r /\ r[k] = q[k]
      BY <1>1, <2>1
    <3> QED BY <3>1 DEF Range
  <2>2. CASE k > i
    <3>1. k - 1 \in DOMAIN r /\ r[k - 1] = q[k]
      BY <1>1, <2>2
    <3> QED BY <3>1 DEF Range
  <2> QED BY <2>1, <2>2, <1>1
<1>6. ASSUME Last(q) # q[i] PROVE r # <<>> /\ Last(r) = Last(q)
  <2>1. i # Len(q)
    BY <1>6, <1>1 DEF Last
  <2> QED BY <2>1, <1>1 DEF Last
<1> QED BY <1>3, <1>4, <1>5, <1>6 DEF r

\* A sequence without repetitions loses its first entry with its head.
LEMMA TailOfInjective ==
    ASSUME NEW S, NEW q \in Seq(S), IsInjective(q), q # <<>>
    PROVE  /\ Tail(q) \in Seq(S) /\ Head(q) \in Range(q)
           /\ IsInjective(Tail(q))
           /\ Range(Tail(q)) = Range(q) \ {Head(q)}
<1>1. /\ Tail(q) \in Seq(S) /\ DOMAIN Tail(q) = 1 .. Len(q) - 1
      /\ DOMAIN q = 1 .. Len(q) /\ Len(q) \in Nat \ {0} /\ Head(q) = q[1]
      /\ \A i \in 1 .. Len(q) - 1 : Tail(q)[i] = q[i + 1]
  OBVIOUS
<1>2. \A i, j \in 1 .. Len(q) : q[i] = q[j] => i = j
  BY <1>1 DEF IsInjective
<1>3. IsInjective(Tail(q))
  BY <1>1, <1>2 DEF IsInjective
<1>4. Range(Tail(q)) \subseteq Range(q) \ {Head(q)}
  BY <1>1, <1>2 DEF Range
<1>5. Range(q) \ {Head(q)} \subseteq Range(Tail(q))
  <2> SUFFICES ASSUME NEW i \in 1 .. Len(q), q[i] # Head(q)
               PROVE  q[i] \in Range(Tail(q))
    BY <1>1 DEF Range
  <2>1. i - 1 \in DOMAIN Tail(q) /\ Tail(q)[i - 1] = q[i]
    BY <1>1
  <2> QED BY <2>1 DEF Range
<1>6. 1 \in DOMAIN q /\ Head(q) = q[1]
  BY <1>1
<1>7. Head(q) \in Range(q)
  BY <1>6 DEF Range
<1> QED BY <1>1, <1>3, <1>4, <1>5, <1>7

-----------------------------------------------------------------------------
(* Division of numbers, and induction over them.                           *)

\* Division with a remainder.
LEMMA Division ==
    ASSUME NEW n \in Nat, NEW d \in Nat \ {0}
    PROVE  n \div d \in Nat /\ n % d \in 0 .. d - 1 /\ n = (n \div d) * d + (n % d)
  BY SMT

\* A set of numbers has a least one.
LEMMA LeastNumber ==
    ASSUME NEW T \in SUBSET Nat, T # {}
    PROVE  \E m \in T : \A n \in T : m <= n
<1> DEFINE R == OpToRel(<, Nat)
<1>1. IsWellFoundedOn(R, Nat)
  BY NatLessThanWellFounded
<1>2. PICK m \in T : \A n \in T : ~(<<n, m>> \in R)
  <2> HIDE DEF R
  <2> QED BY <1>1, WFMin
<1>3. ASSUME NEW n \in T PROVE m <= n
  <2>1. <<n, m>> \notin R
    BY <1>2
  <2>2. ~(n < m)
    BY <2>1 DEF OpToRel
  <2> QED BY <2>2
<1> QED BY <1>3

\* Induction, for a set instead of a predicate.
LEMMA NatSetInduction ==
    ASSUME NEW T \in SUBSET Nat, 0 \in T, \A n \in T : n + 1 \in T
    PROVE  T = Nat
<1> SUFFICES ASSUME Nat \ T # {} PROVE FALSE
  OBVIOUS
<1>1. PICK m \in Nat \ T : \A n \in Nat \ T : m <= n
  BY LeastNumber
<1>2. m - 1 \in Nat /\ m - 1 \notin Nat \ T
  BY <1>1
<1> QED BY <1>1, <1>2

\* A function along 0 .. n that is a at 0 and a step from the one before
\* elsewhere.
Recurs(f, A, a, step, n) ==
    /\ f \in [0 .. n -> A]
    /\ f[0] = a
    /\ \A i \in 1 .. n : f[i] = step[i][f[i - 1]]

LEMMA RecursionOnRange ==
    ASSUME NEW A, NEW a \in A, NEW n \in Nat, NEW step \in [Nat -> [A -> A]]
    PROVE  \E f : Recurs(f, A, a, step, n)
<1> DEFINE T == {k \in Nat : \E f : Recurs(f, A, a, step, k)}
<1>1. 0 \in T
  <2> DEFINE f == [i \in 0 .. 0 |-> a]
  <2>1. f \in [0 .. 0 -> A] /\ f[0] = a
    OBVIOUS
  <2>2. \A i \in 1 .. 0 : f[i] = step[i][f[i - 1]]
    OBVIOUS
  <2> HIDE DEF f
  <2>3. Recurs(f, A, a, step, 0)
    BY <2>1, <2>2 DEF Recurs
  <2> QED BY <2>3
<1>2. ASSUME NEW k \in T PROVE k + 1 \in T
  <2>0. PICK f : Recurs(f, A, a, step, k)
    OBVIOUS
  <2>1. f \in [0 .. k -> A] /\ f[0] = a /\ \A i \in 1 .. k : f[i] = step[i][f[i - 1]]
    BY <2>0 DEF Recurs
  <2> DEFINE g == [i \in 0 .. k + 1 |-> IF i <= k THEN f[i] ELSE step[k + 1][f[k]]]
  <2>2. k \in Nat /\ f[k] \in A /\ step[k + 1][f[k]] \in A
    BY <2>1
  <2>3. g \in [0 .. k + 1 -> A] /\ g[0] = a
    BY <2>1, <2>2
  <2>4. ASSUME NEW i \in 1 .. k + 1 PROVE g[i] = step[i][g[i - 1]]
    <3>1. CASE i = k + 1
      BY <2>2, <3>1
    <3>2. CASE i <= k
      <4>1. i \in 1 .. k /\ g[i] = f[i] /\ g[i - 1] = f[i - 1]
        BY <2>2, <3>2
      <4> HIDE DEF g
      <4> QED BY <2>1, <4>1
    <3> QED BY <2>2, <3>1, <3>2
  <2> HIDE DEF g
  <2>5. Recurs(g, A, a, step, k + 1)
    BY <2>3, <2>4 DEF Recurs
  <2> QED BY <2>2, <2>5
<1>3. T = Nat
  <2>1. T \subseteq Nat
    OBVIOUS
  <2> HIDE DEF T
  <2> QED BY <1>1, <1>2, <2>1, NatSetInduction
<1> QED BY <1>3

-----------------------------------------------------------------------------
(* What a recursive definition leaves of a list that it copies without the *)
(* entries l.                                                              *)

Filters(f, l, s) ==
    f = [i \in 0 .. Len(s) |->
           IF i = 0 THEN <<>>
           ELSE IF s[i] = l THEN f[i - 1] ELSE Append(f[i - 1], s[i])]

UniqueBut(l, s, n) == \A i, j \in 1 .. n : s[i] = s[j] /\ s[i] # l => i = j

\* There is a function that fulfils the recursive definition.
LEMMA FilterExists ==
    ASSUME NEW A, NEW s \in Seq(A), NEW l
    PROVE  \E f : Filters(f, l, s)
<1> DEFINE step == [i \in Nat |-> [q \in Seq(A) |->
                      IF i \in 1 .. Len(s) /\ s[i] # l THEN Append(q, s[i]) ELSE q]]
<1>1. step \in [Nat -> [Seq(A) -> Seq(A)]]
  <2> SUFFICES ASSUME NEW i \in Nat, NEW q \in Seq(A)
               PROVE  (IF i \in 1 .. Len(s) /\ s[i] # l THEN Append(q, s[i]) ELSE q)
                         \in Seq(A)
    OBVIOUS
  <2> QED OBVIOUS
<1>2. <<>> \in Seq(A) /\ Len(s) \in Nat
  OBVIOUS
<1>3. PICK f : Recurs(f, Seq(A), <<>>, step, Len(s))
  <2> HIDE DEF step
  <2> QED BY <1>1, <1>2, RecursionOnRange
<1>4. /\ f \in [0 .. Len(s) -> Seq(A)] /\ f[0] = <<>>
      /\ \A i \in 1 .. Len(s) : f[i] = step[i][f[i - 1]]
  <2> HIDE DEF step
  <2> QED BY <1>3 DEF Recurs
<1>5. ASSUME NEW i \in 1 .. Len(s)
      PROVE  f[i] = IF s[i] = l THEN f[i - 1] ELSE Append(f[i - 1], s[i])
  <2>1. f[i - 1] \in Seq(A) /\ f[i] = step[i][f[i - 1]] /\ i \in Nat
    <3> HIDE DEF step
    <3> QED BY <1>4
  <2>2. step[i][f[i - 1]] = IF s[i] # l THEN Append(f[i - 1], s[i]) ELSE f[i - 1]
    BY <2>1
  <2> QED BY <2>1, <2>2
<1>6. f = [i \in 0 .. Len(s) |->
             IF i = 0 THEN <<>>
             ELSE IF s[i] = l THEN f[i - 1] ELSE Append(f[i - 1], s[i])]
  <2> DEFINE Value(i) == IF i = 0 THEN <<>>
                         ELSE IF s[i] = l THEN f[i - 1] ELSE Append(f[i - 1], s[i])
  <2> HIDE DEF step
  <2>1. ASSUME NEW i \in 0 .. Len(s) PROVE f[i] = Value(i)
    <3>1. CASE i = 0
      BY <1>4, <3>1
    <3>2. CASE i # 0
      <4>1. i \in 1 .. Len(s)
        BY <3>2
      <4> QED BY <1>5, <3>2, <4>1
    <3> QED BY <3>1, <3>2
  <2>2. f = [i \in 0 .. Len(s) |-> f[i]]
    BY <1>4
  <2>3. f = [i \in 0 .. Len(s) |-> Value(i)]
    <3> HIDE DEF Value
    <3> QED BY <2>1, <2>2
  <2> QED BY <2>3
<1> QED BY <1>6 DEF Filters

\* What is kept are the entries but l, and no other, without a repetition
\* exactly if there was none among them.
LEMMA FilterKeeps ==
    ASSUME NEW A, NEW s \in Seq(A), NEW l, NEW f, Filters(f, l, s)
    PROVE  /\ f[Len(s)] \in Seq(A)
           /\ \A i \in 1 .. Len(f[Len(s)]) :
                 f[Len(s)][i] # l /\ \E j \in 1 .. Len(s) : s[j] = f[Len(s)][i]
           /\ \A j \in 1 .. Len(s) :
                 s[j] # l => \E i \in 1 .. Len(f[Len(s)]) : s[j] = f[Len(s)][i]
           /\ IsInjective(f[Len(s)]) <=> UniqueBut(l, s, Len(s))
<1> DEFINE Copied(n) == f[n] \in Seq(A)
           Sound(n) == \A i \in 1 .. Len(f[n]) :
                          f[n][i] # l /\ \E j \in 1 .. n : s[j] = f[n][i]
           Whole(n) == \A j \in 1 .. n :
                          s[j] # l => \E i \in 1 .. Len(f[n]) : s[j] = f[n][i]
           Once(n) == (\A i, j \in 1 .. Len(f[n]) : f[n][i] = f[n][j] => i = j)
                         <=> UniqueBut(l, s, n)
           T == {n \in Nat : n <= Len(s) => Copied(n) /\ Sound(n) /\ Whole(n) /\ Once(n)}
<1>1. f[0] = <<>>
  BY DEF Filters
<1>2. \A i \in 1 .. Len(s) :
         f[i] = IF s[i] = l THEN f[i - 1] ELSE Append(f[i - 1], s[i])
  <2> SUFFICES ASSUME NEW i \in 1 .. Len(s)
               PROVE  f[i] = IF s[i] = l THEN f[i - 1] ELSE Append(f[i - 1], s[i])
    OBVIOUS
  <2>1. i \in 0 .. Len(s) /\ i # 0
    OBVIOUS
  <2> QED BY <2>1 DEF Filters
<1>3. 0 \in T
  <2>1. f[0] \in Seq(A) /\ Len(f[0]) = 0
    BY <1>1
  <2>2. 1 .. 0 = {}
    OBVIOUS
  <2>3. UniqueBut(l, s, 0)
    BY <2>2 DEF UniqueBut
  <2>4. Copied(0) /\ Sound(0) /\ Whole(0) /\ Once(0)
    BY <2>1, <2>2, <2>3
  <2> HIDE DEF Copied, Sound, Whole, Once
  <2> QED BY <2>4
<1>4. ASSUME NEW n \in T PROVE n + 1 \in T
  <2> DEFINE m == n + 1
  <2> SUFFICES ASSUME m <= Len(s)
               PROVE  Copied(m) /\ Sound(m) /\ Whole(m) /\ Once(m)
    <3> HIDE DEF Copied, Sound, Whole, Once
    <3> QED OBVIOUS
  <2>1. n \in Nat /\ m \in 1 .. Len(s) /\ m = n + 1
    OBVIOUS
  <2>2. Copied(n) /\ Sound(n) /\ Whole(n) /\ Once(n)
    OBVIOUS
  <2>3. f[m] = IF s[m] = l THEN f[n] ELSE Append(f[n], s[m])
    BY <1>2, <2>1
  <2> HIDE DEF m, T
  <2>4. CASE s[m] = l
    <3>1. f[m] = f[n]
      BY <2>3, <2>4
    <3>2. UniqueBut(l, s, m) <=> UniqueBut(l, s, n)
      BY <2>1, <2>4 DEF UniqueBut
    <3>3. Copied(m) /\ Sound(m) /\ Whole(m)
      BY <2>1, <2>2, <2>4, <3>1
    <3> QED BY <2>1, <2>2, <3>1, <3>2, <3>3
  <2>5. CASE s[m] # l
    <3> DEFINE q == f[n]
               x == s[m]
    <3>1. f[m] = Append(q, x) /\ x \in A /\ q \in Seq(A) /\ x # l
      BY <2>1, <2>2, <2>3, <2>5
    <3>2. /\ Append(q, x) \in Seq(A) /\ Len(Append(q, x)) = Len(q) + 1
          /\ \A i \in 1 .. Len(q) : Append(q, x)[i] = q[i]
          /\ Append(q, x)[Len(q) + 1] = x
          /\ Len(q) \in Nat
      BY <3>1
    <3>3. Sound(m)
      <4> SUFFICES ASSUME NEW i \in 1 .. Len(f[m])
                   PROVE  f[m][i] # l /\ \E j \in 1 .. m : s[j] = f[m][i]
        OBVIOUS
      <4>1. CASE i = Len(q) + 1
        BY <2>1, <3>1, <3>2, <4>1
      <4>2. CASE i \in 1 .. Len(q)
        BY <2>1, <2>2, <3>1, <3>2, <4>2
      <4> QED BY <3>1, <3>2, <4>1, <4>2
    <3>4. Whole(m)
      <4> SUFFICES ASSUME NEW j \in 1 .. m, s[j] # l
                   PROVE  \E i \in 1 .. Len(f[m]) : s[j] = f[m][i]
        OBVIOUS
      <4>1. CASE j = m
        BY <3>1, <3>2, <4>1
      <4>2. CASE j \in 1 .. n
        BY <2>1, <2>2, <3>1, <3>2, <4>2
      <4> QED BY <2>1, <4>1, <4>2
    <3>5. Once(m)
      <4>1. ASSUME UniqueBut(l, s, m),
                   NEW i \in 1 .. Len(f[m]), NEW j \in 1 .. Len(f[m]), f[m][i] = f[m][j]
            PROVE  i = j
        <5>1. UniqueBut(l, s, n)
          BY <2>1, <4>1 DEF UniqueBut
        <5>2. \A k \in 1 .. Len(q) : q[k] # x
          BY <2>1, <2>2, <3>1, <4>1 DEF UniqueBut
        <5>3. \A h, k \in 1 .. Len(q) : q[h] = q[k] => h = k
          BY <2>2, <5>1
        <5> HIDE DEF q, x
        <5> QED BY <3>1, <3>2, <4>1, <5>2, <5>3
      <4>2. ASSUME \A i, j \in 1 .. Len(f[m]) : f[m][i] = f[m][j] => i = j
            PROVE  UniqueBut(l, s, m)
        <5>1. \A h, k \in 1 .. Len(q) : q[h] = q[k] => h = k
          <6> HIDE DEF q, x
          <6> QED BY <3>1, <3>2, <4>2
        <5>2. UniqueBut(l, s, n)
          BY <2>2, <5>1
        <5>3. \A k \in 1 .. Len(q) : q[k] # x
          <6> HIDE DEF q, x
          <6> QED BY <3>1, <3>2, <4>2
        <5>4. \A k \in 1 .. n : s[k] # x
          BY <2>2, <3>1, <5>3
        <5> QED BY <2>1, <5>2, <5>4 DEF UniqueBut
      <4> QED BY <4>1, <4>2
    <3>6. Copied(m)
      BY <3>1, <3>2
    <3> HIDE DEF Copied, Sound, Whole, Once
    <3> QED BY <3>3, <3>4, <3>5, <3>6
  <2> HIDE DEF Copied, Sound, Whole, Once
  <2> QED BY <2>4, <2>5
<1>5. T = Nat
  <2>1. T \subseteq Nat
    OBVIOUS
  <2> HIDE DEF T
  <2> QED BY <1>3, <1>4, <2>1, NatSetInduction
<1>6. Copied(Len(s)) /\ Sound(Len(s)) /\ Whole(Len(s)) /\ Once(Len(s))
  <2>1. Len(s) \in T
    BY <1>5
  <2> QED BY <2>1
<1>7. IsInjective(f[Len(s)]) <=> UniqueBut(l, s, Len(s))
  <2>1. DOMAIN f[Len(s)] = 1 .. Len(f[Len(s)])
    BY <1>6
  <2> QED BY <1>6, <2>1 DEF IsInjective
<1> QED BY <1>6, <1>7

\* Without any of the entries l, all are kept.
LEMMA FilterOfOthers ==
    ASSUME NEW A, NEW s \in Seq(A), NEW l, NEW f, Filters(f, l, s),
           \A i \in 1 .. Len(s) : s[i] # l
    PROVE  f[Len(s)] = s
<1> DEFINE Copied(n) == /\ f[n] \in Seq(A) /\ Len(f[n]) = n
                        /\ \A j \in 1 .. n : f[n][j] = s[j]
           T == {n \in Nat : n <= Len(s) => Copied(n)}
<1>1. f[0] = <<>> /\ \A i \in 1 .. Len(s) : f[i] = Append(f[i - 1], s[i])
  <2>1. f[0] = <<>>
    BY DEF Filters
  <2> SUFFICES ASSUME NEW i \in 1 .. Len(s) PROVE f[i] = Append(f[i - 1], s[i])
    BY <2>1
  <2>2. i \in 0 .. Len(s) /\ i # 0 /\ s[i] # l
    OBVIOUS
  <2> QED BY <2>2 DEF Filters
<1>2. 0 \in T
  <2>1. Len(f[0]) = 0 /\ 1 .. 0 = {} /\ f[0] \in Seq(A)
    BY <1>1
  <2>2. Copied(0)
    BY <2>1
  <2> HIDE DEF Copied
  <2> QED BY <2>2
<1>3. ASSUME NEW n \in T PROVE n + 1 \in T
  <2> SUFFICES ASSUME n + 1 <= Len(s) PROVE Copied(n + 1)
    <3> HIDE DEF Copied
    <3> QED OBVIOUS
  <2> DEFINE q == f[n]
             x == s[n + 1]
  <2>1. n \in Nat /\ n + 1 \in 1 .. Len(s) /\ Copied(n) /\ q \in Seq(A) /\ x \in A
    OBVIOUS
  <2>2. f[n + 1] = Append(q, x)
    BY <1>1, <2>1
  <2>3. Len(q) = n /\ \A j \in 1 .. n : q[j] = s[j]
    BY <2>1
  <2> HIDE DEF q, T
  <2>4. /\ Append(q, x) \in Seq(A) /\ Len(Append(q, x)) = n + 1
        /\ \A j \in 1 .. n : Append(q, x)[j] = q[j]
        /\ Append(q, x)[n + 1] = x
    BY <2>1, <2>3
  <2> QED BY <2>1, <2>2, <2>3, <2>4
<1>4. T = Nat
  <2>1. T \subseteq Nat
    OBVIOUS
  <2> HIDE DEF T
  <2> QED BY <1>2, <1>3, <2>1, NatSetInduction
<1>5. Copied(Len(s))
  <2>1. Len(s) \in T
    BY <1>4
  <2> QED BY <2>1
<1> DEFINE r == f[Len(s)]
<1>6. /\ r \in Seq(A) /\ Len(r) = Len(s)
      /\ \A j \in 1 .. Len(s) : r[j] = s[j]
  BY <1>5
<1> HIDE DEF r
<1> QED BY <1>6, SeqEqual DEF r

\* Nothing is added.
LEMMA FilterShortens ==
    ASSUME NEW A, NEW s \in Seq(A), NEW l, NEW f, Filters(f, l, s)
    PROVE  Len(f[Len(s)]) <= Len(s)
<1> DEFINE Short(n) == f[n] \in Seq(A) /\ Len(f[n]) <= n
           T == {n \in Nat : n <= Len(s) => Short(n)}
<1>1. f[0] = <<>>
  BY DEF Filters
<1>2. ASSUME NEW i \in 1 .. Len(s)
      PROVE  f[i] = IF s[i] = l THEN f[i - 1] ELSE Append(f[i - 1], s[i])
  <2>1. i \in 0 .. Len(s) /\ i # 0
    OBVIOUS
  <2> QED BY <2>1 DEF Filters
<1>3. 0 \in T
  <2>1. Short(0)
    BY <1>1
  <2> HIDE DEF Short
  <2> QED BY <2>1
<1>4. ASSUME NEW n \in T PROVE n + 1 \in T
  <2> SUFFICES ASSUME n + 1 <= Len(s) PROVE Short(n + 1)
    <3> HIDE DEF Short
    <3> QED OBVIOUS
  <2> DEFINE q == f[n]
             x == s[n + 1]
  <2>1. n \in Nat /\ n + 1 \in 1 .. Len(s) /\ q \in Seq(A) /\ Len(q) <= n /\ x \in A
    OBVIOUS
  <2>2. f[n + 1] = IF x = l THEN q ELSE Append(q, x)
    BY <1>2, <2>1
  <2> HIDE DEF q, x, T
  <2>3. Append(q, x) \in Seq(A) /\ Len(Append(q, x)) = Len(q) + 1 /\ Len(q) \in Nat
    BY <2>1
  <2> QED BY <2>1, <2>2, <2>3
<1>5. T = Nat
  <2>1. T \subseteq Nat
    OBVIOUS
  <2> HIDE DEF T
  <2> QED BY <1>3, <1>4, <2>1, NatSetInduction
<1>6. Len(s) \in T
  BY <1>5
<1> QED BY <1>6

-----------------------------------------------------------------------------
(* Joining lists: each list is put behind those before it.                 *)

Joins(h, seqs, A) ==
    /\ h[0] = <<>>
    /\ \A i \in 0 .. Len(seqs) : h[i] \in Seq(A)
    /\ \A i \in 1 .. Len(seqs) : h[i] = h[i - 1] \o seqs[i]

LEMMA FlattenJoins ==
    ASSUME NEW A, NEW seqs \in Seq(Seq(A))
    PROVE  \E h : Joins(h, seqs, A) /\ FlattenSeq(seqs) = h[Len(seqs)]
<1> DEFINE n == Len(seqs)
           step == [i \in Nat |-> [q \in Seq(A) |->
                      IF i \in 1 .. n THEN q \o seqs[i] ELSE q]]
           Flattens(g) == g = [i \in 1 .. n |-> IF i = 1 THEN seqs[i]
                                                ELSE g[i - 1] \o seqs[i]]
<1>1. n \in Nat /\ <<>> \in Seq(A) /\ \A i \in 1 .. n : seqs[i] \in Seq(A)
  OBVIOUS
<1>2. step \in [Nat -> [Seq(A) -> Seq(A)]]
  <2> SUFFICES ASSUME NEW i \in Nat, NEW q \in Seq(A)
               PROVE  (IF i \in 1 .. n THEN q \o seqs[i] ELSE q) \in Seq(A)
    <3> HIDE DEF n
    <3> QED OBVIOUS
  <2>1. i \in 1 .. n => q \o seqs[i] \in Seq(A)
    BY <1>1
  <2> QED BY <2>1
<1>3. PICK h : Recurs(h, Seq(A), <<>>, step, n)
  <2> HIDE DEF step, n
  <2> QED BY <1>1, <1>2, RecursionOnRange
<1>4. h[0] = <<>> /\ \A i \in 0 .. n : h[i] \in Seq(A)
  <2> HIDE DEF step, n
  <2> QED BY <1>3 DEF Recurs
<1>5. ASSUME NEW i \in 1 .. n PROVE h[i] = h[i - 1] \o seqs[i]
  <2>1. h[i - 1] \in Seq(A) /\ h[i] = step[i][h[i - 1]] /\ i \in Nat
    <3> HIDE DEF step
    <3>1. i - 1 \in 0 .. n /\ i \in Nat
      BY <1>1
    <3> QED BY <1>3, <1>4, <3>1 DEF Recurs
  <2> QED BY <2>1
<1> HIDE DEF step
<1>8. ASSUME 1 \in 1 .. n PROVE h[1] = seqs[1]
  <2>1. 1 - 1 = 0
    OBVIOUS
  <2>2. h[1] = <<>> \o seqs[1]
    <3>1. h[1] = h[1 - 1] \o seqs[1]
      BY <1>5, <1>8, Zenon
    <3> QED BY <1>4, <2>1, <3>1, Zenon
  <2>3. seqs[1] \in Seq(A)
    BY <1>1, <1>8
  <2> HIDE DEF n
  <2> QED BY <2>2, <2>3
<1>6. CASE n = 0
  <2>1. FlattenSeq(seqs) = <<>>
    BY <1>6 DEF FlattenSeq
  <2>2. Joins(h, seqs, A)
    BY <1>4, <1>5 DEF Joins
  <2> QED BY <1>4, <1>6, <2>1, <2>2
<1>7. CASE n # 0
  <2> DEFINE f == [i \in 1 .. n |-> h[i]]
             g == CHOOSE g : Flattens(g)
  <2>1. Flattens(f)
    <3> DEFINE Value(i) == IF i = 1 THEN seqs[i] ELSE f[i - 1] \o seqs[i]
    <3>1. ASSUME NEW i \in 1 .. n PROVE h[i] = Value(i)
      <4>1. CASE i = 1
        BY <1>8, <4>1
      <4>2. CASE i # 1
        <5>1. i - 1 \in 1 .. n
          BY <1>1, <4>2
        <5> QED BY <1>5, <4>2, <5>1
      <4> QED BY <4>1, <4>2
    <3>2. f = [i \in 1 .. n |-> Value(i)]
      <4> HIDE DEF Value
      <4> QED BY <3>1
    <3> QED BY <3>2
  <2>2. Flattens(g)
    <3> HIDE DEF Flattens
    <3> QED BY <2>1, Zenon
  <2>3. FlattenSeq(seqs) = g[n]
    BY <1>7 DEF FlattenSeq
  <2> DEFINE T == {k \in Nat : k + 1 <= n => g[k + 1] = h[k + 1]}
  <2> HIDE DEF g
  <2>4. \A i \in 1 .. n : g[i] = IF i = 1 THEN seqs[i] ELSE g[i - 1] \o seqs[i]
    BY <2>2
  <2>5. \A i \in 1 .. n : h[i] = IF i = 1 THEN seqs[i] ELSE h[i - 1] \o seqs[i]
    <3> SUFFICES ASSUME NEW i \in 1 .. n
                 PROVE  h[i] = IF i = 1 THEN seqs[i] ELSE h[i - 1] \o seqs[i]
      OBVIOUS
    <3>1. i = 1 => h[i] = seqs[i]
      BY <1>8
    <3>2. h[i] = h[i - 1] \o seqs[i]
      BY <1>5
    <3> HIDE DEF n
    <3> QED BY <3>1, <3>2
  <2> HIDE DEF n
  <2>6. 0 \in T
    BY <1>1, <2>4, <2>5
  <2>7. ASSUME NEW k \in T PROVE k + 1 \in T
    <3> SUFFICES ASSUME k + 2 <= n PROVE g[k + 2] = h[k + 2]
      OBVIOUS
    <3>1. k \in Nat /\ g[k + 1] = h[k + 1] /\ k + 2 \in 1 .. n /\ k + 2 # 1
          /\ (k + 2) - 1 = k + 1
      BY <1>1
    <3> QED BY <2>4, <2>5, <3>1
  <2>8. T = Nat
    <3>1. T \subseteq Nat
      OBVIOUS
    <3> HIDE DEF T
    <3> QED BY <2>6, <2>7, <3>1, NatSetInduction
  <2>9. g[n] = h[n]
    <3>1. n - 1 \in Nat /\ (n - 1) + 1 = n
      BY <1>1, <1>7
    <3>2. n - 1 \in T
      <4> HIDE DEF T
      <4> QED BY <2>8, <3>1
    <3> QED BY <3>1, <3>2
  <2>10. Joins(h, seqs, A)
    BY <1>4, <1>5 DEF Joins, n
  <2> QED BY <2>3, <2>9, <2>10 DEF n
<1> QED BY <1>6, <1>7
-----------------------------------------------------------------------------
(* Parts of lists, and where the lists of a joined one are.                *)

\* A part of a list.
LEMMA PartOfList ==
    ASSUME NEW A, NEW b \in Seq(A), NEW lo \in Nat, NEW hi \in Nat,
           lo <= hi, hi <= Len(b)
    PROVE  /\ SubSeq(b, lo + 1, hi) \in Seq(A)
           /\ Len(SubSeq(b, lo + 1, hi)) = hi - lo
           /\ \A j \in 1 .. hi - lo : SubSeq(b, lo + 1, hi)[j] = b[lo + j]
<1>1. \A j \in lo + 1 .. hi : b[j] \in A
  OBVIOUS
<1>2. /\ SubSeq(b, lo + 1, hi) \in Seq(A)
      /\ Len(SubSeq(b, lo + 1, hi)) = hi - (lo + 1) + 1
      /\ \A j \in 1 .. hi - (lo + 1) + 1 : SubSeq(b, lo + 1, hi)[j] = b[lo + 1 + j - 1]
  BY <1>1, SubSeqProperties
<1> QED BY <1>2

\* Two lists joined.
LEMMA JoinedLists ==
    ASSUME NEW A, NEW s \in Seq(A), NEW t \in Seq(A)
    PROVE  /\ s \o t \in Seq(A) /\ Len(s \o t) = Len(s) + Len(t)
           /\ \A j \in 1 .. Len(s) : (s \o t)[j] = s[j]
           /\ \A j \in 1 .. Len(t) : (s \o t)[Len(s) + j] = t[j]
OBVIOUS

\* Lists that hold the same are equal.
LEMMA EqualLists ==
    ASSUME NEW A, NEW s \in Seq(A), NEW t \in Seq(A), Len(s) = Len(t),
           \A j \in 1 .. Len(s) : s[j] = t[j]
    PROVE  s = t
BY SeqEqual

\* One more list is joined behind the others.
LEMMA FlattenOfAppend ==
    ASSUME NEW A, NEW seqs \in Seq(Seq(A)), NEW t \in Seq(A)
    PROVE  FlattenSeq(Append(seqs, t)) = FlattenSeq(seqs) \o t
<1> DEFINE n == Len(seqs)
           more == Append(seqs, t)
<1>1. /\ n \in Nat /\ more \in Seq(Seq(A)) /\ Len(more) = n + 1
      /\ \A i \in 1 .. n : more[i] = seqs[i]
      /\ more[n + 1] = t
  OBVIOUS
<1>2. PICK h : Joins(h, seqs, A) /\ FlattenSeq(seqs) = h[n]
  BY FlattenJoins
<1>3. PICK g : Joins(g, more, A) /\ FlattenSeq(more) = g[n + 1]
  <2> HIDE DEF more, n
  <2> QED BY <1>1, FlattenJoins
<1> HIDE DEF n, more
<1> DEFINE T == {k \in Nat : k <= n => g[k] = h[k]}
<1>4. 0 \in T
  BY <1>2, <1>3 DEF Joins
<1>5. ASSUME NEW k \in T PROVE k + 1 \in T
  <2> SUFFICES ASSUME k + 1 <= n PROVE g[k + 1] = h[k + 1]
    OBVIOUS
  <2>1. /\ k + 1 \in 1 .. n /\ k + 1 \in 1 .. n + 1 /\ (k + 1) - 1 = k
        /\ g[k] = h[k]
    BY <1>1
  <2>2. h[k + 1] = h[(k + 1) - 1] \o seqs[k + 1]
    BY <1>2, <2>1 DEF Joins, n
  <2>3. g[k + 1] = g[(k + 1) - 1] \o more[k + 1]
    BY <1>1, <1>3, <2>1 DEF Joins
  <2>4. more[k + 1] = seqs[k + 1]
    BY <1>1, <2>1
  <2> QED BY <2>1, <2>2, <2>3, <2>4, Zenon
<1>6. T = Nat
  <2>1. T \subseteq Nat
    OBVIOUS
  <2> HIDE DEF T
  <2> QED BY <1>4, <1>5, <2>1, NatSetInduction
<1>7. g[n] = h[n]
  <2>1. n \in T
    BY <1>1, <1>6
  <2> QED BY <1>1, <2>1
<1>8. (n + 1) - 1 = n /\ n + 1 \in 1 .. n + 1
  BY <1>1
<1>9. g[n + 1] = g[(n + 1) - 1] \o more[n + 1]
  BY <1>1, <1>3, <1>8 DEF Joins
<1>10. FlattenSeq(more) = h[n] \o t
  BY <1>1, <1>3, <1>7, <1>8, <1>9, Zenon
<1> QED BY <1>2, <1>10 DEF more

\* p tells where the lists of seqs end in b, in which they are joined.
Layout(p, seqs, b) ==
    /\ p \in [0 .. Len(seqs) -> Nat]
    /\ p[0] = 0 /\ p[Len(seqs)] = Len(b)
    /\ \A i \in 1 .. Len(seqs) :
          /\ p[i] = p[i - 1] + Len(seqs[i])
          /\ \A j \in 1 .. Len(seqs[i]) : b[p[i - 1] + j] = seqs[i][j]

\* A later list ends no earlier.
LEMMA LayoutGrows ==
    ASSUME NEW A, NEW seqs \in Seq(Seq(A)), NEW b, NEW p, Layout(p, seqs, b),
           NEW i \in 0 .. Len(seqs)
    PROVE  p[i] <= p[Len(seqs)]
<1> DEFINE n == Len(seqs)
           T == {m \in Nat : i + m <= n => p[i] <= p[i + m]}
<1>1. n \in Nat /\ \A k \in 1 .. n : Len(seqs[k]) \in Nat
  OBVIOUS
<1>2. p \in [0 .. n -> Nat] /\ \A k \in 1 .. n : p[k] = p[k - 1] + Len(seqs[k])
  BY DEF Layout
<1> HIDE DEF n
<1>3. 0 \in T
  <2>1. i \in Nat /\ i + 0 = i /\ p[i] \in Nat
    BY <1>1, <1>2 DEF n
  <2>2. p[i] <= p[i + 0]
    BY <2>1
  <2> QED BY <2>2
<1>4. ASSUME NEW m \in T PROVE m + 1 \in T
  <2> SUFFICES ASSUME i + (m + 1) <= n PROVE p[i] <= p[i + (m + 1)]
    OBVIOUS
  <2> DEFINE k == i + (m + 1)
  <2>1. /\ m \in Nat /\ i \in Nat /\ k \in 1 .. n /\ k - 1 = i + m /\ i + m \in 0 .. n
        /\ i \in 0 .. n
    BY <1>1 DEF n
  <2>2. p[i] <= p[i + m]
    BY <1>1, <2>1
  <2> HIDE DEF k, T
  <2>3. p[k] = p[k - 1] + Len(seqs[k]) /\ Len(seqs[k]) \in Nat
    BY <1>1, <1>2, <2>1
  <2>4. p[i] \in Nat /\ p[i + m] \in Nat
    BY <1>2, <2>1
  <2>5. p[i] <= p[k]
    BY <2>1, <2>2, <2>3, <2>4
  <2> QED BY <2>5 DEF k
<1>5. T = Nat
  <2>1. T \subseteq Nat
    OBVIOUS
  <2> HIDE DEF T
  <2> QED BY <1>3, <1>4, <2>1, NatSetInduction
<1>6. n - i \in Nat /\ i + (n - i) = n
  BY <1>1 DEF n
<1>7. n - i \in T
  <2> HIDE DEF T
  <2> QED BY <1>5, <1>6
<1> QED BY <1>1, <1>6, <1>7 DEF n

LEMMA LayoutOfAppend ==
    ASSUME NEW A, NEW seqs \in Seq(Seq(A)), NEW b \in Seq(A), NEW t \in Seq(A),
           NEW p, Layout(p, seqs, b)
    PROVE  \E q : /\ Layout(q, Append(seqs, t), b \o t)
                  /\ \A i \in 0 .. Len(seqs) : q[i] = p[i]
<1> DEFINE n == Len(seqs)
           more == Append(seqs, t)
           c == b \o t
           q == [i \in 0 .. n + 1 |-> IF i <= n THEN p[i] ELSE p[n] + Len(t)]
<1>1. /\ n \in Nat /\ Len(more) = n + 1 /\ Len(t) \in Nat /\ Len(b) \in Nat
      /\ \A i \in 1 .. n : more[i] = seqs[i] /\ Len(seqs[i]) \in Nat
      /\ more[n + 1] = t
  OBVIOUS
<1>2. /\ Len(c) = Len(b) + Len(t)
      /\ \A j \in 1 .. Len(b) : c[j] = b[j]
      /\ \A j \in 1 .. Len(t) : c[Len(b) + j] = t[j]
  OBVIOUS
<1>3. /\ p \in [0 .. n -> Nat] /\ p[0] = 0 /\ p[n] = Len(b)
      /\ \A i \in 1 .. n : /\ p[i] = p[i - 1] + Len(seqs[i])
                           /\ \A j \in 1 .. Len(seqs[i]) : b[p[i - 1] + j] = seqs[i][j]
  BY DEF Layout
<1>4. \A i \in 0 .. n : p[i] <= Len(b)
  BY <1>3, LayoutGrows
<1> HIDE DEF n, more, c
<1>5. /\ q \in [0 .. n + 1 -> Nat] /\ q[0] = 0 /\ q[n + 1] = Len(c)
      /\ \A i \in 0 .. n : q[i] = p[i]
  BY <1>1, <1>2, <1>3
<1> HIDE DEF q
<1>6. ASSUME NEW i \in 1 .. n + 1
      PROVE  /\ q[i] = q[i - 1] + Len(more[i])
             /\ \A j \in 1 .. Len(more[i]) : c[q[i - 1] + j] = more[i][j]
  <2>1. CASE i = n + 1
    <3>1. i - 1 = n /\ q[i - 1] = Len(b) /\ more[i] = t /\ q[i] = Len(b) + Len(t)
      BY <1>1, <1>2, <1>3, <1>5, <2>1
    <3> QED BY <1>2, <3>1
  <2>2. CASE i # n + 1
    <3>1. i \in 1 .. n /\ i - 1 \in 0 .. n /\ i \in 0 .. n
      BY <1>1, <2>2
    <3>2. /\ q[i] = p[i] /\ q[i - 1] = p[i - 1] /\ more[i] = seqs[i]
          /\ p[i] = p[i - 1] + Len(seqs[i]) /\ p[i] <= Len(b)
          /\ p[i - 1] \in Nat /\ Len(seqs[i]) \in Nat
      BY <1>1, <1>3, <1>4, <1>5, <3>1
    <3>3. ASSUME NEW j \in 1 .. Len(seqs[i]) PROVE c[p[i - 1] + j] = seqs[i][j]
      <4>1. p[i - 1] + j \in 1 .. Len(b)
        BY <1>1, <3>2
      <4>2. b[p[i - 1] + j] = seqs[i][j]
        BY <1>3, <3>1
      <4> QED BY <1>2, <4>1, <4>2
    <3> QED BY <3>2, <3>3
  <2> QED BY <2>1, <2>2
<1>7. Layout(q, more, c)
  BY <1>1, <1>5, <1>6 DEF Layout
<1> QED BY <1>5, <1>7 DEF n, more, c

\* Lists that are joined have a layout.
LEMMA FlattenHasLayout ==
    ASSUME NEW A, NEW seqs \in Seq(Seq(A))
    PROVE  /\ FlattenSeq(seqs) \in Seq(A)
           /\ \E p : Layout(p, seqs, FlattenSeq(seqs))
<1> DEFINE n == Len(seqs)
           first(m) == SubSeq(seqs, 1, m)
<1>1. n \in Nat /\ \A i \in 1 .. n : seqs[i] \in Seq(A)
  OBVIOUS
<1>2. PICK h : Joins(h, seqs, A) /\ FlattenSeq(seqs) = h[n]
  BY FlattenJoins
<1>3. /\ h[0] = <<>>
      /\ \A i \in 0 .. n : h[i] \in Seq(A)
      /\ \A i \in 1 .. n : h[i] = h[i - 1] \o seqs[i]
  BY <1>2 DEF Joins
<1>4. /\ first(0) = <<>> /\ first(n) = seqs
      /\ \A m \in 0 .. n : first(m) \in Seq(Seq(A))
  OBVIOUS
<1>5. ASSUME NEW m \in Nat, m + 1 <= n
      PROVE  first(m + 1) = Append(first(m), seqs[m + 1])
  BY <1>1, <1>5
<1> HIDE DEF n, first
<1> DEFINE T == {m \in Nat : m <= n => \E p : Layout(p, first(m), h[m])}
<1>6. 0 \in T
  <2>1. Layout([i \in 0 .. 0 |-> 0], <<>>, <<>>)
    BY DEF Layout
  <2> QED BY <1>3, <1>4, <2>1
<1>7. ASSUME NEW m \in T PROVE m + 1 \in T
  <2> SUFFICES ASSUME m + 1 <= n PROVE \E p : Layout(p, first(m + 1), h[m + 1])
    OBVIOUS
  <2>1. m \in 0 .. n /\ m + 1 \in 1 .. n /\ (m + 1) - 1 = m
    BY <1>1
  <2>2. PICK p : Layout(p, first(m), h[m])
    BY <1>1, <2>1
  <2>3. h[m + 1] = h[(m + 1) - 1] \o seqs[m + 1]
    BY <1>3, <2>1
  <2>4. /\ h[m] \in Seq(A) /\ seqs[m + 1] \in Seq(A) /\ first(m) \in Seq(Seq(A))
    BY <1>1, <1>3, <1>4, <2>1
  <2>5. \E q : Layout(q, Append(first(m), seqs[m + 1]), h[m] \o seqs[m + 1])
    BY <2>2, <2>4, LayoutOfAppend
  <2>6. first(m + 1) = Append(first(m), seqs[m + 1])
    BY <1>5, <2>1
  <2>7. h[m + 1] = h[m] \o seqs[m + 1]
    BY <2>1, <2>3, Zenon
  <2> QED BY <2>5, <2>6, <2>7, Zenon
<1>8. T = Nat
  <2>1. T \subseteq Nat
    OBVIOUS
  <2> HIDE DEF T
  <2> QED BY <1>6, <1>7, <2>1, NatSetInduction
<1>9. \E p : Layout(p, seqs, h[n])
  <2>1. n \in T
    BY <1>1, <1>8
  <2> QED BY <1>1, <1>4, <2>1
<1> QED BY <1>1, <1>2, <1>3, <1>9
=============================================================================
