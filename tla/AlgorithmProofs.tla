-------------------------- MODULE AlgorithmProofs --------------------------
(***************************************************************************)
(* The algorithms without a state, for every input: the rule matcher, the  *)
(* conditions of a query and the samples of a graph.                       *)
(***************************************************************************)
EXTENDS AlgorithmClaims, ListLemmas, FiniteSetTheorems, TLAPS

-----------------------------------------------------------------------------
(* The rule matcher.  What matches from part i and place p on is a chain   *)
(* of the parts that were met, each where the one before it ends: by       *)
(* induction from the end of the rule.                                     *)

Met(rule, line) == [part : 1 .. Len(rule), to : 1 .. Len(line) + 1]
PlainSpace == [t |-> "lit", c |-> Space]

\* The kinds of parts, told apart.
LEMMA Kinds ==
    ASSUME NEW part \in Part
    PROVE  /\ part.t \in {"lit", "blank", "num", "str", "date"}
           /\ part.t = "lit" => part = [t |-> "lit", c |-> part.c]
BY DEF Part

\* A set of numbers up to n has a greatest.
LEMMA GreatestNumber ==
    ASSUME NEW n \in Nat, NEW T \in SUBSET (0 .. n), T # {}
    PROVE  /\ M!Max(T) \in T
           /\ \A k \in T : k <= M!Max(T)
<1> DEFINE U == {n - k : k \in T}
<1>1. U \in SUBSET Nat /\ U # {}
  <2>1. \A k \in T : n - k \in Nat
    OBVIOUS
  <2>2. PICK k \in T : TRUE
    OBVIOUS
  <2> QED BY <2>1, <2>2
<1>2. PICK m \in U : \A k \in U : m <= k
  <2> HIDE DEF U
  <2> QED BY <1>1, LeastNumber
<1>3. PICK x \in T : m = n - x
  BY <1>2
<1>4. \A k \in T : x >= k
  <2> SUFFICES ASSUME NEW k \in T PROVE x >= k
    OBVIOUS
  <2>1. n - k \in U
    OBVIOUS
  <2>2. m <= n - k
    BY <1>2, <2>1
  <2> QED BY <1>3, <2>2
<1>5. M!Max(T) \in T /\ \A k \in T : M!Max(T) >= k
  BY <1>4, Zenon DEF M!Max
<1> QED BY <1>5

\* Run goes on as long as characters are in the set.
LEMMA RunIs ==
    ASSUME NEW line \in Line, NEW p \in 1 .. Len(line) + 1, NEW chars
    PROVE  /\ M!Run(line, p, chars) \in 0 .. Len(line) - p + 1
           /\ \A k \in p .. p + M!Run(line, p, chars) - 1 : line[k] \in chars
           /\ p + M!Run(line, p, chars) <= Len(line) =>
                 line[p + M!Run(line, p, chars)] \notin chars
<1> DEFINE n == Len(line) - p + 1
           T == {k \in 0 .. n : \A j \in p .. p + k - 1 : line[j] \in chars}
           r == M!Run(line, p, chars)
<1>1. Len(line) \in Nat /\ n \in Nat
  BY DEF Line
<1>2. T \in SUBSET (0 .. n) /\ 0 \in T
  BY <1>1
<1>3. r = M!Max(T)
  BY DEF M!Run
<1>4. r \in T /\ \A k \in T : k <= r
  <2> HIDE DEF T, r
  <2> QED BY <1>1, <1>2, <1>3, GreatestNumber
<1>5. r \in 0 .. n /\ \A j \in p .. p + r - 1 : line[j] \in chars
  BY <1>4
<1>6. ASSUME p + r <= Len(line), line[p + r] \in chars PROVE FALSE
  <2> HIDE DEF r
  <2>1. r + 1 \in 0 .. n
    BY <1>1, <1>5, <1>6
  <2>2. \A j \in p .. p + (r + 1) - 1 : line[j] \in chars
    <3> SUFFICES ASSUME NEW j \in p .. p + (r + 1) - 1 PROVE line[j] \in chars
      OBVIOUS
    <3>1. j \in p .. p + r - 1 \/ j = p + r
      BY <1>1, <1>5
    <3> QED BY <1>5, <1>6, <3>1
  <2>3. r + 1 \in T
    BY <2>1, <2>2
  <2>4. r + 1 <= r
    <3> HIDE DEF T
    <3> QED BY <1>4, <2>3
  <2> QED BY <1>1, <1>5, <2>4
<1> HIDE DEF r, T
<1> QED BY <1>5, <1>6 DEF n, r

\* A run that the character at e stops, or the end of the line, ends at e.
LEMMA RunTo ==
    ASSUME NEW line \in Line, NEW p \in 1 .. Len(line) + 1, NEW chars,
           NEW e \in p .. Len(line) + 1,
           \A k \in p .. e - 1 : line[k] \in chars,
           e = Len(line) + 1 \/ line[e] \notin chars
    PROVE  p + M!Run(line, p, chars) = e
<1> DEFINE r == M!Run(line, p, chars)
<1>1. /\ Len(line) \in Nat
      /\ r \in 0 .. Len(line) - p + 1
      /\ \A k \in p .. p + r - 1 : line[k] \in chars
      /\ p + r <= Len(line) => line[p + r] \notin chars
  BY RunIs DEF Line
<1> HIDE DEF r
<1>2. ~(p + r < e)
  <2> SUFFICES ASSUME p + r < e PROVE FALSE
    OBVIOUS
  <2>1. p + r \in p .. e - 1 /\ p + r <= Len(line)
    BY <1>1
  <2> QED BY <1>1, <2>1
<1>3. ~(e < p + r)
  <2> SUFFICES ASSUME e < p + r PROVE FALSE
    OBVIOUS
  <2>1. e \in p .. p + r - 1 /\ e # Len(line) + 1
    BY <1>1
  <2> QED BY <1>1, <2>1
<1> QED BY <1>1, <1>2, <1>3 DEF r

\* The next part; only spaces behind a "\ " are passed over.
LEMMA NextPartIs ==
    ASSUME NEW rule \in Rule, NEW i \in 1 .. Len(rule)
    PROVE  /\ M!NextPart(rule, i) \in i + 1 .. Len(rule) + 1
           /\ \A j \in i + 1 .. M!NextPart(rule, i) - 1 : rule[j] = PlainSpace
           /\ \/ rule[i].t # "blank" \/ i = Len(rule) \/ rule[i + 1] # PlainSpace
              => M!NextPart(rule, i) = i + 1
<1> DEFINE n == Len(rule)
           T == {j \in i + 1 .. n + 1 : j > n \/ rule[j] # PlainSpace}
           q == M!NextPart(rule, i)
<1>1. n \in Nat
  BY DEF Rule
<1>2. CASE rule[i].t # "blank"
  <2>1. q = i + 1
    BY <1>2, Zenon DEF M!NextPart
  <2> QED BY <1>1, <2>1
<1>3. CASE rule[i].t = "blank"
  <2>1. q = M!Min(T)
    BY <1>3, Zenon DEF M!NextPart, PlainSpace
  <2>2. T \in SUBSET Nat /\ n + 1 \in T
    BY <1>1
  <2>3. PICK m \in T : \A k \in T : m <= k
    <3> HIDE DEF T
    <3> QED BY <2>2, LeastNumber
  <2>4. q \in T /\ \A k \in T : q <= k
    <3> HIDE DEF T
    <3> QED BY <2>1, <2>3, Zenon DEF M!Min
  <2> HIDE DEF q
  <2>5. q \in i + 1 .. n + 1
    BY <2>4
  <2>6. ASSUME NEW j \in i + 1 .. q - 1 PROVE rule[j] = PlainSpace
    <3>1. j \in i + 1 .. n + 1 /\ ~(q <= j) /\ ~(j > n)
      BY <1>1, <2>5
    <3>2. j \notin T
      BY <2>4, <3>1
    <3> QED BY <3>1, <3>2
  <2>7. i = n \/ rule[i + 1] # PlainSpace => q = i + 1
    <3> SUFFICES ASSUME i = n \/ rule[i + 1] # PlainSpace PROVE q <= i + 1
      BY <1>1, <2>5
    <3>1. i + 1 \in T
      BY <1>1
    <3> QED BY <2>4, <3>1
  <2> QED BY <1>3, <2>5, <2>6, <2>7 DEF q
<1> QED BY <1>2, <1>3

\* Where a part ends, if it begins at p.
LEMMA EndsIs ==
    ASSUME NEW rule \in Rule, NEW line \in Line, NEW i \in 1 .. Len(rule),
           NEW p \in 1 .. Len(line) + 1, NEW to \in M!Ends(rule, line, i, p)
    PROVE  /\ to \in p .. Len(line) + 1
           /\ \A k \in p .. to - 1 : line[k] \in M!Chars(rule, i)
           /\ rule[i].t \in {"lit", "date"} => to = p + 1
           /\ rule[i].t \in {"num", "str"} => p < to
<1> DEFINE n == M!Run(line, p, M!Chars(rule, i))
<1>1. /\ Len(line) \in Nat
      /\ n \in 0 .. Len(line) - p + 1
      /\ \A k \in p .. p + n - 1 : line[k] \in M!Chars(rule, i)
  BY RunIs DEF Line
<1>2. rule[i].t \in {"lit", "blank", "num", "str", "date"}
  BY Kinds DEF Rule
<1>3. /\ rule[i].t \in {"lit", "date"} => n # 0 /\ to = p + 1
      /\ rule[i].t \in {"num", "str"} => n # 0 /\ to = p + n
      /\ rule[i].t = "blank" => to = p + n
  BY <1>2 DEF M!Ends
<1> HIDE DEF n
<1>4. to = p + n \/ (n # 0 /\ to = p + 1)
  BY <1>2, <1>3
<1>5. to \in p .. p + n
  BY <1>1, <1>4
<1>6. \A k \in p .. to - 1 : k \in p .. p + n - 1
  BY <1>1, <1>5
<1>7. to \in p .. Len(line) + 1
  BY <1>1, <1>5
<1>8. rule[i].t \in {"num", "str"} => p < to
  BY <1>1, <1>3
<1> QED BY <1>1, <1>3, <1>6, <1>7, <1>8

\* A text that is sent takes nothing that the next part could be made of.
LEMMA CharsAre ==
    ASSUME M!MatcherAssumption, NEW rule \in Rule, NEW i \in 1 .. Len(rule)
    PROVE  /\ M!Chars(rule, i) \subseteq M!Alphabet(rule[i])
           /\ rule[i].t = "str" /\ rule[i].sent /\ i < Len(rule) =>
                 M!Chars(rule, i) \cap M!Alphabet(rule[i + 1]) = {}
<1>1. rule[i].t \in {"lit", "blank", "num", "str", "date"}
  BY Kinds DEF Rule
<1>2. M!Chars(rule, i) \subseteq M!Alphabet(rule[i])
  BY <1>1 DEF M!Chars, M!Alphabet
<1>3. ASSUME rule[i].t = "str", rule[i].sent, i < Len(rule)
      PROVE  M!Chars(rule, i) \cap M!Alphabet(rule[i + 1]) = {}
  <2> DEFINE next == rule[i + 1]
  <2>1. i # Len(rule)
    BY <1>3
  <2>2. M!Chars(rule, i) = IF next.t \in {"lit", "blank"}
                           THEN Printable \ {M!Delimiter(rule, i)} ELSE {}
    BY <1>3, <2>1 DEF M!Chars, M!Delimited
  <2>3. next.t = "blank" => M!Delimiter(rule, i) = Space /\ M!Alphabet(next) = Blanks
    BY <1>3, <2>1 DEF M!Delimiter, M!Alphabet
  <2>4. next.t = "lit" => M!Delimiter(rule, i) = next.c /\ M!Alphabet(next) = {next.c}
    BY <1>3, <2>1 DEF M!Delimiter, M!Alphabet
  <2> HIDE DEF next
  <2>5. M!Chars(rule, i) \cap M!Alphabet(next) = {}
    BY <2>2, <2>3, <2>4 DEF M!MatcherAssumption
  <2> QED BY <2>5 DEF next
<1> QED BY <1>2, <1>3

-----------------------------------------------------------------------------
(* The function that Matches defines by recursion over the parts.          *)

FromAt(rule, line, f, i, p) ==
    IF i > Len(rule) THEN IF p > Len(line) THEN {<<>>} ELSE {}
    ELSE IF p > Len(line) THEN {}
    ELSE UNION {{<<[part |-> i, to |-> to]>> \o rest :
                    rest \in f[M!NextPart(rule, i)][to]} :
                to \in M!Ends(rule, line, i, p)}

Row(rule, line, f, i) == [p \in 1 .. Len(line) + 1 |-> FromAt(rule, line, f, i, p)]

MatchesFrom(rule, line, f) ==
    f = [i \in 1 .. Len(rule) + 1 |-> Row(rule, line, f, i)]

\* The row of a part depends on that of the next part alone.
LEMMA RowDepends ==
    ASSUME NEW rule, NEW line, NEW f, NEW g, NEW i,
           i > Len(rule) \/ f[M!NextPart(rule, i)] = g[M!NextPart(rule, i)]
    PROVE  Row(rule, line, f, i) = Row(rule, line, g, i)
<1> DEFINE q == M!NextPart(rule, i)
<1>1. CASE i > Len(rule)
  BY <1>1 DEF Row, FromAt
<1>2. CASE f[q] = g[q]
  <2> DEFINE F(x, p) ==
                IF i > Len(rule) THEN IF p > Len(line) THEN {<<>>} ELSE {}
                ELSE IF p > Len(line) THEN {}
                ELSE UNION {{<<[part |-> i, to |-> to]>> \o rest : rest \in x[to]} :
                            to \in M!Ends(rule, line, i, p)}
  <2>1. \A p : /\ FromAt(rule, line, f, i, p) = F(f[q], p)
               /\ FromAt(rule, line, g, i, p) = F(g[q], p)
    BY DEF FromAt
  <2> HIDE DEF F
  <2>2. \A p : FromAt(rule, line, f, i, p) = FromAt(rule, line, g, i, p)
    BY <1>2, <2>1, Zenon
  <2> QED BY <2>2 DEF Row
<1> QED BY <1>1, <1>2

\* So there is such a function: row by row, from the end of the rule.
LEMMA MatchesExist ==
    ASSUME NEW rule \in Rule, NEW line
    PROVE  \E f : MatchesFrom(rule, line, f)
<1> DEFINE n == Len(rule)
           R(f, i) == Row(rule, line, f, i)
           T == {k \in Nat : k <= n => \E f : \A i \in n + 1 - k .. n + 1 : f[i] = R(f, i)}
<1>1. n \in Nat
  BY DEF Rule
<1>2. \A f, g : \A i \in 1 .. n + 1 :
         i = n + 1 \/ f[M!NextPart(rule, i)] = g[M!NextPart(rule, i)] => R(f, i) = R(g, i)
  BY <1>1, RowDepends
<1>3. \A i \in 1 .. n : M!NextPart(rule, i) \in i + 1 .. n + 1
  BY NextPartIs
<1> HIDE DEF R, n
<1>4. 0 \in T
  <2> DEFINE f == [i \in {n + 1} |-> R(<<>>, n + 1)]
  <2>1. f[n + 1] = R(<<>>, n + 1) /\ n + 1 \in 1 .. n + 1
    BY <1>1
  <2> HIDE DEF f
  <2>2. R(<<>>, n + 1) = R(f, n + 1)
    BY <1>2, <2>1
  <2>3. \A i \in n + 1 - 0 .. n + 1 : i = n + 1
    BY <1>1
  <2> QED BY <2>1, <2>2, <2>3
<1>5. ASSUME NEW k \in T PROVE k + 1 \in T
  <2> SUFFICES ASSUME k + 1 <= n
               PROVE  \E g : \A i \in n + 1 - (k + 1) .. n + 1 : g[i] = R(g, i)
    OBVIOUS
  <2>1. k \in Nat /\ k <= n
    BY <1>1
  <2>2. PICK f : \A i \in n + 1 - k .. n + 1 : f[i] = R(f, i)
    BY <2>1
  <2> DEFINE h == n - k
             g == [i \in h .. n + 1 |-> IF i = h THEN R(f, h) ELSE f[i]]
  <2>3. /\ h \in 1 .. n /\ n + 1 - (k + 1) = h /\ n + 1 - k = h + 1
        /\ M!NextPart(rule, h) \in h + 1 .. n + 1
    BY <1>1, <1>3, <2>1
  <2>4. g[h] = R(f, h) /\ \A i \in h + 1 .. n + 1 : g[i] = f[i]
    <3> HIDE DEF h
    <3> QED BY <1>1, <2>3
  <2> HIDE DEF g, h
  <2>5. g[h] = R(g, h)
    <3>1. f[M!NextPart(rule, h)] = g[M!NextPart(rule, h)]
      BY <2>3, <2>4
    <3>2. h \in 1 .. n + 1
      BY <1>1, <2>3
    <3> QED BY <1>2, <2>4, <3>1, <3>2
  <2>6. ASSUME NEW i \in h + 1 .. n + 1 PROVE g[i] = R(g, i)
    <3>1. g[i] = R(f, i)
      BY <2>2, <2>3, <2>4
    <3>2. i \in 1 .. n + 1
      BY <1>1, <2>3
    <3>3. i = n + 1 \/ M!NextPart(rule, i) \in h + 1 .. n + 1
      <4>1. i = n + 1 \/ i \in 1 .. n
        BY <1>1, <3>2
      <4>2. i \in 1 .. n => M!NextPart(rule, i) \in i + 1 .. n + 1
        BY <1>3
      <4> QED BY <1>1, <2>3, <4>1, <4>2
    <3>4. i = n + 1 \/ f[M!NextPart(rule, i)] = g[M!NextPart(rule, i)]
      BY <2>4, <3>3
    <3> QED BY <1>2, <3>1, <3>2, <3>4
  <2>7. \A i \in n + 1 - (k + 1) .. n + 1 : i = h \/ i \in h + 1 .. n + 1
    BY <1>1, <2>3
  <2> QED BY <2>5, <2>6, <2>7
<1>6. T = Nat
  <2>1. T \subseteq Nat
    OBVIOUS
  <2> HIDE DEF T
  <2> QED BY <1>4, <1>5, <2>1, NatSetInduction
<1>7. PICK f : \A i \in 1 .. n + 1 : f[i] = R(f, i)
  <2>1. n \in T
    <3> HIDE DEF T
    <3> QED BY <1>1, <1>6
  <2>2. n <= n /\ n + 1 - n = 1
    BY <1>1
  <2> QED BY <2>1, <2>2
<1> DEFINE g == [i \in 1 .. n + 1 |-> f[i]]
<1>8. \A i \in 1 .. n + 1 : g[i] = f[i]
  OBVIOUS
<1>9. g = [i \in 1 .. n + 1 |-> g[i]]
  BY <1>8
<1> HIDE DEF g
<1>10. ASSUME NEW i \in 1 .. n + 1 PROVE g[i] = R(g, i)
  <2>1. i = n + 1 \/ M!NextPart(rule, i) \in 1 .. n + 1
    BY <1>1, <1>3
  <2>2. i = n + 1 \/ f[M!NextPart(rule, i)] = g[M!NextPart(rule, i)]
    BY <1>8, <2>1
  <2> QED BY <1>2, <1>7, <1>8, <2>2
<1>11. g = [i \in 1 .. n + 1 |-> R(g, i)]
  BY <1>9, <1>10
<1> QED BY <1>11 DEF MatchesFrom, R, n

\* What there is to know of Matches: its values satisfy the recursion.
LEMMA MatchesAre ==
    ASSUME NEW rule \in Rule, NEW line \in Line
    PROVE  \E f : /\ M!Matches(rule, line) = f[1][1]
                  /\ \A i \in 1 .. Len(rule) + 1, p \in 1 .. Len(line) + 1 :
                        f[i][p] = FromAt(rule, line, f, i, p)
<1> DEFINE f == CHOOSE g : MatchesFrom(rule, line, g)
<1>1. M!Matches(rule, line) = f[1][1]
  BY DEF M!Matches, MatchesFrom, Row, FromAt
<1>2. MatchesFrom(rule, line, f)
  BY MatchesExist, Zenon
<1> HIDE DEF f
<1>3. \A i \in 1 .. Len(rule) + 1 : f[i] = Row(rule, line, f, i)
  BY <1>2 DEF MatchesFrom
<1>4. \A i \in 1 .. Len(rule) + 1, p \in 1 .. Len(line) + 1 :
         f[i][p] = FromAt(rule, line, f, i, p)
  BY <1>3 DEF Row
<1> QED BY <1>1, <1>4

-----------------------------------------------------------------------------
(* A match is a chain of parts, each of which begins where the one before  *)
(* it ends, from part i and place p to the end of the rule and the line.   *)

Prev(m, k, p) == IF k = 1 THEN p ELSE m[k - 1].to

Chain(rule, line, m, i, p) ==
    /\ m \in Seq(Met(rule, line))
    /\ m = <<>> => i = Len(rule) + 1 /\ p = Len(line) + 1
    /\ m # <<>> => /\ m[1].part = i /\ m[Len(m)].to = Len(line) + 1
                   /\ M!NextPart(rule, m[Len(m)].part) = Len(rule) + 1
    /\ \A k \in 1 .. Len(m) :
          m[k].to \in M!Ends(rule, line, m[k].part, Prev(m, k, p))
    /\ \A k \in 1 .. Len(m) - 1 : m[k + 1].part = M!NextPart(rule, m[k].part)

\* An element and a list behind it.
LEMMA OneInFront ==
    ASSUME NEW A, NEW x \in A, NEW s \in Seq(A)
    PROVE  /\ <<x>> \o s \in Seq(A) /\ Len(<<x>> \o s) = Len(s) + 1
           /\ (<<x>> \o s)[1] = x
           /\ \A j \in 1 .. Len(s) : (<<x>> \o s)[j + 1] = s[j]
<1> DEFINE t == <<x>>
<1>1. t \in Seq(A) /\ Len(t) = 1 /\ t[1] = x
  OBVIOUS
<1> HIDE DEF t
<1>2. /\ t \o s \in Seq(A) /\ Len(t \o s) = Len(t) + Len(s)
      /\ \A j \in 1 .. Len(t) : (t \o s)[j] = t[j]
      /\ \A j \in 1 .. Len(s) : (t \o s)[Len(t) + j] = s[j]
  <2>1. t \in Seq(A) /\ s \in Seq(A)
    BY <1>1
  <2> QED BY <2>1, JoinedLists, SMTT(20)
<1>3. Len(s) \in Nat /\ \A j \in 1 .. Len(s) : 1 + j = j + 1
  OBVIOUS
<1> DEFINE m == t \o s
<1>4. m \in Seq(A) /\ Len(m) = 1 + Len(s) /\ m[1] = x
  BY <1>1, <1>2
<1>5. \A j \in 1 .. Len(s) : m[j + 1] = s[j]
  BY <1>1, <1>2, <1>3
<1> HIDE DEF m
<1>6. Len(m) = Len(s) + 1
  BY <1>3, <1>4
<1> QED BY <1>4, <1>5, <1>6 DEF m, t

\* A part that is met makes a longer chain.
LEMMA ChainGrows ==
    ASSUME NEW rule \in Rule, NEW line \in Line, NEW i \in 1 .. Len(rule),
           NEW p \in 1 .. Len(line) + 1, NEW to \in M!Ends(rule, line, i, p),
           NEW rest, Chain(rule, line, rest, M!NextPart(rule, i), to)
    PROVE  Chain(rule, line, <<[part |-> i, to |-> to]>> \o rest, i, p)
<1> DEFINE n == Len(rule)
           L == Len(line)
           l == Len(rest)
           x == [part |-> i, to |-> to]
           m == <<x>> \o rest
           q == M!NextPart(rule, i)
           A == Met(rule, line)
<1>1. n \in Nat /\ L \in Nat /\ to \in 1 .. L + 1
  BY EndsIs DEF Rule, Line
<1>2. x \in A /\ x.part = i /\ x.to = to
  BY <1>1 DEF Met
<1>3. rest \in Seq(A) /\ l \in Nat
  BY DEF Chain
<1>4. /\ m \in Seq(A) /\ Len(m) = l + 1 /\ m[1] = x
      /\ \A j \in 1 .. l : m[j + 1] = rest[j]
  <2> HIDE DEF x, A
  <2> QED BY <1>2, <1>3, OneInFront
<1>5. /\ l = 0 => q = n + 1 /\ to = L + 1
      /\ l # 0 => /\ rest[1].part = q /\ rest[l].to = L + 1
                  /\ M!NextPart(rule, rest[l].part) = n + 1
      /\ \A k \in 1 .. l : rest[k].to \in M!Ends(rule, line, rest[k].part, Prev(rest, k, to))
      /\ \A k \in 1 .. l - 1 : rest[k + 1].part = M!NextPart(rule, rest[k].part)
  <2>1. l = 0 <=> rest = <<>>
    BY <1>3
  <2> QED BY <2>1 DEF Chain
<1>6. m # <<>>
  BY <1>3, <1>4
<1> HIDE DEF m, x, q, l, n, L, A
<1>7. /\ m[Len(m)].to = L + 1 /\ M!NextPart(rule, m[Len(m)].part) = n + 1
  <2>1. CASE l = 0
    <3>1. m[Len(m)] = x
      BY <1>4, <2>1
    <3> QED BY <1>2, <1>5, <2>1, <3>1 DEF q
  <2>2. CASE l # 0
    <3>1. m[Len(m)] = rest[l]
      BY <1>3, <1>4, <2>2
    <3> QED BY <1>5, <2>2, <3>1
  <2> QED BY <2>1, <2>2
<1>8. ASSUME NEW k \in 1 .. Len(m)
      PROVE  m[k].to \in M!Ends(rule, line, m[k].part, Prev(m, k, p))
  <2>1. CASE k = 1
    BY <1>2, <1>4, <2>1, Zenon DEF Prev
  <2>2. CASE k # 1
    <3> DEFINE j == k - 1
    <3>1. j \in 1 .. l /\ j + 1 = k
      BY <1>3, <1>4, <2>2
    <3>2. m[k] = rest[j]
      BY <1>4, <3>1
    <3>3. Prev(rest, j, to) = Prev(m, k, p)
      <4>1. Prev(m, k, p) = m[j].to
        BY <2>2 DEF Prev
      <4>2. CASE j = 1
        BY <1>2, <1>4, <4>1, <4>2 DEF Prev
      <4>3. CASE j # 1
        <5>1. j - 1 \in 1 .. l /\ (j - 1) + 1 = j
          BY <1>3, <3>1, <4>3
        <5>2. m[j] = rest[j - 1]
          BY <1>4, <5>1
        <5> HIDE DEF j
        <5> QED BY <4>1, <4>3, <5>2, Zenon DEF Prev
      <4> QED BY <4>2, <4>3
    <3>4. rest[j].to \in M!Ends(rule, line, rest[j].part, Prev(rest, j, to))
      BY <1>5, <3>1
    <3> HIDE DEF j
    <3> QED BY <3>2, <3>3, <3>4, Zenon
  <2> QED BY <2>1, <2>2
<1>9. ASSUME NEW k \in 1 .. Len(m) - 1
      PROVE  m[k + 1].part = M!NextPart(rule, m[k].part)
  <2>1. k \in 1 .. l /\ m[k + 1] = rest[k]
    BY <1>3, <1>4
  <2>2. CASE k = 1
    <3>1. m[k] = x /\ l # 0
      BY <1>3, <1>4, <2>1, <2>2
    <3> QED BY <1>2, <1>5, <2>1, <2>2, <3>1 DEF q
  <2>3. CASE k # 1
    <3> DEFINE j == k - 1
    <3>1. j \in 1 .. l - 1 /\ j \in 1 .. l /\ j + 1 = k
      BY <1>3, <2>1, <2>3
    <3>2. m[k] = rest[j] /\ rest[k].part = M!NextPart(rule, rest[j].part)
      BY <1>4, <1>5, <3>1
    <3> HIDE DEF j
    <3> QED BY <2>1, <3>2, Zenon
  <2> QED BY <2>2, <2>3
<1> HIDE DEF Prev
<1>10. m[1].part = i
  BY <1>2, <1>4
<1> QED BY <1>4, <1>6, <1>7, <1>8, <1>9, <1>10 DEF Chain, m, x, n, L, A

\* All matches are chains.
LEMMA MatchesAreChains ==
    ASSUME NEW rule \in Rule, NEW line \in Line, NEW f,
           \A i \in 1 .. Len(rule) + 1, p \in 1 .. Len(line) + 1 :
              f[i][p] = FromAt(rule, line, f, i, p)
    PROVE  \A i \in 1 .. Len(rule) + 1, p \in 1 .. Len(line) + 1 :
              \A m \in f[i][p] : Chain(rule, line, m, i, p)
<1> DEFINE n == Len(rule)
           L == Len(line)
           Sound(i) == \A p \in 1 .. L + 1 : \A m \in f[i][p] : Chain(rule, line, m, i, p)
           T == {k \in Nat : \A i \in 1 .. n + 1 : n + 1 - k <= i => Sound(i)}
<1>1. n \in Nat /\ L \in Nat
  BY DEF Rule, Line
<1>2. Sound(n + 1)
  <2> SUFFICES ASSUME NEW p \in 1 .. L + 1, NEW m \in f[n + 1][p]
               PROVE  Chain(rule, line, m, n + 1, p)
    OBVIOUS
  <2>1. m \in FromAt(rule, line, f, n + 1, p)
    BY <1>1
  <2>2. m = <<>> /\ p = L + 1
    BY <1>1, <2>1 DEF FromAt
  <2>3. /\ <<>> \in Seq(Met(rule, line)) /\ Len(<<>>) = 0
        /\ 1 .. 0 = {} /\ 1 .. 0 - 1 = {}
    OBVIOUS
  <2>4. \A k \in 1 .. Len(m) : FALSE
    BY <2>2, <2>3
  <2>5. \A k \in 1 .. Len(m) - 1 : FALSE
    BY <2>2, <2>3
  <2> QED BY <2>2, <2>3, <2>4, <2>5 DEF Chain
<1>3. ASSUME NEW i \in 1 .. n, Sound(M!NextPart(rule, i)) PROVE Sound(i)
  <2> SUFFICES ASSUME NEW p \in 1 .. L + 1, NEW m \in f[i][p]
               PROVE  Chain(rule, line, m, i, p)
    OBVIOUS
  <2>1. m \in FromAt(rule, line, f, i, p) /\ ~(i > n)
    BY <1>1
  <2>2. PICK to \in M!Ends(rule, line, i, p) :
           \E rest \in f[M!NextPart(rule, i)][to] : m = <<[part |-> i, to |-> to]>> \o rest
    <3>1. m \in UNION {{<<[part |-> i, to |-> to]>> \o rest :
                          rest \in f[M!NextPart(rule, i)][to]} :
                      to \in M!Ends(rule, line, i, p)}
      BY <2>1, Zenon DEF FromAt
    <3> QED BY <3>1, Zenon
  <2>6. PICK rest \in f[M!NextPart(rule, i)][to] : m = <<[part |-> i, to |-> to]>> \o rest
    BY <2>2
  <2>3. to \in 1 .. L + 1
    BY <1>1, EndsIs
  <2>4. Chain(rule, line, rest, M!NextPart(rule, i), to)
    BY <1>3, <2>3
  <2>5. Chain(rule, line, <<[part |-> i, to |-> to]>> \o rest, i, p)
    BY <2>4, ChainGrows
  <2> QED BY <2>5, <2>6, Zenon
<1>4. \A i \in 1 .. n : M!NextPart(rule, i) \in i + 1 .. n + 1
  BY NextPartIs
<1> HIDE DEF Sound
<1>5. 0 \in T
  BY <1>1, <1>2
<1>6. ASSUME NEW k \in T PROVE k + 1 \in T
  <2> SUFFICES ASSUME NEW i \in 1 .. n + 1, n + 1 - (k + 1) <= i PROVE Sound(i)
    OBVIOUS
  <2>1. CASE i = n + 1
    BY <1>2, <2>1
  <2>2. CASE i # n + 1
    <3>1. i \in 1 .. n
      BY <1>1, <2>2
    <3>2. M!NextPart(rule, i) \in 1 .. n + 1 /\ n + 1 - k <= M!NextPart(rule, i)
      BY <1>1, <1>4, <3>1
    <3>3. Sound(M!NextPart(rule, i))
      BY <3>2
    <3> QED BY <1>3, <3>1, <3>3
  <2> QED BY <2>1, <2>2
<1>7. T = Nat
  <2>1. T \subseteq Nat
    OBVIOUS
  <2> HIDE DEF T
  <2> QED BY <1>5, <1>6, <2>1, NatSetInduction
<1>8. \A i \in 1 .. n + 1 : Sound(i)
  <2>1. n \in T
    <3> HIDE DEF T
    <3> QED BY <1>1, <1>7
  <2>2. \A i \in 1 .. n + 1 : n + 1 - n <= i
    BY <1>1
  <2> QED BY <2>1, <2>2
<1> QED BY <1>8 DEF Sound

\* What a match divides, and what it passes over.
LEMMA ChainDivides ==
    ASSUME M!MatcherAssumption, NEW rule \in Rule, NEW line \in Line,
           NEW m, Chain(rule, line, m, 1, 1)
    PROVE  M!Divides([k \in DOMAIN m |-> rule[m[k].part]], line,
                     [k \in DOMAIN m |-> m[k].to])
<1> DEFINE n == Len(rule)
           L == Len(line)
           l == Len(m)
           r == [k \in DOMAIN m |-> rule[m[k].part]]
           c == [k \in DOMAIN m |-> m[k].to]
<1>1. n \in Nat /\ L \in Nat
  BY DEF Rule, Line
<1>2. m \in Seq(Met(rule, line)) /\ l \in Nat /\ DOMAIN m = 1 .. l
  BY DEF Chain
<1>3. ASSUME NEW k \in 1 .. l
      PROVE  /\ m[k].part \in 1 .. n /\ m[k].to \in 1 .. L + 1
             /\ r[k] = rule[m[k].part] /\ c[k] = m[k].to /\ r[k] \in Part
  <2>1. m[k] \in Met(rule, line)
    BY <1>2
  <2>2. m[k].part \in 1 .. n /\ m[k].to \in 1 .. L + 1
    BY <2>1 DEF Met
  <2>3. \A i \in 1 .. n : rule[i] \in Part
    BY DEF Rule
  <2> QED BY <1>2, <2>2, <2>3
<1>4. r \in Seq(Part) /\ Len(r) = l /\ DOMAIN r = 1 .. l
  <2> DEFINE e(k) == rule[m[k].part]
  <2>1. \A k \in 1 .. l : e(k) \in Part
    BY <1>3
  <2>2. r = [k \in 1 .. l |-> e(k)]
    BY <1>2
  <2> HIDE DEF e, r, l
  <2> QED BY <1>2, <2>1, <2>2
<1>5. ASSUME NEW k \in 1 .. l
      PROVE  /\ M!Start(c, k) = Prev(m, k, 1) /\ Prev(m, k, 1) \in 1 .. L + 1
             /\ m[k].to \in M!Ends(rule, line, m[k].part, Prev(m, k, 1))
  <2>1. k = 1 \/ k - 1 \in 1 .. l
    BY <1>2
  <2>2. M!Start(c, k) = Prev(m, k, 1)
    BY <1>3, <2>1 DEF M!Start, Prev
  <2>3. Prev(m, k, 1) \in 1 .. L + 1
    <3>1. CASE k = 1
      BY <1>1, <3>1 DEF Prev
    <3>2. CASE k # 1
      <4>1. k - 1 \in 1 .. l
        BY <2>1, <3>2
      <4>2. m[k - 1].to \in 1 .. L + 1
        BY <1>3, <4>1
      <4> QED BY <3>2, <4>2, Zenon DEF Prev
    <3> QED BY <3>1, <3>2
  <2> QED BY <2>2, <2>3 DEF Chain
<1>6. IF r = <<>> THEN line = <<>> ELSE c[Len(r)] = L + 1
  <2>1. CASE l = 0
    <3>1. m = <<>>
      BY <1>2, <2>1
    <3>2. L = 0
      BY <1>1, <3>1 DEF Chain
    <3>3. line = <<>>
      BY <3>2 DEF Line
    <3>4. r = <<>>
      BY <1>4, <2>1
    <3> QED BY <3>3, <3>4
  <2>2. CASE l # 0
    <3>1. m # <<>> /\ l \in 1 .. l
      BY <1>2, <2>2
    <3>2. m[l].to = L + 1
      BY <3>1 DEF Chain
    <3>3. r # <<>>
      BY <1>4, <2>2
    <3>4. c[l] = m[l].to
      BY <1>3, <3>1
    <3> HIDE DEF r, c, l
    <3> QED BY <1>4, <3>2, <3>3, <3>4
  <2> QED BY <2>1, <2>2
<1> HIDE DEF r, c
<1>7. ASSUME NEW k \in 1 .. l
      PROVE  /\ M!Start(c, k) <= c[k] /\ M!Piece(line, c, k) \subseteq M!Alphabet(r[k])
             /\ r[k].t \in {"lit", "date"} => c[k] = M!Start(c, k) + 1
             /\ r[k].t \in {"num", "str"} => M!Start(c, k) < c[k]
             /\ r[k].t = "str" /\ r[k].sent /\ k < l =>
                   M!Piece(line, c, k) \cap M!Alphabet(r[k + 1]) = {}
  <2> DEFINE i == m[k].part
             p == Prev(m, k, 1)
             to == m[k].to
  <2>1. /\ i \in 1 .. n /\ p \in 1 .. L + 1 /\ to \in M!Ends(rule, line, i, p)
        /\ M!Start(c, k) = p /\ c[k] = to /\ r[k] = rule[i]
    BY <1>3, <1>5
  <2> HIDE DEF i, p, to
  <2>2. /\ to \in p .. L + 1 /\ \A j \in p .. to - 1 : line[j] \in M!Chars(rule, i)
        /\ rule[i].t \in {"lit", "date"} => to = p + 1
        /\ rule[i].t \in {"num", "str"} => p < to
    BY <2>1, EndsIs
  <2>3. M!Piece(line, c, k) \subseteq M!Chars(rule, i)
    BY <2>1, <2>2 DEF M!Piece
  <2>4. /\ M!Chars(rule, i) \subseteq M!Alphabet(rule[i])
        /\ rule[i].t = "str" /\ rule[i].sent /\ i < n =>
              M!Chars(rule, i) \cap M!Alphabet(rule[i + 1]) = {}
    BY <2>1, CharsAre
  <2>5. ASSUME rule[i].t = "str", rule[i].sent, k < l
        PROVE  M!Piece(line, c, k) \cap M!Alphabet(r[k + 1]) = {}
    <3>1. k \in 1 .. l - 1 /\ k + 1 \in 1 .. l
      BY <1>2, <2>5
    <3>2. m[k + 1].part = M!NextPart(rule, i)
      BY <3>1 DEF Chain, i
    <3>3. M!NextPart(rule, i) = i + 1
      BY <2>1, <2>5, NextPartIs
    <3>4. m[k + 1].part \in 1 .. n /\ r[k + 1] = rule[i + 1]
      BY <1>3, <3>1, <3>2, <3>3
    <3>5. i < n
      BY <1>1, <2>1, <3>2, <3>3, <3>4
    <3> QED BY <2>3, <2>4, <2>5, <3>4, <3>5, Zenon
  <2>6. p <= to
    BY <2>1, <2>2
  <2>7. M!Piece(line, c, k) \subseteq M!Alphabet(rule[i])
    BY <2>3, <2>4, Zenon
  <2> QED BY <2>1, <2>2, <2>5, <2>6, <2>7
<1> QED BY <1>4, <1>6, <1>7, Zenon DEF M!Divides, r, c

\* Part i is a space, behind a "\ ".
PassedOver(rule, i) ==
    /\ rule[i] = PlainSpace
    /\ \E j \in 1 .. i - 1 :
          /\ rule[j].t = "blank"
          /\ \A k \in j + 1 .. i : rule[k] = rule[i]

\* A part that no element stands for is passed over.
LEMMA ChainPassesOver ==
    ASSUME NEW rule \in Rule, NEW line \in Line, NEW m, Chain(rule, line, m, 1, 1),
           NEW i \in 1 .. Len(rule), \A k \in 1 .. Len(m) : m[k].part # i
    PROVE  PassedOver(rule, i)
<1> SUFFICES /\ rule[i] = PlainSpace
             /\ \E j \in 1 .. i - 1 :
                   /\ rule[j].t = "blank"
                   /\ \A k \in j + 1 .. i : rule[k] = rule[i]
  BY DEF PassedOver
<1> DEFINE n == Len(rule)
           l == Len(m)
           T == {l - k : k \in {k \in 1 .. l : m[k].part < i}}
<1>1. n \in Nat /\ m \in Seq(Met(rule, line)) /\ l \in Nat
  BY DEF Rule, Chain
<1>2. l # 0 /\ m[1].part = 1 /\ M!NextPart(rule, m[l].part) = n + 1
  BY <1>1 DEF Chain
<1>3. \A k \in 1 .. l : m[k].part \in 1 .. n
  <2>1. \A k \in 1 .. l : m[k] \in Met(rule, line)
    BY <1>1
  <2>2. \A x \in Met(rule, line) : x.part \in 1 .. n
    BY DEF Met
  <2> QED BY <2>1, <2>2
<1>4. \A k \in 1 .. l - 1 : m[k + 1].part = M!NextPart(rule, m[k].part)
  BY DEF Chain
<1>5. T \in SUBSET Nat /\ T # {}
  <2>1. 1 \in 1 .. l
    BY <1>1, <1>2
  <2>2. m[1].part < i
    BY <1>2, <2>1
  <2>3. l - 1 \in T
    BY <2>1, <2>2
  <2>4. \A k \in 1 .. l : l - k \in Nat
    BY <1>1
  <2> QED BY <2>3, <2>4
<1>6. PICK d \in T : \A k \in T : d <= k
  <2> HIDE DEF T
  <2> QED BY <1>5, LeastNumber
<1>7. PICK k \in 1 .. l : m[k].part < i /\ d = l - k
  BY <1>6
<1> DEFINE j == m[k].part
           q == M!NextPart(rule, j)
<1>8. j \in 1 .. n /\ j < i
  BY <1>3, <1>7
<1>9. q > i
  <2>1. CASE k = l
    BY <1>1, <1>2, <2>1
  <2>2. CASE k # l
    <3>1. k \in 1 .. l - 1 /\ k + 1 \in 1 .. l
      BY <1>1, <2>2
    <3>2. q = m[k + 1].part
      BY <1>4, <3>1
    <3>3. ~(m[k + 1].part < i)
      <4> SUFFICES ASSUME m[k + 1].part < i PROVE FALSE
        OBVIOUS
      <4>1. l - (k + 1) \in T
        BY <3>1
      <4>2. d <= l - (k + 1)
        <5> HIDE DEF T
        <5> QED BY <1>6, <4>1
      <4> QED BY <1>1, <1>7, <4>2
    <3>4. m[k + 1].part # i /\ m[k + 1].part \in 1 .. n
      BY <1>3, <3>1
    <3> HIDE DEF q
    <3> QED BY <1>1, <3>2, <3>3, <3>4
  <2> QED BY <2>1, <2>2
<1> HIDE DEF j
<1>10. /\ q \in j + 1 .. n + 1
       /\ \A h \in j + 1 .. q - 1 : rule[h] = PlainSpace
       /\ rule[j].t # "blank" => q = j + 1
  BY <1>8, NextPartIs
<1> HIDE DEF q
<1>11. rule[j].t = "blank"
  BY <1>1, <1>8, <1>9, <1>10
<1>12. \A h \in j + 1 .. i : rule[h] = PlainSpace
  BY <1>1, <1>8, <1>9, <1>10
<1>13. i \in j + 1 .. i /\ j \in 1 .. i - 1
  BY <1>1, <1>8
<1> QED BY <1>11, <1>12, <1>13

-----------------------------------------------------------------------------
(* A clear division is found: each part takes just the piece that it is    *)
(* given, because the next piece begins with what the part may not take.   *)

\* Where piece i is, and what stands behind it.
LEMMA ClearPiece ==
    ASSUME NEW rule \in Rule, NEW line \in Line,
           NEW c \in [DOMAIN rule -> 2 .. Len(line) + 1], M!Clear(rule, line, c),
           NEW i \in 1 .. Len(rule)
    PROVE  /\ M!Start(c, i) \in 1 .. Len(line) /\ c[i] \in M!Start(c, i) + 1 .. Len(line) + 1
           /\ \A k \in M!Start(c, i) .. c[i] - 1 :
                 line[k] \in M!Alphabet(rule[i]) /\ line[k] \in M!Piece(line, c, i)
           /\ i = Len(rule) => c[i] = Len(line) + 1
           /\ i # Len(rule) => /\ line[c[i]] \in M!Alphabet(rule[i + 1])
                               /\ c[i] # Len(line) + 1 /\ M!Start(c, i + 1) = c[i]
<1> DEFINE n == Len(rule)
           L == Len(line)
<1>0. n \in Nat /\ L \in Nat /\ i \in 1 .. n
  BY DEF Rule, Line
<1>1. n \in Nat /\ L \in Nat /\ DOMAIN rule = 1 .. n
  BY DEF Rule, Line
<1>2. \A k \in 1 .. n : /\ M!Start(c, k) < c[k] /\ c[k] \in 2 .. L + 1
                        /\ M!Piece(line, c, k) \subseteq M!Alphabet(rule[k])
  BY <1>1 DEF M!Clear, M!Divides
<1>3. \A k \in 1 .. n : M!Start(c, k) \in 1 .. L + 1
  <2> SUFFICES ASSUME NEW k \in 1 .. n PROVE M!Start(c, k) \in 1 .. L + 1
    OBVIOUS
  <2>1. CASE k = 1
    BY <1>1, <2>1 DEF M!Start
  <2>2. CASE k # 1
    <3>1. k - 1 \in 1 .. n /\ M!Start(c, k) = c[k - 1]
      BY <1>1, <2>2 DEF M!Start
    <3> QED BY <1>2, <3>1
  <2> QED BY <2>1, <2>2
<1>4. M!Start(c, i) \in 1 .. L /\ c[i] \in M!Start(c, i) + 1 .. L + 1
  BY <1>1, <1>2, <1>3
<1>5. \A k \in 1 .. n : \A j \in M!Start(c, k) .. c[k] - 1 :
         line[j] \in M!Piece(line, c, k) /\ line[j] \in M!Alphabet(rule[k])
  <2>1. \A k \in 1 .. n : \A j \in M!Start(c, k) .. c[k] - 1 : line[j] \in M!Piece(line, c, k)
    BY Zenon DEF M!Piece
  <2> QED BY <1>2, <2>1, Zenon
<1>6. i = n => c[i] = L + 1
  <2> SUFFICES ASSUME i = n PROVE c[n] = L + 1
    OBVIOUS
  <2>1. rule # <<>>
    BY <1>1
  <2> QED BY <2>1 DEF M!Clear, M!Divides
<1>7. ASSUME i # n
      PROVE  /\ line[c[i]] \in M!Alphabet(rule[i + 1])
             /\ c[i] # L + 1 /\ M!Start(c, i + 1) = c[i]
  <2>1. i + 1 \in 1 .. n /\ i + 1 # 1 /\ (i + 1) - 1 = i
    <3> HIDE DEF n, L
    <3> QED BY <1>0, <1>7
  <2>2. M!Start(c, i + 1) = c[i]
    BY <2>1, Zenon DEF M!Start
  <2>3. c[i + 1] \in 2 .. L + 1 /\ c[i] < c[i + 1] /\ c[i] \in 2 .. L + 1
    <3>1. M!Start(c, i + 1) < c[i + 1]
      BY <1>2, <2>1
    <3> QED BY <1>2, <2>1, <2>2, <3>1
  <2>4. c[i] \in M!Start(c, i + 1) .. c[i + 1] - 1
    BY <2>2, <2>3
  <2> QED BY <1>1, <1>5, <2>1, <2>2, <2>3, <2>4
<1> QED BY <1>4, <1>5, <1>6, <1>7, Zenon

\* A part takes just its piece, and passes over no other part.
LEMMA ClearPart ==
    ASSUME M!MatcherAssumption, NEW rule \in Rule, NEW line \in Line,
           NEW c \in [DOMAIN rule -> 2 .. Len(line) + 1], M!Clear(rule, line, c),
           NEW i \in 1 .. Len(rule)
    PROVE  /\ c[i] \in M!Ends(rule, line, i, M!Start(c, i))
           /\ M!NextPart(rule, i) = i + 1
<1> DEFINE n == Len(rule)
           L == Len(line)
           p == M!Start(c, i)
           e == c[i]
           chars == M!Chars(rule, i)
           r == M!Run(line, p, chars)
<1>1. /\ n \in Nat /\ L \in Nat /\ DOMAIN rule = 1 .. n
      /\ rule[i].t \in {"lit", "blank", "num", "str", "date"}
  BY Kinds DEF Rule, Line
<1>0. n \in Nat /\ L \in Nat /\ i \in 1 .. n
  BY DEF Rule, Line
<1>2. /\ p \in 1 .. L /\ e \in p + 1 .. L + 1
      /\ \A k \in p .. e - 1 : line[k] \in M!Alphabet(rule[i]) /\ line[k] \in M!Piece(line, c, i)
      /\ i = n => e = L + 1
      /\ i # n => line[e] \in M!Alphabet(rule[i + 1])
  BY ClearPiece
<1>3. /\ rule[i].t \in {"lit", "date"} => e = p + 1
      /\ rule[i].t = "str" /\ rule[i].sent /\ i < n =>
            M!Piece(line, c, i) \cap M!Alphabet(rule[i + 1]) = {}
      /\ rule[i].t = "str" /\ ~rule[i].sent => Colon \notin M!Piece(line, c, i)
      /\ i < n =>
            CASE rule[i].t \in {"num", "blank"} -> line[e] \notin M!Alphabet(rule[i])
              [] rule[i].t = "str" ->
                    IF rule[i].sent THEN rule[i + 1].t \in {"lit", "blank"}
                    ELSE rule[i + 1] = [t |-> "lit", c |-> Colon]
              [] OTHER -> TRUE
  BY <1>1 DEF M!Clear, M!Divides
<1>4. i # n => i < n
  <2> HIDE DEF n
  <2> QED BY <1>0
<1>5. M!NextPart(rule, i) = i + 1
  <2>1. CASE rule[i].t # "blank"
    BY <2>1, NextPartIs
  <2>2. CASE i = n
    BY <2>2, NextPartIs
  <2>3. CASE rule[i].t = "blank" /\ i # n
    <3>1. line[e] \notin Blanks /\ line[e] \in M!Alphabet(rule[i + 1])
      BY <1>2, <1>3, <1>4, <2>3 DEF M!Alphabet
    <3>2. rule[i + 1] # PlainSpace
      <4> SUFFICES ASSUME rule[i + 1] = PlainSpace PROVE FALSE
        OBVIOUS
      <4>1. M!Alphabet(rule[i + 1]) = {Space}
        BY DEF M!Alphabet, PlainSpace
      <4> QED BY <3>1, <4>1 DEF M!MatcherAssumption
    <3> QED BY <3>2, NextPartIs
  <2> QED BY <2>1, <2>2, <2>3
<1> HIDE DEF p, e
<1>6. ASSUME \A k \in p .. e - 1 : line[k] \in chars, e = L + 1 \/ line[e] \notin chars
      PROVE  p + r = e /\ r # 0
  <2>1. p \in 1 .. L + 1 /\ e \in p .. L + 1
    <3> HIDE DEF chars, r, n, L
    <3> QED BY <1>0, <1>2
  <2> HIDE DEF chars
  <2>2. p + r = e
    BY <1>6, <2>1, RunTo
  <2>3. r \in 0 .. L - p + 1
    BY <2>1, RunIs
  <2>4. e > p /\ p \in Nat /\ e \in Nat
    <3> HIDE DEF r, n, L
    <3> QED BY <1>0, <1>2
  <2> HIDE DEF r
  <2> QED BY <2>2, <2>3, <2>4
<1>7. CASE rule[i].t \in {"lit", "date"}
  <2>1. chars = M!Alphabet(rule[i])
    BY <1>7 DEF M!Chars, M!Alphabet
  <2>2. p \in p .. e - 1 /\ p \in 1 .. L + 1 /\ p + 0 <= L /\ p + 0 = p
    <3> HIDE DEF chars, r, n, L
    <3> QED BY <1>0, <1>2
  <2>3. line[p] \in chars
    BY <1>2, <2>1, <2>2
  <2>4. r # 0
    <3> SUFFICES ASSUME r = 0 PROVE FALSE
      OBVIOUS
    <3>1. p + r <= L => line[p + r] \notin chars
      BY <2>2, RunIs
    <3>2. p + r = p /\ p + r <= L
      BY <2>2
    <3> HIDE DEF r, chars
    <3> QED BY <2>3, <3>1, <3>2, Zenon
  <2>5. e = p + 1
    BY <1>3, <1>7
  <2>6. M!Ends(rule, line, i, p) = {p + 1}
    BY <1>7, <2>4 DEF M!Ends
  <2> QED BY <1>5, <2>5, <2>6 DEF p, e
<1>8. CASE rule[i].t \in {"num", "blank"}
  <2>1. chars = M!Alphabet(rule[i])
    BY <1>8 DEF M!Chars, M!Alphabet
  <2>2. e = L + 1 \/ line[e] \notin chars
    BY <1>2, <1>3, <1>4, <1>8, <2>1
  <2>3. p + r = e /\ r # 0
    BY <1>2, <1>6, <2>1, <2>2
  <2>4. M!Ends(rule, line, i, p) = {p + r}
    BY <1>8, <2>3 DEF M!Ends
  <2> QED BY <1>5, <2>3, <2>4 DEF p, e
<1>9. CASE rule[i].t = "str"
  <2> DEFINE d == M!Delimiter(rule, i)
  <2>1. M!Delimited(rule, i)
    BY <1>3, <1>4, <1>9 DEF M!Delimited
  <2>2. chars = Printable \ {d}
    BY <1>9, <2>1 DEF M!Chars
  <2>3. M!Alphabet(rule[i]) = Printable
    BY <1>9 DEF M!Alphabet
  <2>4. (\A k \in p .. e - 1 : line[k] # d) /\ (e = L + 1 \/ line[e] \notin Printable \ {d})
    <3>1. CASE ~rule[i].sent
      <4>1. d = Colon
        BY <3>1, Zenon DEF M!Delimiter
      <4>2. \A k \in p .. e - 1 : line[k] # Colon
        BY <1>2, <1>3, <1>9, <3>1
      <4>3. i # n => line[e] = Colon
        <5> SUFFICES ASSUME i # n PROVE line[e] = Colon
          OBVIOUS
        <5>1. rule[i + 1] = [t |-> "lit", c |-> Colon]
          BY <1>3, <1>4, <1>9, <3>1
        <5>2. M!Alphabet(rule[i + 1]) = {Colon}
          BY <5>1 DEF M!Alphabet
        <5> QED BY <1>2, <5>2
      <4> QED BY <1>2, <4>1, <4>2, <4>3
    <3>2. CASE rule[i].sent /\ i = n
      <4>1. d = M!NoChar
        BY <3>2, Zenon DEF M!Delimiter
      <4> QED BY <1>2, <2>3, <3>2, <4>1 DEF M!MatcherAssumption
    <3>3. CASE rule[i].sent /\ i # n
      <4>1. /\ rule[i + 1].t \in {"lit", "blank"}
            /\ M!Piece(line, c, i) \cap M!Alphabet(rule[i + 1]) = {}
            /\ line[e] \in M!Alphabet(rule[i + 1])
        BY <1>2, <1>3, <1>4, <1>9, <3>3
      <4>2. CASE rule[i + 1].t = "lit"
        <5>1. d = rule[i + 1].c /\ M!Alphabet(rule[i + 1]) = {d}
          BY <3>3, <4>2 DEF M!Delimiter, M!Alphabet
        <5> HIDE DEF d
        <5> QED BY <1>2, <4>1, <5>1
      <4>3. CASE rule[i + 1].t = "blank"
        <5>1. d = Space /\ M!Alphabet(rule[i + 1]) = Blanks
          BY <3>3, <4>3 DEF M!Delimiter, M!Alphabet
        <5> HIDE DEF d
        <5> QED BY <1>2, <4>1, <5>1 DEF M!MatcherAssumption
      <4> QED BY <4>1, <4>2, <4>3
    <3> QED BY <3>1, <3>2, <3>3
  <2> HIDE DEF d
  <2>5. \A k \in p .. e - 1 : line[k] \in chars
    BY <1>2, <2>2, <2>3, <2>4
  <2>6. p + r = e /\ r # 0
    BY <1>6, <2>2, <2>4, <2>5
  <2>7. M!Ends(rule, line, i, p) = {p + r}
    BY <1>9, <2>6 DEF M!Ends
  <2> QED BY <1>5, <2>6, <2>7 DEF p, e
<1> QED BY <1>1, <1>7, <1>8, <1>9

\* So the parts from the last k on match as they are divided, for every k.
LEMMA ClearIsFound ==
    ASSUME M!MatcherAssumption, NEW rule \in Rule, NEW line \in Line,
           NEW c \in [DOMAIN rule -> 2 .. Len(line) + 1], M!Clear(rule, line, c),
           NEW f, \A i \in 1 .. Len(rule) + 1, p \in 1 .. Len(line) + 1 :
                     f[i][p] = FromAt(rule, line, f, i, p)
    PROVE  \E m \in f[1][1] : [k \in DOMAIN m |-> m[k].to] = c
<1> DEFINE n == Len(rule)
           L == Len(line)
           A == Met(rule, line)
           Is(m, k) == /\ m \in Seq(A) /\ Len(m) = k
                       /\ \A j \in 1 .. k : m[j].to = c[(n - k) + j]
           T == {k \in Nat : k <= n =>
                    \E m \in f[n + 1 - k][M!Start(c, n + 1 - k)] : Is(m, k)}
<1>1. n \in Nat /\ L \in Nat /\ DOMAIN rule = 1 .. n
  BY DEF Rule, Line
<1>2. M!Start(c, n + 1) = L + 1
  <2>1. CASE n = 0
    <3>1. L = 0
      <4>1. rule = <<>>
        BY <2>1 DEF Rule
      <4>2. line = <<>>
        BY <4>1 DEF M!Clear, M!Divides
      <4> QED BY <4>2
    <3> QED BY <2>1, <3>1 DEF M!Start
  <2>2. CASE n # 0
    <3>1. n \in 1 .. n /\ n + 1 # 1 /\ (n + 1) - 1 = n
      BY <1>1, <2>2
    <3>2. c[n] = L + 1
      BY <3>1, ClearPiece
    <3> QED BY <3>1, <3>2, Zenon DEF M!Start
  <2> QED BY <2>1, <2>2
<1> HIDE DEF Is
<1>3. 0 \in T
  <2>1. n + 1 - 0 = n + 1 /\ n + 1 \in 1 .. n + 1 /\ L + 1 \in 1 .. L + 1
        /\ n + 1 > n /\ L + 1 > L
    <3>1. n \in Nat /\ L \in Nat
      BY <1>1
    <3> HIDE DEF n, L
    <3> QED BY <3>1
  <2>2. <<>> \in f[n + 1][L + 1]
    <3>1. f[n + 1][L + 1] = FromAt(rule, line, f, n + 1, L + 1)
      BY <2>1
    <3>2. FromAt(rule, line, f, n + 1, L + 1) = {<<>>}
      BY <2>1, Zenon DEF FromAt
    <3> QED BY <3>1, <3>2
  <2>3. Is(<<>>, 0)
    BY DEF Is
  <2>4. \E m \in f[n + 1 - 0][M!Start(c, n + 1 - 0)] : Is(m, 0)
    BY <1>2, <2>1, <2>2, <2>3
  <2> QED BY <2>4
<1>4. ASSUME NEW k \in T PROVE k + 1 \in T
  <2> SUFFICES ASSUME k + 1 <= n
               PROVE  \E m \in f[n + 1 - (k + 1)][M!Start(c, n + 1 - (k + 1))] : Is(m, k + 1)
    OBVIOUS
  <2> DEFINE i == n - k
             p == M!Start(c, i)
             x == [part |-> i, to |-> c[i]]
  <2>1. /\ k \in Nat /\ i \in 1 .. n /\ n + 1 - k = i + 1 /\ n + 1 - (k + 1) = i
        /\ i \in 1 .. n + 1 /\ i + 1 # 1 /\ (i + 1) - 1 = i /\ ~(i > n)
    <3>1. n \in Nat /\ k \in Nat
      BY <1>1
    <3> HIDE DEF n, L, T, p, x
    <3> QED BY <3>1
  <2>2. PICK rest \in f[n + 1 - k][M!Start(c, n + 1 - k)] : Is(rest, k)
    <3>1. k <= n
      BY <1>1, <2>1
    <3> QED BY <3>1
  <2> HIDE DEF i
  <2>3. M!Start(c, n + 1 - k) = c[i]
    BY <2>1, Zenon DEF M!Start
  <2>4. c[i] \in M!Ends(rule, line, i, p) /\ M!NextPart(rule, i) = i + 1
    BY <2>1, ClearPart
  <2>5. p \in 1 .. L /\ p \in 1 .. L + 1 /\ ~(p > L) /\ c[i] \in 1 .. L + 1
    <3>1. p \in 1 .. L /\ c[i] \in p + 1 .. L + 1
      BY <2>1, ClearPiece
    <3> HIDE DEF p
    <3> QED BY <1>1, <3>1
  <2>6. rest \in f[M!NextPart(rule, i)][c[i]]
    BY <2>1, <2>2, <2>3, <2>4, Zenon
  <2> DEFINE m == <<x>> \o rest
  <2>7. m \in f[i][p]
    <3>1. f[i][p] = FromAt(rule, line, f, i, p)
      BY <2>1, <2>5
    <3>2. m \in FromAt(rule, line, f, i, p)
      <4> DEFINE Of(to) == {<<[part |-> i, to |-> to]>> \o r :
                               r \in f[M!NextPart(rule, i)][to]}
      <4>1. m \in Of(c[i])
        BY <2>6, Zenon
      <4>2. FromAt(rule, line, f, i, p) = UNION {Of(to) : to \in M!Ends(rule, line, i, p)}
        BY <2>1, <2>5, Zenon DEF FromAt
      <4> HIDE DEF m, Of
      <4>3. m \in UNION {Of(to) : to \in M!Ends(rule, line, i, p)}
        BY <2>4, <4>1, Zenon
      <4> QED BY <4>2, <4>3, Zenon
    <3> HIDE DEF m
    <3> QED BY <3>1, <3>2
  <2>8. Is(m, k + 1)
    <3>1. x \in A /\ x.to = c[i]
      BY <2>1, <2>5 DEF Met
    <3>2. rest \in Seq(A) /\ Len(rest) = k /\ \A j \in 1 .. k : rest[j].to = c[(n - k) + j]
      BY <2>2 DEF Is
    <3>3. /\ m \in Seq(A) /\ Len(m) = k + 1 /\ m[1] = x
          /\ \A j \in 1 .. k : m[j + 1] = rest[j]
      <4> HIDE DEF x, A
      <4> QED BY <3>1, <3>2, OneInFront
    <3> HIDE DEF m, x, A
    <3>4. ASSUME NEW j \in 1 .. k + 1 PROVE m[j].to = c[(n - (k + 1)) + j]
      <4>1. CASE j = 1
        <5>1. (n - (k + 1)) + j = i
          BY <1>1, <2>1, <4>1 DEF i
        <5> QED BY <3>1, <3>3, <4>1, <5>1, Zenon
      <4>2. CASE j # 1
        <5> DEFINE h == j - 1
        <5>1. h \in 1 .. k /\ h + 1 = j /\ (n - (k + 1)) + j = (n - k) + h
          BY <1>1, <2>1, <4>2
        <5> HIDE DEF h
        <5>2. m[j] = rest[h] /\ rest[h].to = c[(n - k) + h]
          BY <3>2, <3>3, <5>1, Zenon
        <5> QED BY <5>1, <5>2, Zenon
      <4> QED BY <4>1, <4>2
    <3> QED BY <3>3, <3>4 DEF Is, A
  <2> HIDE DEF m
  <2> QED BY <2>1, <2>7, <2>8
<1>5. T = Nat
  <2>1. T \subseteq Nat
    OBVIOUS
  <2> HIDE DEF T
  <2> QED BY <1>3, <1>4, <2>1, NatSetInduction
<1>6. PICK m \in f[1][1] : Is(m, n)
  <2>1. n \in T
    <3> HIDE DEF T
    <3> QED BY <1>1, <1>5
  <2>2. n <= n /\ n + 1 - n = 1 /\ M!Start(c, 1) = 1
    BY <1>1 DEF M!Start
  <2> QED BY <2>1, <2>2
<1>7. /\ DOMAIN m = 1 .. n
      /\ \A j \in 1 .. n : m[j].to = c[j]
  <2>1. \A j \in 1 .. n : (n - n) + j = j
    BY <1>1
  <2>2. \A j \in 1 .. n : m[j].to = c[(n - n) + j]
    BY <1>6 DEF Is
  <2>3. \A j \in 1 .. n : m[j].to = c[j]
    BY <2>1, <2>2
  <2>4. DOMAIN m = 1 .. n
    BY <1>1, <1>6 DEF Is
  <2> QED BY <2>3, <2>4
<1>8. [k \in DOMAIN m |-> m[k].to] = c
  <2>1. c = [k \in 1 .. n |-> c[k]]
    BY <1>1
  <2>2. [k \in 1 .. n |-> m[k].to] = [k \in 1 .. n |-> c[k]]
    BY <1>7
  <2> QED BY <1>7, <2>1, <2>2, Zenon
<1> QED BY <1>8

\* For any rule and line: a match is a division of the line by the parts of the
\* rule, passing over nothing but spaces behind a "\ ", and a clear division is
\* found.
THEOREM MatchesAreDivisions ==
    ASSUME M!MatcherAssumption, NEW rule \in Rule, NEW line \in Line
    PROVE  M!MatchIsDivision(rule, line)
<1>1. PICK f : /\ M!Matches(rule, line) = f[1][1]
               /\ \A i \in 1 .. Len(rule) + 1, p \in 1 .. Len(line) + 1 :
                     f[i][p] = FromAt(rule, line, f, i, p)
  BY MatchesAre
<1>2. /\ Len(rule) \in Nat /\ Len(line) \in Nat /\ DOMAIN rule = 1 .. Len(rule)
      /\ 1 \in 1 .. Len(rule) + 1 /\ 1 \in 1 .. Len(line) + 1
  BY DEF Rule, Line
<1>3. ASSUME NEW m \in M!Matches(rule, line)
      PROVE  /\ M!Divides([k \in DOMAIN m |-> rule[m[k].part]], line,
                          [k \in DOMAIN m |-> m[k].to])
             /\ \A i \in DOMAIN rule \ {m[k].part : k \in DOMAIN m} :
                   /\ rule[i] = [t |-> "lit", c |-> Space]
                   /\ \E j \in 1 .. i - 1 :
                         /\ rule[j].t = "blank"
                         /\ \A k \in j + 1 .. i : rule[k] = rule[i]
  <2>1. Chain(rule, line, m, 1, 1)
    BY <1>1, <1>2, MatchesAreChains
  <2>2. DOMAIN m = 1 .. Len(m)
    BY <2>1 DEF Chain
  <2>3. ASSUME NEW i \in DOMAIN rule \ {m[k].part : k \in DOMAIN m}
        PROVE  /\ rule[i] = [t |-> "lit", c |-> Space]
               /\ \E j \in 1 .. i - 1 :
                     /\ rule[j].t = "blank"
                     /\ \A k \in j + 1 .. i : rule[k] = rule[i]
    <3>1. i \in 1 .. Len(rule)
      BY <1>2
    <3>2. \A k \in 1 .. Len(m) : m[k].part # i
      BY <1>2, <2>2
    <3>3. PassedOver(rule, i)
      BY <2>1, <3>1, <3>2, ChainPassesOver
    <3> QED BY <3>3 DEF PassedOver, PlainSpace
  <2>4. M!Divides([k \in DOMAIN m |-> rule[m[k].part]], line, [k \in DOMAIN m |-> m[k].to])
    BY <2>1, ChainDivides
  <2> QED BY <2>3, <2>4
<1>4. ASSUME NEW c \in [DOMAIN rule -> 2 .. Len(line) + 1], M!Clear(rule, line, c)
      PROVE  \E m \in M!Matches(rule, line) : [k \in DOMAIN m |-> m[k].to] = c
  BY <1>1, <1>4, ClearIsFound
<1> QED BY <1>3, <1>4, Zenon DEF M!MatchIsDivision

-----------------------------------------------------------------------------
(* The conditions of a count query.  In a request whose parts have names,  *)
(* part k lays one token or two behind those of the parts before it: two   *)
(* each, if it is proper, and an odd number in all, if one value is empty. *)

\* atoi() is right about the numbers that an int can hold.
LEMMA AtoiOfInt ==
    ASSUME IntWidth \in Nat \ {0}, NEW v \in Value, C!AnInt(v)
    PROVE  C!Atoi(v) = v.num
<1> DEFINE h == IntWidth \div 2
           n == v.num
<1>1. /\ h \in Nat /\ n \in Int /\ -h <= n /\ n < h
      /\ 2 * h <= IntWidth
  <2>1. IntWidth \div 2 \in Nat /\ 2 * (IntWidth \div 2) <= IntWidth
    OBVIOUS
  <2> QED BY <2>1 DEF C!AnInt, Value
<1>2. C!Atoi(v) = ((n + h) % IntWidth) - h
  BY DEF C!Atoi
<1> HIDE DEF h, n
<1>3. n + h \in 0 .. IntWidth - 1
  BY <1>1
<1>4. (n + h) % IntWidth = n + h
  BY <1>3
<1> QED BY <1>1, <1>2, <1>4 DEF n

\* A name ends with itself.
LEMMA SuffixOfItself ==
    ASSUME NEW s \in Seq(Letters)
    PROVE  C!IsSuffix(s, s)
<1> DEFINE r == C!Reverse(s)
<1>1. Len(r) \in Nat
  <2>1. r = [i \in 1 .. Len(s) |-> s[(Len(s) - i) + 1]]
    BY DEF C!Reverse
  <2>2. Len(s) \in Nat
    OBVIOUS
  <2>3. r \in Seq(Letters)
    <3>1. \A i \in 1 .. Len(s) : s[(Len(s) - i) + 1] \in Letters
      BY <2>2
    <3> QED BY <2>1, <2>2, <3>1
  <2> QED BY <2>3
<1> QED BY <1>1 DEF C!IsSuffix, C!IsPrefix

\* An argument meets a condition of its name as its type says; one of another
\* name meets it only if its name is longer.
LEMMA ArgMeetsAsTyped ==
    ASSUME IntWidth \in Nat \ {0}, NEW c \in Condition, NEW arg \in Argument,
           C!AnInt(c.value), C!AnInt(arg.value)
    PROVE  /\ C!Typed(c, arg) => C!ArgMeets(c, arg)
           /\ C!ArgMeets(c, arg) /\ ~C!IsStrictSuffix(c.name, arg.name) => C!Typed(c, arg)
<1>1. /\ C!Atoi(c.value) = c.value.num /\ C!Atoi(arg.value) = arg.value.num
      /\ c.name \in Seq(Letters)
  BY AtoiOfInt DEF Condition, Argument
<1>2. C!IsSuffix(c.name, c.name)
  BY <1>1, SuffixOfItself
<1> QED BY <1>1, <1>2 DEF C!Typed, C!ArgMeets, C!IsStrictSuffix

\* For any conditions and entry: an entry that meets the conditions as they are
\* meant is counted, and no other, unless an argument has a longer name.
THEOREM EntriesCountAsMeant ==
    ASSUME IntWidth \in Nat \ {0}, NEW conditions \in Seq(Condition), NEW entry \in LogEntry
    PROVE  C!CountsAsMeant(conditions, entry)
<1> DEFINE n == Len(conditions)
           args == entry.args
           longer == \E k \in DOMAIN conditions, j \in DOMAIN args :
                        C!IsStrictSuffix(conditions[k].name, args[j].name)
<1> SUFFICES ASSUME \A k \in DOMAIN conditions : C!AnInt(conditions[k].value),
                    \A j \in DOMAIN args : C!AnInt(args[j].value)
             PROVE  \A k \in DOMAIN conditions :
                       /\ C!IsMeant(conditions[k], entry) => C!Meets(conditions[k], entry)
                       /\ C!Meets(conditions[k], entry) /\ ~longer
                             => C!IsMeant(conditions[k], entry)
  BY DEF C!CountsAsMeant, C!Counted
<1> TAKE k \in DOMAIN conditions
<1> DEFINE c == conditions[k]
<1>1. c \in Condition /\ args \in Seq(Argument) /\ C!AnInt(c.value)
  BY DEF LogEntry
<1>2. ASSUME NEW j \in DOMAIN args
      PROVE  /\ C!Typed(c, args[j]) => C!ArgMeets(c, args[j])
             /\ C!ArgMeets(c, args[j]) /\ ~longer => C!Typed(c, args[j])
  <2>1. args[j] \in Argument
    BY <1>1
  <2>2. ~longer => ~C!IsStrictSuffix(c.name, args[j].name)
    OBVIOUS
  <2> HIDE DEF c, longer
  <2> QED BY <1>1, <2>1, <2>2, ArgMeetsAsTyped
<1> HIDE DEF c, longer
<1> QED BY <1>2 DEF C!IsMeant, C!Meets, c

-----------------------------------------------------------------------------
\* Reading the conditions.
\* The tokens of part k of a request.
Heads(request, k) ==
    IF k = 1 /\ request[k].name = <<>> /\ request[k].op = <<>> THEN <<>>
    ELSE <<[head |-> TRUE, c |-> request[k]]>>

TokensOf(request, k) ==
    Heads(request, k) \o
    (IF request[k].value = Empty THEN <<>> ELSE <<[head |-> FALSE, c |-> request[k]]>>)

Tokenized(request) == [k \in DOMAIN request |-> TokensOf(request, k)]

\* Lists of one and of two.
LEMMA OneAndOne ==
    ASSUME NEW x, NEW y
    PROVE  <<x>> \o <<>> = <<x>> /\ <<x>> \o <<y>> = <<x, y>>
<1> DEFINE A == {x, y}
           s == <<x>> \o <<y>>
           t == <<x, y>>
<1>1. <<x>> \in Seq(A) /\ <<y>> \in Seq(A) /\ t \in Seq(A)
  OBVIOUS
<1>2. <<x>> \o <<>> = <<x>>
  BY <1>1, ConcatEmptySeq
<1>3. s \in Seq(A) /\ Len(s) = 2 /\ s[1] = x /\ s[2] = y
  OBVIOUS
<1>4. Len(t) = 2 /\ t[1] = x /\ t[2] = y
  OBVIOUS
<1> HIDE DEF A, s, t
<1>5. \A j \in 1 .. Len(s) : s[j] = t[j]
  <2>1. \A j \in 1 .. 2 : j = 1 \/ j = 2
    OBVIOUS
  <2> QED BY <1>3, <1>4, <2>1
<1>6. s = t
  BY <1>1, <1>3, <1>4, <1>5, EqualLists
<1> QED BY <1>2, <1>6 DEF s, t

\* The tokens of a request are those of its parts, one behind another.
LEMMA TokensAreJoined ==
    ASSUME NEW request
    PROVE  C!Tokens(request) = FlattenSeq(Tokenized(request))
BY DEF C!Tokens, C!FlattenSeq, FlattenSeq, Tokenized, TokensOf, Heads

\* Where the tokens of the parts of a request are: at most two of each.
Laid(p, request, own) ==
    /\ p[0] = 0 /\ p[Len(request)] = Len(own)
    /\ \A k \in 0 .. Len(request) : p[k] \in Nat
    /\ \A k \in 1 .. Len(request) :
          /\ p[k] <= p[k - 1] + 2
          /\ request[k].name # <<>> =>
                /\ own[p[k - 1] + 1] = [head |-> TRUE, c |-> request[k]]
                /\ p[k] = p[k - 1] + (IF request[k].value = Empty THEN 1 ELSE 2)
                /\ request[k].value # Empty =>
                      own[p[k - 1] + 2] = [head |-> FALSE, c |-> request[k]]

LEMMA TokensLaid ==
    ASSUME NEW request \in Seq(RequestPart)
    PROVE  /\ C!Tokens(request) \in Seq(Token)
           /\ \E p : Laid(p, request, C!Tokens(request))
<1> DEFINE n == Len(request)
           seqs == Tokenized(request)
           b == C!Tokens(request)
           h(k) == [head |-> TRUE, c |-> request[k]]
           v(k) == [head |-> FALSE, c |-> request[k]]
<1>1. n \in Nat /\ DOMAIN request = 1 .. n /\ \A k \in 1 .. n : request[k] \in RequestPart
  OBVIOUS
<1>2. ASSUME NEW k \in 1 .. n
      PROVE  TokensOf(request, k) \in {<<>>, <<h(k)>>, <<v(k)>>, <<h(k), v(k)>>}
  <2>1. Heads(request, k) = <<>> \/ Heads(request, k) = <<h(k)>>
    BY Zenon DEF Heads
  <2>2. TokensOf(request, k) = Heads(request, k) \o <<>>
           \/ TokensOf(request, k) = Heads(request, k) \o <<v(k)>>
    BY Zenon DEF TokensOf
  <2>3. <<h(k)>> \o <<>> = <<h(k)>> /\ <<h(k)>> \o <<v(k)>> = <<h(k), v(k)>>
    BY OneAndOne
  <2>4. <<>> \o <<>> = <<>> /\ <<>> \o <<v(k)>> = <<v(k)>>
    <3>1. <<>> \in Seq({v(k)}) /\ <<v(k)>> \in Seq({v(k)})
      OBVIOUS
    <3> QED BY <3>1, ConcatEmptySeq
  <2> HIDE DEF h, v
  <2>5. CASE Heads(request, k) = <<>>
    <3>1. TokensOf(request, k) = <<>> \o <<>> \/ TokensOf(request, k) = <<>> \o <<v(k)>>
      BY <2>2, <2>5, Zenon
    <3> QED BY <2>4, <3>1, Zenon
  <2>6. CASE Heads(request, k) = <<h(k)>>
    <3>1. TokensOf(request, k) = <<h(k)>> \o <<>>
             \/ TokensOf(request, k) = <<h(k)>> \o <<v(k)>>
      BY <2>2, <2>6, Zenon
    <3> QED BY <2>3, <3>1, Zenon
  <2> QED BY <2>1, <2>5, <2>6
<1>3. ASSUME NEW k \in 1 .. n, request[k].name # <<>>
      PROVE  TokensOf(request, k) = IF request[k].value = Empty THEN <<h(k)>>
                                    ELSE <<h(k), v(k)>>
  <2>1. Heads(request, k) = <<h(k)>>
    BY <1>3, Zenon DEF Heads
  <2>2. <<h(k)>> \o <<>> = <<h(k)>> /\ <<h(k)>> \o <<v(k)>> = <<h(k), v(k)>>
    BY OneAndOne
  <2>3. CASE request[k].value = Empty
    <3>1. TokensOf(request, k) = <<h(k)>> \o <<>>
      BY <2>1, <2>3, Zenon DEF TokensOf
    <3> QED BY <2>2, <2>3, <3>1, Zenon
  <2>4. CASE request[k].value # Empty
    <3>1. TokensOf(request, k) = <<h(k)>> \o <<v(k)>>
      BY <2>1, <2>4, Zenon DEF TokensOf
    <3> QED BY <2>2, <2>4, <3>1, Zenon
  <2> QED BY <2>3, <2>4
<1>4. ASSUME NEW k \in 1 .. n
      PROVE  /\ TokensOf(request, k) \in Seq(Token)
             /\ Len(TokensOf(request, k)) <= 2
             /\ request[k].name # <<>> =>
                   /\ Len(TokensOf(request, k)) = IF request[k].value = Empty THEN 1 ELSE 2
                   /\ TokensOf(request, k)[1] = h(k)
                   /\ request[k].value # Empty => TokensOf(request, k)[2] = v(k)
  <2>1. h(k) \in Token /\ v(k) \in Token
    BY <1>1 DEF Token
  <2> HIDE DEF h, v
  <2>2. /\ <<>> \in Seq(Token) /\ Len(<<>>) <= 2
        /\ <<h(k)>> \in Seq(Token) /\ Len(<<h(k)>>) = 1 /\ <<h(k)>>[1] = h(k)
        /\ <<v(k)>> \in Seq(Token) /\ Len(<<v(k)>>) = 1
        /\ <<h(k), v(k)>> \in Seq(Token) /\ Len(<<h(k), v(k)>>) = 2
        /\ <<h(k), v(k)>>[1] = h(k) /\ <<h(k), v(k)>>[2] = v(k)
    BY <2>1
  <2>3. 1 <= 2 /\ 2 <= 2
    OBVIOUS
  <2>4. TokensOf(request, k) \in Seq(Token) /\ Len(TokensOf(request, k)) <= 2
    BY <1>2, <2>2, <2>3, Zenon
  <2>5. ASSUME request[k].name # <<>>
        PROVE  /\ Len(TokensOf(request, k)) = IF request[k].value = Empty THEN 1 ELSE 2
               /\ TokensOf(request, k)[1] = h(k)
               /\ request[k].value # Empty => TokensOf(request, k)[2] = v(k)
    <3>1. CASE request[k].value = Empty
      BY <1>3, <2>2, <2>5, <3>1, Zenon
    <3>2. CASE request[k].value # Empty
      BY <1>3, <2>2, <2>5, <3>2, Zenon
    <3> QED BY <3>1, <3>2
  <2> QED BY <2>4, <2>5
<1>5. /\ seqs \in Seq(Seq(Token)) /\ Len(seqs) = n
      /\ \A k \in 1 .. n : seqs[k] = TokensOf(request, k)
  <2> HIDE DEF h, v, b, n
  <2>1. seqs = [k \in 1 .. n |-> TokensOf(request, k)]
    BY <1>1 DEF Tokenized
  <2>2. \A k \in 1 .. n : TokensOf(request, k) \in Seq(Token)
    BY <1>4
  <2> HIDE DEF seqs
  <2> QED BY <1>1, <2>1, <2>2
<1>6. b = FlattenSeq(seqs)
  BY TokensAreJoined
<1> HIDE DEF seqs, b, n, h, v
<1>7. b \in Seq(Token)
  BY <1>5, <1>6, FlattenHasLayout
<1>8. PICK p : Layout(p, seqs, b)
  BY <1>5, <1>6, FlattenHasLayout
<1>9. /\ p[0] = 0 /\ p[n] = Len(b) /\ \A k \in 0 .. n : p[k] \in Nat
  BY <1>1, <1>5, <1>8 DEF Layout
<1>10. ASSUME NEW k \in 1 .. n
       PROVE  /\ p[k] <= p[k - 1] + 2
              /\ request[k].name # <<>> =>
                    /\ b[p[k - 1] + 1] = h(k)
                    /\ p[k] = p[k - 1] + (IF request[k].value = Empty THEN 1 ELSE 2)
                    /\ request[k].value # Empty => b[p[k - 1] + 2] = v(k)
  <2> DEFINE t == TokensOf(request, k)
  <2>1. p[k] = p[k - 1] + Len(t) /\ \A j \in 1 .. Len(t) : b[p[k - 1] + j] = t[j]
    <3>1. k \in 1 .. Len(seqs) /\ seqs[k] = t
      BY <1>5
    <3>2. /\ p[k] = p[k - 1] + Len(seqs[k])
          /\ \A j \in 1 .. Len(seqs[k]) : b[p[k - 1] + j] = seqs[k][j]
      BY <1>8, <3>1 DEF Layout
    <3> QED BY <3>1, <3>2, Zenon
  <2>2. /\ t \in Seq(Token) /\ Len(t) <= 2
        /\ request[k].name # <<>> =>
              /\ Len(t) = IF request[k].value = Empty THEN 1 ELSE 2
              /\ t[1] = h(k)
              /\ request[k].value # Empty => t[2] = v(k)
    BY <1>4
  <2> HIDE DEF t
  <2>3. p[k - 1] \in Nat /\ Len(t) \in Nat
    <3>1. k - 1 \in 0 .. n
      BY <1>1
    <3> QED BY <1>9, <2>2, <3>1
  <2>4. p[k] <= p[k - 1] + 2
    BY <2>1, <2>2, <2>3
  <2>5. ASSUME request[k].name # <<>>
        PROVE  /\ b[p[k - 1] + 1] = h(k)
               /\ p[k] = p[k - 1] + (IF request[k].value = Empty THEN 1 ELSE 2)
               /\ request[k].value # Empty => b[p[k - 1] + 2] = v(k)
    <3>1. 1 \in 1 .. Len(t) /\ (request[k].value # Empty => 2 \in 1 .. Len(t))
      BY <2>2, <2>5
    <3> QED BY <2>1, <2>2, <2>5, <3>1
  <2> QED BY <2>4, <2>5
<1> QED BY <1>7, <1>9, <1>10, Zenon DEF Laid, n, b, h, v

\* What is read of the tokens heard, two by two.
ConditionAt(heard, k) ==
    LET Text(token) == IF token.head THEN token.c ELSE token.c.value
        c == heard[2 * k - 1].c
    IN  [name |-> C!NameOf(c), op |-> C!Operator(c.op), value |-> Text(heard[2 * k])]

Unparsable(heard) ==
    \/ heard = <<>> \/ Len(heard) % 2 = 1
    \/ \E k \in 1 .. Len(heard) \div 2 : C!Faulty(heard, k)

LEMMA ParsedIs ==
    ASSUME NEW heard
    PROVE  C!Parsed(heard) =
              IF C!Overruns(heard) THEN {Overrun}
              ELSE IF Unparsable(heard) THEN {}
              ELSE {[k \in 1 .. Len(heard) \div 2 |-> ConditionAt(heard, k)]}
BY DEF C!Parsed, Unparsable, ConditionAt

\* An operator of one character follows the name that it ends.
LEMMA OneOperator ==
    ASSUME NEW c \in RequestPart, Len(c.op) = 1
    PROVE  C!Operator(c.op) = c.op[1] /\ C!NameOf(c) = c.name
<1> DEFINE o == c.op
<1>1. /\ o \in Seq(Operators) /\ Len(o) = 1 /\ DOMAIN o = {1} /\ o[1] \in Operators
      /\ c.name \in Seq(Letters)
  BY DEF RequestPart
<1>2. C!Range(o) = {o[1]}
  BY <1>1 DEF C!Range
<1> HIDE DEF o
<1>3. C!Operator(o) = o[1]
  BY <1>1, <1>2, Zenon DEF C!Operator, Operators
<1>4. {k \in DOMAIN o : o[k] = C!Operator(o)} = {1}
  BY <1>1, <1>3
<1>5. C!Min({1}) = 1
  BY DEF C!Min
<1>6. C!NameOf(c) = c.name \o SubSeq(o, 1, 1 - 1)
  <2>1. C!NameOf(c) = c.name \o SubSeq(o, 1, C!Min({k \in DOMAIN o : o[k] = C!Operator(o)}) - 1)
    BY Zenon DEF C!NameOf, o
  <2> QED BY <1>4, <1>5, <2>1, Zenon
<1>7. SubSeq(o, 1, 1 - 1) = <<>>
  BY SubSeqEmpty
<1>8. c.name \o <<>> = c.name
  BY <1>1, ConcatEmptySeq
<1> QED BY <1>3, <1>6, <1>7, <1>8, Zenon DEF o

\* A request of at most as many conditions as there is room for overruns nothing.
LEMMA FewOverrunNothing ==
    ASSUME NEW request \in Seq(RequestPart), Len(request) <= MaxConditions
    PROVE  ~C!Overruns(C!Tokens(request))
<1> DEFINE n == Len(request)
           t == C!Tokens(request)
<1>1. n \in Nat /\ n <= MaxConditions /\ MaxConditions \in Nat
  BY AlgorithmConstants
<1>2. PICK p : Laid(p, request, t)
  BY TokensLaid
<1>3. p[0] = 0 /\ p[n] = Len(t) /\ \A k \in 0 .. n : p[k] \in Nat
  BY <1>2 DEF Laid
<1>4. \A k \in 1 .. n : p[k] <= p[k - 1] + 2
  BY <1>2 DEF Laid
<1> HIDE DEF n, t
<1> DEFINE T == {k \in Nat : k <= n => p[k] <= 2 * k}
<1>5. 0 \in T
  BY <1>3
<1>6. ASSUME NEW k \in T PROVE k + 1 \in T
  <2> SUFFICES ASSUME k + 1 <= n PROVE p[k + 1] <= 2 * (k + 1)
    OBVIOUS
  <2>1. /\ k \in Nat /\ k + 1 \in 1 .. n /\ (k + 1) - 1 = k /\ p[k] <= 2 * k
        /\ k \in 0 .. n /\ k + 1 \in 0 .. n
    BY <1>1
  <2>2. p[k + 1] <= p[(k + 1) - 1] + 2
    BY <1>4, <2>1
  <2>3. p[k] \in Nat /\ p[k + 1] \in Nat
    BY <1>3, <2>1
  <2> HIDE DEF T
  <2> QED BY <2>1, <2>2, <2>3
<1>7. T = Nat
  <2>1. T \subseteq Nat
    OBVIOUS
  <2> HIDE DEF T
  <2> QED BY <1>5, <1>6, <2>1, NatSetInduction
<1>8. Len(t) <= 2 * n /\ Len(t) \in Nat
  <2>1. n \in T /\ n \in 0 .. n
    BY <1>1, <1>7
  <2> QED BY <1>1, <1>3, <2>1
<1>9. ~(Len(t) > 2 * MaxConditions)
  BY <1>1, <1>8
<1> QED BY <1>9, Zenon DEF C!Overruns, t

\* A request whose parts all have a name, of which one has no value, is refused.
LEMMA EmptyValueRefused ==
    ASSUME NEW request \in Seq(RequestPart), Len(request) <= MaxConditions,
           \A k \in DOMAIN request : request[k].name # <<>>,
           C!Cardinality({k \in DOMAIN request : request[k].value = Empty}) = 1
    PROVE  C!Parsed(C!Tokens(request)) = {}
<1> DEFINE n == Len(request)
           t == C!Tokens(request)
           E == {k \in DOMAIN request : request[k].value = Empty}
<1>1. n \in Nat /\ DOMAIN request = 1 .. n
  OBVIOUS
<1>2. PICK e : E = {e}
  <2>1. IsFiniteSet(1 .. n)
    <3> HIDE DEF n, E
    <3>1. 1 \in Int /\ n \in Int
      BY <1>1
    <3> QED BY <3>1, FS_Interval
  <2>2. IsFiniteSet(E)
    BY <1>1, <2>1, FS_Subset
  <2>3. Cardinality(E) = 1
    BY DEF C!Cardinality, Cardinality
  <2> HIDE DEF E
  <2> QED BY <2>2, <2>3, FS_Singleton
<1>3. e \in 1 .. n /\ \A k \in 1 .. n : request[k].value = Empty <=> k = e
  BY <1>1, <1>2
<1>4. PICK p : /\ p[0] = 0 /\ p[n] = Len(t)
               /\ \A k \in 0 .. n : p[k] \in Nat
               /\ \A k \in 1 .. n :
                     p[k] = p[k - 1] + (IF request[k].value = Empty THEN 1 ELSE 2)
  <2>1. PICK p : Laid(p, request, t)
    BY TokensLaid
  <2> HIDE DEF t
  <2> QED BY <1>1, <2>1 DEF Laid
<1> HIDE DEF n, t, E
<1> DEFINE T == {k \in Nat : k <= n => p[k] = IF k < e THEN 2 * k ELSE 2 * k - 1}
<1>5. 0 \in T
  BY <1>3, <1>4
<1>6. ASSUME NEW k \in T PROVE k + 1 \in T
  <2> SUFFICES ASSUME k + 1 <= n
               PROVE  p[k + 1] = IF k + 1 < e THEN 2 * (k + 1) ELSE 2 * (k + 1) - 1
    OBVIOUS
  <2>1. /\ k \in Nat /\ k + 1 \in 1 .. n /\ (k + 1) - 1 = k /\ e \in Nat
        /\ p[k] = IF k < e THEN 2 * k ELSE 2 * k - 1
    BY <1>1, <1>3
  <2>2. p[k + 1] = p[(k + 1) - 1] + (IF request[k + 1].value = Empty THEN 1 ELSE 2)
    BY <1>4, <2>1
  <2>3. p[k + 1] = p[k] + (IF k + 1 = e THEN 1 ELSE 2)
    BY <1>3, <2>1, <2>2
  <2> HIDE DEF T
  <2> QED BY <2>1, <2>3
<1>7. T = Nat
  <2>1. T \subseteq Nat
    OBVIOUS
  <2> HIDE DEF T
  <2> QED BY <1>5, <1>6, <2>1, NatSetInduction
<1>8. p[n] = 2 * n - 1
  <2>1. n \in T
    BY <1>1, <1>7
  <2> QED BY <1>1, <1>3, <2>1
<1>9. (2 * n - 1) % 2 = 1
  BY <1>1
<1>10. Unparsable(t)
  BY <1>4, <1>8, <1>9 DEF Unparsable
<1>11. ~C!Overruns(t)
  BY FewOverrunNothing DEF t
<1> QED BY <1>10, <1>11, ParsedIs, Zenon DEF t

\* The tokens of a request in which every part is a name, an operator and a value.
LEMMA ProperTokens ==
    ASSUME NEW request \in Seq(RequestPart), C!Proper(request)
    PROVE  /\ Len(C!Tokens(request)) = 2 * Len(request)
           /\ \A k \in 1 .. Len(request) :
                 /\ C!Tokens(request)[2 * k - 1] = [head |-> TRUE, c |-> request[k]]
                 /\ C!Tokens(request)[2 * k] = [head |-> FALSE, c |-> request[k]]
<1> DEFINE n == Len(request)
           t == C!Tokens(request)
<1>1. n \in Nat /\ DOMAIN request = 1 .. n
  OBVIOUS
<1>2. \A k \in 1 .. n : request[k].name # <<>> /\ request[k].value # Empty
  BY <1>1 DEF C!Proper
<1>3. PICK p : /\ p[0] = 0 /\ p[n] = Len(t)
               /\ \A k \in 0 .. n : p[k] \in Nat
               /\ \A k \in 1 .. n :
                     /\ t[p[k - 1] + 1] = [head |-> TRUE, c |-> request[k]]
                     /\ p[k] = p[k - 1] + 2
                     /\ t[p[k - 1] + 2] = [head |-> FALSE, c |-> request[k]]
  <2>1. PICK p : Laid(p, request, t)
    BY TokensLaid
  <2> HIDE DEF t
  <2> QED BY <1>2, <2>1 DEF Laid
<1> HIDE DEF n, t
<1> DEFINE T == {k \in Nat : k <= n => p[k] = 2 * k}
<1>4. 0 \in T
  BY <1>3
<1>5. ASSUME NEW k \in T PROVE k + 1 \in T
  <2> SUFFICES ASSUME k + 1 <= n PROVE p[k + 1] = 2 * (k + 1)
    OBVIOUS
  <2>1. k \in Nat /\ k + 1 \in 1 .. n /\ (k + 1) - 1 = k /\ p[k] = 2 * k
    BY <1>1
  <2>2. p[k + 1] = p[(k + 1) - 1] + 2
    BY <1>3, <2>1
  <2> QED BY <2>1, <2>2
<1>6. T = Nat
  <2>1. T \subseteq Nat
    OBVIOUS
  <2> HIDE DEF T
  <2> QED BY <1>4, <1>5, <2>1, NatSetInduction
<1>7. ASSUME NEW k \in 0 .. n PROVE p[k] = 2 * k
  <2>1. k \in T
    BY <1>6
  <2> QED BY <1>1, <2>1
<1>8. ASSUME NEW k \in 1 .. n
      PROVE  /\ t[2 * k - 1] = [head |-> TRUE, c |-> request[k]]
             /\ t[2 * k] = [head |-> FALSE, c |-> request[k]]
  <2>1. k - 1 \in 0 .. n /\ 2 * (k - 1) + 1 = 2 * k - 1 /\ 2 * (k - 1) + 2 = 2 * k
    BY <1>1
  <2>2. p[k - 1] = 2 * (k - 1)
    BY <1>7, <2>1
  <2>3. /\ t[p[k - 1] + 1] = [head |-> TRUE, c |-> request[k]]
        /\ t[p[k - 1] + 2] = [head |-> FALSE, c |-> request[k]]
    BY <1>3
  <2> QED BY <2>1, <2>2, <2>3, Zenon
<1>9. Len(t) = 2 * n
  BY <1>1, <1>3, <1>7
<1> QED BY <1>8, <1>9 DEF n, t

\* A proper condition is read from its two tokens.
LEMMA ConditionIsRead ==
    ASSUME NEW c \in RequestPart, c.name # <<>>, Len(c.op) = 1,
           NEW heard, NEW k \in Nat,
           heard[2 * k - 1] = [head |-> TRUE, c |-> c],
           heard[2 * k] = [head |-> FALSE, c |-> c]
    PROVE  /\ ~C!Faulty(heard, k)
           /\ ConditionAt(heard, k) = [c EXCEPT !.op = @[1]]
<1>1. /\ [head |-> TRUE, c |-> c].head /\ [head |-> TRUE, c |-> c].c = c
      /\ ~[head |-> FALSE, c |-> c].head /\ [head |-> FALSE, c |-> c].c = c
  OBVIOUS
<1>2. /\ heard[2 * k - 1].head /\ heard[2 * k - 1].c = c
      /\ ~heard[2 * k].head /\ heard[2 * k].c = c
  BY <1>1, Zenon
<1>3. C!NameOf(c) = c.name /\ C!Operator(c.op) = c.op[1] /\ c.op # <<>>
  <2>1. Len(<<>>) # 1
    OBVIOUS
  <2> QED BY <2>1, OneOperator, Zenon
<1>4. ~C!Faulty(heard, k)
  BY <1>2, <1>3, Zenon DEF C!Faulty
<1>5. ConditionAt(heard, k) = [name |-> c.name, op |-> c.op[1], value |-> c.value]
  BY <1>2, <1>3, Zenon DEF ConditionAt
<1>6. [c EXCEPT !.op = @[1]] = [name |-> c.name, op |-> c.op[1], value |-> c.value]
  <2>1. PICK a, b, d : c = [name |-> a, op |-> b, value |-> d]
    BY Zenon DEF RequestPart
  <2> DEFINE o == b[1]
  <2> HIDE DEF o
  <2>2. [c EXCEPT !.op = o] = [name |-> a, op |-> o, value |-> d]
    BY <2>1
  <2>3. c.name = a /\ c.op = b /\ c.value = d
    BY <2>1
  <2> QED BY <2>2, <2>3, Zenon DEF o
<1> QED BY <1>4, <1>5, <1>6, Zenon

Sent(request) == [k \in DOMAIN request |-> [request[k] EXCEPT !.op = @[1]]]

\* The conditions of a proper request are read as they were sent, as far as the
\* tokens that are heard are its own.
LEMMA OwnAreRead ==
    ASSUME NEW request \in Seq(RequestPart), C!Proper(request),
           NEW heard, NEW k \in DOMAIN request,
           \A j \in 1 .. 2 * k : heard[j] = C!Tokens(request)[j]
    PROVE  /\ ~C!Faulty(heard, k)
           /\ ConditionAt(heard, k) = Sent(request)[k]
<1>1. k \in 1 .. Len(request) /\ k \in Nat /\ request[k] \in RequestPart
  OBVIOUS
<1>2. 2 * k - 1 \in 1 .. 2 * k /\ 2 * k \in 1 .. 2 * k
  BY <1>1
<1>3. /\ heard[2 * k - 1] = [head |-> TRUE, c |-> request[k]]
      /\ heard[2 * k] = [head |-> FALSE, c |-> request[k]]
  BY <1>1, <1>2, ProperTokens
<1>4. request[k].name # <<>> /\ Len(request[k].op) = 1
  BY DEF C!Proper
<1>5. Sent(request)[k] = [request[k] EXCEPT !.op = @[1]]
  BY DEF Sent
<1> QED BY <1>1, <1>3, <1>4, <1>5, ConditionIsRead

\* A request in which every part is a name, an operator and a value is read so.
LEMMA ProperIsRead ==
    ASSUME NEW request \in Seq(RequestPart), C!Proper(request), request # <<>>,
           Len(request) <= MaxConditions
    PROVE  C!Parsed(C!Tokens(request)) = {Sent(request)}
<1> DEFINE n == Len(request)
           t == C!Tokens(request)
<1>1. n \in Nat \ {0} /\ DOMAIN request = 1 .. n
  OBVIOUS
<1>2. Len(t) = 2 * n
  BY ProperTokens
<1>3. \A k \in 1 .. n : ~C!Faulty(t, k) /\ ConditionAt(t, k) = Sent(request)[k]
  BY <1>1, OwnAreRead
<1>4. ~C!Overruns(t)
  BY FewOverrunNothing
<1> HIDE DEF n, t
<1>5. Len(t) \div 2 = n /\ ~(Len(t) % 2 = 1) /\ t # <<>>
  <2>1. (2 * n) \div 2 = n /\ (2 * n) % 2 = 0 /\ 2 * n # 0
    BY <1>1
  <2>2. Len(<<>>) = 0
    OBVIOUS
  <2> QED BY <1>2, <2>1, <2>2
<1>6. ~Unparsable(t)
  BY <1>3, <1>5, Zenon DEF Unparsable
<1>7. C!Parsed(t) = {[k \in 1 .. n |-> ConditionAt(t, k)]}
  BY <1>4, <1>5, <1>6, ParsedIs, Zenon
<1>8. Sent(request) = [k \in 1 .. n |-> Sent(request)[k]]
  BY <1>1 DEF Sent
<1>9. [k \in 1 .. n |-> ConditionAt(t, k)] = [k \in 1 .. n |-> Sent(request)[k]]
  BY <1>3
<1> QED BY <1>7, <1>8, <1>9, Zenon DEF t

\* For any request and whatever strtok() returns: proper conditions are read as
\* they were sent until another thread calls it; if none does and there are not too
\* many, all are, nothing is overrun, and a request of named ones with one empty value
\* is refused.
THEOREM RequestsReadAsSent ==
    ASSUME NEW request \in Seq(RequestPart), NEW heard \in Seq(Token)
    PROVE  C!ReadAsSent(request, heard)
<1> DEFINE own == C!Tokens(request)
           Undisturbed(k) == /\ 2 * k <= Len(heard)
                             /\ \A j \in 1 .. 2 * k : heard[j] = own[j]
<1>1. ASSUME heard = own, Len(request) <= MaxConditions
      PROVE  /\ ~C!Overruns(heard)
             /\ C!Proper(request) /\ request # <<>> => C!Parsed(heard) = {Sent(request)}
             /\ /\ \A k \in DOMAIN request : request[k].name # <<>>
                /\ C!Cardinality({k \in DOMAIN request : request[k].value = Empty}) = 1
                => C!Parsed(heard) = {}
  BY <1>1, FewOverrunNothing, ProperIsRead, EmptyValueRefused
<1>2. ASSUME C!Proper(request), NEW read \in C!Parsed(heard), read # Overrun,
             NEW k \in DOMAIN request, Undisturbed(k)
      PROVE  k \in DOMAIN read /\ read[k] = Sent(request)[k]
  <2>1. read = [j \in 1 .. Len(heard) \div 2 |-> ConditionAt(heard, j)]
    BY <1>2, ParsedIs, Zenon
  <2>2. k \in 1 .. Len(heard) \div 2
    <3>1. k \in Nat \ {0} /\ Len(heard) \in Nat /\ 2 * k <= Len(heard)
      BY <1>2
    <3> QED BY <3>1
  <2>3. ConditionAt(heard, k) = Sent(request)[k]
    BY <1>2, OwnAreRead
  <2> QED BY <2>1, <2>2, <2>3
<1> HIDE DEF own
<1> QED BY <1>1, <1>2, Zenon DEF C!ReadAsSent, Sent, own

-----------------------------------------------------------------------------
(* The samples of a graph.  Up to sample i, the whole seconds and the rest *)
(* make i samples and what the rest began with; behind the first the rest  *)
(* stays below two seconds, so that the last sample ends with the interval *)
(* or one second before.  A negative rest only grows.                      *)

Sample == [t : Int, rest : Int]

\* The sample that begins behind b.
NextSample(samples, seconds, b) ==
    [t |-> b.t + seconds \div samples + G!Whole(samples, b.rest),
     rest |-> G!Rest(samples, seconds, b.rest)]

Sampled(f, samples, seconds, rest0) ==
    f = [i \in 0 .. samples |->
           IF i = 0 THEN [t |-> 0, rest |-> rest0]
           ELSE LET b == f[i - 1]
                IN  [t |-> b.t + seconds \div samples + G!Whole(samples, b.rest),
                     rest |-> G!Rest(samples, seconds, b.rest)]]

\* A sample takes as many seconds as the whole interval has samples: what it
\* does not take is left over, and less than two of its seconds are.
LEMMA SampleTakes ==
    ASSUME NEW N \in Nat \ {0}, NEW seconds \in Nat, NEW b \in Sample
    PROVE  /\ NextSample(N, seconds, b) \in Sample
           /\ NextSample(N, seconds, b).t = (b.t + seconds \div N) + G!Whole(N, b.rest)
           /\ G!Whole(N, b.rest) \in Int
           /\ b.rest >= 0 =>
                 /\ NextSample(N, seconds, b).rest \in 0 .. 2 * N - 2
                 /\ NextSample(N, seconds, b).t * N + NextSample(N, seconds, b).rest
                       = (b.t * N + b.rest) + seconds
           /\ b.rest < 0 => b.rest <= NextSample(N, seconds, b).rest
<1> DEFINE q == seconds \div N
           m == seconds % N
           r == b.rest
           w == G!Whole(N, r)
           rest == G!Rest(N, seconds, r)
           t == b.t + q + w
<1>1. /\ r \in Int /\ b.t \in Int /\ q \in Nat /\ m \in 0 .. N - 1
      /\ seconds = q * N + m
  BY Division DEF Sample
<1>2. w \in Int /\ rest \in Int
  BY <1>1 DEF G!Whole, G!Rest
<1>3. NextSample(N, seconds, b) = [t |-> t, rest |-> rest]
  BY DEF NextSample
<1>4. ASSUME r >= 0
      PROVE  /\ w \in Nat /\ rest \in 0 .. 2 * N - 2
             /\ w * N + rest = r + m
  <2> DEFINE k == r \div N
             o == r % N
  <2>1. r \in Nat /\ k \in Nat /\ o \in 0 .. N - 1 /\ r = k * N + o /\ w = k
    <3>1. r \in Nat
      BY <1>1, <1>4
    <3>2. k \in Nat /\ o \in 0 .. N - 1 /\ r = k * N + o
      BY <3>1, Division
    <3>3. w = k
      BY <1>4, Zenon DEF G!Whole
    <3> QED BY <3>1, <3>2, <3>3
  <2>2. rest = (IF r >= N THEN o ELSE r) + m
    BY DEF G!Rest
  <2> HIDE DEF k, o, q, m, r, w, rest
  <2>3. CASE r >= N
    <3>1. rest = o + m
      BY <2>2, <2>3
    <3> QED BY <1>1, <2>1, <3>1
  <2>4. CASE r < N
    <3>1. k = 0
      <4>1. k >= 1 => k * N >= N
        BY <2>1
      <4> QED BY <2>1, <2>4, <4>1
    <3>2. rest = r + m /\ w * N = 0
      BY <1>1, <2>1, <2>2, <2>4, <3>1
    <3> QED BY <1>1, <2>1, <2>4, <3>1, <3>2
  <2> QED BY <1>1, <2>1, <2>3, <2>4
<1>5. [t |-> t, rest |-> rest] \in Sample
  <2>1. t \in Int
    BY <1>1, <1>2
  <2> HIDE DEF t, rest
  <2> QED BY <1>2, <2>1 DEF Sample
<1>6. ASSUME r >= 0
      PROVE  t * N + rest = (b.t * N + r) + seconds
  <2> DEFINE a == b.t
  <2>1. /\ w \in Nat /\ w * N + rest = r + m
    BY <1>4, <1>6
  <2>2. a \in Int
    BY <1>1
  <2> HIDE DEF a, q, m, r, w, rest
  <2>3. ((a + q) + w) * N = (a * N + q * N) + w * N
    BY <1>1, <2>1, <2>2
  <2>4. /\ a * N \in Int /\ q * N \in Int /\ w * N \in Int
    BY <1>1, <2>1, <2>2
  <2>5. t = (a + q) + w
    BY DEF a
  <2> DEFINE aS == a * N
             qS == q * N
             wS == w * N
  <2>6. t * N = (aS + qS) + wS
    BY <2>3, <2>5, Zenon
  <2>7. /\ aS \in Int /\ qS \in Int /\ wS \in Int
        /\ wS + rest = r + m /\ seconds = qS + m
    BY <1>1, <2>1, <2>4
  <2>8. r \in Int /\ rest \in Int /\ m \in Int
    BY <1>1, <1>2
  <2> HIDE DEF aS, qS, wS
  <2>9. ((aS + qS) + wS) + rest = (aS + r) + seconds
    BY <2>7, <2>8
  <2> QED BY <2>6, <2>9 DEF aS, a
<1>7. r < 0 => r <= rest
  <2>1. r < 0 => rest = r + m
    BY <1>1 DEF G!Rest
  <2> HIDE DEF r, m, rest
  <2> QED BY <1>1, <2>1
<1>8. t = (b.t + q) + w
  OBVIOUS
<1> HIDE DEF t, rest
<1>9. NextSample(N, seconds, b).t = t /\ NextSample(N, seconds, b).rest = rest
  BY <1>3
<1> QED BY <1>2, <1>3, <1>4, <1>5, <1>6, <1>7, <1>8, <1>9

\* The whole seconds of a rest are no less than those of a smaller one, or of none.
LEMMA WholeGrows ==
    ASSUME NEW N \in Nat \ {0}, NEW l \in Int, NEW r \in Int, l <= r \/ 0 <= r
    PROVE  G!Whole(N, l) <= G!Whole(N, r) \/ 0 <= G!Whole(N, r)
<1>1. CASE r >= 0
  <2>1. r \in Nat
    BY <1>1
  <2>2. r \div N \in Nat
    BY <2>1, Division
  <2>3. G!Whole(N, r) = r \div N
    BY <1>1, Zenon DEF G!Whole
  <2> QED BY <2>2, <2>3
<1>2. CASE r < 0
  <2> DEFINE x == -r
             y == -l
             qx == x \div N
             qy == y \div N
  <2>1. ~(r >= 0) /\ ~(l >= 0) /\ x \in Nat /\ y \in Nat /\ x <= y
    BY <1>2
  <2>2. G!Whole(N, r) = -qx /\ G!Whole(N, l) = -qy
    BY <2>1, Zenon DEF G!Whole
  <2>3. /\ qx \in Nat /\ x % N \in 0 .. N - 1 /\ x = qx * N + (x % N)
        /\ qy \in Nat /\ y % N \in 0 .. N - 1 /\ y = qy * N + (y % N)
    BY <2>1, Division
  <2> DEFINE ox == x % N
             oy == y % N
  <2> HIDE DEF x, y, qx, qy, ox, oy
  <2>4. qx * N <= qy * N + oy
    BY <2>1, <2>3 DEF ox, oy
  <2>5. qx >= qy + 1 => qx * N >= qy * N + N
    <3>1. qx >= qy + 1 => qx * N >= (qy + 1) * N
      BY <2>3
    <3>2. (qy + 1) * N = qy * N + N
      BY <2>3
    <3> QED BY <3>1, <3>2
  <2>6. qy * N \in Int /\ qx * N \in Int /\ oy < N /\ oy \in Int
    BY <2>3 DEF oy
  <2>7. ASSUME NEW a \in Int, NEW c \in Int, NEW o \in Int,
               o < N, c + N <= a, a <= c + o
        PROVE  FALSE
    BY <2>7
  <2>8. ~(qx >= qy + 1)
    <3>1. ~(qy * N + N <= qx * N)
      BY <2>4, <2>6, <2>7
    <3>2. qx >= qy + 1 => qy * N + N <= qx * N
      <4>1. qx * N >= qy * N + N => qy * N + N <= qx * N
        BY <2>6
      <4> QED BY <2>5, <4>1
    <3> QED BY <3>1, <3>2, Zenon
  <2>9. qx <= qy
    BY <2>3, <2>8
  <2> QED BY <2>2, <2>3, <2>9
<1> QED BY <1>1, <1>2

\* Begins is what its definition says: each sample begins behind the one before.
LEMMA SamplesExist ==
    ASSUME NEW N \in Nat \ {0}, NEW seconds \in Nat, NEW rest0 \in Int
    PROVE  /\ Sampled(G!Begins(N, seconds, rest0), N, seconds, rest0)
           /\ G!Begins(N, seconds, rest0) \in [0 .. N -> Sample]
           /\ G!Begins(N, seconds, rest0)[0] = [t |-> 0, rest |-> rest0]
           /\ \A i \in 1 .. N : G!Begins(N, seconds, rest0)[i] =
                                NextSample(N, seconds, G!Begins(N, seconds, rest0)[i - 1])
<1> DEFINE first == [t |-> 0, rest |-> rest0]
           step == [i \in Nat |-> [b \in Sample |-> NextSample(N, seconds, b)]]
<1>1. first \in Sample /\ N \in Nat
  BY DEF Sample
<1>2. \A b \in Sample : NextSample(N, seconds, b) \in Sample
  BY SampleTakes
<1>3. step \in [Nat -> [Sample -> Sample]]
  BY <1>2
<1>4. \A i \in Nat, b \in Sample : step[i][b] = NextSample(N, seconds, b)
  OBVIOUS
<1> HIDE DEF step, first
<1>5. PICK f : Recurs(f, Sample, first, step, N)
  BY <1>1, <1>3, RecursionOnRange
<1>6. /\ f \in [0 .. N -> Sample] /\ f[0] = first
      /\ \A i \in 1 .. N : f[i] = NextSample(N, seconds, f[i - 1])
  <2>1. /\ f \in [0 .. N -> Sample] /\ f[0] = first
        /\ \A i \in 1 .. N : f[i] = step[i][f[i - 1]]
    BY <1>5 DEF Recurs
  <2>2. ASSUME NEW i \in 1 .. N PROVE f[i] = NextSample(N, seconds, f[i - 1])
    <3>1. i \in Nat /\ i - 1 \in 0 .. N
      BY <1>1
    <3> QED BY <1>4, <2>1, <3>1
  <2> QED BY <2>1, <2>2
<1> DEFINE At(g, i) == IF i = 0 THEN [t |-> 0, rest |-> rest0]
                          ELSE NextSample(N, seconds, g[i - 1])
<1>7. \A g : Sampled(g, N, seconds, rest0) <=> g = [i \in 0 .. N |-> At(g, i)]
  BY DEF Sampled, NextSample
<1>8. ASSUME NEW i \in 0 .. N PROVE f[i] = At(f, i)
  <2>1. i = 0 \/ i \in 1 .. N
    BY <1>1
  <2> QED BY <1>6, <2>1 DEF first
<1>9. f = [i \in 0 .. N |-> At(f, i)]
  <2>1. f = [i \in 0 .. N |-> f[i]]
    BY <1>6
  <2> HIDE DEF At
  <2> QED BY <1>8, <2>1
<1>10. \E g : Sampled(g, N, seconds, rest0)
  BY <1>7, <1>9
<1> DEFINE begin == CHOOSE g : Sampled(g, N, seconds, rest0)
<1>11. G!Begins(N, seconds, rest0) = begin
  BY DEF G!Begins, Sampled
<1>12. Sampled(begin, N, seconds, rest0)
  BY <1>10, Zenon
<1> HIDE DEF begin
<1>13. begin = [i \in 0 .. N |-> At(begin, i)]
  BY <1>7, <1>12
<1>14. /\ begin[0] = [t |-> 0, rest |-> rest0]
       /\ \A i \in 1 .. N : begin[i] = NextSample(N, seconds, begin[i - 1])
  <2>1. \A i \in 0 .. N : begin[i] = At(begin, i)
    <3> HIDE DEF At
    <3> QED BY <1>13
  <2> QED BY <1>1, <2>1
<1> DEFINE T == {k \in Nat : k <= N => begin[k] \in Sample}
<1>15. 0 \in T
  BY <1>1, <1>14 DEF first
<1>16. ASSUME NEW k \in T PROVE k + 1 \in T
  <2> SUFFICES ASSUME k + 1 <= N PROVE begin[k + 1] \in Sample
    OBVIOUS
  <2>1. k \in Nat /\ k + 1 \in 1 .. N /\ (k + 1) - 1 = k /\ begin[k] \in Sample
    BY <1>1
  <2>2. begin[k + 1] = NextSample(N, seconds, begin[(k + 1) - 1])
    BY <1>14, <2>1
  <2> QED BY <1>2, <2>1, <2>2
<1>17. T = Nat
  <2>1. T \subseteq Nat
    OBVIOUS
  <2> HIDE DEF T
  <2> QED BY <1>15, <1>16, <2>1, NatSetInduction
<1>18. begin \in [0 .. N -> Sample]
  <2>1. \A i \in 0 .. N : begin[i] \in Sample
    <3> SUFFICES ASSUME NEW i \in 0 .. N PROVE begin[i] \in Sample
      OBVIOUS
    <3>1. i \in T
      BY <1>17
    <3> QED BY <1>1, <3>1
  <2> HIDE DEF At
  <2> QED BY <1>13, <2>1
<1> QED BY <1>11, <1>12, <1>14, <1>18

\* For any number of samples, seconds and entries, any queries that fail and
\* whatever rest begins with: the samples of a graph follow each other to the end of
\* the interval, which rest may have moved, and each shows its own entries.
THEOREM GraphIsPartitioned ==
    ASSUME NEW samples \in Nat \ {0}, NEW seconds \in Nat, NEW rest0 \in Int,
           NEW entries \in SUBSET Int, IsFiniteSet(entries), NEW failed
    PROVE  G!SamplesPartition(samples, seconds, rest0, entries, failed)
<1> DEFINE N == samples
           begin == G!Begins(N, seconds, rest0)
           end == seconds + rest0 \div N
           whole == seconds \div N
           shortest == IF begin[1].t < whole THEN begin[1].t ELSE whole
           Inside(i) == {x \in entries : begin[i].t <= x /\ x < begin[i + 1].t}
<1> SUFFICES /\ begin[0].t = 0
             /\ rest0 >= 0 => begin[N].t \in {end - 1, end}
             /\ \A i \in 0 .. N - 1 :
                   /\ begin[i].t + shortest <= begin[i + 1].t
                   /\ {2 * i, 2 * i + 1} \cap failed = {} =>
                         G!Shown(begin, i, entries, failed) =
                         G!Cardinality(IF begin[i].t < begin[i + 1].t THEN Inside(i)
                                       ELSE G!At(begin, i, entries))
  BY DEF G!SamplesPartition
<1>1. /\ begin \in [0 .. N -> Sample] /\ begin[0] = [t |-> 0, rest |-> rest0]
      /\ \A i \in 1 .. N : begin[i] = NextSample(N, seconds, begin[i - 1])
  BY SamplesExist
<1>2. whole \in Nat
  BY Division
<1> HIDE DEF begin, end, whole
<1>3. begin[0].t = 0 /\ begin[0].rest = rest0
  BY <1>1
<1>4. ASSUME NEW k \in Nat, k + 1 <= N
      PROVE  /\ k \in 0 .. N /\ k + 1 \in 0 .. N
             /\ begin[k] \in Sample /\ begin[k + 1] = NextSample(N, seconds, begin[k])
  <2>1. k + 1 \in 1 .. N /\ (k + 1) - 1 = k /\ k \in 0 .. N /\ k + 1 \in 0 .. N
    BY <1>4
  <2>2. begin[k + 1] = NextSample(N, seconds, begin[(k + 1) - 1])
    BY <1>1, <2>1
  <2> QED BY <1>1, <2>1, <2>2
<1>5. \A k \in 0 .. N : begin[k].t \in Int /\ begin[k].rest \in Int
  BY <1>1 DEF Sample
<1>6. rest0 >= 0 => begin[N].t \in {end - 1, end}
  <2> SUFFICES ASSUME rest0 >= 0 PROVE begin[N].t \in {end - 1, end}
    OBVIOUS
  <2> DEFINE T == {k \in Nat : k <= N =>
                      /\ begin[k].rest >= 0
                      /\ k > 0 => begin[k].rest \in 0 .. 2 * N - 2
                      /\ begin[k].t * N + begin[k].rest = rest0 + k * seconds}
  <2>1. 0 \in T
    <3>1. 0 * N = 0 /\ 0 * seconds = 0
      OBVIOUS
    <3> QED BY <1>3, <3>1
  <2>2. ASSUME NEW k \in T PROVE k + 1 \in T
    <3> SUFFICES ASSUME k + 1 <= N
                 PROVE  /\ begin[k + 1].rest \in 0 .. 2 * N - 2
                        /\ begin[k + 1].t * N + begin[k + 1].rest
                              = rest0 + (k + 1) * seconds
      OBVIOUS
    <3>1. /\ k \in Nat /\ begin[k].rest >= 0
          /\ begin[k].t * N + begin[k].rest = rest0 + k * seconds
      OBVIOUS
    <3>2. begin[k] \in Sample /\ begin[k + 1] = NextSample(N, seconds, begin[k])
      BY <1>4, <3>1
    <3>3. /\ begin[k + 1].rest \in 0 .. 2 * N - 2
          /\ begin[k + 1].t * N + begin[k + 1].rest
                = (begin[k].t * N + begin[k].rest) + seconds
      BY <3>1, <3>2, SampleTakes
    <3>4. k \in Nat
      OBVIOUS
    <3> HIDE DEF T
    <3>5. (k + 1) * seconds = k * seconds + seconds /\ k * seconds \in Int
      BY <3>4
    <3>6. (rest0 + k * seconds) + seconds = rest0 + (k + 1) * seconds
      BY <3>5
    <3> QED BY <3>1, <3>3, <3>6
  <2>3. T = Nat
    <3>1. T \subseteq Nat
      OBVIOUS
    <3> HIDE DEF T
    <3> QED BY <2>1, <2>2, <3>1, NatSetInduction
  <2>4. N \in T /\ N <= N /\ N > 0 /\ N \in 0 .. N
    BY <2>3
  <2> DEFINE t == begin[N].t
             r == begin[N].rest
             k == rest0 \div N
             o == rest0 % N
             d == (t - seconds) - k
  <2>5. t \in Int /\ r \in 0 .. 2 * N - 2 /\ t * N + r = rest0 + N * seconds
    BY <1>5, <2>4
  <2>6. k \in Nat /\ o \in 0 .. N - 1 /\ rest0 = k * N + o
    <3>1. rest0 \in Nat
      OBVIOUS
    <3> QED BY <3>1, Division
  <2> HIDE DEF t, r, k, o
  <2>7. d \in Int /\ d * N = (t * N - N * seconds) - k * N
        /\ t * N \in Int /\ N * seconds \in Int /\ k * N \in Int
    BY <2>5, <2>6
  <2>8. d * N = o - r
    BY <2>5, <2>6, <2>7
  <2> HIDE DEF d
  <2>9. d <= -2 => d * N <= (-2) * N
    BY <2>7
  <2>10. d >= 1 => d * N >= N
    BY <2>7
  <2>11. (-2) * N = -(2 * N) /\ d * N > -(2 * N) /\ d * N < N
    BY <2>5, <2>6, <2>8
  <2>12. d = -1 \/ d = 0
    BY <2>7, <2>9, <2>10, <2>11
  <2>13. t = (seconds + k) + d
    BY <2>5, <2>6 DEF d
  <2>14. t \in {(seconds + k) - 1, seconds + k}
    BY <2>6, <2>12, <2>13
  <2> QED BY <2>14 DEF end, t, k
<1>7. ASSUME NEW i \in 0 .. N - 1 PROVE begin[i].t + shortest <= begin[i + 1].t
  <2> DEFINE T == {k \in Nat : k <= N => rest0 <= begin[k].rest \/ 0 <= begin[k].rest}
  <2>1. 0 \in T
    BY <1>3
  <2>2. ASSUME NEW k \in T PROVE k + 1 \in T
    <3> SUFFICES ASSUME k + 1 <= N
                 PROVE  rest0 <= begin[k + 1].rest \/ 0 <= begin[k + 1].rest
      OBVIOUS
    <3>1. k \in Nat /\ (rest0 <= begin[k].rest \/ 0 <= begin[k].rest)
      OBVIOUS
    <3>2. /\ begin[k] \in Sample /\ begin[k + 1] = NextSample(N, seconds, begin[k])
          /\ k \in 0 .. N /\ k + 1 \in 0 .. N
      BY <1>4, <3>1
    <3>3. begin[k].rest >= 0 => begin[k + 1].rest \in 0 .. 2 * N - 2
      BY <3>2, SampleTakes
    <3>4. begin[k].rest < 0 => begin[k].rest <= begin[k + 1].rest
      BY <3>2, SampleTakes
    <3>5. begin[k].rest \in Int /\ begin[k + 1].rest \in Int
      BY <1>5, <3>2
    <3> HIDE DEF T
    <3> QED BY <3>1, <3>3, <3>4, <3>5
  <2>3. T = Nat
    <3>1. T \subseteq Nat
      OBVIOUS
    <3> HIDE DEF T
    <3> QED BY <2>1, <2>2, <3>1, NatSetInduction
  <2>4. i \in T /\ i \in Nat /\ i <= N /\ i + 1 <= N
    BY <2>3
  <2>5. begin[i].rest \in Int /\ begin[i].t \in Int
    <3>1. i \in 0 .. N
      BY <2>4
    <3> QED BY <1>5, <3>1
  <2> DEFINE w0 == G!Whole(N, rest0)
             w == G!Whole(N, begin[i].rest)
             t == begin[i].t
  <2>6. w0 <= w \/ 0 <= w
    BY <2>4, <2>5, WholeGrows
  <2>7. begin[i + 1].t = (t + whole) + w /\ w \in Int
    <3>1. begin[i] \in Sample /\ begin[i + 1] = NextSample(N, seconds, begin[i])
      BY <1>4, <2>4
    <3> QED BY <3>1, SampleTakes DEF whole
  <2>8. begin[1].t = whole + w0 /\ w0 \in Int
    <3>1. 0 \in Nat /\ 0 + 1 <= N /\ 0 + 1 = 1
      OBVIOUS
    <3>2. begin[0] \in Sample /\ begin[0 + 1] = NextSample(N, seconds, begin[0])
      BY <1>4, <3>1
    <3>3. begin[1].t = (begin[0].t + whole) + G!Whole(N, begin[0].rest)
          /\ G!Whole(N, begin[0].rest) \in Int
      BY <3>1, <3>2, SampleTakes DEF whole
    <3> QED BY <1>2, <1>3, <3>3
  <2>9. shortest = IF whole + w0 < whole THEN whole + w0 ELSE whole
    BY <2>8
  <2> HIDE DEF w0, w, t, shortest
  <2>10. t + shortest <= (t + whole) + w
    <3>1. t \in Int
      BY <2>5 DEF t
    <3> QED BY <1>2, <2>6, <2>7, <2>8, <2>9, <3>1
  <2> QED BY <2>7, <2>10 DEF t
<1>8. ASSUME NEW i \in 0 .. N - 1, {2 * i, 2 * i + 1} \cap failed = {}
      PROVE  G!Shown(begin, i, entries, failed) =
             G!Cardinality(IF begin[i].t < begin[i + 1].t THEN Inside(i)
                           ELSE G!At(begin, i, entries))
  <2> DEFINE a == begin[i].t
             z == begin[i + 1].t
             mid == {x \in entries : a < x /\ x < z}
             only == entries \cap {a}
             all == {x \in entries : a <= x /\ x < z}
  <2>1. a \in Int /\ z \in Int
    <3>1. i \in 0 .. N /\ i + 1 \in 0 .. N
      OBVIOUS
    <3> QED BY <1>5, <3>1
  <2> HIDE DEF a, z
  <2>2. mid \cap only = {} /\ (a < z => all = mid \cup only)
    <3>1. ASSUME a < z, NEW x \in entries
          PROVE  a <= x /\ x < z <=> (a < x /\ x < z) \/ x = a
      <4>1. x \in Int
        OBVIOUS
      <4> QED BY <2>1, <3>1, <4>1
    <3>2. \A x \in mid : x # a
      BY <2>1
    <3> QED BY <3>1, <3>2, Zenon
  <2>3. ~(a < z) => mid = {}
    <3>1. ASSUME NEW x \in entries PROVE a < x /\ x < z => a < z
      <4>1. x \in Int
        OBVIOUS
      <4> QED BY <2>1, <4>1
    <3> QED BY <3>1, Zenon
  <2>4. IsFiniteSet(mid) /\ IsFiniteSet(only)
    BY FS_Subset
  <2>5. Cardinality(mid \cup only) = Cardinality(mid) + Cardinality(only)
    <3>1. Cardinality(mid \cup only) =
             Cardinality(mid) + Cardinality(only) - Cardinality(mid \cap only)
      BY <2>4, FS_Union
    <3>2. Cardinality(mid \cap only) = 0
      BY <2>2, FS_EmptySet
    <3>3. Cardinality(mid) \in Nat /\ Cardinality(only) \in Nat
      BY <2>4, FS_CardinalityType
    <3> HIDE DEF mid, only, all
    <3> QED BY <3>1, <3>2, <3>3
  <2>6. 2 * i \notin failed /\ 2 * i + 1 \notin failed
    BY <1>8
  <2>7. G!Shown(begin, i, entries, failed) = G!Cardinality(mid) + G!Cardinality(only)
    BY <2>6 DEF G!Shown, G!Between, G!At, a, z
  <2>8. \A X : G!Cardinality(X) = Cardinality(X)
    BY DEF G!Cardinality, Cardinality
  <2>9. Inside(i) = all /\ G!At(begin, i, entries) = only
    BY DEF G!At, a, z
  <2> HIDE DEF Inside, mid, only, all
  <2>10. CASE a < z
    <3>1. Cardinality(all) = Cardinality(mid) + Cardinality(only)
      BY <2>2, <2>5, <2>10
    <3> QED BY <2>7, <2>8, <2>9, <2>10, <3>1, Zenon DEF a, z
  <2>11. CASE ~(a < z)
    <3>1. mid \cup only = only
      BY <2>3, <2>11
    <3> QED BY <2>5, <2>7, <2>8, <2>9, <2>11, <3>1, Zenon DEF a, z
  <2> QED BY <2>10, <2>11
<1> QED BY <1>3, <1>6, <1>7, <1>8

-----------------------------------------------------------------------------
(* The properties of the runs: the input is one there is, and stays.       *)

LEMMA InputIsOne == AlgorithmSpec => [](input \in AllInputs)
<1>1. input \in Inputs => input \in AllInputs
  BY AlgorithmConstants
<1>2. input \in AllInputs /\ [UNCHANGED input]_input => (input \in AllInputs)'
  OBVIOUS
<1> QED BY <1>1, <1>2, PTL DEF AlgorithmSpec

\* parse_entry matches any line against any rule exactly as the parts of the
\* rule divide it, and finds a division that is clear.
THEOREM MatchingDivides == AlgorithmSpec => []MatchesDivide
<1>1. input \in AllInputs => MatchesDivide
  <2> SUFFICES ASSUME input \in AllInputs, input.algorithm = "matcher"
               PROVE  M!MatchIsDivision(input.rule, input.line)
    BY DEF MatchesDivide
  <2>1. input.rule \in Rule /\ input.line \in Line
    BY DEF AllInputs
  <2> QED BY <2>1, AlgorithmConstants, MatchesAreDivisions
<1> QED BY <1>1, InputIsOne, PTL

\* Any count query is read as it was sent, up to where another thread calls strtok()
\* or there are too many conditions, and counts the entries it means.
THEOREM QueriesAreAsMeant == AlgorithmSpec => []QueryAsMeant
<1>1. input \in AllInputs => QueryAsMeant
  <2> SUFFICES ASSUME input \in AllInputs
               PROVE  /\ input.algorithm = "request" =>
                            C!ReadAsSent(input.request, input.heard)
                      /\ input.algorithm = "entry" =>
                            C!CountsAsMeant(input.conditions, input.entry)
    BY DEF QueryAsMeant
  <2>1. CASE input.algorithm = "request"
    <3>1. input.request \in Seq(RequestPart) /\ input.heard \in Seq(Token)
      BY <2>1 DEF AllInputs
    <3> QED BY <2>1, <3>1, RequestsReadAsSent
  <2>2. CASE input.algorithm = "entry"
    <3>1. input.conditions \in Seq(Condition) /\ input.entry \in LogEntry
      BY <2>2 DEF AllInputs
    <3> QED BY <2>2, <3>1, AlgorithmConstants, EntriesCountAsMeant
  <2> QED BY <2>1, <2>2
<1> QED BY <1>1, InputIsOne, PTL

\* The samples of any graph follow each other to the end of its interval, wherever
\* the uninitialised rest puts it, and each shows its own entries.
THEOREM GraphsArePartitioned == AlgorithmSpec => []GraphPartition
<1>1. input \in AllInputs => GraphPartition
  <2> SUFFICES ASSUME input \in AllInputs, input.algorithm = "graph"
               PROVE  G!SamplesPartition(input.samples, input.total, input.rest,
                                         input.entries, input.failed)
    BY DEF GraphPartition
  <2>1. /\ input.samples \in Nat \ {0} /\ input.total \in Nat /\ input.rest \in Int
        /\ input.entries \in SUBSET Int /\ IsFiniteSet(input.entries)
    BY DEF AllInputs
  <2> QED BY <2>1, GraphIsPartitioned
<1> QED BY <1>1, InputIsOne, PTL
=============================================================================
