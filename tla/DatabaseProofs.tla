-------------------------- MODULE DatabaseProofs ------------------------------
(***************************************************************************)
(* The server's database.                                                  *)
(*                                                                         *)
(* A log file, for every set of listeners, every size of the buffer and    *)
(* every text of the entries: entries stay apart, and a query that scans   *)
(* the file through its buffer while listeners append to it answers what a *)
(* reader of the whole file would have counted at one moment.              *)
(*                                                                         *)
(* The list of agents, for any number of requests and agents: a request    *)
(* that begins when the script is complete finds the agents known then.    *)
(***************************************************************************)
EXTENDS Integers, DatabaseClaims, ListLemmas, FiniteSetTheorems, TLAPS

-----------------------------------------------------------------------------
(* A log file of the database.  As long as listeners append one at a time   *)
(* and write their separators, the file is empty or ends in one when an     *)
(* entry is about to be written.                                            *)

Opens == "{"
Closes == "}"
Comma == ","
Sep == <<Comma, "\n">>
Bytes == {Opens, "m", "x", "]", Closes, Comma, "\n"}

LEMMA BytesDiffer ==
    Opens # Closes /\ Opens # Comma /\ Opens # "\n" /\ Closes # Comma /\ Closes # "\n"
  BY Zenon DEF Opens, Closes, Comma

Ends(b, k) == k > 1 /\ b[k - 1] = "]" /\ b[k] = Closes

LEMMA EndsAreEnds == \A b, k : IsEnd(b, k) <=> Ends(b, k)
  BY Zenon DEF IsEnd, Ends, Closes

\* No entry of b follows another without a separator.
Apart(b) == \A k \in 1 .. Len(b) - 1 : Ends(b, k) => b[k + 1] # Opens

EntryBytes ==
    /\ log \in Seq(Bytes)
    /\ wpc \in [Writers -> {"recv", "access", "open", "sep", "entry"}]
    /\ first \in [Writers -> BOOLEAN]
    /\ entry \in [Writers -> Entries \cup {<<>>}]
    /\ \A w \in Writers : wpc[w] # "recv" => entry[w] \in Entries

OneAtATime ==
    /\ \A v, w \in Writers : wpc[v] # "recv" /\ wpc[w] # "recv" => v = w
    /\ ~exists => log = <<>>
    /\ \A w \in Writers :
          /\ wpc[w] \in {"open", "entry"} /\ first[w] => log = <<>>
          /\ wpc[w] = "sep" => ~first[w]
          /\ wpc[w] = "entry" /\ ~first[w] => log # <<>> /\ log[Len(log)] = "\n"
          /\ wpc[w] \in {"sep", "entry"} => exists

LogInv == EntryBytes /\ (~mixed => OneAtATime /\ Apart(log))

\* Bytes appended behind a separator, or to an empty file.
LEMMA ApartEntry ==
    ASSUME NEW b \in Seq(Bytes), NEW e \in Seq(Bytes), Apart(b), Apart(e),
           e # <<>>, e[1] = Opens, b # <<>> => b[Len(b)] = "\n"
    PROVE  Apart(b \o e)
<1> SUFFICES ASSUME NEW k \in 1 .. Len(b \o e) - 1, Ends(b \o e, k)
             PROVE  (b \o e)[k + 1] # Opens
  BY DEF Apart
<1>1. /\ k \in 2 .. Len(b) + Len(e) - 1
      /\ (b \o e)[k - 1] = "]" /\ (b \o e)[k] = Closes
  BY DEF Ends
<1>2. CASE k < Len(b)
  BY <1>1, <1>2 DEF Apart, Ends
<1>3. CASE k = Len(b)
  BY <1>1, <1>3, BytesDiffer
<1>4. CASE k = Len(b) + 1
  BY <1>1, <1>4, BytesDiffer
<1>5. CASE k > Len(b) + 1
  <2> DEFINE i == k - Len(b)
  <2>1. i \in 1 .. Len(e) - 1 /\ Ends(e, i)
    BY <1>1, <1>5 DEF Ends
  <2>2. e[i + 1] # Opens
    BY <2>1 DEF Apart
  <2> QED BY <1>1, <1>5, <2>2
<1> QED BY <1>1, <1>2, <1>3, <1>4, <1>5

IsSep(e) == /\ e # <<>> /\ e[1] # Opens /\ e[Len(e)] = "\n"
            /\ \A k \in 1 .. Len(e) : e[k] # Closes

LEMMA SepIsSep == Sep \in Seq(Bytes) /\ IsSep(Sep)
  BY BytesDiffer DEF Sep, Bytes, IsSep

LEMMA ApartSep ==
    ASSUME NEW b \in Seq(Bytes), Apart(b), NEW e \in Seq(Bytes), IsSep(e)
    PROVE  Apart(b \o e)
<1> SUFFICES ASSUME NEW k \in 1 .. Len(b \o e) - 1, Ends(b \o e, k)
             PROVE  (b \o e)[k + 1] # Opens
  BY DEF Apart
<1>1. /\ k \in 2 .. Len(b) + Len(e) - 1
      /\ (b \o e)[k - 1] = "]" /\ (b \o e)[k] = Closes
  BY DEF Ends
<1>2. CASE k < Len(b)
  BY <1>1, <1>2 DEF Apart, Ends
<1>3. CASE k = Len(b)
  BY <1>1, <1>3 DEF IsSep
<1>4. CASE k > Len(b)
  BY <1>1, <1>4 DEF IsSep
<1> QED BY <1>1, <1>2, <1>3, <1>4

LEMMA LogInit == Init => LogInv
  BY DEF Init, LogInv, EntryBytes, OneAtATime, Apart

LEMMA LogStep ==
    ASSUME LogAssumption, \A e \in Entries : Apart(e), LogInv, [Next]_vars
    PROVE  LogInv'
<1>0. \A e \in Entries : e \in Seq(Bytes) /\ e # <<>> /\ e[1] = Opens
  <2>1. \A e \in Entries : /\ e \in Seq({Opens, "m", "x", "]", Closes})
                           /\ e # <<>> /\ e[1] = Opens
    BY Zenon DEF LogAssumption, Opens, Closes
  <2>2. {Opens, "m", "x", "]", Closes} \subseteq Bytes
    BY DEF Bytes
  <2> QED BY <2>1, <2>2
<1>1. ASSUME NEW w \in Writers, Receive(w) PROVE LogInv'
  <2>1. EntryBytes'
    BY <1>1 DEF Receive, Goes, scanVars, LogInv, EntryBytes
  <2>2. ~mixed' => OneAtATime' /\ Apart(log)'
    BY <1>1 DEF Receive, Goes, scanVars, LogInv, EntryBytes, OneAtATime
  <2> QED BY <2>1, <2>2 DEF LogInv
<1>2. ASSUME NEW w \in Writers, Access(w) PROVE LogInv'
  <2>1. EntryBytes'
    BY <1>2 DEF Access, Goes, LogInv, EntryBytes
  <2>2. ~mixed' => OneAtATime' /\ Apart(log)'
    BY <1>2 DEF Access, Goes, LogInv, EntryBytes, OneAtATime
  <2> QED BY <2>1, <2>2 DEF LogInv
<1>3. ASSUME NEW w \in Writers, OpenLog(w) PROVE LogInv'
  <2>1. EntryBytes'
    BY <1>3 DEF OpenLog, Goes, LogInv, EntryBytes
  <2>2. ~mixed' => OneAtATime' /\ Apart(log)'
    BY <1>3 DEF OpenLog, Goes, LogInv, EntryBytes, OneAtATime
  <2> QED BY <2>1, <2>2 DEF LogInv
<1>4. ASSUME NEW w \in Writers, WriteSep(w) PROVE LogInv'
  <2>1. PICK sep \in Seq(Bytes) :
           /\ Goes(w, "sep", "entry")
           /\ IsSep(sep)
           /\ \/ log' = log \o sep /\ UNCHANGED mixed
              \/ log' = log /\ mixed' = TRUE
           /\ UNCHANGED <<exists, first, entry>>
    <3>1. /\ Goes(w, "sep", "entry")
          /\ \/ log' = log \o Sep /\ UNCHANGED mixed
             \/ log' = log /\ mixed' = TRUE
          /\ UNCHANGED <<exists, first, entry>>
      BY <1>4, Zenon DEF WriteSep, Sep, Comma
    <3> QED BY <3>1, SepIsSep
  <2>2. /\ wpc[w] = "sep" /\ wpc' = [wpc EXCEPT ![w] = "entry"]
        /\ log' \in {log, log \o sep} /\ log' \in Seq(Bytes)
    <3>1. log \o sep \in Seq(Bytes) /\ log \in Seq(Bytes)
      BY DEF LogInv, EntryBytes
    <3> QED BY <2>1, <3>1 DEF Goes
  <2>3. EntryBytes'
    BY <2>1, <2>2 DEF LogInv, EntryBytes
  <2>4. ASSUME ~mixed' PROVE OneAtATime' /\ Apart(log)'
    <3>1. log' = log \o sep /\ ~mixed
      BY <2>1, <2>4
    <3>2. Apart(log)'
      BY <2>1, <3>1, ApartSep DEF LogInv, EntryBytes, Apart
    <3>3. log' # <<>> /\ log'[Len(log')] = "\n"
      BY <2>1, <3>1 DEF LogInv, EntryBytes, IsSep
    <3>4. \A v \in Writers : wpc[v] # "recv" => v = w
      BY <2>2, <3>1 DEF LogInv, OneAtATime
    <3>5. exists /\ ~first[w]
      BY <2>2, <3>1 DEF LogInv, OneAtATime
    <3>6. OneAtATime'
      BY <2>1, <2>2, <3>1, <3>3, <3>4, <3>5 DEF LogInv, EntryBytes, OneAtATime
    <3> QED BY <3>2, <3>6
  <2> QED BY <2>3, <2>4 DEF LogInv
<1>5. ASSUME NEW w \in Writers, WriteEntry(w) PROVE LogInv'
  <2>1. /\ wpc[w] = "entry" /\ wpc' = [wpc EXCEPT ![w] = "recv"]
        /\ log' = log \o entry[w] /\ entry' = [entry EXCEPT ![w] = <<>>]
        /\ first' = [first EXCEPT ![w] = FALSE]
        /\ UNCHANGED <<exists, mixed>>
    BY <1>5 DEF WriteEntry, Goes
  <2>2. entry[w] \in Entries
    BY <2>1 DEF LogInv, EntryBytes
  <2>3. EntryBytes'
    BY <1>0, <2>1, <2>2 DEF LogInv, EntryBytes
  <2>4. ASSUME ~mixed' PROVE OneAtATime' /\ Apart(log)'
    <3>1. Apart(log)'
      <4>1. /\ log \in Seq(Bytes) /\ Apart(log)
            /\ log # <<>> => log[Len(log)] = "\n"
        BY <2>1, <2>4 DEF LogInv, EntryBytes, OneAtATime
      <4>2. /\ entry[w] \in Seq(Bytes) /\ Apart(entry[w])
            /\ entry[w] # <<>> /\ entry[w][1] = Opens
        BY <1>0, <2>2
      <4>3. Apart(log \o entry[w])
        BY <4>1, <4>2, ApartEntry, Zenon
      <4> QED BY <2>1, <4>3, Zenon DEF Apart
    <3>2. exists /\ \A v \in Writers : wpc[v] # "recv" => v = w
      BY <2>1, <2>4 DEF LogInv, OneAtATime
    <3> QED BY <2>1, <2>4, <3>1, <3>2 DEF LogInv, EntryBytes, OneAtATime
  <2> QED BY <2>3, <2>4 DEF LogInv
<1>6. ASSUME NEW w \in Writers, Lose(w) PROVE LogInv'
  <2>1. EntryBytes'
    BY <1>6 DEF Lose, scanVars, LogInv, EntryBytes
  <2>2. ~mixed' => OneAtATime' /\ Apart(log)'
    BY <1>6 DEF Lose, scanVars, LogInv, EntryBytes, OneAtATime
  <2> QED BY <2>1, <2>2 DEF LogInv
<1>7. CASE UNCHANGED writerVars
  BY <1>7 DEF writerVars, LogInv, EntryBytes, OneAtATime
<1> QED
  BY <1>1, <1>2, <1>3, <1>4, <1>5, <1>6, <1>7
     DEF Next, WriterStep, BeginCount, ScanStep, ScanEntry, ReadFails,
         vars

\* No entry follows another without a separator, for any listeners and any
\* entries that do not look like two, while listeners append one at a time and
\* no separator is lost.
THEOREM EntriesStayApart ==
    ASSUME LogAssumption, \A e \in Entries : Apart(e)
    PROVE  Spec => []EntriesApart
<1>1. Init => LogInv
  BY LogInit
<1>2. LogInv /\ [Next]_vars => LogInv'
  BY LogStep
<1>3. LogInv => EntriesApart
  <2> SUFFICES ASSUME LogInv, ~mixed, NEW k \in End(log), k < Len(log)
               PROVE  log[k + 1] # Opens
    BY Zenon DEF EntriesApart, Opens
  <2>1. k \in 1 .. Len(log) - 1 /\ Ends(log, k)
    BY EndsAreEnds DEF End, LogInv, EntryBytes
  <2> QED BY <2>1 DEF LogInv, Apart
<1> QED BY <1>1, <1>2, <1>3, PTL DEF Spec

-----------------------------------------------------------------------------
(* The count query.  *)

StartOf(b, m) == IF m = 0 THEN 1
                 ELSE IF m < Len(b) /\ b[m + 1] = Comma
                      THEN IF m + 1 < Len(b) /\ b[m + 2] = "\n" THEN m + 3 ELSE m + 2
                      ELSE m + 1

HowRead(b, from, to) ==
    IF to - from + 1 > Cap \/ (to - from + 1 < Cap /\ to < Len(b) /\ b[to + 1] # Comma)
    THEN "not"
    ELSE IF to - from + 1 + 2 >= Cap THEN "last" ELSE "on"

Neighbours(b, m, k) ==
    /\ k \in 1 .. Len(b) /\ Ends(b, k)
    /\ m \in 0 .. k - 1 /\ (m # 0 => Ends(b, m))
    /\ \A j \in m + 1 .. k - 1 : ~Ends(b, j)

ItemOf(b, m, k) == [place |-> k, reads |-> HowRead(b, StartOf(b, m), k),
                    match |-> \E i \in StartOf(b, m) .. k : b[i] = "m"]

LEMMA BehindIs == \A b, m : m # 0 => Behind(b, m) = StartOf(b, m)
  BY Zenon DEF Behind, StartOf, Comma

LEMMA ReadsIs == \A b, from, to : Reads(b, from, to) = HowRead(b, from, to)
  BY Zenon DEF Reads, HowRead, Comma

LEMMA EndIs == ASSUME NEW b \in Seq(Bytes) PROVE End(b) = {k \in 1 .. Len(b) : Ends(b, k)}
<1>1. End(b) = {k \in DOMAIN b : Ends(b, k)}
  BY EndsAreEnds, Zenon DEF End
<1> QED BY <1>1

LEMMA StoredIs ==
    ASSUME NEW b \in Seq(Bytes), NEW x
    PROVE  x \in StoredIn(b) <=> \E m, k \in Nat : Neighbours(b, m, k) /\ x = ItemOf(b, m, k)
<1> DEFINE E == {k \in 1 .. Len(b) : Ends(b, k)}
           Start(m) == IF m = 0 THEN 1 ELSE Behind(b, m)
<1>1. x \in StoredIn(b) <=>
         \E n \in {n \in (E \cup {0}) \X E :
                     n[1] < n[2] /\ \A j \in n[1] + 1 .. n[2] - 1 : ~Ends(b, j)} :
            x = [place |-> n[2], reads |-> Reads(b, Start(n[1]), n[2]),
                 match |-> \E j \in Start(n[1]) .. n[2] : b[j] = "m"]
  BY EndIs, EndsAreEnds, Zenon DEF StoredIn
<1>2. \A m \in Nat : Start(m) = StartOf(b, m)
  BY BehindIs DEF StartOf
<1>3. ASSUME NEW m \in Nat, NEW k \in Nat
      PROVE  [place |-> k, reads |-> Reads(b, Start(m), k),
              match |-> \E j \in Start(m) .. k : b[j] = "m"] = ItemOf(b, m, k)
  BY <1>2, ReadsIs DEF ItemOf
<1>4. ASSUME NEW m \in Nat, NEW k \in Nat
      PROVE  Neighbours(b, m, k) <=>
                /\ m \in E \cup {0} /\ k \in E /\ m < k
                /\ \A j \in m + 1 .. k - 1 : ~Ends(b, j)
  BY DEF Neighbours
<1> HIDE DEF Start
<1>5. ASSUME x \in StoredIn(b)
      PROVE  \E m, k \in Nat : Neighbours(b, m, k) /\ x = ItemOf(b, m, k)
  <2>1. PICK n \in (E \cup {0}) \X E :
           /\ n[1] < n[2] /\ \A j \in n[1] + 1 .. n[2] - 1 : ~Ends(b, j)
           /\ x = [place |-> n[2], reads |-> Reads(b, Start(n[1]), n[2]),
                   match |-> \E j \in Start(n[1]) .. n[2] : b[j] = "m"]
    BY <1>1, <1>5, Zenon
  <2>2. n[1] \in Nat /\ n[2] \in Nat /\ n[1] \in E \cup {0} /\ n[2] \in E
    OBVIOUS
  <2> HIDE DEF E
  <2>3. Neighbours(b, n[1], n[2])
    BY <1>4, <2>1, <2>2
  <2>4. x = ItemOf(b, n[1], n[2])
    BY <1>3, <2>1, <2>2, Zenon
  <2> QED BY <2>2, <2>3, <2>4
<1>6. ASSUME NEW m \in Nat, NEW k \in Nat, Neighbours(b, m, k), x = ItemOf(b, m, k)
      PROVE  x \in StoredIn(b)
  <2> DEFINE n == <<m, k>>
  <2>1. /\ n \in (E \cup {0}) \X E /\ n[1] = m /\ n[2] = k
        /\ n[1] < n[2] /\ \A j \in n[1] + 1 .. n[2] - 1 : ~Ends(b, j)
    BY <1>4, <1>6
  <2>2. x = [place |-> n[2], reads |-> Reads(b, Start(n[1]), n[2]),
             match |-> \E j \in Start(n[1]) .. n[2] : b[j] = "m"]
    BY <1>3, <1>6, <2>1
  <2> HIDE DEF n, E
  <2> QED BY <1>1, <2>1, <2>2, Zenon
<1> QED BY <1>5, <1>6

\* The last thing that ends in front of an end.
LEMMA HasNeighbour ==
    ASSUME NEW b \in Seq(Bytes), NEW k \in 1 .. Len(b), Ends(b, k)
    PROVE  \E m \in Nat : Neighbours(b, m, k)
<1> DEFINE T == {n \in 1 .. k : n = k \/ Ends(b, k - n)}
<1>1. T \in SUBSET Nat /\ k \in T
  OBVIOUS
<1>2. PICK n \in T : \A j \in T : n <= j
  <2> HIDE DEF T
  <2> QED BY <1>1, LeastNumber
<1>3. n \in 1 .. k /\ (n = k \/ Ends(b, k - n))
  OBVIOUS
<1>4. ASSUME NEW j \in k - n + 1 .. k - 1 PROVE ~Ends(b, j)
  <2>1. k - j \in 1 .. k /\ k - j < n /\ k - (k - j) = j
    BY <1>3
  <2>2. k - j \notin T
    <3> HIDE DEF T
    <3> QED BY <1>2, <1>3, <2>1
  <2> QED BY <2>1, <2>2
<1>5. Neighbours(b, k - n, k)
  BY <1>3, <1>4 DEF Neighbours
<1> QED BY <1>3, <1>5

LEMMA OneNeighbour ==
    ASSUME NEW b, NEW k, NEW m, NEW n, Neighbours(b, m, k), Neighbours(b, n, k),
           k \in Nat
    PROVE  m = n
BY DEF Neighbours

LEMMA ItemPlace == \A b, m, k : ItemOf(b, m, k).place = k
BY DEF ItemOf

\* The set of entries is finite, and none of them ends where another does.
LEMMA StoredIsSound ==
    ASSUME NEW b \in Seq(Bytes)
    PROVE  /\ IsFiniteSet(StoredIn(b))
           /\ \A x, y \in StoredIn(b) : x.place = y.place => x = y
           /\ \A x \in StoredIn(b) : /\ x.place \in 1 .. Len(b) /\ Ends(b, x.place)
                                       /\ x.reads \in {"not", "last", "on"}
                                       /\ x.match \in BOOLEAN
<1>1. \A x, y \in StoredIn(b) : x.place = y.place => x = y
  <2> SUFFICES ASSUME NEW x \in StoredIn(b), NEW y \in StoredIn(b),
                      x.place = y.place
               PROVE  x = y
    OBVIOUS
  <2>1. PICK m, k \in Nat : Neighbours(b, m, k) /\ x = ItemOf(b, m, k)
    BY StoredIs
  <2>2. PICK n, l \in Nat : Neighbours(b, n, l) /\ y = ItemOf(b, n, l)
    BY StoredIs
  <2>3. k = l
    BY <2>1, <2>2, ItemPlace
  <2>4. m = n
    BY <2>1, <2>2, <2>3, OneNeighbour
  <2> QED BY <2>1, <2>2, <2>3, <2>4
<1>2. ASSUME NEW x \in StoredIn(b)
      PROVE  /\ x.place \in 1 .. Len(b) /\ Ends(b, x.place)
             /\ x.reads \in {"not", "last", "on"} /\ x.match \in BOOLEAN
  <2>1. PICK m, k \in Nat : Neighbours(b, m, k) /\ x = ItemOf(b, m, k)
    BY StoredIs
  <2>2. x.place = k /\ x.reads = HowRead(b, StartOf(b, m), k) /\ x.match \in BOOLEAN
    BY <2>1 DEF ItemOf
  <2> QED BY <2>1, <2>2 DEF Neighbours, HowRead
<1>3. IsFiniteSet(StoredIn(b))
  <2> DEFINE S == StoredIn(b)
             f == [x \in S |-> x.place]
  <2>1. IsFiniteSet(1 .. Len(b))
    BY FS_Interval
  <2>2. f \in [S -> 1 .. Len(b)] /\ \A x, y \in S : f[x] = f[y] => x = y
    <3> HIDE DEF S
    <3> QED BY <1>1, <1>2 DEF S
  <2>3. f \in Injection(S, 1 .. Len(b))
    <3> HIDE DEF f, S
    <3> QED BY <2>2 DEF Injection, IsInjective
  <2> HIDE DEF f, S
  <2>4. IsFiniteSet(S)
    BY <2>1, <2>3, FS_Injection
  <2> QED BY <2>4 DEF S
<1> QED BY <1>1, <1>2, <1>3

Upto(s, m) == {x \in s : x.match /\ x.place <= m}

Reached(s) == {e \in s : /\ e.match
                         /\ \A t \in s : t.reads # "on" =>
                               e.place < t.place \/ (e = t /\ t.reads = "last")}

LEMMA CountIs == \A s : Whole!Count(s) = Cardinality(Reached(s))
<1> SUFFICES ASSUME NEW s PROVE Whole!Count(s) = Cardinality(Reached(s))
  OBVIOUS
<1> DEFINE R == {e \in s : /\ e.match
                           /\ \A t \in {t \in s : t.reads # "on"} :
                                 e.place < t.place \/ (e = t /\ t.reads = "last")}
<1>1. Whole!Count(s) = Cardinality(R)
  BY Zenon DEF Whole!Count, Whole!Cardinality, Cardinality
<1>2. R = Reached(s)
  BY DEF Reached
<1> QED BY <1>1, <1>2

\* Sets of entries as a log has them.
Things(s) ==
    /\ IsFiniteSet(s)
    /\ \A x, y \in s : x.place = y.place => x = y
    /\ \A x \in s : /\ x.place \in Nat \ {0} /\ x.reads \in {"not", "last", "on"}
                    /\ x.match \in BOOLEAN

LEMMA StoredAreThings ==
    ASSUME NEW b \in Seq(Bytes) PROVE Things(StoredIn(b))
BY StoredIsSound DEF Things

LEMMA CountNumber ==
    ASSUME NEW s, Things(s), NEW m
    PROVE  /\ Whole!Count(s) \in Nat
           /\ IsFiniteSet(Upto(s, m)) /\ Cardinality(Upto(s, m)) \in Nat
<1>1. Reached(s) \in SUBSET s /\ Upto(s, m) \in SUBSET s /\ IsFiniteSet(s)
  BY DEF Reached, Upto, Things
<1>2. IsFiniteSet(Reached(s)) /\ IsFiniteSet(Upto(s, m))
  BY <1>1, FS_Subset
<1> QED BY <1>2, CountIs, FS_CardinalityType

\* As far as a reader gets "on", it has counted no more than there is.
LEMMA CountedPart ==
    ASSUME NEW s, Things(s), NEW m \in Nat,
           \A x \in s : x.place <= m => x.reads = "on"
    PROVE  Cardinality(Upto(s, m)) <= Whole!Count(s)
<1>1. Upto(s, m) \in SUBSET Reached(s)
  BY DEF Upto, Reached, Things
<1>2. IsFiniteSet(Reached(s))
  <2>1. Reached(s) \in SUBSET s /\ IsFiniteSet(s)
    BY DEF Reached, Things
  <2> QED BY <2>1, FS_Subset
<1>3. Cardinality(Upto(s, m)) <= Cardinality(Reached(s))
  BY <1>1, <1>2, FS_Subset
<1> QED BY <1>3, CountIs

\* A reader counts all in front of one it can not read, or of the end.
LEMMA CountedAll ==
    ASSUME NEW s, Things(s), NEW m \in Nat,
           \A x \in s : x.place <= m => x.reads = "on",
           \A x \in s : x.place > m =>
              \E t \in s : t.reads = "not" /\ m < t.place /\ t.place <= x.place
    PROVE  Whole!Count(s) = Cardinality(Upto(s, m))
<1>1. Upto(s, m) \subseteq Reached(s)
  BY DEF Upto, Reached, Things
<1>2. ASSUME NEW x \in Reached(s) PROVE x \in Upto(s, m)
  <2> SUFFICES ASSUME x.place > m PROVE FALSE
    BY <1>2 DEF Upto, Reached, Things
  <2>1. PICK t \in s : t.reads = "not" /\ m < t.place /\ t.place <= x.place
    BY <1>2 DEF Reached
  <2> QED BY <1>2, <2>1 DEF Reached, Things
<1>3. Upto(s, m) = Reached(s)
  BY <1>1, <1>2
<1> QED BY <1>3, CountIs

\* It counts all up to one that is the last to be read, or the last of all.
LEMMA CountedToLast ==
    ASSUME NEW s, Things(s), NEW t \in s,
           \A x \in s : x.place < t.place => x.reads = "on",
           t.reads # "not",
           t.reads = "last" \/ \A x \in s : x.place <= t.place
    PROVE  Whole!Count(s) = Cardinality(Upto(s, t.place))
<1>1. ASSUME NEW x \in Upto(s, t.place) PROVE x \in Reached(s)
  <2>1. x \in s /\ x.match /\ x.place <= t.place
    BY <1>1 DEF Upto
  <2>2. CASE x = t
    BY <2>1, <2>2 DEF Reached, Things
  <2>3. CASE x # t
    <3>1. x.place < t.place
      BY <2>1, <2>3 DEF Things
    <3> QED BY <2>1, <3>1 DEF Reached, Things
  <2> QED BY <2>2, <2>3
<1>2. ASSUME NEW x \in Reached(s) PROVE x \in Upto(s, t.place)
  <2>1. x \in s /\ x.match
    BY <1>2 DEF Reached
  <2>2. x.place <= t.place
    BY <1>2, <2>1 DEF Reached, Things
  <2> QED BY <2>1, <2>2 DEF Upto
<1>3. Upto(s, t.place) = Reached(s)
  BY <1>1, <1>2
<1> QED BY <1>3, CountIs

\* One entry further.
LEMMA CountOneMore ==
    ASSUME NEW s, Things(s), NEW t \in s, NEW m \in Nat, m < t.place,
           \A x \in s : x.place <= m \/ x.place >= t.place
    PROVE  Cardinality(Upto(s, t.place)) =
              Cardinality(Upto(s, m)) + (IF t.match THEN 1 ELSE 0)
<1>1. IsFiniteSet(Upto(s, m)) /\ t \notin Upto(s, m)
  <2>1. IsFiniteSet(Upto(s, m))
    BY CountNumber
  <2>2. t \notin Upto(s, m)
    BY DEF Upto, Things
  <2> QED BY <2>1, <2>2
<1>2. CASE t.match
  <2>1. Upto(s, t.place) = Upto(s, m) \cup {t}
    BY <1>2 DEF Upto, Things
  <2> QED BY <1>1, <1>2, <2>1, FS_AddElement
<1>3. CASE ~t.match
  <2>1. Upto(s, t.place) = Upto(s, m)
    BY <1>3 DEF Upto, Things
  <2>2. Cardinality(Upto(s, m)) \in Nat
    BY CountNumber
  <2> QED BY <1>3, <2>1, <2>2
<1> QED BY <1>2, <1>3

-----------------------------------------------------------------------------
(* What appending does to the entries.                                     *)

LEMMA Prefix ==
    ASSUME NEW b \in Seq(Bytes), NEW c \in Seq(Bytes)
    PROVE  /\ b \o c \in Seq(Bytes) /\ Len(b \o c) = Len(b) + Len(c)
           /\ \A i \in 1 .. Len(b) : (b \o c)[i] = b[i]
           /\ \A i \in 1 .. Len(c) : (b \o c)[Len(b) + i] = c[i]
           /\ \A k \in 1 .. Len(b) : Ends(b \o c, k) <=> Ends(b, k)
<1>1. /\ b \o c \in Seq(Bytes) /\ Len(b \o c) = Len(b) + Len(c)
      /\ \A i \in 1 .. Len(b) : (b \o c)[i] = b[i]
      /\ \A i \in 1 .. Len(c) : (b \o c)[Len(b) + i] = c[i]
  OBVIOUS
<1> DEFINE B == b \o c
<1> HIDE DEF B
<1>2. \A k \in 1 .. Len(b) : Ends(B, k) <=> Ends(b, k)
  BY <1>1 DEF Ends, B
<1> QED BY <1>1, <1>2 DEF B

LEMMA NeighboursStay ==
    ASSUME NEW b \in Seq(Bytes), NEW B \in Seq(Bytes), Len(b) <= Len(B),
           \A i \in 1 .. Len(b) : B[i] = b[i],
           \A k \in 1 .. Len(b) : Ends(B, k) <=> Ends(b, k),
           NEW m \in Nat, NEW k \in 1 .. Len(b)
    PROVE  Neighbours(B, m, k) <=> Neighbours(b, m, k)
BY DEF Neighbours

LEMMA ItemStays ==
    ASSUME NEW b \in Seq(Bytes), NEW B \in Seq(Bytes), Len(b) <= Len(B),
           \A i \in 1 .. Len(b) : B[i] = b[i],
           NEW m \in Nat, NEW k \in 1 .. Len(b), Neighbours(b, m, k)
    PROVE  /\ ItemOf(B, m, k).place = k /\ ItemOf(b, m, k).place = k
           /\ ItemOf(B, m, k).match = ItemOf(b, m, k).match
           /\ \/ ItemOf(B, m, k) = ItemOf(b, m, k)
              \/ k = Len(b) /\ ItemOf(B, m, k).reads = "not"
           /\ k < Len(b) \/ (k < Len(B) => B[k + 1] = Comma) =>
                 ItemOf(B, m, k) = ItemOf(b, m, k)
<1>1. m < k /\ b[k] = Closes /\ Closes # Comma
  BY BytesDiffer DEF Neighbours, Ends
<1>2. StartOf(B, m) = StartOf(b, m)
  <2>1. m + 1 \in 1 .. Len(b) /\ m < Len(b) /\ m < Len(B) /\ B[m + 1] = b[m + 1]
    BY <1>1
  <2>2. b[m + 1] = Comma => m + 1 < k /\ m + 1 < Len(b) /\ m + 1 < Len(B) /\ B[m + 2] = b[m + 2]
    BY <1>1
  <2> QED BY <2>1, <2>2 DEF StartOf
<1>3. StartOf(b, m) \in Nat \ {0}
  BY DEF StartOf
<1> DEFINE from == StartOf(b, m)
<1> HIDE DEF from
<1>4. (\E i \in from .. k : B[i] = "m") = (\E i \in from .. k : b[i] = "m")
  <2>1. (\E i \in from .. k : B[i] = "m") <=> (\E i \in from .. k : b[i] = "m")
    BY SMTT(30), <1>3 DEF from
  <2> QED BY <2>1
<1>5. k < Len(b) \/ (k < Len(B) => B[k + 1] = Comma) =>
         HowRead(B, from, k) = HowRead(b, from, k)
  <2>1. CASE k < Len(b)
    <3>1. k < Len(B) /\ B[k + 1] = b[k + 1]
      BY <2>1
    <3> QED BY <2>1, <3>1, Zenon DEF HowRead
  <2>2. CASE k = Len(b)
    <3>1. ~(k < Len(b))
      BY <2>2
    <3>2. ASSUME k < Len(B) => B[k + 1] = Comma
          PROVE  HowRead(B, from, k) = HowRead(b, from, k)
      BY <3>1, <3>2, Zenon DEF HowRead
    <3> QED BY <3>1, <3>2
  <2> QED BY <2>1, <2>2
<1>6. \/ HowRead(B, from, k) = HowRead(b, from, k)
      \/ k = Len(b) /\ HowRead(B, from, k) = "not"
  <2>1. CASE k < Len(b)
    BY <1>5, <2>1
  <2>2. CASE k = Len(b)
    <3>1. ~(k < Len(b))
      BY <2>2
    <3> QED BY <2>2, <3>1, Zenon DEF HowRead
  <2> QED BY <2>1, <2>2
<1>7. /\ ItemOf(B, m, k) = [place |-> k, reads |-> HowRead(B, from, k),
                            match |-> \E i \in from .. k : B[i] = "m"]
      /\ ItemOf(b, m, k) = [place |-> k, reads |-> HowRead(b, from, k),
                            match |-> \E i \in from .. k : b[i] = "m"]
  BY <1>2 DEF ItemOf, from
<1>8. ItemOf(B, m, k).match = ItemOf(b, m, k).match
  BY <1>4, <1>7
<1>9. HowRead(B, from, k) = HowRead(b, from, k) => ItemOf(B, m, k) = ItemOf(b, m, k)
  BY <1>4, <1>7
<1>10. /\ ItemOf(B, m, k).reads = HowRead(B, from, k)
       /\ ItemOf(B, m, k).place = k /\ ItemOf(b, m, k).place = k
  BY <1>7
<1> QED BY <1>5, <1>6, <1>8, <1>9, <1>10

\* Of what is appended to a file, its entries see no more than the byte behind
\* the last of them.
LEMMA StoredAppended ==
    ASSUME NEW b \in Seq(Bytes), NEW c \in Seq(Bytes)
    PROVE  /\ \A y \in StoredIn(b) : \E x \in StoredIn(b \o c) :
                 x.place = y.place
           /\ \A x \in StoredIn(b \o c) : x.place <= Len(b) =>
                 \E y \in StoredIn(b) :
                    /\ x.place = y.place
                    /\ \/ x = y
                       \/ y.place = Len(b) /\ x = [y EXCEPT !.reads = "not"]
           /\ \A x : x.place \in 1 .. Len(b) - 1 =>
                 (x \in StoredIn(b) <=> x \in StoredIn(b \o c))
           /\ c # <<>> /\ c[1] = Comma => \A x : x.place \in 1 .. Len(b) =>
                 (x \in StoredIn(b) <=> x \in StoredIn(b \o c))
<1> DEFINE B == b \o c
<1>1. /\ B \in Seq(Bytes) /\ Len(B) = Len(b) + Len(c) /\ Len(b) <= Len(B)
      /\ \A i \in 1 .. Len(b) : B[i] = b[i]
      /\ \A i \in 1 .. Len(c) : B[Len(b) + i] = c[i]
      /\ \A k \in 1 .. Len(b) : Ends(B, k) <=> Ends(b, k)
  BY Prefix
<1> HIDE DEF B
<1>2. ASSUME NEW m \in Nat, NEW k \in 1 .. Len(b)
      PROVE  Neighbours(B, m, k) <=> Neighbours(b, m, k)
  BY <1>1, NeighboursStay
<1>3. ASSUME NEW m \in Nat, NEW k \in 1 .. Len(b), Neighbours(b, m, k)
      PROVE  /\ ItemOf(B, m, k).place = k /\ ItemOf(b, m, k).place = k
             /\ ItemOf(B, m, k).match = ItemOf(b, m, k).match
             /\ \/ ItemOf(B, m, k) = ItemOf(b, m, k)
                \/ k = Len(b) /\ ItemOf(B, m, k).reads = "not"
             /\ k < Len(b) \/ (k < Len(B) => B[k + 1] = Comma) =>
                   ItemOf(B, m, k) = ItemOf(b, m, k)
  BY <1>1, <1>3, ItemStays
<1>4. ASSUME NEW y \in StoredIn(b)
      PROVE  \E m \in Nat : \E k \in 1 .. Len(b) :
                /\ Neighbours(b, m, k) /\ y = ItemOf(b, m, k)
                /\ ItemOf(B, m, k) \in StoredIn(B)
  <2>1. PICK m, k \in Nat : Neighbours(b, m, k) /\ y = ItemOf(b, m, k)
    BY StoredIs
  <2>2. k \in 1 .. Len(b) /\ Neighbours(B, m, k)
    BY <1>2, <2>1 DEF Neighbours
  <2>3. ItemOf(B, m, k) \in StoredIn(B)
    BY <1>1, <2>2, StoredIs
  <2> QED BY <2>1, <2>2, <2>3
<1>5. ASSUME NEW x \in StoredIn(B), x.place <= Len(b)
      PROVE  \E m \in Nat : \E k \in 1 .. Len(b) :
                /\ Neighbours(b, m, k) /\ x = ItemOf(B, m, k)
                /\ ItemOf(b, m, k) \in StoredIn(b)
  <2>1. PICK m, k \in Nat : Neighbours(B, m, k) /\ x = ItemOf(B, m, k)
    BY <1>1, StoredIs
  <2>2. k \in 1 .. Len(b)
    BY <1>5, <2>1, ItemPlace DEF Neighbours
  <2>3. Neighbours(b, m, k)
    BY <1>2, <2>1, <2>2
  <2>4. ItemOf(b, m, k) \in StoredIn(b)
    BY <2>2, <2>3, StoredIs
  <2> QED BY <2>1, <2>2, <2>3, <2>4
<1>6. ASSUME NEW y \in StoredIn(b)
      PROVE  \E x \in StoredIn(B) : x.place = y.place
  BY <1>3, <1>4
<1>7. ASSUME NEW x \in StoredIn(B), x.place <= Len(b)
      PROVE  \E y \in StoredIn(b) :
                /\ x.place = y.place
                /\ \/ x = y
                   \/ y.place = Len(b) /\ x = [y EXCEPT !.reads = "not"]
  <2>1. PICK m \in Nat, k \in 1 .. Len(b) :
                /\ Neighbours(b, m, k) /\ x = ItemOf(B, m, k)
                /\ ItemOf(b, m, k) \in StoredIn(b)
    BY <1>5, <1>7
  <2>2. ItemOf(B, m, k).reads = "not" =>
           ItemOf(B, m, k) = [ItemOf(b, m, k) EXCEPT !.reads = "not"]
    <3>1. ItemOf(B, m, k).match = ItemOf(b, m, k).match
      BY <1>3, <2>1
    <3>2. \A p, q, u : [place |-> p, reads |-> "not", match |-> u] =
                 [[place |-> p, reads |-> q, match |-> u] EXCEPT !.reads = "not"]
      OBVIOUS
    <3>3. /\ ItemOf(B, m, k) = [place |-> k, reads |-> ItemOf(B, m, k).reads,
                                match |-> ItemOf(B, m, k).match]
          /\ ItemOf(b, m, k) = [place |-> k, reads |-> ItemOf(b, m, k).reads,
                                match |-> ItemOf(b, m, k).match]
      BY DEF ItemOf
    <3> QED BY <3>1, <3>2, <3>3
  <2> QED BY <1>3, <2>1, <2>2
<1>8. ASSUME NEW x, x.place \in 1 .. Len(b),
             x.place < Len(b) \/ (x.place < Len(B) => B[x.place + 1] = Comma)
      PROVE  x \in StoredIn(b) <=> x \in StoredIn(B)
  BY <1>3, <1>4, <1>5, <1>8
<1>9. \A x : x.place \in 1 .. Len(b) - 1 =>
         (x \in StoredIn(b) <=> x \in StoredIn(B))
  BY <1>8
<1>10. c # <<>> /\ c[1] = Comma => \A x : x.place \in 1 .. Len(b) =>
          (x \in StoredIn(b) <=> x \in StoredIn(B))
  <2> SUFFICES ASSUME c # <<>>, c[1] = Comma, NEW x, x.place \in 1 .. Len(b)
               PROVE  x \in StoredIn(b) <=> x \in StoredIn(B)
    OBVIOUS
  <2>1. 1 \in 1 .. Len(c)
    OBVIOUS
  <2>2. B[Len(b) + 1] = Comma
    BY <1>1, <2>1
  <2>3. x.place < Len(b) \/ (x.place < Len(B) => B[x.place + 1] = Comma)
    BY <2>2
  <2> QED BY <1>8, <2>3
<1> QED BY <1>6, <1>7, <1>9, <1>10 DEF B

LEMMA SepStoresNothing ==
    ASSUME NEW b \in Seq(Bytes)
    PROVE  StoredIn(b \o Sep) = StoredIn(b)
<1> DEFINE B == b \o Sep
<1>1. /\ Sep \in Seq(Bytes) /\ Sep # <<>> /\ Sep[1] = Comma /\ Len(Sep) = 2
      /\ Sep[1] # Closes /\ Sep[2] # Closes
  BY BytesDiffer DEF Sep, Bytes
<1>2. /\ B \in Seq(Bytes) /\ Len(B) = Len(b) + 2
      /\ B[Len(b) + 1] # Closes /\ B[Len(b) + 2] # Closes
  <2> HIDE DEF Sep
  <2>1. /\ B \in Seq(Bytes) /\ Len(B) = Len(b) + Len(Sep)
        /\ \A i \in 1 .. Len(Sep) : B[Len(b) + i] = Sep[i]
    BY SepIsSep, Prefix
  <2> HIDE DEF B
  <2>2. 1 \in 1 .. Len(Sep) /\ 2 \in 1 .. Len(Sep)
    BY <1>1
  <2> QED BY <1>1, <2>1, <2>2
<1>3. \A x \in StoredIn(B) : x.place \in 1 .. Len(b)
  <2> HIDE DEF B
  <2> QED BY <1>2, StoredIsSound DEF Ends
<1>4. \A x \in StoredIn(b) : x.place \in 1 .. Len(b)
  BY StoredIsSound
<1>5. \A x : x.place \in 1 .. Len(b) => (x \in StoredIn(b) <=> x \in StoredIn(B))
  <2> HIDE DEF Sep
  <2> QED BY <1>1, StoredAppended
<1> QED BY <1>3, <1>4, <1>5

\* An entry that ends like one: what agents send.
Complete(e) == e # <<>> /\ Ends(e, Len(e))

LEMMA EntryIsStored ==
    ASSUME NEW b \in Seq(Bytes), NEW c \in Seq(Bytes), Complete(c)
    PROVE  \E x \in StoredIn(b \o c) : x.place > Len(b)
<1> DEFINE B == b \o c
           k == Len(b) + Len(c)
<1>1. /\ B \in Seq(Bytes) /\ Len(B) = Len(b) + Len(c)
      /\ \A i \in 1 .. Len(c) : B[Len(b) + i] = c[i]
  BY Prefix
<1>2. Len(c) \in Nat /\ Len(c) > 1 /\ Len(c) - 1 \in 1 .. Len(c) /\ Len(c) \in 1 .. Len(c)
      /\ c[Len(c) - 1] = "]" /\ c[Len(c)] = Closes
  BY DEF Complete, Ends
<1> HIDE DEF B
<1>3. k \in 1 .. Len(B) /\ Ends(B, k)
  <2>1. B[k - 1] = "]" /\ B[k] = Closes
    BY SMTT(30), <1>1, <1>2
  <2> QED BY <1>1, <1>2, <2>1 DEF Ends
<1>4. PICK m \in Nat : Neighbours(B, m, k)
  BY <1>1, <1>3, HasNeighbour
<1>5. ItemOf(B, m, k) \in StoredIn(B)
  <2>1. B \in Seq(Bytes) /\ k \in Nat
    BY <1>1
  <2> HIDE DEF k
  <2> QED BY <1>4, <2>1, StoredIs, Zenon
<1>6. ItemOf(B, m, k).place = k
  BY ItemPlace, Zenon
<1> QED BY <1>2, <1>5, <1>6 DEF B

\* Storing an entry is what CountedLog means by it.
LEMMA EntryImplementsStore ==
    ASSUME log \in Seq(Bytes), NEW c \in Seq(Bytes), Complete(c), log' = log \o c,
           moments' = (IF scanning THEN moments \cup {Whole!Count(StoredIn(log'))}
                       ELSE moments),
           UNCHANGED <<scanning, answer>>
    PROVE  Whole!Store
<1> DEFINE old == StoredIn(log)
           new == StoredIn(log')
           appended == {e \in new : \A o \in old : o.place < e.place}
           spoiled == {[o EXCEPT !.reads = "not"] :
                         o \in {e \in old : \A o \in old : o.place <= e.place}}
<1>1. /\ \A y \in old : \E x \in new : x.place = y.place
      /\ \A x \in new : x.place <= Len(log) =>
            \E y \in old :
               /\ x.place = y.place
               /\ \/ x = y
                  \/ y.place = Len(log) /\ x = [y EXCEPT !.reads = "not"]
  BY StoredAppended
<1>2. /\ \A y \in old : y.place \in 1 .. Len(log)
      /\ \A x \in new : x.place \in Nat
  <2>1. log \o c \in Seq(Bytes)
    BY Prefix
  <2>2. \A y \in old : y.place \in 1 .. Len(log)
    BY StoredIsSound
  <2>3. \A x \in new : x.place \in 1 .. Len(log')
    BY <2>1, StoredIsSound
  <2> QED BY <2>2, <2>3
<1> HIDE DEF old, new
<1>3. appended # {}
  <2>1. PICK x \in new : x.place > Len(log)
    BY EntryIsStored DEF new
  <2> QED BY <1>2, <2>1
<1>4. ASSUME NEW x \in new \ appended
      PROVE  x \in old \cup spoiled /\ \E y \in old : y.place = x.place
  <2>1. x.place <= Len(log)
    BY <1>2, <1>4
  <2>2. PICK y \in old :
               /\ x.place = y.place
               /\ \/ x = y
                  \/ y.place = Len(log) /\ x = [y EXCEPT !.reads = "not"]
    BY <1>1, <2>1
  <2>3. y.place = Len(log) => \A o \in old : o.place <= y.place
    BY <1>2
  <2> QED BY <2>2, <2>3
<1>5. ASSUME NEW y \in old PROVE \E x \in new \ appended : x.place = y.place
  <2>1. PICK x \in new : x.place = y.place
    BY <1>1
  <2>2. x \notin appended
    BY <1>2, <2>1
  <2> QED BY <2>1, <2>2
<1>6. new \ appended \subseteq old \cup spoiled
  <2> HIDE DEF appended, spoiled
  <2> QED BY <1>4
<1>7. {e.place : e \in new \ appended} = {o.place : o \in old}
  <2> HIDE DEF appended, spoiled
  <2>1. \A x \in new \ appended : x.place \in {o.place : o \in old}
    BY <1>4
  <2>2. \A o \in old : o.place \in {e.place : e \in new \ appended}
    BY <1>5
  <2> QED BY <2>1, <2>2, Zenon
<1> QED BY <1>3, <1>6, <1>7, Zenon DEF Whole!Store, old, new

-----------------------------------------------------------------------------
(* Where a count query stands: it has counted what ends up to byte m, and  *)
(* its buffer holds bytes of the file from behind the separator after m.   *)

Separated(b) ==
    \A j \in 1 .. Len(b) : b[j] = Comma => j < Len(b) /\ b[j + 1] = "\n"

Done(m) == IF m = 0 THEN 0 ELSE m + 2

StandsAt(m, to, held, sum) ==
    /\ m \in Nat
    /\ m # 0 => Ends(log, m) /\ m + 2 < Len(log) /\ log[m + 1] = Comma
    /\ held \in Seq(Bytes) /\ Len(held) <= Cap
    /\ to = Done(m) + Len(held) /\ to <= Len(log)
    /\ \A i \in 1 .. Len(held) : held[i] = log[Done(m) + i]
    /\ \A x \in StoredIn(log) : x.place <= m => x.reads = "on"
    /\ sum = Cardinality(Upto(StoredIn(log), m))

Scanned(m) == StandsAt(m, at, buf, count)

LEMMA SeparatedAppend ==
    ASSUME NEW b \in Seq(Bytes), Separated(b), NEW c \in Seq(Bytes), Separated(c)
    PROVE  Separated(b \o c)
<1> DEFINE B == b \o c
<1>1. /\ Len(B) = Len(b) + Len(c)
      /\ \A i \in 1 .. Len(b) : B[i] = b[i]
      /\ \A i \in 1 .. Len(c) : B[Len(b) + i] = c[i]
  BY Prefix
<1> HIDE DEF B
<1>2. ASSUME NEW j \in 1 .. Len(B), B[j] = Comma PROVE j < Len(B) /\ B[j + 1] = "\n"
  <2>1. CASE j \in 1 .. Len(b)
    BY <1>1, <1>2, <2>1 DEF Separated
  <2>2. CASE j \notin 1 .. Len(b)
    <3>1. j - Len(b) \in 1 .. Len(c) /\ j = Len(b) + (j - Len(b))
      BY <1>1, <2>2
    <3>2. c[j - Len(b)] = Comma
      BY <1>1, <1>2, <3>1
    <3>3. j - Len(b) < Len(c) /\ c[j - Len(b) + 1] = "\n"
      BY <3>1, <3>2 DEF Separated
    <3>4. j - Len(b) + 1 \in 1 .. Len(c) /\ Len(b) + (j - Len(b) + 1) = j + 1
      BY <3>1, <3>3
    <3>5. B[j + 1] = c[j - Len(b) + 1]
      BY <1>1, <3>4
    <3> QED BY <1>1, <3>1, <3>3, <3>5
  <2> QED BY <2>1, <2>2
<1> QED BY <1>2 DEF Separated, B

\* Appending moves a query nowhere.
LEMMA ScannedAppend ==
    ASSUME log \in Seq(Bytes), NEW c \in Seq(Bytes), log' = log \o c,
           UNCHANGED <<at, buf, count>>, NEW m, Scanned(m)
    PROVE  Scanned(m)'
<1>1. /\ log' \in Seq(Bytes) /\ Len(log') = Len(log) + Len(c)
      /\ \A i \in 1 .. Len(log) : log'[i] = log[i]
      /\ \A k \in 1 .. Len(log) : Ends(log', k) <=> Ends(log, k)
  BY Prefix
<1> DEFINE S == StoredIn(log)
           T == StoredIn(log')
<1>2. ASSUME NEW x, x.place <= m PROVE x \in S <=> x \in T
  <2>1. /\ x \in S => x.place \in 1 .. Len(log)
        /\ x \in T => x.place \in 1 .. Len(log')
    BY <1>1, StoredIsSound
  <2>2. x.place \in 1 .. Len(log) - 1 => (x \in S <=> x \in T)
    BY StoredAppended
  <2>3. m \in Nat /\ (m # 0 => m + 2 < Len(log))
    BY DEF Scanned, StandsAt
  <2> HIDE DEF S, T
  <2> QED BY <1>1, <1>2, <2>1, <2>2, <2>3
<1>3. Upto(S, m) = Upto(T, m)
  <2> HIDE DEF S, T
  <2> QED BY <1>2 DEF Upto
<1>4. \A x \in T : x.place <= m => x.reads = "on"
  <2>1. \A x \in S : x.place <= m => x.reads = "on"
    BY DEF Scanned, StandsAt
  <2> HIDE DEF S, T
  <2> QED BY <1>2, <2>1
<1>5. count' = Cardinality(Upto(T, m))
  BY <1>3 DEF Scanned, StandsAt
<1>6. m # 0 => Ends(log', m) /\ m + 2 < Len(log') /\ log'[m + 1] = Comma
  BY <1>1 DEF Scanned, StandsAt
<1>7. \A i \in 1 .. Len(buf) : buf[i] = log'[Done(m) + i]
  <2>1. Done(m) \in Nat
    BY DEF Scanned, StandsAt, Done
  <2> QED BY <1>1, <2>1 DEF Scanned, StandsAt
<1>8. /\ m \in Nat /\ buf' \in Seq(Bytes) /\ Len(buf') <= Cap
      /\ at' = Done(m) + Len(buf') /\ at' <= Len(log')
  BY <1>1 DEF Scanned, StandsAt
<1> HIDE DEF S
<1> QED BY <1>4, <1>5, <1>6, <1>7, <1>8 DEF Scanned, StandsAt

LEMMA ScannedStart ==
    ASSUME log \in Seq(Bytes), NEW m, Scanned(m), Separated(log)
    PROVE  /\ Done(m) \in Nat /\ Done(m) <= Len(log)
           /\ StartOf(log, m) = Done(m) + 1
           /\ \A j \in m + 1 .. Done(m) : ~Ends(log, j)
           /\ Done(m) # 0 => log[Done(m)] # "]"
<1>1. CASE m = 0
  BY <1>1 DEF Scanned, StandsAt, Done, StartOf
<1>2. CASE m # 0
  <2>1. m \in Nat /\ m + 2 < Len(log) /\ log[m + 1] = Comma /\ log[m + 2] = "\n"
    BY <1>2 DEF Scanned, StandsAt, Separated
  <2>2. Comma # Closes /\ "\n" # Closes
    BY BytesDiffer
  <2> QED BY <1>2, <2>1, <2>2 DEF Done, StartOf, Ends
<1> QED BY <1>1, <1>2

\* What the buffer holds when it has been filled.
LEMMA Window ==
    ASSUME Cap \in Nat \ {0}, log \in Seq(Bytes), NEW m, Scanned(m), Separated(log)
    PROVE  /\ ReadTo \in Nat
           /\ ReadTo \in at .. Len(log) /\ ReadTo <= Done(m) + Cap
           /\ ReadTo = Len(log) \/ ReadTo = Done(m) + Cap
           /\ Filled \in Seq(Bytes) /\ Len(Filled) = ReadTo - Done(m)
           /\ \A i \in 1 .. Len(Filled) : Filled[i] = log[Done(m) + i]
           /\ \A i \in 1 .. Len(Filled) : Ends(Filled, i) <=> Ends(log, Done(m) + i)
<1> DEFINE p == Done(m)
           r == ReadTo
           W == Filled
<1>1. /\ p \in Nat /\ at = p + Len(buf) /\ at <= Len(log)
      /\ at + Cap - Len(buf) = p + Cap /\ Len(buf) <= Cap /\ buf \in Seq(Bytes)
      /\ p # 0 => log[p] # "]"
      /\ \A i \in 1 .. Len(buf) : buf[i] = log[p + i]
  BY SMTT(30), ScannedStart DEF Scanned, StandsAt
<1> HIDE DEF p
<1>2. r \in {Len(log), p + Cap} /\ r <= Len(log) /\ r <= p + Cap
  <2> DEFINE T == {Len(log), p + Cap}
  <2>1. T \in SUBSET Nat /\ T # {}
    BY <1>1
  <2>2. \E k \in T : \A n \in T : k <= n
    <3> HIDE DEF T
    <3> QED BY <2>1, LeastNumber
  <2>3. r = CHOOSE x \in T : \A y \in T : x <= y
    BY <1>1 DEF ReadTo, Min
  <2>4. r \in T /\ \A y \in T : r <= y
    <3> HIDE DEF T, r
    <3> QED BY <2>2, <2>3
  <2> HIDE DEF r
  <2> QED BY <2>4
<1>3. r \in Nat /\ r \in at .. Len(log)
  <2> HIDE DEF r
  <2> QED BY <1>1, <1>2
<1> DEFINE c == SubSeq(log, at + 1, r)
<1>4. /\ c \in Seq(Bytes) /\ Len(c) = r - at
      /\ \A i \in 1 .. r - at : c[i] = log[at + i]
  <2> HIDE DEF r
  <2>1. at + 1 \in Int /\ r \in Int /\ \A i \in at + 1 .. r : log[i] \in Bytes
    BY <1>1, <1>3
  <2>2. /\ c \in Seq(Bytes)
        /\ Len(c) = IF at + 1 <= r THEN r - (at + 1) + 1 ELSE 0
        /\ \A i \in 1 .. r - (at + 1) + 1 : c[i] = log[at + 1 + i - 1]
    <3> HIDE DEF c
    <3> QED BY <2>1, SubSeqProperties DEF c
  <2> HIDE DEF c
  <2> QED BY <1>1, <1>3, <2>2
<1>5. W = buf \o c
  BY DEF Filled
<1> HIDE DEF c, r
<1>6. /\ W \in Seq(Bytes) /\ Len(W) = r - p
      /\ \A i \in 1 .. Len(buf) : W[i] = buf[i]
      /\ \A i \in 1 .. Len(c) : W[Len(buf) + i] = c[i]
  <2> HIDE DEF W
  <2> QED BY <1>1, <1>3, <1>4, <1>5, Prefix
<1> HIDE DEF W
<1>7. ASSUME NEW i \in 1 .. Len(W) PROVE W[i] = log[p + i]
  <2>1. CASE i \in 1 .. Len(buf)
    BY <1>1, <1>6, <2>1
  <2>2. CASE i \notin 1 .. Len(buf)
    <3>1. i - Len(buf) \in 1 .. Len(c) /\ i - Len(buf) \in 1 .. r - at
          /\ Len(buf) + (i - Len(buf)) = i
          /\ at + (i - Len(buf)) = p + i
      BY <1>1, <1>3, <1>4, <1>6, <2>2
    <3>2. W[Len(buf) + (i - Len(buf))] = c[i - Len(buf)]
      BY <1>6, <3>1
    <3>3. c[i - Len(buf)] = log[at + (i - Len(buf))]
      BY <1>4, <3>1
    <3> QED BY <3>1, <3>2, <3>3
  <2> QED BY <2>1, <2>2
<1>8. ASSUME NEW i \in 1 .. Len(W) PROVE Ends(W, i) <=> Ends(log, p + i)
  <2>1. CASE i = 1
    BY <1>1, <2>1 DEF Ends
  <2>2. CASE i > 1
    <3>1. i - 1 \in 1 .. Len(W) /\ p + i > 1 /\ p + (i - 1) = p + i - 1 /\ i \in Nat /\ p \in Nat
      BY <1>1, <1>6, <2>2
    <3>2. W[i - 1] = log[p + i - 1] /\ W[i] = log[p + i]
      BY <1>7, <3>1
    <3> QED BY <2>2, <3>1, <3>2 DEF Ends
  <2> QED BY <1>6, <2>1, <2>2
<1> QED BY <1>2, <1>3, <1>6, <1>7, <1>8 DEF p, r, W

\* What ends next.
LEMMA NextItem ==
    ASSUME log \in Seq(Bytes), NEW m \in Nat, m # 0 => Ends(log, m),
           NEW x \in StoredIn(log), x.place > m
    PROVE  \E k \in 1 .. Len(log) :
              /\ Neighbours(log, m, k) /\ k <= x.place
              /\ ItemOf(log, m, k) \in StoredIn(log)
<1> DEFINE T == {k \in m + 1 .. Len(log) : Ends(log, k)}
<1>1. x.place \in T
  BY StoredIsSound
<1>2. PICK k \in T : \A j \in T : k <= j
  <2>1. T \in SUBSET Nat
    OBVIOUS
  <2> HIDE DEF T
  <2> QED BY <1>1, <2>1, LeastNumber
<1>3. k \in 1 .. Len(log) /\ Ends(log, k) /\ m < k
  OBVIOUS
<1>4. Neighbours(log, m, k)
  <2> SUFFICES ASSUME NEW j \in m + 1 .. k - 1 PROVE ~Ends(log, j)
    BY <1>3 DEF Neighbours
  <2>1. j \notin T
    <3> HIDE DEF T
    <3> QED BY <1>2, <1>3
  <2> QED BY <1>3, <2>1
<1>5. ItemOf(log, m, k) \in StoredIn(log)
  BY <1>3, <1>4, StoredIs
<1>6. k <= x.place
  <2> HIDE DEF T
  <2> QED BY <1>1, <1>2
<1> QED BY <1>3, <1>4, <1>5, <1>6

\* No entry ends in the buffer: the next is too long for it.
LEMMA NothingFound ==
    ASSUME Cap \in Nat \ {0}, log \in Seq(Bytes), NEW m, Scanned(m), Separated(log),
           End(Filled) = {}
    PROVE  Whole!Count(StoredIn(log)) = count
<1> DEFINE S == StoredIn(log)
           W == Filled
           p == Done(m)
<1>1. /\ W \in Seq(Bytes) /\ Len(W) = ReadTo - p
      /\ ReadTo = Len(log) \/ ReadTo = p + Cap
      /\ ReadTo \in Nat
      /\ \A i \in 1 .. Len(W) : Ends(W, i) <=> Ends(log, p + i)
  BY Window
<1>2. /\ p \in Nat /\ StartOf(log, m) = p + 1 /\ \A j \in m + 1 .. p : ~Ends(log, j)
      /\ m \in Nat /\ (m # 0 => Ends(log, m))
  BY ScannedStart DEF Scanned, StandsAt
<1>3. \A i \in 1 .. Len(W) : ~Ends(W, i)
  <2> HIDE DEF W
  <2> QED BY <1>1, EndIs DEF W
<1> HIDE DEF W, p, S
<1>4. ASSUME NEW x \in S, x.place > m
      PROVE  \E t \in S : t.reads = "not" /\ m < t.place /\ t.place <= x.place
  <2>1. PICK k \in 1 .. Len(log) :
              /\ Neighbours(log, m, k) /\ k <= x.place
              /\ ItemOf(log, m, k) \in S
    BY <1>2, <1>4, NextItem DEF S
  <2>2. Ends(log, k) /\ m < k
    BY <1>2, <2>1 DEF Neighbours
  <2>3. k > p
    BY <1>2, <2>2
  <2>4. k - p > Len(W)
    <3> SUFFICES ASSUME k - p \in 1 .. Len(W) PROVE FALSE
      BY <1>1, <1>2, <2>3
    <3>1. p + (k - p) = k
      BY <1>2
    <3> QED BY <1>1, <1>3, <2>2, <3>1
  <2>5. k - p > Cap
    BY <1>1, <1>2, <2>4
  <2>6. HowRead(log, p + 1, k) = "not"
    BY <1>2, <2>5 DEF HowRead
  <2>7. ItemOf(log, m, k).reads = "not" /\ ItemOf(log, m, k).place = k
    BY <1>2, <2>6 DEF ItemOf
  <2> QED BY <2>1, <2>2, <2>7
<1>5. Things(S) /\ \A x \in S : x.place <= m => x.reads = "on"
  BY StoredAreThings DEF Scanned, StandsAt, S
<1>6. Whole!Count(S) = Cardinality(Upto(S, m))
  BY <1>2, <1>4, <1>5, CountedAll
<1> QED BY <1>6 DEF Scanned, StandsAt, S

\* The first end in the buffer is the next one of the file.
LEMMA FirstFound ==
    ASSUME Cap \in Nat \ {0}, log \in Seq(Bytes), NEW m, Scanned(m), Separated(log),
           End(Filled) # {}
    PROVE  LET e == Min(End(Filled))
               k == Done(m) + e
               t == ItemOf(log, m, k)
           IN  /\ e \in 1 .. Len(Filled) /\ k \in 1 .. Len(log)
               /\ Ends(log, k) /\ m < k
               /\ t \in StoredIn(log) /\ t.place = k
               /\ t.match <=> Matched(Filled)
               /\ t.reads = HowRead(log, Done(m) + 1, k)
               /\ \A x \in StoredIn(log) : x.place <= m \/ x.place >= k
<1> DEFINE S == StoredIn(log)
           W == Filled
           p == Done(m)
           e == Min(End(W))
           k == p + e
           t == ItemOf(log, m, k)
<1>1. /\ W \in Seq(Bytes) /\ Len(W) = ReadTo - p
      /\ ReadTo \in Nat /\ ReadTo <= Len(log)
      /\ \A i \in 1 .. Len(W) : W[i] = log[p + i]
      /\ \A i \in 1 .. Len(W) : Ends(W, i) <=> Ends(log, p + i)
  BY Window
<1>2. /\ p \in Nat /\ StartOf(log, m) = p + 1 /\ \A j \in m + 1 .. p : ~Ends(log, j)
      /\ m \in Nat /\ (m # 0 => Ends(log, m)) /\ m <= p
  <2>1. p \in Nat /\ StartOf(log, m) = p + 1 /\ \A j \in m + 1 .. p : ~Ends(log, j)
    BY ScannedStart
  <2>2. m \in Nat /\ (m # 0 => Ends(log, m))
    BY DEF Scanned, StandsAt
  <2>3. m <= p
    BY <2>2 DEF Done
  <2> QED BY <2>1, <2>2, <2>3
<1>3. End(W) = {i \in 1 .. Len(W) : Ends(W, i)}
  <2> HIDE DEF W
  <2> QED BY <1>1, EndIs DEF W
<1>4. e \in End(W) /\ \A i \in End(W) : e <= i
  <2> DEFINE T == End(W)
  <2>1. T \in SUBSET Nat /\ T # {}
    BY <1>3
  <2>2. e = CHOOSE x \in T : \A y \in T : x <= y
    BY DEF Min
  <2> HIDE DEF T, e
  <2>3. \E x \in T : \A y \in T : x <= y
    BY <2>1, LeastNumber
  <2>4. e \in T /\ \A i \in T : e <= i
    BY <2>2, <2>3
  <2> QED BY <2>4 DEF T
<1>5. Matched(W) <=> \E i \in 1 .. e : W[i] = "m"
  BY DEF Matched
<1> HIDE DEF W, p, S, e
<1>6. e \in 1 .. Len(W) /\ Ends(W, e) /\ k \in 1 .. Len(log) /\ Ends(log, k) /\ m < k
  BY <1>1, <1>2, <1>3, <1>4
<1>7. \A j \in m + 1 .. k - 1 : ~Ends(log, j)
  <2> SUFFICES ASSUME NEW j \in p + 1 .. k - 1, Ends(log, j) PROVE FALSE
    BY <1>2
  <2>1. j - p \in 1 .. Len(W) /\ j - p < e /\ p + (j - p) = j
    BY <1>2, <1>6
  <2>2. Ends(W, j - p)
    BY <1>1, <2>1
  <2>3. j - p \in End(W)
    BY <1>3, <2>1, <2>2
  <2> QED BY <1>4, <1>6, <2>1, <2>3
<1>8. Neighbours(log, m, k)
  BY <1>2, <1>6, <1>7 DEF Neighbours
<1>9. t \in S /\ t.place = k
  BY <1>2, <1>6, <1>8, StoredIs, ItemPlace DEF S
<1>10. \A x \in S : x.place <= m \/ x.place >= k
  <2>1. \A x \in S : x.place \in 1 .. Len(log) /\ Ends(log, x.place)
    BY StoredIsSound DEF S
  <2> QED BY <1>2, <1>6, <1>7, <2>1
<1>11. t.reads = HowRead(log, p + 1, k)
  BY <1>2 DEF ItemOf
<1>12. t.match <=> Matched(W)
  <2>1. t.match <=> \E i \in p + 1 .. k : log[i] = "m"
    BY <1>2 DEF ItemOf
  <2>2. ASSUME NEW i \in 1 .. e, W[i] = "m" PROVE \E j \in p + 1 .. k : log[j] = "m"
    <3>1. p + i \in p + 1 .. k /\ i \in 1 .. Len(W)
      BY <1>2, <1>6
    <3> QED BY <1>1, <2>2, <3>1
  <2>3. ASSUME NEW j \in p + 1 .. k, log[j] = "m" PROVE \E i \in 1 .. e : W[i] = "m"
    <3>1. j - p \in 1 .. e /\ j - p \in 1 .. Len(W) /\ p + (j - p) = j
      BY <1>2, <1>6
    <3> QED BY <1>1, <2>3, <3>1
  <2> QED BY <1>5, <2>1, <2>2, <2>3
<1> QED BY <1>6, <1>9, <1>10, <1>11, <1>12 DEF S, W, p, e

LEMMA UnreadableIs ==
    \A b : Unreadable(b) <=>
              \/ End(b) = {}
              \/ Min(End(b)) < Len(b) /\ b[Min(End(b)) + 1] # Comma
BY Zenon DEF Unreadable, Comma

LEMMA RestIs ==
    \A b : Min(End(b)) # 0 =>
              Rest(b) = SubSeq(b, StartOf(b, Min(End(b))), Len(b))
BY BehindIs DEF Rest

\* One turn of the query's loop: it stops in front of what a reader of the
\* whole file could not read either, answers what that one would have counted
\* now, or stands behind one entry more.
LEMMA Turn ==
    ASSUME Cap \in Nat \ {0}, log \in Seq(Bytes), NEW m, Scanned(m), Separated(log)
    PROVE  LET W == Filled
               counted == count + (IF Matched(W) THEN 1 ELSE 0)
           IN  /\ Unreadable(W) => Whole!Count(StoredIn(log)) = count
               /\ ~Unreadable(W) /\ Rest(W) = <<>> =>
                     Whole!Count(StoredIn(log)) = counted
               /\ ~Unreadable(W) /\ Rest(W) # <<>> =>
                     \E k \in Nat : StandsAt(k, ReadTo, Rest(W), counted)
<1> DEFINE S == StoredIn(log)
           W == Filled
           p == Done(m)
           e == Min(End(W))
           k == p + e
           t == ItemOf(log, m, k)
           r == ReadTo
           counted == count + (IF Matched(W) THEN 1 ELSE 0)
           Each == Whole!Count(S)
<1>1. /\ r \in Nat /\ r <= Len(log) /\ r <= p + Cap
      /\ r = Len(log) \/ r = p + Cap
      /\ W \in Seq(Bytes) /\ Len(W) = r - p
      /\ \A i \in 1 .. Len(W) : W[i] = log[p + i]
  BY Window
<1>2. p \in Nat /\ m \in Nat
  BY ScannedStart DEF Scanned, StandsAt
<1>3. End(W) = {} => Each = count
  BY NothingFound
<1>4. End(W) # {} =>
         /\ e \in 1 .. Len(W) /\ k \in 1 .. Len(log)
         /\ Ends(log, k) /\ m < k
         /\ t \in S /\ t.place = k
         /\ t.match <=> Matched(W)
         /\ t.reads = HowRead(log, p + 1, k)
         /\ \A x \in S : x.place <= m \/ x.place >= k
  BY FirstFound
<1>5. Things(S) /\ (\A x \in S : x.place <= m => x.reads = "on")
      /\ count = Cardinality(Upto(S, m)) /\ \A x \in S : Ends(log, x.place)
  BY StoredAreThings, StoredIsSound DEF Scanned, StandsAt
<1>6. Unreadable(W) <=> End(W) = {} \/ (e < Len(W) /\ W[e + 1] # Comma)
  BY UnreadableIs
<1>7. e # 0 => Rest(W) = SubSeq(W, StartOf(W, e), Len(W))
  BY RestIs
<1> HIDE DEF S, W, p, e, t, r, Each
<1>8. ASSUME End(W) # {}
      PROVE  k - (p + 1) + 1 = e /\ e \in Nat \ {0} /\ k \in Nat
  BY <1>2, <1>4, <1>8
<1>9. ASSUME Unreadable(W) PROVE Each = count
  <2> SUFFICES ASSUME End(W) # {}, e < Len(W), W[e + 1] # Comma PROVE Each = count
    BY <1>3, <1>6, <1>9
  <2>1. e + 1 \in 1 .. Len(W) /\ p + (e + 1) = k + 1 /\ k < Len(log) /\ e < Cap
    <3>1. /\ e \in Nat \ {0} /\ r \in Nat /\ p \in Nat /\ Len(W) = r - p
          /\ Len(log) \in Nat /\ r <= Len(log) /\ r <= p + Cap
      BY <1>1, <1>2, <1>8
    <3> QED BY <3>1
  <2>2. log[k + 1] # Comma
    BY <1>1, <2>1
  <2>3. t.reads = "not"
    BY <1>4, <1>8, <2>1, <2>2 DEF HowRead
  <2>4. \A x \in S : x.place > m =>
           \E u \in S : u.reads = "not" /\ m < u.place /\ u.place <= x.place
    <3> SUFFICES ASSUME NEW x \in S, x.place > m
                 PROVE  t.reads = "not" /\ m < t.place /\ t.place <= x.place
      BY <1>4
    <3>1. x.place \in Nat
      BY <1>5 DEF Things
    <3> QED BY SMTT(30), <1>2, <1>4, <1>8, <2>3, <3>1
  <2>5. Each = Cardinality(Upto(S, m))
    BY <1>2, <1>5, <2>4, CountedAll DEF Each
  <2> QED BY <1>5, <2>5
<1>10. ASSUME ~Unreadable(W)
       PROVE  /\ End(W) # {} /\ (e < Len(W) => W[e + 1] = Comma)
              /\ t.reads # "not"
              /\ e < Len(W) => log[k + 1] = Comma /\ k + 1 < Len(log) /\ log[k + 2] = "\n"
  <2>1. End(W) # {} /\ (e < Len(W) => W[e + 1] = Comma)
    BY <1>6, <1>10
  <2>2. e < Len(W) => log[k + 1] = Comma /\ k + 1 < Len(log) /\ log[k + 2] = "\n"
    <3> SUFFICES ASSUME e < Len(W)
                 PROVE  log[k + 1] = Comma /\ k + 1 < Len(log) /\ log[k + 2] = "\n"
      OBVIOUS
    <3>1. e + 1 \in 1 .. Len(W) /\ p + (e + 1) = k + 1 /\ k + 1 \in 1 .. Len(log)
          /\ (k + 1) + 1 = k + 2
      <4>1. /\ e \in Nat \ {0} /\ r \in Nat /\ p \in Nat /\ Len(W) = r - p
            /\ Len(log) \in Nat /\ r <= Len(log)
        BY <1>1, <1>2, <1>8, <2>1
      <4> QED BY <4>1
    <3>2. log[k + 1] = Comma
      BY <1>1, <2>1, <3>1
    <3> QED BY <3>1, <3>2 DEF Separated
  <2>3. e <= Cap /\ (e < Cap /\ k < Len(log) => e < Len(W))
    BY SMTT(30), <1>1, <1>2, <1>4, <1>8, <2>1
  <2>4. t.reads # "not"
    <3> HIDE DEF k
    <3> QED BY <1>4, <1>8, <2>1, <2>2, <2>3 DEF HowRead
  <2> QED BY <2>1, <2>2, <2>4
<1>11. ASSUME ~Unreadable(W)
       PROVE  /\ Cardinality(Upto(S, k)) = counted
              /\ \A x \in S : x.place < k => x.reads = "on"
  <2>1. End(W) # {}
    BY <1>10, <1>11
  <2>2. Cardinality(Upto(S, t.place)) =
           Cardinality(Upto(S, m)) + (IF t.match THEN 1 ELSE 0)
    <3>1. t \in S /\ m < t.place /\ \A x \in S : x.place <= m \/ x.place >= t.place
      BY <1>4, <2>1
    <3> QED BY <1>2, <1>5, <3>1, CountOneMore
  <2>3. Cardinality(Upto(S, k)) = counted
    BY <1>4, <1>5, <2>1, <2>2
  <2>4. \A x \in S : x.place < k => x.reads = "on"
    <3> SUFFICES ASSUME NEW x \in S, x.place < k PROVE x.place <= m
      BY <1>5
    <3>1. x.place \in Nat
      BY <1>5 DEF Things
    <3> QED BY <1>4, <1>8, <2>1, <3>1
  <2> QED BY <2>3, <2>4
<1>12. ASSUME ~Unreadable(W)
       PROVE  /\ e # 0 /\ StartOf(W, e) \in Nat \ {0}
              /\ StartOf(W, e) <= Len(W) <=> e + 2 < Len(W)
              /\ e + 2 < Len(W) => StartOf(W, e) = e + 3
  <2>1. /\ e \in 1 .. Len(W) /\ (e < Len(W) => W[e + 1] = Comma)
        /\ e < Len(W) => log[k + 2] = "\n"
    BY <1>4, <1>10, <1>12
  <2>2. e + 1 < Len(W) => W[e + 2] = "\n"
    <3>1. e + 1 < Len(W) => e + 2 \in 1 .. Len(W) /\ p + (e + 2) = k + 2
      BY <1>2, <2>1
    <3> QED BY <1>1, <2>1, <3>1
  <2> QED BY <1>1, <2>1, <2>2 DEF StartOf
<1>13. ASSUME ~Unreadable(W), Rest(W) = <<>> PROVE Each = counted
  <2>1. ~(e + 2 < Len(W))
    <3> SUFFICES ASSUME StartOf(W, e) <= Len(W) PROVE FALSE
      BY <1>12, <1>13
    <3>1. Rest(W) = SubSeq(W, StartOf(W, e), Len(W))
      BY <1>7, <1>12, <1>13
    <3>2. Len(SubSeq(W, StartOf(W, e), Len(W))) = Len(W) - StartOf(W, e) + 1
      <4>1. StartOf(W, e) \in Int /\ Len(W) \in Int
            /\ \A i \in StartOf(W, e) .. Len(W) : W[i] \in Bytes
        BY <1>1, <1>12, <1>13
      <4> QED BY <4>1, SubSeqProperties
    <3>3. Len(Rest(W)) = 0
      BY <1>13
    <3>4. StartOf(W, e) \in Nat /\ Len(W) \in Nat
      BY <1>1, <1>12, <1>13
    <3>5. Len(W) - StartOf(W, e) + 1 = 0
      BY <3>1, <3>2, <3>3
    <3> QED BY <3>4, <3>5
  <2>2. t.reads = "last" \/ \A x \in S : x.place <= t.place
    <3>1. CASE r = p + Cap
      <4>1. e + 2 >= Cap /\ e \in Nat
        BY <1>1, <1>2, <1>8, <1>10, <1>13, <2>1, <3>1
      <4>2. t.reads = HowRead(log, p + 1, k) /\ t.reads # "not"
        BY <1>4, <1>10, <1>13
      <4>3. HowRead(log, p + 1, k) \in {"not", "last"}
        BY <1>8, <1>10, <1>13, <4>1 DEF HowRead
      <4> QED BY <4>2, <4>3
    <3>2. CASE r = Len(log)
      <4> SUFFICES ASSUME NEW x \in S PROVE x.place <= k
        BY <1>4, <1>10, <1>13
      <4>1. x.place \in Nat /\ Ends(log, x.place) /\ x.place \in 1 .. Len(log)
        BY <1>5, StoredIsSound DEF Things, S
      <4>2. k \in Nat /\ k + 2 >= Len(log)
        BY SMTT(30), <1>1, <1>2, <1>8, <1>10, <1>13, <2>1, <3>2
      <4>3. x.place # k + 1 /\ x.place # k + 2
        <5>1. e < Len(W) => log[k + 1] = Comma /\ k + 1 < Len(log) /\ log[k + 2] = "\n"
          BY <1>10, <1>13
        <5>2. log[x.place] = Closes /\ Comma # Closes /\ "\n" # Closes
          BY <4>1, BytesDiffer DEF Ends
        <5>3. e >= Len(W) => k = Len(log)
          BY <1>1, <1>2, <1>4, <1>8, <1>10, <1>13, <3>2
        <5>4. e \in Nat /\ Len(W) \in Nat
          BY <1>1, <1>8, <1>10, <1>13
        <5>5. x.place <= Len(log)
          BY <4>1
        <5> HIDE DEF k
        <5> QED BY <4>1, <4>2, <5>1, <5>2, <5>3, <5>4, <5>5
      <4> HIDE DEF k
      <4> QED BY <4>1, <4>2, <4>3
    <3> QED BY <1>1, <3>1, <3>2
  <2>3. /\ t \in S /\ t.place = k /\ t.reads # "not"
        /\ \A x \in S : x.place < t.place => x.reads = "on"
    BY <1>4, <1>10, <1>11, <1>13
  <2>4. Each = Cardinality(Upto(S, t.place))
    BY <1>5, <2>2, <2>3, CountedToLast DEF Each
  <2> QED BY <1>11, <1>13, <2>3, <2>4
<1>14. ASSUME ~Unreadable(W), Rest(W) # <<>>
       PROVE  /\ k \in Nat \ {0} /\ Ends(log, k)
              /\ k + 2 < Len(log) /\ log[k + 1] = Comma
              /\ Rest(W) \in Seq(Bytes) /\ Len(Rest(W)) <= Cap
              /\ r = k + 2 + Len(Rest(W)) /\ r <= Len(log)
              /\ \A i \in 1 .. Len(Rest(W)) : Rest(W)[i] = log[k + 2 + i]
              /\ \A x \in S : x.place <= k => x.reads = "on"
  <2> DEFINE b == Rest(W)
             from == StartOf(W, e)
  <2>1. b = SubSeq(W, from, Len(W))
    BY <1>7, <1>12, <1>14
  <2>2. from \in Nat \ {0} /\ Len(W) \in Nat /\ \A i \in from .. Len(W) : W[i] \in Bytes
    BY <1>1, <1>12, <1>14
  <2>3. /\ b \in Seq(Bytes)
        /\ Len(b) = IF from <= Len(W) THEN Len(W) - from + 1 ELSE 0
        /\ \A i \in 1 .. Len(W) - from + 1 : b[i] = W[from + i - 1]
    <3> HIDE DEF b, from
    <3> QED BY <2>1, <2>2, SubSeqProperties
  <2>4. from <= Len(W)
    <3> SUFFICES ASSUME ~(from <= Len(W)) PROVE FALSE
      OBVIOUS
    <3>1. Len(b) = 0 /\ b \in Seq(Bytes)
      BY <2>3
    <3> HIDE DEF b
    <3>2. b = <<>>
      BY <3>1
    <3> QED BY <1>14, <3>2 DEF b
  <2>5. e + 2 < Len(W) /\ from = e + 3 /\ e \in Nat
    BY <1>8, <1>10, <1>12, <1>14, <2>4
  <2> HIDE DEF b, from
  <2>6. Len(b) = Len(W) - e - 2 /\ Len(W) <= Cap
    BY <1>1, <1>2, <2>2, <2>3, <2>4, <2>5
  <2>7. r = k + 2 + Len(b) /\ k + 2 < Len(log) /\ Len(b) <= Cap /\ k \in Nat \ {0}
    BY <1>1, <1>2, <1>8, <1>10, <1>14, <2>2, <2>5, <2>6
  <2>8. ASSUME NEW i \in 1 .. Len(b) PROVE b[i] = log[k + 2 + i]
    <3>1. /\ i \in 1 .. Len(W) - from + 1 /\ from + i - 1 = e + 2 + i
          /\ e + 2 + i \in 1 .. Len(W) /\ p + (e + 2 + i) = k + 2 + i
      BY <1>2, <2>2, <2>5, <2>6
    <3>2. b[i] = W[e + 2 + i]
      BY <2>3, <3>1
    <3>3. W[e + 2 + i] = log[p + (e + 2 + i)]
      BY <1>1, <3>1
    <3> QED BY <3>1, <3>2, <3>3
  <2>9. t.reads = "on"
    <3>1. e + 2 < Cap /\ e < Len(W) /\ e \in Nat /\ k - (p + 1) + 1 = e
      BY <1>8, <1>10, <1>14, <2>2, <2>5, <2>6
    <3>2. HowRead(log, p + 1, k) \in {"not", "on"}
      <4> HIDE DEF k
      <4> QED BY <3>1 DEF HowRead
    <3> QED BY <1>4, <1>10, <1>14, <3>2
  <2>10. \A x \in S : x.place <= k => x.reads = "on"
    <3> SUFFICES ASSUME NEW x \in S, x.place <= k PROVE x.reads = "on"
      OBVIOUS
    <3>1. x.place \in Nat /\ (x.place = t.place => x = t) /\ t.place = k
      BY <1>4, <1>5, <1>10, <1>14 DEF Things
    <3>2. x.place < k => x.reads = "on"
      BY <1>11, <1>14
    <3> HIDE DEF k
    <3> QED BY <2>7, <2>9, <3>1, <3>2
  <2>11. Ends(log, k) /\ log[k + 1] = Comma /\ r <= Len(log)
    BY <1>1, <1>4, <1>10, <1>14, <2>2, <2>5
  <2> QED BY <2>3, <2>7, <2>8, <2>10, <2>11 DEF b
<1>15. ASSUME ~Unreadable(W), Rest(W) # <<>>
       PROVE  Done(k) = k + 2 /\ counted = Cardinality(Upto(S, k))
  BY <1>11, <1>14, <1>15 DEF Done
<1> HIDE DEF k, counted
<1>16. ASSUME ~Unreadable(W), Rest(W) # <<>>
       PROVE  k \in Nat /\ StandsAt(k, r, Rest(W), counted)
  BY <1>14, <1>15, <1>16 DEF StandsAt, S
<1> QED BY <1>9, <1>13, <1>16 DEF S, W, r, Each, counted

-----------------------------------------------------------------------------
(* The query between its turns.                                            *)

FileInv ==
    /\ EntryBytes
    /\ Separated(log)
    /\ exists \in BOOLEAN
    /\ log # <<>> \/ (\E w \in Writers : wpc[w] \in {"sep", "entry"}) => exists

QueryInv ==
    /\ scanning \in BOOLEAN /\ answer \in Nat /\ moments \in SUBSET Nat
    /\ scanning => /\ Whole!Count(StoredIn(log)) \in moments
                   /\ \E m \in Nat : Scanned(m)
    /\ ~scanning => at = 0 /\ buf = <<>> /\ count = 0

LEMMA EntriesAreBytes ==
    ASSUME LogAssumption, NEW e \in Entries
    PROVE  e \in Seq(Bytes) /\ e # <<>> /\ Separated(e)
<1>1. e \in Seq({Opens, "m", "x", "]", Closes}) /\ e # <<>>
  BY Zenon DEF LogAssumption, Opens, Closes
<1>2. {Opens, "m", "x", "]", Closes} \subseteq Bytes
  BY DEF Bytes
<1>3. Comma # "m" /\ Comma # "x" /\ Comma # "]" /\ Comma # Opens /\ Comma # Closes
  BY Zenon DEF Comma, Opens, Closes
<1>4. e \in Seq(Bytes)
  BY <1>1, <1>2
<1>5. \A j \in 1 .. Len(e) : e[j] # Comma
  BY <1>1, <1>3
<1> QED BY <1>1, <1>4, <1>5 DEF Separated

\* What each step of a listener does to the file.
LEMMA WriterSteps ==
    ASSUME LogAssumption, FileInv, NEW w \in Writers, WriterStep(w)
    PROVE  /\ FileInv' /\ UNCHANGED <<scanning, at, buf, count, answer>>
           /\ \/ UNCHANGED <<log, moments>>
              \/ log' = log \o Sep /\ UNCHANGED moments
              \/ /\ \E e \in Entries : log' = log \o e
                 /\ moments' = (IF scanning
                                THEN moments \cup {Whole!Count(StoredIn(log'))}
                                ELSE moments)
<1>1. CASE Receive(w) \/ Access(w) \/ OpenLog(w) \/ Lose(w)
  <2>1. UNCHANGED <<log, moments, scanning, at, buf, count, answer>>
    BY <1>1 DEF Receive, Access, OpenLog, Lose, scanVars
  <2>2. EntryBytes'
    <3>1. ASSUME Receive(w) PROVE EntryBytes'
      BY <3>1 DEF Receive, Goes, FileInv, EntryBytes
    <3>2. ASSUME Access(w) PROVE EntryBytes'
      BY <3>2 DEF Access, Goes, FileInv, EntryBytes
    <3>3. ASSUME OpenLog(w) PROVE EntryBytes'
      BY <3>3 DEF OpenLog, Goes, FileInv, EntryBytes
    <3>4. ASSUME Lose(w) PROVE EntryBytes'
      BY <3>4 DEF Lose, FileInv, EntryBytes
    <3> QED BY <1>1, <3>1, <3>2, <3>3, <3>4
  <2>3. /\ exists' \in BOOLEAN
        /\ log' # <<>> \/ (\E v \in Writers : wpc'[v] \in {"sep", "entry"}) => exists'
    BY <1>1 DEF Receive, Access, OpenLog, Lose, Goes, scanVars,
       FileInv, EntryBytes
  <2> QED BY <2>1, <2>2, <2>3 DEF FileInv
<1>2. CASE WriteSep(w)
  <2>1. /\ wpc[w] = "sep" /\ wpc' = [wpc EXCEPT ![w] = "entry"]
        /\ log' = log \o Sep \/ log' = log
        /\ UNCHANGED <<exists, first, entry, scanning, at, buf, count, answer, moments>>
    BY <1>2, Zenon DEF WriteSep, Goes, scanVars, Sep, Comma
  <2>2. Sep \in Seq(Bytes) /\ Separated(Sep)
    <3>0. "\n" # Comma
      BY Zenon DEF Comma
    <3>1. Sep[2] # Comma /\ Sep[2] = "\n" /\ Len(Sep) = 2
      BY <3>0 DEF Sep
    <3>2. \A j \in 1 .. 2 : Sep[j] = Comma => j < 2 /\ Sep[j + 1] = "\n"
      BY <3>1
    <3> QED BY <3>1, <3>2, SepIsSep DEF Separated
  <2>3. log' \in Seq(Bytes) /\ Separated(log')
    <3>1. log \in Seq(Bytes) /\ Separated(log)
      BY DEF FileInv, EntryBytes
    <3> QED BY <2>1, <2>2, <3>1, Prefix, SeparatedAppend
  <2>4. exists /\ wpc' \in [Writers -> {"recv", "access", "open", "sep", "entry"}]
    BY <2>1 DEF FileInv, EntryBytes
  <2>5. \A v \in Writers : wpc'[v] # "recv" => entry'[v] \in Entries
    BY <2>1 DEF FileInv, EntryBytes
  <2>6. FileInv'
    BY <2>1, <2>3, <2>4, <2>5 DEF FileInv, EntryBytes
  <2> QED BY <2>1, <2>6
<1>3. CASE WriteEntry(w)
  <2>1. /\ wpc[w] = "entry" /\ wpc' = [wpc EXCEPT ![w] = "recv"]
        /\ log' = log \o entry[w] /\ entry' = [entry EXCEPT ![w] = <<>>]
        /\ first' = [first EXCEPT ![w] = FALSE]
        /\ moments' = (IF scanning
                       THEN moments \cup {Whole!Count(StoredIn(log'))}
                       ELSE moments)
        /\ UNCHANGED <<exists, scanning, at, buf, count, answer>>
    BY <1>3 DEF WriteEntry, Goes, scanVars
  <2>2. entry[w] \in Entries /\ exists
    BY <2>1 DEF FileInv, EntryBytes
  <2>3. log' \in Seq(Bytes) /\ Separated(log')
    <3>1. log \in Seq(Bytes) /\ Separated(log)
      BY DEF FileInv, EntryBytes
    <3> QED BY <2>1, <2>2, <3>1, EntriesAreBytes, Prefix, SeparatedAppend
  <2>4. EntryBytes'
    BY <2>1, <2>2, <2>3 DEF FileInv, EntryBytes
  <2>5. FileInv'
    BY <2>1, <2>2, <2>3, <2>4 DEF FileInv
  <2> QED BY <2>1, <2>2, <2>5
<1> QED BY <1>1, <1>2, <1>3 DEF WriterStep

LEMMA LogStarts ==
    Init => FileInv /\ QueryInv /\ Whole!Init
<1> SUFFICES ASSUME Init PROVE FileInv /\ QueryInv /\ Whole!Init
  OBVIOUS
<1>1. FileInv /\ QueryInv
  <2>1. exists \in BOOLEAN /\ scanning \in BOOLEAN /\ ~scanning
    <3>1. exists = FALSE /\ scanning = FALSE
      BY DEF Init
    <3> QED BY <3>1, Zenon
  <2>2. EntryBytes /\ Separated(log)
    BY DEF Init, EntryBytes, Separated
  <2>3. FileInv
    BY <2>1, <2>2 DEF Init, FileInv
  <2>4. QueryInv
    BY <2>1 DEF Init, QueryInv
  <2> QED BY <2>3, <2>4
<1>2. StoredIn(log) = {}
  <2>1. log \in Seq(Bytes) /\ Len(log) = 0
    BY DEF Init
  <2>2. \A x \in StoredIn(log) : x.place \in 1 .. Len(log)
    BY <2>1, StoredIsSound
  <2>3. 1 .. 0 = {}
    OBVIOUS
  <2> QED BY <2>1, <2>2, <2>3
<1> QED BY <1>1, <1>2 DEF Init, Whole!Init

LEMMA AppendingImplements ==
    ASSUME LogAssumption, \A e \in Entries : Complete(e), FileInv, QueryInv,
           NEW w \in Writers, WriterStep(w)
    PROVE  /\ FileInv' /\ QueryInv'
           /\ Whole!Store \/ UNCHANGED Whole!vars
<1>1. /\ FileInv' /\ UNCHANGED <<scanning, at, buf, count, answer>>
      /\ log \in Seq(Bytes)
  BY WriterSteps DEF FileInv, EntryBytes
<1>2. CASE UNCHANGED <<log, moments>>
  <2>1. UNCHANGED Whole!vars
    BY <1>1, <1>2 DEF Whole!vars
  <2>2. QueryInv'
    BY <1>1, <1>2 DEF QueryInv, Scanned, StandsAt
  <2> QED BY <1>1, <2>1, <2>2
<1>3. ASSUME NEW c \in Seq(Bytes), log' = log \o c, moments \subseteq moments',
             moments' \in SUBSET Nat,
             scanning => Whole!Count(StoredIn(log')) \in moments'
      PROVE  QueryInv'
  <2>1. ASSUME NEW m \in Nat, Scanned(m) PROVE Scanned(m)'
    BY <1>1, <1>3, <2>1, ScannedAppend
  <2> QED BY <1>1, <1>3, <2>1 DEF QueryInv
<1>4. CASE log' = log \o Sep /\ UNCHANGED moments
  <2>1. StoredIn(log') = StoredIn(log)
    BY <1>1, <1>4, SepStoresNothing
  <2>2. QueryInv'
    BY <1>1, <1>3, <1>4, <2>1, SepIsSep DEF QueryInv
  <2>3. UNCHANGED Whole!vars
    BY <1>1, <1>4, <2>1 DEF Whole!vars
  <2> QED BY <1>1, <2>2, <2>3
<1>5. CASE /\ \E e \in Entries : log' = log \o e
           /\ moments' = (IF scanning
                          THEN moments \cup {Whole!Count(StoredIn(log'))}
                          ELSE moments)
  <2>1. PICK e \in Entries : log' = log \o e
    BY <1>5
  <2>2. e \in Seq(Bytes) /\ Complete(e)
    BY EntriesAreBytes
  <2>3. Whole!Count(StoredIn(log')) \in Nat
    <3>1. Things(StoredIn(log'))
      BY <1>1, <2>1, <2>2, Prefix, StoredAreThings
    <3> QED BY <3>1, CountNumber
  <2>4. QueryInv'
    BY <1>1, <1>3, <1>5, <2>1, <2>2, <2>3 DEF QueryInv
  <2>5. Whole!Store
    BY <1>1, <1>5, <2>1, <2>2, EntryImplementsStore
  <2> QED BY <1>1, <2>4, <2>5
<1> QED BY <1>2, <1>4, <1>5, WriterSteps

LEMMA StandsAtStart ==
    ASSUME Cap \in Nat \ {0}, log \in Seq(Bytes) PROVE StandsAt(0, 0, <<>>, 0)
<1> DEFINE S == StoredIn(log)
<1>1. Things(S)
  BY StoredAreThings
<1> HIDE DEF S
<1>2. Upto(S, 0) = {} /\ \A x \in S : x.place <= 0 => x.reads = "on"
  BY <1>1 DEF Upto, Things
<1>3. 0 = Cardinality(Upto(S, 0))
  BY <1>2, FS_EmptySet
<1>4. <<>> \in Seq(Bytes) /\ Len(<<>>) = 0 /\ Len(log) \in Nat /\ 1 .. 0 = {}
  OBVIOUS
<1> QED BY <1>2, <1>3, <1>4 DEF StandsAt, Done, S

LEMMA QueryImplements ==
    ASSUME LogAssumption, FileInv, QueryInv, BeginCount \/ ScanStep
    PROVE  /\ FileInv' /\ QueryInv'
           /\ Whole!Ask \/ Whole!Answer \/ Whole!AnswerPart \/ UNCHANGED Whole!vars
           /\ ScanEntry /\ ~scanning' => answer' \in moments
<1> DEFINE S == StoredIn(log)
           Each == Whole!Count(S)
           W == Filled
           counted == count + (IF Matched(W) THEN 1 ELSE 0)
<1>1. log \in Seq(Bytes) /\ Separated(log) /\ Cap \in Nat \ {0}
  <2>1. Cap \in Nat \ {0}
    BY Zenon DEF LogAssumption
  <2> QED BY <2>1 DEF FileInv, EntryBytes
<1>2. UNCHANGED <<exists, log, wpc, first, entry, mixed>>
  BY DEF BeginCount, ScanStep, ScanEntry, ReadFails, writerVars
<1>3. FileInv'
  BY <1>2 DEF FileInv, EntryBytes, Separated
<1>4. StoredIn(log)' = S /\ Things(S) /\ Each \in Nat
  BY <1>1, <1>2, StoredAreThings, CountNumber
<1>5. CASE BeginCount
  <2>1. /\ scanning = FALSE /\ scanning' = TRUE
        /\ at' = 0 /\ buf' = <<>> /\ count' = 0
        /\ moments' = {Each} /\ UNCHANGED answer
    <3>1. /\ ~scanning /\ scanning' = TRUE /\ at' = 0 /\ buf' = <<>> /\ count' = 0
          /\ moments' = {Each} /\ UNCHANGED answer
      BY <1>5 DEF BeginCount
    <3>2. scanning = FALSE
      BY <3>1 DEF QueryInv
    <3> QED BY <3>1, <3>2
  <2>2. StandsAt(0, 0, <<>>, 0)
    BY <1>1, StandsAtStart
  <2>3. Scanned(0)'
    BY <1>2, <2>1, <2>2 DEF Scanned, StandsAt
  <2>4. Whole!Count(StoredIn(log))' = Each
    BY <1>2
  <2>5. QueryInv'
    <3>1. scanning' \in BOOLEAN /\ scanning'
      BY <2>1
    <3>2. answer' \in Nat /\ moments' \in SUBSET Nat
      BY <1>4, <2>1 DEF QueryInv
    <3>3. Whole!Count(StoredIn(log))' \in moments'
      BY <2>1, <2>4
    <3> HIDE DEF S, Each
    <3> QED BY <2>3, <3>1, <3>2, <3>3 DEF QueryInv
  <2>6. Whole!Ask
    BY <1>2, <2>1 DEF Whole!Ask
  <2> QED BY <1>3, <2>1, <2>5, <2>6
<1>6. ASSUME scanning, NEW n \in Nat, EndCount(n), n <= Each
      PROVE  /\ QueryInv' /\ Whole!AnswerPart
             /\ n = Each => answer' \in moments
  <2>1. /\ scanning' = FALSE /\ at' = 0 /\ buf' = <<>> /\ count' = 0
        /\ answer' = n /\ moments' = {}
    BY <1>6 DEF EndCount
  <2>2. QueryInv'
    <3>1. scanning' \in BOOLEAN /\ ~scanning'
      BY <2>1
    <3> QED BY <1>6, <2>1, <3>1 DEF QueryInv
  <2>3. Each \in moments
    BY <1>6 DEF QueryInv
  <2>4. n \in 0 .. Each
    BY <1>4, <1>6
  <2>5. Whole!AnswerPart
    BY <1>2, <1>6, <2>1, <2>3, <2>4 DEF Whole!AnswerPart
  <2> QED BY <2>1, <2>2, <2>3, <2>5
<1>7. CASE ScanStep
  <2>1. scanning /\ UNCHANGED log
    BY <1>2, <1>7 DEF ScanStep, ScanEntry, ReadFails
  <2>2. PICK m \in Nat : Scanned(m)
    BY <2>1 DEF QueryInv
  <2>3. count \in Nat /\ count <= Each /\ counted \in Nat
    <3>1. count = Cardinality(Upto(S, m)) /\ \A x \in S : x.place <= m => x.reads = "on"
      BY <2>2 DEF Scanned, StandsAt
    <3> QED BY <1>4, <3>1, CountedPart, CountNumber
  <2>4. CASE ReadFails /\ ~ScanEntry
    <3>1. EndCount(count)
      BY <2>4 DEF ReadFails
    <3>2. QueryInv' /\ Whole!AnswerPart
      <4> HIDE DEF S, Each, W, counted
      <4> QED BY <1>6, <2>1, <2>3, <3>1
    <3> QED BY <1>3, <2>4, <3>2
  <2>5. CASE ScanEntry
    <3>1. /\ Unreadable(W) => Each = count
          /\ ~Unreadable(W) /\ Rest(W) = <<>> => Each = counted
          /\ ~Unreadable(W) /\ Rest(W) # <<>> =>
                \E k \in Nat : StandsAt(k, ReadTo, Rest(W), counted)
      BY <1>1, <2>2, Turn
    <3>2. /\ Unreadable(W) => EndCount(count)
          /\ ~Unreadable(W) /\ Rest(W) = <<>> => EndCount(counted)
          /\ ~Unreadable(W) /\ Rest(W) # <<>> =>
                /\ count' = counted /\ buf' = Rest(W) /\ at' = ReadTo
                /\ UNCHANGED <<scanning, answer, moments>>
      BY <2>5 DEF ScanEntry
    <3> HIDE DEF S, Each, W, counted
    <3>3. CASE Unreadable(W)
      BY <1>3, <1>4, <1>6, <2>1, <2>3, <3>1, <3>2, <3>3
    <3>4. CASE ~Unreadable(W) /\ Rest(W) = <<>>
      BY <1>3, <1>4, <1>6, <2>1, <2>3, <3>1, <3>2, <3>4
    <3>5. CASE ~Unreadable(W) /\ Rest(W) # <<>>
      <4>1. /\ at' = ReadTo /\ buf' = Rest(W) /\ count' = counted
            /\ UNCHANGED <<scanning, answer, moments, log>>
        BY <2>1, <3>2, <3>5
      <4>2. PICK k \in Nat : StandsAt(k, ReadTo, Rest(W), counted)
        BY <3>1, <3>5
      <4>3. Scanned(k)'
        BY <4>1, <4>2 DEF Scanned, StandsAt
      <4>4. QueryInv'
        BY <2>1, <4>1, <4>3 DEF QueryInv
      <4>5. UNCHANGED Whole!vars
        BY <4>1 DEF Whole!vars
      <4> QED BY <1>3, <2>1, <4>1, <4>4, <4>5
    <3> QED BY <3>3, <3>4, <3>5
  <2> QED BY <1>7, <2>4, <2>5 DEF ScanStep
<1> QED BY <1>5, <1>7

LEMMA LogInvariance ==
    ASSUME LogAssumption, \A e \in Entries : Complete(e), FileInv, QueryInv,
           [Next]_vars
    PROVE  /\ FileInv' /\ QueryInv'
           /\ [Whole!Next]_Whole!vars
           /\ ScanEntry /\ ~scanning' => answer' \in moments \/ UNCHANGED vars
<1>1. ASSUME NEW w \in Writers, WriterStep(w)
      PROVE  /\ FileInv' /\ QueryInv' /\ [Whole!Next]_Whole!vars
             /\ ~(scanning /\ ~scanning')
  BY <1>1, AppendingImplements, WriterSteps DEF Whole!Next
<1>2. CASE BeginCount \/ ScanStep
  BY <1>2, QueryImplements DEF Whole!Next
<1>3. CASE UNCHANGED vars
  <2>1. UNCHANGED <<exists, log, wpc, first, entry, mixed, scanning, at, buf,
                    count, answer, moments>>
    BY <1>3 DEF vars, writerVars, scanVars
  <2>2. FileInv'
    BY <2>1 DEF FileInv, EntryBytes, Separated
  <2>3. QueryInv'
    BY <2>1 DEF QueryInv, Scanned, StandsAt
  <2>4. UNCHANGED Whole!vars
    BY <2>1 DEF Whole!vars
  <2> QED BY <1>3, <2>2, <2>3, <2>4
<1>4. ScanEntry => scanning
  BY DEF ScanEntry
<1> QED BY <1>1, <1>2, <1>3, <1>4 DEF Next

\* What a count query answers is what a reader of the whole file would have
\* counted at some time while it ran, or less if reading fails: for any
\* listeners, any size of the buffer, and any entries that end like entries.
THEOREM QueriesCountAMoment ==
    ASSUME LogAssumption, \A e \in Entries : Complete(e)
    PROVE  Spec => CountsAMoment
<1>1. Init => FileInv /\ QueryInv /\ Whole!Init
  BY LogStarts
<1>2. FileInv /\ QueryInv /\ [Next]_vars =>
         /\ FileInv' /\ QueryInv'
         /\ [Whole!Next]_Whole!vars
         /\ [ScanEntry /\ ~scanning' => answer' \in moments]_vars
  BY LogInvariance
<1> QED BY <1>1, <1>2, PTL DEF Spec, CountsAMoment, Whole!Spec

MixedKnown == mixed \in BOOLEAN

\* The log and its query are of their types: what is in the buffer is never
\* longer than the buffer.
THEOREM LogTypeCorrect ==
    ASSUME LogAssumption, \A e \in Entries : Complete(e)
    PROVE  Spec => []TypeOK
<1>1. Init => FileInv /\ QueryInv /\ MixedKnown
  <2>1. mixed = FALSE => mixed \in BOOLEAN
    BY Zenon
  <2> QED BY <2>1, LogStarts DEF Init, MixedKnown
<1>2. FileInv /\ QueryInv /\ [Next]_vars => FileInv' /\ QueryInv'
  BY LogInvariance
<1>3. MixedKnown /\ [Next]_vars => MixedKnown'
  <2> SUFFICES ASSUME mixed \in BOOLEAN, [Next]_vars PROVE mixed' \in BOOLEAN
    BY DEF MixedKnown
  <2>1. ASSUME NEW w \in Writers, Receive(w) PROVE mixed' \in BOOLEAN
    BY <2>1, Zenon DEF Receive
  <2>2. \/ UNCHANGED mixed \/ mixed' = TRUE
        \/ \E w \in Writers : Receive(w)
    BY DEF Next, WriterStep, Access, OpenLog, WriteSep, WriteEntry,
       Lose, BeginCount, ScanStep, ScanEntry, ReadFails, writerVars, vars
  <2>3. mixed' = TRUE => mixed' \in BOOLEAN
    BY Zenon
  <2> QED BY <2>1, <2>2, <2>3
<1>4. FileInv /\ QueryInv /\ MixedKnown => TypeOK
  <2> SUFFICES ASSUME FileInv, QueryInv, mixed \in BOOLEAN PROVE TypeOK
    BY DEF MixedKnown
  <2>1. Cap \in Nat \ {0}
    BY Zenon DEF LogAssumption
  <2>2. log \in Seq(Bytes) /\ Separated(log)
    BY DEF FileInv, EntryBytes
  <2>3. PICK m : Scanned(m)
    <3>1. CASE scanning
      BY <3>1 DEF QueryInv
    <3>2. CASE ~scanning
      BY <2>1, <2>2, <3>2, StandsAtStart DEF QueryInv, Scanned
    <3> QED BY <3>1, <3>2
  <2>4. Len(Filled) <= Cap
    <3>1. /\ ReadTo \in Nat /\ ReadTo <= Done(m) + Cap
          /\ Len(Filled) = ReadTo - Done(m)
      BY <2>1, <2>2, <2>3, Window
    <3>2. Done(m) \in Nat
      BY <2>2, <2>3, ScannedStart
    <3> QED BY <2>1, <3>1, <3>2
  <2>5. at \in 0 .. Len(log)
    <3>1. Done(m) \in Nat
      BY <2>2, <2>3, ScannedStart
    <3> QED BY <2>2, <2>3, <3>1 DEF Scanned, StandsAt
  <2>6. count \in Nat
    BY <2>2, <2>3, StoredAreThings, CountNumber DEF Scanned, StandsAt
  <2>7. log \in Seq({"{", "m", "x", "]", "}", ",", "\n"})
    BY <2>2, Zenon DEF Bytes, Opens, Closes, Comma
  <2>8. /\ exists \in BOOLEAN /\ scanning \in BOOLEAN
        /\ (log # <<>> => exists)
        /\ wpc \in [Writers -> {"recv", "access", "open", "sep", "entry"}]
        /\ first \in [Writers -> BOOLEAN]
        /\ entry \in [Writers -> Entries \cup {<<>>}]
        /\ answer \in Nat /\ moments \subseteq Nat
    BY DEF FileInv, EntryBytes, QueryInv
  <2> QED BY <2>4, <2>5, <2>6, <2>7, <2>8, Zenon DEF TypeOK
<1> QED BY <1>1, <1>2, <1>3, <1>4, PTL DEF Spec
-----------------------------------------------------------------------------
(* The list of agents.  What a request has to find, since[r], is not empty *)
(* only if the script was complete and nobody was making it anew: that     *)
(* then stays so.  Therefore the child prints every directory, of which    *)
(* none is ever removed, and one read() takes them all if they fit.  While *)
(* the request walks that text nobody else has called strtok(): what it    *)
(* has not come across is still left, and the walk does not end before.    *)

Fits == Cardinality(dirs) <= ReadCap

\* The request r has something to find: it will.
SinceSettled(r) == since[r] # {} => D!Settled
Known(r) == /\ since[r] \subseteq dirs
            /\ rpc[r] \in {"print", "read"} => out[r] \subseteq dirs
            /\ ask[r] # All => since[r] \subseteq {ask[r]}
Printed(r) == rpc[r] \in {"print", "read"} => since[r] \subseteq out[r]
Walked(r) ==
    /\ rpc[r] = "walk" => ask[r] \notin out[r]
    /\ rpc[r] = "walk" /\ since[r] # {} =>
           saved.of = r /\ (Fits => since[r] \subseteq out[r] \cup saved.left)
Listed(r) ==
    rpc[r] \in {"info", "infoRead", "done"} /\ Fits => since[r] \subseteq out[r]
InfoKept(r) == rpc[r] # "done" /\ ask[r] \in since[r] => info[ask[r]] = "full"
Shown(r) == rpc[r] = "done" /\ Fits /\ ask[r] \in since[r] => result[r] = "info"

Found(r) == /\ SinceSettled(r) /\ Known(r) /\ Printed(r)
            /\ Walked(r) /\ Listed(r) /\ InfoKept(r) /\ Shown(r)

IInv == D!TypeOK /\ \A r \in Requests : Found(r)

-----------------------------------------------------------------------------
\* Cardinality is the same in either module.
LEMMA SameCardinality == \A T : D!Cardinality(T) = Cardinality(T)
  BY DEF D!Cardinality, Cardinality, D!IsFiniteSet, IsFiniteSet

\* What is assumed of the constants.
LEMMA Assumed ==
    /\ IsFiniteSet(Agents) /\ Old \subseteq Agents /\ Asked \subseteq Agents
    /\ All \notin Agents \cup {NoAgent} /\ NoAgent \notin Agents
    /\ NoRequest \notin Requests
    /\ ReadCap \in Nat /\ PipeCap \in Nat
  BY DirectoryConstants DEF D!DirectoryAssumption, D!IsFiniteSet, IsFiniteSet

LEMMA InitInv == D!Init => IInv
<1> SUFFICES ASSUME D!Init PROVE IInv
  OBVIOUS
<1>1. D!TypeOK
  BY Assumed DEF D!Init, D!TypeOK, D!Nobodys
<1>2. \A r \in Requests : Found(r)
  BY DEF D!Init, Found, SinceSettled, Known, Printed, Walked, Listed, InfoKept, Shown
<1> QED BY <1>1, <1>2 DEF IInv

\* The walk of a list keeps the types.
LEMMA TokenTypes ==
    ASSUME D!TypeOK, NEW r \in Requests, D!ReadList(r) \/ D!NextToken(r)
    PROVE  D!TypeOK'
<1> USE Assumed DEF D!TypeOK
<1>1. /\ since' \in [Requests -> SUBSET Agents]
      /\ UNCHANGED <<script, dirs, info, login, loginAt, ask>>
  BY DEF D!ReadList, D!NextToken, D!Disturbs, D!loginVars
<1>2. /\ rpc' = [rpc EXCEPT ![r] = "info"] \/ rpc' = [rpc EXCEPT ![r] = "walk"]
           \/ rpc' = [rpc EXCEPT ![r] = "done"]
      /\ \/ UNCHANGED result
         \/ result' = [result EXCEPT ![r] = "list"]
         \/ result' = [result EXCEPT ![r] = "unknown"]
  BY DEF D!ReadList, D!NextToken, D!Takes, D!WalkEnds, D!Ends, D!Goes
<1>3. /\ out' \in [Requests -> SUBSET D!Pieces]
      /\ saved' \in [of : Requests \cup {NoRequest}, left : SUBSET D!Pieces]
  <2>1. CASE D!ReadList(r)
    <3>1. PICK list \in D!Readable(r) :
             \/ \E piece \in list : /\ out' = [out EXCEPT ![r] = {piece}]
                                    /\ saved' = [of |-> r, left |-> list \ {piece}]
             \/ D!WalkEnds(r, "read") /\ UNCHANGED out
      BY <2>1 DEF D!ReadList
    <3>2. list \subseteq out[r] /\ out[r] \subseteq D!Pieces
      BY DEF D!Readable
    <3>3. CASE D!WalkEnds(r, "read") /\ UNCHANGED out
      BY <3>3 DEF D!WalkEnds, D!Ends, D!Nobodys
    <3>4. ASSUME NEW piece \in list, out' = [out EXCEPT ![r] = {piece}],
                 saved' = [of |-> r, left |-> list \ {piece}]
          PROVE  /\ out' \in [Requests -> SUBSET D!Pieces]
                 /\ saved' \in [of : Requests \cup {NoRequest}, left : SUBSET D!Pieces]
      BY <3>2, <3>4
    <3> QED BY <3>1, <3>3, <3>4
  <2>2. CASE D!NextToken(r)
    <3>1. CASE D!WalkEnds(r, "walk") /\ UNCHANGED out
      BY <3>1 DEF D!WalkEnds, D!Ends, D!Nobodys
    <3>2. ASSUME NEW piece \in D!Pieces,
                 out' = [out EXCEPT ![r] = @ \cup {piece}],
                 saved' = [saved EXCEPT !.left = @ \ {piece}]
          PROVE  /\ out' \in [Requests -> SUBSET D!Pieces]
                 /\ saved' \in [of : Requests \cup {NoRequest}, left : SUBSET D!Pieces]
      BY <3>2
    <3>3. saved.left \subseteq D!Pieces
      OBVIOUS
    <3> QED BY <2>2, <3>1, <3>2, <3>3 DEF D!NextToken
  <2> QED BY <2>1, <2>2
<1> QED BY <1>1, <1>2, <1>3

LEMMA TypeStep == D!TypeOK /\ [D!Next]_D!vars => D!TypeOK'
<1> SUFFICES ASSUME D!TypeOK, [D!Next]_D!vars PROVE D!TypeOK'
  OBVIOUS
<1> USE Assumed DEF D!TypeOK
<1>1. CASE D!LoginStep
  <2>1. CASE \E a \in Agents : D!BeginLogin(a)
    BY <2>1 DEF D!BeginLogin, D!LoginGoes
  <2>2. CASE D!MakeDir
    BY <2>2 DEF D!MakeDir, D!LoginGoes
  <2>3. CASE D!OpenInfo
    BY <2>3 DEF D!OpenInfo, D!LoginGoes
  <2>4. CASE D!WriteInfo
    BY <2>4 DEF D!WriteInfo, D!LoginGoes
  <2>5. CASE D!LoginFails
    BY <2>5 DEF D!LoginFails
  <2> QED BY <1>1, <2>1, <2>2, <2>3, <2>4, <2>5 DEF D!LoginStep
<1>2. ASSUME NEW r \in Requests, NEW a \in Asked \cup {All}, D!Begin(r, a)
      PROVE D!TypeOK'
  <2>1. since' \in [Requests -> SUBSET Agents]
    BY <1>2 DEF D!Begin, D!loginVars
  <2> QED BY <1>2, <2>1 DEF D!Begin, D!loginVars
<1>3. ASSUME NEW r \in Requests, D!RequestStep(r) PROVE D!TypeOK'
  <2>1. CASE D!Access(r)
    BY <2>1 DEF D!Access, D!Goes, D!loginVars
  <2>2. CASE D!WriteScript(r)
    BY <2>2 DEF D!WriteScript, D!Goes, D!loginVars
  <2>3. CASE D!Exec(r)
    BY <2>3 DEF D!Exec, D!Goes, D!loginVars
  <2>4. CASE D!Fails(r)
    BY <2>4 DEF D!Fails, D!Ends, D!Nobodys, D!Goes, D!loginVars
  <2>5. CASE D!Run(r)
    BY <2>5 DEF D!Run, D!Pieces, D!Goes, D!loginVars
  <2>6. CASE D!ChildPrints(r)
    BY <2>6 DEF D!ChildPrints, D!Goes, D!loginVars
  <2>7. CASE D!ReadList(r)
    BY <2>7, TokenTypes
  <2>10. CASE D!NextToken(r)
    BY <2>10, TokenTypes
  <2>8. CASE D!OpenInfoOf(r)
    BY <2>8 DEF D!OpenInfoOf, D!Ends, D!Nobodys, D!Goes, D!loginVars
  <2>9. CASE D!ReadInfoOf(r)
    BY <2>9 DEF D!ReadInfoOf, D!Ends, D!Nobodys, D!Goes, D!loginVars
  <2> QED BY <1>3, <2>1, <2>2, <2>3, <2>4, <2>5, <2>6, <2>7, <2>8, <2>9,
          <2>10 DEF D!RequestStep
<1>4. ASSUME NEW r \in Requests, D!OpenScript(r) PROVE D!TypeOK'
  BY <1>4 DEF D!OpenScript, D!Goes, D!loginVars
<1>5. CASE UNCHANGED D!vars
  BY <1>5 DEF D!vars, D!loginVars
<1>6. CASE D!QueryToken
  <2>1. saved' \in [of : Requests \cup {NoRequest}, left : SUBSET D!Pieces]
    BY <1>6 DEF D!QueryToken, D!Nobodys
  <2> QED BY <1>6, <2>1 DEF D!QueryToken, D!Disturbs, D!loginVars
<1> QED BY <1>1, <1>2, <1>3, <1>4, <1>5, <1>6 DEF D!Next

-----------------------------------------------------------------------------
(* What is stable.                                                         *)

\* Once the script is complete and nobody is making it, it stays so: whoever
\* comes finds it.
LEMMA SettledStays == D!TypeOK /\ D!Settled /\ [D!Next]_D!vars => D!Settled'
<1> SUFFICES ASSUME D!TypeOK, D!Settled, [D!Next]_D!vars PROVE D!Settled'
  OBVIOUS
<1> USE DEF D!Settled, D!Making, D!TypeOK
<1>1. CASE D!LoginStep
  BY <1>1 DEF D!LoginStep, D!BeginLogin, D!MakeDir, D!OpenInfo, D!WriteInfo,
     D!LoginFails
<1>2. ASSUME NEW r \in Requests, NEW a \in Asked \cup {All}, D!Begin(r, a)
      PROVE D!Settled'
  BY <1>2 DEF D!Begin
<1>3. ASSUME NEW r \in Requests, D!RequestStep(r) PROVE D!Settled'
  BY <1>3 DEF D!RequestStep, D!Access, D!WriteScript, D!Exec, D!Fails, D!Run,
     D!ChildPrints, D!ReadList, D!NextToken, D!Takes, D!WalkEnds, D!OpenInfoOf,
     D!ReadInfoOf, D!Goes, D!Ends
<1>4. ASSUME NEW r \in Requests, D!OpenScript(r) PROVE D!Settled'
  BY <1>4 DEF D!OpenScript, D!Goes
<1>5. CASE D!QueryToken \/ UNCHANGED D!vars
  BY <1>5 DEF D!QueryToken, D!vars
<1> QED BY <1>1, <1>2, <1>3, <1>4, <1>5 DEF D!Next

\* No directory is removed.
LEMMA DirsGrow == [D!Next]_D!vars => dirs \subseteq dirs'
  BY DEF D!Next, D!vars, D!LoginStep, D!BeginLogin, D!MakeDir, D!OpenInfo,
     D!WriteInfo, D!LoginFails, D!Begin, D!RequestStep, D!OpenScript, D!Access,
     D!WriteScript, D!Exec, D!Fails, D!Run, D!ChildPrints, D!ReadList,
     D!NextToken, D!QueryToken, D!OpenInfoOf, D!ReadInfoOf, D!loginVars

LEMMA FitsBefore == D!TypeOK /\ D!TypeOK' /\ [D!Next]_D!vars /\ Fits' => Fits
<1> SUFFICES ASSUME D!TypeOK, D!TypeOK', [D!Next]_D!vars, Fits' PROVE Fits
  OBVIOUS
<1>1. IsFiniteSet(dirs') /\ IsFiniteSet(dirs)
  BY Assumed, FS_Subset DEF D!TypeOK
<1>2. Cardinality(dirs) <= Cardinality(dirs')
  BY <1>1, DirsGrow, FS_Subset
<1>3. Cardinality(dirs) \in Nat /\ Cardinality(dirs') \in Nat
  BY <1>1, FS_CardinalityType
<1> QED BY <1>2, <1>3, Assumed DEF Fits

-----------------------------------------------------------------------------
(* The steps.                                                              *)

\* Logins only add directories, and truncate the info file of the one that
\* logs in, which then is no longer expected.
LEMMA LoginKeeps ==
    ASSUME IInv, D!TypeOK', D!LoginStep, NEW q \in Requests
    PROVE  Found(q)'
<1> USE DEF D!TypeOK, D!loginVars
<1>0. [D!Next]_D!vars
  BY DEF D!Next
<1>1. Fits' => Fits
  BY <1>0, FitsBefore DEF IInv
<1>2. Found(q)
  BY DEF IInv
<1>3. since'[q] \subseteq since[q] /\ UNCHANGED <<rpc, ask, out, saved, result>>
  BY DEF D!LoginStep, D!BeginLogin, D!MakeDir, D!OpenInfo, D!WriteInfo,
     D!LoginFails
<1>4. SinceSettled(q)'
  BY <1>0, <1>2, <1>3, SettledStays DEF Found, SinceSettled, IInv
<1>5. Known(q)'
  BY <1>0, <1>2, <1>3, DirsGrow DEF Found, Known
<1>6. Printed(q)' /\ Walked(q)' /\ Listed(q)'
  BY <1>1, <1>2, <1>3 DEF Found, Printed, Walked, Listed
<1>7. Shown(q)'
  BY <1>1, <1>2, <1>3 DEF Found, Shown
<1>8. InfoKept(q)'
  <2> SUFFICES ASSUME rpc[q] # "done", ask[q] \in since'[q]
               PROVE  info'[ask[q]] = "full"
    BY <1>3 DEF InfoKept
  <2>1. info[ask[q]] = "full" /\ ask[q] \in Agents
    BY <1>2, <1>3 DEF Found, InfoKept, IInv
  <2>2. CASE D!OpenInfo
    BY <2>1, <2>2 DEF D!OpenInfo, D!LoginGoes, IInv
  <2>3. CASE D!WriteInfo
    BY <2>1, <2>3 DEF D!WriteInfo, D!LoginGoes, IInv
  <2>4. CASE (\E a \in Agents : D!BeginLogin(a)) \/ D!MakeDir \/ D!LoginFails
    BY <2>1, <2>4 DEF D!BeginLogin, D!MakeDir, D!LoginFails
  <2> QED BY <2>2, <2>3, <2>4 DEF D!LoginStep
<1> QED BY <1>4, <1>5, <1>6, <1>7, <1>8 DEF Found

\* Of other requests, a step of a request changes nothing that matters: they have
\* nothing to find any more if it calls strtok() in their walk.
LEMMA OthersKept ==
    ASSUME IInv, [D!Next]_D!vars, NEW q \in Requests,
           UNCHANGED <<rpc[q], ask[q], out[q], result[q], dirs, info>>,
           since'[q] = since[q] \/ since'[q] = {},
           rpc[q] = "walk" /\ since'[q] # {} => saved' = saved
    PROVE  Found(q)'
<1>1. Found(q)
  BY DEF IInv
<1>2. SinceSettled(q)'
  BY <1>1, SettledStays DEF Found, SinceSettled, IInv
<1>3. Walked(q)'
  BY <1>1 DEF Found, Walked, Fits
<1> QED BY <1>1, <1>2, <1>3
        DEF Found, Known, Printed, Listed, InfoKept, Shown, Fits

\* Nor does the end of its walk: the pointer into their text stays.
LEMMA EndKeepsOthers ==
    ASSUME IInv, NEW r \in Requests, NEW q \in Requests, q # r,
           saved' = IF saved.of = r THEN D!Nobodys ELSE saved,
           rpc[q] = "walk", since[q] # {}
    PROVE  saved' = saved
  BY DEF IInv, Found, Walked

\* And a query has no list of its own.
LEMMA QueryKeeps ==
    ASSUME IInv, D!QueryToken, NEW q \in Requests
    PROVE  Found(q)'
<1>1. /\ UNCHANGED <<rpc, ask, out, result, dirs, info>>
      /\ since'[q] = IF rpc[q] = "walk" THEN {} ELSE since[q]
  BY Assumed DEF D!QueryToken, D!Disturbs, D!loginVars
<1> QED BY <1>1, OthersKept DEF D!Next

\* A request begins with what it has to find.
LEMMA BeginKeeps ==
    ASSUME IInv, NEW r \in Requests, NEW a \in Asked \cup {All}, D!Begin(r, a),
           NEW q \in Requests
    PROVE  Found(q)'
<1> USE DEF D!TypeOK, D!loginVars
<1>1. CASE q # r
  BY <1>1, OthersKept DEF D!Begin, D!Next, IInv
<1>2. CASE q = r
  <2>1. /\ rpc'[q] = "access" /\ ask'[q] = a /\ out'[q] = {}
        /\ since'[q] = IF ~D!Settled THEN {}
                       ELSE IF a = All THEN dirs
                       ELSE {b \in dirs : b = a /\ info[b] = "full"}
        /\ UNCHANGED <<script, dirs, info>>
    BY <1>2 DEF D!Begin, IInv
  <2>2. D!Settled => D!Settled'
    BY SettledStays DEF IInv, D!Next
  <2>3. since'[q] \subseteq dirs
    BY <2>1
  <2>4. a \in since'[q] => info[a] = "full"
    BY <2>1, Assumed DEF IInv
  <2> QED BY <2>1, <2>2, <2>3, <2>4
          DEF Found, SinceSettled, Known, Printed, Walked, Listed, InfoKept, Shown
<1> QED BY <1>1, <1>2

\* Steps that only move the request on, before its child prints.
LEMMA EarlyKeeps ==
    ASSUME IInv, NEW r \in Requests,
           D!Access(r) \/ D!OpenScript(r) \/ D!WriteScript(r) \/ D!Exec(r)
              \/ D!Fails(r),
           NEW q \in Requests
    PROVE  Found(q)'
<1> USE DEF D!TypeOK, D!loginVars, D!Goes, D!Ends
<1>1. CASE q # r
  BY <1>1, OthersKept, EndKeepsOthers
     DEF D!Access, D!OpenScript, D!WriteScript, D!Exec, D!Fails, D!Next,
         D!RequestStep, IInv
<1>2. CASE q = r
  <2>1. Found(q) /\ D!Settled => D!Settled'
    BY SettledStays DEF IInv, D!Next, D!RequestStep
  <2>2. Found(q)
    BY DEF IInv
  <2>3. CASE D!Fails(r)
    BY <1>2, <2>1, <2>2, <2>3
       DEF D!Fails, IInv, Found, SinceSettled, Known, Printed, Walked, Listed, InfoKept,
           Shown
  <2>4. CASE D!Access(r) \/ D!OpenScript(r) \/ D!WriteScript(r) \/ D!Exec(r)
    <3>1. rpc'[q] \in {"open", "exec", "write", "run"}
      BY <1>2, <2>4 DEF D!Access, D!OpenScript, D!WriteScript, D!Exec, IInv
    <3>2. UNCHANGED <<dirs, info, ask, out, since>> /\ rpc[q] # "done"
      BY <1>2, <2>4 DEF D!Access, D!OpenScript, D!WriteScript, D!Exec, IInv
    <3> QED BY <2>1, <2>2, <3>1, <3>2
            DEF Found, SinceSettled, Known, Printed, Walked, Listed, InfoKept, Shown
  <2> QED BY <2>3, <2>4
<1> QED BY <1>1, <1>2

\* The child prints all directories: nobody can have emptied its script.
LEMMA RunKeeps ==
    ASSUME IInv, NEW r \in Requests, D!Run(r) \/ D!ChildPrints(r),
           NEW q \in Requests
    PROVE  Found(q)'
<1> USE DEF D!TypeOK, D!loginVars, D!Goes
<1>1. CASE q # r
  BY <1>1, OthersKept DEF D!Run, D!ChildPrints, D!Next, D!RequestStep, IInv
<1>2. CASE q = r
  <2>1. Found(q)
    BY DEF IInv
  <2>2. UNCHANGED <<dirs, info, ask, since>> /\ rpc[q] # "done"
    BY <1>2 DEF D!Run, D!ChildPrints, IInv
  <2>3. rpc'[q] \in {"print", "read"}
    BY <1>2 DEF D!Run, D!ChildPrints, IInv
  <2>4. since'[q] \subseteq out'[q] /\ out'[q] \subseteq dirs
    <3>1. CASE D!Run(r)
      BY <1>2, <2>1, <3>1 DEF D!Run, Found, SinceSettled, D!Settled, Known, IInv
    <3>2. CASE D!ChildPrints(r)
      BY <1>2, <2>1, <3>2 DEF D!ChildPrints, Found, Printed, Known, IInv
    <3> QED BY <3>1, <3>2
  <2>5. D!Settled => D!Settled'
    BY SettledStays DEF IInv, D!Next, D!RequestStep
  <2> QED BY <2>1, <2>2, <2>3, <2>4, <2>5
          DEF Found, SinceSettled, Known, Printed, Walked, Listed, InfoKept, Shown
<1> QED BY <1>1, <1>2

\* Of the requests that walk a list, only the one that calls strtok() has something
\* to find afterwards.
LEMMA TokenKeepsOthers ==
    ASSUME IInv, NEW r \in Requests, D!ReadList(r) \/ D!NextToken(r),
           NEW q \in Requests, q # r
    PROVE  Found(q)'
<1>1. UNCHANGED <<rpc[q], ask[q], out[q], result[q], dirs, info>>
  BY DEF D!ReadList, D!NextToken, D!Takes, D!WalkEnds, D!Ends, D!Goes, D!loginVars,
         D!TypeOK, IInv
<1>2. since'[q] = IF rpc[q] = "walk" THEN {} ELSE since[q]
  BY DEF D!ReadList, D!NextToken, D!Disturbs
<1> QED BY <1>1, <1>2, OthersKept DEF D!Next, D!RequestStep

\* What a step of the walk makes of the request that takes it.
Stops(r) == /\ rpc'[r] = "info"
            /\ ask[r] # All /\ ask[r] \in out'[r]
GoesOn(r, before) ==
    /\ rpc'[r] = "walk" /\ saved'.of = r
    /\ ask[r] \notin out'[r]
    /\ before \subseteq out'[r] \cup saved'.left
Over(r, before) ==
    /\ rpc'[r] = "done" /\ (ask[r] # All => ask[r] \notin before)
    /\ before \subseteq out'[r]

\* All that it has to find it has found or is still to come across.
LEMMA WalkKeeps ==
    ASSUME IInv, NEW r \in Requests, D!ReadList(r) \/ D!NextToken(r),
           NEW before \in SUBSET D!Pieces, Fits => since[r] \subseteq before,
           \/ Stops(r)
           \/ rpc'[r] = "walk" /\ ask[r] \notin out'[r] /\ since[r] = {}
           \/ GoesOn(r, before) \/ Over(r, before)
    PROVE  Found(r)'
<1> USE DEF D!TypeOK, D!loginVars
<1>1. Found(r)
  BY DEF IInv
<1>2. UNCHANGED <<dirs, info, ask>> /\ since'[r] = since[r]
  BY DEF D!ReadList, D!NextToken, D!Disturbs, IInv
<1>3. rpc[r] \in {"read", "walk"}
  BY DEF D!ReadList, D!NextToken, D!Takes, D!WalkEnds, D!Ends, D!Goes
<1>4. D!Settled => D!Settled'
  BY SettledStays DEF IInv, D!Next, D!RequestStep
<1>5. since[r] \subseteq Agents /\ All \notin Agents
  BY Assumed DEF IInv
<1>6. SinceSettled(r)' /\ Known(r)' /\ Printed(r)' /\ InfoKept(r)'
  BY <1>1, <1>2, <1>3, <1>4 
     DEF Found, SinceSettled, Known, Printed, InfoKept, Stops, GoesOn, Over
<1>7. Walked(r)'
  BY <1>2 DEF Walked, Fits, Stops, GoesOn, Over
<1>8. Listed(r)'
  BY <1>1, <1>2 DEF Found, Known, Listed, Fits, Stops, GoesOn, Over
<1>9. Shown(r)'
  BY <1>2, <1>5 DEF Shown, Fits, Stops, GoesOn, Over
<1> QED BY <1>6, <1>7, <1>8, <1>9 DEF Found

\* If all directories fit, one read() takes all that was printed.
LEMMA ReadListKeeps ==
    ASSUME IInv, NEW r \in Requests, D!ReadList(r)
    PROVE  Found(r)'
<1> USE DEF D!TypeOK
<1>1. Found(r) /\ rpc[r] = "read"
  BY DEF IInv, D!ReadList, D!Takes, D!WalkEnds, D!Ends, D!Goes
<1>2. PICK list \in D!Readable(r) :
         \/ \E piece \in list : /\ D!Takes(r, "read", piece)
                                /\ out' = [out EXCEPT ![r] = {piece}]
                                /\ saved' = [of |-> r, left |-> list \ {piece}]
         \/ list = {} /\ D!WalkEnds(r, "read") /\ UNCHANGED out
  BY DEF D!ReadList
<1>3. list \subseteq out[r] /\ out[r] \subseteq dirs
  BY <1>1 DEF D!Readable, Found, Known
<1>4. list \in SUBSET D!Pieces
  BY <1>3 DEF IInv, D!Pieces
<1>5. Fits => list = out[r]
  <2>1. IsFiniteSet(dirs)
    BY Assumed, FS_Subset DEF IInv
  <2>2. IsFiniteSet(out[r]) /\ Cardinality(out[r]) <= Cardinality(dirs)
    BY <1>3, <2>1, FS_Subset
  <2>3. Cardinality(out[r]) \in Nat /\ Cardinality(dirs) \in Nat
    BY <2>1, <2>2, FS_CardinalityType
  <2>4. Fits => Cardinality(out[r]) <= ReadCap
    BY <2>2, <2>3, Assumed DEF Fits
  <2> QED BY SameCardinality, <2>4 DEF D!Readable
<1>6. Fits => since[r] \subseteq list
  BY <1>1, <1>5 DEF Found, Printed
<1>7. ASSUME NEW piece \in list, D!Takes(r, "read", piece),
             out' = [out EXCEPT ![r] = {piece}],
             saved' = [of |-> r, left |-> list \ {piece}]
      PROVE  Stops(r) \/ GoesOn(r, list)
  <2>1. out'[r] = {piece} /\ saved'.of = r /\ saved'.left = list \ {piece}
    BY <1>7 DEF IInv
  <2>2. rpc'[r] = IF piece = ask[r] THEN "info" ELSE "walk"
    BY <1>7 DEF D!Takes, D!Goes, IInv
  <2>3. piece # All
    BY <1>4, Assumed DEF D!Pieces
  <2> QED BY <2>1, <2>2, <2>3 DEF Stops, GoesOn
<1>8. ASSUME list = {}, D!WalkEnds(r, "read") PROVE Over(r, list)
  BY <1>8 DEF D!WalkEnds, D!Ends, D!Goes, IInv, Over
<1> QED BY <1>2, <1>4, <1>6, <1>7, <1>8, WalkKeeps

\* And the walk comes across all of them, one by one, until it has found the one
\* that is asked for.
LEMMA NextTokenKeeps ==
    ASSUME IInv, NEW r \in Requests, D!NextToken(r)
    PROVE  Found(r)'
<1> USE DEF D!TypeOK
<1> DEFINE before == out[r] \cup saved.left
<1>1. Found(r) /\ rpc[r] = "walk" /\ ask[r] \notin out[r]
  BY DEF IInv, Found, Walked, D!NextToken, D!Takes, D!WalkEnds, D!Ends, D!Goes
<1>2. before \in SUBSET D!Pieces
  BY DEF IInv
<1>3. Fits => since[r] \subseteq before
  BY <1>1 DEF Found, Walked
<1>4. ASSUME NEW piece \in D!Pieces, D!Takes(r, "walk", piece),
             out' = [out EXCEPT ![r] = @ \cup {piece}],
             saved' = [saved EXCEPT !.left = @ \ {piece}]
      PROVE  \/ Stops(r) \/ GoesOn(r, before)
             \/ rpc'[r] = "walk" /\ ask[r] \notin out'[r] /\ since[r] = {}
  <2>1. /\ out'[r] = out[r] \cup {piece}
        /\ saved'.of = saved.of /\ saved'.left = saved.left \ {piece}
    BY <1>4 DEF IInv
  <2>2. rpc'[r] = IF piece = ask[r] THEN "info" ELSE "walk"
    BY <1>4 DEF D!Takes, D!Goes, IInv
  <2>3. piece # All
    BY <1>4, Assumed DEF D!Pieces
  <2>4. since[r] # {} => saved.of = r
    BY <1>1 DEF Found, Walked
  <2> QED BY <1>1, <2>1, <2>2, <2>3, <2>4 DEF Stops, GoesOn
<1>5. ASSUME saved.left = {}, D!WalkEnds(r, "walk"), UNCHANGED out
      PROVE  Over(r, before)
  BY <1>1, <1>5 DEF D!WalkEnds, D!Ends, D!Goes, IInv, Over
<1>6. saved.left \subseteq D!Pieces
  BY DEF IInv
<1>7. \/ Stops(r) \/ GoesOn(r, before) \/ Over(r, before)
      \/ rpc'[r] = "walk" /\ ask[r] \notin out'[r] /\ since[r] = {}
  BY <1>4, <1>5, <1>6 DEF D!NextToken
<1> HIDE DEF before
<1> QED BY <1>2, <1>3, <1>7, WalkKeeps

\* The info file of an agent that is expected is complete.
LEMMA InfoKeeps ==
    ASSUME IInv, NEW r \in Requests, D!OpenInfoOf(r) \/ D!ReadInfoOf(r),
           NEW q \in Requests
    PROVE  Found(q)'
<1> USE DEF D!TypeOK, D!loginVars, D!Goes, D!Ends
<1>1. CASE q # r
  BY <1>1, OthersKept, EndKeepsOthers
     DEF D!OpenInfoOf, D!ReadInfoOf, D!Next, D!RequestStep, IInv
<1>2. CASE q = r
  <2>1. Found(q)
    BY DEF IInv
  <2>2. /\ UNCHANGED <<dirs, info, ask, out, since>>
        /\ rpc[q] \in {"info", "infoRead"} /\ rpc'[q] \in {"infoRead", "done"}
    BY <1>2 DEF D!OpenInfoOf, D!ReadInfoOf, IInv
  <2>3. rpc'[q] = "done" /\ ask[q] \in since[q] => result'[q] = "info"
    <3>1. ask[q] \in since[q] => info[ask[q]] = "full"
      BY <2>1, <2>2 DEF Found, InfoKept
    <3> QED BY <1>2, <2>2, <3>1 DEF D!OpenInfoOf, D!ReadInfoOf, IInv
  <2>4. D!Settled => D!Settled'
    BY SettledStays DEF IInv, D!Next, D!RequestStep
  <2> QED BY <2>1, <2>2, <2>3, <2>4
          DEF Found, SinceSettled, Known, Printed, Walked, Listed, InfoKept, Shown, Fits
<1> QED BY <1>1, <1>2

-----------------------------------------------------------------------------
LEMMA InvStep == IInv /\ [D!Next]_D!vars => IInv'
<1> SUFFICES ASSUME IInv, [D!Next]_D!vars PROVE IInv'
  OBVIOUS
<1>1. D!TypeOK'
  BY TypeStep DEF IInv
<1>2. ASSUME NEW q \in Requests PROVE Found(q)'
  <2>1. CASE D!LoginStep
    BY <1>1, <2>1, LoginKeeps
  <2>2. ASSUME NEW r \in Requests, NEW a \in Asked \cup {All}, D!Begin(r, a)
        PROVE Found(q)'
    BY <2>2, BeginKeeps
  <2>3. ASSUME NEW r \in Requests, D!RequestStep(r) \/ D!OpenScript(r)
        PROVE Found(q)'
    <3>1. CASE D!ReadList(r) \/ D!NextToken(r)
      BY <3>1, TokenKeepsOthers, ReadListKeeps, NextTokenKeeps
    <3> QED BY <2>3, <3>1, EarlyKeeps, RunKeeps, InfoKeeps DEF D!RequestStep
  <2>4. CASE UNCHANGED D!vars
    BY <2>4, OthersKept DEF D!vars, D!loginVars
  <2>5. CASE D!QueryToken
    BY <2>5, QueryKeeps
  <2> QED BY <2>1, <2>2, <2>3, <2>4, <2>5 DEF D!Next
<1> QED BY <1>1, <1>2 DEF IInv

\* No request that began on a complete script, that no call failed and in whose walk
\* of the list no other thread called strtok(), misses an agent that was known when
\* it began, however many requests, queries and logins run.
THEOREM KnownAreFoundHolds == D!Spec => []KnownAreFound
<1>1. IInv => KnownAreFound
  BY SameCardinality
     DEF IInv, Found, Listed, Shown, Fits, KnownAreFound, D!KnownAreFound
<1> QED BY <1>1, InitInv, InvStep, PTL DEF D!Spec

\* The directory, its logins and its requests are of their types.
THEOREM DirectoryTypeCorrect == D!Spec => []DirectoryTyped
<1>1. IInv => DirectoryTyped
  BY DEF IInv, DirectoryTyped
<1> QED BY <1>1, InitInv, InvStep, PTL DEF D!Spec

\* Both parts of the database are of their types, whatever their writers, queries,
\* logins and requests do.
THEOREM DatabaseTypeCorrect ==
    ASSUME LogAssumption, \A e \in Entries : Complete(e)
    PROVE  DatabaseSpec => []Types
<1>1. Spec => []TypeOK
  BY LogTypeCorrect
<1>2. TypeOK /\ DirectoryTyped => Types
  BY DEF Types
<1> QED BY <1>1, <1>2, DirectoryTypeCorrect, PTL DEF DatabaseSpec
=============================================================================
