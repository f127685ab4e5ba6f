------------------------- MODULE RuntimeLogsProofs --------------------------
(***************************************************************************)
(* Proofs about the runtime log viewer: it shows a piece of the log, and    *)
(* what it shows does not go back.  The heart is newLinesSince (NewLines):  *)
(* of the lines that --since returns again it drops as many copies as are   *)
(* shown.  That is right because the lines hold the last group from its     *)
(* beginning (At: what is cut off in front leaves at least MaxGroup lines), *)
(* the answer holds it too, and the lines do not change while a request is  *)
(* under way.                                                               *)
(***************************************************************************)
EXTENDS RuntimeLogs, FiniteSetTheorems, SequenceTheorems, WellFoundedInduction, TLAPS

-----------------------------------------------------------------------------
(* Numbers, positions and counting                                          *)

\* A set of positions that is not empty has a first one.  (From the well-founded
\* order of finite sets: of the sets 1..x, one has none of the others below it.)
LEMMA Least ==
    ASSUME NEW n \in Nat, NEW C \in SUBSET (0..n), C # {}
    PROVE  \E x \in C : \A y \in C : x <= y
<1> DEFINE T == {1..x : x \in C}
           R == StrictSubsetOrdering(1..n)
<1>1. T \subseteq FiniteSubsetsOf(1..n) /\ T # {}
  <2>1. ASSUME NEW x \in C PROVE 1..x \subseteq 1..n /\ IsFiniteSet(1..x)
    BY FS_Interval
  <2> QED
    BY <2>1 DEF FiniteSubsetsOf
<1>2. IsWellFoundedOn(R, FiniteSubsetsOf(1..n))
  BY FS_StrictSubsetOrderingWellFounded
<1>3. PICK t \in T : \A u \in T : ~ (<<u, t>> \in R)
  <2> HIDE DEF T, R
  <2> QED BY <1>1, <1>2, WFMin
<1>4. PICK x \in C : t = 1..x
  OBVIOUS
<1>5. ASSUME NEW y \in C, y < x PROVE FALSE
  <2>1. <<1..y, 1..x>> \in R
    <3>1. 1..y \subseteq 1..x /\ x \in 1..x /\ x \notin 1..y /\ 1..x \subseteq 1..n
      BY <1>5
    <3> QED
      BY <3>1 DEF StrictSubsetOrdering
  <2> QED
    BY <1>3, <1>4, <2>1
<1> QED
  BY <1>5

\* And a last one.
LEMMA Greatest ==
    ASSUME NEW n \in Nat, NEW C \in SUBSET (1..n), C # {}
    PROVE  Max(C) \in C /\ \A y \in C : y <= Max(C)
<1> DEFINE D == {n - x : x \in C}
<1>1. D \in SUBSET (0..n) /\ D # {}
  <2>1. ASSUME NEW x \in C PROVE n - x \in 0..n
    <3>1. x \in 1..n
      OBVIOUS
    <3> QED BY <3>1
  <2>2. D \in SUBSET (0..n)
    BY <2>1
  <2> QED BY <2>2
<1>2. PICK d \in D : \A y \in D : d <= y
  <2> HIDE DEF D
  <2> QED BY <1>1, Least
<1>3. PICK x \in C : d = n - x
  OBVIOUS
<1>4. \A y \in C : x >= y
  <2>1. SUFFICES ASSUME NEW y \in C PROVE x >= y
    OBVIOUS
  <2>2. n - x <= n - y
    BY <1>2, <1>3
  <2>3. x \in 1..n /\ y \in 1..n
    OBVIOUS
  <2> QED BY <2>2, <2>3
<1> QED
  BY <1>4 DEF Max

\* An interval cut at i.
LEMMA CountInterval ==
    ASSUME NEW a \in Nat, NEW b \in Nat, NEW i \in a..b, a >= 1
    PROVE  Cardinality((a..b) \cap (1..i)) = i - a + 1
<1>1. (a..b) \cap (1..i) = a..i
  OBVIOUS
<1>2. a \in Int /\ i \in Int /\ ~ (a > i)
  OBVIOUS
<1>3. Cardinality(a..i) = i - a + 1
  BY <1>2, FS_Interval
<1> QED
  BY <1>1, <1>3

\* Pick takes elements of the sequence.
LEMMA PickType ==
    ASSUME NEW S, NEW s \in Seq(S), NEW K \in SUBSET DOMAIN s
    PROVE  /\ Pick(s, K) \in Seq(S)
           /\ Len(Pick(s, K)) = Cardinality(K)
           /\ \A k \in DOMAIN Pick(s, K) : \E i \in K : Pick(s, K)[k] = s[i]
<1> DEFINE n == Len(s)
           g(i) == Cardinality(K \cap (1..i))
           at(k) == CHOOSE i \in K : Cardinality(K \cap 1..i) = k
<1>0. n \in Nat /\ DOMAIN s = 1..n
  OBVIOUS
<1>1. IsFiniteSet(K) /\ Cardinality(K) \in Nat
  <2>1. IsFiniteSet(1..n)
    BY <1>0, FS_Interval
  <2>2. K \in SUBSET (1..n)
    BY <1>0
  <2> QED
    BY <2>1, <2>2, FS_Subset, FS_CardinalityType
<1>2. ASSUME NEW i \in Nat PROVE g(i) \in Nat /\ IsFiniteSet(K \cap (1..i))
  BY <1>1, FS_Intersection, FS_CardinalityType
<1>3. ASSUME NEW k \in 1..Cardinality(K) PROVE \E i \in K : g(i) = k
  <2> DEFINE C == {i \in 0..n : g(i) >= k}
  <2>1. n \in C
    <3>1. K \cap (1..n) = K
      BY <1>0
    <3>2. g(n) = Cardinality(K)
      BY <3>1
    <3>3. n \in 0..n /\ Cardinality(K) >= k
      BY <1>0, <1>1
    <3> HIDE DEF g, n
    <3> QED BY <3>2, <3>3
  <2>2. PICK i \in C : \A j \in C : i <= j
    <3> HIDE DEF C
    <3>1. C \in SUBSET (0..n)
      BY DEF C
    <3> QED BY <2>1, <3>1, <1>0, Least
  <2>3. i # 0
    <3>1. K \cap (1..0) = {}
      OBVIOUS
    <3>2. g(0) = 0
      BY <3>1, FS_EmptySet
    <3>3. g(i) >= k
      BY <2>2
    <3> HIDE DEF g
    <3> QED BY <3>2, <3>3
  <2>4. i \in 1..n /\ i - 1 \in 0..n /\ i - 1 \notin C
    <3>1. i \in 0..n
      BY <2>2
    <3> HIDE DEF g, n, C
    <3>2. i \in 1..n /\ i - 1 \in 0..n
      BY <1>0, <2>3, <3>1
    <3>3. ~ (i <= i - 1)
      BY <1>0, <3>1
    <3> QED BY <2>2, <3>2, <3>3
  <2>5. g(i - 1) < k
    <3>1. g(i - 1) \in Nat
      BY <2>4, <1>2
    <3>2. ~ (g(i - 1) >= k)
      BY <2>4
    <3> HIDE DEF g
    <3> QED BY <3>1, <3>2
  <2>6. K \cap (1..i) = IF i \in K THEN (K \cap (1..(i-1))) \cup {i} ELSE K \cap (1..(i-1))
    BY <2>4, <1>0
  <2>7. i \notin K \cap (1..(i-1)) /\ IsFiniteSet(K \cap (1..(i-1))) /\ g(i-1) \in Nat
    BY <2>4, <1>2
  <2>8. IF i \in K THEN g(i) = g(i-1) + 1 ELSE g(i) = g(i - 1)
    BY <2>6, <2>7, FS_AddElement
  <2>9. g(i) >= k /\ g(i) \in Nat
    BY <2>4, <1>2
  <2> HIDE DEF g
  <2> QED
    BY <2>5, <2>7, <2>8, <2>9
<1>4. ASSUME NEW k \in 1..Cardinality(K) PROVE at(k) \in K
  BY <1>3
<1>5. Pick(s, K) = [k \in 1..Cardinality(K) |-> s[at(k)]]
  BY DEF Pick
<1> DEFINE p == Pick(s, K)
<1>6. ASSUME NEW k \in 1..Cardinality(K) PROVE p[k] = s[at(k)] /\ s[at(k)] \in S
  BY <1>4, <1>5
<1>7. p \in [1..Cardinality(K) -> S]
  BY <1>5, <1>6
<1>8. p \in Seq(S) /\ Len(p) = Cardinality(K) /\ DOMAIN p = 1..Cardinality(K)
  BY <1>1, <1>7, IsASeq, LenProperties
<1> HIDE DEF at, p
<1> QED
  BY <1>4, <1>6, <1>8 DEF p

\* Pick of the positions from a on is the rest of the sequence.
LEMMA PickRest ==
    ASSUME NEW S, NEW s \in Seq(S), NEW a \in 1..(Len(s) + 1)
    PROVE  Pick(s, a..Len(s)) = SubSeq(s, a, Len(s))
<1> DEFINE K == a..Len(s)
           at(k) == CHOOSE i \in K : Cardinality(K \cap 1..i) = k
<1>0. a \in Nat /\ a >= 1 /\ Len(s) \in Nat /\ a <= Len(s) + 1
  OBVIOUS
<1>1. Cardinality(K) = Len(s) - a + 1
  <2>1. a \in Int /\ Len(s) \in Int
    BY <1>0
  <2>2. Cardinality(K) = IF a > Len(s) THEN 0 ELSE Len(s) - a + 1
    BY <2>1, FS_Interval
  <2> QED BY <2>2, <1>0
<1>2. ASSUME NEW i \in K PROVE Cardinality(K \cap 1..i) = i - a + 1
  BY <1>0, CountInterval
<1>3. ASSUME NEW k \in 1..Cardinality(K) PROVE at(k) = a + k - 1
  <2>1. a + k - 1 \in K
    BY <1>1
  <2>2. \A i \in K : Cardinality(K \cap 1..i) = k => i = a + k - 1
    <3> SUFFICES ASSUME NEW i \in K, Cardinality(K \cap 1..i) = k PROVE i = a + k - 1
      OBVIOUS
    <3>1. i - a + 1 = k
      BY <1>2
    <3> QED BY <3>1, <1>0
  <2>3. Cardinality(K \cap 1..(a + k - 1)) = k
    <3>1. Cardinality(K \cap 1..(a + k - 1)) = (a + k - 1) - a + 1
      BY <2>1, <1>2
    <3> QED BY <3>1, <1>0
  <2> HIDE DEF K
  <2> QED
    BY <2>1, <2>2, <2>3
<1>4. Pick(s, K) = [k \in 1..Cardinality(K) |-> s[at(k)]]
  BY DEF Pick
<1>5. SubSeq(s, a, Len(s)) = [k \in 1..(Len(s) - a + 1) |-> s[a + k - 1]]
  OBVIOUS
<1> HIDE DEF at, K
<1> QED
  BY <1>1, <1>3, <1>4, <1>5 DEF K

-----------------------------------------------------------------------------
(* The inductive invariant                                                  *)

\* Timestamps do not go down, and at most MaxGroup lines share one.
LogInv ==
    /\ \A i, k \in DOMAIN log : i <= k => log[i].ts <= log[k].ts
    /\ \A t \in 1..MaxLog : Cardinality({i \in DOMAIN log : log[i].ts = t}) <= MaxGroup

\* s is the piece of the log that begins at i.  What was cut off before it is not of
\* its last group: either nothing was, or it is as long as any group.
At(s, i) ==
    /\ i + Len(s) - 1 <= Len(log)
    /\ i = 1 \/ MaxGroup <= Len(s)
    /\ \A k \in DOMAIN s : s[k] = log[i + k - 1]

Piece(s) == s = <<>> \/ \E i \in DOMAIN log : At(s, i)

NotLater(s) == \A k \in DOMAIN s : s[k].ts <= lastTimestamp(log)

\* The answer to a stream request begins where the last group of the lines begins and
\* reaches at least as far as they do.
Continues(s) ==
    \E i, j \in DOMAIN log :
        /\ At(lines, i)
        /\ j + Len(s) - 1 <= Len(log)
        /\ i + Len(lines) <= j + Len(s)
        /\ \A k \in DOMAIN s : s[k] = log[j + k - 1] /\ log[j + k - 1].ts >= lastTimestamp(lines)
        /\ \A k \in 1..(j - 1) : log[k].ts < lastTimestamp(lines)

\* The answer to a load is a piece of the log, nothing shown is later than its end.
Reloads(s) ==
    /\ Piece(s)
    /\ \A k \in DOMAIN lines : lines[k].ts <= lastTimestamp(s)

AnswerOK(r) ==
    \/ r.reply = <<>>
    \/ Marker \in Range(r.reply)
    \/ r.kind = "stream" /\ (clean => Continues(r.reply))
    \/ r.kind # "stream" /\ Reloads(r.reply)

RequestOK(r) ==
    /\ loading
    /\ inFlight = {r}
    /\ r.kind = "stream" => r.since = lastTimestamp(lines) /\ r.since # NoTime
    /\ NotLater(r.reply)
    /\ AnswerOK(r)

LinesInv ==
    /\ NotLater(lines)
    /\ clean => Piece(lines)

RequestInv == \A r \in inFlight : RequestOK(r)

LogsInv == TypeOK /\ LogInv /\ LinesInv /\ RequestInv

-----------------------------------------------------------------------------
(* Timestamps                                                               *)

\* What a line is.
LEMMA EntryFacts ==
    /\ \A l \in Line : l \in Entry /\ l # Marker /\ l.ts \in 1..MaxLog /\ l.text \in Texts
    /\ \A l \in Entry : l.ts \in 0..MaxLog /\ (l.ts # NoTime <=> l \in Line)
    /\ Marker \in Entry /\ Marker.ts = NoTime
    /\ MaxLog \in Nat
  BY LogsAssumption DEF Line, Entry, Marker, NoTime

\* Two lines are the same when their timestamps and texts are.
LEMMA LineEqual ==
    ASSUME NEW a \in Line, NEW b \in Line, a.ts = b.ts, a.text = b.text
    PROVE  a = b
  BY DEF Line

\* The last timestamp is the one of a line, if any line has one.
LEMMA LastTimestamp ==
    ASSUME NEW s \in Seq(Entry)
    PROVE  /\ lastTimestamp(s) \in 0..MaxLog
           /\ lastTimestamp(s) = NoTime \/ \E i \in DOMAIN s : s[i].ts = lastTimestamp(s)
<1> DEFINE timed == {i \in DOMAIN s : s[i].ts # NoTime}
<1>1. CASE timed = {}
  BY <1>1, EntryFacts DEF lastTimestamp, NoTime
<1>2. CASE timed # {}
  <2>1. Max(timed) \in timed
    <3>1. timed \in SUBSET (1..Len(s)) /\ Len(s) \in Nat
      OBVIOUS
    <3> HIDE DEF timed
    <3> QED BY <1>2, <3>1, Greatest
  <2>2. lastTimestamp(s) = s[Max(timed)].ts
    BY <1>2 DEF lastTimestamp
  <2>3. Max(timed) \in DOMAIN s /\ s[Max(timed)] \in Entry
    BY <2>1
  <2> HIDE DEF timed
  <2> QED BY <2>2, <2>3, EntryFacts
<1> QED BY <1>1, <1>2

\* When all lines have one, it is the one of the last line.
LEMMA LastLine ==
    ASSUME NEW s \in Seq(Line), s # <<>>
    PROVE  lastTimestamp(s) = s[Len(s)].ts /\ lastTimestamp(s) \in 1..MaxLog
<1> DEFINE timed == {i \in DOMAIN s : s[i].ts # NoTime}
<1>1. Len(s) \in Nat \ {0} /\ DOMAIN s = 1..Len(s)
  OBVIOUS
<1>2. ASSUME NEW i \in DOMAIN s PROVE s[i].ts # NoTime /\ s[i].ts \in 1..MaxLog
  BY EntryFacts DEF NoTime
<1>3. timed = 1..Len(s)
  BY <1>1, <1>2
<1>4. Max(1..Len(s)) = Len(s)
  <2>1. Max(1..Len(s)) \in 1..Len(s) /\ \A y \in 1..Len(s) : y <= Max(1..Len(s))
    <3>1. 1 \in 1..Len(s) /\ Len(s) \in Nat
      BY <1>1
    <3>2. 1..Len(s) \in SUBSET (1..Len(s)) /\ 1..Len(s) # {}
      BY <3>1
    <3> QED BY <3>1, <3>2, Greatest
  <2> QED BY <1>1, <2>1
<1>5. lastTimestamp(s) = s[Len(s)].ts
  <2>1. lastTimestamp(s) = IF timed = {} THEN NoTime ELSE s[Max(timed)].ts
    BY DEF lastTimestamp
  <2>2. timed # {}
    BY <1>1, <1>3
  <2> HIDE DEF timed
  <2> QED BY <2>1, <2>2, <1>3, <1>4
<1> QED BY <1>1, <1>2, <1>5

\* The empty sequence has none.
LEMMA LastEmpty == lastTimestamp(<<>>) = NoTime
  BY DEF lastTimestamp

-----------------------------------------------------------------------------
(* Pieces of the log                                                        *)

\* The last n elements.
LEMMA LastOfElements ==
    ASSUME NEW S, NEW s \in Seq(S), NEW n \in Nat \ {0}
    PROVE  LET t == LastOf(s, n)
           IN  /\ t \in Seq(S)
               /\ Len(t) <= Len(s)
               /\ Len(t) = Len(s) \/ Len(t) = n
               /\ s # <<>> => t # <<>>
               /\ \A k \in DOMAIN t : t[k] = s[Len(s) - Len(t) + k]
<1>1. CASE Len(s) <= n
  BY <1>1 DEF LastOf
<1>2. CASE ~ (Len(s) <= n)
  <2> DEFINE t == SubSeq(s, Len(s) - n + 1, Len(s))
  <2>0. Len(s) \in Nat /\ Len(s) - n + 1 \in 1..Len(s) /\ n <= Len(s)
    BY <1>2
  <2>1. LastOf(s, n) = t
    BY <1>2 DEF LastOf
  <2>2. t \in Seq(S) /\ Len(t) = n /\ DOMAIN t = 1..n
    BY <2>0
  <2>3. ASSUME NEW k \in 1..n PROVE t[k] = s[Len(s) - n + k]
    BY <2>0
  <2> HIDE DEF t
  <2> QED BY <2>0, <2>1, <2>2, <2>3
<1> QED BY <1>1, <1>2

\* A piece of the log that is cut at the front to a length that holds any group is a
\* piece of the log.
LEMMA PieceCut ==
    ASSUME log \in Seq(Line), NEW s \in Seq(Line), s # <<>>, NEW i \in DOMAIN log, At(s, i),
           NEW n \in Nat \ {0}, MaxGroup <= n
    PROVE  LET t == LastOf(s, n)
           IN  /\ t \in Seq(Line) /\ t # <<>>
               /\ i + Len(s) - Len(t) \in DOMAIN log
               /\ At(t, i + Len(s) - Len(t))
<1> DEFINE t == LastOf(s, n)
           ls == Len(s)
           lt == Len(t)
           ll == Len(log)
           m == i + ls - lt
<1>0. /\ t \in Seq(Line) /\ t # <<>>
      /\ \A k \in DOMAIN t : t[k] = s[ls - lt + k]
      /\ lt <= ls /\ (lt = ls \/ lt = n)
  BY LastOfElements
<1> HIDE DEF t
<1>2. /\ lt \in Nat /\ 1 <= lt /\ DOMAIN t = 1..lt
      /\ ls \in Nat /\ DOMAIN s = 1..ls
      /\ ll \in Nat /\ DOMAIN log = 1..ll
      /\ MaxGroup \in Nat /\ n \in Nat
  BY <1>0, LogsAssumption
<1>3. i \in Nat /\ 1 <= i /\ i + ls - 1 <= ll /\ (i = 1 \/ MaxGroup <= ls)
      /\ \A k \in 1..ls : s[k] = log[i + k - 1]
  <2>1. i \in Nat /\ 1 <= i
    BY <1>2
  <2>2. i + ls - 1 <= ll /\ (i = 1 \/ MaxGroup <= ls)
    BY DEF At
  <2>3. \A k \in 1..ls : s[k] = log[i + k - 1]
    BY <1>2 DEF At
  <2> HIDE DEF ls, lt, ll
  <2> QED BY <2>1, <2>2, <2>3
<1> HIDE DEF ls, lt, ll
<1>4. /\ m \in 1..ll /\ m + lt - 1 <= ll
      /\ m = 1 \/ MaxGroup <= lt
      /\ \A k \in 1..lt : /\ ls - lt + k \in 1..ls
                         /\ i + (ls - lt + k) - 1 = m + k - 1
  <2>1. 1 <= lt /\ lt <= ls /\ (lt = ls \/ lt = n)
    BY <1>0, <1>2
  <2>2. lt \in Nat /\ ls \in Nat /\ ll \in Nat /\ MaxGroup \in Nat /\ n \in Nat
    BY <1>2
  <2>3. i \in Nat /\ 1 <= i /\ i + ls - 1 <= ll /\ (i = 1 \/ MaxGroup <= ls)
    BY <1>3
  <2>4. MaxGroup <= n
    OBVIOUS
  <2>g. PICK g \in Nat : g = MaxGroup
    BY <2>2
  <2>5. /\ i + ls - lt \in 1..ll
        /\ (i + ls - lt) + lt - 1 <= ll
        /\ i + ls - lt = 1 \/ MaxGroup <= lt
        /\ \A k \in 1..lt : /\ ls - lt + k \in 1..ls
                           /\ i + (ls - lt + k) - 1 = (i + ls - lt) + k - 1
    <3> HIDE DEF m
    <3>1. g <= n /\ (i = 1 \/ g <= ls)
      BY <2>3, <2>4, <2>g
    <3>2. i + ls - lt = 1 \/ g <= lt
      BY <2>1, <2>2, <2>3, <3>1
    <3>3. i + ls - lt \in 1..ll /\ (i + ls - lt) + lt - 1 <= ll
      BY <2>1, <2>2, <2>3
    <3>4. \A k \in 1..lt : /\ ls - lt + k \in 1..ls
                         /\ i + (ls - lt + k) - 1 = (i + ls - lt) + k - 1
      BY <2>1, <2>2, <2>3
    <3> QED BY <2>g, <3>2, <3>3, <3>4
  <2> QED BY <2>5, Zenon
<1> HIDE DEF m
<1>6. \A k \in 1..lt : t[k] = log[m + k - 1]
  BY <1>0, <1>2, <1>3, <1>4
<1>7. At(t, m)
  BY <1>2, <1>4, <1>6 DEF At, lt, ll
<1> QED BY <1>0, <1>2, <1>4, <1>7 DEF t, m, ls, lt

\* The lines of a piece of the log are lines of the log.
LEMMA PieceLines ==
    ASSUME log \in Seq(Line), NEW s \in Seq(Entry), NEW i \in DOMAIN log, At(s, i)
    PROVE  s \in Seq(Line)
<1>1. ASSUME NEW k \in DOMAIN s PROVE s[k] \in Line
  <2>1. i + k - 1 \in DOMAIN log
    BY DEF At
  <2> QED BY <2>1 DEF At
<1>2. Len(s) \in Nat /\ DOMAIN s = 1..Len(s) /\ s \in [1..Len(s) -> Line]
  BY <1>1, LenProperties
<1> QED BY <1>2, IsASeq

\* At the end of the log, the last n lines are a piece of it.
LEMMA TailPiece ==
    ASSUME log \in Seq(Line), log # <<>>, NEW n \in Nat \ {0}, MaxGroup <= n
    PROVE  LET t == LastOf(log, n)
           IN  t \in Seq(Line) /\ t # <<>> /\ t[Len(t)] = log[Len(log)] /\ Piece(t)
<1>1. 1 \in DOMAIN log /\ At(log, 1) /\ Len(log) \in Nat \ {0}
  BY DEF At
<1> DEFINE t == LastOf(log, n)
<1>2. /\ t \in Seq(Line) /\ t # <<>> /\ 1 + Len(log) - Len(t) \in DOMAIN log
      /\ At(t, 1 + Len(log) - Len(t))
  BY <1>1, PieceCut
<1>3. t[Len(t)] = log[Len(log) - Len(t) + Len(t)]
  BY <1>2, LastOfElements
<1> HIDE DEF t
<1>4. Len(t) \in Nat
  BY <1>2
<1>5. Len(log) - Len(t) + Len(t) = Len(log)
  BY <1>1, <1>4
<1> QED BY <1>2, <1>3, <1>5 DEF Piece, t

-----------------------------------------------------------------------------
(* newLinesSince                                                            *)

\* Lines with one timestamp stand next to each other and are at most MaxGroup.
LEMMA GroupWhole ==
    ASSUME log \in Seq(Line), LogInv, NEW i \in DOMAIN log, NEW j \in DOMAIN log, i <= j,
           log[i].ts = log[j].ts
    PROVE  j - i + 1 <= MaxGroup
<1> DEFINE t == log[i].ts
           G == {k \in DOMAIN log : log[k].ts = t}
<1>1. Len(log) \in Nat /\ DOMAIN log = 1..Len(log)
  OBVIOUS
<1>2. t \in 1..MaxLog
  BY EntryFacts
<1>3. ASSUME NEW k \in i..j PROVE k \in G
  <2>1. k \in DOMAIN log /\ i <= k /\ k <= j
    BY <1>1
  <2>2. log[i].ts <= log[k].ts /\ log[k].ts <= log[j].ts
    BY <2>1 DEF LogInv
  <2>3. log[k].ts \in 1..MaxLog
    BY <2>1, EntryFacts
  <2> QED BY <1>2, <2>1, <2>2, <2>3
<1>4. IsFiniteSet(G)
  <2>1. IsFiniteSet(1..Len(log)) /\ G \in SUBSET (1..Len(log))
    BY <1>1, FS_Interval
  <2> QED BY <2>1, FS_Subset
<1>5. Cardinality(i..j) <= Cardinality(G)
  <2>1. i..j \in SUBSET G
    BY <1>3
  <2> QED BY <1>4, <2>1, FS_Subset
<1>6. Cardinality(i..j) = j - i + 1
  <2>1. i \in Int /\ j \in Int /\ ~ (i > j)
    BY <1>1
  <2> QED BY <2>1, FS_Interval
<1>7. Cardinality(G) <= MaxGroup
  BY <1>2 DEF LogInv
<1>8. Cardinality(G) \in Nat /\ MaxGroup \in Nat /\ j - i + 1 \in Int
  BY <1>1, <1>4, FS_CardinalityType, LogsAssumption
<1> HIDE DEF G
<1> QED BY <1>5, <1>6, <1>7, <1>8

\* What the counting rests on: the lines are the piece of the log from i to e, the
\* answer is the piece from j on, j is where the group of e begins, and the whole
\* group up to e is among the lines.
Overlap(s, i, j, e, n) ==
    /\ i \in DOMAIN log /\ j \in DOMAIN log /\ e \in DOMAIN log
    /\ e = i + Len(lines) - 1
    /\ n = e - j + 1 /\ n \in 1..Len(s)
    /\ i <= j /\ j <= e
    /\ j + Len(s) - 1 <= Len(log)
    /\ lastTimestamp(lines) \in 1..MaxLog
    /\ \A k \in DOMAIN lines : lines[k] = log[i + k - 1]
    /\ \A k \in DOMAIN s : s[k] = log[j + k - 1] /\ log[j + k - 1].ts >= lastTimestamp(lines)
    /\ \A k \in 1..(j - 1) : log[k].ts < lastTimestamp(lines)
    /\ \A k \in j..e : log[k].ts = lastTimestamp(lines)

\* How far a piece at i overlaps one at j.
LEMMA OverlapNumbers ==
    ASSUME NEW i \in Nat, NEW j \in Nat, NEW ln \in Nat, NEW ls \in Nat, i + ln <= j + ls
    PROVE  (i + ln - 1) - j + 1 <= ls
  OBVIOUS

\* A stream answer to a viewer that shows a piece of the log overlaps it so.
LEMMA ContinuesOverlap ==
    ASSUME log \in Seq(Line), LogInv, lines \in Seq(Line), lines # <<>>,
           NEW s \in Seq(Line), Continues(s)
    PROVE  \E i, j, e, n \in Nat : Overlap(s, i, j, e, n) /\ At(lines, i)
<1>1. PICK i \in DOMAIN log, j \in DOMAIN log :
        /\ At(lines, i)
        /\ j + Len(s) - 1 <= Len(log)
        /\ i + Len(lines) <= j + Len(s)
        /\ \A k \in DOMAIN s : s[k] = log[j + k - 1] /\ log[j + k - 1].ts >= lastTimestamp(lines)
        /\ \A k \in 1..(j - 1) : log[k].ts < lastTimestamp(lines)
  BY DEF Continues
<1> DEFINE ln == Len(lines)
           ls == Len(s)
           ll == Len(log)
           T == lastTimestamp(lines)
           e == i + ln - 1
           n == e - j + 1
<1>2. /\ ln \in Nat /\ 1 <= ln /\ DOMAIN lines = 1..ln
      /\ ls \in Nat /\ DOMAIN s = 1..ls
      /\ ll \in Nat /\ DOMAIN log = 1..ll
  OBVIOUS
<1>3. T = lines[ln].ts /\ T \in 1..MaxLog
  BY LastLine
<1>4. /\ e <= ll /\ (i = 1 \/ MaxGroup <= ln)
      /\ \A k \in DOMAIN lines : lines[k] = log[i + k - 1]
  BY <1>1 DEF At
<1>5. i \in Nat /\ j \in Nat /\ 1 <= i /\ 1 <= j /\ j <= ll /\ MaxGroup \in Nat /\ MaxLog \in Nat
  BY <1>2, LogsAssumption
<1>6. i + ln <= j + ls
  BY <1>1
<1>7. \A k \in 1..ls : s[k] = log[j + k - 1] /\ log[j + k - 1].ts >= T
  BY <1>1, <1>2
<1>8. \A k \in 1..(j - 1) : log[k].ts < T
  BY <1>1
<1>9. log[e].ts = T
  <2>1. ln \in DOMAIN lines
    BY <1>2
  <2>2. lines[ln] = log[i + ln - 1]
    BY <1>4, <2>1
  <2> QED BY <1>3, <2>2
<1> HIDE DEF ln, ls, ll, T
<1>10. e \in Nat /\ 1 <= e /\ e \in DOMAIN log
  BY <1>2, <1>4, <1>5
<1>11. \A k \in DOMAIN log : log[k].ts \in 1..MaxLog
  BY EntryFacts
<1>12. j <= e
  <2> SUFFICES ASSUME e < j PROVE FALSE
    BY <1>5, <1>10
  <2>1. e \in 1..(j - 1)
    BY <1>5, <1>10
  <2>2. T < T
    BY <1>8, <1>9, <2>1
  <2> QED BY <1>3, <1>5, <2>2
<1>13. n \in 1..ls
  <2>1. e = i + ln - 1 /\ n = e - j + 1
    OBVIOUS
  <2>2. ln \in Nat /\ ls \in Nat
    BY <1>2
  <2>3. e \in Nat /\ j \in Nat /\ i \in Nat
    BY <1>5, <1>10
  <2>4. 1 <= e - j + 1
    BY <1>12, <2>3
  <2> HIDE DEF e, n, ln, ls
  <2>5. e - j + 1 <= ls
    <3>1. i + ln <= j + ls
      BY <1>6
    <3>2. (i + ln - 1) - j + 1 <= ls
      BY <2>2, <2>3, <3>1, OverlapNumbers, Zenon
    <3> QED BY <2>1, <3>2, Zenon
  <2> QED BY <2>1, <2>2, <2>3, <2>4, <2>5
<1>14. ASSUME NEW k \in j..e PROVE log[k].ts = T
  <2>1. k - j + 1 \in 1..ls /\ j + (k - j + 1) - 1 = k /\ k \in DOMAIN log /\ k <= e
    <3>1. e \in 1..ll /\ n = e - j + 1
      BY <1>2, <1>10
    <3> HIDE DEF e, n
    <3>2. k \in Nat /\ j <= k /\ k <= e
      BY <1>5, <1>10
    <3>3. k - j + 1 \in 1..ls /\ j + (k - j + 1) - 1 = k
      BY <1>2, <1>5, <1>10, <1>13, <3>1, <3>2
    <3>4. k \in 1..ll
      BY <1>2, <1>5, <3>1, <3>2
    <3> QED BY <1>2, <3>2, <3>3, <3>4
  <2>2. log[k].ts >= T
    BY <1>7, <2>1
  <2>3. log[k].ts <= log[e].ts
    <3> HIDE DEF e
    <3> QED BY <1>10, <2>1 DEF LogInv
  <2>4. log[k].ts \in 1..MaxLog
    BY <1>11, <2>1
  <2>5. log[k].ts <= T
    BY <1>9, <2>3
  <2>6. T \in Nat /\ log[k].ts \in Nat
    <3>1. T \in 1..MaxLog
      BY <1>3
    <3> QED BY <2>4, <3>1
  <2> QED BY <2>2, <2>5, <2>6
<1>15. i <= j
  <2> SUFFICES ASSUME ~ (i <= j) PROVE FALSE
    OBVIOUS
  <2>1. MaxGroup <= ln
    BY <1>4, <1>5
  <2>2. log[j].ts = log[e].ts
    BY <1>5, <1>9, <1>10, <1>12, <1>14
  <2>3. e - j + 1 <= MaxGroup
    BY <1>10, <1>12, <2>2, GroupWhole
  <2> QED BY <1>2, <1>5, <2>1, <2>3
<1>16. Overlap(s, i, j, e, n)
  BY <1>1, <1>3, <1>4, <1>7, <1>8, <1>10, <1>12, <1>13, <1>14, <1>15 DEF Overlap, ln, ls, ll, T
<1>17. n \in Nat
  BY <1>2, <1>13
<1> HIDE DEF e, n
<1> QED BY <1>1, <1>5, <1>10, <1>16, <1>17

Copies(s, I, text) == {k \in I : s[k].text = text}

\* The lines at the end of existing that share its last timestamp, and as many copies
\* of a text among them as at the beginning of the answer.
LEMMA SeenAtBoundary ==
    ASSUME log \in Seq(Line), lines \in Seq(Line), NEW s \in Seq(Line),
           NEW i \in Nat, NEW j \in Nat, NEW e \in Nat, NEW n \in Nat, Overlap(s, i, j, e, n),
           NEW text
    PROVE  /\ IsFiniteSet(Copies(s, 1..n, text))
           /\ Cardinality(Copies(lines, Boundary(lines), text)) = Cardinality(Copies(s, 1..n, text))
<1> DEFINE ln == Len(lines)
           ls == Len(s)
           T == lastTimestamp(lines)
           c == j - i
           A == {k \in Boundary(lines) : lines[k].text = text}
           B == {k \in 1..n : s[k].text = text}
<1>1. /\ ln \in Nat /\ DOMAIN lines = 1..ln
      /\ ls \in Nat /\ DOMAIN s = 1..ls
  OBVIOUS
<1>2. /\ 1 <= i /\ i <= j /\ j <= e /\ e = i + ln - 1 /\ n = e - j + 1 /\ n \in 1..ls
      /\ \A k \in 1..ln : lines[k] = log[i + k - 1]
      /\ \A k \in 1..ls : s[k] = log[j + k - 1]
      /\ \A k \in 1..(j - 1) : log[k].ts < T
      /\ \A k \in j..e : log[k].ts = T
      /\ T \in 1..MaxLog
  <2>1. 1 <= i
    <3>1. i \in DOMAIN log
      BY DEF Overlap
    <3> QED BY <3>1
  <2>2. \A k \in 1..ln : lines[k] = log[i + k - 1]
    BY <1>1 DEF Overlap
  <2>3. \A k \in 1..ls : s[k] = log[j + k - 1]
    BY <1>1 DEF Overlap
  <2>4. i <= j /\ j <= e /\ e = i + ln - 1 /\ n = e - j + 1 /\ n \in 1..ls
    BY DEF Overlap
  <2>5. /\ \A k \in 1..(j - 1) : log[k].ts < T
        /\ \A k \in j..e : log[k].ts = T
        /\ T \in 1..MaxLog
    BY DEF Overlap
  <2> HIDE DEF ln, ls, T
  <2> QED BY <2>1, <2>2, <2>3, <2>4, <2>5
<1>3. Boundary(lines) = {x \in 1..ln : \A k \in x..ln : lines[k].ts = T}
  BY <1>1 DEF Boundary
<1> HIDE DEF ln, ls, T
<1>4. ASSUME NEW x \in (c + 1)..ln PROVE lines[x].ts = T /\ x \in 1..ln
  <2>1. x \in 1..ln /\ i + x - 1 \in j..e
    BY <1>1, <1>2
  <2> QED BY <1>2, <2>1
<1>5. ASSUME NEW x \in 1..c PROVE lines[x].ts # T /\ x \in 1..ln
  <2>1. x \in 1..ln /\ i + x - 1 \in 1..(j - 1)
    BY <1>1, <1>2
  <2>2. lines[x].ts < T
    BY <1>2, <2>1
  <2>3. lines[x].ts \in 1..MaxLog
    BY <1>1, <2>1, EntryFacts
  <2>4. T \in 1..MaxLog
    BY <1>2
  <2> QED BY <2>1, <2>2, <2>3, <2>4
<1>6. Boundary(lines) = (c + 1)..ln
  <2>1. ASSUME NEW x \in (c + 1)..ln, NEW k \in x..ln PROVE k \in (c + 1)..ln
    BY <1>1, <1>2
  <2>2. (c + 1)..ln \subseteq Boundary(lines)
    BY <1>3, <1>4, <2>1
  <2>3. ASSUME NEW x \in Boundary(lines) PROVE x \in (c + 1)..ln
    <3>1. x \in 1..ln /\ lines[x].ts = T
      BY <1>1, <1>3
    <3>2. x \notin 1..c
      BY <3>1, <1>5
    <3> QED BY <1>1, <1>2, <3>1, <3>2
  <2> QED BY <2>2, <2>3
<1>7. ASSUME NEW k \in 1..n PROVE s[k] = lines[k + c] /\ k + c \in (c + 1)..ln
  <2>1. k \in 1..ls /\ k + c \in 1..ln /\ i + (k + c) - 1 = j + k - 1 /\ k + c \in (c + 1)..ln
    BY <1>1, <1>2
  <2> QED BY <1>2, <2>1
<1>8. ASSUME NEW x \in (c + 1)..ln PROVE x - c \in 1..n /\ (x - c) + c = x
  <2>1. /\ ln \in Nat /\ 1 <= i /\ i <= j /\ j <= e /\ e = i + ln - 1 /\ n = e - j + 1
    BY <1>1, <1>2
  <2> QED BY <2>1
<1> DEFINE f == [k \in B |-> k + c]
<1>9. f \in Bijection(B, A)
  <2>1. f \in [B -> A]
    BY <1>6, <1>7
  <2>2. \A k, l \in B : f[k] = f[l] => k = l
    BY <1>2
  <2>3. \A x \in A : \E k \in B : f[k] = x
    <3> SUFFICES ASSUME NEW x \in A PROVE x - c \in B /\ f[x - c] = x
      OBVIOUS
    <3>1. x \in (c + 1)..ln /\ lines[x].text = text
      BY <1>6
    <3>2. x - c \in 1..n /\ (x - c) + c = x
      BY <3>1, <1>8
    <3>3. s[x - c] = lines[x]
      BY <3>2, <1>7
    <3> QED BY <3>1, <3>2, <3>3
  <2> QED BY <2>1, <2>2, <2>3 DEF Bijection, Injection, Surjection, IsInjective
<1>10. IsFiniteSet(B)
  <2>1. IsFiniteSet(1..n) /\ B \in SUBSET (1..n)
    BY FS_Interval
  <2> QED BY <2>1, FS_Subset
<1>11. ExistsBijection(B, A)
  BY <1>9 DEF ExistsBijection
<1> HIDE DEF A, B, f
<1>12. Cardinality(A) = Cardinality(B)
  BY <1>10, <1>11, FS_Bijection
<1> QED BY <1>10, <1>12 DEF A, B, Copies

\* newLinesSince drops exactly the lines that are shown already: copies of a text at
\* the boundary are counted on both sides, and the lines hold that group from its
\* beginning.
LEMMA NewLines ==
    ASSUME log \in Seq(Line), lines \in Seq(Line), NEW s \in Seq(Line),
           NEW i \in Nat, NEW j \in Nat, NEW e \in Nat, NEW n \in Nat, Overlap(s, i, j, e, n)
    PROVE  newLinesSince(lines, s) = SubSeq(s, n + 1, Len(s))
<1> DEFINE ls == Len(s)
           T == lastTimestamp(lines)
           B(text) == {k \in 1..n : s[k].text = text}
           seen(text) == Cardinality({k \in Boundary(lines) : lines[k].text = text})
           same(y) == {k \in 1..y : s[k] = s[y]}
           copy(y) == Cardinality(same(y))
           isNew(y) == \/ s[y].ts = NoTime
                       \/ s[y].ts > T
                       \/ s[y].ts = T /\ copy(y) > seen(s[y].text)
           K == {y \in DOMAIN s : isNew(y)}
<1>1. ls \in Nat /\ DOMAIN s = 1..ls /\ \A k \in 1..ls : s[k] \in Line
  OBVIOUS
<1>2. T \in 1..MaxLog /\ n \in 1..ls /\ j <= e /\ n = e - j + 1
  BY DEF Overlap
<1>3. ASSUME NEW k \in 1..ls PROVE s[k].ts \in 1..MaxLog /\ s[k].ts >= T
  <2>1. s[k] \in Line
    BY <1>1
  <2>2. s[k] = log[j + k - 1] /\ log[j + k - 1].ts >= T
    BY <1>1 DEF Overlap
  <2> QED BY <2>1, <2>2, EntryFacts
<1>4. ASSUME NEW k \in 1..n PROVE s[k].ts = T /\ k \in 1..ls
  <2>1. k \in 1..ls /\ j + k - 1 \in j..e
    BY <1>1, <1>2
  <2> QED BY <1>1, <2>1 DEF Overlap
<1>5. ASSUME NEW text PROVE IsFiniteSet(B(text)) /\ seen(text) = Cardinality(B(text))
  <2>1. /\ IsFiniteSet(Copies(s, 1..n, text))
        /\ Cardinality(Copies(lines, Boundary(lines), text)) = Cardinality(Copies(s, 1..n, text))
    BY SeenAtBoundary
  <2> QED BY <2>1 DEF Copies
<1>6. newLinesSince(lines, s) = Pick(s, K)
  <2>1. T # NoTime
    BY <1>2 DEF NoTime
  <2> QED BY <2>1 DEF newLinesSince
<1>7. ASSUME NEW y \in 1..ls PROVE IsFiniteSet(same(y))
  <2>1. IsFiniteSet(1..y) /\ same(y) \in SUBSET (1..y)
    BY <1>1, FS_Interval
  <2> QED BY <2>1, FS_Subset
<1> HIDE DEF ls, T, seen
<1>8. ASSUME NEW y \in 1..n PROVE ~ isNew(y)
  <2>1. s[y].ts = T /\ y \in 1..ls /\ T # NoTime /\ ~ (T > T)
    BY <1>2, <1>4 DEF NoTime
  <2>2. same(y) \in SUBSET B(s[y].text)
    BY <1>2
  <2>3. copy(y) <= Cardinality(B(s[y].text))
    BY <1>5, <2>2, FS_Subset
  <2>4. copy(y) \in Nat /\ Cardinality(B(s[y].text)) \in Nat
    BY <1>5, <1>7, <2>1, FS_CardinalityType
  <2>5. seen(s[y].text) = Cardinality(B(s[y].text))
    BY <1>5
  <2> HIDE DEF copy, B
  <2> QED BY <2>1, <2>3, <2>4, <2>5
<1>9. ASSUME NEW y \in (n + 1)..ls PROVE isNew(y) /\ y \in 1..ls
  <2>1. y \in 1..ls
    BY <1>1, <1>2
  <2>2. s[y].ts > T \/ s[y].ts = T
    BY <1>2, <1>3, <2>1
  <2>3. ASSUME s[y].ts = T PROVE copy(y) > seen(s[y].text)
    <3> DEFINE b == B(s[y].text)
    <3>1. y \notin b
      OBVIOUS
    <3>2. b \cup {y} \in SUBSET same(y)
      <4>1. ASSUME NEW k \in b PROVE k \in 1..y /\ s[k] = s[y]
        <5>1. k \in 1..n /\ s[k].text = s[y].text
          OBVIOUS
        <5>2. k \in 1..y /\ k \in 1..ls /\ s[k].ts = s[y].ts
          BY <5>1, <1>1, <1>2, <1>4, <2>3
        <5> QED BY <5>1, <5>2, <1>1, <2>1, LineEqual
      <4>2. y \in same(y)
        BY <1>1, <2>1
      <4> QED BY <4>1, <4>2
    <3>3. IsFiniteSet(b) /\ seen(s[y].text) = Cardinality(b) /\ Cardinality(b) \in Nat
      BY <1>5, FS_CardinalityType
    <3> HIDE DEF b
    <3>4. Cardinality(b \cup {y}) = Cardinality(b) + 1
      BY <3>1, <3>3, FS_AddElement
    <3>5. Cardinality(b \cup {y}) <= copy(y) /\ copy(y) \in Nat
      BY <1>7, <2>1, <3>2, FS_Subset, FS_CardinalityType
    <3> HIDE DEF copy
    <3> QED BY <3>3, <3>4, <3>5
  <2> HIDE DEF copy
  <2> QED BY <2>1, <2>2, <2>3
<1> HIDE DEF isNew
<1>10. K = (n + 1)..ls
  <2>1. ASSUME NEW y \in 1..ls, y \notin 1..n PROVE y \in (n + 1)..ls
    <3>1. y \in Nat /\ 1 <= y /\ y <= ls /\ ls \in Nat
      BY <1>1
    <3>2. ~ (y <= n)
      BY <2>1, <3>1
    <3> QED BY <3>1, <3>2
  <2> QED BY <1>1, <1>8, <1>9, <2>1
<1>11. n + 1 \in 1..(ls + 1)
  BY <1>1, <1>2
<1>12. Pick(s, (n + 1)..ls) = SubSeq(s, n + 1, ls)
  BY <1>11, PickRest DEF ls
<1> HIDE DEF K
<1> QED BY <1>6, <1>10, <1>12 DEF ls

-----------------------------------------------------------------------------
(* What a delivery shows                                                    *)

\* What is appended comes from the answer, what is kept was shown.
LEMMA AppendElements ==
    ASSUME NEW l \in Seq(Entry), NEW s \in Seq(Entry)
    PROVE  LET a == appendLines(l, newLinesSince(l, s))
           IN  /\ a \in Seq(Entry)
               /\ \A k \in DOMAIN a : \/ \E x \in DOMAIN l : a[k] = l[x]
                                      \/ \E x \in DOMAIN s : a[k] = s[x]
<1> DEFINE new == newLinesSince(l, s)
           w == l \o new
           a == LastOf(w, MaxLines)
<1>1. new \in Seq(Entry) /\ \A k \in DOMAIN new : \E x \in DOMAIN s : new[k] = s[x]
  <2>1. new = s \/ \E K \in SUBSET DOMAIN s : new = Pick(s, K)
    BY DEF newLinesSince
  <2>2. ASSUME NEW K \in SUBSET DOMAIN s, new = Pick(s, K)
        PROVE  new \in Seq(Entry) /\ \A k \in DOMAIN new : \E x \in DOMAIN s : new[k] = s[x]
    BY <2>2, PickType
  <2> HIDE DEF new
  <2> QED BY <2>1, <2>2
<1> HIDE DEF new
<1>2. /\ w \in Seq(Entry)
      /\ \A k \in DOMAIN w : \/ \E x \in DOMAIN l : w[k] = l[x]
                             \/ \E x \in DOMAIN s : w[k] = s[x]
  <2>1. /\ w \in Seq(Entry) /\ Len(w) = Len(l) + Len(new) /\ DOMAIN w = 1..(Len(l) + Len(new))
        /\ Len(l) \in Nat /\ Len(new) \in Nat /\ DOMAIN l = 1..Len(l) /\ DOMAIN new = 1..Len(new)
    BY <1>1
  <2>2. ASSUME NEW k \in DOMAIN w
        PROVE  \/ \E x \in DOMAIN l : w[k] = l[x]
               \/ \E x \in DOMAIN new : w[k] = new[x]
    <3>1. CASE k <= Len(l)
      <4>1. k \in DOMAIN l /\ w[k] = l[k]
        BY <2>1, <3>1, <1>1
      <4> QED BY <4>1
    <3>2. CASE ~ (k <= Len(l))
      <4>1. k - Len(l) \in DOMAIN new /\ w[k] = new[k - Len(l)]
        BY <2>1, <3>2, <1>1
      <4> QED BY <4>1
    <3> QED BY <3>1, <3>2
  <2> HIDE DEF w
  <2> QED BY <1>1, <2>1, <2>2
<1> HIDE DEF w
<1>3. MaxLines \in Nat \ {0}
  BY LogsAssumption
<1>4. a \in Seq(Entry) /\ Len(a) <= Len(w) /\ \A k \in DOMAIN a : a[k] = w[Len(w) - Len(a) + k]
  BY <1>2, <1>3, LastOfElements
<1> HIDE DEF a
<1>5. ASSUME NEW k \in DOMAIN a PROVE Len(w) - Len(a) + k \in DOMAIN w
  <2>1. Len(a) \in Nat /\ Len(w) \in Nat /\ DOMAIN a = 1..Len(a) /\ DOMAIN w = 1..Len(w)
    BY <1>2, <1>4
  <2>2. Len(a) <= Len(w)
    BY <1>4
  <2>3. Len(w) - Len(a) + k \in 1..Len(w)
    BY <2>1, <2>2
  <2> QED BY <2>1, <2>3
<1>6. \A k \in DOMAIN a : \/ \E x \in DOMAIN l : a[k] = l[x]
                          \/ \E x \in DOMAIN s : a[k] = s[x]
  <2> SUFFICES ASSUME NEW k \in DOMAIN a
               PROVE  \/ \E x \in DOMAIN l : a[k] = l[x]
                      \/ \E x \in DOMAIN s : a[k] = s[x]
    OBVIOUS
  <2>1. a[k] = w[Len(w) - Len(a) + k]
    BY <1>4
  <2>2. PICK x : x = Len(w) - Len(a) + k OBVIOUS
  <2>3. x \in DOMAIN w /\ a[k] = w[x]
    BY <1>5, <2>1, <2>2
  <2> QED BY <1>2, <2>3
<1>7. a = appendLines(l, newLinesSince(l, s))
  BY DEF a, w, new, appendLines
<1> QED BY <1>4, <1>6, <1>7

\* A stream answer extends the piece of the log that is shown; its newest line is
\* not older.
LEMMA StreamDelivers ==
    ASSUME log \in Seq(Line), LogInv, lines \in Seq(Line), lines # <<>>,
           NEW s \in Seq(Line), Continues(s)
    PROVE  LET a == appendLines(lines, newLinesSince(lines, s))
           IN  Piece(a) /\ lastTimestamp(a) >= lastTimestamp(lines)
<1>1. PICK i \in Nat, j \in Nat, e \in Nat, n \in Nat : Overlap(s, i, j, e, n) /\ At(lines, i)
  BY ContinuesOverlap
<1> DEFINE new == SubSeq(s, n + 1, Len(s))
           w == lines \o new
           a == LastOf(w, MaxLines)
           ln == Len(lines)
           ls == Len(s)
           lw == Len(w)
           T == lastTimestamp(lines)
<1>2. /\ ln \in Nat /\ 1 <= ln /\ DOMAIN lines = 1..ln
      /\ ls \in Nat /\ DOMAIN s = 1..ls
      /\ DOMAIN log = 1..Len(log) /\ Len(log) \in Nat /\ MaxGroup \in Nat
  BY LogsAssumption
<1>3. /\ 1 <= i /\ e = i + ln - 1 /\ n = e - j + 1 /\ n \in 1..ls /\ j + ls - 1 <= Len(log)
      /\ i \in DOMAIN log
      /\ T \in 1..MaxLog
  BY <1>1, <1>2 DEF Overlap
<1>4. /\ \A k \in 1..ln : lines[k] = log[i + k - 1]
      /\ \A k \in 1..ls : s[k] = log[j + k - 1] /\ log[j + k - 1].ts >= T
  BY <1>1, <1>2 DEF Overlap
<1>5. i = 1 \/ MaxGroup <= ln
  BY <1>1 DEF At
<1>6. /\ new \in Seq(Line) /\ Len(new) = ls - n
      /\ \A k \in 1..(ls - n) : new[k] = s[n + k]
  <2>1. n + 1 \in 1..(ls + 1) /\ ls \in Nat /\ ls - (n + 1) + 1 = ls - n /\ ls - n \in Nat
    BY <1>2, <1>3
  <2>2. /\ new \in Seq(Line)
        /\ Len(new) = IF n + 1 <= ls THEN ls - (n + 1) + 1 ELSE 0
        /\ \A k \in 1..(ls - (n + 1) + 1) : new[k] = s[n + 1 + k - 1]
    BY <2>1, SubSeqProperties
  <2>3. \A k \in 1..(ls - n) : n + 1 + k - 1 = n + k
    BY <2>1
  <2> HIDE DEF new, ls
  <2>4. Len(new) = ls - n
    BY <2>1, <2>2
  <2>5. ASSUME NEW k \in 1..(ls - n) PROVE new[k] = s[n + k]
    <3>1. k \in 1..(ls - (n + 1) + 1) /\ n + 1 + k - 1 = n + k
      BY <2>1, <2>3
    <3> QED BY <2>2, <3>1
  <2> QED BY <2>2, <2>4, <2>5
<1> HIDE DEF new
<1>7. /\ w \in Seq(Line) /\ lw = ln + (ls - n) /\ w # <<>>
      /\ \A k \in 1..lw : w[k] = IF k <= ln THEN lines[k] ELSE new[k - ln]
  <2>1. /\ w \in Seq(Line) /\ lw = ln + Len(new)
        /\ \A k \in 1..(ln + Len(new)) : w[k] = IF k <= ln THEN lines[k] ELSE new[k - ln]
    BY <1>6, ConcatProperties
  <2>2. w # <<>>
    BY <1>6
  <2> HIDE DEF w, lw, ln, ls
  <2> QED BY <1>6, <2>1, <2>2
<1>8. lw \in Nat /\ DOMAIN w = 1..lw
  BY <1>7
<1> HIDE DEF ln, ls, lw, T, w
<1>9. ASSUME NEW k \in 1..lw PROVE w[k] = log[i + k - 1]
  <2>1. CASE k <= ln
    <3>1. w[k] = lines[k]
      BY <1>7, <2>1
    <3>2. k \in 1..ln
      BY <1>2, <1>8, <2>1
    <3> QED BY <1>4, <3>1, <3>2
  <2>2. CASE ~ (k <= ln)
    <3>1. k - ln \in 1..(ls - n) /\ n + (k - ln) \in 1..ls /\ j + (n + (k - ln)) - 1 = i + k - 1
      BY <2>2, <1>2, <1>3, <1>7, <1>8
    <3>2. w[k] = new[k - ln]
      BY <2>2, <1>7
    <3>3. new[k - ln] = s[n + (k - ln)]
      BY <3>1, <1>6
    <3>4. s[n + (k - ln)] = log[j + (n + (k - ln)) - 1]
      BY <3>1, <1>4
    <3> QED BY <3>1, <3>2, <3>3, <3>4
  <2> QED BY <2>1, <2>2
<1>10. i + lw - 1 <= Len(log) /\ i + lw - 1 = j + ls - 1 /\ (i = 1 \/ MaxGroup <= lw) /\ 1 <= lw
  <2>1. lw = ln + (ls - n)
    BY <1>7
  <2> QED BY <2>1, <1>2, <1>3, <1>5
<1>11. At(w, i)
  BY <1>8, <1>9, <1>10 DEF At, lw
<1>12. MaxLines \in Nat \ {0} /\ MaxGroup <= MaxLines
  BY LogsAssumption
<1>13. /\ a \in Seq(Line) /\ a # <<>> /\ i + Len(w) - Len(a) \in DOMAIN log
       /\ At(a, i + Len(w) - Len(a))
  BY <1>3, <1>7, <1>11, <1>12, PieceCut
<1>14. \A k \in DOMAIN a : a[k] = w[Len(w) - Len(a) + k]
  BY <1>7, <1>12, LastOfElements
<1> HIDE DEF a
<1>15. Piece(a)
  BY <1>13 DEF Piece
<1>16. a[Len(a)] = log[j + ls - 1]
  <2>1. Len(a) \in DOMAIN a /\ Len(a) \in Nat
    BY <1>13
  <2>2. a[Len(a)] = w[lw - Len(a) + Len(a)]
    BY <1>14, <2>1 DEF lw
  <2>3. lw - Len(a) + Len(a) = lw /\ lw \in 1..lw
    BY <1>8, <1>10, <2>1
  <2> QED BY <1>9, <1>10, <2>2, <2>3
<1>17. ls \in 1..ls
  BY <1>2, <1>3
<1>18. lastTimestamp(a) >= T
  BY <1>4, <1>13, <1>16, <1>17, LastLine
<1>19. a = appendLines(lines, newLinesSince(lines, s))
  BY <1>1, NewLines DEF a, w, new, appendLines
<1> QED BY <1>15, <1>18, <1>19 DEF T

\* An empty stream answer at most cuts what is shown.
LEMMA EmptyDelivers ==
    ASSUME log \in Seq(Line), lines \in Seq(Line), lines # <<>>, Piece(lines)
    PROVE  LET a == appendLines(lines, newLinesSince(lines, <<>>))
           IN  Piece(a) /\ lastTimestamp(a) >= lastTimestamp(lines)
<1> DEFINE a == LastOf(lines, MaxLines)
<1>1. newLinesSince(lines, <<>>) = <<>>
  <2>1. \/ newLinesSince(lines, <<>>) = <<>>
        \/ \E K \in SUBSET DOMAIN (<<>>) : newLinesSince(lines, <<>>) = Pick(<<>>, K)
    BY DEF newLinesSince
  <2>2. ASSUME NEW K \in SUBSET DOMAIN (<<>>) PROVE Pick(<<>>, K) = <<>>
    <3>1. K = {} /\ <<>> \in Seq(Line)
      OBVIOUS
    <3>2. Cardinality(K) = 0
      BY <3>1, FS_EmptySet
    <3>3. Pick(<<>>, K) \in Seq(Line) /\ Len(Pick(<<>>, K)) = 0
      BY <3>1, <3>2, PickType
    <3> QED BY <3>3, EmptySeq
  <2> QED BY <2>1, <2>2
<1>2. lines \o <<>> = lines
  BY ConcatEmptySeq
<1>3. appendLines(lines, newLinesSince(lines, <<>>)) = a
  BY <1>1, <1>2 DEF appendLines
<1>4. MaxLines \in Nat \ {0} /\ MaxGroup <= MaxLines
  BY LogsAssumption
<1>5. PICK i \in DOMAIN log : At(lines, i)
  BY DEF Piece
<1>6. /\ a \in Seq(Line) /\ a # <<>> /\ i + Len(lines) - Len(a) \in DOMAIN log
      /\ At(a, i + Len(lines) - Len(a))
  BY <1>4, <1>5, PieceCut
<1>7. \A k \in DOMAIN a : a[k] = lines[Len(lines) - Len(a) + k]
  BY <1>4, LastOfElements
<1> HIDE DEF a
<1>8. a[Len(a)] = lines[Len(lines)]
  <2>1. Len(a) \in DOMAIN a /\ Len(a) \in Nat /\ Len(lines) \in Nat
    BY <1>6
  <2>2. Len(lines) - Len(a) + Len(a) = Len(lines)
    BY <2>1
  <2> QED BY <1>7, <2>1, <2>2
<1>9. lastTimestamp(a) = lastTimestamp(lines) /\ lastTimestamp(lines) \in 1..MaxLog
  BY <1>6, <1>8, LastLine
<1>10. lastTimestamp(a) >= lastTimestamp(lines)
  BY <1>9, EntryFacts
<1> QED BY <1>3, <1>6, <1>10 DEF Piece

-----------------------------------------------------------------------------
(* What an answer holds                                                     *)

\* No line is later than the last.
LEMMA LogLast ==
    ASSUME log \in Seq(Line), LogInv, NEW k \in DOMAIN log
    PROVE  log[k].ts <= lastTimestamp(log)
<1>1. Len(log) \in DOMAIN log /\ k <= Len(log) /\ log # <<>>
  OBVIOUS
<1> QED BY <1>1, LastLine DEF LogInv

\* docker logs --since of a viewer that shows a piece of the log.
LEMMA StreamOutput ==
    ASSUME log \in Seq(Line), LogInv, lines \in Seq(Line), lines # <<>>, Piece(lines)
    PROVE  Continues(Pick(log, {k \in DOMAIN log : log[k].ts >= lastTimestamp(lines)}))
<1> DEFINE T == lastTimestamp(lines)
           ll == Len(log)
           ln == Len(lines)
           K == {k \in DOMAIN log : log[k].ts >= T}
<1>1. PICK i \in DOMAIN log : At(lines, i)
  BY DEF Piece
<1> DEFINE e == i + ln - 1
<1>2. ll \in Nat /\ DOMAIN log = 1..ll /\ ln \in Nat /\ 1 <= ln /\ DOMAIN lines = 1..ln
  OBVIOUS
<1>3. T = lines[ln].ts /\ T \in 1..MaxLog
  BY LastLine
<1>4. e <= ll /\ \A k \in 1..ln : lines[k] = log[i + k - 1]
  BY <1>1, <1>2 DEF At
<1>5. i \in Nat /\ 1 <= i
  BY <1>2
<1> HIDE DEF T, ll, ln
<1>6. e \in 1..ll /\ ln \in 1..ln
  BY <1>2, <1>4, <1>5
<1>7. \A k \in 1..ll : log[k].ts \in 1..MaxLog
  BY <1>2, EntryFacts
<1>8. e \in K
  <2>1. log[e].ts = T
    BY <1>3, <1>4, <1>6
  <2> QED BY <1>2, <1>3, <1>6, <2>1
<1>9. PICK j \in K : \A k \in K : j <= k
  <2>1. K \in SUBSET (0..ll) /\ K # {}
    BY <1>2, <1>8
  <2> HIDE DEF K
  <2> QED BY <1>2, <2>1, Least
<1>10. j \in 1..ll /\ log[j].ts >= T
  BY <1>2
<1>11. ASSUME NEW k \in j..ll PROVE k \in K
  <2>1. k \in DOMAIN log /\ j \in DOMAIN log /\ j <= k
    BY <1>2, <1>10
  <2>2. log[j].ts <= log[k].ts
    BY <2>1 DEF LogInv
  <2>3. log[j].ts \in 1..MaxLog /\ log[k].ts \in 1..MaxLog
    BY <2>1, <1>2, <1>7
  <2> QED BY <1>3, <1>10, <2>1, <2>2, <2>3
<1>12. K = j..ll
  <2>1. ASSUME NEW k \in K PROVE k \in j..ll
    <3>1. k \in 1..ll /\ j <= k
      BY <1>2, <1>9
    <3>2. j \in Nat /\ ll \in Nat
      BY <1>2, <1>10
    <3> QED BY <3>1, <3>2
  <2> QED BY <1>11, <2>1
<1>13. ASSUME NEW k \in 1..(j - 1) PROVE log[k].ts < T
  <2>1. k \in 1..ll /\ k \notin K
    BY <1>2, <1>9, <1>10
  <2>2. log[k].ts \in 1..MaxLog
    BY <2>1, <1>7
  <2> QED BY <1>2, <1>3, <2>1, <2>2
<1> DEFINE s == SubSeq(log, j, ll)
<1>14. Pick(log, K) = s
  <2>1. j \in 1..(ll + 1)
    BY <1>2, <1>10
  <2>2. Pick(log, j..ll) = s
    BY <2>1, PickRest DEF ll
  <2> HIDE DEF K, s
  <2> QED BY <1>12, <2>2
<1>15. /\ s \in Seq(Line) /\ Len(s) = ll - j + 1
       /\ \A k \in 1..(ll - j + 1) : s[k] = log[j + k - 1]
  <2>1. j \in Int /\ ll \in Int /\ j <= ll
    BY <1>2, <1>10
  <2>2. \A k \in j..ll : log[k] \in Line
    BY <1>2, <1>11
  <2>3. /\ s \in Seq(Line)
        /\ Len(s) = IF j <= ll THEN ll - j + 1 ELSE 0
        /\ \A k \in 1..(ll - j + 1) : s[k] = log[j + k - 1]
    BY <2>1, <2>2, SubSeqProperties
  <2> QED BY <2>1, <2>3
<1> HIDE DEF s
<1>16. DOMAIN s = 1..(ll - j + 1)
  BY <1>15
<1>17. \A k \in 1..(ll - j + 1) : log[j + k - 1].ts >= T
  <2> SUFFICES ASSUME NEW k \in 1..(ll - j + 1) PROVE j + k - 1 \in j..ll
    BY <1>11
  <2> QED BY <1>2, <1>10
<1>18. j + Len(s) - 1 <= ll /\ i + ln <= j + Len(s)
  <2>1. j + (ll - j + 1) - 1 <= ll /\ i + ln <= j + (ll - j + 1)
    BY <1>2, <1>4, <1>5, <1>10
  <2> QED BY <1>15, <2>1
<1>19. Continues(s)
  BY <1>1, <1>2, <1>10, <1>13, <1>15, <1>16, <1>17, <1>18 DEF Continues, T, ll, ln
<1> QED BY <1>14, <1>19 DEF T

-----------------------------------------------------------------------------
(* The steps                                                                *)

\* The inductive invariant holds at first.
LEMMA InvInit == Init => LogsInv
<1> SUFFICES ASSUME Init PROVE LogsInv
  OBVIOUS
<1>1. <<>> \in Seq(Entry) /\ <<>> \in Seq(Line) /\ DOMAIN (<<>>) = {} /\ Len(<<>>) = 0
  OBVIOUS
<1>2. TypeOK
  <2>1. Asked("load", NoTime) \in Request
    BY <1>1, EntryFacts DEF Request, Asked, NoTime
  <2>2. inFlight \subseteq Request
    BY <2>1 DEF Init
  <2>3. {loading, all, streamLogs, watching, logsLoaded, destroyed, up, clean} \subseteq BOOLEAN
    BY DEF Init
  <2> QED BY <1>1, <2>2, <2>3, EntryFacts DEF Init, TypeOK
<1>3. LogInv
  <2>1. \A t : {i \in DOMAIN log : log[i].ts = t} = {}
    BY <1>1 DEF Init
  <2>2. Cardinality({}) = 0 /\ MaxGroup \in Nat
    BY FS_EmptySet, LogsAssumption
  <2> QED BY <1>1, <2>1, <2>2 DEF Init, LogInv
<1>4. LinesInv
  BY <1>1 DEF Init, LinesInv, NotLater, Piece
<1>5. RequestInv
  <2>1. ASSUME NEW r \in inFlight
        PROVE  r = Asked("load", NoTime) /\ loading /\ inFlight = {r}
    BY DEF Init
  <2>2. Asked("load", NoTime).kind = "load" /\ Asked("load", NoTime).reply = <<>>
    BY DEF Asked
  <2>3. ASSUME NEW r \in inFlight PROVE NotLater(r.reply) /\ AnswerOK(r) /\ r.kind # "stream"
    BY <1>1, <2>1, <2>2 DEF NotLater, AnswerOK
  <2> QED BY <2>1, <2>3 DEF RequestInv, RequestOK
<1> QED BY <1>2, <1>3, <1>4, <1>5 DEF LogsInv

\* With no request under way, a new one is the only one; it has no answer yet.
LEMMA AskKeeps ==
    ASSUME LogsInv, ~loading, NEW kind \in {"load", "all", "stream"}, NEW since \in 0..MaxLog,
           kind = "stream" => since = lastTimestamp(lines) /\ since # NoTime,
           loading' = TRUE, inFlight' = {Asked(kind, since)},
           UNCHANGED <<log, lines, all, clean, up>>,
           {streamLogs', watching', logsLoaded', destroyed'} \subseteq BOOLEAN
    PROVE  LogsInv'
<1>1. Asked(kind, since) \in Request
  BY DEF Asked, Request
<1>2. TypeOK'
  BY <1>1 DEF LogsInv, TypeOK
<1>3. LogInv' /\ LinesInv'
  BY DEF LogsInv, LogInv, LinesInv, NotLater, Piece, At
<1>4. RequestInv'
  <2>1. /\ Asked(kind, since).kind = kind /\ Asked(kind, since).since = since
        /\ Asked(kind, since).reply = <<>>
    BY DEF Asked
  <2>2. DOMAIN (<<>>) = {}
    OBVIOUS
  <2> QED BY <2>1, <2>2 DEF RequestInv, RequestOK, NotLater, AnswerOK
<1> QED BY <1>2, <1>3, <1>4 DEF LogsInv

\* What changes neither the lines nor a request.
LEMMA UserKeeps ==
    ASSUME LogsInv, UNCHANGED <<log, lines, loading, inFlight, all, clean>>,
           {streamLogs', watching', logsLoaded', destroyed', up'} \subseteq BOOLEAN
    PROVE  LogsInv'
<1>1. TypeOK'
  BY DEF LogsInv, TypeOK
<1>2. LogInv' /\ LinesInv'
  BY DEF LogsInv, LogInv, LinesInv, NotLater, Piece, At
<1>3. RequestInv'
  <2> SUFFICES ASSUME NEW r \in inFlight PROVE RequestOK(r)'
    BY DEF RequestInv
  <2>1. RequestOK(r)
    BY DEF LogsInv, RequestInv
  <2>2. NotLater(r.reply)'
    BY <2>1 DEF RequestOK, NotLater
  <2>3. AnswerOK(r)'
    BY <2>1 DEF RequestOK, AnswerOK, Continues, Reloads, Piece, At
  <2> QED BY <2>1, <2>2, <2>3 DEF RequestOK
<1> QED BY <1>1, <1>2, <1>3 DEF LogsInv

\* The viewer sends a request only when none is under way.
LEMMA ViewerKeeps ==
    ASSUME LogsInv,
           \/ Refresh \/ ShowAll \/ StreamTick
           \/ ToggleStreamLogs \/ ToggleWatching \/ Destroy \/ Outage
    PROVE  LogsInv'
<1>1. ~loading => inFlight = {}
  BY DEF LogsInv, RequestInv, RequestOK
<1>2. lastTimestamp(lines) \in 0..MaxLog /\ NoTime \in 0..MaxLog
  <2>1. lines \in Seq(Entry)
    BY DEF LogsInv, TypeOK
  <2>2. NoTime \in 0..MaxLog
    BY EntryFacts DEF NoTime
  <2> QED BY <2>1, <2>2, LastTimestamp
<1>3. {streamLogs, watching, logsLoaded, destroyed, up} \subseteq BOOLEAN
  BY DEF LogsInv, TypeOK
<1>4. ASSUME NEW kind, NEW since, Ask(kind, since), ~loading
      PROVE  /\ loading' = TRUE /\ inFlight' = {Asked(kind, since)}
             /\ UNCHANGED <<log, lines, all, clean, up>>
             /\ UNCHANGED <<streamLogs, watching, logsLoaded, destroyed>>
  BY <1>1, <1>4 DEF Ask, user
<1>5. CASE Refresh
  BY <1>2, <1>3, <1>4, <1>5, AskKeeps DEF Refresh
<1>6. CASE ShowAll
  BY <1>2, <1>3, <1>4, <1>6, AskKeeps DEF ShowAll
<1>7. CASE StreamTick
  BY <1>2, <1>3, <1>4, <1>7, AskKeeps DEF StreamTick
<1>8. CASE ToggleWatching /\ (logsLoaded \/ loading)
  BY <1>3, <1>8, UserKeeps DEF ToggleWatching
<1>9. CASE ToggleWatching /\ ~(logsLoaded \/ loading)
  BY <1>2, <1>3, <1>9, AskKeeps DEF ToggleWatching
<1>10. CASE ToggleStreamLogs
  BY <1>3, <1>10, UserKeeps DEF ToggleStreamLogs
<1>11. CASE Destroy
  BY <1>3, <1>11, UserKeeps DEF Destroy
<1>12. CASE Outage
  BY <1>3, <1>12, UserKeeps DEF Outage, user
<1> QED BY <1>5, <1>6, <1>7, <1>8, <1>9, <1>10, <1>11, <1>12

\* An answer takes the place of its request.
LEMMA AnswerKeeps ==
    ASSUME LogsInv, NEW r \in inFlight, NEW output \in Seq(Entry), Answer(r, output),
           NotLater(output),
           \/ output = <<>>
           \/ Marker \in Range(output)
           \/ r.kind = "stream" /\ (clean => Continues(output))
           \/ r.kind # "stream" /\ Reloads(output)
    PROVE  LogsInv'
<1> DEFINE q == [r EXCEPT !.served = TRUE, !.reply = output]
<1>1. r \in Request /\ RequestOK(r) /\ inFlight = {r}
  BY DEF LogsInv, TypeOK, RequestInv, RequestOK
<1>2. /\ q \in Request /\ q.kind = r.kind /\ q.since = r.since /\ q.reply = output
  BY <1>1 DEF Request
<1>3. /\ inFlight' = {q}
      /\ UNCHANGED <<log, lines, loading, all, up, clean>>
      /\ UNCHANGED <<streamLogs, watching, logsLoaded, destroyed>>
  BY <1>1 DEF Answer, user
<1> HIDE DEF q
<1>4. TypeOK'
  BY <1>2, <1>3 DEF LogsInv, TypeOK
<1>5. LogInv' /\ LinesInv'
  BY <1>3 DEF LogsInv, LogInv, LinesInv, NotLater, Piece, At
<1>6. RequestOK(q)'
  <2>1. NotLater(q.reply)'
    BY <1>2, <1>3 DEF NotLater
  <2>2. AnswerOK(q)'
    BY <1>2, <1>3 DEF AnswerOK, Continues, Reloads, Piece, At
  <2> QED BY <1>1, <1>2, <1>3, <2>1, <2>2 DEF RequestOK
<1>7. RequestInv'
  BY <1>3, <1>6 DEF RequestInv
<1> QED BY <1>4, <1>5, <1>7 DEF LogsInv

\* docker logs is a piece of the log, whichever way it is asked.
LEMMA ServeKeeps ==
    ASSUME LogsInv, NEW r \in inFlight, Serve(r) \/ ServeNothing(r)
    PROVE  LogsInv'
<1>1. /\ r \in Request /\ RequestOK(r) /\ LogInv /\ LinesInv
      /\ log \in Seq(Line) /\ lines \in Seq(Entry)
  BY DEF LogsInv, TypeOK, RequestInv
<1>2. CASE ServeNothing(r)
  <2>1. /\ <<>> \in Seq(Entry) /\ <<Marker>> \in Seq(Entry)
        /\ Marker \in Range(<<Marker>>)
    BY EntryFacts DEF Range
  <2>2. NotLater(<<>>)
    BY DEF NotLater
  <2>3. NotLater(<<Marker>>)
    <3>1. lastTimestamp(log) \in 0..MaxLog
      <4>1. log \in Seq(Entry)
        BY <1>1, SeqMonotonic DEF Entry
      <4> QED BY <4>1, LastTimestamp
    <3> QED BY <3>1, EntryFacts DEF NotLater, NoTime
  <2> QED BY <1>2, <2>1, <2>2, <2>3, AnswerKeeps DEF ServeNothing
<1>3. CASE Serve(r) /\ r.kind = "stream"
  <2> DEFINE K == {i \in DOMAIN log : log[i].ts >= r.since}
             s == Pick(log, K)
  <2>1. Answer(r, s)
    BY <1>3 DEF Serve, Output
  <2>2. s \in Seq(Line) /\ \A k \in DOMAIN s : \E i \in K : s[k] = log[i]
    <3>1. K \in SUBSET DOMAIN log
      OBVIOUS
    <3> HIDE DEF K
    <3> QED BY <1>1, <3>1, PickType
  <2>3. s \in Seq(Entry)
    BY <2>2, SeqMonotonic DEF Entry
  <2>4. NotLater(s)
    <3> HIDE DEF s
    <3> SUFFICES ASSUME NEW k \in DOMAIN s PROVE s[k].ts <= lastTimestamp(log)
      BY DEF NotLater
    <3>1. PICK i \in K : s[k] = log[i]
      BY <2>2
    <3> QED BY <1>1, <3>1, LogLast
  <2>5. r.since = lastTimestamp(lines) /\ r.since # NoTime
    BY <1>1, <1>3 DEF RequestOK
  <2>6. ASSUME clean PROVE Continues(s)
    <3>1. Piece(lines) /\ lines # <<>>
      BY <1>1, <2>5, <2>6, LastEmpty DEF LinesInv
    <3>2. lines \in Seq(Line)
      BY <1>1, <3>1, PieceLines DEF Piece
    <3>3. s = Pick(log, {k \in DOMAIN log : log[k].ts >= lastTimestamp(lines)})
      BY <2>5
    <3> QED BY <1>1, <3>1, <3>2, <3>3, StreamOutput
  <2> HIDE DEF s
  <2> QED BY <1>3, <2>1, <2>3, <2>4, <2>6, AnswerKeeps
<1>4. CASE Serve(r) /\ r.kind # "stream"
  <2> DEFINE s == Output(r, all \/ r.kind = "all")
  <2>1. Answer(r, s)
    BY <1>4 DEF Serve
  <2>2. s = log \/ s = LastOf(log, NumberOfLines)
    BY <1>4 DEF Output
  <2> HIDE DEF s
  <2>3. CASE log = <<>>
    <3>1. s = <<>>
      <4>1. Len(<<>>) <= NumberOfLines
        BY LogsAssumption
      <4> QED BY <2>2, <2>3, <4>1 DEF LastOf
    <3>2. s \in Seq(Entry) /\ NotLater(s)
      BY <3>1 DEF NotLater
    <3> QED BY <2>1, <3>1, <3>2, AnswerKeeps
  <2>4. CASE log # <<>>
    <3>1. s \in Seq(Line) /\ s # <<>> /\ s[Len(s)] = log[Len(log)] /\ Piece(s)
      <4>1. CASE s = log
        <5>1. 1 \in DOMAIN log /\ At(log, 1)
          BY <1>1, <2>4 DEF At
        <5> QED BY <1>1, <2>4, <4>1, <5>1 DEF Piece
      <4>2. CASE s = LastOf(log, NumberOfLines)
        <5>1. NumberOfLines \in Nat \ {0} /\ MaxGroup <= NumberOfLines
          BY LogsAssumption
        <5> QED BY <1>1, <2>4, <4>2, <5>1, TailPiece
      <4> QED BY <2>2, <4>1, <4>2
    <3>2. lastTimestamp(s) = lastTimestamp(log)
      BY <1>1, <2>4, <3>1, LastLine
    <3>3. s \in Seq(Entry)
      BY <3>1, SeqMonotonic DEF Entry
    <3>4. NotLater(s)
      <4> SUFFICES ASSUME NEW k \in DOMAIN s PROVE s[k].ts <= lastTimestamp(log)
        BY DEF NotLater
      <4>1. PICK i \in DOMAIN log : At(s, i)
        BY <3>1 DEF Piece
      <4>2. s[k] = log[i + k - 1] /\ i + k - 1 \in DOMAIN log
        BY <1>1, <3>1, <4>1 DEF At
      <4> QED BY <1>1, <4>2, LogLast
    <3>5. Reloads(s)
      BY <1>1, <3>1, <3>2 DEF Reloads, LinesInv, NotLater
    <3> QED BY <1>4, <2>1, <3>3, <3>4, <3>5, AnswerKeeps
  <2> QED BY <2>3, <2>4
<1> QED BY <1>2, <1>3, <1>4

\* The container appends a line that is not earlier than the last.
LEMMA WriteGrows ==
    ASSUME LogsInv, NEW text \in Texts, Write(text)
    PROVE  /\ log' \in Seq(Line) /\ Len(log') = Len(log) + 1 /\ Len(log') <= MaxLog
           /\ \A k \in DOMAIN log : log'[k] = log[k]
           /\ lastTimestamp(log) <= lastTimestamp(log')
           /\ LogInv'
<1>1. PICK t \in 1..MaxLog :
        /\ t \in {lastTimestamp(log), lastTimestamp(log) + 1}
        /\ Cardinality({i \in DOMAIN log : log[i].ts = t}) < MaxGroup
        /\ log' = Append(log, [ts |-> t, text |-> text])
  BY DEF Write
<1> DEFINE l == [ts |-> t, text |-> text]
           ll == Len(log)
           G(u) == {i \in DOMAIN log : log[i].ts = u}
<1>2. log \in Seq(Line) /\ LogInv /\ ll \in Nat /\ DOMAIN log = 1..ll /\ ll < MaxLog
      /\ MaxLog \in Nat /\ MaxGroup \in Nat
  BY LogsAssumption DEF LogsInv, TypeOK, Write
<1>3. l \in Line /\ l.ts = t
  BY DEF Line
<1>4. /\ log' \in Seq(Line) /\ Len(log') = ll + 1 /\ DOMAIN log' = 1..(ll + 1)
      /\ \A k \in 1..ll : log'[k] = log[k]
      /\ log'[ll + 1] = l
  BY <1>1, <1>2, <1>3
<1>5. lastTimestamp(log) \in 0..MaxLog
  <2>1. log \in Seq(Entry)
    BY <1>2, SeqMonotonic DEF Entry
  <2> QED BY <2>1, LastTimestamp
<1>6. lastTimestamp(log') = t
  <2>1. log' # <<>>
    BY <1>2, <1>4
  <2> HIDE DEF l
  <2> QED BY <1>3, <1>4, <2>1, LastLine
<1>7. lastTimestamp(log) <= t
  BY <1>1, <1>5
<1>8. ASSUME NEW k \in 1..ll PROVE log[k].ts <= t /\ log[k].ts \in 1..MaxLog
  <2>1. log[k].ts <= lastTimestamp(log)
    BY <1>2, LogLast
  <2>2. log[k].ts \in 1..MaxLog
    BY <1>2, EntryFacts
  <2> QED BY <1>2, <1>5, <1>7, <2>1, <2>2
<1> HIDE DEF l, ll
<1>9. \A i, k \in DOMAIN log' : i <= k => log'[i].ts <= log'[k].ts
  <2> SUFFICES ASSUME NEW i \in 1..(ll + 1), NEW k \in 1..(ll + 1), i <= k
               PROVE  log'[i].ts <= log'[k].ts
    BY <1>4
  <2>1. CASE k \in 1..ll
    <3>1. i \in 1..ll
      BY <1>2, <2>1
    <3> QED BY <1>2, <1>4, <2>1, <3>1 DEF LogInv
  <2>2. CASE k = ll + 1 /\ i \in 1..ll
    BY <1>3, <1>4, <1>8, <2>2
  <2>3. CASE k = ll + 1 /\ i = ll + 1
    BY <1>2, <1>3, <1>4, <2>3
  <2> QED BY <1>2, <2>1, <2>2, <2>3
<1>10. ASSUME NEW u \in 1..MaxLog
       PROVE  Cardinality({i \in DOMAIN log' : log'[i].ts = u}) <= MaxGroup
  <2> DEFINE H == {i \in DOMAIN log' : log'[i].ts = u}
  <2>1. H = IF u = t THEN G(u) \cup {ll + 1} ELSE G(u)
    <3>1. \A i \in 1..(ll + 1) : i \in 1..ll \/ i = ll + 1
      BY <1>2
    <3>2. \A i \in 1..ll : i \in 1..(ll + 1)
      BY <1>2
    <3>3. ll + 1 \in 1..(ll + 1)
      BY <1>2
    <3> QED BY <1>2, <1>3, <1>4, <3>1, <3>2, <3>3
  <2>2. ll + 1 \notin G(u)
    BY <1>2
  <2>3. IsFiniteSet(G(u)) /\ Cardinality(G(u)) \in Nat
    <3>1. IsFiniteSet(1..ll) /\ G(u) \in SUBSET (1..ll)
      BY <1>2, FS_Interval
    <3> QED BY <3>1, FS_Subset, FS_CardinalityType
  <2>4. CASE u = t
    <3>1. Cardinality(G(u)) < MaxGroup
      BY <1>1, <2>4
    <3>2. H = G(u) \cup {ll + 1}
      BY <2>1, <2>4
    <3> HIDE DEF G, H
    <3>3. Cardinality(H) = Cardinality(G(u)) + 1
      BY <2>2, <2>3, <3>2, FS_AddElement
    <3>4. Cardinality(H) <= MaxGroup
      BY <1>2, <2>3, <3>1, <3>3
    <3> QED BY <3>4 DEF H
  <2>5. CASE u # t
    <3>1. H = G(u)
      BY <2>1, <2>5
    <3>2. Cardinality(G(u)) <= MaxGroup
      BY <1>2 DEF LogInv
    <3> QED BY <3>1, <3>2
  <2> QED BY <2>4, <2>5
<1>11. LogInv'
  BY <1>9, <1>10 DEF LogInv
<1>12. ll + 1 <= MaxLog
  BY <1>2
<1> QED BY <1>2, <1>4, <1>6, <1>7, <1>11, <1>12 DEF ll

\* What holds of a piece of the log holds of it in a longer log.
LEMMA Grown ==
    ASSUME log \in Seq(Line), log' \in Seq(Line), Len(log) <= Len(log'), lines' = lines,
           lines \in Seq(Entry), NEW s \in Seq(Entry),
           \A k \in DOMAIN log : log'[k] = log[k],
           lastTimestamp(log) <= lastTimestamp(log')
    PROVE  /\ Piece(s) => Piece(s)'
           /\ NotLater(s) => NotLater(s)'
           /\ Reloads(s) => Reloads(s)'
           /\ Continues(s) => Continues(s)'
<1> DEFINE ll == Len(log)
           lp == Len(log')
<1>1. ll \in Nat /\ lp \in Nat /\ DOMAIN log = 1..ll /\ DOMAIN log' = 1..lp /\ ll <= lp
  OBVIOUS
<1>2. \A k \in DOMAIN log : k \in DOMAIN log'
  BY <1>1
<1>3. ASSUME NEW q \in Seq(Entry), NEW i \in DOMAIN log, At(q, i) PROVE At(q, i)'
  <2>1. Len(q) \in Nat /\ DOMAIN q = 1..Len(q) /\ i \in Nat /\ i >= 1
    BY <1>1
  <2>2. i + Len(q) - 1 <= ll
    BY <1>3 DEF At
  <2>3. ASSUME NEW k \in DOMAIN q PROVE q[k] = log'[i + k - 1]
    <3>1. i + k - 1 \in DOMAIN log
      BY <1>1, <2>1, <2>2
    <3> QED BY <1>3, <3>1 DEF At
  <2>4. i + Len(q) - 1 <= lp
    BY <1>1, <2>1, <2>2
  <2> QED BY <1>3, <2>3, <2>4 DEF At
<1>4. Piece(s) => Piece(s)'
  BY <1>2, <1>3 DEF Piece
<1>5. ASSUME NotLater(s) PROVE NotLater(s)'
  <2>1. lastTimestamp(log) \in 0..MaxLog /\ lastTimestamp(log') \in 0..MaxLog
    <3>1. log \in Seq(Entry) /\ log' \in Seq(Entry)
      BY SeqMonotonic DEF Entry
    <3> QED BY <3>1, LastTimestamp
  <2>2. ASSUME NEW k \in DOMAIN s PROVE s[k].ts <= lastTimestamp(log')
    <3>1. s[k].ts \in 0..MaxLog /\ s[k].ts <= lastTimestamp(log)
      BY <1>5, EntryFacts DEF NotLater
    <3> QED BY <2>1, <3>1, EntryFacts
  <2> QED BY <2>2 DEF NotLater
<1>6. Reloads(s) => Reloads(s)'
  BY <1>4 DEF Reloads
<1>7. ASSUME Continues(s) PROVE Continues(s)'
  <2>1. PICK i \in DOMAIN log, j \in DOMAIN log :
        /\ At(lines, i)
        /\ j + Len(s) - 1 <= Len(log)
        /\ i + Len(lines) <= j + Len(s)
        /\ \A k \in DOMAIN s : s[k] = log[j + k - 1] /\ log[j + k - 1].ts >= lastTimestamp(lines)
        /\ \A k \in 1..(j - 1) : log[k].ts < lastTimestamp(lines)
    BY <1>7 DEF Continues
  <2>2. Len(s) \in Nat /\ DOMAIN s = 1..Len(s) /\ j \in 1..ll
    BY <1>1
  <2>3. At(lines, i)'
    <3>1. ASSUME NEW q, q = lines PROVE At(q, i)'
      BY <1>3, <2>1, <3>1
    <3> QED BY <3>1 DEF At
  <2>4. j + Len(s) - 1 <= lp
    BY <1>1, <2>1, <2>2
  <2>5. ASSUME NEW k \in DOMAIN s
        PROVE  s[k] = log'[j + k - 1] /\ log'[j + k - 1].ts >= lastTimestamp(lines)
    <3>1. j + k - 1 \in DOMAIN log
      BY <1>1, <2>1, <2>2
    <3> QED BY <2>1, <3>1
  <2>6. ASSUME NEW k \in 1..(j - 1) PROVE log'[k].ts < lastTimestamp(lines)
    <3>1. k \in DOMAIN log
      BY <1>1, <2>2
    <3> QED BY <2>1, <3>1
  <2> QED BY <1>2, <2>1, <2>3, <2>4, <2>5, <2>6 DEF Continues
<1> QED BY <1>4, <1>5, <1>6, <1>7

\* A new line disturbs neither the lines nor an answer.
LEMMA WriteKeeps ==
    ASSUME LogsInv, NEW text \in Texts, Write(text)
    PROVE  LogsInv'
<1>1. /\ log' \in Seq(Line) /\ Len(log') = Len(log) + 1 /\ Len(log') <= MaxLog
      /\ \A k \in DOMAIN log : log'[k] = log[k]
      /\ lastTimestamp(log) <= lastTimestamp(log')
      /\ LogInv'
  BY WriteGrows
<1>2. /\ UNCHANGED <<lines, loading, inFlight, all, up, clean>>
      /\ UNCHANGED <<streamLogs, watching, logsLoaded, destroyed>>
      /\ log \in Seq(Line) /\ lines \in Seq(Entry) /\ inFlight \subseteq Request
  BY DEF Write, user, LogsInv, TypeOK
<1>3. TypeOK'
  BY <1>1, <1>2 DEF LogsInv, TypeOK
<1>4. ASSUME NEW s \in Seq(Entry)
      PROVE  /\ Piece(s) => Piece(s)'
             /\ NotLater(s) => NotLater(s)'
             /\ Reloads(s) => Reloads(s)'
             /\ Continues(s) => Continues(s)'
  <2>1. Len(log) <= Len(log')
    BY <1>1, <1>2
  <2> QED BY <1>1, <1>2, <2>1, Grown
<1>5. LinesInv'
  <2>1. ASSUME NEW s \in Seq(Entry), s = lines PROVE LinesInv'
    BY <1>2, <1>4, <2>1 DEF LogsInv, LinesInv, Piece, NotLater, At
  <2> QED BY <1>2, <2>1
<1>6. ASSUME NEW r \in inFlight PROVE RequestOK(r)'
  <2>1. RequestOK(r) /\ r.reply \in Seq(Entry)
    BY <1>2 DEF LogsInv, RequestInv, Request
  <2>2. NotLater(r.reply)'
    BY <1>4, <2>1 DEF RequestOK
  <2>3. AnswerOK(r)'
    BY <1>2, <1>4, <2>1 DEF RequestOK, AnswerOK
  <2> QED BY <1>2, <2>1, <2>2, <2>3 DEF RequestOK
<1>7. RequestInv'
  BY <1>2, <1>6 DEF RequestInv
<1> QED BY <1>1, <1>3, <1>5, <1>7 DEF LogsInv

\* What the viewer shows after a delivery is a piece of the log that ends no earlier,
\* unless it is empty or the answer had a line without timestamp.
LEMMA DeliverShows ==
    ASSUME LogsInv, NEW r \in inFlight, Deliver(r)
    PROVE  /\ LinesInv' /\ lines' \in Seq(Entry)
           /\ \/ lastTimestamp(lines') >= lastTimestamp(lines)
              \/ lines' = <<>>
              \/ ~clean'
<1>1. /\ r.reply \in Seq(Entry) /\ RequestOK(r) /\ LogInv /\ LinesInv
      /\ log \in Seq(Line) /\ lines \in Seq(Entry)
  BY DEF LogsInv, TypeOK, RequestInv, Request
<1>2. /\ lines' = IF destroyed THEN lines
                  ELSE IF r.kind # "stream" THEN r.reply
                  ELSE IF streamLogs THEN appendLines(lines, newLinesSince(lines, r.reply))
                  ELSE lines
      /\ clean' = IF lines' = lines THEN clean
                  ELSE (clean \/ r.kind # "stream") /\ Marker \notin Range(r.reply)
      /\ log' = log
  BY DEF Deliver, Done
<1>3. lastTimestamp(lines) \in 0..MaxLog /\ MaxLog \in Nat
  BY <1>1, LastTimestamp, EntryFacts
<1>4. CASE lines' = lines
  <2>1. clean' = clean
    BY <1>2, <1>4
  <2>2. LinesInv'
    <3>1. LinesInv /\ log' = log
      BY <1>1, <1>2
    <3> QED BY <1>4, <2>1, <3>1 DEF LinesInv, Piece, NotLater, At
  <2>3. lastTimestamp(lines') >= lastTimestamp(lines)
    BY <1>3, <1>4
  <2> QED BY <1>1, <1>4, <2>2, <2>3
<1>5. CASE lines' # lines /\ r.kind # "stream"
  <2>1. lines' = r.reply
    BY <1>2, <1>5
  <2>2. NotLater(lines)'
    BY <1>1, <1>2, <2>1 DEF RequestOK, NotLater
  <2>3. ASSUME clean', lines' # <<>> PROVE Reloads(r.reply)
    BY <1>1, <1>2, <1>5, <2>1, <2>3 DEF RequestOK, AnswerOK
  <2>4. clean' => Piece(lines)'
    BY <1>2, <2>1, <2>3 DEF Reloads, Piece, At
  <2>5. ASSUME clean', lines' # <<>> PROVE lastTimestamp(lines') >= lastTimestamp(lines)
    <3>1. \A k \in DOMAIN lines : lines[k].ts <= lastTimestamp(r.reply)
      BY <2>3, <2>5 DEF Reloads
    <3>2. lastTimestamp(r.reply) \in 0..MaxLog
      BY <1>1, LastTimestamp
    <3>3. \/ lastTimestamp(lines) = NoTime
          \/ \E i \in DOMAIN lines : lines[i].ts = lastTimestamp(lines)
      BY <1>1, LastTimestamp
    <3> QED BY <1>3, <2>1, <3>1, <3>2, <3>3 DEF NoTime
  <2> QED BY <1>1, <2>1, <2>2, <2>4, <2>5 DEF LinesInv
<1>6. CASE lines' # lines /\ r.kind = "stream"
  <2> DEFINE a == appendLines(lines, newLinesSince(lines, r.reply))
  <2>1. lines' = a
    BY <1>2, <1>6
  <2>2. /\ a \in Seq(Entry)
        /\ \A k \in DOMAIN a : \/ \E x \in DOMAIN lines : a[k] = lines[x]
                               \/ \E x \in DOMAIN r.reply : a[k] = r.reply[x]
    BY <1>1, AppendElements
  <2>3. NotLater(a)
    <3> HIDE DEF a
    <3> QED BY <1>1, <2>2 DEF NotLater, LinesInv, RequestOK
  <2>4. ASSUME clean' PROVE Piece(a) /\ lastTimestamp(a) >= lastTimestamp(lines)
    <3>1. clean /\ Marker \notin Range(r.reply)
      BY <1>2, <1>6, <2>4
    <3>2. lines # <<>> /\ Piece(lines)
      BY <1>1, <1>6, <3>1, LastEmpty DEF RequestOK, LinesInv
    <3>3. lines \in Seq(Line)
      BY <1>1, <3>2, PieceLines DEF Piece
    <3>4. CASE r.reply = <<>>
      BY <1>1, <3>2, <3>3, <3>4, EmptyDelivers
    <3>5. CASE r.reply # <<>>
      <4>1. Continues(r.reply)
        BY <1>1, <1>6, <3>1, <3>5 DEF RequestOK, AnswerOK
      <4>2. r.reply \in Seq(Line)
        <5>1. ASSUME NEW k \in DOMAIN r.reply PROVE r.reply[k] \in Line
          <6>1. r.reply[k] \in Entry /\ r.reply[k] # Marker
            BY <1>1, <3>1 DEF Range
          <6> QED BY <6>1 DEF Entry
        <5>2. Len(r.reply) \in Nat /\ DOMAIN r.reply = 1..Len(r.reply)
              /\ r.reply \in [1..Len(r.reply) -> Line]
          BY <1>1, <5>1, LenProperties
        <5> QED BY <5>2, IsASeq
      <4> QED BY <1>1, <3>2, <3>3, <4>1, <4>2, StreamDelivers
    <3> QED BY <3>4, <3>5
  <2> HIDE DEF a
  <2>5. LinesInv'
    BY <1>2, <2>1, <2>3, <2>4 DEF LinesInv, NotLater, Piece, At
  <2> QED BY <2>1, <2>2, <2>4, <2>5
<1> QED BY <1>4, <1>5, <1>6

\* Once its answer is there or lost, no request is under way.
LEMMA DoneKeeps ==
    ASSUME LogsInv, NEW r \in inFlight, Deliver(r) \/ RequestFails(r)
    PROVE  LogsInv'
<1>1. inFlight' = {}
  BY DEF LogsInv, RequestInv, RequestOK, Deliver, RequestFails, Done
<1>2. RequestInv'
  BY <1>1 DEF RequestInv
<1>3. LogInv'
  BY DEF LogsInv, LogInv, Deliver, RequestFails, Done
<1>4. LinesInv' /\ lines' \in Seq(Entry)
  <2>1. CASE Deliver(r)
    BY <2>1, DeliverShows
  <2>2. CASE RequestFails(r)
    BY <2>2 DEF LogsInv, TypeOK, LinesInv, NotLater, Piece, At, RequestFails, Done
  <2> QED BY <2>1, <2>2
<1>5. /\ log' \in Seq(Line) /\ Len(log') <= MaxLog
      /\ {loading', all', streamLogs', watching', logsLoaded', destroyed', up', clean'} \subseteq BOOLEAN
  BY DEF LogsInv, TypeOK, Deliver, RequestFails, Done, user
<1>6. TypeOK'
  BY <1>1, <1>4, <1>5 DEF TypeOK
<1> QED BY <1>2, <1>3, <1>4, <1>6 DEF LogsInv

\* Every step keeps the inductive invariant.
LEMMA InvStep == LogsInv /\ [Next]_vars => LogsInv'
<1> SUFFICES ASSUME LogsInv, [Next]_vars PROVE LogsInv'
  OBVIOUS
<1>1. CASE UNCHANGED vars
  <2>1. {streamLogs, watching, logsLoaded, destroyed, up} \subseteq BOOLEAN
    BY DEF LogsInv, TypeOK
  <2> QED BY <1>1, <2>1, UserKeeps DEF vars
<1>2. CASE Next
  BY <1>2, WriteKeeps, ViewerKeeps, ServeKeeps, DoneKeeps DEF Next
<1> QED BY <1>1, <1>2

\* LogsInv is an invariant.
LEMMA Invariant == Spec => []LogsInv
  BY InvInit, InvStep, PTL DEF Spec

-----------------------------------------------------------------------------
(* Results                                                                  *)

\* Every variable keeps its type: in particular what the viewer shows and what the
\* server answers are sequences of lines of the log and of untimed messages.
THEOREM TypeCorrect == Spec => []TypeOK
  BY Invariant, PTL DEF LogsInv

\* The viewer shows a piece of the log, whatever the container writes, however many
\* lines share a timestamp or a text, and however loads, streaming, outages and the
\* user's actions alternate: newLinesSince drops the lines that are shown already, no
\* other, and appendLines and the tail cut no group in two.
THEOREM LinesArePieceOfLog == Spec => []ShowsPieceOfLog
<1>1. LogsInv => ShowsPieceOfLog
  <2> SUFFICES ASSUME LogsInv, clean, lines # <<>> PROVE ShowsPieceOfLog
    BY DEF ShowsPieceOfLog
  <2>1. PICK i \in DOMAIN log : At(lines, i)
    BY DEF LogsInv, LinesInv, Piece
  <2> DEFINE ll == Len(log)
             ln == Len(lines)
             s == SubSeq(log, i, ll)
  <2>2. /\ log \in Seq(Line) /\ lines \in Seq(Entry) /\ ll \in Nat /\ DOMAIN log = 1..ll
        /\ ln \in Nat /\ DOMAIN lines = 1..ln
    BY DEF LogsInv, TypeOK
  <2>3. i + ln - 1 <= ll /\ \A k \in 1..ln : lines[k] = log[i + k - 1]
    BY <2>1, <2>2 DEF At
  <2>4. i \in Int /\ ll \in Int /\ 1 <= i /\ i <= ll /\ i \in Nat
    BY <2>2
  <2>5. \A k \in i..ll : log[k] \in Line
    BY <2>2, <2>4
  <2>6. /\ s \in Seq(Line) /\ Len(s) = ll - i + 1
        /\ \A k \in 1..(ll - i + 1) : s[k] = log[i + k - 1]
    <3>1. /\ s \in Seq(Line)
          /\ Len(s) = IF i <= ll THEN ll - i + 1 ELSE 0
          /\ \A k \in 1..(ll - i + 1) : s[k] = log[i + k - 1]
      BY <2>4, <2>5, SubSeqProperties
    <3> QED BY <2>4, <3>1
  <2> HIDE DEF s, ll, ln
  <2>7. ln <= ll - i + 1 /\ \A k \in 1..ln : k \in 1..(ll - i + 1)
    BY <2>2, <2>3, <2>4
  <2>8. \A k \in 1..ln : s[k] = lines[k]
    BY <2>3, <2>6, <2>7
  <2>9. SubSeq(lines, 1, ln) = SubSeq(s, 1, ln)
    <3>1. SubSeq(lines, 1, ln) = [k \in 1..ln |-> lines[k]]
      BY <2>2
    <3>2. SubSeq(s, 1, ln) = [k \in 1..ln |-> s[k]]
      BY <2>2
    <3> QED BY <2>8, <3>1, <3>2
  <2>10. IsPrefix(lines, s)
    BY <2>6, <2>7, <2>9 DEF IsPrefix, ln
  <2> QED BY <2>10 DEF ShowsPieceOfLog, s, ll
<1> QED BY <1>1, Invariant, PTL

\* The newest line that is shown is never replaced by an older one: there is at most
\* one request under way, so an answer is not overtaken by a newer one.
THEOREM NewestLineStays == Spec => NeverGoesBack
<1> DEFINE A == \/ lastTimestamp(lines') >= lastTimestamp(lines)
                \/ lines' = <<>>
                \/ ~clean'
<1>1. ASSUME LogsInv, [Next]_vars PROVE [A]_vars
  <2>1. CASE UNCHANGED lines
    <3>1. lastTimestamp(lines) \in 0..MaxLog /\ MaxLog \in Nat
      BY <1>1, LastTimestamp, EntryFacts DEF LogsInv, TypeOK
    <3> QED BY <2>1, <3>1
  <2>2. CASE \E r \in inFlight : Deliver(r)
    BY <1>1, <2>2, DeliverShows
  <2>3. CASE Next /\ ~ (\E r \in inFlight : Deliver(r))
    <3>1. lines' = lines
      BY <2>3 DEF Next, Write, Refresh, ShowAll, StreamTick, Ask, ToggleStreamLogs, ToggleWatching,
         Destroy, Outage, Serve, ServeNothing, Answer, RequestFails
    <3> QED BY <2>1, <3>1
  <2>4. CASE UNCHANGED vars
    BY <2>4
  <2> QED BY <1>1, <2>2, <2>3, <2>4
<1> QED BY <1>1, Invariant, PTL DEF Spec, NeverGoesBack

=============================================================================
