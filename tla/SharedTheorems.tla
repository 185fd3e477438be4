--------------------------- MODULE SharedTheorems ---------------------------
(***************************************************************************)
(* Facts about the operators that several components share, for all their  *)
(* arguments: the event grids of PeriodicClock, and the analysis of        *)
(* dependencies of DependencyPlan.  Kahn's queue orders what it can, and   *)
(* Tarjan's search finds the strong components of any graph.               *)
(***************************************************************************)
EXTENDS PeriodicClock, DependencyPlan, FiniteSetTheorems, SequenceTheorems,
        WellFoundedInduction, TLAPS

----------------------------------------------------------------------------
(***************************************************************************)
(* Event grids, for every period, offset and instant.                      *)
(***************************************************************************)
\* Later indices are later instants, by at least one period.
LEMMA ClockMonotone ==
    ASSUME NEW clock \in Clock, NEW m \in Int, NEW n \in Int, m < n
    PROVE  ClockAt(clock, m) + clock.period <= ClockAt(clock, n)
<1> DEFINE p == clock.period
           o == clock.offset
<1>1. p \in Nat /\ p >= 1 /\ o \in Nat
  BY DEF Clock
<1>2. m + 1 <= n
  OBVIOUS
<1>3. (m + 1) * p <= n * p
  <2> HIDE DEF p
  <2> QED  BY <1>1, <1>2
<1>4. (m + 1) * p = m * p + p
  <2> HIDE DEF p
  <2> QED  BY <1>1
<1> QED
  <2> HIDE DEF p, o
  <2>1. o + m * p + p <= o + n * p
    <3>1. m * p \in Int /\ n * p \in Int /\ (m + 1) * p \in Int
      BY <1>1
    <3> QED  BY <3>1, <1>1, <1>3, <1>4
  <2> QED  BY <2>1 DEF ClockAt, p, o

\* The instants of a grid are integers and one period apart.
LEMMA ClockStep ==
    ASSUME NEW clock \in Clock, NEW n \in Int
    PROVE  /\ ClockAt(clock, n) \in Int
           /\ ClockAt(clock, n + 1) = ClockAt(clock, n) + clock.period
           /\ ClockAt(clock, n - 1) = ClockAt(clock, n) - clock.period
BY DEF ClockAt, Clock

\* index_after returns the first event strictly after t.
LEMMA IndexAfterSpec ==
    ASSUME NEW clock \in Clock, NEW t \in Int
    PROVE  /\ IndexAfter(clock, t) \in Int
           /\ ClockAt(clock, IndexAfter(clock, t) - 1) <= t
           /\ t < ClockAt(clock, IndexAfter(clock, t))
<1> DEFINE p == clock.period
           o == clock.offset
           d == (t - o) \div p
<1>1. p \in Nat /\ p >= 1 /\ o \in Nat
  BY DEF Clock
<1>2. d \in Int /\ p * d <= t - o /\ t - o < p * (d + 1)
  <2> HIDE DEF p, o
  <2> QED  BY <1>1
<1> QED
  BY <1>1, <1>2 DEF IndexAfter, ClockAt

\* index_at_or_after returns the first event at or after t.
LEMMA IndexAtOrAfterSpec ==
    ASSUME NEW clock \in Clock, NEW t \in Int
    PROVE  /\ IndexAtOrAfter(clock, t) \in Int
           /\ ClockAt(clock, IndexAtOrAfter(clock, t) - 1) < t
           /\ t <= ClockAt(clock, IndexAtOrAfter(clock, t))
<1> DEFINE p == clock.period
           o == clock.offset
           d == (o - t) \div p
<1>1. p \in Nat /\ p >= 1 /\ o \in Nat
  BY DEF Clock
<1>2. d \in Int /\ p * d <= o - t /\ o - t < p * (d + 1)
  <2> HIDE DEF p, o
  <2> QED  BY <1>1
<1> QED
  BY <1>1, <1>2 DEF IndexAtOrAfter, ClockAt

\* An index whose event is the first after t is the one index_after returns.
LEMMA IndexAfterUnique ==
    ASSUME NEW clock \in Clock, NEW t \in Int, NEW n \in Int,
           ClockAt(clock, n - 1) <= t, t < ClockAt(clock, n)
    PROVE  IndexAfter(clock, t) = n
<1> DEFINE i == IndexAfter(clock, t)
<1>1. i \in Int /\ ClockAt(clock, i - 1) <= t /\ t < ClockAt(clock, i)
  BY IndexAfterSpec
<1>2. clock.period \in Nat /\ clock.period >= 1
  BY DEF Clock
<1> HIDE DEF i
<1>3. ClockAt(clock, i) \in Int /\ ClockAt(clock, n) \in Int
      /\ ClockAt(clock, i - 1) \in Int /\ ClockAt(clock, n - 1) \in Int
  BY <1>1, ClockStep
<1>4. ~ (i <= n - 1)
  <2> SUFFICES ASSUME i <= n - 1 PROVE FALSE
    OBVIOUS
  <2>1. CASE i = n - 1
    BY <2>1, <1>1, <1>3
  <2>2. CASE i < n - 1
    <3>1. n - 1 \in Int /\ clock \in Clock
      OBVIOUS
    <3>2. ClockAt(clock, i) + clock.period <= ClockAt(clock, n - 1)
      BY <3>1, <2>2, <1>1, ClockMonotone
    <3> QED  BY <3>2, <1>1, <1>2, <1>3
  <2> QED  BY <2>1, <2>2, <1>1
<1>5. ~ (n <= i - 1)
  <2> SUFFICES ASSUME n <= i - 1 PROVE FALSE
    OBVIOUS
  <2>1. CASE n = i - 1
    BY <2>1, <1>1, <1>3
  <2>2. CASE n < i - 1
    <3>1. i - 1 \in Int /\ clock \in Clock
      BY <1>1
    <3>2. ClockAt(clock, n) + clock.period <= ClockAt(clock, i - 1)
      BY <3>1, <2>2, ClockMonotone
    <3> QED  BY <3>2, <1>1, <1>2, <1>3
  <2> QED  BY <2>1, <2>2, <1>1
<1> QED
  BY <1>1, <1>4, <1>5 DEF i

\* The indices whose events lie after t are those from index_after(t) on.
LEMMA IndexAfterBound ==
    ASSUME NEW clock \in Clock, NEW t \in Int, NEW n \in Int,
           t < ClockAt(clock, n)
    PROVE  IndexAfter(clock, t) <= n
<1> DEFINE i == IndexAfter(clock, t)
<1>1. i \in Int /\ ClockAt(clock, i - 1) <= t
  BY IndexAfterSpec
<1>2. clock.period \in Nat /\ clock.period >= 1
  BY DEF Clock
<1> HIDE DEF i
<1>3. ClockAt(clock, n) \in Int /\ ClockAt(clock, i - 1) \in Int
  BY <1>1, ClockStep
<1>4. ~ (n <= i - 1)
  <2> SUFFICES ASSUME n <= i - 1 PROVE FALSE
    OBVIOUS
  <2>1. CASE n = i - 1
    BY <2>1, <1>1, <1>3
  <2>2. CASE n < i - 1
    <3>1. i - 1 \in Int /\ clock \in Clock
      BY <1>1
    <3>2. ClockAt(clock, n) + clock.period <= ClockAt(clock, i - 1)
      BY <3>1, <2>2, ClockMonotone
    <3> QED  BY <3>2, <1>1, <1>2, <1>3
  <2> QED  BY <2>1, <2>2, <1>1
<1> QED
  BY <1>1, <1>4 DEF i

----------------------------------------------------------------------------
\* A set of natural numbers has a least one.
LEMMA LeastNumber ==
    ASSUME NEW T, T \subseteq Nat, T # {}
    PROVE  \E x \in T : \A y \in T : x <= y
<1>1. PICK x \in T : \A y \in T : ~(<<y, x>> \in OpToRel(<, Nat))
  BY WFMin, NatLessThanWellFounded
<1>2. \A y \in T : ~(y < x)
  BY <1>1 DEF OpToRel
<1>3. \A y \in T : x <= y
  BY <1>2
<1> QED
  BY <1>3

\* A set of indices has a last one.
LEMMA LastExists ==
    ASSUME NEW n \in Nat, NEW S \in SUBSET (1 .. n), S # {}
    PROVE  \E k \in S : \A j \in S : j <= k
<1> DEFINE R == {n - k : k \in S}
<1>0. \A k \in S : k \in 1 .. n /\ n - k \in Nat
  OBVIOUS
<1>1. R \subseteq Nat /\ R # {}
  BY <1>0
<1>2. PICK r \in R : \A d \in R : r <= d
  <2> HIDE DEF R
  <2> QED
    BY <1>1, LeastNumber
<1>3. PICK k \in S : r = n - k
  BY <1>2
<1>4. \A j \in S : n - k <= n - j
  BY <1>2, <1>3
<1>5. \A j \in S : j <= k
  BY <1>0, <1>4
<1> QED
  BY <1>5

----------------------------------------------------------------------------
(***************************************************************************)
(* Courses of steps along a sequence.                                      *)
(***************************************************************************)
\* What holds first and after every step holds along a course.
LEMMA Along ==
    ASSUME NEW N \in Nat, NEW P, 0 \in P, \A n \in 0 .. N - 1 : n \in P => n + 1 \in P
    PROVE  \A n \in 0 .. N : n \in P
<1> DEFINE Bad == {n \in 0 .. N : n \notin P}
<1> SUFFICES ASSUME Bad # {} PROVE FALSE
  OBVIOUS
<1>1. PICK n \in Bad : \A k \in Bad : n <= k
  <2>1. Bad \subseteq Nat
    OBVIOUS
  <2> HIDE DEF Bad
  <2> QED
    BY <2>1, LeastNumber
<1>2. n - 1 \in 0 .. N - 1 /\ n - 1 \notin Bad
  BY <1>1
<1> QED
  BY <1>1, <1>2

\* A course of N steps from a state.
IsCourse(f, N, first, step) ==
    f[0] = first /\ \A n \in 1 .. N : f[n] = step[n][f[n - 1]]

\* There is one through every set of states that the steps do not leave.
LEMMA CourseExists ==
    ASSUME NEW N \in Nat, NEW S, NEW first \in S, NEW step \in [1 .. N -> [S -> S]]
    PROVE  \E f \in [0 .. N -> S] : IsCourse(f, N, first, step)
<1> DEFINE Is(f, k) == IsCourse(f, k, first, step)
           P == {k \in 0 .. N : \E f \in [0 .. k -> S] : Is(f, k)}
<1>1. 0 \in P
  <2>1. [i \in 0 .. 0 |-> first] \in [0 .. 0 -> S] /\ Is([i \in 0 .. 0 |-> first], 0)
    BY DEF IsCourse
  <2> HIDE DEF Is
  <2>2. 0 \in 0 .. N
    OBVIOUS
  <2> QED
    BY <2>1, <2>2
<1>2. ASSUME NEW k \in 0 .. N - 1, k \in P
      PROVE  k + 1 \in P
  <2>1. PICK f \in [0 .. k -> S] : Is(f, k)
    BY <1>2
  <2> DEFINE g == [i \in 0 .. k + 1 |-> IF i = k + 1 THEN step[k + 1][f[k]] ELSE f[i]]
  <2>2. step[k + 1] \in [S -> S] /\ f[k] \in S
    OBVIOUS
  <2>3. step[k + 1][f[k]] \in S
    BY <2>2
  <2>4. g \in [0 .. k + 1 -> S]
    BY <2>3
  <2>5. g[0] = first
    BY <2>1 DEF IsCourse
  <2>6. ASSUME NEW n \in 1 .. k + 1
        PROVE  g[n] = step[n][g[n - 1]]
    <3>1. n - 1 \in 0 .. k + 1 /\ n - 1 # k + 1 /\ n \in 0 .. k + 1
      OBVIOUS
    <3>2. g[n - 1] = f[n - 1]
      BY <3>1
    <3>3. CASE n = k + 1
      BY <3>1, <3>2, <3>3
    <3>4. CASE n # k + 1
      <4>1. n \in 1 .. k /\ g[n] = f[n]
        BY <3>1, <3>4
      <4> QED
        BY <4>1, <2>1, <3>2 DEF IsCourse
    <3> QED
      BY <3>3, <3>4
  <2>7. Is(g, k + 1)
    BY <2>5, <2>6 DEF IsCourse
  <2> HIDE DEF g, Is
  <2>8. k + 1 \in 0 .. N
    OBVIOUS
  <2> QED
    BY <2>4, <2>7, <2>8
<1> HIDE DEF P
<1>3. \A k \in 0 .. N - 1 : k \in P => k + 1 \in P
  BY <1>2
<1>4. \A k \in 0 .. N : k \in P
  BY <1>1, <1>3, Along
<1>5. N \in P
  BY <1>4
<1> QED
  <2> HIDE DEF Is
  <2> QED
    BY <1>5 DEF P, Is

----------------------------------------------------------------------------
(***************************************************************************)
(* Numbers in their order, and Kahn's queue.                               *)
(***************************************************************************)
\* How many of a set of numbers are less than one.
Rank(S, n) == Cardinality({m \in S : m < n})

LEMMA RanksDiffer ==
    ASSUME NEW S \in SUBSET Nat, IsFiniteSet(S), NEW a \in S, NEW b \in S, a < b
    PROVE  Rank(S, a) < Rank(S, b) /\ Rank(S, a) \in Nat /\ Rank(S, b) \in Nat
<1> DEFINE A == {m \in S : m < a}
           B == {m \in S : m < b}
<1>0. a \in Nat /\ b \in Nat /\ \A m \in S : m \in Nat
  OBVIOUS
<1>1. A \in SUBSET B /\ a \in B /\ a \notin A /\ B \in SUBSET S
  <2>1. \A m \in S : m < a => m < b
    BY <1>0
  <2>2. ~(a < a)
    BY <1>0
  <2> QED
    BY <2>1, <2>2
<1>2. IsFiniteSet(B) /\ IsFiniteSet(A)
  BY <1>1, FS_Subset
<1>3. Cardinality(A) <= Cardinality(B) /\ Cardinality(A) # Cardinality(B)
  BY <1>1, <1>2, FS_Subset
<1>4. Cardinality(A) \in Nat /\ Cardinality(B) \in Nat
  BY <1>2, FS_CardinalityType
<1> QED
  BY <1>3, <1>4 DEF Rank

LEMMA RankBound ==
    ASSUME NEW S \in SUBSET Nat, IsFiniteSet(S), NEW a \in S
    PROVE  /\ Rank(S, a) \in 0 .. Cardinality(S) - 1
           /\ Cardinality(S) \in Nat
<1> DEFINE A == {m \in S : m < a}
<1>1. A \in SUBSET S /\ a \notin A
  OBVIOUS
<1>2. IsFiniteSet(A) /\ Cardinality(A) <= Cardinality(S) /\ Cardinality(A) # Cardinality(S)
  BY <1>1, FS_Subset
<1>3. Cardinality(A) \in Nat /\ Cardinality(S) \in Nat
  BY <1>2, FS_CardinalityType
<1> QED
  BY <1>2, <1>3 DEF Rank

LEMMA RankTaken ==
    ASSUME NEW S \in SUBSET Nat, IsFiniteSet(S), NEW i \in 1 .. Cardinality(S)
    PROVE  \E n \in S : Rank(S, n) = i - 1
<1> DEFINE N == Cardinality(S)
           f == [n \in S |-> Rank(S, n)]
<1>1. N \in Nat
  BY FS_CardinalityType
<1>2. f \in [S -> 0 .. N - 1]
  BY RankBound
<1>3. \A a, b \in S : f[a] = f[b] => a = b
  <2> SUFFICES ASSUME NEW a \in S, NEW b \in S, f[a] = f[b] PROVE a = b
    OBVIOUS
  <2>1. CASE a < b
    BY <2>1, RanksDiffer
  <2>2. CASE b < a
    BY <2>2, RanksDiffer
  <2> QED
    BY <2>1, <2>2
<1>4. f \in Injection(S, 0 .. N - 1)
  BY <1>2, <1>3 DEF Injection, IsInjective
<1>5. IsFiniteSet(0 .. N - 1) /\ Cardinality(0 .. N - 1) = N
  <2> HIDE DEF N
  <2>1. 0 \in Int /\ N - 1 \in Int /\ N - 1 - 0 + 1 = N /\ (0 > N - 1 => N = 0)
    BY <1>1
  <2> QED
    BY <2>1, FS_Interval
<1>6. f \in Surjection(S, 0 .. N - 1)
  BY <1>4, <1>5, FS_Injection
<1>7. i - 1 \in 0 .. N - 1
  BY <1>1
<1> QED
  BY <1>6, <1>7 DEF Surjection

LEMMA SortedIs ==
    ASSUME NEW S \in SUBSET Nat, IsFiniteSet(S)
    PROVE  /\ Cardinality(S) \in Nat
           /\ Sorted(S) \in [1 .. Cardinality(S) -> S]
           /\ \A i \in 1 .. Cardinality(S) : Rank(S, Sorted(S)[i]) = i - 1
<1> DEFINE N == Cardinality(S)
           f == [i \in 1 .. N |-> CHOOSE n \in S : Rank(S, n) = i - 1]
<1>1. N \in Nat
  BY FS_CardinalityType
<1>2. \A i \in 1 .. N : f[i] \in S /\ Rank(S, f[i]) = i - 1
  BY RankTaken
<1>3. f \in [1 .. N -> S]
  BY <1>2
<1>5. Sorted(S) = f \o <<>>
  BY DEF Sorted, Table, Rank
<1> HIDE DEF N, f
<1>4. f \in Seq(S)
  BY <1>1, <1>3
<1>6. Sorted(S) = f
  BY <1>4, <1>5, ConcatEmptySeq
<1> QED
  BY <1>1, <1>2, <1>3, <1>6 DEF N

LEMMA SortedOnce ==
    ASSUME NEW S \in SUBSET Nat, IsFiniteSet(S)
    PROVE  /\ \A i, j \in 1 .. Cardinality(S) : Sorted(S)[i] = Sorted(S)[j] => i = j
           /\ \A n \in S : \E i \in 1 .. Cardinality(S) : Sorted(S)[i] = n
<1> DEFINE N == Cardinality(S)
           f == Sorted(S)
<1>1. N \in Nat /\ f \in [1 .. N -> S] /\ \A i \in 1 .. N : Rank(S, f[i]) = i - 1
  BY SortedIs
<1>2. \A i, j \in 1 .. N : f[i] = f[j] => i = j
  BY <1>1
<1> HIDE DEF f
<1>3. f \in Injection(1 .. N, S)
  BY <1>1, <1>2 DEF Injection, IsInjective
<1>4. Cardinality(1 .. N) = N
  BY <1>1, FS_Interval
<1>5. f \in Surjection(1 .. N, S)
  BY <1>3, <1>4, FS_Injection
<1> QED
  BY <1>2, <1>5 DEF Surjection, f

LEMMA SortedInterval ==
    ASSUME NEW k \in Nat
    PROVE  Sorted(1 .. k) = [i \in 1 .. k |-> i]
<1> DEFINE S == 1 .. k
<1>1. S \in SUBSET Nat /\ IsFiniteSet(S) /\ Cardinality(S) = k
  BY FS_Interval
<1>2. /\ Sorted(S) \in [1 .. k -> S]
      /\ \A i \in 1 .. k : Rank(S, Sorted(S)[i]) = i - 1
  BY <1>1, SortedIs
<1>3. ASSUME NEW n \in S
      PROVE  Rank(S, n) = n - 1
  <2>1. {m \in S : m < n} = 1 .. (n - 1)
    OBVIOUS
  <2>2. 1 \in Int /\ n - 1 \in Int /\ n - 1 - 1 + 1 = n - 1 /\ (1 > n - 1 => n - 1 = 0)
    OBVIOUS
  <2>3. Cardinality(1 .. (n - 1)) = n - 1
    BY <2>2, FS_Interval
  <2> QED
    BY <2>1, <2>3 DEF Rank
<1> HIDE DEF S
<1>4. \A i \in 1 .. k : Sorted(S)[i] = i
  <2> TAKE i \in 1 .. k
  <2>1. Sorted(S)[i] \in S /\ S = 1 .. k
    BY <1>2 DEF S
  <2>2. Sorted(S)[i] - 1 = i - 1
    BY <1>2, <1>3, <2>1
  <2> QED
    BY <2>1, <2>2
<1> QED
  BY <1>2, <1>4 DEF S

\* A graph of numbered nodes.
IsGraph(deps) == deps \in [1 .. Len(deps) -> SUBSET (1 .. Len(deps))] /\ Len(deps) \in Nat

\* Kahn's queue: what is in the order comes after what it depends on, and
\* what is ready depends on the order only.
IsQueue(deps, q) ==
    /\ q \in [ready : Seq(DOMAIN deps), order : Seq(DOMAIN deps)]
    /\ \A i \in DOMAIN q.order : \A d \in deps[q.order[i]] :
          \E j \in DOMAIN q.order : j < i /\ q.order[j] = d
    /\ \A i \in DOMAIN q.ready : deps[q.ready[i]] \subseteq ToSet(q.order)

\* The numbers of a set in their order are a sequence of them.
LEMMA SortedSequence ==
    ASSUME NEW S \in SUBSET Nat, IsFiniteSet(S)
    PROVE  /\ Sorted(S) \in Seq(S)
           /\ \A i \in DOMAIN Sorted(S) : Sorted(S)[i] \in S
<1>1. Cardinality(S) \in Nat /\ Sorted(S) \in [1 .. Cardinality(S) -> S]
  BY SortedIs
<1> QED
  BY <1>1

\* The nodes of a graph, and any of them, are finitely many numbers.
LEMMA NodesAreNumbers ==
    ASSUME NEW deps, IsGraph(deps), NEW S \in SUBSET (DOMAIN deps)
    PROVE  IsFiniteSet(S) /\ S \in SUBSET Nat /\ DOMAIN deps = 1 .. Len(deps)
<1>1. DOMAIN deps = 1 .. Len(deps) /\ Len(deps) \in Nat
  BY DEF IsGraph
<1>2. IsFiniteSet(1 .. Len(deps))
  BY <1>1, FS_Interval
<1> QED
  BY <1>1, <1>2, FS_Subset

\* A turn keeps the queue: whom the new node frees depends on the order only.
LEMMA QueueTurnKeeps ==
    ASSUME NEW deps, IsGraph(deps), NEW q, IsQueue(deps, q)
    PROVE  IsQueue(deps, QueueTurn(deps, q))
<1> DEFINE N == DOMAIN deps
           n == Head(q.ready)
           order == Append(q.order, n)
           freed == {c \in N : n \in deps[c] /\ deps[c] \subseteq ToSet(order)}
           turned == [ready |-> Tail(q.ready) \o Sorted(freed), order |-> order]
<1>1. CASE q.ready = <<>>
  BY <1>1 DEF QueueTurn
<1>2. CASE q.ready # <<>>
  <2>1. QueueTurn(deps, q) = turned
    BY <1>2 DEF QueueTurn
  <2>2. q.ready \in Seq(N) /\ q.order \in Seq(N)
    BY DEF IsQueue
  <2>3. n \in N /\ n = q.ready[1] /\ 1 \in DOMAIN q.ready /\ Tail(q.ready) \in Seq(N)
    <3> DEFINE ready == q.ready
    <3> HIDE DEF N, ready
    <3>1. ready \in Seq(N) /\ ready # <<>>
      BY <1>2, <2>2 DEF ready
    <3>2. Head(ready) \in N /\ Tail(ready) \in Seq(N)
      BY <3>1, HeadTailProperties
    <3>3. Head(ready) = ready[1] /\ 1 \in DOMAIN ready
      BY <3>1
    <3> QED
      BY <3>2, <3>3 DEF ready
  <2>4. freed \in SUBSET N
    OBVIOUS
  <2>5. Sorted(freed) \in Seq(freed) /\ \A i \in DOMAIN Sorted(freed) : Sorted(freed)[i] \in freed
    <3> HIDE DEF freed, N
    <3>1. IsFiniteSet(freed) /\ freed \in SUBSET Nat
      BY <2>4, NodesAreNumbers DEF N
    <3> QED
      BY <3>1, SortedSequence
  <2>6. order \in Seq(N) /\ Len(order) = Len(q.order) + 1 /\ order[Len(q.order) + 1] = n
        /\ (\A i \in 1 .. Len(q.order) : order[i] = q.order[i])
        /\ DOMAIN order = 1 .. Len(q.order) + 1 /\ DOMAIN q.order = 1 .. Len(q.order)
        /\ Len(q.order) \in Nat
    BY <2>2, <2>3
  <2>7. Sorted(freed) \in Seq(N)
    BY <2>4, <2>5
  <2>8. turned.ready \in Seq(N) /\ turned.order \in Seq(N)
    <3> HIDE DEF freed, N, n, order
    <3> QED
      BY <2>3, <2>6, <2>7
  <2>9. ASSUME NEW d \in deps[n]
        PROVE  \E j \in DOMAIN q.order : q.order[j] = d
    <3>1. deps[n] \subseteq ToSet(q.order)
      BY <2>3 DEF IsQueue
    <3> QED
      BY <3>1 DEF ToSet
  <2>10. ASSUME NEW i \in DOMAIN order, NEW d \in deps[order[i]]
         PROVE  \E j \in DOMAIN order : j < i /\ order[j] = d
    <3> HIDE DEF n, N, order
    <3>1. CASE i = Len(q.order) + 1
      <4>1. PICK j \in DOMAIN q.order : q.order[j] = d
        BY <2>6, <2>9, <3>1
      <4> QED
        BY <4>1, <2>6, <3>1
    <3>2. CASE i # Len(q.order) + 1
      <4>1. i \in DOMAIN q.order /\ order[i] = q.order[i]
        BY <2>6, <3>2
      <4>2. PICK j \in DOMAIN q.order : j < i /\ q.order[j] = d
        BY <4>1 DEF IsQueue
      <4> QED
        BY <4>2, <2>6
    <3> QED
      BY <3>1, <3>2
  <2>11. ToSet(q.order) \subseteq ToSet(order)
    <3> HIDE DEF n, N, order
    <3> QED
      BY <2>6 DEF ToSet
  <2>12. ASSUME NEW i \in DOMAIN turned.ready
         PROVE  deps[turned.ready[i]] \subseteq ToSet(order)
    <3> DEFINE tail == Tail(q.ready)
               new == Sorted(freed)
    <3>1. tail \in Seq(N) /\ new \in Seq(N) /\ turned.ready = tail \o new
      BY <2>3, <2>7
    <3>2. \A j \in DOMAIN tail : tail[j] = q.ready[j + 1] /\ j + 1 \in DOMAIN q.ready
      BY <1>2, <2>2
    <3>3. \A j \in DOMAIN new : deps[new[j]] \subseteq ToSet(order)
      BY <2>5
    <3> HIDE DEF tail, new, freed, N, order, n, turned
    <3>4. CASE i \in DOMAIN tail
      <4>1. turned.ready[i] = tail[i]
        BY <3>1, <3>4
      <4>2. deps[tail[i]] \subseteq ToSet(q.order)
        BY <3>2, <3>4 DEF IsQueue
      <4> QED
        BY <4>1, <4>2, <2>11
    <3>5. CASE i \notin DOMAIN tail
      <4>1. i - Len(tail) \in DOMAIN new /\ turned.ready[i] = new[i - Len(tail)]
        BY <3>1, <3>5
      <4> QED
        BY <4>1, <3>3
    <3> QED
      BY <3>4, <3>5
  <2>13. turned.order = order
    OBVIOUS
  <2> HIDE DEF order, n, N, freed
  <2>14. turned \in [ready : Seq(N), order : Seq(N)]
    BY <2>8
  <2> HIDE DEF turned
  <2> QED
    BY <2>1, <2>10, <2>12, <2>13, <2>14 DEF IsQueue, N
<1> QED
  BY <1>1, <1>2

\* What the turns of the queue are taken from.
KahnFirst(deps) == [ready |-> Sorted({n \in DOMAIN deps : deps[n] = {}}), order |-> <<>>]

\* The queue starts with the nodes that depend on nothing.
LEMMA KahnStarts ==
    ASSUME NEW deps, IsGraph(deps)
    PROVE  IsQueue(deps, KahnFirst(deps))
<1> DEFINE S == {n \in DOMAIN deps : deps[n] = {}}
<1>1. S \in SUBSET (DOMAIN deps) /\ \A n \in S : deps[n] = {}
  OBVIOUS
<1> HIDE DEF S
<1>2. Sorted(S) \in Seq(S) /\ \A i \in DOMAIN Sorted(S) : Sorted(S)[i] \in S
  BY <1>1, NodesAreNumbers, SortedSequence
<1>3. Sorted(S) \in Seq(DOMAIN deps)
  BY <1>1, <1>2
<1>4. KahnFirst(deps) = [ready |-> Sorted(S), order |-> <<>>]
  BY DEF KahnFirst, S
<1> QED
  BY <1>1, <1>2, <1>3, <1>4 DEF IsQueue

IsKahnCourse(f, deps) ==
    f = [i \in 0 .. Cardinality(DOMAIN deps) |->
            IF i = 0 THEN KahnFirst(deps) ELSE QueueTurn(deps, f[i - 1])]

\* There is a course of turns.
LEMMA KahnCourseExists ==
    ASSUME NEW deps, IsGraph(deps)
    PROVE  \E f : IsKahnCourse(f, deps)
<1> DEFINE N == Cardinality(DOMAIN deps)
           S == {q \in [ready : Seq(DOMAIN deps), order : Seq(DOMAIN deps)] : IsQueue(deps, q)}
           first == KahnFirst(deps)
           step == [n \in 1 .. N |-> [q \in S |-> QueueTurn(deps, q)]]
<1>1. N \in Nat
  BY NodesAreNumbers, FS_CardinalityType
<1>2. first \in S
  BY KahnStarts DEF IsQueue
<1>3. \A q \in S : QueueTurn(deps, q) \in S
  BY QueueTurnKeeps DEF IsQueue
<1>4. step \in [1 .. N -> [S -> S]] /\ \A n \in 1 .. N, q \in S : step[n][q] = QueueTurn(deps, q)
  <2> HIDE DEF S
  <2> QED
    BY <1>3
<1> HIDE DEF S, step, first, N
<1>5. PICK f \in [0 .. N -> S] : IsCourse(f, N, first, step)
  BY <1>1, <1>2, <1>4, CourseExists
<1>6. ASSUME NEW n \in 0 .. N
      PROVE  f[n] = IF n = 0 THEN first ELSE QueueTurn(deps, f[n - 1])
  <2>1. CASE n = 0
    BY <1>5, <2>1 DEF IsCourse
  <2>2. CASE n # 0
    <3>1. n \in 1 .. N /\ n - 1 \in 0 .. N
      BY <1>1, <2>2
    <3>2. f[n] = step[n][f[n - 1]] /\ f[n - 1] \in S
      BY <1>5, <3>1 DEF IsCourse
    <3> QED
      BY <1>4, <2>2, <3>1, <3>2
  <2> QED
    BY <2>1, <2>2
<1>7. f = [n \in 0 .. N |-> IF n = 0 THEN first ELSE QueueTurn(deps, f[n - 1])]
  BY <1>5, <1>6
<1> QED
  BY <1>7 DEF IsKahnCourse, first, N

\* In the order of a graph every node comes after those it depends on.
LEMMA KahnOrder ==
    ASSUME NEW deps, IsGraph(deps)
    PROVE  LET order == TopologicalOrder(deps)
           IN  /\ order \in Seq(DOMAIN deps)
               /\ \A i \in DOMAIN order : \A d \in deps[order[i]] :
                     \E j \in DOMAIN order : j < i /\ order[j] = d
<1> DEFINE N == Cardinality(DOMAIN deps)
           first == KahnFirst(deps)
           f == CHOOSE g : IsKahnCourse(g, deps)
<1>1. N \in Nat
  BY NodesAreNumbers, FS_CardinalityType
<1>2. IsKahnCourse(f, deps)
  BY KahnCourseExists
<1>3. TopologicalOrder(deps) = f[N].order
  BY DEF TopologicalOrder, IsKahnCourse, KahnFirst
<1> DEFINE P == {n \in 0 .. N : IsQueue(deps, f[n])}
<1> HIDE DEF f
<1>4. \A n \in 0 .. N : f[n] = IF n = 0 THEN first ELSE QueueTurn(deps, f[n - 1])
  BY <1>2 DEF IsKahnCourse
<1>5. 0 \in P
  BY <1>1, <1>4, KahnStarts
<1>6. ASSUME NEW n \in 0 .. N - 1, n \in P
      PROVE  n + 1 \in P
  <2>1. n + 1 \in 0 .. N /\ n + 1 # 0 /\ n + 1 - 1 = n
    BY <1>1
  <2>2. f[n + 1] = QueueTurn(deps, f[n])
    BY <1>4, <2>1
  <2> QED
    BY <1>6, <2>1, <2>2, QueueTurnKeeps
<1> HIDE DEF N
<1>7. N \in 0 .. N
  BY <1>1
<1>8. N \in P
  <2> HIDE DEF P
  <2> QED
    BY <1>1, <1>5, <1>6, <1>7, Along
<1>9. IsQueue(deps, f[N])
  BY <1>8
<1> QED
  BY <1>3, <1>9 DEF IsQueue

----------------------------------------------------------------------------
(***************************************************************************)
(* Tarjan's search.  What a node leads to is what every set of nodes with  *)
(* all their followers has if it has the node; nodes that lead to each     *)
(* other are of one kind.                                                  *)
(***************************************************************************)
Onward(deps, V, v) == Followers(deps, v) \cap V
ShutIn(deps, V, S) == \A v \in S : Onward(deps, V, v) \subseteq S
Leads(deps, V, a, b) == \A S \in SUBSET V : ShutIn(deps, V, S) /\ a \in S => b \in S
Kin(deps, V, a) == {b \in V : \A S \in SUBSET V : ShutIn(deps, V, S) => (a \in S <=> b \in S)}
Kinds(deps, V) == {Kin(deps, V, a) : a \in V}
Numberings(V) == UNION {[W -> Nat] : W \in SUBSET V}
FramesOf(V) == [node : V, edges : Seq(V)]
Searches(V) ==
    [selected : {V}, indices : Numberings(V), low : Numberings(V), stack : Seq(V),
     frames : Seq(FramesOf(V)), components : SUBSET (SUBSET V)]

On(s) == ToSet(s.stack)
Released(s) == UNION s.components
NodeOf(s, i) == s.frames[i].node
Framing(s, v) == \E i \in DOMAIN s.frames : NodeOf(s, i) = v

\* Every node reached is on the stack or done, and numbered as it was reached.
Numbered(s) ==
    /\ DOMAIN s.low = DOMAIN s.indices
    /\ DOMAIN s.indices = On(s) \cup Released(s)
    /\ On(s) \cap Released(s) = {}
    /\ \A v \in DOMAIN s.indices : s.indices[v] < Cardinality(DOMAIN s.indices)
    /\ \A i, j \in DOMAIN s.stack : i < j => s.indices[s.stack[i]] < s.indices[s.stack[j]]

\* The frames are of nodes of the stack, the outermost is of its first.
Framed(deps, V, s) ==
    /\ \A i \in DOMAIN s.frames : NodeOf(s, i) \in On(s)
    /\ \A i, j \in DOMAIN s.frames : i < j => s.indices[NodeOf(s, i)] < s.indices[NodeOf(s, j)]
    /\ s.stack # <<>> => s.frames # <<>> /\ NodeOf(s, 1) = s.stack[1]
    /\ \A i \in DOMAIN s.frames :
          /\ ToSet(s.frames[i].edges) \subseteq Onward(deps, V, NodeOf(s, i))
          /\ \A j, k \in DOMAIN s.frames[i].edges :
                s.frames[i].edges[j] = s.frames[i].edges[k] => j = k

\* low is the number of a node of the stack that the node leads to; it is
\* smaller than its own when the node has been left.
Lowered(deps, V, s) ==
    \A v \in On(s) :
        /\ s.low[v] <= s.indices[v]
        /\ \E w \in On(s) : s.indices[w] = s.low[v] /\ Leads(deps, V, v, w)
        /\ s.low[v] = s.indices[v] => Framing(s, v)

\* The node of a frame leads to all above it on the stack,
Grown(deps, V, s) ==
    \A i \in DOMAIN s.frames : \A v \in On(s) :
        s.indices[NodeOf(s, i)] <= s.indices[v] => Leads(deps, V, NodeOf(s, i), v)

\* and knows the low of those that were left within it.
Learned(s) ==
    \A i \in DOMAIN s.frames : \A v \in On(s) :
        /\ ~Framing(s, v)
        /\ s.indices[NodeOf(s, i)] < s.indices[v]
        /\ \A j \in DOMAIN s.frames : i < j => s.indices[v] < s.indices[NodeOf(s, j)]
        => s.low[NodeOf(s, i)] <= s.low[v]

\* An edge followed has been taken account of, apart from the present one.
Awaits(s, v, w) ==
    \E i \in DOMAIN s.frames :
        /\ NodeOf(s, i) = v
        /\ \/ w \in ToSet(s.frames[i].edges)
           \/ i < Len(s.frames) /\ NodeOf(s, i + 1) = w

Accounts(s, v, w) == w \in Released(s) \/ (w \in On(s) /\ s.low[v] <= s.indices[w])
Traced(deps, V, s, apart) ==
    \A v \in On(s) : \A w \in Onward(deps, V, v) :
        <<v, w>> \in apart \/ Accounts(s, v, w) \/ Awaits(s, v, w)

\* What is done is closed and made of whole kinds.
Emitted(deps, V, s) ==
    /\ ShutIn(deps, V, Released(s))
    /\ s.components \subseteq Kinds(deps, V)

SearchInv(deps, V, s, apart) ==
    /\ s \in Searches(V)
    /\ Numbered(s) /\ Framed(deps, V, s) /\ Lowered(deps, V, s) /\ Grown(deps, V, s)
    /\ Learned(s) /\ Traced(deps, V, s, apart) /\ Emitted(deps, V, s)

\* What is known of the numbers of nodes.
LEMMA NumbersOf ==
    ASSUME NEW deps, NEW V, NEW s, NEW apart, SearchInv(deps, V, s, apart)
    PROVE  /\ DOMAIN s.indices \subseteq V
           /\ \A v \in DOMAIN s.indices : s.indices[v] \in Nat /\ s.low[v] \in Nat
           /\ On(s) \subseteq DOMAIN s.indices
           /\ s.indices \in [DOMAIN s.indices -> Nat] /\ s.low \in [DOMAIN s.indices -> Nat]
           /\ \A v, w \in On(s) : s.indices[v] = s.indices[w] => v = w
           /\ \A i \in DOMAIN s.stack : s.stack[i] \in On(s)
           /\ \A v \in On(s) : \E i \in DOMAIN s.stack : s.stack[i] = v
           /\ DOMAIN s.stack = 1 .. Len(s.stack) /\ Len(s.stack) \in Nat
           /\ DOMAIN s.frames = 1 .. Len(s.frames) /\ Len(s.frames) \in Nat
           /\ \A i \in DOMAIN s.frames : s.frames[i] \in FramesOf(V) /\ NodeOf(s, i) \in On(s)
           /\ s.frames = <<>> => s.stack = <<>>
<1>1. s.indices \in Numberings(V) /\ s.low \in Numberings(V) /\ s.stack \in Seq(V) /\ s.frames \in Seq(FramesOf(V))
  BY DEF SearchInv, Searches
<1>2. PICK W \in SUBSET V : s.indices \in [W -> Nat]
  BY <1>1 DEF Numberings
<1>3. PICK X \in SUBSET V : s.low \in [X -> Nat]
  BY <1>1 DEF Numberings
<1>4. DOMAIN s.indices = W /\ X = W /\ On(s) \subseteq W
  BY <1>2, <1>3 DEF SearchInv, Numbered
<1>5. /\ DOMAIN s.stack = 1 .. Len(s.stack) /\ Len(s.stack) \in Nat
      /\ DOMAIN s.frames = 1 .. Len(s.frames) /\ Len(s.frames) \in Nat
      /\ \A i \in DOMAIN s.frames : s.frames[i] \in FramesOf(V)
  BY <1>1
<1>6. /\ \A i \in DOMAIN s.stack : s.stack[i] \in On(s)
      /\ \A v \in On(s) : \E i \in DOMAIN s.stack : s.stack[i] = v
  BY DEF On, ToSet
<1>7. \A i \in DOMAIN s.frames : NodeOf(s, i) \in On(s)
  BY DEF SearchInv, Framed
<1>8. s.frames = <<>> => s.stack = <<>>
  BY DEF SearchInv, Framed
<1>9. \A v \in W : s.indices[v] \in Nat /\ s.low[v] \in Nat
  BY <1>2, <1>3, <1>4
<1>10. ASSUME NEW v \in On(s), NEW w \in On(s), s.indices[v] = s.indices[w]
       PROVE  v = w
  <2>1. PICK i \in DOMAIN s.stack : s.stack[i] = v
    BY <1>6
  <2>2. PICK j \in DOMAIN s.stack : s.stack[j] = w
    BY <1>6
  <2>3. i \in Nat /\ j \in Nat
    BY <1>5
  <2>4. \A a, b \in DOMAIN s.stack : a < b => s.indices[s.stack[a]] < s.indices[s.stack[b]]
    BY DEF SearchInv, Numbered
  <2>5. s.indices[v] \in Nat
    BY <1>4, <1>9
  <2>6. ~(i < j) /\ ~(j < i)
    BY <2>1, <2>2, <2>4, <2>5, <1>10
  <2> QED
    BY <2>1, <2>2, <2>3, <2>6
<1> QED
  BY <1>2, <1>3, <1>4, <1>5, <1>6, <1>7, <1>8, <1>9, <1>10

LEMMA LeadsOn ==
    ASSUME NEW deps, NEW V, NEW a, NEW b, NEW c
    PROVE  /\ Leads(deps, V, a, a)
           /\ Leads(deps, V, a, b) /\ Leads(deps, V, b, c) => Leads(deps, V, a, c)
           /\ a \in V /\ b \in Onward(deps, V, a) => Leads(deps, V, a, b)
           /\ b \in V => (b \in Kin(deps, V, a) <=> Leads(deps, V, a, b) /\ Leads(deps, V, b, a))
BY DEF Leads, ShutIn, Kin

\* The innermost frame passes its next edge.
EdgeTaken(s) == [s EXCEPT !.frames[Len(s.frames)].edges = Tail(@)]

LEMMA TailOnce ==
    ASSUME NEW V, NEW e \in Seq(V), e # <<>>, \A j, k \in DOMAIN e : e[j] = e[k] => j = k
    PROVE  /\ Tail(e) \in Seq(V) /\ Head(e) \in ToSet(e)
           /\ ToSet(Tail(e)) = ToSet(e) \ {Head(e)}
           /\ \A j, k \in DOMAIN Tail(e) : Tail(e)[j] = Tail(e)[k] => j = k
<1>1. /\ Tail(e) \in Seq(V) /\ Len(Tail(e)) = Len(e) - 1 /\ Len(e) \in Nat /\ Len(e) >= 1
      /\ DOMAIN e = 1 .. Len(e) /\ DOMAIN Tail(e) = 1 .. (Len(e) - 1)
      /\ \A i \in 1 .. (Len(e) - 1) : Tail(e)[i] = e[i + 1]
      /\ Head(e) = e[1]
  OBVIOUS
<1>2. \A i \in 1 .. (Len(e) - 1) : i + 1 \in DOMAIN e /\ i + 1 # 1
  BY <1>1
<1>3. 1 \in DOMAIN e
  BY <1>1
<1> DEFINE t == Tail(e)
<1> HIDE DEF t
<1>4. ASSUME NEW x \in ToSet(e), x # Head(e)
      PROVE  x \in ToSet(t)
  <2>1. PICK j \in DOMAIN e : e[j] = x
    BY DEF ToSet
  <2>2. j # 1
    BY <1>1, <1>4, <2>1
  <2>3. j - 1 \in 1 .. (Len(e) - 1) /\ (j - 1) + 1 = j
    BY <1>1, <2>2
  <2>4. t[j - 1] = x
    BY <1>1, <2>1, <2>3 DEF t
  <2> QED
    BY <1>1, <2>3, <2>4 DEF ToSet, t
<1>5. ASSUME NEW x \in ToSet(t)
      PROVE  x \in ToSet(e) \ {Head(e)}
  <2>1. PICK j \in 1 .. (Len(e) - 1) : t[j] = x
    BY <1>1 DEF ToSet, t
  <2>2. e[j + 1] = x /\ j + 1 \in DOMAIN e /\ j + 1 # 1
    BY <1>1, <1>2, <2>1 DEF t
  <2>3. e[j + 1] # e[1]
    BY <1>3, <2>2
  <2> QED
    BY <1>1, <2>2, <2>3 DEF ToSet
<1>6. ASSUME NEW j \in DOMAIN t, NEW k \in DOMAIN t, t[j] = t[k]
      PROVE  j = k
  <2>1. j \in 1 .. (Len(e) - 1) /\ k \in 1 .. (Len(e) - 1)
    BY <1>1 DEF t
  <2>2. e[j + 1] = e[k + 1] /\ j + 1 \in DOMAIN e /\ k + 1 \in DOMAIN e
    BY <1>1, <1>2, <1>6, <2>1 DEF t
  <2>3. j + 1 = k + 1
    BY <2>2
  <2> QED
    BY <2>1, <2>3
<1>7. Head(e) \in ToSet(e)
  BY <1>1, <1>3 DEF ToSet
<1> QED
  BY <1>1, <1>4, <1>5, <1>6, <1>7 DEF t

\* What passing an edge changes.
LEMMA EdgeTakenIs ==
    ASSUME NEW deps, NEW V, NEW s, SearchInv(deps, V, s, {}),
           s.frames # <<>>, Last(s.frames).edges # <<>>
    PROVE  LET m == EdgeTaken(s)
               L == Len(s.frames)
           IN  /\ m \in Searches(V)
               /\ m.indices = s.indices /\ m.low = s.low /\ m.stack = s.stack
               /\ m.components = s.components /\ m.selected = s.selected
               /\ L \in DOMAIN s.frames /\ Last(s.frames) = s.frames[L] /\ Len(m.frames) = L
               /\ DOMAIN m.frames = DOMAIN s.frames /\ m.frames # <<>>
               /\ \A i \in DOMAIN s.frames : NodeOf(m, i) = NodeOf(s, i)
               /\ \A i \in DOMAIN s.frames : i # L => m.frames[i] = s.frames[i]
               /\ m.frames[L].edges = Tail(s.frames[L].edges)
               /\ s.frames[L].edges \in Seq(V)
<1> DEFINE L == Len(s.frames)
           moved == [s.frames[L] EXCEPT !.edges = Tail(@)]
           frames == [s.frames EXCEPT ![L] = moved]
<1>1. /\ s \in Searches(V) /\ s.frames \in Seq(FramesOf(V)) /\ L \in Nat
      /\ DOMAIN s.frames = 1 .. L
      /\ \A i \in DOMAIN s.frames : s.frames[i] \in FramesOf(V)
  BY NumbersOf DEF SearchInv, Searches
<1>2. L \in DOMAIN s.frames /\ Last(s.frames) = s.frames[L] /\ L >= 1
  BY <1>1 DEF Last
<1>3. s.frames[L] \in FramesOf(V) /\ s.frames[L].edges \in Seq(V) /\ s.frames[L].edges # <<>>
  BY <1>1, <1>2 DEF FramesOf
<1>4. Tail(s.frames[L].edges) \in Seq(V)
  BY <1>3
<1>5. /\ moved \in FramesOf(V) /\ moved.edges = Tail(s.frames[L].edges)
      /\ moved.node = s.frames[L].node
  BY <1>3, <1>4 DEF FramesOf
<1> HIDE DEF moved
<1>6. /\ DOMAIN frames = 1 .. L
      /\ \A i \in 1 .. L : frames[i] = IF i = L THEN moved ELSE s.frames[i]
  BY <1>1
<1>7. frames \in Seq(FramesOf(V)) /\ Len(frames) = L
  <2>1. frames \in [1 .. L -> FramesOf(V)]
    BY <1>1, <1>5
  <2> HIDE DEF frames
  <2> QED
    BY <1>1, <2>1
<1>8. EdgeTaken(s) = [s EXCEPT !.frames = frames]
  BY DEF EdgeTaken, moved
<1> HIDE DEF frames
<1>9. /\ EdgeTaken(s) \in Searches(V) /\ EdgeTaken(s).frames = frames
      /\ EdgeTaken(s).indices = s.indices /\ EdgeTaken(s).low = s.low /\ EdgeTaken(s).stack = s.stack
      /\ EdgeTaken(s).components = s.components /\ EdgeTaken(s).selected = s.selected
  BY <1>1, <1>7, <1>8 DEF Searches
<1> DEFINE m == EdgeTaken(s)
<1> HIDE DEF m
<1>10. \A i \in DOMAIN s.frames : NodeOf(m, i) = NodeOf(s, i)
  BY <1>1, <1>5, <1>6, <1>9 DEF NodeOf, m
<1>11. frames # <<>>
  BY <1>2, <1>7
<1> HIDE DEF L
<1>12. m.frames = frames
  BY <1>9 DEF m
<1>13. \A i \in DOMAIN s.frames : i # L => m.frames[i] = s.frames[i]
  BY <1>1, <1>6, <1>12
<1>14. m.frames[L].edges = Tail(s.frames[L].edges)
  BY <1>1, <1>2, <1>5, <1>6, <1>12
<1>15. DOMAIN m.frames = DOMAIN s.frames /\ Len(m.frames) = L /\ m.frames # <<>>
  BY <1>1, <1>6, <1>7, <1>11, <1>12
<1> QED
  BY <1>2, <1>3, <1>9, <1>10, <1>13, <1>14, <1>15 DEF m, L

LEMMA EdgeTakenKeeps ==
    ASSUME NEW deps, NEW V, NEW s, SearchInv(deps, V, s, {}),
           s.frames # <<>>, Last(s.frames).edges # <<>>
    PROVE  LET frame == Last(s.frames)
           IN  /\ Head(frame.edges) \in Onward(deps, V, frame.node)
               /\ SearchInv(deps, V, EdgeTaken(s), {<<frame.node, Head(frame.edges)>>})
<1> DEFINE m == EdgeTaken(s)
           L == Len(s.frames)
           f == NodeOf(s, L)
           w == Head(s.frames[L].edges)
<1>1. /\ m \in Searches(V)
      /\ m.indices = s.indices /\ m.low = s.low /\ m.stack = s.stack
      /\ m.components = s.components
      /\ L \in DOMAIN s.frames /\ Last(s.frames) = s.frames[L] /\ Len(m.frames) = L
      /\ DOMAIN m.frames = DOMAIN s.frames /\ m.frames # <<>>
      /\ \A i \in DOMAIN s.frames : NodeOf(m, i) = NodeOf(s, i)
      /\ \A i \in DOMAIN s.frames : i # L => m.frames[i] = s.frames[i]
      /\ m.frames[L].edges = Tail(s.frames[L].edges)
      /\ s.frames[L].edges \in Seq(V) /\ s.frames[L].edges # <<>>
  BY EdgeTakenIs
<1>2. L \in Nat /\ DOMAIN s.frames = 1 .. L
  BY NumbersOf
<1> HIDE DEF m
<1>3. On(m) = On(s) /\ Released(m) = Released(s) /\ \A v : Framing(m, v) <=> Framing(s, v)
  BY <1>1 DEF On, Released, Framing
<1>4. \A i \in DOMAIN s.frames :
          /\ ToSet(s.frames[i].edges) \subseteq Onward(deps, V, NodeOf(s, i))
          /\ \A j, k \in DOMAIN s.frames[i].edges :
                s.frames[i].edges[j] = s.frames[i].edges[k] => j = k
  BY DEF SearchInv, Framed
<1>5. /\ w \in ToSet(s.frames[L].edges)
      /\ ToSet(m.frames[L].edges) = ToSet(s.frames[L].edges) \ {w}
      /\ \A j, k \in DOMAIN m.frames[L].edges : m.frames[L].edges[j] = m.frames[L].edges[k] => j = k
  <2> DEFINE e == s.frames[L].edges
  <2>1. e \in Seq(V) /\ e # <<>> /\ \A j, k \in DOMAIN e : e[j] = e[k] => j = k
    BY <1>1, <1>4
  <2> HIDE DEF e
  <2>2. /\ Head(e) \in ToSet(e) /\ ToSet(Tail(e)) = ToSet(e) \ {Head(e)}
        /\ \A j, k \in DOMAIN Tail(e) : Tail(e)[j] = Tail(e)[k] => j = k
    BY <2>1, TailOnce
  <2>3. m.frames[L].edges = Tail(e)
    BY <1>1 DEF e
  <2> QED
    BY <2>2, <2>3 DEF e
<1> HIDE DEF w, L
<1>6. Numbered(m)
  BY <1>1, <1>3 DEF SearchInv, Numbered
<1>7. Framed(deps, V, m)
  <2>1. \A i \in DOMAIN m.frames :
          /\ ToSet(m.frames[i].edges) \subseteq Onward(deps, V, NodeOf(m, i))
          /\ \A j, k \in DOMAIN m.frames[i].edges :
                m.frames[i].edges[j] = m.frames[i].edges[k] => j = k
    <3> TAKE i \in DOMAIN m.frames
    <3>1. CASE i = L
      BY <1>1, <1>4, <1>5, <3>1
    <3>2. CASE i # L
      BY <1>1, <1>4, <3>2
    <3> QED
      BY <3>1, <3>2
  <2>2. m.stack # <<>> => m.frames # <<>> /\ NodeOf(m, 1) = m.stack[1]
    <3>1. 1 \in DOMAIN s.frames
      BY <1>1, <1>2
    <3> QED
      BY <1>1, <3>1 DEF SearchInv, Framed
  <2>3. \A i, j \in DOMAIN m.frames : i < j => m.indices[NodeOf(m, i)] < m.indices[NodeOf(m, j)]
    BY <1>1 DEF SearchInv, Framed
  <2>4. \A i \in DOMAIN m.frames : NodeOf(m, i) \in On(m)
    BY <1>1, <1>3 DEF SearchInv, Framed
  <2> QED
    BY <2>1, <2>2, <2>3, <2>4 DEF Framed
<1>8. Lowered(deps, V, m)
  BY <1>1, <1>3 DEF SearchInv, Lowered
<1>9. Grown(deps, V, m)
  BY <1>1, <1>3 DEF SearchInv, Grown
<1>10. Learned(m)
  BY <1>1, <1>3 DEF SearchInv, Learned
<1>11. Emitted(deps, V, m)
  BY <1>1, <1>3 DEF SearchInv, Emitted
<1>12. Traced(deps, V, m, {<<f, w>>})
  <2> SUFFICES ASSUME NEW v \in On(m), NEW x \in Onward(deps, V, v), ~(v = f /\ x = w)
               PROVE  Accounts(m, v, x) \/ Awaits(m, v, x)
    BY DEF Traced
  <2>1. Accounts(s, v, x) \/ Awaits(s, v, x)
    BY <1>3 DEF SearchInv, Traced
  <2>2. CASE Accounts(s, v, x)
    BY <1>1, <1>3, <2>2 DEF Accounts
  <2>3. CASE Awaits(s, v, x)
    <3>1. PICK i \in DOMAIN s.frames :
              /\ NodeOf(s, i) = v
              /\ x \in ToSet(s.frames[i].edges) \/ (i < Len(s.frames) /\ NodeOf(s, i + 1) = x)
      BY <2>3 DEF Awaits
    <3>2. CASE x \in ToSet(s.frames[i].edges)
      <4>1. x \in ToSet(m.frames[i].edges)
        BY <1>1, <1>5, <3>1, <3>2
      <4> QED
        BY <1>1, <3>1, <4>1 DEF Awaits
    <3>3. CASE i < Len(s.frames) /\ NodeOf(s, i + 1) = x
      <4>1. i + 1 \in DOMAIN s.frames
        BY <1>2, <3>3 DEF L
      <4>2. i < Len(m.frames) /\ NodeOf(m, i + 1) = x /\ NodeOf(m, i) = v
        BY <1>1, <3>1, <3>3, <4>1 DEF L
      <4> QED
        BY <1>1, <4>2 DEF Awaits
    <3> QED
      BY <3>1, <3>2, <3>3
  <2> QED
    BY <2>1, <2>2, <2>3
<1>13. w \in Onward(deps, V, f)
  BY <1>1, <1>4, <1>5
<1> QED
  BY <1>1, <1>6, <1>7, <1>8, <1>9, <1>10, <1>11, <1>12, <1>13 DEF SearchInv, NodeOf, m, w, L

\* What visiting a node changes.
LEMMA VisitIs ==
    ASSUME NEW deps, IsGraph(deps), NEW V \in SUBSET (DOMAIN deps), NEW s, NEW apart,
           SearchInv(deps, V, s, apart), NEW n \in V \ DOMAIN s.indices
    PROVE  LET t == Visit(deps, s, n)
               k == Cardinality(DOMAIN s.indices)
               L == Len(s.frames)
           IN  /\ t \in Searches(V) /\ t.components = s.components
               /\ k \in Nat /\ Cardinality(DOMAIN t.indices) = k + 1
               /\ DOMAIN t.indices = DOMAIN s.indices \cup {n} /\ DOMAIN t.low = DOMAIN t.indices
               /\ t.indices[n] = k /\ t.low[n] = k
               /\ \A v \in DOMAIN s.indices : t.indices[v] = s.indices[v] /\ t.low[v] = s.low[v]
               /\ t.stack = Append(s.stack, n)
               /\ Len(t.frames) = L + 1 /\ DOMAIN t.frames = 1 .. L + 1
               /\ \A i \in 1 .. L : t.frames[i] = s.frames[i] /\ NodeOf(t, i) = NodeOf(s, i)
               /\ NodeOf(t, L + 1) = n
               /\ ToSet(t.frames[L + 1].edges) = Onward(deps, V, n)
               /\ \A i, j \in DOMAIN t.frames[L + 1].edges :
                     t.frames[L + 1].edges[i] = t.frames[L + 1].edges[j] => i = j
<1> DEFINE k == Cardinality(DOMAIN s.indices)
           L == Len(s.frames)
           out == Onward(deps, V, n)
           frame == [node |-> n, edges |-> Sorted(out)]
           frames == Append(s.frames, frame)
           indices == WithValue(s.indices, n, k)
           low == WithValue(s.low, n, k)
           t == Visit(deps, s, n)
<1>1. /\ s \in Searches(V) /\ s.frames \in Seq(FramesOf(V)) /\ L \in Nat /\ s.stack \in Seq(V)
      /\ DOMAIN s.frames = 1 .. L /\ s.selected = V
  BY NumbersOf DEF SearchInv, Searches
<1>2. /\ DOMAIN s.indices \subseteq V /\ DOMAIN s.low = DOMAIN s.indices
      /\ s.indices \in [DOMAIN s.indices -> Nat] /\ s.low \in [DOMAIN s.indices -> Nat]
  BY NumbersOf
<1>3. IsFiniteSet(DOMAIN s.indices) /\ k \in Nat /\ Cardinality(DOMAIN s.indices \cup {n}) = k + 1
  <2>1. DOMAIN s.indices \in SUBSET (DOMAIN deps)
    BY <1>2
  <2>2. IsFiniteSet(DOMAIN s.indices)
    BY <2>1, NodesAreNumbers
  <2> QED
    BY <2>2, FS_CardinalityType, FS_AddElement
<1>4. out \in SUBSET V /\ IsFiniteSet(out) /\ out \in SUBSET Nat
  <2>1. out \in SUBSET V
    BY DEF Onward
  <2>2. out \in SUBSET (DOMAIN deps)
    BY <2>1
  <2> HIDE DEF out
  <2> QED
    BY <2>1, <2>2, NodesAreNumbers
<1> HIDE DEF out
<1>5. /\ Sorted(out) \in Seq(V) /\ ToSet(Sorted(out)) = out
      /\ \A i, j \in DOMAIN Sorted(out) : Sorted(out)[i] = Sorted(out)[j] => i = j
  <2>1. Cardinality(out) \in Nat /\ Sorted(out) \in [1 .. Cardinality(out) -> out]
    BY <1>4, SortedIs
  <2>2. /\ \A i, j \in 1 .. Cardinality(out) : Sorted(out)[i] = Sorted(out)[j] => i = j
        /\ \A x \in out : \E i \in 1 .. Cardinality(out) : Sorted(out)[i] = x
    BY <1>4, SortedOnce
  <2>3. DOMAIN Sorted(out) = 1 .. Cardinality(out) /\ \A i \in 1 .. Cardinality(out) : Sorted(out)[i] \in out
    BY <2>1
  <2>4. Sorted(out) \in Seq(V)
    <3> DEFINE f == Sorted(out)
               N == Cardinality(out)
    <3>1. N \in Nat /\ f \in [1 .. N -> V]
      BY <2>1, <1>4
    <3> HIDE DEF f, N
    <3> QED
      BY <3>1 DEF f
  <2>5. ToSet(Sorted(out)) = out
    BY <2>2, <2>3 DEF ToSet
  <2> QED
    BY <2>2, <2>3, <2>4, <2>5
<1>6. frame \in FramesOf(V) /\ frame.node = n /\ frame.edges = Sorted(out)
  BY <1>5 DEF FramesOf
<1> HIDE DEF frame
<1>7. /\ frames \in Seq(FramesOf(V)) /\ Len(frames) = L + 1 /\ DOMAIN frames = 1 .. L + 1
      /\ \A i \in 1 .. L : frames[i] = s.frames[i]
      /\ frames[L + 1] = frame
  BY <1>1, <1>6
<1> HIDE DEF frames
<1>8. /\ indices \in [DOMAIN s.indices \cup {n} -> Nat] /\ indices[n] = k
      /\ \A v \in DOMAIN s.indices : indices[v] = s.indices[v]
  BY <1>2, <1>3 DEF WithValue
<1>9. /\ low \in [DOMAIN s.indices \cup {n} -> Nat] /\ low[n] = k
      /\ \A v \in DOMAIN s.indices : low[v] = s.low[v]
  BY <1>2, <1>3 DEF WithValue
<1> HIDE DEF indices, low
<1>10. indices \in Numberings(V) /\ low \in Numberings(V)
  BY <1>2, <1>8, <1>9 DEF Numberings
<1>11. Append(s.stack, n) \in Seq(V)
  BY <1>1
<1>12. t = [s EXCEPT !.indices = indices, !.low = low, !.stack = Append(@, n), !.frames = frames]
  BY <1>1 DEF Visit, indices, low, frames, frame, out, Onward
<1> DEFINE stack == Append(s.stack, n)
<1> HIDE DEF t, stack
<1>13. /\ t \in Searches(V) /\ t.indices = indices /\ t.low = low /\ t.stack = Append(s.stack, n)
       /\ t.frames = frames /\ t.components = s.components
  <2>1. t = [s EXCEPT !.indices = indices, !.low = low, !.stack = stack, !.frames = frames]
    BY <1>12 DEF stack
  <2>2. stack \in Seq(V)
    BY <1>11 DEF stack
  <2>3. /\ t \in Searches(V) /\ t.indices = indices /\ t.low = low /\ t.stack = stack
        /\ t.frames = frames /\ t.components = s.components
    BY <1>1, <1>7, <1>10, <2>1, <2>2 DEF Searches
  <2> QED
    BY <2>3 DEF stack
<1> HIDE DEF L, k
<1>14. \A i \in 1 .. L : NodeOf(t, i) = NodeOf(s, i)
  BY <1>7, <1>13 DEF NodeOf
<1>15. NodeOf(t, L + 1) = n /\ t.frames[L + 1].edges = Sorted(out)
  BY <1>6, <1>7, <1>13 DEF NodeOf
<1>16. DOMAIN t.indices = DOMAIN s.indices \cup {n} /\ DOMAIN t.low = DOMAIN t.indices
  BY <1>8, <1>9, <1>13
<1> QED
  BY <1>3, <1>5, <1>7, <1>8, <1>9, <1>13, <1>14, <1>15, <1>16 DEF t, L, k, out

\* A node is visited as a new root, or from the innermost frame that just
\* passed the edge to it.
LEMMA VisitKeeps ==
    ASSUME NEW deps, IsGraph(deps), NEW V \in SUBSET (DOMAIN deps), NEW s, NEW apart,
           SearchInv(deps, V, s, apart), NEW n \in V \ DOMAIN s.indices,
           \/ s.frames = <<>> /\ apart = {}
           \/ /\ s.frames # <<>> /\ apart = {<<Last(s.frames).node, n>>}
              /\ n \in Onward(deps, V, Last(s.frames).node)
    PROVE  SearchInv(deps, V, Visit(deps, s, n), {})
<1> DEFINE t == Visit(deps, s, n)
           k == Cardinality(DOMAIN s.indices)
           L == Len(s.frames)
           out == Onward(deps, V, n)
<1>1. /\ t \in Searches(V) /\ t.components = s.components
      /\ k \in Nat /\ Cardinality(DOMAIN t.indices) = k + 1
      /\ DOMAIN t.indices = DOMAIN s.indices \cup {n} /\ DOMAIN t.low = DOMAIN t.indices
      /\ t.indices[n] = k /\ t.low[n] = k
      /\ \A v \in DOMAIN s.indices : t.indices[v] = s.indices[v] /\ t.low[v] = s.low[v]
      /\ t.stack = Append(s.stack, n)
      /\ Len(t.frames) = L + 1 /\ DOMAIN t.frames = 1 .. L + 1
      /\ \A i \in 1 .. L : t.frames[i] = s.frames[i] /\ NodeOf(t, i) = NodeOf(s, i)
      /\ NodeOf(t, L + 1) = n
      /\ ToSet(t.frames[L + 1].edges) = out
      /\ \A i, j \in DOMAIN t.frames[L + 1].edges :
            t.frames[L + 1].edges[i] = t.frames[L + 1].edges[j] => i = j
  BY VisitIs
<1>2. /\ DOMAIN s.indices \subseteq V
      /\ \A v \in DOMAIN s.indices : s.indices[v] \in Nat /\ s.low[v] \in Nat
      /\ On(s) \subseteq DOMAIN s.indices
      /\ \A i \in DOMAIN s.stack : s.stack[i] \in On(s)
      /\ DOMAIN s.stack = 1 .. Len(s.stack) /\ Len(s.stack) \in Nat
      /\ DOMAIN s.frames = 1 .. L /\ L \in Nat
      /\ \A i \in DOMAIN s.frames : NodeOf(s, i) \in On(s)
      /\ s.frames = <<>> => s.stack = <<>>
  BY NumbersOf
<1>3. s.stack \in Seq(V)
  BY DEF SearchInv, Searches
<1>4. n \notin On(s) /\ n \notin DOMAIN s.indices
  BY <1>2
<1>5. /\ Len(t.stack) = Len(s.stack) + 1 /\ t.stack # <<>>
      /\ DOMAIN t.stack = 1 .. (Len(s.stack) + 1)
      /\ \A i \in 1 .. Len(s.stack) : t.stack[i] = s.stack[i]
      /\ t.stack[Len(s.stack) + 1] = n
  BY <1>1, <1>2, <1>3
<1>6. On(t) = On(s) \cup {n} /\ Released(t) = Released(s)
  <2>1. Released(t) = Released(s)
    BY <1>1 DEF Released
  <2> HIDE DEF t
  <2>2. \A v \in On(t) : v \in On(s) \cup {n}
    <3> TAKE v \in On(t)
    <3>1. PICK i \in DOMAIN t.stack : t.stack[i] = v
      BY DEF On, ToSet
    <3>2. i = Len(s.stack) + 1 \/ i \in 1 .. Len(s.stack)
      BY <1>2, <1>5
    <3> QED
      BY <1>2, <1>5, <3>1, <3>2
  <2>3. \A v \in On(s) : v \in On(t)
    <3> TAKE v \in On(s)
    <3>1. PICK i \in DOMAIN s.stack : s.stack[i] = v
      BY DEF On, ToSet
    <3>2. i \in DOMAIN t.stack /\ t.stack[i] = v
      BY <1>2, <1>5, <3>1
    <3> QED
      BY <3>2 DEF On, ToSet
  <2>4. n \in On(t)
    <3>1. Len(s.stack) + 1 \in DOMAIN t.stack
      BY <1>2, <1>5
    <3> QED
      BY <1>5, <3>1 DEF On, ToSet
  <2> QED
    BY <2>1, <2>2, <2>3, <2>4
<1>7. \A v \in DOMAIN s.indices : s.indices[v] < k
  BY DEF SearchInv, Numbered
<1> HIDE DEF t, k
<1>8. \A v \in On(s) : /\ t.indices[v] = s.indices[v] /\ t.low[v] = s.low[v]
                       /\ s.indices[v] \in Nat /\ s.low[v] \in Nat /\ s.indices[v] < k /\ v # n
  BY <1>1, <1>2, <1>4, <1>7
<1>9. \A i \in DOMAIN t.frames : i = L + 1 \/ (i \in DOMAIN s.frames /\ i # L + 1 /\ i \in 1 .. L)
  BY <1>1, <1>2
<1>10. \A v : Framing(t, v) <=> Framing(s, v) \/ v = n
  <2> TAKE v
  <2>1. CASE Framing(s, v)
    <3>1. PICK i \in DOMAIN s.frames : NodeOf(s, i) = v
      BY <2>1 DEF Framing
    <3>2. i \in DOMAIN t.frames /\ NodeOf(t, i) = v
      BY <1>1, <1>2, <3>1
    <3> QED
      BY <3>2, <2>1 DEF Framing
  <2>2. CASE ~Framing(s, v)
    <3>1. Framing(t, v) => v = n
      BY <1>1, <1>9, <2>2 DEF Framing
    <3>2. L + 1 \in DOMAIN t.frames
      BY <1>1, <1>2
    <3>3. v = n => Framing(t, v)
      BY <1>1, <3>2 DEF Framing
    <3> QED
      BY <2>2, <3>1, <3>3
  <2> QED
    BY <2>1, <2>2
<1>11. Numbered(t)
  <2>1. DOMAIN t.indices = On(t) \cup Released(t) /\ On(t) \cap Released(t) = {}
    BY <1>1, <1>4, <1>6 DEF SearchInv, Numbered
  <2>2. \A v \in DOMAIN t.indices : t.indices[v] < Cardinality(DOMAIN t.indices)
    <3> TAKE v \in DOMAIN t.indices
    <3>1. CASE v = n
      BY <1>1, <3>1
    <3>2. CASE v # n
      <4>1. v \in DOMAIN s.indices
        BY <1>1, <3>2
      <4> QED
        BY <1>1, <1>2, <1>7, <4>1
    <3> QED
      BY <3>1, <3>2
  <2>3. ASSUME NEW i \in DOMAIN t.stack, NEW j \in DOMAIN t.stack, i < j
        PROVE  t.indices[t.stack[i]] < t.indices[t.stack[j]]
    <3>1. i \in DOMAIN s.stack
      BY <1>2, <1>5, <2>3
    <3>2. t.stack[i] = s.stack[i] /\ s.stack[i] \in On(s)
      BY <1>2, <1>5, <3>1
    <3>3. CASE j \in DOMAIN s.stack
      <4>1. t.stack[j] = s.stack[j] /\ s.stack[j] \in On(s)
        BY <1>2, <1>5, <3>3
      <4> QED
        BY <1>8, <2>3, <3>1, <3>2, <3>3, <4>1 DEF SearchInv, Numbered
    <3>4. CASE j \notin DOMAIN s.stack
      <4>1. j = Len(s.stack) + 1
        BY <1>2, <1>5, <3>4
      <4> QED
        BY <1>1, <1>5, <1>8, <3>2, <4>1
    <3> QED
      BY <3>3, <3>4
  <2> QED
    BY <1>1, <2>1, <2>2, <2>3 DEF Numbered
<1>12. Framed(deps, V, t)
  <2>1. \A i \in DOMAIN t.frames : NodeOf(t, i) \in On(t)
    BY <1>1, <1>2, <1>6, <1>9
  <2>2. ASSUME NEW i \in DOMAIN t.frames, NEW j \in DOMAIN t.frames, i < j
        PROVE  t.indices[NodeOf(t, i)] < t.indices[NodeOf(t, j)]
    <3>1. i \in DOMAIN s.frames /\ i \in 1 .. L
      BY <1>1, <1>2, <2>2
    <3>2. NodeOf(t, i) = NodeOf(s, i) /\ NodeOf(s, i) \in On(s)
      BY <1>1, <1>2, <3>1
    <3>3. CASE j = L + 1
      BY <1>1, <1>8, <3>2, <3>3
    <3>4. CASE j # L + 1
      <4>1. j \in DOMAIN s.frames /\ NodeOf(t, j) = NodeOf(s, j) /\ NodeOf(s, j) \in On(s)
        BY <1>1, <1>2, <1>9, <3>4
      <4> QED
        BY <1>8, <2>2, <3>1, <3>2, <4>1 DEF SearchInv, Framed
    <3> QED
      BY <3>3, <3>4
  <2>3. t.frames # <<>> /\ NodeOf(t, 1) = t.stack[1]
    <3>1. CASE s.frames = <<>>
      <4>1. L = 0 /\ Len(s.stack) = 0 /\ t.frames # <<>>
        BY <1>1, <1>2, <3>1
      <4> QED
        BY <1>1, <1>5, <4>1
    <3>2. CASE s.frames # <<>>
      <4>1. 1 \in 1 .. L /\ t.frames # <<>>
        BY <1>1, <1>2, <3>2
      <4>2. s.stack # <<>>
        BY <1>2, <4>1 DEF On, ToSet
      <4>3. NodeOf(s, 1) = s.stack[1] /\ 1 \in 1 .. Len(s.stack)
        BY <1>2, <4>2 DEF SearchInv, Framed
      <4> QED
        BY <1>1, <1>5, <4>1, <4>3
    <3> QED
      BY <3>1, <3>2
  <2>4. \A i \in DOMAIN t.frames :
          /\ ToSet(t.frames[i].edges) \subseteq Onward(deps, V, NodeOf(t, i))
          /\ \A a, b \in DOMAIN t.frames[i].edges :
                t.frames[i].edges[a] = t.frames[i].edges[b] => a = b
    <3> TAKE i \in DOMAIN t.frames
    <3>1. CASE i = L + 1
      BY <1>1, <3>1
    <3>2. CASE i # L + 1
      <4>1. i \in DOMAIN s.frames /\ t.frames[i] = s.frames[i] /\ NodeOf(t, i) = NodeOf(s, i)
        BY <1>1, <1>9, <3>2
      <4> QED
        BY <4>1 DEF SearchInv, Framed
    <3> QED
      BY <3>1, <3>2
  <2> QED
    BY <2>1, <2>2, <2>3, <2>4 DEF Framed
<1>13. Lowered(deps, V, t)
  <2> SUFFICES ASSUME NEW v \in On(t)
               PROVE  /\ t.low[v] <= t.indices[v]
                      /\ \E w \in On(t) : t.indices[w] = t.low[v] /\ Leads(deps, V, v, w)
                      /\ t.low[v] = t.indices[v] => Framing(t, v)
    BY DEF Lowered
  <2>1. CASE v = n
    BY <1>1, <1>6, <1>10, <2>1, LeadsOn
  <2>2. CASE v # n
    <3>1. v \in On(s)
      BY <1>6, <2>2
    <3>2. /\ s.low[v] <= s.indices[v]
          /\ s.low[v] = s.indices[v] => Framing(s, v)
      BY <3>1 DEF SearchInv, Lowered
    <3>3. PICK w \in On(s) : s.indices[w] = s.low[v] /\ Leads(deps, V, v, w)
      BY <3>1 DEF SearchInv, Lowered
    <3> QED
      BY <1>6, <1>8, <1>10, <3>1, <3>2, <3>3
  <2> QED
    BY <2>1, <2>2
<1>14. Grown(deps, V, t)
  <2> SUFFICES ASSUME NEW i \in DOMAIN t.frames, NEW v \in On(t),
                      t.indices[NodeOf(t, i)] <= t.indices[v]
               PROVE  Leads(deps, V, NodeOf(t, i), v)
    BY DEF Grown
  <2>1. CASE i = L + 1
    <3>1. ~(v \in On(s))
      BY <1>1, <1>8, <2>1
    <3> QED
      BY <1>1, <1>6, <2>1, <3>1, LeadsOn
  <2>2. CASE i # L + 1 /\ v # n
    <3>1. i \in DOMAIN s.frames /\ NodeOf(t, i) = NodeOf(s, i) /\ NodeOf(s, i) \in On(s) /\ v \in On(s)
      BY <1>1, <1>2, <1>6, <1>9, <2>2
    <3> QED
      BY <1>8, <3>1 DEF SearchInv, Grown
  <2>3. CASE i # L + 1 /\ v = n
    <3>1. i \in DOMAIN s.frames /\ NodeOf(t, i) = NodeOf(s, i) /\ NodeOf(s, i) \in On(s)
      BY <1>1, <1>2, <1>9, <2>3
    <3>2. s.frames # <<>> /\ L \in DOMAIN s.frames /\ i <= L
      BY <1>2, <3>1
    <3>3. Last(s.frames).node = NodeOf(s, L) /\ NodeOf(s, L) \in On(s)
      BY <1>2, <3>2 DEF Last, NodeOf
    <3>4. s.indices[NodeOf(s, i)] <= s.indices[NodeOf(s, L)]
      <4>1. CASE i = L
        BY <1>8, <3>3, <4>1
      <4>2. CASE i # L
        <5>1. i < L
          BY <1>2, <3>1, <3>2, <4>2
        <5>2. s.indices[NodeOf(s, i)] < s.indices[NodeOf(s, L)]
          BY <3>1, <3>2, <5>1 DEF SearchInv, Framed
        <5> QED
          BY <1>8, <3>1, <3>3, <5>2
      <4> QED
        BY <4>1, <4>2
    <3>5. Leads(deps, V, NodeOf(s, i), NodeOf(s, L))
      BY <3>1, <3>3, <3>4 DEF SearchInv, Grown
    <3>6. n \in Onward(deps, V, NodeOf(s, L)) /\ NodeOf(s, L) \in V
      BY <1>2, <3>2, <3>3
    <3> QED
      BY <2>3, <3>1, <3>5, <3>6, LeadsOn
  <2> QED
    BY <2>1, <2>2, <2>3
<1>15. Learned(t)
  <2> SUFFICES ASSUME NEW i \in DOMAIN t.frames, NEW v \in On(t),
                      ~Framing(t, v), t.indices[NodeOf(t, i)] < t.indices[v],
                      \A j \in DOMAIN t.frames : i < j => t.indices[v] < t.indices[NodeOf(t, j)]
               PROVE  t.low[NodeOf(t, i)] <= t.low[v]
    BY DEF Learned
  <2>1. v # n /\ v \in On(s) /\ ~Framing(s, v)
    BY <1>6, <1>10
  <2>2. i # L + 1
    BY <1>1, <1>8, <2>1
  <2>3. i \in DOMAIN s.frames /\ NodeOf(t, i) = NodeOf(s, i) /\ NodeOf(s, i) \in On(s)
    BY <1>1, <1>2, <1>9, <2>2
  <2>4. \A j \in DOMAIN s.frames : i < j => s.indices[v] < s.indices[NodeOf(s, j)]
    <3> TAKE j \in DOMAIN s.frames
    <3>1. j \in DOMAIN t.frames /\ NodeOf(t, j) = NodeOf(s, j) /\ NodeOf(s, j) \in On(s)
      BY <1>1, <1>2
    <3> QED
      BY <1>8, <2>1, <3>1
  <2>5. s.indices[NodeOf(s, i)] < s.indices[v]
    BY <1>8, <2>1, <2>3
  <2>6. s.low[NodeOf(s, i)] <= s.low[v]
    BY <2>1, <2>3, <2>4, <2>5 DEF SearchInv, Learned
  <2> QED
    BY <1>8, <2>1, <2>3, <2>6
<1>16. Traced(deps, V, t, {})
  <2> SUFFICES ASSUME NEW v \in On(t), NEW w \in Onward(deps, V, v)
               PROVE  Accounts(t, v, w) \/ Awaits(t, v, w)
    BY DEF Traced
  <2>1. CASE v = n
    <3>1. L + 1 \in DOMAIN t.frames /\ NodeOf(t, L + 1) = v /\ w \in ToSet(t.frames[L + 1].edges)
      BY <1>1, <1>2, <2>1
    <3> QED
      BY <3>1 DEF Awaits
  <2>2. CASE v # n
    <3>1. v \in On(s)
      BY <1>6, <2>2
    <3>2. CASE <<v, w>> \in apart
      <4>1. s.frames # <<>> /\ v = Last(s.frames).node /\ w = n
        BY <3>2
      <4>2. L \in 1 .. L /\ v = NodeOf(s, L)
        BY <1>2, <4>1 DEF Last, NodeOf
      <4>3. L \in DOMAIN t.frames /\ NodeOf(t, L) = v /\ L < Len(t.frames) /\ NodeOf(t, L + 1) = w
        BY <1>1, <1>2, <4>1, <4>2
      <4> QED
        BY <4>3 DEF Awaits
    <3>3. CASE Accounts(s, v, w)
      BY <1>6, <1>8, <3>1, <3>3 DEF Accounts
    <3>4. CASE Awaits(s, v, w)
      <4>1. PICK i \in DOMAIN s.frames :
                /\ NodeOf(s, i) = v
                /\ w \in ToSet(s.frames[i].edges) \/ (i < L /\ NodeOf(s, i + 1) = w)
        BY <3>4 DEF Awaits
      <4>2. i \in DOMAIN t.frames /\ NodeOf(t, i) = v /\ t.frames[i] = s.frames[i]
        BY <1>1, <1>2, <4>1
      <4>3. CASE w \in ToSet(s.frames[i].edges)
        BY <4>2, <4>3 DEF Awaits
      <4>4. CASE i < L /\ NodeOf(s, i + 1) = w
        <5>1. i + 1 \in 1 .. L
          BY <1>2, <4>1, <4>4
        <5>2. i < Len(t.frames) /\ NodeOf(t, i + 1) = w
          BY <1>1, <1>2, <4>1, <4>4, <5>1
        <5> QED
          BY <4>2, <5>2 DEF Awaits
      <4> QED
        BY <4>1, <4>3, <4>4
    <3> QED
      BY <3>1, <3>2, <3>3, <3>4 DEF SearchInv, Traced
  <2> QED
    BY <2>1, <2>2
<1>17. Emitted(deps, V, t)
  BY <1>1, <1>6 DEF SearchInv, Emitted
<1> QED
  BY <1>1, <1>11, <1>12, <1>13, <1>14, <1>15, <1>16, <1>17 DEF SearchInv, t

\* The innermost frame finds a node that is on the stack.
Lowering(s, f, w) == [s EXCEPT !.low[f] = Least(@, s.indices[w])]

LEMMA BackKeeps ==
    ASSUME NEW deps, NEW V, NEW s, s.frames # <<>>, NEW f, f = Last(s.frames).node,
           NEW w \in Onward(deps, V, f), SearchInv(deps, V, s, {<<f, w>>}), w \in On(s)
    PROVE  SearchInv(deps, V, Lowering(s, f, w), {})
<1> DEFINE t == Lowering(s, f, w)
           L == Len(s.frames)
           low == [s.low EXCEPT ![f] = Least(@, s.indices[w])]
<1>1. /\ DOMAIN s.indices \subseteq V
      /\ \A v \in DOMAIN s.indices : s.indices[v] \in Nat /\ s.low[v] \in Nat
      /\ On(s) \subseteq DOMAIN s.indices
      /\ s.low \in [DOMAIN s.indices -> Nat]
      /\ DOMAIN s.frames = 1 .. L /\ L \in Nat
      /\ \A i \in DOMAIN s.frames : NodeOf(s, i) \in On(s)
  BY NumbersOf
<1>2. s \in Searches(V)
  BY DEF SearchInv
<1>3. L \in DOMAIN s.frames /\ f = NodeOf(s, L) /\ f \in On(s)
  <2>1. L \in DOMAIN s.frames
    BY <1>1, <1>2 DEF Searches
  <2> QED
    BY <1>1, <2>1 DEF Last, NodeOf
<1>4. /\ s.indices[w] \in Nat /\ s.low[f] \in Nat
      /\ Least(s.low[f], s.indices[w]) \in {s.low[f], s.indices[w]}
      /\ Least(s.low[f], s.indices[w]) <= s.low[f] /\ Least(s.low[f], s.indices[w]) <= s.indices[w]
  BY <1>1, <1>3 DEF Least
<1>5. /\ low \in [DOMAIN s.indices -> Nat] /\ low[f] = Least(s.low[f], s.indices[w])
      /\ \A v \in DOMAIN s.indices : v # f => low[v] = s.low[v]
  <2> DEFINE least == Least(s.low[f], s.indices[w])
  <2>1. least \in Nat
    BY <1>4
  <2>2. low = [s.low EXCEPT ![f] = least]
    OBVIOUS
  <2> HIDE DEF least, low
  <2>3. f \in DOMAIN s.indices
    BY <1>1, <1>3
  <2>4. /\ low \in [DOMAIN s.indices -> Nat] /\ low[f] = least
        /\ \A v \in DOMAIN s.indices : v # f => low[v] = s.low[v]
    BY <1>1, <2>1, <2>2, <2>3
  <2> QED
    BY <2>4 DEF least
<1>6. t = [s EXCEPT !.low = low]
  BY DEF Lowering
<1> HIDE DEF t, low
<1>7. low \in Numberings(V)
  BY <1>1, <1>5 DEF Numberings
<1>8. /\ t \in Searches(V) /\ t.indices = s.indices /\ t.low = low /\ t.stack = s.stack
      /\ t.frames = s.frames /\ t.components = s.components
  BY <1>2, <1>6, <1>7 DEF Searches
<1>9. /\ On(t) = On(s) /\ Released(t) = Released(s) /\ \A i : NodeOf(t, i) = NodeOf(s, i)
      /\ \A v : Framing(t, v) <=> Framing(s, v)
  BY <1>8 DEF On, Released, NodeOf, Framing
<1>10. \A v \in On(s) : t.low[v] <= s.low[v] /\ t.low[v] \in Nat /\ (v # f => t.low[v] = s.low[v])
  <2> TAKE v \in On(s)
  <2>1. CASE v = f
    BY <1>4, <1>5, <1>8, <2>1
  <2>2. CASE v # f
    <3>1. t.low[v] = s.low[v] /\ s.low[v] \in Nat
      BY <1>1, <1>5, <1>8, <2>2
    <3> QED
      BY <2>2, <3>1
  <2> QED
    BY <2>1, <2>2
<1>11. t.low[f] \in {s.low[f], s.indices[w]} /\ t.low[f] <= s.indices[w]
  BY <1>4, <1>5, <1>8
<1>12. Numbered(t)
  <2>1. DOMAIN t.low = DOMAIN s.indices
    BY <1>5, <1>8
  <2> QED
    BY <2>1, <1>8, <1>9 DEF SearchInv, Numbered
<1>13. Framed(deps, V, t)
  BY <1>8, <1>9 DEF SearchInv, Framed
<1>14. Grown(deps, V, t)
  BY <1>8, <1>9 DEF SearchInv, Grown
<1>15. Emitted(deps, V, t)
  BY <1>8, <1>9 DEF SearchInv, Emitted
<1>16. Lowered(deps, V, t)
  <2> SUFFICES ASSUME NEW v \in On(s)
               PROVE  /\ t.low[v] <= s.indices[v]
                      /\ \E x \in On(s) : s.indices[x] = t.low[v] /\ Leads(deps, V, v, x)
                      /\ t.low[v] = s.indices[v] => Framing(s, v)
    BY <1>8, <1>9 DEF Lowered
  <2>1. /\ s.low[v] <= s.indices[v] /\ s.indices[v] \in Nat /\ s.low[v] \in Nat
        /\ s.low[v] = s.indices[v] => Framing(s, v)
    BY <1>1 DEF SearchInv, Lowered
  <2>2. PICK x \in On(s) : s.indices[x] = s.low[v] /\ Leads(deps, V, v, x)
    BY DEF SearchInv, Lowered
  <2>3. t.low[v] <= s.indices[v]
    BY <1>10, <2>1
  <2>4. CASE v # f
    BY <1>10, <2>1, <2>2, <2>4
  <2>5. CASE v = f
    <3>1. Framing(s, f)
      BY <1>3 DEF Framing
    <3>2. Leads(deps, V, f, w)
      BY <1>1, <1>3, LeadsOn
    <3> QED
      BY <1>11, <2>2, <2>3, <2>5, <3>1, <3>2
  <2> QED
    BY <2>4, <2>5
<1>17. Learned(t)
  <2> SUFFICES ASSUME NEW i \in DOMAIN s.frames, NEW v \in On(s),
                      ~Framing(s, v), s.indices[NodeOf(s, i)] < s.indices[v],
                      \A j \in DOMAIN s.frames : i < j => s.indices[v] < s.indices[NodeOf(s, j)]
               PROVE  t.low[NodeOf(s, i)] <= t.low[v]
    BY <1>8, <1>9 DEF Learned
  <2>1. s.low[NodeOf(s, i)] <= s.low[v]
    BY DEF SearchInv, Learned
  <2>2. v # f
    BY <1>3 DEF Framing
  <2>3. NodeOf(s, i) \in On(s)
    BY <1>1
  <2>4. t.low[v] = s.low[v] /\ t.low[NodeOf(s, i)] <= s.low[NodeOf(s, i)]
    BY <1>10, <2>2, <2>3
  <2>5. s.low[v] \in Nat /\ s.low[NodeOf(s, i)] \in Nat /\ t.low[NodeOf(s, i)] \in Nat
    BY <1>1, <1>10, <2>3
  <2> QED
    BY <2>1, <2>4, <2>5
<1>18. Traced(deps, V, t, {})
  <2> SUFFICES ASSUME NEW v \in On(s), NEW x \in Onward(deps, V, v)
               PROVE  Accounts(t, v, x) \/ Awaits(t, v, x)
    BY <1>9 DEF Traced
  <2>1. <<v, x>> \in {<<f, w>>} \/ Accounts(s, v, x) \/ Awaits(s, v, x)
    BY DEF SearchInv, Traced
  <2>2. CASE <<v, x>> \in {<<f, w>>}
    BY <1>8, <1>9, <1>11, <2>2 DEF Accounts
  <2>3. CASE Accounts(s, v, x)
    <3>1. CASE x \in Released(s)
      BY <1>9, <3>1 DEF Accounts
    <3>2. CASE x \in On(s) /\ s.low[v] <= s.indices[x]
      <4>1. t.low[v] <= s.indices[x]
        <5>1. s.low[v] \in Nat /\ s.indices[x] \in Nat /\ t.low[v] \in Nat /\ t.low[v] <= s.low[v]
          BY <1>1, <1>10, <3>2
        <5> QED
          BY <3>2, <5>1
      <4> QED
        BY <1>8, <1>9, <3>2, <4>1 DEF Accounts
    <3> QED
      BY <2>3, <3>1, <3>2 DEF Accounts
  <2>4. CASE Awaits(s, v, x)
    BY <1>8, <1>9, <2>4 DEF Awaits
  <2> QED
    BY <2>1, <2>2, <2>3, <2>4
<1> QED
  BY <1>8, <1>12, <1>13, <1>14, <1>15, <1>16, <1>17, <1>18 DEF SearchInv, t

\* Or one that is done.
LEMMA SkipKeeps ==
    ASSUME NEW deps, NEW V, NEW s, NEW f, NEW w, SearchInv(deps, V, s, {<<f, w>>}), w \in Released(s)
    PROVE  SearchInv(deps, V, s, {})
BY DEF SearchInv, Traced, Accounts

LEMMA FrontIs ==
    ASSUME NEW W, NEW e \in Seq(W), e # <<>>
    PROVE  /\ Front(e) \in Seq(W) /\ Len(Front(e)) = Len(e) - 1 /\ DOMAIN Front(e) = 1 .. Len(e) - 1
           /\ \A i \in 1 .. Len(e) - 1 : Front(e)[i] = e[i]
           /\ Front(e) = <<>> <=> Len(e) = 1
<1>1. Len(e) \in Nat /\ Len(e) >= 1 /\ \A i \in 1 .. Len(e) - 1 : e[i] \in W
  OBVIOUS
<1> DEFINE k == Len(e) - 1
           f == Front(e)
<1>2. k \in Nat /\ k \in Int /\ 1 \in Int /\ (\A i \in 1 .. k : e[i] \in W) /\ (k = 0 <=> Len(e) = 1)
  BY <1>1
<1>3. f = SubSeq(e, 1, k)
  BY DEF Front
<1> HIDE DEF k, f
<1>4. /\ f \in Seq(W)
      /\ Len(f) = IF 1 <= k THEN k - 1 + 1 ELSE 0
      /\ \A i \in 1 .. k - 1 + 1 : f[i] = e[1 + i - 1]
  BY <1>2, <1>3, SubSeqProperties
<1>5. Len(f) = k
  BY <1>2, <1>4
<1>6. \A i \in 1 .. k : f[i] = e[i]
  <2>1. k - 1 + 1 = k /\ \A i \in 1 .. k : 1 + i - 1 = i
    BY <1>2
  <2> QED
    BY <1>4, <2>1
<1>7. DOMAIN f = 1 .. k /\ (f = <<>> <=> k = 0)
  BY <1>2, <1>4, <1>5
<1> QED
  BY <1>2, <1>4, <1>5, <1>6, <1>7 DEF f, k

\* What leaving the innermost frame changes.
LEMMA LeaveIs ==
    ASSUME NEW deps, NEW V, NEW s, SearchInv(deps, V, s, {}), s.frames # <<>>
    PROVE  LET t == Leave(s)
               L == Len(s.frames)
               n == NodeOf(s, L)
           IN  /\ t \in Searches(V)
               /\ L \in DOMAIN s.frames /\ n = Last(s.frames).node /\ n \in On(s)
               /\ t.indices = s.indices
               /\ Len(t.frames) = L - 1 /\ DOMAIN t.frames = 1 .. L - 1
               /\ t.frames = <<>> <=> L = 1
               /\ \A i \in 1 .. L - 1 : t.frames[i] = s.frames[i] /\ NodeOf(t, i) = NodeOf(s, i)
               /\ DOMAIN t.low = DOMAIN s.indices
               /\ \A v \in DOMAIN s.indices :
                     t.low[v] = IF L > 1 /\ v = NodeOf(s, L - 1) THEN Least(s.low[v], s.low[n])
                                ELSE s.low[v]
               /\ s.low[n] # s.indices[n] =>
                     t.stack = s.stack /\ t.components = s.components
               /\ s.low[n] = s.indices[n] =>
                     \E at \in DOMAIN s.stack :
                        /\ s.stack[at] = n
                        /\ t.stack = SubSeq(s.stack, 1, at - 1)
                        /\ t.components = s.components \cup {ToSet(SubSeq(s.stack, at, Len(s.stack)))}
<1> DEFINE L == Len(s.frames)
           n == Last(s.frames).node
           frames == Front(s.frames)
           at == CHOOSE i \in DOMAIN s.stack : s.stack[i] = n
           low == IF frames = <<>> THEN s.low
                  ELSE [s.low EXCEPT ![Last(frames).node] = Least(@, s.low[n])]
           left == [s EXCEPT !.frames = frames, !.low = low]
           stack == SubSeq(s.stack, 1, at - 1)
           component == ToSet(SubSeq(s.stack, at, Len(s.stack)))
           emitted == [left EXCEPT !.stack = stack, !.components = @ \cup {component}]
<1>1. /\ DOMAIN s.indices \subseteq V
      /\ \A v \in DOMAIN s.indices : s.indices[v] \in Nat /\ s.low[v] \in Nat
      /\ On(s) \subseteq DOMAIN s.indices
      /\ s.low \in [DOMAIN s.indices -> Nat]
      /\ DOMAIN s.frames = 1 .. L /\ L \in Nat
      /\ \A i \in DOMAIN s.frames : NodeOf(s, i) \in On(s)
      /\ \A v \in On(s) : \E i \in DOMAIN s.stack : s.stack[i] = v
      /\ DOMAIN s.stack = 1 .. Len(s.stack) /\ Len(s.stack) \in Nat
  BY NumbersOf
<1>2. s \in Searches(V) /\ s.frames \in Seq(FramesOf(V)) /\ s.stack \in Seq(V)
      /\ s.components \in SUBSET (SUBSET V)
  BY DEF SearchInv, Searches
<1>3. L \in DOMAIN s.frames /\ n = NodeOf(s, L) /\ n \in On(s) /\ L >= 1
  <2>1. L \in DOMAIN s.frames
    BY <1>1, <1>2
  <2> QED
    BY <1>1, <2>1 DEF Last, NodeOf
<1>4. /\ frames \in Seq(FramesOf(V)) /\ Len(frames) = L - 1 /\ DOMAIN frames = 1 .. L - 1
      /\ \A i \in 1 .. L - 1 : frames[i] = s.frames[i]
      /\ frames = <<>> <=> L = 1
  <2> DEFINE e == s.frames
  <2>1. e \in Seq(FramesOf(V)) /\ e # <<>> /\ L = Len(e) /\ frames = Front(e)
    BY <1>2
  <2> HIDE DEF e, L, frames
  <2>2. /\ frames \in Seq(FramesOf(V)) /\ Len(frames) = L - 1 /\ DOMAIN frames = 1 .. L - 1
        /\ \A i \in 1 .. L - 1 : frames[i] = e[i]
        /\ frames = <<>> <=> L = 1
    BY <2>1, FrontIs
  <2> QED
    BY <2>2 DEF e
<1>5. Leave(s) = IF s.low[n] # s.indices[n] THEN left ELSE emitted
  BY DEF Leave
<1> HIDE DEF n
<1>6. at \in DOMAIN s.stack /\ s.stack[at] = n
  BY <1>1, <1>3
<1> HIDE DEF at, frames
<1>7. low \in [DOMAIN s.indices -> Nat]
      /\ \A v \in DOMAIN s.indices :
            low[v] = IF L > 1 /\ v = NodeOf(s, L - 1) THEN Least(s.low[v], s.low[n]) ELSE s.low[v]
  <2>1. CASE L = 1
    BY <1>1, <1>4, <2>1
  <2>2. CASE L # 1
    <3> DEFINE p == NodeOf(s, L - 1)
               least == Least(s.low[p], s.low[n])
    <3>1. L > 1 /\ L - 1 \in 1 .. L - 1 /\ L - 1 \in DOMAIN s.frames /\ frames # <<>>
      BY <1>1, <1>3, <1>4, <2>2
    <3>2. Last(frames).node = p
      BY <1>4, <3>1 DEF Last, NodeOf
    <3>3. p \in DOMAIN s.indices /\ n \in DOMAIN s.indices
      BY <1>1, <1>3, <3>1
    <3>4. least \in Nat
      BY <1>1, <3>3 DEF Least
    <3>5. low = [s.low EXCEPT ![p] = least]
      BY <3>1, <3>2
    <3> HIDE DEF p, least, low
    <3>6. low \in [DOMAIN s.indices -> Nat] /\ low[p] = least
          /\ \A v \in DOMAIN s.indices : v # p => low[v] = s.low[v]
      BY <1>1, <3>3, <3>4, <3>5
    <3> QED
      BY <3>1, <3>6 DEF p, least
  <2> QED
    BY <2>1, <2>2
<1> HIDE DEF low
<1>8. low \in Numberings(V) /\ DOMAIN low = DOMAIN s.indices
  BY <1>1, <1>7 DEF Numberings
<1>9. /\ left \in Searches(V) /\ left.indices = s.indices /\ left.low = low /\ left.stack = s.stack
      /\ left.frames = frames /\ left.components = s.components
  BY <1>2, <1>4, <1>8 DEF Searches
<1>10. stack \in Seq(V) /\ component \in SUBSET V
  <2>1. at \in 1 .. Len(s.stack)
    BY <1>1, <1>6
  <2>2. /\ SubSeq(s.stack, 1, at - 1) \in Seq(V)
        /\ SubSeq(s.stack, at, Len(s.stack)) \in Seq(V)
    <3>1. \A i \in 1 .. at - 1 : i \in 1 .. Len(s.stack) /\ s.stack[i] \in V
      BY <1>1, <1>2, <2>1
    <3>2. \A i \in at .. Len(s.stack) : i \in 1 .. Len(s.stack) /\ s.stack[i] \in V
      BY <1>1, <1>2, <2>1
    <3>3. at \in Nat /\ at - 1 \in Nat /\ 1 \in Nat /\ Len(s.stack) \in Nat
      BY <1>1, <2>1
    <3>4. \A i \in 1 .. at - 1 : s.stack[i] \in V
      BY <3>1
    <3>5. \A i \in at .. Len(s.stack) : s.stack[i] \in V
      BY <3>2
    <3> QED
      BY <2>1, <3>3, <3>4, <3>5, SubSeqProperties, <1>2
  <2>3. \A q \in Seq(V) : ToSet(q) \in SUBSET V
    BY DEF ToSet
  <2> QED
    BY <2>2, <2>3
<1> HIDE DEF left, stack, component
<1>11. /\ emitted \in Searches(V) /\ emitted.indices = s.indices /\ emitted.low = low
       /\ emitted.stack = stack /\ emitted.frames = frames
       /\ emitted.components = s.components \cup {component}
  BY <1>2, <1>9, <1>10 DEF Searches
<1> HIDE DEF emitted
<1> DEFINE t == Leave(s)
<1>0. t = IF s.low[n] # s.indices[n] THEN left ELSE emitted
  BY <1>5
<1> HIDE DEF t
<1>12. t \in {left, emitted}
  BY <1>0
<1>13. s.low[n] # s.indices[n] => t = left
  BY <1>0
<1>14. s.low[n] = s.indices[n] => t = emitted
  BY <1>0
<1>15. t \in Searches(V) /\ t.indices = s.indices /\ t.low = low /\ t.frames = frames
  BY <1>9, <1>11, <1>12
<1>16. s.low[n] # s.indices[n] => t.stack = s.stack /\ t.components = s.components
  BY <1>9, <1>13
<1>17. s.low[n] = s.indices[n] =>
         \E a \in DOMAIN s.stack :
            /\ s.stack[a] = n
            /\ t.stack = SubSeq(s.stack, 1, a - 1)
            /\ t.components = s.components \cup {ToSet(SubSeq(s.stack, a, Len(s.stack)))}
  BY <1>6, <1>11, <1>14 DEF stack, component
<1>19. n = Last(s.frames).node
  BY DEF n
<1> HIDE DEF L
<1>18. \A i \in 1 .. L - 1 : t.frames[i] = s.frames[i] /\ NodeOf(t, i) = NodeOf(s, i)
  BY <1>4, <1>15 DEF NodeOf
<1> QED
  BY <1>3, <1>4, <1>7, <1>8, <1>15, <1>16, <1>17, <1>18, <1>19 DEF t, L

\* A node that reached further down stays on the stack; the node above learns
\* how far.
LEMMA ReturnKeeps ==
    ASSUME NEW deps, NEW V, NEW s, SearchInv(deps, V, s, {}), s.frames # <<>>,
           Last(s.frames).edges = <<>>, s.low[Last(s.frames).node] # s.indices[Last(s.frames).node]
    PROVE  SearchInv(deps, V, Leave(s), {})
<1> DEFINE t == Leave(s)
           L == Len(s.frames)
           n == NodeOf(s, L)
           p == NodeOf(s, L - 1)
<1>1. /\ t \in Searches(V)
      /\ L \in DOMAIN s.frames /\ n = Last(s.frames).node /\ n \in On(s)
      /\ t.indices = s.indices
      /\ Len(t.frames) = L - 1 /\ DOMAIN t.frames = 1 .. L - 1
      /\ t.frames = <<>> <=> L = 1
      /\ \A i \in 1 .. L - 1 : t.frames[i] = s.frames[i] /\ NodeOf(t, i) = NodeOf(s, i)
      /\ DOMAIN t.low = DOMAIN s.indices
      /\ \A v \in DOMAIN s.indices :
            t.low[v] = IF L > 1 /\ v = p THEN Least(s.low[v], s.low[n]) ELSE s.low[v]
      /\ t.stack = s.stack /\ t.components = s.components
  BY LeaveIs
<1>2. /\ DOMAIN s.indices \subseteq V
      /\ \A v \in DOMAIN s.indices : s.indices[v] \in Nat /\ s.low[v] \in Nat
      /\ On(s) \subseteq DOMAIN s.indices
      /\ \A v, w \in On(s) : s.indices[v] = s.indices[w] => v = w
      /\ \A i \in DOMAIN s.stack : s.stack[i] \in On(s)
      /\ \A v \in On(s) : \E i \in DOMAIN s.stack : s.stack[i] = v
      /\ DOMAIN s.stack = 1 .. Len(s.stack) /\ Len(s.stack) \in Nat
      /\ DOMAIN s.frames = 1 .. L /\ L \in Nat
      /\ \A i \in DOMAIN s.frames : NodeOf(s, i) \in On(s)
  BY NumbersOf
<1>3. s.frames[L].edges = <<>> /\ s.low[n] # s.indices[n] /\ L >= 1
  BY <1>1, <1>2 DEF Last
<1> HIDE DEF t
<1>4. /\ s.low[n] < s.indices[n]
      /\ \E w \in On(s) : s.indices[w] = s.low[n] /\ Leads(deps, V, n, w)
  <2>1. s.low[n] <= s.indices[n] /\ s.indices[n] \in Nat /\ s.low[n] \in Nat
    BY <1>1, <1>2 DEF SearchInv, Lowered
  <2>2. \E w \in On(s) : s.indices[w] = s.low[n] /\ Leads(deps, V, n, w)
    BY <1>1 DEF SearchInv, Lowered
  <2> QED
    BY <1>3, <2>1, <2>2
<1>5. L > 1
  <2>0. L \in Nat /\ L >= 1
    BY <1>2, <1>3
  <2> SUFFICES ASSUME L = 1 PROVE FALSE
    <3> HIDE DEF L
    <3> QED
      BY <2>0
  <2>1. PICK w \in On(s) : s.indices[w] = s.low[n]
    BY <1>4
  <2>2. PICK i \in DOMAIN s.stack : s.stack[i] = w
    BY <1>2
  <2>3. s.stack # <<>> /\ 1 \in DOMAIN s.stack /\ i >= 1
    BY <1>2, <2>2
  <2>4. n = s.stack[1]
    BY <2>3 DEF SearchInv, Framed
  <2>5. i = 1 \/ 1 < i
    BY <1>2, <2>2, <2>3
  <2>6. s.indices[n] <= s.indices[w]
    BY <1>1, <1>2, <2>2, <2>3, <2>4, <2>5 DEF SearchInv, Numbered
  <2>7. s.indices[n] \in Nat /\ s.low[n] \in Nat
    BY <1>1, <1>2
  <2> QED
    BY <1>4, <2>1, <2>6, <2>7
<1>6. L - 1 \in DOMAIN s.frames /\ L - 1 \in 1 .. L - 1 /\ L - 1 < L /\ p \in On(s)
  BY <1>2, <1>5
<1>7. s.indices[p] < s.indices[n] /\ p # n /\ s.indices[p] <= s.indices[n]
  <2>1. s.indices[p] < s.indices[n]
    BY <1>1, <1>6 DEF SearchInv, Framed
  <2>2. s.indices[n] \in Nat /\ s.indices[p] \in Nat
    BY <1>1, <1>2, <1>6
  <2> QED
    BY <2>1, <2>2
<1> HIDE DEF n, p, L
<1>8. t.low[p] \in {s.low[p], s.low[n]} /\ t.low[p] <= s.low[p] /\ t.low[p] <= s.low[n]
  <2>1. t.low[p] = Least(s.low[p], s.low[n]) /\ s.low[p] \in Nat /\ s.low[n] \in Nat
    BY <1>1, <1>2, <1>5, <1>6
  <2> QED
    BY <2>1 DEF Least
<1>9. \A v \in On(s) : t.low[v] <= s.low[v] /\ t.low[v] \in Nat /\ s.low[v] \in Nat /\ (v # p => t.low[v] = s.low[v])
  <2> TAKE v \in On(s)
  <2>1. s.low[v] \in Nat /\ s.low[n] \in Nat /\ s.low[p] \in Nat
    BY <1>1, <1>2, <1>6
  <2>2. CASE v = p
    BY <1>8, <2>1, <2>2
  <2>3. CASE v # p
    <3>1. t.low[v] = s.low[v]
      BY <1>1, <1>2, <2>3
    <3> QED
      BY <2>1, <2>3, <3>1
  <2> QED
    BY <2>2, <2>3
<1>10. On(t) = On(s) /\ Released(t) = Released(s)
  BY <1>1 DEF On, Released
<1>11. \A i \in DOMAIN t.frames : i \in DOMAIN s.frames /\ i < L /\ NodeOf(t, i) = NodeOf(s, i)
                                  /\ t.frames[i] = s.frames[i]
  BY <1>1, <1>2
<1>12. \A i \in DOMAIN s.frames : i # L => i \in DOMAIN t.frames /\ i \in 1 .. L - 1
  BY <1>1, <1>2
<1>13. \A v : v # n => (Framing(t, v) <=> Framing(s, v))
  BY <1>1, <1>11, <1>12 DEF Framing, n
<1>14. ~Framing(t, n)
  <2> SUFFICES ASSUME NEW i \in DOMAIN t.frames, NodeOf(t, i) = n PROVE FALSE
    BY DEF Framing
  <2>1. i \in DOMAIN s.frames /\ i < L /\ NodeOf(s, i) = n
    BY <1>11
  <2>2. s.indices[NodeOf(s, i)] < s.indices[NodeOf(s, L)]
    BY <1>1, <2>1 DEF SearchInv, Framed
  <2>3. s.indices[n] \in Nat
    BY <1>1, <1>2
  <2> QED
    BY <2>1, <2>2, <2>3 DEF n
<1>15. Numbered(t)
  BY <1>1, <1>10 DEF SearchInv, Numbered
<1>16. Framed(deps, V, t)
  <2>1. t.stack # <<>> => t.frames # <<>> /\ NodeOf(t, 1) = t.stack[1]
    <3>1. 1 \in 1 .. L - 1 /\ t.frames # <<>>
      BY <1>1, <1>2, <1>5
    <3>2. NodeOf(t, 1) = NodeOf(s, 1)
      BY <1>1, <3>1
    <3> QED
      BY <1>1, <3>1, <3>2 DEF SearchInv, Framed
  <2>2. \A i \in DOMAIN t.frames : NodeOf(t, i) \in On(t)
    BY <1>2, <1>10, <1>11
  <2>3. \A i, j \in DOMAIN t.frames : i < j => t.indices[NodeOf(t, i)] < t.indices[NodeOf(t, j)]
    BY <1>1, <1>11 DEF SearchInv, Framed
  <2>4. \A i \in DOMAIN t.frames :
          /\ ToSet(t.frames[i].edges) \subseteq Onward(deps, V, NodeOf(t, i))
          /\ \A a, b \in DOMAIN t.frames[i].edges :
                t.frames[i].edges[a] = t.frames[i].edges[b] => a = b
    BY <1>11 DEF SearchInv, Framed
  <2> QED
    BY <2>1, <2>2, <2>3, <2>4 DEF Framed
<1>17. Lowered(deps, V, t)
  <2> SUFFICES ASSUME NEW v \in On(s)
               PROVE  /\ t.low[v] <= s.indices[v]
                      /\ \E x \in On(s) : s.indices[x] = t.low[v] /\ Leads(deps, V, v, x)
                      /\ t.low[v] = s.indices[v] => Framing(t, v)
    BY <1>1, <1>10 DEF Lowered
  <2>1. /\ s.low[v] <= s.indices[v] /\ s.indices[v] \in Nat
        /\ s.low[v] = s.indices[v] => Framing(s, v)
    BY <1>2 DEF SearchInv, Lowered
  <2>2. PICK x \in On(s) : s.indices[x] = s.low[v] /\ Leads(deps, V, v, x)
    BY DEF SearchInv, Lowered
  <2>3. t.low[v] <= s.indices[v]
    BY <1>9, <2>1
  <2>4. CASE v = n
    <3>1. t.low[v] = s.low[n]
      BY <1>7, <1>9, <2>4
    <3>2. t.low[v] # s.indices[v]
      BY <1>3, <3>1, <2>4
    <3> QED
      BY <2>2, <2>3, <2>4, <3>1, <3>2
  <2>5. CASE v = p
    <3>1. Framing(t, p)
      BY <1>1, <1>6 DEF Framing, p
    <3>2. CASE t.low[p] = s.low[p]
      BY <2>2, <2>3, <2>5, <3>1, <3>2
    <3>3. CASE t.low[p] = s.low[n]
      <4>1. PICK w \in On(s) : s.indices[w] = s.low[n] /\ Leads(deps, V, n, w)
        BY <1>4
      <4>2. Leads(deps, V, p, n)
        BY <1>1, <1>6, <1>7 DEF SearchInv, Grown, p
      <4>3. Leads(deps, V, p, w)
        BY <4>1, <4>2, LeadsOn
      <4> QED
        BY <2>3, <2>5, <3>1, <3>3, <4>1, <4>3
    <3> QED
      BY <1>8, <3>2, <3>3
  <2>6. CASE v # n /\ v # p
    BY <1>9, <1>13, <2>1, <2>2, <2>3, <2>6
  <2> QED
    BY <2>4, <2>5, <2>6
<1>18. Grown(deps, V, t)
  BY <1>1, <1>10, <1>11 DEF SearchInv, Grown
<1>19. Learned(t)
  <2> SUFFICES ASSUME NEW i \in DOMAIN t.frames, NEW v \in On(s),
                      ~Framing(t, v), s.indices[NodeOf(s, i)] < s.indices[v],
                      \A j \in DOMAIN t.frames : i < j => s.indices[v] < s.indices[NodeOf(t, j)]
               PROVE  t.low[NodeOf(s, i)] <= t.low[v]
    BY <1>1, <1>10, <1>11 DEF Learned
  <2>1. i \in DOMAIN s.frames /\ i < L /\ NodeOf(s, i) \in On(s)
    BY <1>2, <1>11
  <2>2. v # p
    BY <1>1, <1>6, <1>14 DEF Framing, p
  <2>3. t.low[v] = s.low[v] /\ s.low[v] \in Nat /\ s.indices[v] \in Nat /\ s.indices[n] \in Nat
    BY <1>1, <1>2, <1>9, <2>2
  <2>4. \A j \in DOMAIN s.frames : j # L /\ i < j => s.indices[v] < s.indices[NodeOf(s, j)]
    BY <1>11, <1>12
  <2>5. CASE s.indices[v] < s.indices[n]
    <3>1. v # n /\ ~Framing(s, v)
      BY <1>13, <2>3, <2>5
    <3>2. \A j \in DOMAIN s.frames : i < j => s.indices[v] < s.indices[NodeOf(s, j)]
      BY <2>4, <2>5 DEF n
    <3>3. s.low[NodeOf(s, i)] <= s.low[v]
      BY <2>1, <3>1, <3>2 DEF SearchInv, Learned
    <3> QED
      BY <1>9, <2>1, <2>3, <3>3
  <2>6. CASE ~(s.indices[v] < s.indices[n])
    <3>1. i = L - 1
      <4> SUFFICES ASSUME i # L - 1 PROVE FALSE
        OBVIOUS
      <4>1. i < L - 1
        BY <1>2, <2>1
      <4>2. s.indices[v] < s.indices[p]
        BY <1>6, <2>4, <4>1 DEF p
      <4>3. s.indices[p] \in Nat
        BY <1>2, <1>6
      <4> QED
        BY <1>7, <2>3, <2>6, <4>2, <4>3
    <3>2. s.low[n] <= s.low[v]
      <4>1. CASE v = n
        BY <2>3, <4>1
      <4>2. CASE v # n
        <5>1. s.indices[n] < s.indices[v]
          <6>1. s.indices[n] # s.indices[v]
            BY <1>1, <1>2, <4>2
          <6> QED
            BY <2>3, <2>6, <6>1
        <5>2. ~Framing(s, v)
          BY <1>13, <4>2
        <5>3. \A j \in DOMAIN s.frames : ~(L < j)
          BY <1>2
        <5> QED
          BY <1>1, <5>1, <5>2, <5>3 DEF SearchInv, Learned, n
      <4> QED
        BY <4>1, <4>2
    <3>3. t.low[p] <= s.low[n] /\ t.low[p] \in Nat /\ s.low[n] \in Nat
      BY <1>1, <1>6, <1>8, <1>9
    <3> QED
      BY <2>3, <3>1, <3>2, <3>3 DEF p
  <2> QED
    BY <2>5, <2>6
<1>20. Traced(deps, V, t, {})
  <2> SUFFICES ASSUME NEW v \in On(s), NEW w \in Onward(deps, V, v)
               PROVE  Accounts(t, v, w) \/ Awaits(t, v, w)
    BY <1>10 DEF Traced
  <2>1. Accounts(s, v, w) \/ Awaits(s, v, w)
    BY DEF SearchInv, Traced
  <2>2. CASE Accounts(s, v, w)
    <3>1. CASE w \in Released(s)
      BY <1>10, <3>1 DEF Accounts
    <3>2. CASE w \in On(s) /\ s.low[v] <= s.indices[w]
      <4>1. s.indices[w] \in Nat
        BY <1>2, <3>2
      <4>2. t.low[v] <= s.indices[w]
        BY <1>9, <3>2, <4>1
      <4> QED
        BY <1>1, <1>10, <3>2, <4>2 DEF Accounts
    <3> QED
      BY <2>2, <3>1, <3>2 DEF Accounts
  <2>3. CASE Awaits(s, v, w)
    <3>1. PICK i \in DOMAIN s.frames :
              /\ NodeOf(s, i) = v
              /\ w \in ToSet(s.frames[i].edges) \/ (i < L /\ NodeOf(s, i + 1) = w)
      BY <2>3 DEF Awaits, L
    <3>2. i # L
      <4> SUFFICES ASSUME i = L PROVE FALSE
        OBVIOUS
      <4>1. w \in ToSet(s.frames[L].edges)
        BY <1>2, <3>1
      <4> QED
        BY <1>3, <4>1 DEF ToSet
    <3>3. i \in DOMAIN t.frames /\ NodeOf(t, i) = v /\ t.frames[i] = s.frames[i]
      BY <1>11, <1>12, <3>1, <3>2
    <3>4. CASE w \in ToSet(s.frames[i].edges)
      BY <3>3, <3>4 DEF Awaits
    <3>5. CASE NodeOf(s, i + 1) = w /\ i + 1 # L /\ i < L
      <4>1. i + 1 \in DOMAIN s.frames /\ i < L - 1
        BY <1>2, <3>1, <3>5
      <4>2. NodeOf(t, i + 1) = w /\ i < Len(t.frames)
        BY <1>1, <1>11, <1>12, <3>5, <4>1
      <4> QED
        BY <3>3, <4>2 DEF Awaits
    <3>6. CASE NodeOf(s, i + 1) = w /\ i + 1 = L
      <4>1. i = L - 1
        BY <1>2, <3>1, <3>6
      <4>2. w = n /\ v = p
        BY <3>1, <3>6, <4>1 DEF n, p
      <4>5. s.low[n] \in Nat /\ s.indices[n] \in Nat /\ s.low[n] < s.indices[n]
        BY <1>1, <1>2, <1>4
      <4>6. t.low[p] \in Nat
        BY <1>6, <1>9
      <4>3. s.low[n] <= s.indices[n] /\ s.low[n] \in Nat /\ s.indices[n] \in Nat /\ t.low[p] \in Nat
        BY <4>5, <4>6
      <4>4. t.low[v] <= s.indices[w]
        BY <1>8, <4>2, <4>3
      <4> QED
        BY <1>1, <1>10, <4>2, <4>4 DEF Accounts
    <3> QED
      BY <3>1, <3>4, <3>5, <3>6
  <2> QED
    BY <2>1, <2>2, <2>3
<1>21. Emitted(deps, V, t)
  BY <1>1, <1>10 DEF SearchInv, Emitted
<1> QED
  BY <1>1, <1>15, <1>16, <1>17, <1>18, <1>19, <1>20, <1>21 DEF SearchInv, t

\* A root takes what is above it on the stack along: a whole kind.
LEMMA EmitKeeps ==
    ASSUME NEW deps, NEW V, NEW s, SearchInv(deps, V, s, {}), s.frames # <<>>,
           Last(s.frames).edges = <<>>, s.low[Last(s.frames).node] = s.indices[Last(s.frames).node]
    PROVE  SearchInv(deps, V, Leave(s), {})
<1> DEFINE t == Leave(s)
           L == Len(s.frames)
           n == NodeOf(s, L)
           C == {v \in On(s) : s.indices[n] <= s.indices[v]}
<1>1. /\ t \in Searches(V)
      /\ L \in DOMAIN s.frames /\ n = Last(s.frames).node /\ n \in On(s)
      /\ t.indices = s.indices
      /\ Len(t.frames) = L - 1 /\ DOMAIN t.frames = 1 .. L - 1
      /\ t.frames = <<>> <=> L = 1
      /\ \A i \in 1 .. L - 1 : t.frames[i] = s.frames[i] /\ NodeOf(t, i) = NodeOf(s, i)
      /\ DOMAIN t.low = DOMAIN s.indices
      /\ \A v \in DOMAIN s.indices :
            t.low[v] = IF L > 1 /\ v = NodeOf(s, L - 1) THEN Least(s.low[v], s.low[n]) ELSE s.low[v]
      /\ \E at \in DOMAIN s.stack :
            /\ s.stack[at] = n
            /\ t.stack = SubSeq(s.stack, 1, at - 1)
            /\ t.components = s.components \cup {ToSet(SubSeq(s.stack, at, Len(s.stack)))}
  BY LeaveIs
<1>2. /\ DOMAIN s.indices \subseteq V
      /\ \A v \in DOMAIN s.indices : s.indices[v] \in Nat /\ s.low[v] \in Nat
      /\ On(s) \subseteq DOMAIN s.indices
      /\ \A v, w \in On(s) : s.indices[v] = s.indices[w] => v = w
      /\ \A i \in DOMAIN s.stack : s.stack[i] \in On(s)
      /\ \A v \in On(s) : \E i \in DOMAIN s.stack : s.stack[i] = v
      /\ DOMAIN s.stack = 1 .. Len(s.stack) /\ Len(s.stack) \in Nat
      /\ DOMAIN s.frames = 1 .. L /\ L \in Nat
      /\ \A i \in DOMAIN s.frames : NodeOf(s, i) \in On(s)
  BY NumbersOf
<1>3. s.frames[L].edges = <<>> /\ s.low[n] = s.indices[n] /\ L >= 1
  BY <1>1, <1>2 DEF Last
<1>4. PICK at \in DOMAIN s.stack :
        /\ s.stack[at] = n
        /\ t.stack = SubSeq(s.stack, 1, at - 1)
        /\ t.components = s.components \cup {ToSet(SubSeq(s.stack, at, Len(s.stack)))}
  BY <1>1
<1> HIDE DEF t, n, L
<1>5. s.stack \in Seq(V) /\ at \in 1 .. Len(s.stack) /\ s.indices[n] \in Nat
  BY <1>1, <1>2 DEF SearchInv, Searches
<1>6. \A i, j \in DOMAIN s.stack : i < j => s.indices[s.stack[i]] < s.indices[s.stack[j]]
  BY DEF SearchInv, Numbered
<1>7. \A i \in DOMAIN s.stack : s.stack[i] \in C <=> at <= i
  <2> TAKE i \in DOMAIN s.stack
  <2>1. s.stack[i] \in On(s) /\ s.indices[s.stack[i]] \in Nat /\ i \in Nat /\ at \in Nat
    BY <1>2, <1>5
  <2>2. CASE i < at
    <3>1. s.indices[s.stack[i]] < s.indices[n]
      BY <1>4, <1>6, <2>2
    <3> QED
      BY <1>5, <2>1, <2>2, <3>1
  <2>3. CASE i = at
    BY <1>4, <1>5, <2>1, <2>3
  <2>4. CASE at < i
    <3>1. s.indices[n] < s.indices[s.stack[i]]
      BY <1>4, <1>6, <2>4
    <3> QED
      BY <1>5, <2>1, <2>4, <3>1
  <2> QED
    BY <2>1, <2>2, <2>3, <2>4
<1>8. /\ Len(t.stack) = at - 1 /\ DOMAIN t.stack = 1 .. at - 1
      /\ \A i \in 1 .. at - 1 : t.stack[i] = s.stack[i] /\ i \in DOMAIN s.stack
  <2> DEFINE q == SubSeq(s.stack, 1, at - 1)
             k == at - 1
  <2>1. k \in Nat /\ k \in Int /\ 1 \in Int /\ \A i \in 1 .. k : i \in DOMAIN s.stack /\ s.stack[i] \in V
    BY <1>2, <1>5
  <2>2. q = SubSeq(s.stack, 1, k)
    OBVIOUS
  <2> HIDE DEF q, k
  <2>3. /\ q \in Seq(V) /\ Len(q) = IF 1 <= k THEN k - 1 + 1 ELSE 0
        /\ \A i \in 1 .. k - 1 + 1 : q[i] = s.stack[1 + i - 1]
    BY <2>1, <2>2, SubSeqProperties
  <2>4. Len(q) = k /\ DOMAIN q = 1 .. k /\ k - 1 + 1 = k /\ \A i \in 1 .. k : 1 + i - 1 = i
    BY <2>1, <2>3
  <2>5. \A i \in 1 .. k : q[i] = s.stack[i]
    BY <2>3, <2>4
  <2> QED
    BY <1>4, <2>1, <2>4, <2>5 DEF q, k
<1>9. ToSet(SubSeq(s.stack, at, Len(s.stack))) = C
  <2> DEFINE q == SubSeq(s.stack, at, Len(s.stack))
             k == Len(s.stack)
  <2>1. k \in Nat /\ at \in 1 .. k /\ at \in Int /\ k \in Int /\ \A i \in at .. k : i \in DOMAIN s.stack /\ s.stack[i] \in V
    BY <1>2, <1>5
  <2>2. q = SubSeq(s.stack, at, k)
    OBVIOUS
  <2> HIDE DEF q, k, C
  <2>3. /\ q \in Seq(V) /\ Len(q) = IF at <= k THEN k - at + 1 ELSE 0
        /\ \A i \in 1 .. k - at + 1 : q[i] = s.stack[at + i - 1]
    BY <2>1, <2>2, SubSeqProperties
  <2>4. DOMAIN q = 1 .. k - at + 1
    BY <2>1, <2>3
  <2>5. ASSUME NEW v \in ToSet(q)
        PROVE  v \in C
    <3>1. PICK i \in 1 .. k - at + 1 : q[i] = v
      BY <2>4 DEF ToSet
    <3>2. at + i - 1 \in at .. k
      BY <2>1
    <3> QED
      BY <1>7, <2>1, <2>3, <3>1, <3>2
  <2>6. ASSUME NEW v \in C
        PROVE  v \in ToSet(q)
    <3>1. PICK i \in DOMAIN s.stack : s.stack[i] = v
      BY <1>2 DEF C
    <3>2. at <= i /\ i \in 1 .. k
      BY <1>2, <1>7, <3>1 DEF k
    <3>3. i - at + 1 \in 1 .. k - at + 1 /\ at + (i - at + 1) - 1 = i
      BY <2>1, <3>2
    <3>4. q[i - at + 1] = v
      BY <2>3, <3>1, <3>3
    <3> QED
      BY <2>4, <3>3, <3>4 DEF ToSet
  <2> QED
    BY <2>5, <2>6 DEF q
<1>10. t.components = s.components \cup {C} /\ Released(t) = Released(s) \cup C
  BY <1>4, <1>9 DEF Released
<1>11. On(t) = On(s) \ C
  <2> HIDE DEF C
  <2>1. ASSUME NEW v \in On(t)
        PROVE  v \in On(s) \ C
    <3>1. PICK i \in 1 .. at - 1 : t.stack[i] = v
      BY <1>8 DEF On, ToSet
    <3>2. i \in DOMAIN s.stack /\ s.stack[i] = v /\ ~(at <= i)
      BY <1>5, <1>8, <3>1
    <3> QED
      BY <1>2, <1>7, <3>2
  <2>2. ASSUME NEW v \in On(s), v \notin C
        PROVE  v \in On(t)
    <3>1. PICK i \in DOMAIN s.stack : s.stack[i] = v
      BY <1>2
    <3>2. i \in 1 .. at - 1
      BY <1>2, <1>5, <1>7, <2>2, <3>1
    <3> QED
      BY <1>8, <3>1, <3>2 DEF On, ToSet
  <2> QED
    BY <2>1, <2>2
<1>12. \A v \in On(t) : v \in On(s) /\ s.indices[v] < s.indices[n] /\ s.indices[v] \in Nat /\ s.low[v] \in Nat
  BY <1>2, <1>5, <1>11
<1>13. \A i \in DOMAIN t.frames : /\ i \in DOMAIN s.frames /\ i < L /\ NodeOf(t, i) = NodeOf(s, i)
                                  /\ t.frames[i] = s.frames[i] /\ NodeOf(s, i) \in On(t)
  <2> TAKE i \in DOMAIN t.frames
  <2>1. i \in DOMAIN s.frames /\ i < L /\ NodeOf(t, i) = NodeOf(s, i) /\ t.frames[i] = s.frames[i]
    BY <1>1, <1>2
  <2>2. s.indices[NodeOf(s, i)] < s.indices[n]
    BY <1>1, <2>1 DEF SearchInv, Framed, n
  <2>3. NodeOf(s, i) \in On(s) /\ s.indices[NodeOf(s, i)] \in Nat
    BY <1>2, <2>1
  <2>4. NodeOf(s, i) \notin C
    BY <1>5, <2>2, <2>3
  <2> QED
    BY <1>11, <2>1, <2>3, <2>4
<1>14. \A i \in DOMAIN s.frames : i # L => i \in DOMAIN t.frames
  BY <1>1, <1>2
<1>15. \A v \in C : v # n => ~Framing(s, v) /\ s.indices[n] < s.indices[v]
  <2> SUFFICES ASSUME NEW v \in C, v # n
               PROVE  ~Framing(s, v) /\ s.indices[n] < s.indices[v]
    OBVIOUS
  <2>1. s.indices[n] < s.indices[v]
    <3>1. s.indices[n] # s.indices[v] /\ s.indices[v] \in Nat
      BY <1>1, <1>2
    <3> QED
      BY <1>5, <3>1
  <2>2. ASSUME NEW i \in DOMAIN s.frames, NodeOf(s, i) = v
        PROVE  FALSE
    <3>1. i # L
      BY <2>2 DEF n
    <3>2. NodeOf(s, i) \in On(t)
      BY <1>13, <1>14, <3>1
    <3> QED
      BY <1>11, <2>2, <3>2
  <2> QED
    BY <2>1, <2>2 DEF Framing
<1>16. \A v \in On(t) : Framing(t, v) <=> Framing(s, v)
  <2> TAKE v \in On(t)
  <2>1. v # n
    BY <1>5, <1>12
  <2> QED
    BY <1>13, <1>14, <2>1 DEF Framing, n
<1>17. \A v \in On(t) : t.low[v] = s.low[v]
  <2> TAKE v \in On(t)
  <2>1. v \in On(s) /\ s.low[v] <= s.indices[v]
    BY <1>12 DEF SearchInv, Lowered
  <2>2. s.low[v] \in Nat /\ s.indices[v] \in Nat /\ s.indices[v] < s.low[n] /\ s.low[n] \in Nat
    BY <1>3, <1>5, <1>12, <2>1
  <2>3. Least(s.low[v], s.low[n]) = s.low[v]
    BY <2>1, <2>2 DEF Least
  <2> QED
    BY <1>1, <1>2, <2>1, <2>3
<1>18. \A v \in C : s.indices[n] <= s.low[v] /\ s.low[v] \in Nat
  <2> TAKE v \in C
  <2>1. s.low[v] \in Nat
    BY <1>2
  <2>2. CASE v = n
    BY <1>3, <1>5, <2>2
  <2>3. CASE v # n
    <3>1. ~Framing(s, v) /\ s.indices[n] < s.indices[v]
      BY <1>15, <2>3
    <3>2. \A j \in DOMAIN s.frames : ~(L < j)
      BY <1>2
    <3>3. s.low[NodeOf(s, L)] <= s.low[v]
      BY <1>1, <3>1, <3>2 DEF SearchInv, Learned, n
    <3> QED
      BY <1>3, <2>1, <3>3 DEF n
  <2> QED
    BY <2>1, <2>2, <2>3

\* All of it leads to the root, as every other leads to one with a smaller number.
<1>19. \A v \in C : Leads(deps, V, v, n) /\ Leads(deps, V, n, v)
  <2> DEFINE Bad == {v \in C : ~Leads(deps, V, v, n)}
             Numbers == {s.indices[v] : v \in Bad}
  <2>1. Bad = {}
    <3> SUFFICES ASSUME Bad # {} PROVE FALSE
      OBVIOUS
    <3>1. \A v \in Bad : v \in C /\ ~Leads(deps, V, v, n) /\ v \in On(s) /\ s.indices[v] \in Nat
      BY <1>2
    <3>2. Numbers \subseteq Nat /\ Numbers # {}
      BY <3>1
    <3> HIDE DEF Bad, C
    <3>3. PICK x \in Numbers : \A y \in Numbers : x <= y
      <4> HIDE DEF Numbers
      <4> QED
        BY <3>2, LeastNumber
    <3>4. PICK v \in Bad : x = s.indices[v]
      BY <3>3
    <3>5. v # n
      BY <3>1, <3>4, LeadsOn
    <3>6. s.low[v] < s.indices[v]
      <4>1. s.low[v] <= s.indices[v] /\ s.low[v] # s.indices[v]
        BY <1>15, <3>1, <3>4, <3>5 DEF SearchInv, Lowered
      <4> QED
        BY <1>18, <3>1, <3>4, <4>1
    <3>7. PICK w \in On(s) : s.indices[w] = s.low[v] /\ Leads(deps, V, v, w)
      BY <3>1, <3>4 DEF SearchInv, Lowered
    <3>8. w \in C
      BY <1>18, <3>1, <3>4, <3>7 DEF C
    <3>9. s.indices[w] \in Nat /\ s.indices[v] \in Nat
      BY <1>2, <3>1, <3>4, <3>7
    <3>10. w \notin Bad
      <4> SUFFICES ASSUME w \in Bad PROVE FALSE
        OBVIOUS
      <4>1. s.indices[v] <= s.indices[w]
        BY <3>3, <3>4
      <4> QED
        BY <3>6, <3>7, <3>9, <4>1
    <3>11. Leads(deps, V, w, n)
      BY <3>8, <3>10 DEF Bad
    <3>12. Leads(deps, V, v, n)
      BY <3>7, <3>11, LeadsOn
    <3> QED
      BY <3>1, <3>4, <3>12
  <2>2. \A v \in C : Leads(deps, V, n, v)
    BY <1>1 DEF SearchInv, Grown, n
  <2> QED
    BY <2>1, <2>2
<1>20. ShutIn(deps, V, Released(t))
  <2> SUFFICES ASSUME NEW v \in Released(t), NEW w \in Onward(deps, V, v)
               PROVE  w \in Released(t)
    BY DEF ShutIn
  <2>1. CASE v \in Released(s)
    BY <1>10, <2>1 DEF SearchInv, Emitted, ShutIn
  <2>2. CASE v \in C
    <3>1. v \in On(s)
      BY <2>2
    <3>2. Accounts(s, v, w) \/ Awaits(s, v, w)
      BY <3>1 DEF SearchInv, Traced
    <3>3. CASE w \in Released(s)
      BY <1>10, <3>3
    <3>4. CASE w \in On(s) /\ s.low[v] <= s.indices[w]
      <4>1. s.indices[w] \in Nat /\ s.indices[n] <= s.low[v] /\ s.low[v] \in Nat
        BY <1>2, <1>18, <2>2, <3>4
      <4>2. s.indices[n] <= s.indices[w]
        BY <1>5, <3>4, <4>1
      <4> QED
        BY <1>10, <3>4, <4>2
    <3>5. CASE Awaits(s, v, w)
      <4>1. PICK i \in DOMAIN s.frames :
              /\ NodeOf(s, i) = v
              /\ w \in ToSet(s.frames[i].edges) \/ (i < L /\ NodeOf(s, i + 1) = w)
        BY <3>5 DEF Awaits, L
      <4>2. i = L
        BY <1>11, <1>13, <1>14, <2>2, <4>1
      <4>3. w \in ToSet(s.frames[L].edges)
        BY <1>2, <4>1, <4>2
      <4> QED
        BY <1>3, <4>3 DEF ToSet
    <3> QED
      BY <3>2, <3>3, <3>4, <3>5 DEF Accounts
  <2> QED
    BY <1>10, <2>1, <2>2
<1>21. Released(s) \subseteq V /\ C \subseteq V /\ n \in V /\ n \in C /\ Released(s) \cap C = {} /\ ShutIn(deps, V, Released(s))
  <2>1. Released(s) \subseteq DOMAIN s.indices /\ On(s) \cap Released(s) = {}
    BY DEF SearchInv, Numbered
  <2>2. ShutIn(deps, V, Released(s))
    BY DEF SearchInv, Emitted
  <2> QED
    BY <1>1, <1>2, <1>5, <2>1, <2>2
<1>22. C = Kin(deps, V, n)
  <2> HIDE DEF C
  <2>1. \A v \in C : v \in Kin(deps, V, n)
    BY <1>19, <1>21, LeadsOn
  <2>2. ASSUME NEW v \in Kin(deps, V, n)
        PROVE  v \in C
    <3>1. Released(t) \in SUBSET V
      BY <1>10, <1>21
    <3>2. v \in Released(t)
      BY <1>10, <1>20, <1>21, <3>1 DEF Kin
    <3>3. v \notin Released(s)
      BY <1>21 DEF Kin
    <3> QED
      BY <1>10, <3>2, <3>3
  <2> QED
    BY <2>1, <2>2
<1> HIDE DEF C
<1>23. Emitted(deps, V, t)
  BY <1>10, <1>20, <1>21, <1>22 DEF SearchInv, Emitted, Kinds
<1>24. Numbered(t)
  <2>1. DOMAIN t.low = DOMAIN t.indices
    BY <1>1
  <2>2. DOMAIN t.indices = On(t) \cup Released(t) /\ On(t) \cap Released(t) = {}
    <3>1. DOMAIN s.indices = On(s) \cup Released(s) /\ On(s) \cap Released(s) = {} /\ C \subseteq On(s)
      BY DEF SearchInv, Numbered, C
    <3> QED
      BY <1>1, <1>10, <1>11, <3>1
  <2>3. \A v \in DOMAIN t.indices : t.indices[v] < Cardinality(DOMAIN t.indices)
    BY <1>1 DEF SearchInv, Numbered
  <2>4. \A i, j \in DOMAIN t.stack : i < j => t.indices[t.stack[i]] < t.indices[t.stack[j]]
    BY <1>1, <1>6, <1>8
  <2> QED
    BY <2>1, <2>2, <2>3, <2>4 DEF Numbered
<1>25. Framed(deps, V, t)
  <2>1. t.stack # <<>> => t.frames # <<>> /\ NodeOf(t, 1) = t.stack[1]
    <3> SUFFICES ASSUME t.stack # <<>>
                 PROVE  t.frames # <<>> /\ NodeOf(t, 1) = t.stack[1]
      OBVIOUS
    <3>1. 1 \in 1 .. at - 1
      <4>1. t.stack \in Seq(V)
        BY <1>1 DEF Searches
      <4> QED
        BY <1>5, <1>8, <4>1
    <3>2. t.stack[1] = s.stack[1] /\ 1 \in DOMAIN s.stack /\ s.stack # <<>>
      BY <1>2, <1>8, <3>1
    <3>3. NodeOf(s, 1) = s.stack[1]
      BY <3>2 DEF SearchInv, Framed
    <3>4. L # 1
      <4> SUFFICES ASSUME L = 1 PROVE FALSE
        OBVIOUS
      <4>1. s.stack[1] = n
        BY <3>3 DEF n
      <4>2. s.indices[s.stack[1]] < s.indices[s.stack[at]]
        BY <1>5, <1>6, <3>1, <3>2
      <4> QED
        BY <1>4, <1>5, <4>1, <4>2
    <3>5. 1 \in 1 .. L - 1 /\ t.frames # <<>>
      BY <1>1, <1>2, <1>3, <3>4
    <3> QED
      BY <1>1, <3>2, <3>3, <3>5
  <2>2. \A i \in DOMAIN t.frames : NodeOf(t, i) \in On(t)
    BY <1>13
  <2>3. \A i, j \in DOMAIN t.frames : i < j => t.indices[NodeOf(t, i)] < t.indices[NodeOf(t, j)]
    BY <1>1, <1>13 DEF SearchInv, Framed
  <2>4. \A i \in DOMAIN t.frames :
          /\ ToSet(t.frames[i].edges) \subseteq Onward(deps, V, NodeOf(t, i))
          /\ \A a, b \in DOMAIN t.frames[i].edges :
                t.frames[i].edges[a] = t.frames[i].edges[b] => a = b
    BY <1>13 DEF SearchInv, Framed
  <2> QED
    BY <2>1, <2>2, <2>3, <2>4 DEF Framed
<1>26. Lowered(deps, V, t)
  <2> SUFFICES ASSUME NEW v \in On(t)
               PROVE  /\ t.low[v] <= s.indices[v]
                      /\ \E x \in On(t) : s.indices[x] = t.low[v] /\ Leads(deps, V, v, x)
                      /\ t.low[v] = s.indices[v] => Framing(t, v)
    BY <1>1 DEF Lowered
  <2>1. /\ v \in On(s) /\ s.low[v] <= s.indices[v]
        /\ s.low[v] = s.indices[v] => Framing(s, v)
    BY <1>12 DEF SearchInv, Lowered
  <2>2. PICK x \in On(s) : s.indices[x] = s.low[v] /\ Leads(deps, V, v, x)
    BY <2>1 DEF SearchInv, Lowered
  <2>3. x \notin C
    <3>1. s.indices[x] < s.indices[n]
      BY <1>5, <1>12, <2>1, <2>2
    <3>2. s.indices[x] \in Nat
      BY <1>2, <2>2
    <3> QED
      BY <1>5, <3>1, <3>2 DEF C
  <2> QED
    BY <1>11, <1>16, <1>17, <2>1, <2>2, <2>3
<1>27. Grown(deps, V, t)
  BY <1>1, <1>12, <1>13 DEF SearchInv, Grown
<1>28. Learned(t)
  <2> SUFFICES ASSUME NEW i \in DOMAIN t.frames, NEW v \in On(t),
                      ~Framing(t, v), s.indices[NodeOf(s, i)] < s.indices[v],
                      \A j \in DOMAIN t.frames : i < j => s.indices[v] < s.indices[NodeOf(t, j)]
               PROVE  t.low[NodeOf(s, i)] <= t.low[v]
    BY <1>1, <1>13 DEF Learned
  <2>1. \A j \in DOMAIN s.frames : i < j => s.indices[v] < s.indices[NodeOf(s, j)]
    <3> SUFFICES ASSUME NEW j \in DOMAIN s.frames, i < j
                 PROVE  s.indices[v] < s.indices[NodeOf(s, j)]
      OBVIOUS
    <3>1. CASE j = L
      BY <1>12, <3>1 DEF n
    <3>2. CASE j # L
      BY <1>13, <1>14, <3>2
    <3> QED
      BY <3>1, <3>2
  <2>2. ~Framing(s, v) /\ v \in On(s) /\ i \in DOMAIN s.frames
    BY <1>12, <1>13, <1>16
  <2>3. s.low[NodeOf(s, i)] <= s.low[v]
    BY <2>1, <2>2 DEF SearchInv, Learned
  <2> QED
    BY <1>13, <1>17, <2>3
<1>29. Traced(deps, V, t, {})
  <2> SUFFICES ASSUME NEW v \in On(t), NEW w \in Onward(deps, V, v)
               PROVE  Accounts(t, v, w) \/ Awaits(t, v, w)
    BY DEF Traced
  <2>1. v \in On(s) /\ t.low[v] = s.low[v]
    BY <1>12, <1>17
  <2>2. Accounts(s, v, w) \/ Awaits(s, v, w)
    BY <2>1 DEF SearchInv, Traced
  <2>3. CASE w \in Released(t)
    BY <2>3 DEF Accounts
  <2>4. CASE w \notin Released(t)
    <3>1. w \notin C /\ w \notin Released(s)
      BY <1>10, <2>4
    <3>2. CASE Accounts(s, v, w)
      BY <1>1, <1>11, <2>1, <3>1, <3>2 DEF Accounts
    <3>3. CASE Awaits(s, v, w)
      <4>1. PICK i \in DOMAIN s.frames :
              /\ NodeOf(s, i) = v
              /\ w \in ToSet(s.frames[i].edges) \/ (i < L /\ NodeOf(s, i + 1) = w)
        BY <3>3 DEF Awaits, L
      <4>2. i # L
        BY <1>11, <1>21, <4>1 DEF n
      <4>3. i \in DOMAIN t.frames /\ NodeOf(t, i) = v /\ t.frames[i] = s.frames[i]
        BY <1>13, <1>14, <4>1, <4>2
      <4>4. CASE w \in ToSet(s.frames[i].edges)
        BY <4>3, <4>4 DEF Awaits
      <4>5. CASE i < L /\ NodeOf(s, i + 1) = w
        <5>1. i + 1 # L
          <6> SUFFICES ASSUME i + 1 = L PROVE FALSE
            OBVIOUS
          <6>1. w = n
            BY <4>5 DEF n
          <6> QED
            BY <1>21, <3>1, <6>1
        <5>2. i + 1 \in DOMAIN s.frames /\ i < L - 1
          BY <1>2, <4>1, <4>5, <5>1
        <5>3. NodeOf(t, i + 1) = w /\ i < Len(t.frames)
          BY <1>1, <1>13, <1>14, <4>5, <5>1, <5>2
        <5> QED
          BY <4>3, <5>3 DEF Awaits
      <4> QED
        BY <4>1, <4>4, <4>5
    <3> QED
      BY <2>2, <3>2, <3>3
  <2> QED
    BY <2>3, <2>4
<1> QED
  BY <1>1, <1>23, <1>24, <1>25, <1>26, <1>27, <1>28, <1>29 DEF SearchInv, t

\* What a search of V has left to do: the nodes to leave, the edges to follow.
EdgesOf(deps, V) == {e \in V \X V : e[1] \in deps[e[2]]}
Unleft(V, s) == {v \in V : v \in DOMAIN s.indices => Framing(s, v)}
Unfollowed(deps, V, s) ==
    {e \in EdgesOf(deps, V) :
        e[1] \in DOMAIN s.indices =>
            \E i \in DOMAIN s.frames : NodeOf(s, i) = e[1] /\ e[2] \in ToSet(s.frames[i].edges)}

Shrinks(deps, V, s, t) ==
    /\ DOMAIN s.indices \subseteq DOMAIN t.indices
    /\ Unleft(V, t) \subseteq Unleft(V, s) /\ Unfollowed(deps, V, t) \subseteq Unfollowed(deps, V, s)
    /\ Unleft(V, t) # Unleft(V, s) \/ Unfollowed(deps, V, t) # Unfollowed(deps, V, s)

\* Nodes have one frame at most.
LEMMA FramesOnce ==
    ASSUME NEW deps, NEW V, NEW s, NEW apart, SearchInv(deps, V, s, apart),
           NEW i \in DOMAIN s.frames, NEW j \in DOMAIN s.frames, NodeOf(s, i) = NodeOf(s, j)
    PROVE  i = j
<1>1. \A a, b \in DOMAIN s.frames : a < b => s.indices[NodeOf(s, a)] < s.indices[NodeOf(s, b)]
  BY DEF SearchInv, Framed
<1>2. i \in Nat /\ j \in Nat
  BY NumbersOf
<1>3. s.indices[NodeOf(s, i)] \in Nat
  BY NumbersOf
<1>4. ~(i < j) /\ ~(j < i)
  BY <1>1, <1>3
<1> QED
  BY <1>2, <1>4

\* Following an edge leaves one edge less.
LEMMA FollowShrinks ==
    ASSUME NEW deps, IsGraph(deps), NEW V \in SUBSET (DOMAIN deps), NEW s,
           SearchInv(deps, V, s, {}), s.frames # <<>>, Last(s.frames).edges # <<>>,
           NEW w, w = Head(Last(s.frames).edges), NEW t,
           DOMAIN s.indices \subseteq DOMAIN t.indices,
           DOMAIN t.indices \subseteq DOMAIN s.indices \cup {w},
           w \in DOMAIN s.indices \/ w \notin DOMAIN t.indices \/ Framing(t, w),
           \A i \in DOMAIN t.frames :
              \/ i \in DOMAIN s.frames /\ t.frames[i] = EdgeTaken(s).frames[i]
              \/ /\ NodeOf(t, i) = w /\ w \notin DOMAIN s.indices
                 /\ ToSet(t.frames[i].edges) \subseteq Onward(deps, V, w)
    PROVE  Shrinks(deps, V, s, t)
<1> DEFINE L == Len(s.frames)
           m == EdgeTaken(s)
           f == NodeOf(s, L)
<1>1. /\ L \in DOMAIN s.frames /\ Last(s.frames) = s.frames[L]
      /\ \A i \in DOMAIN s.frames : NodeOf(m, i) = NodeOf(s, i)
      /\ \A i \in DOMAIN s.frames : i # L => m.frames[i] = s.frames[i]
      /\ m.frames[L].edges = Tail(s.frames[L].edges)
      /\ s.frames[L].edges \in Seq(V)
  BY EdgeTakenIs
<1>2. /\ DOMAIN s.indices \subseteq V /\ On(s) \subseteq DOMAIN s.indices
      /\ \A i \in DOMAIN s.frames : NodeOf(s, i) \in On(s)
  BY NumbersOf
<1>3. w \in Onward(deps, V, f) /\ f \in DOMAIN s.indices /\ f \in V
  <2>1. Head(Last(s.frames).edges) \in Onward(deps, V, Last(s.frames).node)
    BY EdgeTakenKeeps, Zenon
  <2> QED
    BY <2>1, <1>1, <1>2 DEF NodeOf
<1>4. /\ \A j, k \in DOMAIN s.frames[L].edges :
            s.frames[L].edges[j] = s.frames[L].edges[k] => j = k
      /\ \A i \in DOMAIN s.frames : ToSet(s.frames[i].edges) \subseteq Onward(deps, V, NodeOf(s, i))
  BY <1>1 DEF SearchInv, Framed
<1>5. /\ w \in ToSet(s.frames[L].edges)
      /\ ToSet(m.frames[L].edges) = ToSet(s.frames[L].edges) \ {w}
  <2> DEFINE e == s.frames[L].edges
  <2>1. e \in Seq(V) /\ e # <<>> /\ w = Head(e) /\ m.frames[L].edges = Tail(e)
    BY <1>1
  <2>2. \A j, k \in DOMAIN e : e[j] = e[k] => j = k
    BY <1>4
  <2> HIDE DEF e
  <2>3. Head(e) \in ToSet(e) /\ ToSet(Tail(e)) = ToSet(e) \ {Head(e)}
    BY <2>1, <2>2, TailOnce, Zenon
  <2> QED
    BY <2>1, <2>3 DEF e
<1> HIDE DEF m, L, f
<1>6. \A i \in DOMAIN s.frames : m.frames[i].edges = s.frames[i].edges \/ i = L
  BY <1>1
<1>7. \A i \in DOMAIN s.frames : ToSet(m.frames[i].edges) \subseteq ToSet(s.frames[i].edges)
  BY <1>5, <1>6
<1>8. \A i \in DOMAIN t.frames :
         \/ /\ i \in DOMAIN s.frames /\ NodeOf(t, i) = NodeOf(s, i)
            /\ ToSet(t.frames[i].edges) \subseteq ToSet(s.frames[i].edges)
            /\ i = L => w \notin ToSet(t.frames[i].edges)
         \/ /\ NodeOf(t, i) = w /\ w \notin DOMAIN s.indices
            /\ ToSet(t.frames[i].edges) \subseteq Onward(deps, V, w)
  <2> SUFFICES ASSUME NEW i \in DOMAIN t.frames, i \in DOMAIN s.frames, t.frames[i] = m.frames[i]
               PROVE  /\ NodeOf(t, i) = NodeOf(s, i)
                      /\ ToSet(t.frames[i].edges) \subseteq ToSet(s.frames[i].edges)
                      /\ i = L => w \notin ToSet(t.frames[i].edges)
    BY DEF m
  <2>1. NodeOf(t, i) = NodeOf(m, i)
    BY DEF NodeOf
  <2> QED
    BY <2>1, <1>1, <1>5, <1>7
<1>9. Unleft(V, t) \subseteq Unleft(V, s)
  <2> SUFFICES ASSUME NEW v \in V, v \in DOMAIN t.indices => Framing(t, v), v \in DOMAIN s.indices
               PROVE  Framing(s, v)
    BY DEF Unleft
  <2>1. PICK i \in DOMAIN t.frames : NodeOf(t, i) = v
    BY DEF Framing
  <2> QED
    BY <2>1, <1>8 DEF Framing
<1>10. \A v, x : x \in Onward(deps, V, v) /\ v \in V => <<v, x>> \in EdgesOf(deps, V)
  BY DEF Onward, Followers, EdgesOf
<1>11. \A e \in EdgesOf(deps, V) : e[1] \in V /\ e[2] \in V /\ e[2] \in Onward(deps, V, e[1]) /\ e = <<e[1], e[2]>>
  BY DEF Onward, Followers, EdgesOf
<1>12. Unfollowed(deps, V, t) \subseteq Unfollowed(deps, V, s)
  <2> SUFFICES ASSUME NEW e \in EdgesOf(deps, V), e[1] \in DOMAIN s.indices,
                      \E i \in DOMAIN t.frames :
                         NodeOf(t, i) = e[1] /\ e[2] \in ToSet(t.frames[i].edges)
               PROVE  \E i \in DOMAIN s.frames : NodeOf(s, i) = e[1] /\ e[2] \in ToSet(s.frames[i].edges)
    BY DEF Unfollowed
  <2>1. PICK i \in DOMAIN t.frames : NodeOf(t, i) = e[1] /\ e[2] \in ToSet(t.frames[i].edges)
    OBVIOUS
  <2> QED
    BY <2>1, <1>8
<1>13. <<f, w>> \in Unfollowed(deps, V, s)
  <2>1. <<f, w>> \in EdgesOf(deps, V)
    BY <1>3, <1>10
  <2>2. NodeOf(s, L) = <<f, w>>[1] /\ <<f, w>>[2] \in ToSet(s.frames[L].edges)
    BY <1>5 DEF f
  <2> QED
    BY <2>1, <2>2, <1>1 DEF Unfollowed
<1>14. <<f, w>> \notin Unfollowed(deps, V, t)
  <2> SUFFICES ASSUME NEW i \in DOMAIN t.frames, NodeOf(t, i) = f, w \in ToSet(t.frames[i].edges)
               PROVE  FALSE
    BY <1>3 DEF Unfollowed
  <2>1. i \in DOMAIN s.frames /\ NodeOf(s, i) = f /\ i # L
    BY <1>3, <1>8
  <2>2. i = L
    BY <2>1, <1>1, FramesOnce DEF f
  <2> QED
    BY <2>1, <2>2
<1> QED
  BY <1>9, <1>12, <1>13, <1>14 DEF Shrinks

\* Leaving a node leaves one node less.
LEMMA LeaveShrinks ==
    ASSUME NEW deps, NEW V, NEW s, SearchInv(deps, V, s, {}), s.frames # <<>>
    PROVE  Shrinks(deps, V, s, Leave(s))
<1> DEFINE t == Leave(s)
           L == Len(s.frames)
           n == NodeOf(s, L)
<1>1. /\ L \in DOMAIN s.frames /\ n \in On(s)
      /\ t.indices = s.indices /\ DOMAIN t.frames = 1 .. L - 1
      /\ \A i \in 1 .. L - 1 : t.frames[i] = s.frames[i] /\ NodeOf(t, i) = NodeOf(s, i)
  BY LeaveIs
<1>2. /\ DOMAIN s.indices \subseteq V /\ On(s) \subseteq DOMAIN s.indices
      /\ DOMAIN s.frames = 1 .. L /\ L \in Nat
  BY NumbersOf
<1> HIDE DEF t
<1>3. \A i \in DOMAIN t.frames : i \in DOMAIN s.frames /\ i # L
  BY <1>1, <1>2
<1>4. Unleft(V, t) \subseteq Unleft(V, s)
  BY <1>1, <1>3 DEF Unleft, Framing
<1>5. Unfollowed(deps, V, t) \subseteq Unfollowed(deps, V, s)
  BY <1>1, <1>3 DEF Unfollowed
<1>6. n \in Unleft(V, s)
  BY <1>1, <1>2 DEF Unleft, Framing
<1>7. n \notin Unleft(V, t)
  <2> SUFFICES ASSUME NEW i \in DOMAIN t.frames, NodeOf(t, i) = n
               PROVE  FALSE
    BY <1>1, <1>2 DEF Unleft, Framing
  <2>1. i \in DOMAIN s.frames /\ NodeOf(s, i) = n /\ i # L
    BY <1>1, <1>3
  <2> QED
    BY <2>1, <1>1, FramesOnce
<1> QED
  BY <1>1, <1>4, <1>5, <1>6, <1>7 DEF Shrinks, t

\* A turn of the search keeps its invariant and leaves less to do.
LEMMA FollowKeeps ==
    ASSUME NEW deps, IsGraph(deps), NEW V \in SUBSET (DOMAIN deps), NEW s,
           SearchInv(deps, V, s, {}), s.frames # <<>>, Last(s.frames).edges # <<>>
    PROVE  SearchInv(deps, V, Follow(deps, s), {}) /\ Shrinks(deps, V, s, Follow(deps, s))
<1> DEFINE m == EdgeTaken(s)
           f == Last(s.frames).node
           w == Head(Last(s.frames).edges)
           L == Len(s.frames)
           t == Follow(deps, s)
<1>1. /\ m.indices = s.indices /\ m.low = s.low /\ m.stack = s.stack
      /\ m.components = s.components
      /\ L \in DOMAIN s.frames /\ Last(s.frames) = s.frames[L] /\ Len(m.frames) = L
      /\ DOMAIN m.frames = DOMAIN s.frames /\ m.frames # <<>>
      /\ \A i \in DOMAIN s.frames : NodeOf(m, i) = NodeOf(s, i)
      /\ m \in Searches(V)
  BY EdgeTakenIs
<1>2. w \in Onward(deps, V, f) /\ SearchInv(deps, V, m, {<<f, w>>})
  BY EdgeTakenKeeps, Zenon
<1>3. t = CASE w \notin DOMAIN s.indices -> Visit(deps, m, w)
            [] w \in DOMAIN s.indices /\ Contains(s.stack, w) ->
                  [m EXCEPT !.low[f] = Least(@, s.indices[w])]
            [] OTHER -> m
  BY DEF Follow, EdgeTaken
<1>4. f = Last(m.frames).node
  <2>1. Last(m.frames) = m.frames[L]
    BY <1>1 DEF Last
  <2> QED
    BY <2>1, <1>1 DEF NodeOf
<1>5. w \in V
  BY <1>2 DEF Onward
<1>6. /\ DOMAIN s.indices = On(s) \cup Released(s) /\ On(m) = On(s) /\ Released(m) = Released(s)
      /\ Contains(s.stack, w) <=> w \in On(s)
  <2>1. DOMAIN s.indices = On(s) \cup Released(s)
    BY DEF SearchInv, Numbered
  <2>2. On(m) = On(s) /\ Released(m) = Released(s)
    BY <1>1 DEF On, Released
  <2>3. s.stack \in Seq(V)
    BY DEF SearchInv, Searches
  <2>4. Contains(s.stack, w) <=> w \in On(s)
    BY <2>3 DEF Contains, On, ToSet
  <2> QED
    BY <2>1, <2>2, <2>4
<1>7. DOMAIN s.frames = 1 .. L /\ L \in Nat
  BY NumbersOf
<1> HIDE DEF m, f, w, t
<1>8. CASE w \notin DOMAIN s.indices
  <2>1. t = Visit(deps, m, w)
    BY <1>3, <1>8
  <2>2. w \in V \ DOMAIN m.indices
    BY <1>1, <1>5, <1>8
  <2>3. SearchInv(deps, V, t, {})
    <3>1. /\ m.frames # <<>> /\ {<<f, w>>} = {<<Last(m.frames).node, w>>}
          /\ w \in Onward(deps, V, Last(m.frames).node)
      BY <1>1, <1>2, <1>4
    <3> QED
      BY <2>1, <2>2, <3>1, <1>2, VisitKeeps
  <2>4. /\ DOMAIN t.indices = DOMAIN s.indices \cup {w}
        /\ DOMAIN t.frames = 1 .. L + 1
        /\ \A i \in 1 .. L : t.frames[i] = m.frames[i]
        /\ NodeOf(t, L + 1) = w
        /\ ToSet(t.frames[L + 1].edges) = Onward(deps, V, w)
    BY <2>1, <2>2, <1>1, <1>2, VisitIs
  <2>5. Framing(t, w)
    BY <2>4, <1>7 DEF Framing
  <2>6. \A i \in DOMAIN t.frames :
          \/ i \in DOMAIN s.frames /\ t.frames[i] = m.frames[i]
          \/ /\ NodeOf(t, i) = w /\ w \notin DOMAIN s.indices
             /\ ToSet(t.frames[i].edges) \subseteq Onward(deps, V, w)
    BY <2>4, <1>7, <1>8
  <2>7. Shrinks(deps, V, s, t)
    BY <2>4, <2>5, <2>6, FollowShrinks DEF m, w
  <2> QED
    BY <2>3, <2>7 DEF t
<1>9. CASE w \in DOMAIN s.indices
  <2>1. t = IF w \in On(s) THEN Lowering(m, f, w) ELSE m
    BY <1>1, <1>3, <1>6, <1>9 DEF Lowering
  <2>2. SearchInv(deps, V, t, {})
    <3>1. CASE w \in On(s)
      BY <3>1, <2>1, <1>1, <1>2, <1>4, <1>6, BackKeeps
    <3>2. CASE w \notin On(s)
      BY <3>2, <2>1, <1>2, <1>6, <1>9, SkipKeeps
    <3> QED
      BY <3>1, <3>2
  <2>3. t.indices = s.indices /\ t.frames = m.frames
    BY <2>1, <1>1 DEF Lowering, Searches
  <2>4. Shrinks(deps, V, s, t)
    <3>1. \A i \in DOMAIN t.frames : i \in DOMAIN s.frames /\ t.frames[i] = m.frames[i]
      BY <2>3, <1>1
    <3>2. DOMAIN s.indices \subseteq DOMAIN t.indices /\ DOMAIN t.indices \subseteq DOMAIN s.indices \cup {w}
      BY <2>3
    <3> QED
      BY <3>1, <3>2, <1>9, FollowShrinks DEF m, w
  <2> QED
    BY <2>2, <2>4 DEF t
<1> QED
  BY <1>8, <1>9

LEMMA FrameTurnKeeps ==
    ASSUME NEW deps, IsGraph(deps), NEW V \in SUBSET (DOMAIN deps), NEW s,
           SearchInv(deps, V, s, {})
    PROVE  /\ SearchInv(deps, V, FrameTurn(deps, s), {})
           /\ IF s.frames = <<>> THEN FrameTurn(deps, s) = s
              ELSE Shrinks(deps, V, s, FrameTurn(deps, s))
<1>1. CASE s.frames = <<>>
  BY <1>1 DEF FrameTurn
<1>2. CASE s.frames # <<>> /\ Last(s.frames).edges = <<>>
  <2>1. FrameTurn(deps, s) = Leave(s)
    BY <1>2 DEF FrameTurn
  <2>2. SearchInv(deps, V, Leave(s), {})
    <3>1. CASE s.low[Last(s.frames).node] # s.indices[Last(s.frames).node]
      BY <3>1, <1>2, ReturnKeeps
    <3>2. CASE s.low[Last(s.frames).node] = s.indices[Last(s.frames).node]
      BY <3>2, <1>2, EmitKeeps
    <3> QED
      BY <3>1, <3>2
  <2>3. Shrinks(deps, V, s, Leave(s))
    BY <1>2, LeaveShrinks
  <2> QED
    BY <2>1, <2>2, <2>3, <1>2
<1>3. CASE s.frames # <<>> /\ Last(s.frames).edges # <<>>
  <2>1. FrameTurn(deps, s) = Follow(deps, s)
    BY <1>3 DEF FrameTurn
  <2> QED
    BY <2>1, <1>3, FollowKeeps
<1> QED
  BY <1>1, <1>2, <1>3

\* The search of what a root leads to.
Turns(deps, V) == Cardinality(V) + Cardinality(EdgesOf(deps, V))
IsSearchCourse(f, deps, V, s) ==
    f = [n \in 0 .. Turns(deps, V) |-> IF n = 0 THEN s ELSE FrameTurn(deps, f[n - 1])]

ToDo(deps, V, s) == Cardinality(Unleft(V, s)) + Cardinality(Unfollowed(deps, V, s))

LEMMA ToDoIs ==
    ASSUME NEW deps, IsGraph(deps), NEW V \in SUBSET (DOMAIN deps)
    PROVE  /\ Turns(deps, V) \in Nat
           /\ \A s : ToDo(deps, V, s) \in Nat /\ ToDo(deps, V, s) <= Turns(deps, V)
           /\ \A s, t : Shrinks(deps, V, s, t) => ToDo(deps, V, t) + 1 <= ToDo(deps, V, s)
           /\ \A s : ToDo(deps, V, s) = 0 => Unleft(V, s) = {}
<1>1. IsFiniteSet(V) /\ IsFiniteSet(EdgesOf(deps, V))
  <2>1. IsFiniteSet(V)
    BY NodesAreNumbers
  <2>2. IsFiniteSet(V \X V)
    BY <2>1, FS_Product
  <2>3. EdgesOf(deps, V) \in SUBSET (V \X V)
    BY DEF EdgesOf
  <2> QED
    BY <2>1, <2>2, <2>3, FS_Subset
<1>2. Cardinality(V) \in Nat /\ Cardinality(EdgesOf(deps, V)) \in Nat
  BY <1>1, FS_CardinalityType
<1>3. ASSUME NEW s
      PROVE  /\ IsFiniteSet(Unleft(V, s)) /\ IsFiniteSet(Unfollowed(deps, V, s))
             /\ Cardinality(Unleft(V, s)) \in Nat /\ Cardinality(Unfollowed(deps, V, s)) \in Nat
             /\ Cardinality(Unleft(V, s)) <= Cardinality(V)
             /\ Cardinality(Unfollowed(deps, V, s)) <= Cardinality(EdgesOf(deps, V))
  <2>1. Unleft(V, s) \in SUBSET V /\ Unfollowed(deps, V, s) \in SUBSET EdgesOf(deps, V)
    BY DEF Unleft, Unfollowed
  <2>2. IsFiniteSet(Unleft(V, s)) /\ Cardinality(Unleft(V, s)) <= Cardinality(V)
    BY <1>1, <2>1, FS_Subset
  <2>3. IsFiniteSet(Unfollowed(deps, V, s)) /\ Cardinality(Unfollowed(deps, V, s)) <= Cardinality(EdgesOf(deps, V))
    BY <1>1, <2>1, FS_Subset
  <2> QED
    BY <2>2, <2>3, FS_CardinalityType
<1>4. ASSUME NEW s, NEW t, Shrinks(deps, V, s, t)
      PROVE  ToDo(deps, V, t) + 1 <= ToDo(deps, V, s)
  <2> DEFINE A == Unleft(V, s)
             B == Unleft(V, t)
             C == Unfollowed(deps, V, s)
             D == Unfollowed(deps, V, t)
  <2>1. B \in SUBSET A /\ D \in SUBSET C /\ (B # A \/ D # C)
    BY <1>4 DEF Shrinks
  <2>2. /\ IsFiniteSet(A) /\ IsFiniteSet(C)
        /\ Cardinality(A) \in Nat /\ Cardinality(B) \in Nat
        /\ Cardinality(C) \in Nat /\ Cardinality(D) \in Nat
    BY <1>3
  <2> HIDE DEF A, B, C, D
  <2>3. Cardinality(B) <= Cardinality(A) /\ (Cardinality(A) = Cardinality(B) => A = B)
    BY <2>1, <2>2, FS_Subset
  <2>4. Cardinality(D) <= Cardinality(C) /\ (Cardinality(C) = Cardinality(D) => C = D)
    BY <2>1, <2>2, FS_Subset
  <2>5. Cardinality(B) + Cardinality(D) + 1 <= Cardinality(A) + Cardinality(C)
    BY <2>1, <2>2, <2>3, <2>4
  <2> QED
    BY <2>5 DEF ToDo, A, B, C, D
<1>5. ASSUME NEW s, ToDo(deps, V, s) = 0
      PROVE  Unleft(V, s) = {}
  <2>1. Cardinality(Unleft(V, s)) = 0
    BY <1>3, <1>5 DEF ToDo
  <2> QED
    BY <2>1, <1>3, FS_EmptySet
<1>6. Turns(deps, V) \in Nat
  BY <1>2 DEF Turns
<1>7. \A s : ToDo(deps, V, s) \in Nat /\ ToDo(deps, V, s) <= Turns(deps, V)
  BY <1>2, <1>3 DEF ToDo, Turns
<1> QED
  BY <1>4, <1>5, <1>6, <1>7

LEMMA SearchCourseExists ==
    ASSUME NEW deps, IsGraph(deps), NEW V \in SUBSET (DOMAIN deps), NEW s,
           SearchInv(deps, V, s, {})
    PROVE  \E f : IsSearchCourse(f, deps, V, s)
<1> DEFINE N == Turns(deps, V)
           S == {u \in Searches(V) : SearchInv(deps, V, u, {})}
           step == [n \in 1 .. N |-> [u \in S |-> FrameTurn(deps, u)]]
<1>1. N \in Nat
  BY ToDoIs
<1>2. \A u : SearchInv(deps, V, u, {}) => u \in S
  BY DEF SearchInv
<1>3. \A u \in S : FrameTurn(deps, u) \in S
  BY <1>2, FrameTurnKeeps
<1>4. step \in [1 .. N -> [S -> S]] /\ \A n \in 1 .. N, u \in S : step[n][u] = FrameTurn(deps, u)
  <2> HIDE DEF S
  <2> QED
    BY <1>3
<1>5. s \in S
  BY <1>2
<1> HIDE DEF S, step, N
<1>6. PICK f \in [0 .. N -> S] : IsCourse(f, N, s, step)
  BY <1>1, <1>4, <1>5, CourseExists
<1>7. ASSUME NEW n \in 0 .. N
      PROVE  f[n] = IF n = 0 THEN s ELSE FrameTurn(deps, f[n - 1])
  <2>1. CASE n = 0
    BY <1>6, <2>1 DEF IsCourse
  <2>2. CASE n # 0
    <3>1. n \in 1 .. N /\ n - 1 \in 0 .. N
      BY <1>1, <2>2
    <3>2. f[n] = step[n][f[n - 1]] /\ f[n - 1] \in S
      BY <1>6, <3>1 DEF IsCourse
    <3> QED
      BY <1>4, <2>2, <3>1, <3>2
  <2> QED
    BY <2>1, <2>2
<1>8. f = [n \in 0 .. N |-> IF n = 0 THEN s ELSE FrameTurn(deps, f[n - 1])]
  BY <1>6, <1>7
<1> QED
  BY <1>8 DEF IsSearchCourse, N

LEMMA ExploreKeeps ==
    ASSUME NEW deps, IsGraph(deps), NEW V \in SUBSET (DOMAIN deps), NEW s,
           SearchInv(deps, V, s, {})
    PROVE  /\ SearchInv(deps, V, Explore(deps, s), {})
           /\ Explore(deps, s).frames = <<>>
           /\ DOMAIN s.indices \subseteq DOMAIN Explore(deps, s).indices
<1> DEFINE N == Turns(deps, V)
           f == CHOOSE g : IsSearchCourse(g, deps, V, s)
<1>1. N \in Nat
  BY ToDoIs
<1>2. IsSearchCourse(f, deps, V, s)
  BY SearchCourseExists
<1>3. Explore(deps, s) = f[N]
  <2>1. s.selected = V
    BY DEF SearchInv, Searches
  <2>2. {e \in s.selected \X s.selected : e[1] \in deps[e[2]]} = EdgesOf(deps, V)
    BY <2>1 DEF EdgesOf
  <2>3. Cardinality(s.selected) + Cardinality({e \in s.selected \X s.selected : e[1] \in deps[e[2]]}) = N
    BY <2>1, <2>2, Zenon DEF Turns
  <2> QED
    BY <2>3, Zenon DEF Explore, IsSearchCourse
<1> DEFINE P == {n \in 0 .. N : /\ SearchInv(deps, V, f[n], {})
                                /\ DOMAIN s.indices \subseteq DOMAIN f[n].indices
                                /\ f[n].frames = <<>> \/ ToDo(deps, V, f[n]) + n <= N}
<1> HIDE DEF f
<1>4. \A n \in 0 .. N : f[n] = IF n = 0 THEN s ELSE FrameTurn(deps, f[n - 1])
  BY <1>2 DEF IsSearchCourse
<1> HIDE DEF N
<1>5. /\ \A u : ToDo(deps, V, u) \in Nat /\ ToDo(deps, V, u) <= N
      /\ \A u, t : Shrinks(deps, V, u, t) => ToDo(deps, V, t) + 1 <= ToDo(deps, V, u)
      /\ \A u : ToDo(deps, V, u) = 0 => Unleft(V, u) = {}
  BY ToDoIs DEF N
<1>6. 0 \in P
  <2>1. f[0] = s /\ 0 \in 0 .. N
    BY <1>1, <1>4
  <2>2. ToDo(deps, V, s) + 0 <= N
    BY <1>5
  <2> QED
    BY <2>1, <2>2
<1>7. ASSUME NEW n \in 0 .. N - 1, n \in P
      PROVE  n + 1 \in P
  <2> DEFINE u == f[n]
             t == FrameTurn(deps, f[n])
  <2>1. n + 1 \in 0 .. N /\ n + 1 # 0 /\ n + 1 - 1 = n
    BY <1>1
  <2>2. f[n + 1] = t
    BY <1>4, <2>1
  <2>3. SearchInv(deps, V, u, {}) /\ DOMAIN s.indices \subseteq DOMAIN u.indices
    BY <1>7
  <2>4. u.frames = <<>> \/ ToDo(deps, V, u) + n <= N
    BY <1>7
  <2> HIDE DEF u
  <2>5. /\ SearchInv(deps, V, t, {})
        /\ IF u.frames = <<>> THEN t = u ELSE Shrinks(deps, V, u, t)
    BY <2>3, FrameTurnKeeps DEF u
  <2> HIDE DEF t
  <2>6. DOMAIN u.indices \subseteq DOMAIN t.indices
    BY <2>5 DEF Shrinks
  <2>7. t.frames = <<>> \/ ToDo(deps, V, t) + (n + 1) <= N
    <3>1. CASE u.frames = <<>>
      BY <3>1, <2>5
    <3>2. CASE u.frames # <<>>
      <4>1. ToDo(deps, V, t) + 1 <= ToDo(deps, V, u)
        BY <3>2, <2>5, <1>5
      <4>2. ToDo(deps, V, t) \in Nat /\ ToDo(deps, V, u) \in Nat /\ n \in Nat
        BY <1>5
      <4> QED
        BY <4>1, <4>2, <2>4, <3>2, <1>1
    <3> QED
      BY <3>1, <3>2
  <2> QED
    BY <2>1, <2>2, <2>3, <2>5, <2>6, <2>7
<1>8. N \in P
  <2> HIDE DEF P
  <2>1. \A n \in 0 .. N : n \in P
    BY <1>1, <1>6, <1>7, Along
  <2> QED
    BY <2>1, <1>1
<1> DEFINE t == f[N]
<1>9. SearchInv(deps, V, t, {}) /\ DOMAIN s.indices \subseteq DOMAIN t.indices
  BY <1>8
<1>10. t.frames = <<>> \/ ToDo(deps, V, t) + N <= N
  BY <1>8
<1> HIDE DEF t
<1>11. t.frames = <<>>
  <2> SUFFICES ASSUME t.frames # <<>>
               PROVE  FALSE
    OBVIOUS
  <2>1. ToDo(deps, V, t) = 0
    BY <1>1, <1>5, <1>10
  <2>2. Unleft(V, t) = {}
    BY <1>5, <2>1
  <2>3. 1 \in DOMAIN t.frames /\ NodeOf(t, 1) \in On(t) /\ On(t) \subseteq V
    <3>1. /\ DOMAIN t.frames = 1 .. Len(t.frames) /\ Len(t.frames) \in Nat
          /\ \A i \in DOMAIN t.frames : NodeOf(t, i) \in On(t)
          /\ On(t) \subseteq DOMAIN t.indices /\ DOMAIN t.indices \subseteq V
      BY <1>9, NumbersOf
    <3>2. t.frames \in Seq(FramesOf(V))
      BY <1>9 DEF SearchInv, Searches
    <3>3. Len(t.frames) # 0
      BY <3>2
    <3> QED
      BY <3>1, <3>3
  <2> QED
    BY <2>2, <2>3 DEF Unleft, Framing
<1> QED
  BY <1>3, <1>9, <1>11 DEF t

\* A search over all the nodes.
LEMMA UnvisitedIs ==
    ASSUME NEW deps, NEW V, IsFiniteSet(V)
    PROVE  SearchInv(deps, V, Unvisited(V), {}) /\ Unvisited(V).frames = <<>>
<1> DEFINE s == Unvisited(V)
<1>1. /\ s.selected = V /\ s.indices = <<>> /\ s.low = <<>> /\ s.stack = <<>> /\ s.frames = <<>>
      /\ s.components = {} /\ DOMAIN s = {"selected", "indices", "low", "stack", "frames", "components"}
  BY DEF Unvisited
<1>2. DOMAIN <<>> = {} /\ <<>> \in [{} -> Nat]
  OBVIOUS
<1>3. <<>> \in Numberings(V)
  BY <1>2 DEF Numberings
<1>4. s \in Searches(V)
  BY <1>3 DEF Searches, Unvisited
<1> HIDE DEF s
<1>5. On(s) = {} /\ Released(s) = {}
  BY <1>1, <1>2 DEF On, Released, ToSet
<1>6. Numbered(s)
  BY <1>1, <1>2, <1>5 DEF Numbered
<1>7. Framed(deps, V, s)
  BY <1>1, <1>2, <1>5 DEF Framed
<1>8. Lowered(deps, V, s) /\ Grown(deps, V, s) /\ Learned(s) /\ Traced(deps, V, s, {})
  BY <1>5 DEF Lowered, Grown, Learned, Traced
<1>9. Emitted(deps, V, s)
  BY <1>1, <1>5 DEF Emitted, ShutIn
<1> QED
  BY <1>1, <1>4, <1>6, <1>7, <1>8, <1>9 DEF SearchInv, s

AtRoot(deps, V, s) == SearchInv(deps, V, s, {}) /\ s.frames = <<>>

LEMMA FromKeeps ==
    ASSUME NEW deps, IsGraph(deps), NEW V \in SUBSET (DOMAIN deps), NEW s,
           AtRoot(deps, V, s), NEW n \in V
    PROVE  /\ AtRoot(deps, V, From(deps, s, n))
           /\ DOMAIN s.indices \cup {n} \subseteq DOMAIN From(deps, s, n).indices
<1>1. CASE n \in DOMAIN s.indices
  BY <1>1 DEF From
<1>2. CASE n \notin DOMAIN s.indices
  <2>1. From(deps, s, n) = Explore(deps, Visit(deps, s, n))
    BY <1>2 DEF From
  <2>2. SearchInv(deps, V, Visit(deps, s, n), {})
    BY <1>2, VisitKeeps DEF AtRoot
  <2>3. DOMAIN Visit(deps, s, n).indices = DOMAIN s.indices \cup {n}
    <3>1. s \in Searches(V)
      BY DEF AtRoot, SearchInv
    <3>2. Visit(deps, s, n).indices = WithValue(s.indices, n, Cardinality(DOMAIN s.indices))
      BY <3>1 DEF Visit, Searches
    <3> QED
      BY <3>2 DEF WithValue
  <2> DEFINE u == Visit(deps, s, n)
  <2> HIDE DEF u
  <2>4. /\ SearchInv(deps, V, Explore(deps, u), {})
        /\ Explore(deps, u).frames = <<>>
        /\ DOMAIN u.indices \subseteq DOMAIN Explore(deps, u).indices
    BY <2>2, ExploreKeeps DEF u
  <2> QED
    BY <2>1, <2>3, <2>4 DEF AtRoot, u
<1> QED
  BY <1>1, <1>2

IsSearch(f, deps, V) ==
    f = [i \in 0 .. Len(Sorted(V)) |->
            IF i = 0 THEN Unvisited(V) ELSE From(deps, f[i - 1], Sorted(V)[i])]

LEMMA RootsAre ==
    ASSUME NEW deps, IsGraph(deps), NEW V \in SUBSET (DOMAIN deps)
    PROVE  /\ IsFiniteSet(V) /\ Len(Sorted(V)) \in Nat
           /\ \A i \in 1 .. Len(Sorted(V)) : Sorted(V)[i] \in V
           /\ \A n \in V : \E i \in 1 .. Len(Sorted(V)) : Sorted(V)[i] = n
<1>1. V \in SUBSET Nat /\ IsFiniteSet(V)
  BY NodesAreNumbers
<1>2. Cardinality(V) \in Nat /\ Sorted(V) \in [1 .. Cardinality(V) -> V]
  BY <1>1, SortedIs
<1>3. \A n \in V : \E i \in 1 .. Cardinality(V) : Sorted(V)[i] = n
  BY <1>1, SortedOnce
<1> DEFINE r == Sorted(V)
           C == Cardinality(V)
<1>4. C \in Nat /\ r \in [1 .. C -> V]
  BY <1>2
<1> HIDE DEF r, C
<1>5. Len(r) = C
  BY <1>4
<1> QED
  BY <1>1, <1>3, <1>4, <1>5 DEF r, C

LEMMA SearchExists ==
    ASSUME NEW deps, IsGraph(deps), NEW V \in SUBSET (DOMAIN deps)
    PROVE  \E f : IsSearch(f, deps, V)
<1> DEFINE r == Sorted(V)
           N == Len(r)
           S == {u \in Searches(V) : AtRoot(deps, V, u)}
           step == [n \in 1 .. N |-> [u \in S |-> From(deps, u, r[n])]]
           first == Unvisited(V)
<1>1. N \in Nat /\ IsFiniteSet(V) /\ \A i \in 1 .. N : r[i] \in V
  BY RootsAre
<1>2. \A u : AtRoot(deps, V, u) => u \in S
  BY DEF SearchInv, AtRoot
<1> HIDE DEF r, N
<1>3. \A n \in 1 .. N, u \in S : From(deps, u, r[n]) \in S
  BY <1>1, <1>2, FromKeeps
<1>4. step \in [1 .. N -> [S -> S]] /\ \A n \in 1 .. N, u \in S : step[n][u] = From(deps, u, r[n])
  <2> HIDE DEF S
  <2> QED
    BY <1>3
<1>5. first \in S
  BY <1>1, <1>2, UnvisitedIs DEF AtRoot
<1> HIDE DEF S, step, first
<1>6. PICK f \in [0 .. N -> S] : IsCourse(f, N, first, step)
  BY <1>1, <1>4, <1>5, CourseExists
<1>7. ASSUME NEW n \in 0 .. N
      PROVE  f[n] = IF n = 0 THEN first ELSE From(deps, f[n - 1], r[n])
  <2>1. CASE n = 0
    BY <1>6, <2>1 DEF IsCourse
  <2>2. CASE n # 0
    <3>1. n \in 1 .. N /\ n - 1 \in 0 .. N
      BY <1>1, <2>2
    <3>2. f[n] = step[n][f[n - 1]] /\ f[n - 1] \in S
      BY <1>6, <3>1 DEF IsCourse
    <3> QED
      BY <1>4, <2>2, <3>1, <3>2
  <2> QED
    BY <2>1, <2>2
<1>8. f = [n \in 0 .. N |-> IF n = 0 THEN first ELSE From(deps, f[n - 1], r[n])]
  BY <1>6, <1>7
<1> QED
  BY <1>8 DEF IsSearch, N, r, first

\* The components found are the kinds of nodes.
LEMMA StrongComponentsAreKinds ==
    ASSUME NEW deps, IsGraph(deps), NEW V \in SUBSET (DOMAIN deps)
    PROVE  StrongComponents(deps, V) = Kinds(deps, V)
<1> DEFINE r == Sorted(V)
           N == Len(r)
           f == CHOOSE g : IsSearch(g, deps, V)
<1>1. N \in Nat /\ IsFiniteSet(V) /\ \A i \in 1 .. N : r[i] \in V
  BY RootsAre
<1>2. \A n \in V : \E i \in 1 .. N : r[i] = n
  BY RootsAre
<1>3. IsSearch(f, deps, V)
  BY SearchExists
<1>4. StrongComponents(deps, V) = f[N].components
  BY DEF StrongComponents, IsSearch
<1> HIDE DEF f
<1>5. \A n \in 0 .. N : f[n] = IF n = 0 THEN Unvisited(V) ELSE From(deps, f[n - 1], r[n])
  BY <1>3 DEF IsSearch
<1> DEFINE P == {n \in 0 .. N : /\ AtRoot(deps, V, f[n])
                                /\ \A i \in 1 .. n : r[i] \in DOMAIN f[n].indices}
<1> HIDE DEF r, N
<1>6. 0 \in P
  <2>1. f[0] = Unvisited(V) /\ 0 \in 0 .. N
    BY <1>1, <1>5
  <2>2. AtRoot(deps, V, Unvisited(V))
    BY <1>1, UnvisitedIs DEF AtRoot
  <2> QED
    BY <2>1, <2>2
<1>7. ASSUME NEW n \in 0 .. N - 1, n \in P
      PROVE  n + 1 \in P
  <2> DEFINE u == f[n]
             t == From(deps, f[n], r[n + 1])
  <2>1. n + 1 \in 0 .. N /\ n + 1 # 0 /\ n + 1 - 1 = n /\ n + 1 \in 1 .. N
    BY <1>1
  <2>2. f[n + 1] = t
    BY <1>5, <2>1
  <2>3. AtRoot(deps, V, u) /\ \A i \in 1 .. n : r[i] \in DOMAIN u.indices
    BY <1>7
  <2>4. AtRoot(deps, V, t) /\ DOMAIN u.indices \cup {r[n + 1]} \subseteq DOMAIN t.indices
    BY <2>1, <2>3, <1>1, FromKeeps
  <2> HIDE DEF u, t
  <2>5. \A i \in 1 .. n + 1 : r[i] \in DOMAIN t.indices
    <3>1. \A i \in 1 .. n + 1 : i \in 1 .. n \/ i = n + 1
      BY <2>1
    <3> QED
      BY <3>1, <2>3, <2>4
  <2> QED
    BY <2>1, <2>2, <2>4, <2>5
<1>8. N \in P
  <2> HIDE DEF P
  <2>1. \A n \in 0 .. N : n \in P
    BY <1>1, <1>6, <1>7, Along
  <2> QED
    BY <2>1, <1>1
<1> DEFINE t == f[N]
<1>9. AtRoot(deps, V, t) /\ \A i \in 1 .. N : r[i] \in DOMAIN t.indices
  BY <1>8
<1> HIDE DEF t
<1>10. DOMAIN t.indices = V
  <2>1. DOMAIN t.indices \subseteq V
    BY <1>9, NumbersOf DEF AtRoot
  <2> QED
    BY <2>1, <1>2, <1>9
<1>11. Released(t) = V
  <2>1. t.stack = <<>>
    BY <1>9, NumbersOf DEF AtRoot
  <2>2. On(t) = {}
    BY <2>1 DEF On, ToSet
  <2>3. DOMAIN t.indices = On(t) \cup Released(t)
    BY <1>9 DEF AtRoot, SearchInv, Numbered
  <2> QED
    BY <2>2, <2>3, <1>10
<1>12. t.components \subseteq Kinds(deps, V)
  BY <1>9 DEF AtRoot, SearchInv, Emitted
<1>13. ASSUME NEW a \in V
       PROVE  Kin(deps, V, a) \in t.components
  <2>1. PICK c \in t.components : a \in c
    BY <1>11 DEF Released
  <2>2. PICK b \in V : c = Kin(deps, V, b)
    BY <2>1, <1>12 DEF Kinds
  <2>3. Kin(deps, V, a) = Kin(deps, V, b)
    <3>1. \A S \in SUBSET V : ShutIn(deps, V, S) => (b \in S <=> a \in S)
      BY <2>1, <2>2 DEF Kin
    <3> QED
      BY <3>1 DEF Kin
  <2> QED
    BY <2>1, <2>2, <2>3
<1> QED
  BY <1>4, <1>12, <1>13 DEF Kinds, t

\* Sequences without repetition.
Once(e) == \A i, j \in DOMAIN e : e[i] = e[j] => i = j

LEMMA SetOf ==
    ASSUME NEW V, NEW e \in Seq(V)
    PROVE  /\ Len(e) \in Nat /\ DOMAIN e = 1 .. Len(e) /\ ToSet(e) \subseteq V
           /\ \A i \in DOMAIN e : e[i] \in ToSet(e)
           /\ \A v \in ToSet(e) : \E i \in DOMAIN e : e[i] = v
BY DEF ToSet

LEMMA JoinedOnce ==
    ASSUME NEW V, NEW e \in Seq(V), NEW f \in Seq(V), Once(e), Once(f), ToSet(e) \cap ToSet(f) = {}
    PROVE  /\ e \o f \in Seq(V) /\ Once(e \o f)
           /\ ToSet(e \o f) = ToSet(e) \cup ToSet(f)
           /\ Len(e \o f) = Len(e) + Len(f)
<1> DEFINE g == e \o f
<1>1. /\ Len(e) \in Nat /\ DOMAIN e = 1 .. Len(e)
      /\ Len(f) \in Nat /\ DOMAIN f = 1 .. Len(f)
      /\ \A i \in DOMAIN e : e[i] \in ToSet(e)
      /\ \A i \in DOMAIN f : f[i] \in ToSet(f)
      /\ \A v \in ToSet(e) : \E i \in DOMAIN e : e[i] = v
      /\ \A v \in ToSet(f) : \E i \in DOMAIN f : f[i] = v
  BY SetOf
<1>2. /\ g \in Seq(V) /\ Len(g) = Len(e) + Len(f) /\ DOMAIN g = 1 .. Len(e) + Len(f)
      /\ \A i \in 1 .. Len(e) : g[i] = e[i]
      /\ \A i \in 1 .. Len(f) : g[Len(e) + i] = f[i]
  OBVIOUS
<1>3. \A v \in ToSet(g) : \E i \in DOMAIN g : g[i] = v
  BY DEF ToSet
<1>4. \A i \in DOMAIN g : g[i] \in ToSet(g)
  BY DEF ToSet
<1> HIDE DEF g
<1>5. \A i \in DOMAIN g : \/ i \in DOMAIN e /\ g[i] = e[i]
                          \/ i - Len(e) \in DOMAIN f /\ g[i] = f[i - Len(e)] /\ i \in Int
  <2> SUFFICES ASSUME NEW i \in DOMAIN g, ~(i \in 1 .. Len(e))
               PROVE  i - Len(e) \in 1 .. Len(f) /\ g[i] = f[i - Len(e)] /\ i \in Int
    BY <1>1, <1>2
  <2>1. i - Len(e) \in 1 .. Len(f) /\ i \in Int /\ Len(e) + (i - Len(e)) = i
    BY <1>1, <1>2
  <2> QED
    BY <2>1, <1>2
<1>6. ToSet(g) = ToSet(e) \cup ToSet(f)
  <2>1. ToSet(g) \subseteq ToSet(e) \cup ToSet(f)
    BY <1>1, <1>3, <1>5
  <2>2. ASSUME NEW v \in ToSet(e)
        PROVE  v \in ToSet(g)
    <3>1. PICK i \in DOMAIN e : e[i] = v
      BY <1>1
    <3>2. i \in DOMAIN g /\ g[i] = v
      BY <3>1, <1>1, <1>2
    <3> QED
      BY <3>2, <1>4
  <2>3. ASSUME NEW v \in ToSet(f)
        PROVE  v \in ToSet(g)
    <3>1. PICK i \in DOMAIN f : f[i] = v
      BY <1>1
    <3>2. Len(e) + i \in DOMAIN g /\ g[Len(e) + i] = v
      BY <3>1, <1>1, <1>2
    <3> QED
      BY <3>2, <1>4
  <2> QED
    BY <2>1, <2>2, <2>3
<1>7. Once(g)
  <2> SUFFICES ASSUME NEW i \in DOMAIN g, NEW j \in DOMAIN g, g[i] = g[j]
               PROVE  i = j
    BY DEF Once
  <2>1. CASE i \in DOMAIN e /\ g[i] = e[i] /\ j \in DOMAIN e /\ g[j] = e[j]
    BY <2>1 DEF Once
  <2>2. CASE i \in DOMAIN e /\ g[i] = e[i] /\ j - Len(e) \in DOMAIN f /\ g[j] = f[j - Len(e)]
    BY <2>2, <1>1
  <2>3. CASE j \in DOMAIN e /\ g[j] = e[j] /\ i - Len(e) \in DOMAIN f /\ g[i] = f[i - Len(e)]
    BY <2>3, <1>1
  <2>4. CASE /\ i \in Int /\ i - Len(e) \in DOMAIN f /\ g[i] = f[i - Len(e)]
             /\ j \in Int /\ j - Len(e) \in DOMAIN f /\ g[j] = f[j - Len(e)]
    <3>1. i - Len(e) = j - Len(e)
      BY <2>4 DEF Once
    <3> QED
      BY <3>1, <2>4, <1>1
  <2> QED
    BY <2>1, <2>2, <2>3, <2>4, <1>5
<1> QED
  BY <1>2, <1>6, <1>7 DEF g

LEMMA SingleOnce ==
    ASSUME NEW V, NEW v \in V
    PROVE  <<v>> \in Seq(V) /\ Once(<<v>>) /\ ToSet(<<v>>) = {v} /\ Len(<<v>>) = 1
BY DEF Once, ToSet

LEMMA TakenOnce ==
    ASSUME NEW V, NEW e \in Seq(V), e # <<>>, Once(e)
    PROVE  /\ Tail(e) \in Seq(V) /\ Once(Tail(e)) /\ Head(e) \in V
           /\ ToSet(e) = ToSet(Tail(e)) \cup {Head(e)} /\ Head(e) \notin ToSet(Tail(e))
<1>1. /\ Tail(e) \in Seq(V) /\ Head(e) \in ToSet(e)
      /\ ToSet(Tail(e)) = ToSet(e) \ {Head(e)}
      /\ \A j, k \in DOMAIN Tail(e) : Tail(e)[j] = Tail(e)[k] => j = k
  BY TailOnce DEF Once
<1>2. Head(e) \in V
  OBVIOUS
<1> QED
  BY <1>1, <1>2 DEF Once

LEMMA OnceFits ==
    ASSUME NEW V, IsFiniteSet(V), NEW e \in Seq(V), Once(e)
    PROVE  /\ Len(e) = Cardinality(ToSet(e)) /\ Len(e) <= Cardinality(V)
           /\ Len(e) = Cardinality(V) => ToSet(e) = V
<1>1. /\ Len(e) \in Nat /\ DOMAIN e = 1 .. Len(e) /\ ToSet(e) \in SUBSET V
      /\ \A i \in DOMAIN e : e[i] \in ToSet(e)
      /\ \A v \in ToSet(e) : \E i \in DOMAIN e : e[i] = v
  BY SetOf
<1>2. IsFiniteSet(ToSet(e)) /\ Cardinality(ToSet(e)) <= Cardinality(V)
      /\ (Cardinality(V) = Cardinality(ToSet(e)) => V = ToSet(e))
  BY <1>1, FS_Subset
<1>3. Len(e) = Cardinality(ToSet(e))
  <2>1. e \in [1 .. Len(e) -> ToSet(e)]
    BY <1>1
  <2>2. e \in Bijection(1 .. Len(e), ToSet(e))
    BY <2>1, <1>1 DEF Bijection, Injection, Surjection, Once, IsInjective
  <2> QED
    BY <2>2, <1>1, <1>2, FS_CountingElements DEF ExistsBijection
<1> QED
  BY <1>2, <1>3

\* The queue holds every node once, and all whose dependencies are in order.
IsFullQueue(deps, q) ==
    /\ IsQueue(deps, q)
    /\ Once(q.order) /\ Once(q.ready) /\ ToSet(q.order) \cap ToSet(q.ready) = {}
    /\ \A c \in DOMAIN deps : deps[c] \subseteq ToSet(q.order) => c \in ToSet(q.order) \cup ToSet(q.ready)

LEMMA QueueHolds ==
    ASSUME NEW deps, NEW q, IsQueue(deps, q)
    PROVE  /\ q.ready \in Seq(DOMAIN deps) /\ q.order \in Seq(DOMAIN deps)
           /\ \A i \in DOMAIN q.order : deps[q.order[i]] \subseteq ToSet(q.order)
           /\ \A i \in DOMAIN q.ready : deps[q.ready[i]] \subseteq ToSet(q.order)
<1>1. \A i \in DOMAIN q.order : q.order[i] \in ToSet(q.order)
  BY DEF ToSet
<1>2. \A i \in DOMAIN q.order : \A d \in deps[q.order[i]] : \E j \in DOMAIN q.order : q.order[j] = d
  BY DEF IsQueue
<1>3. \A i \in DOMAIN q.order : \A d \in deps[q.order[i]] : d \in ToSet(q.order)
  BY <1>1, <1>2
<1> QED
  BY <1>3 DEF IsQueue

LEMMA AppendedOnce ==
    ASSUME NEW V, NEW e \in Seq(V), Once(e), NEW v \in V, v \notin ToSet(e)
    PROVE  /\ Append(e, v) \in Seq(V) /\ Once(Append(e, v))
           /\ ToSet(Append(e, v)) = ToSet(e) \cup {v} /\ Len(Append(e, v)) = Len(e) + 1
<1>1. Append(e, v) = e \o <<v>>
  OBVIOUS
<1> DEFINE one == <<v>>
<1>2. one \in Seq(V) /\ Once(one) /\ ToSet(one) = {v} /\ Len(one) = 1 /\ Append(e, v) = e \o one
  BY <1>1, SingleOnce
<1> HIDE DEF one
<1>3. /\ e \o one \in Seq(V) /\ Once(e \o one)
      /\ ToSet(e \o one) = ToSet(e) \cup ToSet(one)
      /\ Len(e \o one) = Len(e) + Len(one)
  <2>1. ToSet(e) \cap ToSet(one) = {}
    BY <1>2
  <2> QED
    BY <1>2, <2>1, JoinedOnce
<1> QED
  BY <1>2, <1>3

LEMMA SortedIsOnce ==
    ASSUME NEW S \in SUBSET Nat, IsFiniteSet(S)
    PROVE  Sorted(S) \in Seq(S) /\ Once(Sorted(S)) /\ ToSet(Sorted(S)) = S /\ Len(Sorted(S)) = Cardinality(S)
<1>1. Cardinality(S) \in Nat /\ Sorted(S) \in [1 .. Cardinality(S) -> S]
  BY SortedIs
<1>2. \A i, j \in 1 .. Cardinality(S) : Sorted(S)[i] = Sorted(S)[j] => i = j
  BY SortedOnce
<1>3. \A n \in S : \E i \in 1 .. Cardinality(S) : Sorted(S)[i] = n
  BY SortedOnce
<1>4. Sorted(S) \in Seq(S)
  BY SortedSequence
<1> DEFINE r == Sorted(S)
           C == Cardinality(S)
<1>5. r \in Seq(S) /\ r \in [1 .. C -> S] /\ C \in Nat
  BY <1>1, <1>4
<1>6. \A n \in S : \E i \in 1 .. C : r[i] = n
  BY <1>3
<1>7. \A i, j \in 1 .. C : r[i] = r[j] => i = j
  BY <1>2
<1> HIDE DEF r, C
<1>8. Len(r) = C /\ DOMAIN r = 1 .. C
  BY <1>5
<1>9. ToSet(r) = S
  BY <1>5, <1>6, <1>8 DEF ToSet
<1>10. Once(r)
  BY <1>7, <1>8 DEF Once
<1> QED
  BY <1>5, <1>8, <1>9, <1>10 DEF r, C

LEMMA FullQueueTurn ==
    ASSUME NEW deps, IsGraph(deps), NEW q, IsFullQueue(deps, q)
    PROVE  /\ IsFullQueue(deps, QueueTurn(deps, q))
           /\ IF q.ready = <<>> THEN QueueTurn(deps, q) = q
              ELSE Len(QueueTurn(deps, q).order) = Len(q.order) + 1
<1>1. CASE q.ready = <<>>
  BY <1>1 DEF QueueTurn
<1>2. CASE q.ready # <<>>
  <2> DEFINE V == DOMAIN deps
             n == Head(q.ready)
             order == Append(q.order, n)
             freed == {c \in DOMAIN deps : n \in deps[c] /\ deps[c] \subseteq ToSet(order)}
             t == QueueTurn(deps, q)
             rest == Tail(q.ready)
  <2>1. t = [ready |-> rest \o Sorted(freed), order |-> order]
    BY <1>2 DEF QueueTurn
  <2>2. /\ q.ready \in Seq(V) /\ q.order \in Seq(V) /\ Once(q.order) /\ Once(q.ready)
        /\ ToSet(q.order) \cap ToSet(q.ready) = {}
        /\ \A i \in DOMAIN q.order : deps[q.order[i]] \subseteq ToSet(q.order)
        /\ \A i \in DOMAIN q.ready : deps[q.ready[i]] \subseteq ToSet(q.order)
    BY QueueHolds DEF IsFullQueue
  <2>3. \A c \in DOMAIN deps : deps[c] \subseteq ToSet(q.order) => c \in ToSet(q.order) \cup ToSet(q.ready)
    BY DEF IsFullQueue
  <2>4. IsQueue(deps, t)
    BY QueueTurnKeeps DEF IsFullQueue
  <2>5. /\ rest \in Seq(V) /\ Once(rest) /\ n \in V
        /\ ToSet(q.ready) = ToSet(rest) \cup {n} /\ n \notin ToSet(rest)
    BY <2>2, <1>2, TakenOnce
  <2>6. /\ order \in Seq(V) /\ Once(order) /\ ToSet(order) = ToSet(q.order) \cup {n}
        /\ Len(order) = Len(q.order) + 1
    <3>1. n \notin ToSet(q.order)
      BY <2>2, <2>5
    <3> HIDE DEF n
    <3> QED
      BY <3>1, <2>2, <2>5, AppendedOnce
  <2>7. \A v \in ToSet(q.order) : deps[v] \subseteq ToSet(q.order)
    BY <2>2, SetOf
  <2>8. \A v \in ToSet(q.ready) : deps[v] \subseteq ToSet(q.order)
    BY <2>2, SetOf
  <2> HIDE DEF order, rest, n, t
  <2>9. freed \cap (ToSet(order) \cup ToSet(rest)) = {}
    BY <2>2, <2>5, <2>6, <2>7, <2>8
  <2>10. /\ Sorted(freed) \in Seq(V) /\ Once(Sorted(freed)) /\ ToSet(Sorted(freed)) = freed
    <3>1. freed \in SUBSET Nat /\ IsFiniteSet(freed)
      BY NodesAreNumbers
    <3> HIDE DEF freed
    <3>2. Sorted(freed) \in Seq(freed) /\ Once(Sorted(freed)) /\ ToSet(Sorted(freed)) = freed
      BY <3>1, SortedIsOnce
    <3>3. freed \subseteq V
      BY DEF freed
    <3>4. Sorted(freed) \in Seq(V)
      BY <3>2, <3>3
    <3> QED
      BY <3>2, <3>4
  <2>11. \A c \in V : deps[c] \subseteq ToSet(order) =>
            c \in ToSet(order) \cup ToSet(rest) \cup freed
    BY <2>3, <2>5, <2>6
  <2> DEFINE new == Sorted(freed)
             ready == rest \o new
  <2>12. new \in Seq(V) /\ Once(new) /\ ToSet(new) = freed
    BY <2>10
  <2> HIDE DEF freed, new
  <2>13. /\ Once(ready) /\ ToSet(ready) = ToSet(rest) \cup freed
    BY <2>5, <2>9, <2>12, JoinedOnce
  <2>14. t.ready = ready /\ t.order = order
    BY <2>1 DEF new
  <2> HIDE DEF ready
  <2>15. ToSet(order) \cap ToSet(ready) = {}
    <3>1. ToSet(order) \cap ToSet(rest) = {}
      BY <2>2, <2>5, <2>6
    <3> QED
      BY <3>1, <2>9, <2>13
  <2> QED
    BY <1>2, <2>4, <2>6, <2>11, <2>13, <2>14, <2>15 DEF IsFullQueue, t
<1> QED
  BY <1>1, <1>2

LEMMA FullQueueStarts ==
    ASSUME NEW deps, IsGraph(deps)
    PROVE  IsFullQueue(deps, KahnFirst(deps))
<1> DEFINE freed == {n \in DOMAIN deps : deps[n] = {}}
           q == KahnFirst(deps)
<1>1. IsQueue(deps, q)
  BY KahnStarts
<1>2. Once(Sorted(freed)) /\ ToSet(Sorted(freed)) = freed
  <2>1. freed \in SUBSET Nat /\ IsFiniteSet(freed)
    BY NodesAreNumbers
  <2> HIDE DEF freed
  <2> QED
    BY <2>1, SortedIsOnce
<1>3. q.ready = Sorted(freed) /\ q.order = <<>>
  BY DEF KahnFirst
<1>4. ToSet(<<>>) = {} /\ Once(<<>>)
  BY DEF ToSet, Once
<1> HIDE DEF q
<1>5. \A c \in DOMAIN deps : deps[c] \subseteq {} => c \in freed
  OBVIOUS
<1> HIDE DEF freed
<1> QED
  BY <1>1, <1>2, <1>3, <1>4, <1>5 DEF IsFullQueue, q

\* The order has every node once that does not wait for one that is not in it.
LEMMA KahnComplete ==
    ASSUME NEW deps, IsGraph(deps)
    PROVE  LET order == TopologicalOrder(deps)
           IN  /\ order \in Seq(DOMAIN deps) /\ Once(order)
               /\ \A c \in DOMAIN deps : deps[c] \subseteq ToSet(order) <=> c \in ToSet(order)
<1> DEFINE N == Cardinality(DOMAIN deps)
           first == KahnFirst(deps)
           f == CHOOSE g : IsKahnCourse(g, deps)
<1>1. N \in Nat /\ IsFiniteSet(DOMAIN deps)
  BY NodesAreNumbers, FS_CardinalityType
<1>2. IsKahnCourse(f, deps)
  BY KahnCourseExists
<1>3. TopologicalOrder(deps) = f[N].order
  BY DEF TopologicalOrder, IsKahnCourse, KahnFirst
<1> DEFINE P == {n \in 0 .. N : /\ IsFullQueue(deps, f[n])
                                /\ f[n].ready = <<>> \/ Len(f[n].order) = n}
<1> HIDE DEF f
<1>4. \A n \in 0 .. N : f[n] = IF n = 0 THEN first ELSE QueueTurn(deps, f[n - 1])
  BY <1>2 DEF IsKahnCourse
<1> HIDE DEF N
<1>5. 0 \in P
  <2>1. f[0] = first /\ 0 \in 0 .. N
    BY <1>1, <1>4
  <2>2. IsFullQueue(deps, first)
    BY FullQueueStarts
  <2>3. Len(first.order) = 0
    BY DEF KahnFirst
  <2> QED
    BY <2>1, <2>2, <2>3
<1>6. ASSUME NEW n \in 0 .. N - 1, n \in P
      PROVE  n + 1 \in P
  <2> DEFINE u == f[n]
             t == QueueTurn(deps, f[n])
  <2>1. n + 1 \in 0 .. N /\ n + 1 # 0 /\ n + 1 - 1 = n
    BY <1>1
  <2>2. f[n + 1] = t
    BY <1>4, <2>1
  <2>3. IsFullQueue(deps, u) /\ (u.ready = <<>> \/ Len(u.order) = n)
    BY <1>6
  <2> HIDE DEF u
  <2>4. /\ IsFullQueue(deps, t)
        /\ IF u.ready = <<>> THEN t = u ELSE Len(t.order) = Len(u.order) + 1
    BY <2>3, FullQueueTurn DEF u
  <2> HIDE DEF t
  <2>5. t.ready = <<>> \/ Len(t.order) = n + 1
    BY <2>3, <2>4
  <2> QED
    BY <2>1, <2>2, <2>4, <2>5
<1>7. N \in P
  <2> HIDE DEF P
  <2>1. \A n \in 0 .. N : n \in P
    BY <1>1, <1>5, <1>6, Along
  <2> QED
    BY <2>1, <1>1
<1> DEFINE q == f[N]
           V == DOMAIN deps
<1>8. IsFullQueue(deps, q) /\ (q.ready = <<>> \/ Len(q.order) = N)
  BY <1>7
<1> HIDE DEF q
<1>9. /\ q.order \in Seq(V) /\ Once(q.order) /\ q.ready \in Seq(V)
      /\ ToSet(q.order) \cap ToSet(q.ready) = {}
      /\ \A i \in DOMAIN q.order : deps[q.order[i]] \subseteq ToSet(q.order)
  BY <1>8, QueueHolds DEF IsFullQueue
<1>10. ToSet(q.ready) = {}
  <2>1. CASE q.ready = <<>>
    BY <2>1 DEF ToSet
  <2>2. CASE Len(q.order) = N
    <3>1. ToSet(q.order) = V
      BY <2>2, <1>1, <1>9, OnceFits DEF N
    <3>2. ToSet(q.ready) \subseteq V
      BY <1>9, SetOf
    <3> QED
      BY <3>1, <3>2, <1>9
  <2> QED
    BY <2>1, <2>2, <1>8
<1>11. \A c \in V : deps[c] \subseteq ToSet(q.order) => c \in ToSet(q.order)
  BY <1>8, <1>10 DEF IsFullQueue
<1>12. \A c \in ToSet(q.order) : deps[c] \subseteq ToSet(q.order)
  BY <1>9, SetOf
<1> QED
  BY <1>3, <1>9, <1>11, <1>12 DEF q

LEMMA TableIs ==
    ASSUME NEW N \in Nat, NEW S, NEW f \in [1 .. N -> S]
    PROVE  Table(f) = f /\ f \in Seq(S) /\ Len(f) = N
<1>1. f \in Seq(S) /\ Len(f) = N
  OBVIOUS
<1>2. f \o <<>> = f
  BY <1>1, ConcatEmptySeq
<1> QED
  BY <1>1, <1>2 DEF Table

\* The edges the other way round.
LEMMA SuccessorsAre ==
    ASSUME NEW deps, IsGraph(deps)
    PROVE  /\ IsGraph(Successors(deps)) /\ DOMAIN Successors(deps) = DOMAIN deps
           /\ Len(Successors(deps)) = Len(deps)
           /\ \A i, j \in DOMAIN deps : i \in Successors(deps)[j] <=> j \in deps[i]
<1> DEFINE N == Len(deps)
           V == 1 .. N
           g == [n \in V |-> Followers(deps, n)]
<1>1. N \in Nat /\ DOMAIN deps = V /\ deps \in [V -> SUBSET V]
  BY DEF IsGraph
<1>2. Successors(deps) = Table(g)
  BY <1>1 DEF Successors
<1>3. g \in [V -> SUBSET V] /\ \A i, j \in V : i \in g[j] <=> j \in deps[i]
  BY <1>1 DEF Followers
<1> HIDE DEF g
<1>4. Table(g) = g /\ Len(g) = N
  BY <1>1, <1>3, TableIs
<1> QED
  BY <1>1, <1>2, <1>3, <1>4 DEF IsGraph

\* Disjoint sets of nodes in a sequence.
AreParts(parts, V) ==
    /\ parts \subseteq SUBSET V
    /\ \A p \in parts : p # {}
    /\ \A p, q \in parts : p \cap q # {} => p = q

LEMMA KindsAreParts ==
    ASSUME NEW deps, NEW V
    PROVE  /\ AreParts(Kinds(deps, V), V)
           /\ \A a \in V : a \in Kin(deps, V, a)
           /\ \A a \in V, p \in Kinds(deps, V) : a \in p => p = Kin(deps, V, a)
<1>1. \A a \in V : a \in Kin(deps, V, a)
  BY DEF Kin
<1>2. ASSUME NEW a \in V, NEW b \in V, a \in Kin(deps, V, b)
      PROVE  Kin(deps, V, b) = Kin(deps, V, a)
  BY <1>2 DEF Kin
<1>3. \A a \in V : Kin(deps, V, a) \subseteq V
  BY DEF Kin
<1>4. \A p \in Kinds(deps, V) : p \subseteq V /\ p # {}
  BY <1>1, <1>3 DEF Kinds
<1>5. \A a \in V, p \in Kinds(deps, V) : a \in p => p = Kin(deps, V, a)
  BY <1>2 DEF Kinds
<1>6. \A p, q \in Kinds(deps, V) : p \cap q # {} => p = q
  BY <1>4, <1>5
<1> QED
  BY <1>1, <1>4, <1>5, <1>6 DEF AreParts

LEMMA LeastIs ==
    ASSUME NEW T \in SUBSET Nat, T # {}
    PROVE  MinOf(T) \in T
<1>1. \E x \in T : \A y \in T : x <= y
  BY LeastNumber
<1> QED
  BY <1>1 DEF MinOf

LEMMA ByNodeIs ==
    ASSUME NEW V \in SUBSET Nat, IsFiniteSet(V), NEW parts, AreParts(parts, V)
    PROVE  ByNode(parts) \in Seq(parts) /\ Once(ByNode(parts)) /\ ToSet(ByNode(parts)) = parts
<1> DEFINE firsts == {MinOf(p) : p \in parts}
           first == Sorted(firsts)
           N == Cardinality(firsts)
           Of(n) == CHOOSE p \in parts : MinOf(p) = n
           f == [i \in 1 .. N |-> Of(first[i])]
<1>1. \A p \in parts : p \in SUBSET Nat /\ p # {} /\ MinOf(p) \in p /\ p \subseteq V
  <2> SUFFICES ASSUME NEW p \in parts
               PROVE  p \in SUBSET Nat /\ p # {} /\ MinOf(p) \in p /\ p \subseteq V
    OBVIOUS
  <2>1. p \in SUBSET Nat /\ p # {} /\ p \subseteq V
    BY DEF AreParts
  <2> QED
    BY <2>1, LeastIs
<1>2. firsts \in SUBSET Nat /\ IsFiniteSet(firsts)
  <2>1. firsts \in SUBSET V
    BY <1>1
  <2> HIDE DEF firsts
  <2> QED
    BY <2>1, FS_Subset
<1>3. \A p, q \in parts : MinOf(p) = MinOf(q) => p = q
  BY <1>1 DEF AreParts
<1>4. \A p \in parts : Of(MinOf(p)) = p
  BY <1>3
<1>5. \A n \in firsts : Of(n) \in parts /\ MinOf(Of(n)) = n
  BY <1>4
<1>6. \A p \in parts : MinOf(p) \in firsts
  OBVIOUS
<1> HIDE DEF firsts, Of
<1>7. first \in Seq(firsts) /\ Once(first) /\ ToSet(first) = firsts /\ Len(first) = N /\ N \in Nat
  BY <1>2, SortedIsOnce, FS_CardinalityType
<1> HIDE DEF first, N
<1>8. /\ DOMAIN first = 1 .. N
      /\ \A i \in 1 .. N : first[i] \in firsts
      /\ \A n \in firsts : \E i \in 1 .. N : first[i] = n
  BY <1>7, SetOf
<1>9. f \in [1 .. N -> parts]
  BY <1>5, <1>8
<1>10. ByNode(parts) = Table(f)
  BY <1>8 DEF ByNode, first, firsts, Of
<1>11. \A i \in 1 .. N : f[i] = Of(first[i])
  OBVIOUS
<1> HIDE DEF f
<1>12. Table(f) = f /\ f \in Seq(parts) /\ DOMAIN f = 1 .. N
  BY <1>7, <1>9, TableIs
<1>13. Once(f)
  <2>1. \A i, j \in 1 .. N : f[i] = f[j] => first[i] = first[j]
    BY <1>5, <1>8, <1>11
  <2> QED
    BY <2>1, <1>7, <1>8, <1>12 DEF Once
<1>14. ToSet(f) = parts
  <2>1. ToSet(f) \subseteq parts
    BY <1>12, SetOf
  <2>2. ASSUME NEW p \in parts
        PROVE  p \in ToSet(f)
    <3>1. PICK i \in 1 .. N : first[i] = MinOf(p)
      BY <1>6, <1>8
    <3>2. f[i] = p
      BY <3>1, <1>4, <1>11
    <3> QED
      BY <3>2, <1>12 DEF ToSet
  <2> QED
    BY <2>1, <2>2
<1> QED
  BY <1>10, <1>12, <1>13, <1>14

\* The kinds of a graph: the nodes of the order by themselves, and those of
\* the rest.
LEMMA KindsOfOrder ==
    ASSUME NEW deps, IsGraph(deps)
    PROVE  LET order == TopologicalOrder(deps)
           IN  Kinds(deps, DOMAIN deps)
                   = {{n} : n \in ToSet(order)} \cup Kinds(deps, DOMAIN deps \ ToSet(order))
<1> DEFINE order == TopologicalOrder(deps)
           V == DOMAIN deps
           O == ToSet(order)
           R == V \ O
<1>1. order \in Seq(V) /\ \A c \in V : deps[c] \subseteq O <=> c \in O
  BY KahnComplete
<1>2. \A i \in DOMAIN order : \A d \in deps[order[i]] : \E j \in DOMAIN order : j < i /\ order[j] = d
  BY KahnOrder
<1> HIDE DEF order
<1>3. /\ DOMAIN order = 1 .. Len(order) /\ Len(order) \in Nat /\ O \subseteq V
      /\ \A i \in DOMAIN order : order[i] \in O
      /\ \A v \in O : \E i \in DOMAIN order : order[i] = v
  BY <1>1, SetOf
<1> HIDE DEF O, R
<1>4. \A a, b : b \in Onward(deps, V, a) <=> b \in V /\ a \in deps[b]
  BY DEF Onward, Followers
<1>5. O \cap R = {} /\ O \cup R = V
  BY <1>3 DEF R
<1> HIDE DEF V
<1>6. ShutIn(deps, V, R)
  BY <1>1, <1>4, <1>5 DEF ShutIn
<1>7. ASSUME NEW a \in O
      PROVE  Kin(deps, V, a) = {a}
  <2>1. a \in Kin(deps, V, a)
    BY <1>5 DEF Kin
  <2>2. ASSUME NEW b \in Kin(deps, V, a), b # a
        PROVE  FALSE
    <3> DEFINE Past(k) == {v \in V : \A i \in DOMAIN order : order[i] = v => k < i}
    <3>1. ASSUME NEW k \in DOMAIN order
          PROVE  Past(k) \in SUBSET V /\ ShutIn(deps, V, Past(k))
      <4> SUFFICES ASSUME NEW v \in Past(k), NEW w \in V, v \in deps[w], NEW i \in DOMAIN order,
                          order[i] = w, ~(k < i)
                   PROVE  FALSE
        BY <1>4 DEF ShutIn
      <4>1. PICK j \in DOMAIN order : j < i /\ order[j] = v
        BY <1>2
      <4>2. k < j
        BY <4>1
      <4> QED
        BY <4>1, <4>2, <1>3
    <3>2. PICK i \in DOMAIN order : order[i] = a
      BY <1>3
    <3>3. b \in V /\ a \in V
      BY <1>5 DEF Kin
    <3>4. \A S \in SUBSET V : ShutIn(deps, V, S) => (a \in S <=> b \in S)
      BY <2>2 DEF Kin
    <3>5. \A k \in DOMAIN order : a \in Past(k) <=> b \in Past(k)
      <4> HIDE DEF Past
      <4> QED
        BY <3>1, <3>4
    <3>6. PICK j \in DOMAIN order : order[j] = b
      <4>1. a \notin Past(i)
        BY <3>2, <1>3
      <4>2. b \notin Past(i)
        BY <4>1, <3>5
      <4> QED
        BY <4>2, <3>3
    <3>7. \A k \in DOMAIN order : a \in Past(k) => k < i
      BY <3>2
    <3>8. \A k \in DOMAIN order : b \in Past(k) => k < j
      BY <3>6
    <3> DEFINE least == {k \in DOMAIN order : order[k] = a \/ order[k] = b}
    <3>9. least \subseteq Nat /\ least # {}
      BY <3>2, <1>3
    <3>10. PICK k \in least : \A l \in least : k <= l
      <4> HIDE DEF least
      <4> QED
        BY <3>9, LeastNumber
    <3>11. k \in DOMAIN order /\ k \in Nat
      BY <3>9
    <3>12. CASE order[k] = a
      <4>1. b \in Past(k)
        <5> SUFFICES ASSUME NEW l \in DOMAIN order, order[l] = b
                     PROVE  k < l
          BY <3>3
        <5>1. k <= l /\ k # l
          BY <3>10, <3>12, <2>2
        <5> QED
          BY <5>1, <3>11, <1>3
      <4>2. a \notin Past(k)
        BY <3>11, <3>12
      <4> QED
        BY <4>1, <4>2, <3>5, <3>11
    <3>13. CASE order[k] = b
      <4>1. a \in Past(k)
        <5> SUFFICES ASSUME NEW l \in DOMAIN order, order[l] = a
                     PROVE  k < l
          BY <3>3
        <5>1. k <= l /\ k # l
          BY <3>10, <3>13, <2>2
        <5> QED
          BY <5>1, <3>11, <1>3
      <4>2. b \notin Past(k)
        BY <3>11, <3>13
      <4> QED
        BY <4>1, <4>2, <3>5, <3>11
    <3> QED
      BY <3>12, <3>13
  <2> QED
    BY <2>1, <2>2
<1>8. ASSUME NEW a \in R
      PROVE  Kin(deps, V, a) = Kin(deps, R, a)
  <2>1. R \subseteq V /\ \A v \in R : Onward(deps, V, v) \subseteq R
    BY <1>5, <1>6 DEF ShutIn
  <2>2. \A v : Onward(deps, R, v) = Onward(deps, V, v) \cap R
    BY <2>1 DEF Onward
  <2>3. \A S \in SUBSET R : ShutIn(deps, R, S) <=> ShutIn(deps, V, S)
    BY <2>1, <2>2 DEF ShutIn
  <2>4. \A S \in SUBSET V : ShutIn(deps, V, S) => ShutIn(deps, R, S \cap R)
    BY <2>1, <2>2 DEF ShutIn
  <2>5. ASSUME NEW b \in Kin(deps, V, a)
        PROVE  b \in Kin(deps, R, a)
    <3>1. b \in R
      BY <2>1, <1>6 DEF Kin
    <3>2. \A S \in SUBSET R : ShutIn(deps, R, S) => (a \in S <=> b \in S)
      BY <2>1, <2>3 DEF Kin
    <3> QED
      BY <3>1, <3>2 DEF Kin
  <2>6. ASSUME NEW b \in Kin(deps, R, a)
        PROVE  b \in Kin(deps, V, a)
    <3>1. b \in R
      BY DEF Kin
    <3>2. ASSUME NEW S \in SUBSET V, ShutIn(deps, V, S)
          PROVE  a \in S <=> b \in S
      <4>1. ShutIn(deps, R, S \cap R) /\ S \cap R \in SUBSET R
        BY <3>2, <2>4
      <4>2. a \in S \cap R <=> b \in S \cap R
        BY <4>1 DEF Kin
      <4> QED
        BY <4>2, <3>1
    <3> QED
      BY <3>1, <3>2, <2>1 DEF Kin
  <2> QED
    BY <2>5, <2>6
<1>9. Kinds(deps, V) = {{n} : n \in O} \cup Kinds(deps, R)
  <2>1. Kinds(deps, V) \subseteq {{n} : n \in O} \cup Kinds(deps, R)
    BY <1>5, <1>7, <1>8 DEF Kinds
  <2>2. {{n} : n \in O} \cup Kinds(deps, R) \subseteq Kinds(deps, V)
    BY <1>5, <1>7, <1>8 DEF Kinds
  <2> QED
    BY <2>1, <2>2
<1> QED
  BY <1>9 DEF order, V, O, R

\* The kinds in a sequence, and their dependencies, which are not cyclic.
AreKinds(deps, comps) ==
    /\ comps \in Seq(Kinds(deps, DOMAIN deps)) /\ Once(comps)
    /\ ToSet(comps) = Kinds(deps, DOMAIN deps)

LEMMA CondensedIs ==
    ASSUME NEW deps, NEW comps, Len(comps) \in Nat, DOMAIN comps = 1 .. Len(comps)
    PROVE  LET cond == Condensed(deps, comps)
           IN  /\ IsGraph(cond) /\ Len(cond) = Len(comps) /\ DOMAIN cond = 1 .. Len(comps)
               /\ \A i \in DOMAIN cond :
                     cond[i] = {j \in DOMAIN comps \ {i} :
                                   \E n \in comps[i] : deps[n] \cap comps[j] # {}}
<1> DEFINE N == Len(comps)
           To(i) == {j \in DOMAIN comps \ {i} : \E n \in comps[i] : deps[n] \cap comps[j] # {}}
           f == [i \in 1 .. N |-> To(i)]
<1>1. f \in [1 .. N -> SUBSET (1 .. N)]
  OBVIOUS
<1>2. Condensed(deps, comps) = Table(f)
  BY DEF Condensed
<1>3. \A i \in 1 .. N : f[i] = To(i)
  OBVIOUS
<1> HIDE DEF f, To
<1>4. Table(f) = f /\ Len(f) = N /\ DOMAIN f = 1 .. N
  BY <1>1, TableIs
<1> QED
  BY <1>1, <1>2, <1>3, <1>4 DEF IsGraph, To

LEMMA CondensationIsOrdered ==
    ASSUME NEW deps, IsGraph(deps), NEW comps, AreKinds(deps, comps)
    PROVE  LET order == TopologicalOrder(Condensed(deps, comps))
           IN  /\ order \in Seq(1 .. Len(comps)) /\ Once(order)
               /\ ToSet(order) = 1 .. Len(comps)
               /\ \A i \in DOMAIN order : \A d \in Condensed(deps, comps)[order[i]] :
                     \E j \in DOMAIN order : j < i /\ order[j] = d
<1> DEFINE V == DOMAIN deps
           cond == Condensed(deps, comps)
           order == TopologicalOrder(cond)
           N == Len(comps)
           R == {c \in 1 .. N : c \notin ToSet(order)}
<1>1. /\ Len(comps) \in Nat /\ DOMAIN comps = 1 .. N
      /\ \A i \in 1 .. N : comps[i] \in Kinds(deps, V)
  <2>1. comps \in Seq(Kinds(deps, V))
    BY DEF AreKinds
  <2> QED
    BY <2>1
<1>2. /\ IsGraph(cond) /\ DOMAIN cond = 1 .. N
      /\ \A i \in 1 .. N : \A j \in cond[i] :
            j \in 1 .. N /\ j # i /\ \E n \in comps[i] : deps[n] \cap comps[j] # {}
  BY <1>1, CondensedIs
<1> HIDE DEF cond
<1>3. /\ order \in Seq(1 .. N) /\ Once(order)
      /\ \A c \in 1 .. N : cond[c] \subseteq ToSet(order) <=> c \in ToSet(order)
  BY <1>2, KahnComplete
<1>4. \A i \in DOMAIN order : \A d \in cond[order[i]] : \E j \in DOMAIN order : j < i /\ order[j] = d
  BY <1>2, KahnOrder
<1> HIDE DEF order
<1>5. ToSet(order) \subseteq 1 .. N
  BY <1>3, SetOf
<1>6. ASSUME NEW c \in R
      PROVE  \E d \in R : d \in cond[c]
  BY <1>2, <1>3
<1>7. IsFiniteSet(V) /\ V \subseteq V
  BY NodesAreNumbers
<1>8. \A i \in 1 .. N : comps[i] \in SUBSET V /\ comps[i] # {}
  BY <1>1, KindsAreParts DEF AreParts
<1> DEFINE Rep(i) == CHOOSE a \in comps[i] : TRUE
           Before(i) == {v \in V : Leads(deps, V, v, Rep(i))}
<1>9. \A i \in 1 .. N : Rep(i) \in comps[i] /\ Rep(i) \in V
  BY <1>8
<1> HIDE DEF Rep, V
<1>10. \A i \in 1 .. N : Before(i) \in SUBSET V /\ IsFiniteSet(Before(i)) /\ Cardinality(Before(i)) \in Nat
  <2> SUFFICES ASSUME NEW i \in 1 .. N
               PROVE  Before(i) \in SUBSET V /\ IsFiniteSet(Before(i)) /\ Cardinality(Before(i)) \in Nat
    OBVIOUS
  <2>1. Before(i) \in SUBSET V
    OBVIOUS
  <2> HIDE DEF Before
  <2> QED
    BY <2>1, <1>7, FS_Subset, FS_CardinalityType
<1>11. ASSUME NEW i \in 1 .. N, NEW a \in comps[i], NEW b \in comps[i]
       PROVE  a \in V /\ Leads(deps, V, a, b)
  <2>1. a \in V /\ b \in V
    BY <1>8
  <2>2. comps[i] = Kin(deps, V, a)
    BY <2>1, <1>1, KindsAreParts DEF V
  <2>3. b \in Kin(deps, V, a)
    BY <2>2
  <2> QED
    BY <2>1, <2>3, LeadsOn
<1>12. ASSUME NEW i \in 1 .. N, NEW j \in cond[i]
       PROVE  /\ j \in 1 .. N /\ Leads(deps, V, Rep(j), Rep(i))
              /\ Leads(deps, V, Rep(i), Rep(j)) => FALSE
  <2>1. j \in 1 .. N /\ j # i
    BY <1>2
  <2>2. PICK n \in comps[i] : deps[n] \cap comps[j] # {}
    BY <1>2
  <2>3. PICK d \in comps[j] : d \in deps[n]
    BY <2>2
  <2>4. n \in V /\ d \in V
    BY <2>1, <1>8
  <2>5. Leads(deps, V, d, n)
    <3>1. n \in Onward(deps, V, d)
      BY <2>3, <2>4 DEF Onward, Followers, V
    <3> QED
      BY <3>1, <2>4, LeadsOn
  <2>6. Leads(deps, V, Rep(j), d) /\ Leads(deps, V, n, Rep(i))
    BY <2>1, <1>9, <1>11
  <2>7. Leads(deps, V, Rep(j), Rep(i))
    <3>1. Leads(deps, V, Rep(j), n)
      BY <2>5, <2>6, LeadsOn
    <3> QED
      BY <3>1, <2>6, LeadsOn
  <2>8. ASSUME Leads(deps, V, Rep(i), Rep(j))
        PROVE  FALSE
    <3>1. Rep(j) \in Kin(deps, V, Rep(i))
      BY <2>1, <2>7, <2>8, <1>9, LeadsOn
    <3>2. comps[i] = Kin(deps, V, Rep(i))
      BY <1>1, <1>9, KindsAreParts DEF V
    <3>3. comps[j] = Kin(deps, V, Rep(j))
      BY <2>1, <1>1, <1>9, KindsAreParts DEF V
    <3>4. Rep(j) \in comps[i]
      BY <3>1, <3>2
    <3>5. comps[i] = Kin(deps, V, Rep(j))
      BY <3>4, <2>1, <1>1, <1>9, KindsAreParts DEF V
    <3>6. comps[i] = comps[j]
      BY <3>3, <3>5
    <3> QED
      BY <3>6, <2>1, <1>1 DEF AreKinds, Once
  <2> QED
    BY <2>1, <2>7, <2>8
<1>13. ASSUME NEW i \in 1 .. N, NEW j \in cond[i]
       PROVE  Before(j) \subseteq Before(i) /\ Rep(i) \in Before(i) /\ Rep(i) \notin Before(j)
  <2>1. j \in 1 .. N /\ Leads(deps, V, Rep(j), Rep(i)) /\ ~Leads(deps, V, Rep(i), Rep(j))
    BY <1>12
  <2>2. \A v : Leads(deps, V, v, Rep(j)) => Leads(deps, V, v, Rep(i))
    BY <2>1, LeadsOn
  <2>3. Leads(deps, V, Rep(i), Rep(i))
    BY LeadsOn
  <2> QED
    BY <2>1, <2>2, <2>3, <1>9
<1> HIDE DEF Before
<1>14. R = {}
  <2> SUFFICES ASSUME R # {} PROVE FALSE
    OBVIOUS
  <2> DEFINE sizes == {Cardinality(Before(i)) : i \in R}
  <2>1. sizes \subseteq Nat /\ sizes # {}
    BY <1>10
  <2>2. PICK k \in sizes : \A l \in sizes : k <= l
    <3> HIDE DEF sizes
    <3> QED
      BY <2>1, LeastNumber
  <2>3. PICK i \in R : k = Cardinality(Before(i))
    OBVIOUS
  <2>4. PICK j \in R : j \in cond[i]
    BY <1>6
  <2>5. Before(j) \in SUBSET Before(i) /\ Before(j) # Before(i)
    BY <2>4, <1>13
  <2>6. Cardinality(Before(j)) <= Cardinality(Before(i)) /\ Cardinality(Before(i)) # Cardinality(Before(j))
    BY <2>5, <1>10, FS_Subset
  <2>7. k <= Cardinality(Before(j))
    BY <2>2
  <2> QED
    BY <2>3, <2>6, <2>7, <1>10
<1>15. ToSet(order) = 1 .. N
  BY <1>5, <1>14
<1> QED
  BY <1>3, <1>4, <1>15 DEF order, cond

\* _ordered_components has the kinds of nodes, each of them once.
LEMMA OrderedComponentsAreKinds ==
    ASSUME NEW deps, IsGraph(deps)
    PROVE  AreKinds(deps, OrderedComponents(deps))
<1> DEFINE V == DOMAIN deps
           order == TopologicalOrder(deps)
           O == ToSet(order)
           R == V \ O
           parts == {{n} : n \in O} \cup StrongComponents(deps, R)
           comps == ByNode(parts)
           cond == TopologicalOrder(Condensed(deps, comps))
           alone == [i \in DOMAIN order |-> {order[i]}]
           f == [i \in DOMAIN cond |-> comps[cond[i]]]
<1>1. order \in Seq(V) /\ Once(order)
  BY KahnComplete
<1>2. Kinds(deps, V) = {{n} : n \in O} \cup Kinds(deps, R)
  BY KindsOfOrder
<1>3. OrderedComponents(deps) = IF R = {} THEN Table(alone) ELSE Table(f)
  BY DEF OrderedComponents
<1> HIDE DEF order
<1>4. DOMAIN order = 1 .. Len(order) /\ Len(order) \in Nat
  BY <1>1, SetOf
<1>5. CASE R = {}
  <2>1. Kinds(deps, V) = {{n} : n \in O}
    BY <1>2, <1>5 DEF Kinds
  <2> DEFINE K == Kinds(deps, V)
  <2>2. \A i \in 1 .. Len(order) : alone[i] \in K /\ alone[i] = {order[i]}
    BY <2>1, <1>1, <1>4, SetOf
  <2>3. alone \in [1 .. Len(order) -> K]
    BY <2>2, <1>4
  <2> HIDE DEF K, alone
  <2>4. Table(alone) = alone /\ alone \in Seq(K) /\ DOMAIN alone = 1 .. Len(order)
    BY <2>3, <1>4, TableIs
  <2>5. Once(alone)
    <3>1. \A i, j \in 1 .. Len(order) : alone[i] = alone[j] => order[i] = order[j]
      BY <2>2
    <3> QED
      BY <3>1, <2>4, <1>1, <1>4 DEF Once
  <2>6. ToSet(alone) = {{n} : n \in O}
    <3>1. ToSet(alone) = {alone[i] : i \in 1 .. Len(order)}
      BY <2>4 DEF ToSet
    <3>2. O = {order[i] : i \in 1 .. Len(order)}
      BY <1>4 DEF ToSet
    <3>3. \A v \in ToSet(alone) : \E i \in 1 .. Len(order) : v = {order[i]}
      BY <3>1, <2>2
    <3>4. \A i \in 1 .. Len(order) : {order[i]} \in ToSet(alone)
      BY <3>1, <2>2
    <3>5. \A i \in 1 .. Len(order) : order[i] \in O
      BY <3>2
    <3>6. \A n \in O : \E i \in 1 .. Len(order) : n = order[i]
      BY <3>2
    <3> DEFINE one == {{n} : n \in O}
    <3>7. \A v : v \in one <=> \E n \in O : v = {n}
      OBVIOUS
    <3> HIDE DEF O, one
    <3>8. \A v : v \in ToSet(alone) <=> v \in one
      BY <3>3, <3>4, <3>5, <3>6, <3>7
    <3> QED
      BY <3>8 DEF one
  <2> QED
    BY <1>3, <1>5, <2>1, <2>4, <2>5, <2>6 DEF AreKinds, K
<1>6. CASE R # {}
  <2>1. parts = Kinds(deps, V)
    BY <1>2, StrongComponentsAreKinds
  <2>2. V \in SUBSET Nat /\ IsFiniteSet(V) /\ AreParts(Kinds(deps, V), V)
    BY NodesAreNumbers, KindsAreParts
  <2>3. comps \in Seq(Kinds(deps, V)) /\ Once(comps) /\ ToSet(comps) = Kinds(deps, V)
    <3> DEFINE K == Kinds(deps, V)
    <3> HIDE DEF K
    <3>1. ByNode(K) \in Seq(K) /\ Once(ByNode(K)) /\ ToSet(ByNode(K)) = K
      BY <2>2, ByNodeIs DEF K
    <3> QED
      BY <3>1, <2>1 DEF K
  <2> DEFINE N == Len(comps)
             K == Kinds(deps, V)
  <2> HIDE DEF comps, parts
  <2>4. cond \in Seq(1 .. N) /\ Once(cond) /\ ToSet(cond) = 1 .. N
    <3>1. AreKinds(deps, comps)
      BY <2>3 DEF AreKinds
    <3> QED
      BY <3>1, CondensationIsOrdered
  <2> HIDE DEF cond, K
  <2>5. /\ DOMAIN cond = 1 .. Len(cond) /\ Len(cond) \in Nat
        /\ \A i \in 1 .. Len(cond) : cond[i] \in 1 .. N
        /\ \A v \in 1 .. N : \E i \in 1 .. Len(cond) : cond[i] = v
    BY <2>4, SetOf
  <2>6. /\ DOMAIN comps = 1 .. N /\ \A i \in 1 .. N : comps[i] \in K
        /\ \A v \in K : \E i \in 1 .. N : comps[i] = v
    <3>1. comps \in Seq(K) /\ ToSet(comps) = K
      BY <2>3 DEF K
    <3> QED
      BY <3>1, SetOf
  <2>7. f \in [1 .. Len(cond) -> K] /\ \A i \in 1 .. Len(cond) : f[i] = comps[cond[i]]
    BY <2>5, <2>6
  <2> HIDE DEF f, N
  <2>8. Table(f) = f /\ f \in Seq(K) /\ DOMAIN f = 1 .. Len(cond)
    BY <2>5, <2>7, TableIs
  <2>9. Once(f)
    <3> SUFFICES ASSUME NEW i \in 1 .. Len(cond), NEW j \in 1 .. Len(cond), f[i] = f[j]
                 PROVE  i = j
      BY <2>8 DEF Once
    <3>1. comps[cond[i]] = comps[cond[j]] /\ cond[i] \in DOMAIN comps /\ cond[j] \in DOMAIN comps
      BY <2>5, <2>6, <2>7
    <3>2. cond[i] = cond[j]
      BY <3>1, <2>3 DEF Once
    <3> QED
      BY <3>2, <2>4, <2>5 DEF Once
  <2>10. ToSet(f) = K
    <3>1. ToSet(f) \subseteq K
      BY <2>8, SetOf
    <3>2. ASSUME NEW v \in K
          PROVE  v \in ToSet(f)
      <4>1. PICK i \in 1 .. N : comps[i] = v
        BY <2>6
      <4>2. PICK j \in 1 .. Len(cond) : cond[j] = i
        BY <2>5
      <4>3. f[j] = v
        BY <4>1, <4>2, <2>7
      <4> QED
        BY <4>3, <2>8 DEF ToSet
    <3> QED
      BY <3>1, <3>2
  <2> QED
    BY <1>3, <1>6, <2>8, <2>9, <2>10 DEF AreKinds, K
<1> QED
  BY <1>5, <1>6

\* The graph of the columns that each row of a matrix depends on, and the
\* graph the other way.

=============================================================================
