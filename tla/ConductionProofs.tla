-------------------------- MODULE ConductionProofs --------------------------
(***************************************************************************)
(* What natural conduction around the solver guarantees, for every circuit *)
(* of ideal diodes, steps, intervals and bounds: the modes at the end of a *)
(* call are those the states allow, a mode is left at the first instant it *)
(* is invalid, and the pattern a search accepts is valid for the           *)
(* dispatcher.                                                             *)
(***************************************************************************)
EXTENDS Conduction, WellFoundedInduction, TLAPS

----------------------------------------------------------------------------
(***************************************************************************)
(* The inductive invariant.                                                *)
(***************************************************************************)
Dispatching == phase \in {"settle", "dispatch", "search"}

\* Control is at p, or will be when the dispatch under way has returned.
Ends(p) == phase = p \/ (Dispatching /\ after = p)

Types ==
    /\ circuit \in Circuit /\ cut \in Nat /\ observes \in BOOLEAN
    /\ now \in Nat /\ edge \in Nat /\ until \in Nat /\ from \in Nat
    /\ closed \in BOOLEAN /\ flows \in BOOLEAN
    /\ conducting \in Patterns /\ residual \in Residuals
    /\ search.start \in Patterns /\ search.attempt \in Nat
    /\ phase \in {"settle", "dispatch", "search", "call", "begin", "pass", "passed",
                  "locate", "failed"}
    /\ Dispatching => after \in {"call", "begin", "pass", "passed"}

Quiet(u) == \A o \in Owners : ~Negative(o, u)
Late(u) == flows /\ u > cut

\* Within an interval.
InInterval ==
    Ends("pass") \/ Ends("passed") \/ phase = "locate" =>
        now <= until /\ until <= now + Interval

\* The modes: no owner is invalid where no dispatch is under way, and current
\* flows back for a tick only, at the start of an interval.
Modes ==
    /\ phase \in {"begin", "pass", "passed", "locate"} => Quiet(now)
    /\ phase = "call" => Consistent(now) \/ (now = until /\ Consistent(now - 1))
    /\ Ends("call") \/ Ends("begin") \/ Ends("pass") => (flows => now <= cut + 1)
    /\ Ends("passed") => ~Late(now)
    /\ Dispatching /\ after = "call" => ~Late(now)
    /\ Ends("pass") /\ Late(now) => now + 1 < until

Brackets == [lower : Nat, upper : Nat, interpolated : BOOLEAN, iteration : Nat]

\* A bracket around the first invalid instant.
Encloses(b) ==
    /\ b \in Brackets /\ b.lower < b.upper
    /\ Invalid(b.upper)
    /\ b.lower = from \/ Consistent(b.lower)

\* The locator keeps one within the interval.
Bracketed ==
    phase = "locate" =>
        /\ Encloses(bracket)
        /\ from = now /\ from <= bracket.lower /\ bracket.upper <= until

ConductionInv == Types /\ InInterval /\ Modes /\ Bracketed

\* Widths of the bracket by the number of trials, no two of them secants in a
\* row: two trials halve it, rounding up, and the last leaves one tick.
Halves(W) ==
    /\ W \in [0..LocatorIterations -> Nat]
    /\ Interval <= W[0]
    /\ \A i \in 0..(LocatorIterations - 1) : W[i + 1] <= W[i]
    /\ \A i \in 0..(LocatorIterations - 2) : W[i] <= 2 * W[i + 2]
    /\ W[LocatorIterations - 1] <= 1 /\ W[LocatorIterations] <= 1

Narrows(W) ==
    phase = "locate" =>
        LET width == bracket.upper - bracket.lower
            i == bracket.iteration
        IN  /\ i <= LocatorIterations
            /\ IF bracket.interpolated THEN i > 0 /\ width <= W[i - 1] ELSE width <= W[i]

----------------------------------------------------------------------------
(***************************************************************************)
(* Numbers.                                                                *)
(***************************************************************************)
\* A set of natural numbers has a least one.
LEMMA Least ==
    ASSUME NEW T, T \subseteq Nat, T # {}
    PROVE  \E x \in T : \A y \in T : x <= y
<1>1. PICK x \in T : \A y \in T : ~(<<y, x>> \in OpToRel(<, Nat))
  BY WFMin, NatLessThanWellFounded
<1>2. \A y \in T : ~(y < x)
  BY <1>1 DEF OpToRel
<1>3. \A y \in T : x <= y
  BY <1>2
<1> QED
  BY <1>3

\* One below a bound has a greatest one.
LEMMA Greatest ==
    ASSUME NEW T, T \subseteq Nat, T # {}, NEW b \in Nat, \A y \in T : y <= b
    PROVE  \E x \in T : \A y \in T : y <= x
<1> DEFINE D == {b - y : y \in T}
<1>1. D \subseteq Nat /\ D # {}
  <2>1. \A y \in T : b - y \in Nat
    OBVIOUS
  <2>2. D \subseteq Nat
    BY <2>1
  <2>3. D # {}
    OBVIOUS
  <2> QED
    BY <2>2, <2>3
<1>2. PICK z \in D : \A y \in D : z <= y
  BY <1>1, Least
<1>3. PICK x \in T : z = b - x
  OBVIOUS
<1>4. \A y \in T : b - x <= b - y
  BY <1>2, <1>3
<1> QED
  BY <1>4

\* A quotient of natural numbers.
LEMMA Quotient ==
    ASSUME NEW a \in Nat, NEW b \in Nat, b > 0
    PROVE  /\ a \div b \in Nat
           /\ b * (a \div b) <= a /\ a < b * (a \div b) + b
<1> DEFINE q == a \div b
<1>1. q \in Int /\ b * q <= a /\ a < b * (q + 1)
  BY SMT
<1> HIDE DEF q
<1>2. b * (q + 1) = b * q + b
  BY <1>1
<1>3. q >= 0
  <2>1. SUFFICES ASSUME q + 1 <= 0 PROVE FALSE
    BY <1>1
  <2>2. b * (q + 1) <= b * 0 /\ b * 0 = 0
    BY <1>1, <2>1
  <2> QED
    BY <1>1, <2>2
<1> QED
  BY <1>1, <1>2, <1>3 DEF q

\* The accepted steps divide the way to the target, and the last one is it.
LEMMA AcceptedSteps ==
    ASSUME Types, NEW target \in Nat, now < target
    PROVE  /\ target \in Accepted(target)
           /\ \A u \in Accepted(target) : u \in Nat /\ now < u /\ u <= target
<1> DEFINE span == target - now
           n == (span + Step - 1) \div Step
<1>1. span \in Nat /\ span > 0 /\ Step \in Nat /\ Step > 0 /\ now \in Nat
  BY ConductionAssumption DEF Types
<1>2. n \in Nat /\ Step * n <= span + Step - 1 /\ span + Step - 1 < Step * n + Step
  BY <1>1, Quotient
<1>3. n > 0
  <2>1. Step * 0 = 0
    BY <1>1
  <2> HIDE DEF n
  <2> QED
    BY <1>1, <1>2, <2>1
<1>4. n <= span
  <2> HIDE DEF n
  <2>1. SUFFICES ASSUME span + 1 <= n PROVE FALSE
    BY <1>1, <1>2
  <2>2. Step * (span + 1) <= Step * n
    BY <1>1, <1>2, <2>1
  <2>3. Step * (span + 1) = Step * span + Step /\ Step * span >= span
    BY <1>1
  <2> QED
    BY <1>1, <1>2, <2>2, <2>3
<1>5. Accepted(target) = {now + (span * k) \div n : k \in 1..n}
  BY DEF Accepted
<1> HIDE DEF span, n
<1>6. ASSUME NEW k \in 1..n
      PROVE  /\ (span * k) \div n \in Nat /\ (span * k) \div n >= 1
             /\ (span * k) \div n <= span
  <2> DEFINE q == (span * k) \div n
  <2>1. span * k \in Nat /\ span * k >= span /\ span * k <= span * n
    BY <1>1, <1>2, <1>6
  <2>2. q \in Nat /\ n * q <= span * k /\ span * k < n * q + n
    BY <2>1, <1>2, <1>3, Quotient
  <2> HIDE DEF q
  <2>3. q # 0
    BY <2>1, <2>2, <1>1, <1>2, <1>4
  <2>4. q <= span
    <3>1. SUFFICES ASSUME span + 1 <= q PROVE FALSE
      BY <2>2, <1>1
    <3>2. n * (span + 1) <= n * q /\ n * (span + 1) = span * n + n
      BY <3>1, <2>2, <1>1, <1>2
    <3> QED
      BY <3>2, <2>1, <2>2, <1>1, <1>2, <1>3
  <2> QED
    BY <2>2, <2>3, <2>4 DEF q
<1>7. (span * n) \div n = span
  <2> DEFINE q == (span * n) \div n
  <2>1. span * n \in Nat
    BY <1>1, <1>2
  <2>2. q \in Nat /\ n * q <= span * n /\ span * n < n * q + n
    BY <2>1, <1>2, <1>3, Quotient
  <2> HIDE DEF q
  <2>3. q <= span
    BY <1>3, <1>6, <1>2 DEF q
  <2>4. SUFFICES ASSUME q + 1 <= span PROVE FALSE
    BY <2>2, <2>3, <1>1 DEF q
  <2>5. n * (q + 1) <= n * span /\ n * (q + 1) = n * q + n /\ n * span = span * n
    BY <2>4, <2>2, <1>1, <1>2
  <2> QED
    BY <2>1, <2>2, <2>5, <1>2
<1>8. target = now + span
  BY <1>1 DEF span
<1>9. \A u \in Accepted(target) : u \in Nat /\ now < u /\ u <= target
  BY <1>1, <1>5, <1>6, <1>8
<1>10. target \in Accepted(target)
  BY <1>1, <1>2, <1>3, <1>5, <1>7, <1>8
<1> QED
  BY <1>9, <1>10

----------------------------------------------------------------------------
(***************************************************************************)
(* Margins.                                                                *)
(***************************************************************************)
\* The row of a pattern says of each diode one of the kinds.
LEMMA RowKind ==
    ASSUME NEW c \in Circuit, NEW p \in Patterns, NEW k \in BOOLEAN, NEW d \in AllDiodes
    PROVE  Row(c, p, k)[d] \in Kinds
<1>1. AllDiodes \ p \in Patterns
  BY DEF Patterns
<1> QED
  BY <1>1 DEF Row, Circuit

\* Margins only fall.
LEMMA LevelFalls ==
    ASSUME NEW c \in Circuit, NEW p \in Patterns, NEW k \in BOOLEAN, NEW d \in AllDiodes,
           NEW u \in Int, NEW v \in Int, u <= v
    PROVE  /\ Level(c, p, k, u, d) \in {-3, -2, -1, 1}
           /\ Level(c, p, k, v, d) \in {-3, -2, -1, 1}
           /\ Level(c, p, k, v, d) <= Level(c, p, k, u, d)
<1>1. Row(c, p, k)[d] \in {"holds", "turns", "grazes", "wrong", "jumps"} /\ c.turn \in Nat
  BY RowKind DEF Kinds, Circuit
<1> QED
  BY <1>1 DEF Level

\* A mode that is invalid stays so.
LEMMA InvalidGrows ==
    ASSUME Types, NEW u \in Int, NEW v \in Int, u <= v, Invalid(u)
    PROVE  Invalid(v)
<1>1. CASE EdgeDue(u)
  BY <1>1 DEF Invalid, Negative, Owners, EdgeDue, Types
<1>2. CASE Fallen(circuit, conducting, closed, u, residual) # {}
  <2>1. PICK d \in AllDiodes : Level(circuit, conducting, closed, u, d) < residual[d]
    BY <1>2 DEF Fallen
  <2>2. residual[d] \in Int
    BY DEF Types, Residuals
  <2>3. Level(circuit, conducting, closed, v, d) < residual[d]
    BY <2>1, <2>2, LevelFalls DEF Types
  <2> QED
    BY <2>3 DEF Invalid, Negative, Owners, Fallen
<1>3. CASE flows /\ u > cut
  BY <1>3 DEF Invalid, Types
<1> QED
  BY <1>1, <1>2, <1>3 DEF Invalid, Negative, Owners

----------------------------------------------------------------------------
(***************************************************************************)
(* A pass and its locator.                                                 *)
(***************************************************************************)
\* A pass goes forward, and not past the edge or the end of the interval.
LEMMA ReachedAhead ==
    ASSUME Types, now < until, now < edge
    PROVE  Reached \in Nat /\ now < Reached /\ Reached <= until
<1>1. Step \in Nat /\ Step > 0
  BY ConductionAssumption
<1> QED
  BY <1>1 DEF Types, Reached, Target

\* Every mode valid now has its edge ahead.
LEMMA EdgeAhead ==
    ASSUME Types, Quiet(now)
    PROVE  now + 1 < edge
BY DEF Types, Quiet, Negative, Owners, EdgeDue

\* A pass without a crossing ends in valid modes.
LEMMA SmoothPass ==
    ASSUME Types, now < until, now < edge, Crossings = {}
    PROVE  Consistent(Reached)
<1>1. Reached \in Nat /\ now < Reached
  BY ReachedAhead
<1>2. Reached \in Accepted(Reached)
  BY <1>1, AcceptedSteps
<1> QED
  BY <1>2 DEF Crossings, Consistent

\* The first observed crossing, and a valid instant (or the start) before it.
LEMMA CrossingBracketed ==
    ASSUME Types, now < until, now < edge, Crossings # {}
    PROVE  /\ Crossed \in Nat /\ Before \in Nat
           /\ now <= Before /\ Before < Crossed /\ Crossed <= until
           /\ Invalid(Crossed)
           /\ Before = now \/ Consistent(Before)
<1>0. now \in Nat /\ until \in Nat
  BY DEF Types
<1>1. Reached \in Nat /\ now < Reached /\ Reached <= until
  BY ReachedAhead
<1>2. \A u \in Accepted(Reached) : u \in Nat /\ now < u /\ u <= Reached
  BY <1>1, AcceptedSteps
<1>3. \A u \in Crossings : u \in Nat /\ now < u /\ u <= until /\ Invalid(u)
  BY <1>0, <1>1, <1>2 DEF Crossings
<1>4. Crossed \in Crossings /\ \A v \in Crossings : Crossed <= v
  <2>1. Crossings \subseteq Nat
    BY <1>3
  <2>2. \E u \in Crossings : \A v \in Crossings : u <= v
    BY <2>1, Least
  <2> QED
    BY <2>2 DEF Crossed
<1>5. CASE ~observes
  BY <1>0, <1>3, <1>4, <1>5 DEF Before
<1>6. CASE observes
  <2> DEFINE T == {u \in Accepted(Reached) : u < Crossed} \cup {now}
  <2>1. T \subseteq Nat /\ T # {} /\ Crossed \in Nat
    BY <1>0, <1>2, <1>3, <1>4
  <2>2. \A y \in T : now <= y /\ y < Crossed /\ y <= Crossed
    BY <1>0, <1>2, <1>3, <1>4, <2>1
  <2>3. \A y \in T : y = now \/ Consistent(y)
    <3>1. SUFFICES ASSUME NEW y \in Accepted(Reached), y < Crossed, Invalid(y) PROVE FALSE
      BY DEF Consistent
    <3>2. y \in Crossings
      BY <1>6, <3>1 DEF Crossings
    <3>3. y \in Nat /\ Crossed <= y
      BY <1>2, <1>4, <3>2
    <3> QED
      BY <3>1, <3>3, <2>1
  <2>4. Before = CHOOSE u \in T : \A v \in T : v <= u
    BY <1>6 DEF Before
  <2> HIDE DEF T
  <2>5. \E u \in T : \A v \in T : v <= u
    BY <2>1, <2>2, Greatest
  <2>6. Before \in T
    BY <2>4, <2>5
  <2> QED
    BY <1>3, <1>4, <2>1, <2>2, <2>3, <2>6
<1> QED
  BY <1>5, <1>6

\* Moving one end of a bracket.
LEMMA EndsMoved ==
    ASSUME NEW b \in Brackets, NEW x \in Nat
    PROVE  /\ [b EXCEPT !.upper = x] \in Brackets
           /\ [b EXCEPT !.upper = x].upper = x
           /\ [b EXCEPT !.upper = x].lower = b.lower
           /\ [b EXCEPT !.upper = x].iteration = b.iteration
           /\ [b EXCEPT !.lower = x] \in Brackets
           /\ [b EXCEPT !.lower = x].lower = x
           /\ [b EXCEPT !.lower = x].upper = b.upper
           /\ [b EXCEPT !.lower = x].iteration = b.iteration
BY DEF Brackets

\* One bracket lies in another, after as many trials.
Within(b, c) ==
    /\ c.lower <= b.lower /\ b.upper <= c.upper
    /\ b.iteration = c.iteration

\* One end moves to an instant inside.
LEMMA OneTrial ==
    ASSUME NEW b, Encloses(b), NEW x \in Nat, b.lower < x, x < b.upper
    PROVE  LET n == IF Invalid(x) THEN [b EXCEPT !.upper = x] ELSE [b EXCEPT !.lower = x]
           IN  /\ Encloses(n) /\ Within(n, b)
               /\ \/ n.lower = x /\ n.upper = b.upper
                  \/ n.lower = b.lower /\ n.upper = x
<1> DEFINE n == IF Invalid(x) THEN [b EXCEPT !.upper = x] ELSE [b EXCEPT !.lower = x]
<1>0. b \in Brackets /\ b.lower \in Nat /\ b.upper \in Nat
  BY DEF Encloses, Brackets
<1>1. CASE Invalid(x)
  <2> DEFINE m == [b EXCEPT !.upper = x]
  <2>1. n = m
    BY <1>1
  <2>2. m \in Brackets /\ m.upper = x /\ m.lower = b.lower /\ m.iteration = b.iteration
    BY <1>0, EndsMoved
  <2> HIDE DEF n, m
  <2>3. Encloses(m) /\ Within(m, b)
    BY <1>0, <1>1, <2>2 DEF Encloses, Within
  <2>4. Encloses(n) /\ Within(n, b) /\ n.lower = b.lower /\ n.upper = x
    BY <2>1, <2>2, <2>3
  <2> QED
    BY <2>4 DEF n
<1>2. CASE ~Invalid(x)
  <2> DEFINE m == [b EXCEPT !.lower = x]
  <2>1. n = m
    BY <1>2
  <2>2. m \in Brackets /\ m.upper = b.upper /\ m.lower = x /\ m.iteration = b.iteration
    BY <1>0, EndsMoved
  <2> HIDE DEF n, m
  <2>3. Encloses(m) /\ Within(m, b)
    BY <1>0, <1>2, <2>2 DEF Encloses, Within, Consistent
  <2>4. Encloses(n) /\ Within(n, b) /\ n.lower = x /\ n.upper = b.upper
    BY <2>1, <2>2, <2>3
  <2> QED
    BY <2>4 DEF n
<1> QED
  BY <1>1, <1>2

\* A trial, and after a secant that of the adjacent instant, narrow a bracket.
LEMMA TrialNarrows ==
    ASSUME NEW b, Encloses(b), NEW middle \in Nat, b.lower < middle, middle < b.upper,
           NEW secant \in BOOLEAN
    PROVE  LET n == Narrowed(b, middle, secant)
           IN  /\ Encloses(n) /\ Within(n, b)
               /\ n.upper - n.lower < b.upper - b.lower
               /\ ~secant => \/ n.lower = middle /\ n.upper = b.upper
                             \/ n.lower = b.lower /\ n.upper = middle
<1> DEFINE n == Narrowed(b, middle, secant)
           first == IF Invalid(middle) THEN [b EXCEPT !.upper = middle]
                    ELSE [b EXCEPT !.lower = middle]
           adjacent == IF Invalid(middle) THEN middle - 1 ELSE middle + 1
           second == IF Invalid(adjacent) THEN [first EXCEPT !.upper = adjacent]
                     ELSE [first EXCEPT !.lower = adjacent]
<1>1. /\ Encloses(first) /\ Within(first, b)
      /\ \/ first.lower = middle /\ first.upper = b.upper
         \/ first.lower = b.lower /\ first.upper = middle
  BY OneTrial
<1>2. n = IF ~secant \/ adjacent <= first.lower \/ adjacent >= first.upper
          THEN first ELSE second
  BY DEF Narrowed
<1>3. /\ b.lower \in Nat /\ b.upper \in Nat
      /\ first \in Brackets /\ first.lower \in Nat /\ first.upper \in Nat
  BY <1>1 DEF Encloses, Brackets
<1>4. adjacent \in Int
  OBVIOUS
<1>5. ASSUME secant, ~(adjacent <= first.lower), ~(adjacent >= first.upper)
      PROVE  /\ Encloses(second) /\ Within(second, first)
             /\ \/ second.lower = adjacent /\ second.upper = first.upper
                \/ second.lower = first.lower /\ second.upper = adjacent
  <2> HIDE DEF first, adjacent
  <2>1. adjacent \in Nat /\ first.lower < adjacent /\ adjacent < first.upper
    BY <1>3, <1>4, <1>5
  <2> QED
    BY <1>1, <2>1, OneTrial
<1>6. CASE n = first
  <2> HIDE DEF n, first, adjacent
  <2> QED
    BY <1>1, <1>3, <1>6 DEF n
<1>7. CASE n # first
  <2>1. /\ n = second /\ secant
        /\ ~(adjacent <= first.lower) /\ ~(adjacent >= first.upper)
    BY <1>2, <1>7
  <2>2. Encloses(second) /\ Within(second, first)
    BY <1>5, <2>1
  <2> HIDE DEF n, first, adjacent, second
  <2>3. second.lower \in Nat /\ second.upper \in Nat
    BY <2>2 DEF Encloses, Brackets
  <2>4. /\ first.lower <= second.lower /\ second.upper <= first.upper
        /\ b.lower <= first.lower /\ first.upper <= b.upper
        /\ second.iteration = b.iteration
    BY <1>1, <2>2 DEF Within
  <2>5. Within(second, b)
    BY <1>3, <2>3, <2>4 DEF Within
  <2>6. second.upper - second.lower < b.upper - b.lower
    BY <1>1, <1>3, <2>3, <2>4
  <2>7. Encloses(n) /\ Within(n, b) /\ n.upper - n.lower < b.upper - b.lower /\ secant
    BY <2>1, <2>2, <2>5, <2>6
  <2> QED
    BY <2>7 DEF n
<1> QED
  BY <1>6, <1>7

----------------------------------------------------------------------------
(***************************************************************************)
(* The invariant, action by action.                                        *)
(***************************************************************************)
LEMMA PatternsOfSearch ==
    /\ NoResidual \in Residuals /\ {} \in Patterns
    /\ \A r \in Residuals : \A p, q : Recovered(r, p, q) \in Residuals
    /\ \A c, p, k, u : Kept(c, p, k, u) \in Residuals
    /\ \A p \in Patterns : SymDiff(p, Bad(p)) \in Patterns
<1>1. NoResidual \in Residuals /\ {} \in Patterns
  BY DEF NoResidual, Residuals, Patterns
<1>2. \A r \in Residuals : \A p, q : Recovered(r, p, q) \in Residuals
  BY DEF Recovered, Residuals
<1>3. \A c, p, k, u : Kept(c, p, k, u) \in Residuals
  BY DEF Kept, Residuals
<1>4. \A p : Bad(p) \subseteq AllDiodes
  BY DEF Bad, Impulses, Fallen, Reversed
<1>5. \A p \in Patterns : SymDiff(p, Bad(p)) \in Patterns
  BY <1>4 DEF SymDiff, Patterns
<1> QED
  BY <1>1, <1>2, <1>3, <1>5

LEMMA InitInv == Init => ConductionInv
<1> SUFFICES ASSUME Init PROVE ConductionInv
  OBVIOUS
<1>1. circuit \in Circuit /\ cut \in Nat /\ Period \in Nat
  BY ConductionAssumption DEF Init
<1>2. Types
  BY <1>1, PatternsOfSearch DEF Init, Types, Dispatching, NoSearch
<1>3. InInterval
  BY DEF Init, InInterval, Ends, Dispatching
<1>4. Modes
  BY <1>1 DEF Init, Modes, Ends, Dispatching, Late
<1>5. Bracketed
  BY DEF Init, Bracketed
<1> QED
  BY <1>2, <1>3, <1>4, <1>5 DEF ConductionInv

\* The dispatcher: until it returns only modes change, at one instant.
LEMMA DispatchKeeps ==
    ASSUME ConductionInv, Types',
           Dispatching, Dispatching' \/ phase' = "failed",
           UNCHANGED <<cut, now, until, after, flows>>
    PROVE  ConductionInv'
<1>1. InInterval'
  BY DEF ConductionInv, InInterval, Ends, Dispatching
<1>2. Modes'
  BY DEF ConductionInv, Modes, Ends, Dispatching, Late
<1>3. Bracketed'
  BY DEF Bracketed, Dispatching
<1> QED
  BY <1>1, <1>2, <1>3 DEF ConductionInv

LEMMA SettleRoundInv ==
    ASSUME ConductionInv, SettleRound PROVE ConductionInv'
<1> DEFINE synced == Resolve(circuit, conducting, closed, {})
<1>1. /\ phase = "settle" /\ synced \in Patterns /\ conducting' = synced
      /\ residual' = Recovered(residual, conducting, synced)
      /\ UNCHANGED <<circuit, cut, observes, now, edge, until, from, closed, flows, after,
                     search, bracket>>
      /\ \/ Pending = {} /\ phase' = after
         \/ phase' = "dispatch"
  BY DEF SettleRound, plant
<1> HIDE DEF synced
<1>2. Types'
  BY <1>1, PatternsOfSearch DEF ConductionInv, Types, Dispatching
<1>3. CASE phase' = "dispatch"
  BY <1>1, <1>2, <1>3, DispatchKeeps DEF Dispatching
<1>4. CASE Pending = {} /\ phase' = after
  <2>1. Quiet(now)'
    BY <1>4 DEF Pending, Quiet
  <2>2. after \in {"call", "begin", "pass", "passed"}
    BY <1>1 DEF ConductionInv, Types, Dispatching
  <2>3. InInterval'
    BY <1>1, <1>4, <2>2 DEF ConductionInv, InInterval, Ends, Dispatching
  <2>4. Modes'
    <3>1. now' = now /\ cut' = cut /\ flows' = flows /\ until' = until
      BY <1>1
    <3>2. Late(now)' <=> Late(now)
      BY <3>1 DEF Late
    <3>3. (phase \in {"begin", "pass", "passed", "locate"} => Quiet(now))'
      BY <2>1
    <3>4. (phase = "call" => Consistent(now))'
      <4>1. SUFFICES ASSUME phase' = "call" PROVE Consistent(now)'
        BY <2>1
      <4>2. ~Late(now)'
        BY <1>1, <1>4, <3>2, <4>1 DEF ConductionInv, Modes, Dispatching
      <4> QED
        BY <2>1, <4>2 DEF Consistent, Invalid, Quiet, Late
    <3>5. (Ends("call") \/ Ends("begin") \/ Ends("pass") => (flows => now <= cut + 1))'
      BY <1>1, <1>4, <2>2, <3>1 DEF ConductionInv, Modes, Ends, Dispatching
    <3>6. (Ends("passed") => ~Late(now))'
      BY <1>1, <1>4, <2>2, <3>2 DEF ConductionInv, Modes, Ends, Dispatching
    <3>7. (Ends("pass") /\ Late(now) => now + 1 < until)'
      BY <1>1, <1>4, <2>2, <3>1, <3>2 DEF ConductionInv, Modes, Ends, Dispatching
    <3>8. (Dispatching /\ after = "call" => ~Late(now))'
      BY <1>4, <2>2, <1>1 DEF Dispatching
    <3> QED
      BY <3>3, <3>4, <3>5, <3>6, <3>7, <3>8 DEF Modes
  <2>5. Bracketed'
    BY <1>4, <2>2, <1>1 DEF Bracketed
  <2> QED
    BY <1>2, <2>3, <2>4, <2>5 DEF ConductionInv
<1> QED
  BY <1>1, <1>3, <1>4

LEMMA DispatchInv ==
    ASSUME ConductionInv,
           SettleFails \/ CommutateSwitch \/ CommutateCircuit \/ Skip \/ RoundDone
    PROVE  ConductionInv'
<1>1. CASE SettleFails
  <2>1. Types'
    BY <1>1 DEF ConductionInv, Types, Dispatching, SettleFails, plant, state
  <2> QED
    BY <1>1, <2>1, DispatchKeeps DEF SettleFails, plant, state, Dispatching
<1>2. CASE CommutateSwitch
  <2>0. edge' = edge + Period /\ edge \in Nat /\ Period \in Nat
    BY <1>2, ConductionAssumption DEF ConductionInv, Types, CommutateSwitch
  <2>1. edge' \in Nat
    BY <2>0
  <2>2. closed' \in BOOLEAN
    BY <1>2 DEF CommutateSwitch
  <2>3. Types'
    BY <1>2, <2>1, <2>2 DEF ConductionInv, Types, Dispatching, CommutateSwitch, plant
  <2> QED
    BY <1>2, <2>3, DispatchKeeps DEF CommutateSwitch, plant, Dispatching
<1>3. CASE CommutateCircuit
  <2>1. search'.start = conducting /\ search'.attempt = 0
    BY <1>3 DEF CommutateCircuit, NoSearch
  <2>2. Types'
    BY <1>3, <2>1 DEF ConductionInv, Types, Dispatching, CommutateCircuit, plant, state
  <2> QED
    BY <1>3, <2>2, DispatchKeeps DEF CommutateCircuit, plant, state, Dispatching
<1>4. CASE Skip
  <2>1. Types'
    BY <1>4 DEF ConductionInv, Types, Dispatching, Skip, plant, state
  <2> QED
    BY <1>4, <2>1, DispatchKeeps DEF Skip, plant, state, Dispatching
<1>5. CASE RoundDone
  <2>1. Types'
    BY <1>5 DEF ConductionInv, Types, Dispatching, RoundDone, plant, state
  <2> QED
    BY <1>5, <2>1, DispatchKeeps DEF RoundDone, plant, state, Dispatching
<1> QED
  BY <1>1, <1>2, <1>3, <1>4, <1>5

LEMMA SearchInv ==
    ASSUME ConductionInv, SearchFlip \/ SearchAccept \/ SearchFails
    PROVE  ConductionInv'
<1>1. CASE SearchFlip
  <2>1. conducting' \in Patterns /\ residual' \in Residuals
    BY <1>1, PatternsOfSearch DEF SearchFlip, ConductionInv, Types
  <2>2. search'.start = search.start /\ search'.attempt \in Nat
    BY <1>1 DEF SearchFlip, ConductionInv, Types
  <2>3. Types'
    BY <1>1, <2>1, <2>2 DEF ConductionInv, Types, Dispatching, SearchFlip, plant
  <2> QED
    BY <1>1, <2>3, DispatchKeeps DEF SearchFlip, plant, Dispatching
<1>2. CASE SearchAccept
  <2>1. conducting' \in Patterns /\ residual' \in Residuals
    BY <1>2, PatternsOfSearch DEF SearchAccept, ConductionInv, Types
  <2>2. Types'
    BY <1>2, <2>1 DEF ConductionInv, Types, Dispatching, SearchAccept, plant
  <2> QED
    BY <1>2, <2>2, DispatchKeeps DEF SearchAccept, plant, Dispatching
<1>3. CASE SearchFails
  <2>1. conducting' \in Patterns
    BY <1>3 DEF SearchFails, ConductionInv, Types
  <2>2. Types'
    BY <1>3, <2>1 DEF ConductionInv, Types, Dispatching, SearchFails, plant
  <2> QED
    BY <1>3, <2>2, DispatchKeeps DEF SearchFails, plant, Dispatching
<1> QED
  BY <1>1, <1>2, <1>3

LEMMA CallInv ==
    ASSUME ConductionInv, Boundary \/ Advance PROVE ConductionInv'
<1>1. CASE Boundary
  <2>1. /\ phase = "call" /\ phase' = "settle" /\ after' = "begin" /\ search' = NoSearch
        /\ closed' \in BOOLEAN
        /\ UNCHANGED <<circuit, cut, observes, now, edge, conducting, residual, flows,
                       until, bracket, from>>
    BY <1>1 DEF Boundary, Settle, plant
  <2>2. Types'
    BY <2>1, PatternsOfSearch DEF ConductionInv, Types, Dispatching, NoSearch
  <2>3. InInterval' /\ Bracketed'
    BY <2>1 DEF InInterval, Ends, Dispatching, Bracketed
  <2>4. Modes'
    BY <2>1 DEF ConductionInv, Modes, Ends, Dispatching, Late
  <2> QED
    BY <2>2, <2>3, <2>4 DEF ConductionInv
<1>2. CASE Advance
  <2>1. /\ phase = "begin" /\ phase' = "settle" /\ after' = "pass" /\ search' = NoSearch
        /\ until' = now + Interval
        /\ UNCHANGED <<circuit, cut, observes, now, edge, closed, conducting, residual,
                       flows, bracket, from>>
    BY <1>2 DEF Advance, Settle, plant, state
  <2>2. now \in Nat /\ Interval \in Nat /\ Interval > 1
    BY ConductionAssumption DEF ConductionInv, Types
  <2>3. Types'
    <3>1. until' \in Nat
      BY <2>1, <2>2
    <3> QED
      BY <2>1, <3>1, PatternsOfSearch DEF ConductionInv, Types, Dispatching, NoSearch
  <2>4. InInterval' /\ Bracketed'
    BY <2>1, <2>2 DEF InInterval, Ends, Dispatching, Bracketed
  <2>5. Modes'
    BY <2>1, <2>2 DEF ConductionInv, Modes, Ends, Dispatching, Late
  <2> QED
    BY <2>3, <2>4, <2>5 DEF ConductionInv
<1> QED
  BY <1>1, <1>2

LEMMA IntervalEndsInv ==
    ASSUME ConductionInv, IntervalEnds PROVE ConductionInv'
<1>1. /\ phase = "pass" /\ now >= until - 1 /\ now' = until /\ phase' = "call"
      /\ UNCHANGED <<circuit, cut, observes, edge, closed, conducting, residual, flows,
                     after, until, search, bracket, from>>
  BY DEF IntervalEnds, plant, state
<1>2. now \in Nat /\ until \in Nat /\ cut \in Nat
  BY DEF ConductionInv, Types
<1>3. now <= until /\ ~Late(now) /\ Quiet(now)
  BY <1>1, <1>2 DEF ConductionInv, InInterval, Modes, Ends
<1>4. Types'
  BY <1>1, <1>2 DEF ConductionInv, Types, Dispatching
<1>5. InInterval' /\ Bracketed'
  BY <1>1 DEF InInterval, Ends, Dispatching, Bracketed
<1>6. Consistent(now)
  BY <1>3 DEF Consistent, Invalid, Quiet, Late
<1>7. (phase = "call" => Consistent(now) \/ (now = until /\ Consistent(now - 1)))'
  <2>1. CASE now = until
    <3>1. now' = now
      BY <1>1, <2>1
    <3> QED
      BY <1>1, <1>6, <3>1
         DEF Consistent, Invalid, Negative, Owners, EdgeDue
  <2>2. CASE now = until - 1
    <3>1. now' = until' /\ now' - 1 = now
      BY <1>1, <1>2, <2>2
    <3>2. Consistent(now - 1)'
      BY <1>1, <1>6, <3>1
         DEF Consistent, Invalid, Negative, Owners, EdgeDue
    <3> QED
      BY <3>1, <3>2
  <2> QED
    BY <1>1, <1>2, <1>3, <2>1, <2>2
<1>8. (Ends("call") \/ Ends("begin") \/ Ends("pass") => (flows => now <= cut + 1))'
  BY <1>1, <1>2, <1>3 DEF Late
<1>9. Modes'
  BY <1>1, <1>7, <1>8 DEF Modes, Ends, Dispatching
<1> QED
  BY <1>4, <1>5, <1>9 DEF ConductionInv

LEMMA PassSmoothlyInv ==
    ASSUME ConductionInv, PassSmoothly PROVE ConductionInv'
<1>1. /\ phase = "pass" /\ now < until - 1 /\ Crossings = {}
      /\ now' = Reached /\ from' = now /\ phase' = "passed"
      /\ UNCHANGED <<circuit, cut, observes, edge, closed, conducting, residual, flows,
                     after, until, search, bracket>>
  BY DEF PassSmoothly, plant, state
<1>2. Types /\ now \in Nat /\ until \in Nat /\ cut \in Nat /\ edge \in Nat
  BY DEF ConductionInv, Types
<1>3. now < until /\ now < edge
  <2>1. Quiet(now)
    BY <1>1 DEF ConductionInv, Modes
  <2> QED
    BY <1>1, <1>2, <2>1, EdgeAhead
<1>4. Reached \in Nat /\ now < Reached /\ Reached <= until
  BY <1>2, <1>3, ReachedAhead
<1>5. Consistent(Reached)
  BY <1>1, <1>2, <1>3, SmoothPass
<1>6. Types'
  BY <1>1, <1>2, <1>4 DEF Types, Dispatching
<1>7. InInterval' /\ Bracketed'
  <2>1. until <= now + Interval /\ Interval \in Nat
    BY <1>1, ConductionAssumption DEF ConductionInv, InInterval, Ends
  <2>2. now' <= until' /\ until' <= now' + Interval
    BY <1>1, <1>2, <1>4, <2>1
  <2> QED
    BY <1>1, <2>2 DEF InInterval, Bracketed
<1>8. Consistent(now)'
  BY <1>1, <1>5 DEF Consistent, Invalid, Negative, Owners, EdgeDue
<1>9. Quiet(now)' /\ ~Late(now)'
  BY <1>8 DEF Consistent, Invalid, Quiet, Late
<1>10. Modes'
  BY <1>1, <1>9 DEF Modes, Ends, Dispatching
<1> QED
  BY <1>6, <1>7, <1>10 DEF ConductionInv

LEMMA PassCrossesInv ==
    ASSUME ConductionInv, PassCrosses
    PROVE  ConductionInv' /\ bracket' \in Brackets
           /\ bracket'.iteration = 0 /\ bracket'.interpolated = FALSE
           /\ bracket'.upper - bracket'.lower <= Interval
<1>1. /\ phase = "pass" /\ now < until - 1 /\ Crossings # {}
      /\ from' = now /\ phase' = "locate"
      /\ bracket' = [NoBracket EXCEPT !.lower = Before, !.upper = Crossed]
      /\ UNCHANGED <<circuit, cut, observes, now, edge, closed, conducting, residual, flows,
                     after, until, search>>
  BY DEF PassCrosses, plant, state
<1>2. Types /\ now \in Nat /\ until \in Nat /\ cut \in Nat /\ edge \in Nat
  BY DEF ConductionInv, Types
<1>3. Quiet(now) /\ now < until /\ now < edge
  <2>1. Quiet(now)
    BY <1>1 DEF ConductionInv, Modes
  <2> QED
    BY <1>1, <1>2, <2>1, EdgeAhead
<1>4. /\ Crossed \in Nat /\ Before \in Nat
      /\ now <= Before /\ Before < Crossed /\ Crossed <= until
      /\ Invalid(Crossed)
      /\ Before = now \/ Consistent(Before)
  BY <1>1, <1>2, <1>3, CrossingBracketed
<1> HIDE DEF Crossed, Before
<1>5. /\ bracket' = [lower |-> Before, upper |-> Crossed, interpolated |-> FALSE,
                     iteration |-> 0]
  BY <1>1 DEF NoBracket
<1>6. /\ bracket' \in Brackets
      /\ bracket'.lower = Before /\ bracket'.upper = Crossed
      /\ bracket'.iteration = 0 /\ bracket'.interpolated = FALSE
  BY <1>4, <1>5 DEF Brackets
<1>7. until <= now + Interval /\ now <= until /\ Interval \in Nat
  BY <1>1, ConductionAssumption DEF ConductionInv, InInterval, Ends
<1>8. Types'
  BY <1>1, <1>2 DEF Types, Dispatching
<1>9. InInterval'
  BY <1>1, <1>7 DEF InInterval
<1>10. Modes'
  <2>1. Quiet(now)'
    BY <1>1, <1>3 DEF Quiet, Negative, Owners, EdgeDue
  <2> QED
    BY <1>1, <2>1 DEF Modes, Ends, Dispatching
<1>11. Bracketed'
  <2>1. Invalid(bracket.upper)'
    BY <1>1, <1>4, <1>6 DEF Invalid, Negative, Owners, EdgeDue
  <2>2. (bracket.lower = from \/ Consistent(bracket.lower))'
    BY <1>1, <1>4, <1>6 DEF Consistent, Invalid, Negative, Owners, EdgeDue
  <2>3. Encloses(bracket)'
    BY <1>4, <1>6, <2>1, <2>2 DEF Encloses
  <2> QED
    BY <1>1, <1>4, <1>6, <2>3 DEF Bracketed
<1>12. bracket'.upper - bracket'.lower <= Interval
  BY <1>2, <1>4, <1>6, <1>7
<1> QED
  BY <1>6, <1>8, <1>9, <1>10, <1>11, <1>12 DEF ConductionInv

\* What a step of the locator makes of its bracket.
LEMMA LocateStep ==
    ASSUME ConductionInv, Locate
    PROVE  /\ phase = "locate" /\ ~LocatorDone
           /\ Encloses(bracket) /\ Encloses(bracket')
           /\ bracket.lower <= bracket'.lower /\ bracket'.upper <= bracket.upper
           /\ bracket'.iteration = bracket.iteration + 1
           /\ \/ /\ bracket'.interpolated = FALSE
                 /\ LET width == bracket.upper - bracket.lower
                    IN  2 * (bracket'.upper - bracket'.lower) <= width + 1
              \/ /\ bracket'.interpolated = TRUE /\ bracket.interpolated = FALSE
                 /\ bracket'.upper - bracket'.lower < bracket.upper - bracket.lower
<1> DEFINE b == [bracket EXCEPT !.iteration = @ + 1]
           middle == b.lower + (b.upper - b.lower) \div 2
<1>1. /\ phase = "locate" /\ ~LocatorDone /\ Encloses(bracket)
  BY DEF Locate, ConductionInv, Bracketed
<1>2. /\ bracket \in Brackets /\ bracket.lower \in Nat /\ bracket.upper \in Nat
      /\ bracket.iteration \in Nat /\ bracket.interpolated \in BOOLEAN
  BY <1>1 DEF Encloses, Brackets
<1>3. /\ b \in Brackets /\ b.lower = bracket.lower /\ b.upper = bracket.upper
      /\ b.iteration = bracket.iteration + 1 /\ b.interpolated = bracket.interpolated
  BY <1>2 DEF Brackets
<1>4. \/ bracket' = [Narrowed(b, middle, FALSE) EXCEPT !.interpolated = FALSE]
      \/ /\ MayInterpolate(b)
         /\ \E m \in (b.lower + 1)..(b.upper - 1) :
                bracket' = [Narrowed(b, m, TRUE) EXCEPT !.interpolated = TRUE]
  BY DEF Locate
<1> HIDE DEF b
<1>5. Encloses(b) /\ bracket.upper - bracket.lower > 1
  <2>1. Encloses(b)
    BY <1>1, <1>3 DEF Encloses
  <2> QED
    BY <1>1, <1>2, <2>1 DEF LocatorDone
<1>6. ASSUME NEW n, Encloses(n), Within(n, b), NEW t \in BOOLEAN,
             bracket' = [n EXCEPT !.interpolated = t]
      PROVE  /\ Encloses(bracket')
             /\ bracket.lower <= bracket'.lower /\ bracket'.upper <= bracket.upper
             /\ bracket'.iteration = bracket.iteration + 1
             /\ bracket'.interpolated = t
             /\ bracket'.lower = n.lower /\ bracket'.upper = n.upper
  <2>1. n \in Brackets
    BY <1>6 DEF Encloses
  <2>2. /\ bracket' \in Brackets /\ bracket'.lower = n.lower /\ bracket'.upper = n.upper
        /\ bracket'.iteration = n.iteration /\ bracket'.interpolated = t
    BY <1>6, <2>1 DEF Brackets
  <2>3. Encloses(bracket')
    BY <1>6, <2>2 DEF Encloses
  <2> QED
    BY <1>3, <1>6, <2>2, <2>3 DEF Within
<1>7. CASE bracket' = [Narrowed(b, middle, FALSE) EXCEPT !.interpolated = FALSE]
  <2>1. /\ middle \in Nat /\ b.lower < middle /\ middle < b.upper
        /\ 2 * (middle - b.lower) <= b.upper - b.lower
        /\ 2 * (b.upper - middle) <= b.upper - b.lower + 1
    BY <1>2, <1>3, <1>5
  <2> DEFINE n == Narrowed(b, middle, FALSE)
  <2> HIDE DEF middle
  <2>2. /\ Encloses(n) /\ Within(n, b)
        /\ \/ n.lower = middle /\ n.upper = b.upper
           \/ n.lower = b.lower /\ n.upper = middle
    BY <1>5, <2>1, TrialNarrows
  <2>3. bracket' = [n EXCEPT !.interpolated = FALSE]
    BY <1>7
  <2> HIDE DEF n
  <2>4. /\ Encloses(bracket')
        /\ bracket.lower <= bracket'.lower /\ bracket'.upper <= bracket.upper
        /\ bracket'.iteration = bracket.iteration + 1 /\ bracket'.interpolated = FALSE
        /\ bracket'.lower = n.lower /\ bracket'.upper = n.upper
    BY <1>6, <2>2, <2>3
  <2>5. 2 * (bracket'.upper - bracket'.lower) <= bracket.upper - bracket.lower + 1
    BY <1>2, <1>3, <2>1, <2>2, <2>4
  <2> QED
    BY <1>1, <2>4, <2>5
<1>8. CASE /\ MayInterpolate(b)
           /\ \E m \in (b.lower + 1)..(b.upper - 1) :
                  bracket' = [Narrowed(b, m, TRUE) EXCEPT !.interpolated = TRUE]
  <2>1. PICK m \in (b.lower + 1)..(b.upper - 1) :
               bracket' = [Narrowed(b, m, TRUE) EXCEPT !.interpolated = TRUE]
    BY <1>8
  <2>2. m \in Nat /\ b.lower < m /\ m < b.upper
    BY <1>2, <1>3
  <2> DEFINE n == Narrowed(b, m, TRUE)
  <2>3. Encloses(n) /\ Within(n, b) /\ n.upper - n.lower < b.upper - b.lower
    BY <1>5, <2>2, TrialNarrows
  <2>4. bracket' = [n EXCEPT !.interpolated = TRUE]
    BY <2>1
  <2> HIDE DEF n
  <2>5. /\ Encloses(bracket')
        /\ bracket.lower <= bracket'.lower /\ bracket'.upper <= bracket.upper
        /\ bracket'.iteration = bracket.iteration + 1 /\ bracket'.interpolated = TRUE
        /\ bracket'.lower = n.lower /\ bracket'.upper = n.upper
    BY <1>6, <2>3, <2>4
  <2>6. bracket.interpolated = FALSE
    BY <1>2, <1>3, <1>8 DEF MayInterpolate
  <2> QED
    BY <1>1, <1>3, <2>3, <2>5, <2>6
<1> QED
  BY <1>4, <1>7, <1>8

LEMMA LocateInv ==
    ASSUME ConductionInv, Locate PROVE ConductionInv'
<1>1. /\ phase = "locate" /\ phase' = "locate"
      /\ UNCHANGED <<circuit, cut, observes, now, edge, closed, conducting, residual, flows,
                     after, until, search, from>>
  BY DEF Locate, plant, state
<1>2. /\ Encloses(bracket) /\ Encloses(bracket')
      /\ bracket.lower <= bracket'.lower /\ bracket'.upper <= bracket.upper
  BY LocateStep
<1>3. /\ now \in Nat /\ until \in Nat /\ from = now /\ from <= bracket.lower
      /\ bracket.upper <= until
  BY <1>1 DEF ConductionInv, Types, Bracketed
<1>4. Types'
  BY <1>1 DEF ConductionInv, Types, Dispatching
<1>5. InInterval'
  BY <1>1 DEF ConductionInv, InInterval
<1>6. Modes'
  <2>1. Quiet(now)'
    BY <1>1 DEF ConductionInv, Modes, Quiet, Negative, Owners, EdgeDue
  <2> QED
    BY <1>1, <2>1 DEF Modes, Ends, Dispatching
<1>7. Bracketed'
  <2>1. /\ bracket.lower \in Nat /\ bracket.upper \in Nat
        /\ bracket'.lower \in Nat /\ bracket'.upper \in Nat
    BY <1>2 DEF Encloses, Brackets
  <2>2. from <= bracket'.lower /\ bracket'.upper <= until
    BY <1>2, <1>3, <2>1
  <2>3. Encloses(bracket)'
    BY <1>1, <1>2 DEF Encloses, Consistent, Invalid, Negative, Owners, EdgeDue
  <2> QED
    BY <1>1, <1>3, <2>2, <2>3 DEF Bracketed
<1> QED
  BY <1>4, <1>5, <1>6, <1>7 DEF ConductionInv

LEMMA LocatedInv ==
    ASSUME ConductionInv, Located PROVE ConductionInv'
<1>1. /\ phase = "locate" /\ now' = bracket.upper
      /\ flows' = (flows /\ bracket.upper <= cut)
      /\ phase' = "settle" /\ after' = "passed" /\ search' = NoSearch
      /\ UNCHANGED <<circuit, cut, observes, edge, closed, conducting, residual, until,
                     bracket, from>>
  BY DEF Located, Settle, plant
<1>2. /\ bracket.lower \in Nat /\ bracket.upper \in Nat /\ now \in Nat /\ until \in Nat
      /\ cut \in Nat /\ flows \in BOOLEAN
      /\ now <= bracket.lower /\ bracket.lower < bracket.upper /\ bracket.upper <= until
  BY <1>1 DEF ConductionInv, Types, Bracketed, Encloses, Brackets
<1>3. until <= now + Interval /\ Interval \in Nat
  BY <1>1, ConductionAssumption DEF ConductionInv, InInterval
<1>4. flows' \in BOOLEAN
  BY <1>1
<1>5. now' \in Nat /\ now' <= until' /\ until' <= now' + Interval
  BY <1>1, <1>2, <1>3
<1>6. Types'
  BY <1>1, <1>4, <1>5, PatternsOfSearch DEF ConductionInv, Types, Dispatching, NoSearch
<1>7. InInterval' /\ Bracketed'
  BY <1>1, <1>5 DEF InInterval, Bracketed
<1>8. ~Late(now)'
  <2>1. SUFFICES ASSUME flows' PROVE ~(now' > cut')
    BY DEF Late
  <2>2. bracket.upper <= cut
    BY <1>1, <2>1
  <2> QED
    BY <1>1, <1>2, <2>2
<1>9. Modes'
  BY <1>1, <1>8 DEF Modes, Ends, Dispatching
<1> QED
  BY <1>6, <1>7, <1>9 DEF ConductionInv

LEMMA PassedInv ==
    ASSUME ConductionInv, Passed PROVE ConductionInv'
<1>1. /\ phase = "passed"
      /\ phase' \in {"call", "pass", "failed"}
      /\ phase' = "call" => now = until
      /\ UNCHANGED <<circuit, cut, observes, now, edge, closed, conducting, residual, flows,
                     after, until, search, bracket, from>>
  BY DEF Passed, plant, state
<1>2. Quiet(now) /\ ~Late(now) /\ now \in Nat /\ until \in Nat /\ cut \in Nat
  BY <1>1 DEF ConductionInv, Modes, Types, Ends
<1>3. Types'
  BY <1>1 DEF ConductionInv, Types, Dispatching
<1>4. InInterval' /\ Bracketed'
  BY <1>1 DEF ConductionInv, InInterval, Bracketed, Ends, Dispatching
<1>5. Quiet(now)'
  BY <1>1, <1>2 DEF Quiet, Negative, Owners, EdgeDue
<1>6. ~Late(now)'
  BY <1>1, <1>2 DEF Late
<1>7. Consistent(now)'
  BY <1>5, <1>6 DEF Consistent, Invalid, Quiet, Late
<1>8. (flows => now <= cut + 1)'
  BY <1>1, <1>2 DEF Late
<1>9. Modes'
  BY <1>1, <1>5, <1>6, <1>7, <1>8 DEF Modes, Ends, Dispatching
<1> QED
  BY <1>3, <1>4, <1>9 DEF ConductionInv

LEMMA UnchangedInv ==
    ASSUME ConductionInv, UNCHANGED vars PROVE ConductionInv'
<1>1. UNCHANGED <<circuit, cut, observes, now, edge, closed, conducting, residual, flows,
                  phase, after, until, search, bracket, from>>
  BY DEF vars, plant, state
<1> USE <1>1
<1>2. Types' /\ InInterval'
  BY DEF ConductionInv, Types, Dispatching, InInterval, Ends
<1>3. Modes'
  BY DEF ConductionInv, Modes, Ends, Dispatching, Late, Quiet, Consistent, Invalid,
         Negative, Owners, EdgeDue
<1>4. Bracketed'
  BY DEF ConductionInv, Bracketed, Encloses, Consistent, Invalid, Negative, Owners, EdgeDue
<1> QED
  BY <1>2, <1>3, <1>4 DEF ConductionInv

----------------------------------------------------------------------------
(***************************************************************************)
(* Theorems.                                                               *)
(***************************************************************************)
\* The invariant holds in every reachable state of natural conduction, for
\* every circuit, step, interval and bound.
THEOREM ConductionInvariance == Spec => []ConductionInv
<1>1. ConductionInv /\ [Next]_vars => ConductionInv'
  <2> SUFFICES ASSUME ConductionInv, [Next]_vars PROVE ConductionInv'
    OBVIOUS
  <2>1. CASE SettleRound
    BY <2>1, SettleRoundInv
  <2>2. CASE SettleFails \/ CommutateSwitch \/ CommutateCircuit \/ Skip \/ RoundDone
    BY <2>2, DispatchInv
  <2>3. CASE SearchFlip \/ SearchAccept \/ SearchFails
    BY <2>3, SearchInv
  <2>4. CASE Boundary \/ Advance
    BY <2>4, CallInv
  <2>5. CASE IntervalEnds
    BY <2>5, IntervalEndsInv
  <2>6. CASE PassSmoothly
    BY <2>6, PassSmoothlyInv
  <2>7. CASE PassCrosses
    BY <2>7, PassCrossesInv
  <2>8. CASE Locate
    BY <2>8, LocateInv
  <2>9. CASE Located
    BY <2>9, LocatedInv
  <2>10. CASE Passed
    BY <2>10, PassedInv
  <2>11. CASE Done \/ UNCHANGED vars
    BY <2>11, UnchangedInv DEF Done
  <2> QED
    BY <2>1, <2>2, <2>3, <2>4, <2>5, <2>6, <2>7, <2>8, <2>9, <2>10, <2>11 DEF Next, Work
<1> QED
  BY <1>1, InitInv, PTL DEF Spec

\* At the end of every call, and when outputs have been synchronized, the
\* modes are those the states allow, up to the tick an interval may end early
\* (DiodeConduction.advance and .initialize).
THEOREM ModesAreConsistent == Spec => []ReturnsConsistent
<1>1. ConductionInv => ReturnsConsistent
  <2> SUFFICES ASSUME ConductionInv PROVE ReturnsConsistent
    OBVIOUS
  <2>1. now \in Nat /\ cut \in Nat
    BY DEF ConductionInv, Types
  <2>2. phase = "begin" /\ flows => now - 1 <= cut
    BY <2>1 DEF ConductionInv, Modes, Ends
  <2> QED
    BY <2>2 DEF ConductionInv, Modes, Quiet, ReturnsConsistent
<1> QED
  BY <1>1, ConductionInvariance, PTL

\* The pattern a search ends with is valid for the dispatcher that asked for
\* it: neither the jump nor the round-off it was accepted with is negative
\* again (Netlist.commutate and commutation_margin).
THEOREM SearchesAgree == Spec => AcceptedHolds
<1> DEFINE Agrees == phase = "search" /\ phase' = "dispatch" => ~Negative("circuit", now)'
<1>1. ConductionInv /\ [Next]_vars => [Agrees]_vars
  <2> SUFFICES ASSUME ConductionInv, Next, phase = "search", phase' = "dispatch"
               PROVE  ~Negative("circuit", now)'
    BY DEF Negative
  <2>1. SearchAccept
    BY DEF Next, Work, SettleRound, SettleFails, CommutateSwitch, CommutateCircuit, Skip,
           RoundDone, SearchFlip, SearchFails, Boundary, Advance, IntervalEnds,
           PassSmoothly, PassCrosses, Locate, Located, Passed, Done, vars
  <2>2. /\ Tried \in Patterns /\ Bad(Tried) = {} /\ conducting' = Tried
        /\ residual' = IF search.attempt > 0 THEN Kept(circuit, Tried, closed, now)
                       ELSE Recovered(residual, conducting, Tried)
        /\ UNCHANGED <<circuit, now, closed>>
    BY <2>1 DEF SearchAccept, plant
  <2>3. circuit \in Circuit /\ now \in Nat /\ closed \in BOOLEAN
    BY DEF ConductionInv, Types
  <2> HIDE DEF Tried
  <2>4. Fallen(circuit, Tried, closed, now, residual') = {}
    <3>1. CASE search.attempt > 0
      <4>1. Reversed(circuit, Tried, closed, now) = {}
        BY <2>2, <3>1 DEF Bad, Impulses
      <4>2. residual' = Kept(circuit, Tried, closed, now)
        BY <2>2, <3>1
      <4>3. SUFFICES ASSUME NEW d \in AllDiodes,
                            Level(circuit, Tried, closed, now, d) < residual'[d]
                     PROVE  FALSE
        BY DEF Fallen
      <4>4. Level(circuit, Tried, closed, now, d) \in {-3, -2, -1, 1}
        BY <2>2, <2>3, LevelFalls
      <4>5. ~(Level(circuit, Tried, closed, now, d) < -1)
        BY <4>1 DEF Reversed
      <4>6. residual'[d] = IF Level(circuit, Tried, closed, now, d) < 0 THEN -1 ELSE 0
        BY <4>2 DEF Kept
      <4> QED
        BY <4>3, <4>4, <4>5, <4>6
    <3>2. CASE ~(search.attempt > 0)
      <4>1. residual' = Recovered(residual, conducting, Tried)
        BY <2>2, <3>2
      <4>2. CASE search.attempt = 0
        BY <2>2, <4>1, <4>2 DEF Bad
      <4> QED
        BY <3>2, <4>2 DEF ConductionInv, Types
    <3> QED
      BY <3>1, <3>2
  <2> QED
    BY <2>2, <2>4 DEF Negative
<1> QED
  BY <1>1, ConductionInvariance, PTL DEF Spec, AcceptedHolds

----------------------------------------------------------------------------
\* A step of the locator, in numbers: w and v are the widths before and after
\* it, i the trials before, s and t whether the last and this one is a secant.
LEMMA StepNarrows ==
    ASSUME NEW W, Halves(W), NEW i \in Nat, NEW w \in Nat, NEW v \in Nat, w > 1,
           NEW s \in BOOLEAN, NEW t \in BOOLEAN,
           i <= LocatorIterations, i # LocatorIterations,
           IF s THEN i > 0 /\ w <= W[i - 1] ELSE w <= W[i],
           IF t THEN ~s /\ v < w ELSE 2 * v <= w + 1
    PROVE  /\ i + 1 <= LocatorIterations
           /\ IF t THEN v <= W[i] ELSE v <= W[i + 1]
<1> DEFINE L == LocatorIterations
<1>1. L \in Nat /\ L > 0
  BY ConductionAssumption
<1> HIDE DEF L
<1>2. /\ \A k \in 0..L : W[k] \in Nat
      /\ \A k \in 0..(L - 1) : W[k + 1] <= W[k]
      /\ \A k \in 0..(L - 2) : W[k] <= 2 * W[k + 2]
      /\ W[L - 1] <= 1
  BY <1>1 DEF Halves, L
<1>3. i + 1 <= L /\ i \in 0..(L - 1)
  BY <1>1 DEF L
<1>4. CASE t
  <2>1. ~s /\ w <= W[i] /\ v < w /\ W[i] \in Nat
    BY <1>1, <1>2, <1>3, <1>4
  <2> QED
    BY <1>3, <1>4, <2>1 DEF L
<1>5. CASE ~t /\ s
  <2> DEFINE k == i - 1
  <2>1. k \in 0..(L - 2) /\ k + 2 = i + 1 /\ w <= W[k] /\ 2 * v <= w + 1
    BY <1>1, <1>3, <1>5
  <2>2. W[k] <= 2 * W[k + 2] /\ W[k] \in Nat /\ W[k + 2] \in Nat
    <3> HIDE DEF k
    <3> QED
      BY <1>1, <1>2, <2>1
  <2> HIDE DEF k
  <2>3. v <= W[k + 2]
    BY <2>1, <2>2
  <2> QED
    BY <1>3, <1>5, <2>1, <2>3 DEF L
<1>6. CASE ~t /\ ~s
  <2>1. w <= W[i] /\ 2 * v <= w + 1
    BY <1>6
  <2>2. i # L - 1
    BY <1>1, <1>2, <1>3, <2>1
  <2>3. i \in 0..(L - 2) /\ i + 1 \in 0..(L - 1) /\ (i + 1) + 1 = i + 2
    BY <1>1, <1>3, <2>2
  <2>4. /\ W[i] <= 2 * W[i + 2] /\ W[(i + 1) + 1] <= W[i + 1]
        /\ W[i] \in Nat /\ W[i + 2] \in Nat /\ W[i + 1] \in Nat
    BY <1>1, <1>2, <2>3
  <2>5. v <= W[i + 1]
    BY <2>1, <2>3, <2>4
  <2> QED
    BY <1>3, <1>6, <2>5 DEF L
<1> QED
  BY <1>4, <1>5, <1>6

\* However secants and bisections fall, the bracket narrows to one tick
\* within the bound on trials.
LEMMA NarrowsInvariance ==
    ASSUME NEW W, Halves(W)
    PROVE  Spec => []Narrows(W)
<1>1. Init => Narrows(W)
  BY DEF Init, Narrows
<1>2. ConductionInv /\ Narrows(W) /\ [Next]_vars => Narrows(W)'
  <2> SUFFICES ASSUME ConductionInv, Narrows(W), [Next]_vars PROVE Narrows(W)'
    OBVIOUS
  <2>0. LocatorIterations \in Nat /\ LocatorIterations > 0
    BY ConductionAssumption
  <2>1. CASE PassCrosses
    <3>1. /\ bracket' \in Brackets /\ bracket'.iteration = 0 /\ bracket'.interpolated = FALSE
          /\ bracket'.upper - bracket'.lower <= Interval
      BY <2>1, PassCrossesInv
    <3>2. Interval <= W[0] /\ W[0] \in Nat /\ Interval \in Nat
      BY <2>0, ConductionAssumption DEF Halves
    <3>3. bracket'.upper \in Nat /\ bracket'.lower \in Nat
      BY <3>1 DEF Brackets
    <3>4. bracket'.upper - bracket'.lower <= W[0]
      BY <3>1, <3>2, <3>3
    <3> QED
      BY <2>0, <3>1, <3>4 DEF Narrows
  <2>2. CASE Locate
    <3> DEFINE w == bracket.upper - bracket.lower
               v == bracket'.upper - bracket'.lower
               i == bracket.iteration
               s == bracket.interpolated
               t == bracket'.interpolated
    <3>1. /\ phase = "locate" /\ ~LocatorDone
          /\ Encloses(bracket) /\ Encloses(bracket')
          /\ bracket'.iteration = i + 1
          /\ \/ t = FALSE /\ 2 * v <= w + 1
             \/ t = TRUE /\ s = FALSE /\ v < w
      BY <2>2, LocateStep
    <3>2. /\ bracket.lower \in Nat /\ bracket.upper \in Nat /\ bracket.lower < bracket.upper
          /\ bracket'.lower \in Nat /\ bracket'.upper \in Nat
          /\ bracket'.lower < bracket'.upper
          /\ i \in Nat /\ s \in BOOLEAN /\ t \in BOOLEAN
      BY <3>1 DEF Encloses, Brackets
    <3>3. w \in Nat /\ v \in Nat
      BY <3>2
    <3>4. ~(w <= 1) /\ i # LocatorIterations
      BY <3>1 DEF LocatorDone
    <3>5. /\ i <= LocatorIterations
          /\ IF s THEN i > 0 /\ w <= W[i - 1] ELSE w <= W[i]
      BY <3>1 DEF Narrows
    <3> HIDE DEF w, v, i, s, t
    <3>6. IF t THEN ~s /\ v < w ELSE 2 * v <= w + 1
      BY <3>1
    <3>7. w > 1
      BY <3>3, <3>4
    <3>8. /\ i + 1 <= LocatorIterations
          /\ IF t THEN v <= W[i] ELSE v <= W[i + 1]
      BY <3>2, <3>3, <3>4, <3>5, <3>6, <3>7, StepNarrows
    <3>9. i + 1 > 0 /\ (i + 1) - 1 = i
      BY <3>2
    <3>10. /\ bracket'.iteration <= LocatorIterations
           /\ IF t THEN bracket'.iteration > 0 /\ v <= W[bracket'.iteration - 1]
              ELSE v <= W[bracket'.iteration]
      BY <3>1, <3>8, <3>9
    <3> QED
      BY <3>10 DEF Narrows, v, t
  <2>3. CASE phase' # "locate"
    BY <2>3 DEF Narrows
  <2>4. CASE bracket' = bracket /\ phase' = phase
    BY <2>4 DEF Narrows
  <2>5. PassCrosses \/ Locate \/ phase' # "locate" \/ (bracket' = bracket /\ phase' = phase)
    <3>1. after \in {"call", "begin", "pass", "passed"} \/ ~Dispatching
      BY DEF ConductionInv, Types
    <3> QED
      BY <3>1
         DEF Next, Work, SettleRound, SettleFails, CommutateSwitch, CommutateCircuit, Skip,
             RoundDone, SearchFlip, SearchAccept, SearchFails, Boundary, Advance, Settle,
             IntervalEnds, PassSmoothly, Located, Passed, Done, vars, Dispatching
  <2> QED
    BY <2>1, <2>2, <2>3, <2>4, <2>5
<1> QED
  BY <1>1, <1>2, ConductionInvariance, PTL DEF Spec

\* Where the trials suffice to halve an interval down to one tick (80 of them
\* halve 2^39 ticks), a mode is left at the first tick it is invalid
\* (DiodeConduction._locate).
THEOREM LocatesTheFirst ==
    ASSUME NEW W, Halves(W)
    PROVE  Spec => []LocatesFirst
<1>1. ConductionInv /\ Narrows(W) => LocatesFirst
  <2> SUFFICES ASSUME ConductionInv, Narrows(W), phase = "locate", LocatorDone,
                      NEW u \in (from + 1)..(bracket.upper - 1)
               PROVE  Invalid(bracket.upper) /\ Consistent(u)
    BY DEF ConductionInv, Bracketed, Encloses, LocatesFirst
  <2>1. /\ bracket \in Brackets /\ Invalid(bracket.upper) /\ bracket.lower < bracket.upper
        /\ bracket.lower = from \/ Consistent(bracket.lower)
        /\ from \in Nat /\ Types
    BY DEF ConductionInv, Types, Bracketed, Encloses
  <2>2. /\ bracket.lower \in Nat /\ bracket.upper \in Nat /\ bracket.iteration \in Nat
        /\ bracket.interpolated \in BOOLEAN
    BY <2>1 DEF Brackets
  <2>3. bracket.upper - bracket.lower <= 1
    <3>0. LocatorIterations \in Nat /\ LocatorIterations > 0
      BY ConductionAssumption
    <3>1. SUFFICES ASSUME bracket.iteration = LocatorIterations
                   PROVE  bracket.upper - bracket.lower <= 1
      BY DEF LocatorDone
    <3>2. \/ bracket.upper - bracket.lower <= W[LocatorIterations - 1]
          \/ bracket.upper - bracket.lower <= W[LocatorIterations]
      BY <3>1 DEF Narrows
    <3>3. /\ W[LocatorIterations - 1] \in Nat /\ W[LocatorIterations] \in Nat
          /\ W[LocatorIterations - 1] <= 1 /\ W[LocatorIterations] <= 1
      BY <3>0 DEF Halves
    <3> QED
      BY <2>2, <3>2, <3>3
  <2>4. u \in Nat /\ u <= bracket.lower /\ from < u
    BY <2>1, <2>2, <2>3
  <2>5. Consistent(bracket.lower)
    BY <2>1, <2>2, <2>4
  <2> QED
    BY <2>1, <2>2, <2>4, <2>5, InvalidGrows DEF Consistent
<1> QED
  BY <1>1, ConductionInvariance, NarrowsInvariance, PTL

=============================================================================
