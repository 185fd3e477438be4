---------------------------- MODULE DiodeCircuit ----------------------------
(***************************************************************************)
(* The ideal diodes of one circuit and the search for a conduction pattern *)
(* that its states allow (solver/netlist.py: topology, commutation_margin, *)
(* commutate).                                                             *)
(*                                                                         *)
(* A pattern is the set of conducting diodes.  Of the electrical solution  *)
(* only the margin of each diode is kept, as one of four levels: it        *)
(* conducts or blocks as it should (1), it is wrong by no more than        *)
(* round-off (-1), it is wrong (-2), or the jump of the states into the    *)
(* pattern would drive it in reverse (-3).  A switch selects which rows of *)
(* the circuit apply.                                                      *)
(***************************************************************************)
EXTENDS Integers, FiniteSets, SequencesExt

CONSTANTS
    Diodes,       \* in netlist order
    MaxPatterns   \* patterns tried at one instant (64 in the code)

ASSUME DiodeCircuitAssumption ==
    /\ IsInjective(Diodes) /\ Diodes # <<>>
    /\ MaxPatterns \in Nat \ {0}

AllDiodes == {Diodes[i] : i \in DOMAIN Diodes}
Patterns == SUBSET AllDiodes
NoPattern == AllDiodes \cup {"none"}

\* How the margin of a diode develops in one pattern of the circuit.
Kinds == {"holds", "turns", "grazes", "wrong", "jumps"}

\* The rows of a circuit, the diodes of each loop that its closed switch
\* shorts, those of each cutset that its open switch leaves without a path for
\* a current, and the instant after which margins that turn or graze are negative.
Circuit == [rows : [Patterns -> [AllDiodes -> Kinds]],
            loops : SUBSET SUBSET AllDiodes,
            cutsets : SUBSET SUBSET AllDiodes,
            turn : Nat]

Residuals == [AllDiodes -> {0, -1}]
NoResidual == [d \in AllDiodes |-> 0]

----------------------------------------------------------------------------
Row(c, p, closed) == c.rows[IF closed THEN AllDiodes \ p ELSE p]

\* The margin of diode d at instant u.
Level(c, p, closed, u, d) ==
    LET kind == Row(c, p, closed)[d]
    IN  CASE kind = "turns" /\ u > c.turn -> -2
          [] kind = "grazes" /\ u > c.turn -> -1
          [] kind = "wrong" -> -2
          [] kind = "jumps" -> -3
          [] OTHER -> 1

\* Diodes driven in reverse by the jump into the pattern.
Impulses(c, p, closed, u) == {d \in AllDiodes : Level(c, p, closed, u, d) = -3}

\* Diodes whose margin is below the residual of the last search.
Fallen(c, p, closed, u, residual) ==
    {d \in AllDiodes : Level(c, p, closed, u, d) < residual[d]}

\* Diodes wrong by more than round-off.
Reversed(c, p, closed, u) == {d \in AllDiodes : Level(c, p, closed, u, d) < -1}

\* Loops of conducting diodes, and whether one of blocking diodes is a cutset.
Shorted(c, p, closed) == {l \in c.loops : closed /\ l \subseteq p}
Open(c, p, closed) == ~closed /\ \E k \in c.cutsets : k \cap p = {}

\* The pattern has no equations.
Singular(c, p, closed) == Shorted(c, p, closed) # {} \/ Open(c, p, closed)

\* Diodes that may flip to recover: those of a loop, or any that blocks.
Candidates(c, p, closed) ==
    IF Shorted(c, p, closed) # {} THEN CHOOSE l \in Shorted(c, p, closed) : TRUE
    ELSE AllDiodes \ p

\* The recovery of a singular pattern: the first candidate that leads to a
\* pattern neither seen nor excluded flips, until the equations exist.
Resolve(c, p, closed, excluded) ==
    LET resolved[q \in Patterns, seen \in SUBSET Patterns] ==
            LET flips == {i \in DOMAIN Diodes :
                              /\ Diodes[i] \in Candidates(c, q, closed)
                              /\ SymDiff(q, {Diodes[i]}) \notin seen \cup excluded}
                first == SymDiff(q, {Diodes[CHOOSE i \in flips : \A j \in flips : i <= j]})
            IN  IF ~Singular(c, q, closed) THEN q
                ELSE IF flips = {} \/ Cardinality(seen) = MaxPatterns THEN NoPattern
                ELSE resolved[first, seen \cup {first}]
    IN  resolved[p, {p}]

\* The residual each margin has in an accepted pattern.
Kept(c, p, closed, u) ==
    [d \in AllDiodes |-> IF Level(c, p, closed, u, d) < 0 THEN -1 ELSE 0]

\* A recovered diode starts with no residual.
Recovered(residual, p, q) ==
    [d \in AllDiodes |-> IF (d \in p) # (d \in q) THEN 0 ELSE residual[d]]

============================================================================
