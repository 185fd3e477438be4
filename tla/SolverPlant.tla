---------------------------- MODULE SolverPlant ----------------------------
(***************************************************************************)
(* What the solvers see of the plant: the mode of its circuits, the ratio  *)
(* of an averaged bridge, the parameters, the point of the state, and the  *)
(* state matrices of the circuits with the identities they are remembered  *)
(* by (assembly/circuit.py, solver/netlist.py; assembly/cpp.py for the     *)
(* exported program).  And the caches, sequences of keys with values.      *)
(*                                                                         *)
(* A matrix is a function of rows and columns.  Its eigenvalues are those  *)
(* of its irreducible diagonal blocks, and the blocks stand for them.      *)
(***************************************************************************)
EXTENDS DependencyPlan

CONSTANTS
    None,
    Modes, Ratios, Points, Steps,
    Circuits,      \* the circuits, in the order of the system
    Switched,      \* circuits with switches or diodes
    Transforming,  \* circuits with a transformer of variable ratio
    Reached,       \* circuits whose ratio can change their state matrix
    Matrix,        \* state matrices by circuit, mode, ratio and parameters
    Inside(_, _),  \* an eigenvalue in the stability region of a step size
    Cache,         \* entries of a cache (64 or 256 in the code)
    MaxFactors,    \* factorizations kept (16 in the code)
    MaxParams      \* bound on parameter changes

Plants == Modes \X Ratios \X (0 .. MaxParams)

ASSUME SolverPlantAssumption ==
    /\ Circuits \in Seq(ToSet(Circuits))
    /\ Switched \subseteq ToSet(Circuits) /\ Transforming \subseteq ToSet(Circuits)
    /\ Reached \subseteq Transforming
    /\ {Cache, MaxFactors} \subseteq Nat \ {0} /\ MaxParams \in Nat
    /\ \A c \in ToSet(Circuits), p, q \in Plants :
           /\ c \in Switched => p[1] = q[1]
           /\ c \in Reached => p[2] = q[2]
           /\ p[3] = q[3]
           => Matrix[c][p] = Matrix[c][q]

VARIABLES
    mode, ratio, point, params,  \* the plant the right-hand side reads
    choice  \* step size of the running interval and whether it is explicit

plant == <<mode, ratio, point, params>>

PlantInit ==
    /\ mode \in Modes /\ ratio \in Ratios /\ point \in Points /\ params = 0
    /\ choice = None

\* Between two intervals switches, diodes, ratios and the state may move.
PlantMoves ==
    /\ mode' \in Modes /\ ratio' \in Ratios /\ point' \in Points
    /\ choice' = None
    /\ UNCHANGED params

\* A file event of type `set'.
ParametersMove ==
    /\ params < MaxParams
    /\ params' = params + 1 /\ choice' = None
    /\ UNCHANGED <<mode, ratio, point>>

Present(c) == Matrix[c][<<mode, ratio, params>>]

----------------------------------------------------------------------------
(***************************************************************************)
(* Matrices.                                                               *)
(***************************************************************************)
Rows(m) == {p[1] : p \in DOMAIN m}

Pattern(m) == [n |-> Cardinality(Rows(m)), nonzero |-> {p \in DOMAIN m : m[p] # 0}]

\* The columns that each row of a pattern depends on.
Dependencies(pattern) ==
    Table([i \in 1 .. pattern.n |-> {j \in 1 .. pattern.n : <<i, j>> \in pattern.nonzero}])

\* The rows and columns of a component, numbered from 1.
DiagonalBlock(m, component) ==
    LET at == Sorted(component)
    IN  [p \in (DOMAIN at) \X (DOMAIN at) |-> m[<<at[p[1]], at[p[2]]>>]]

\* A set of rows that depend on no others.
Closed(m, S) == \A p \in DOMAIN m : m[p] # 0 /\ p[1] \in S => p[2] \in S

\* Rows and columns that depend on each other.
Irreducible(m) ==
    LET closed == {S \in SUBSET Rows(m) : Closed(m, S)}
    IN  {{j \in Rows(m) : \A S \in closed : i \in S <=> j \in S} : i \in Rows(m)}

Matrices == {Matrix[c][p] : c \in ToSet(Circuits), p \in Plants}

\* They are square, with the states of a circuit numbered from 1.
ASSUME MatrixAssumption ==
    \A m \in Matrices :
        LET rows == 1 .. Cardinality(Rows(m))
        IN  IsFiniteSet(Rows(m)) /\ DOMAIN m = rows \X rows

\* The spectra of all matrices; that of a diagonal block is the block.
Spectra ==
    [m \in Matrices |-> {DiagonalBlock(m, component) : component \in Irreducible(m)}]

Spectrum(m) == IF m \in Matrices THEN Spectra[m] ELSE {m}

\* Every circuit is inside the region of explicit steps of this size now.
Sound(h) ==
    \A c \in ToSet(Circuits) : \A value \in Spectrum(Present(c)) : Inside(value, h)

----------------------------------------------------------------------------
(***************************************************************************)
(* Caches.                                                                 *)
(***************************************************************************)
Knows(cache, key) == \E i \in DOMAIN cache : cache[i].key = key
Get(cache, key) == cache[CHOOSE i \in DOMAIN cache : cache[i].key = key].value

\* The bound of a cache drops its first entry.
Newest(cache) == IF Len(cache) > Cache THEN Tail(cache) ELSE cache

\* A new or used entry goes last.
Used(cache, key, value) ==
    LET others == IF Knows(cache, key)
                  THEN RemoveAt(cache, CHOOSE i \in DOMAIN cache : cache[i].key = key)
                  ELSE cache
    IN  Newest(Append(others, [key |-> key, value |-> value]))

\* A new entry goes last, a known one stays in its place.
Kept(cache, key, value) ==
    IF Knows(cache, key)
    THEN [i \in DOMAIN cache |-> IF cache[i].key = key
                                 THEN [cache[i] EXCEPT !.value = value] ELSE cache[i]]
    ELSE Newest(Append(cache, [key |-> key, value |-> value]))

=============================================================================
