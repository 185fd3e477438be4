---------------------------- MODULE CircuitLaws ----------------------------
(***************************************************************************)
(* What a circuit is, said of voltages, currents and states alone: no tree *)
(* and no choice of independent states.  The reference for the equations   *)
(* and projections of CircuitEquations.                                    *)
(*                                                                         *)
(* Values are residues modulo a prime, so that an equation is solved       *)
(* exactly.                                                                *)
(***************************************************************************)
EXTENDS NormalTree

CONSTANT Prime

ASSUME PrimeAssumption == Prime \in Nat /\ Prime > 2

Reciprocal[x \in 1 .. Prime - 1] ==
    IF x = 1 THEN 1 ELSE (Prime - (Prime \div x)) * Reciprocal[Prime % x] % Prime

----------------------------------------------------------------------------
(***************************************************************************)
(* Linear equations.  An equation says that a residual is zero; it is kept *)
(* as its coefficient of every unknown, and its right side at RHS.         *)
(***************************************************************************)
RHS == <<"rhs", 0>>

Is(x, c) == IF x = c THEN 1 ELSE 0

\* One unknown is found from an equation and leaves the others.
Without(row, pivot, c) ==
    IF row[c] = 0 THEN row ELSE [x \in DOMAIN row |-> (row[x] - row[c] * pivot[x]) % Prime]

Found(E, c, n) ==
    LET factor == Reciprocal[E.left[n][c]]
        pivot == [x \in DOMAIN E.left[n] |-> E.left[n][x] * factor % Prime]
    IN  [left |-> [m \in DOMAIN E.left \ {n} |-> Without(E.left[m], pivot, c)],
         found |-> [x \in DOMAIN E.found \cup {c} |->
                       IF x = c THEN pivot ELSE Without(E.found[x], pivot, c)]]

Eliminated(c, E) ==
    LET able == {n \in DOMAIN E.left : E.left[n][c] # 0}
    IN  IF able = {} THEN E ELSE Found(E, c, CHOOSE n \in able : TRUE)

\* Equations and unknowns reduced to what is found and what is left.
Solution(rows, unknowns) == FoldSet(Eliminated, [left |-> rows, found |-> <<>>], unknowns)

Solvable(solution) == \A n \in DOMAIN solution.left : solution.left[n][RHS] = 0

Unique(solution, unknowns) ==
    solution.left = <<>> /\ DOMAIN solution.found = unknowns

\* Coefficients of the residuals Residual(n, c), linear in the unknowns.
Rows(equations, unknowns, Coefficient(_, _), Right(_)) ==
    [n \in equations |->
        [c \in unknowns \cup {RHS} |->
            (IF c = RHS THEN Right(n) ELSE Coefficient(n, c)) % Prime]]

----------------------------------------------------------------------------
\* Of a branch: the drop of potentials of this kind, and whether its current
\* of this kind enters or leaves a vertex.
Drop(kind, branch, c) == Is(<<kind, branch.a>>, c) - Is(<<kind, branch.b>>, c)
Leaves(branch, v) == (IF branch.a = v THEN 1 ELSE 0) - (IF branch.b = v THEN 1 ELSE 0)

\* The inductance between two branches: the ports of an element are coupled.
Mutual == 1
Inductance(B, k, j) ==
    IF B[k].element # B[j].element THEN 0
    ELSE IF k = j THEN B[k].value + B[k].port - 1 ELSE Mutual

Potentials(kind) == {kind} \X (1 .. Nodes)

(***************************************************************************)
(* The states fit the circuit: some potentials and currents obey all       *)
(* branches, with every capacitor at its voltage and every inductor at its *)
(* current.                                                                *)
(***************************************************************************)
LawCoefficient(B, ratio, n, c) ==
    IF n[1] = "node" THEN IF c[1] = "i" THEN Leaves(B[c[2]], n[2]) ELSE 0
    ELSE LET k == n[2]
             role == B[k].role
         IN  CASE role \in {"vsrc", "short", "cap"} -> Drop("e", B[k], c)
               [] role = "res" -> Drop("e", B[k], c) - B[k].value * Is(<<"i", k>>, c)
               [] role \in {"isrc", "state", "ind"} -> Is(<<"i", k>>, c)
               [] role = "p" -> Drop("e", B[k], c) - ratio * Drop("e", B[k + 1], c)
               [] role = "s" -> Is(<<"i", k>>, c) + ratio * Is(<<"i", k - 1>>, c)

LawRight(B, x, u, n) ==
    IF n[1] = "node" THEN 0
    ELSE CASE B[n[2]].role \in {"cap", "ind", "state"} -> x[n[2]]
           [] B[n[2]].role \in {"vsrc", "isrc"} -> u[n[2]]
           [] OTHER -> 0

Fits(B, ratio, x, u) ==
    LET unknowns == Potentials("e") \cup ({"i"} \X Active(B))
        equations == ({"node"} \X (1 .. Nodes)) \cup ({"branch"} \X Active(B))
        Coefficient(n, c) == LawCoefficient(B, ratio, n, c)
        Right(n) == LawRight(B, x, u, n)
    IN  Solvable(Solution(Rows(equations, unknowns, Coefficient, Right), unknowns))

(***************************************************************************)
(* A jump of the states is an impulse the circuit can carry.  Charge moves *)
(* through capacitors, voltage sources, closed switches and transformers   *)
(* and is conserved at every vertex; impulsive voltages occur over         *)
(* inductors, current sources and transformers only.                       *)
(***************************************************************************)
ChargeCoefficient(B, ratio, n, c) ==
    IF n[1] = "node" THEN Leaves(B[c[2]], n[2])
    ELSE IF B[n[2]].role = "s" THEN Is(<<"q", n[2]>>, c) + ratio * Is(<<"q", n[2] - 1>>, c)
    ELSE Is(<<"q", n[2]>>, c)

CarriesCharge(B, ratio, dx) ==
    LET unknowns == {"q"} \X With(B, {"cap", "vsrc", "short", "p", "s"})
        equations == ({"node"} \X (1 .. Nodes)) \cup ({"branch"} \X With(B, {"cap", "s"}))
        Coefficient(n, c) == ChargeCoefficient(B, ratio, n, c)
        Right(n) == IF n[1] = "branch" /\ B[n[2]].role = "cap"
                    THEN B[n[2]].value * dx[n[2]] ELSE 0
    IN  Solvable(Solution(Rows(equations, unknowns, Coefficient, Right), unknowns))

FluxRight(B, dx, k) ==
    IF B[k].role # "ind" THEN 0
    ELSE MapThenSumSet(LAMBDA j : Inductance(B, k, j) * dx[j], With(B, {"ind"}))

CarriesFlux(B, ratio, dx) ==
    LET unknowns == Potentials("f")
        equations == {"branch"} \X With(B, {"ind", "res", "cap", "vsrc", "short", "p"})
        Coefficient(n, c) ==
            IF B[n[2]].role = "p"
            THEN Drop("f", B[n[2]], c) - ratio * Drop("f", B[n[2] + 1], c)
            ELSE Drop("f", B[n[2]], c)
        Right(n) == FluxRight(B, dx, n[2])
    IN  Solvable(Solution(Rows(equations, unknowns, Coefficient, Right), unknowns))

=============================================================================
