-------------------------- MODULE CircuitEquations --------------------------
(***************************************************************************)
(* The equations of one compiled mode (solver/netlist.py, Topology): the   *)
(* derivative network, which gives the derivatives of all states from      *)
(* states, sources and source rates, and the projections of the states     *)
(* onto the loops and cutsets of the mode.                                 *)
(*                                                                         *)
(* Unknowns and equations have names: e, i, d, w, z are the potential of a *)
(* vertex, the current of a branch, the derivative of a state, the         *)
(* derivative of a potential, the derivative of a primary current.         *)
(***************************************************************************)
EXTENDS CircuitLaws

Storage(B) == With(B, {"cap", "ind", "state"})
Sources(B) == With(B, {"vsrc", "isrc", "state"})

----------------------------------------------------------------------------
(***************************************************************************)
(* Loops and cutsets.                                                      *)
(***************************************************************************)
\* The branches whose voltages follow from sources and capacitors.
Forest(N) == Fixed(N.B, N.tree) \cup N.vd

\* Super-nodes: what the other tree branches than dependent inductors and
\* driven primaries connect.
Supers(N) == Roots(N.B, IF N.depL = {} THEN N.tree ELSE N.tree \ (N.depL \cup N.cd))

LoopRows(N) == IF N.depC = {} THEN <<>>
               ELSE SetToSortSeq(Forest(N), <) \o SetToSortSeq(N.depC, <)
LoopFree(N) == IF N.depC = {} THEN <<>>
               ELSE LET root == Roots(N.B, Forest(N))
                    IN  SetToSortSeq({v \in 1 .. Nodes : root[v] # v}, <)

CutRows(N) == IF N.depL = {} THEN <<>>
              ELSE LET super == Supers(N)
                   IN  SetToSortSeq({v \in 1 .. Nodes : super[v] = v /\ N.root[v] # v}, <)
CutFree(N) == IF N.depL = {} THEN <<>> ELSE SetToSortSeq(N.cd, <)

Crossing(N) == IF N.depL = {} THEN {}
               ELSE LET super == Supers(N) IN {k \in Active(N.B) : Joins(super, N.B[k])}

\* Along a loop: the drop of the free potentials less a capacitor's state or
\* the secondary's drop of a primary; a source is on the right side.
LoopCoefficient(N, ratio, k, c, potential, stored) ==
    LET role == N.B[k].role
    IN  Drop(potential, N.B[k], c)
        - (IF role = "cap" THEN Is(<<stored, k>>, c)
           ELSE IF role = "p" THEN ratio * Drop(potential, N.B[k + 1], c) ELSE 0)

\* Out of a super-node: the states and free primary currents that cross.
CutCoefficient(N, ratio, v, super, crossing, c, free, stored) ==
    LET Out(k) == Leaves([a |-> super[N.B[k].a], b |-> super[N.B[k].b]], v)
    IN  IF c[1] = stored THEN IF c[2] \in crossing THEN Out(c[2]) ELSE 0
        ELSE IF c[1] # free THEN 0
        ELSE (IF c[2] \in crossing THEN Out(c[2]) ELSE 0)
             - (IF c[2] + 1 \in crossing THEN ratio * Out(c[2] + 1) ELSE 0)

CutSources(N, v, super, crossing, roles, value) ==
    -MapThenSumSet(LAMBDA k : value[k] * Leaves([a |-> super[N.B[k].a], b |-> super[N.B[k].b]], v),
                   {k \in crossing : N.B[k].role \in roles})

----------------------------------------------------------------------------
(***************************************************************************)
(* The derivative network.                                                 *)
(***************************************************************************)
Unknowns(N) ==
    Potentials("e") \cup ({"i"} \X Active(N.B)) \cup ({"d"} \X Storage(N.B))
    \cup ({"w"} \X ToSet(LoopFree(N))) \cup ({"z"} \X ToSet(CutFree(N)))

Equations(N) ==
    ({"node"} \X (1 .. Nodes)) \cup ({"branch"} \X Active(N.B))
    \cup ({"state"} \X (Storage(N.B) \ (N.depC \cup N.depL)))
    \cup ({"loop"} \X ToSet(LoopRows(N))) \cup ({"cut"} \X ToSet(CutRows(N)))

\* Kirchhoff's current law, or the reference of a floating part.
NodeCoefficient(N, v, c) ==
    IF N.root[v] = v THEN Is(<<"e", v>>, c)
    ELSE IF c[1] = "i" THEN Leaves(N.B[c[2]], v) ELSE 0

BranchCoefficient(B, ratio, k, c) ==
    LET role == B[k].role
    IN  CASE role \in {"vsrc", "short"} -> Drop("e", B[k], c)
          [] role = "res" -> Drop("e", B[k], c) - B[k].value * Is(<<"i", k>>, c)
          [] role \in {"isrc", "state"} -> Is(<<"i", k>>, c)
          [] role = "p" -> Drop("e", B[k], c) - ratio * Drop("e", B[k + 1], c)
          [] role = "s" -> Is(<<"i", k>>, c) + ratio * Is(<<"i", k - 1>>, c)
          [] role = "cap" -> Is(<<"i", k>>, c) - B[k].value * Is(<<"d", k>>, c)
          [] role = "ind" -> Drop("e", B[k], c)
                             - (IF c[1] = "d" THEN Inductance(B, k, c[2]) ELSE 0)

\* An independent state is given; a behavioral current gives its derivative.
StateCoefficient(B, k, c) ==
    CASE B[k].role = "cap" -> Drop("e", B[k], c)
      [] B[k].role = "ind" -> Is(<<"i", k>>, c)
      [] B[k].role = "state" -> Is(<<"d", k>>, c)

NetworkCoefficient(N, ratio, super, crossing, n, c) ==
    CASE n[1] = "node" -> NodeCoefficient(N, n[2], c)
      [] n[1] = "branch" -> BranchCoefficient(N.B, ratio, n[2], c)
      [] n[1] = "state" -> StateCoefficient(N.B, n[2], c)
      [] n[1] = "loop" -> LoopCoefficient(N, ratio, n[2], c, "w", "d")
      [] n[1] = "cut" -> CutCoefficient(N, ratio, n[2], super, crossing, c, "z", "d")

NetworkRight(N, super, crossing, x, u, du, n) ==
    LET role == N.B[n[2]].role
    IN  CASE n[1] = "node" -> 0
          [] n[1] = "branch" -> IF role \in {"vsrc", "isrc"} THEN u[n[2]]
                                ELSE IF role = "state" THEN x[n[2]] ELSE 0
          [] n[1] = "state" -> IF role = "state" THEN u[n[2]] ELSE x[n[2]]
          [] n[1] = "loop" -> IF role = "vsrc" THEN du[n[2]] ELSE 0
          [] n[1] = "cut" -> CutSources(N, n[2], super, crossing, {"isrc"}, du)

\* Mutant of NeedsRate: only the loops use rates.
LoopsNeedRate(N) ==
    LET root == Roots(N.B, Forest(N))
    IN  {k \in With(N.B, {"vsrc"}) : \E j \in N.depC : root[N.B[j].a] = root[N.B[k].a]}

\* The sources whose rates the loops and cutsets use.
NeedsRate(N) ==
    LET root == Roots(N.B, Forest(N))
        fed == {root[N.B[k].a] : k \in N.depC \cup {Partner(N.B, p) : p \in N.vd}}
    IN  (IF N.depC = {} THEN {} ELSE {k \in With(N.B, {"vsrc"}) : root[N.B[k].a] \in fed})
        \cup (Crossing(N) \cap With(N.B, {"isrc"}))

Network(N, ratio, super, crossing, x, u, du) ==
    LET Coefficient(n, c) == NetworkCoefficient(N, ratio, super, crossing, n, c)
        Right(n) == NetworkRight(N, super, crossing, x, u, du, n)
    IN  Solution(Rows(Equations(N), Unknowns(N), Coefficient, Right), Unknowns(N))

\* The unknowns for these states, sources and rates.
Solved(N, ratio, x, u, du) ==
    Network(N, ratio, Supers(N), Crossing(N), x, u,
            [k \in DOMAIN du |-> IF k \in NeedsRate(N) THEN du[k] ELSE 0])

\* Mutant of RatioFree: no loop does.
RatioFreeLoops(N) == \A j \in DOMAIN LoopRows(N) : N.B[LoopRows(N)[j]].role # "p"

\* No constraint involves the ratio of a transformer.
RatioFree(N) ==
    /\ \A j \in DOMAIN LoopRows(N) : N.B[LoopRows(N)[j]].role # "p"
    /\ With(N.B, {"s"}) \cap Crossing(N) = {}

----------------------------------------------------------------------------
(***************************************************************************)
(* Projections: the states with the least stored energy of their change    *)
(* that satisfy the loops (capacitors) or cutsets (inductors); x, f and m  *)
(* are the projected states, the free potentials or currents and the       *)
(* multipliers.                                                            *)
(***************************************************************************)
\* The constraints of a mode by position, their states, and their weights.
LoopConstraints(N, ratio) ==
    [rows |-> [j \in DOMAIN LoopRows(N) |->
        LET k == LoopRows(N)[j]
        IN  [x |-> [s \in With(N.B, {"cap"}) |-> LoopCoefficient(N, ratio, k, <<"x", s>>, "f", "x")],
             f |-> [p \in DOMAIN LoopFree(N) |->
                       LoopCoefficient(N, ratio, k, <<"f", LoopFree(N)[p]>>, "f", "x")],
             u |-> IF N.B[k].role = "vsrc" THEN {<<k, 1>>} ELSE {}]],
     free |-> Len(LoopFree(N)), kind |-> "cap"]

\* A current source or a behavioral current enters with its source value.
CutConstraints(N, ratio, super, crossing) ==
    [rows |-> [j \in DOMAIN CutRows(N) |->
        LET v == CutRows(N)[j]
            Out(k) == Leaves([a |-> super[N.B[k].a], b |-> super[N.B[k].b]], v)
        IN  [x |-> [s \in With(N.B, {"ind"}) |->
                       CutCoefficient(N, ratio, v, super, crossing, <<"x", s>>, "f", "x")],
             f |-> [p \in DOMAIN CutFree(N) |->
                       CutCoefficient(N, ratio, v, super, crossing, <<"f", CutFree(N)[p]>>, "f", "x")],
             u |-> {<<k, -Out(k)>> : k \in {k \in crossing :
                        N.B[k].role \in {"isrc", "state"} /\ Out(k) # 0}}]],
     free |-> Len(CutFree(N)), kind |-> "ind"]

Constraints(N, ratio) ==
    <<LoopConstraints(N, ratio), CutConstraints(N, ratio, Supers(N), Crossing(N))>>

\* Mutant of Weight: ports of an element are weighted apart.
OwnWeight(B, k, j) ==
    IF k # j THEN 0 ELSE IF B[k].role = "cap" THEN B[k].value ELSE Inductance(B, k, j)

\* The weight of two states in the energy.
Weight(B, k, j) == IF B[k].role = "cap" THEN (IF k = j THEN B[k].value ELSE 0)
                   ELSE Inductance(B, k, j)

ProjectionCoefficient(B, G, n, c) ==
    CASE n[1] = "x" /\ c[1] = "x" -> Weight(B, n[2], c[2])
      [] n[1] = "x" /\ c[1] = "m" -> G.rows[c[2]].x[n[2]]
      [] n[1] = "f" /\ c[1] = "m" -> G.rows[c[2]].f[n[2]]
      [] n[1] = "m" /\ c[1] = "x" -> G.rows[n[2]].x[c[2]]
      [] n[1] = "m" /\ c[1] = "f" -> G.rows[n[2]].f[c[2]]
      [] OTHER -> 0

ProjectionRight(B, states, G, x, u, n) ==
    CASE n[1] = "x" -> MapThenSumSet(LAMBDA j : Weight(B, n[2], j) * x[j], states)
      [] n[1] = "m" -> MapThenSumSet(LAMBDA s : s[2] * u[s[1]], G.rows[n[2]].u)
      [] OTHER -> 0

\* The states after the projection onto G.
Onto(B, G, x, u) ==
    LET states == With(B, {G.kind})
        names == ({"x"} \X states) \cup ({"f"} \X (1 .. G.free)) \cup ({"m"} \X DOMAIN G.rows)
        Coefficient(n, c) == ProjectionCoefficient(B, G, n, c)
        Right(n) == ProjectionRight(B, states, G, x, u, n)
        found == Solution(Rows(names, names, Coefficient, Right), names).found
    IN  [k \in DOMAIN x |-> IF k \in states THEN found[<<"x", k>>][RHS] ELSE x[k]]

\* Both projections start from the same states and change states of their own.
Projected(B, constraints, x, u) ==
    LET Applied(y, G) == IF G.rows = <<>> THEN y ELSE Onto(B, G, y, u)
    IN  FoldLeft(Applied, x, constraints)

=============================================================================
