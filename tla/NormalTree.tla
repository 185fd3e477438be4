----------------------------- MODULE NormalTree -----------------------------
(***************************************************************************)
(* The normal tree of a circuit in one mode, and the states that its loops *)
(* of capacitors and cutsets of inductors make dependent                   *)
(* (solver/netlist.py, Topology).                                          *)
(*                                                                         *)
(* A netlist is a sequence of elements; an element has a kind, its ports   *)
(* as pairs of vertices, the ground being 0, and a value: its resistance,  *)
(* capacitance or inductance, or that of an opened switch.  All ports have *)
(* dimension one and scale one.                                            *)
(***************************************************************************)
EXTENDS Integers, Sequences, FiniteSets, SequencesExt, FiniteSetsExt

CONSTANTS
    None,
    Nodes  \* vertices besides the ground

ASSUME NormalTreeAssumption == Nodes \in Nat

Vertices == 0 .. Nodes

----------------------------------------------------------------------------
(***************************************************************************)
(* Branches and their roles in a mode.                                     *)
(***************************************************************************)
\* The ports of all elements, in their order.
Branches(net) ==
    FlattenSeq([j \in DOMAIN net |->
        [port \in DOMAIN net[j].ports |->
            [element |-> j, port |-> port, kind |-> net[j].kind, value |-> net[j].value,
             a |-> net[j].ports[port][1], b |-> net[j].ports[port][2]]]])

\* A switch is ideal when closed; a resistor of zero is a short.
Role(branch, closed) ==
    CASE branch.kind = "switch" ->
             IF branch.element \in closed THEN "short"
             ELSE IF branch.value = None THEN None ELSE "res"
      [] branch.kind = "res" -> IF branch.value = 0 THEN "short" ELSE "res"
      [] branch.kind = "transformer" -> IF branch.port = 1 THEN "p" ELSE "s"
      [] OTHER -> branch.kind

\* The branches of the netlist in the mode with these switches closed.
InMode(net, closed) ==
    LET all == Branches(net)
    IN  [k \in DOMAIN all |-> all[k] @@ [role |-> Role(all[k], closed)]]

With(B, roles) == {k \in DOMAIN B : B[k].role \in roles}
Active(B) == {k \in DOMAIN B : B[k].role # None}

\* The other port of a transformer.
Partner(B, k) == IF B[k].role = "p" THEN k + 1 ELSE k - 1

----------------------------------------------------------------------------
(***************************************************************************)
(* The tree.  A forest is kept as the least vertex of every vertex's       *)
(* component.                                                              *)
(***************************************************************************)
Apart == [v \in Vertices |-> v]

Joins(root, branch) == root[branch.a] # root[branch.b]

United(root, branch) ==
    LET ends == {root[branch.a], root[branch.b]}
    IN  [v \in Vertices |-> IF root[v] \in ends THEN Min(ends) ELSE root[v]]

Roots(B, S) == FoldSet(LAMBDA k, root : United(root, B[k]), Apart, S)

\* The classes of branches, those the tree takes first in front.
Classes == <<{"vsrc", "short", "p"}, {"cap"}, {"res"}, {"ind"}, {"isrc", "state", "s"}>>

ByClass(B) == FlattenSeq([c \in DOMAIN Classes |-> SetToSortSeq(With(B, Classes[c]), <)])

Tree(B) ==
    FoldLeft(LAMBDA T, k : IF Joins(T.root, B[k])
                           THEN [branches |-> T.branches \cup {k},
                                 root |-> United(T.root, B[k])]
                           ELSE T,
             [branches |-> {}, root |-> Apart], ByClass(B)).branches

\* The tree branches between the ports of a branch, for every active one.
Paths(B, T) ==
    [k \in Active(B) |->
        {j \in T : ~Joins(Roots(B, T), B[k]) /\ Joins(Roots(B, T \ {j}), B[k])}]

(***************************************************************************)
(* A loop of voltage-type branches, or a cutset of current-type ones that  *)
(* are not all secondaries: the mode has no equations.                     *)
(***************************************************************************)
Cutset(B, T, path, k) == {k} \cup {j \in Active(B) \ T : k \in path[j]}

Degenerate(B, T, path) ==
    \/ With(B, Classes[1]) \ T # {}
    \/ \E k \in With(B, Classes[5]) \cap T :
           \E j \in Cutset(B, T, path, k) : B[j].role # "s"

----------------------------------------------------------------------------
(***************************************************************************)
(* Dependent states.                                                       *)
(***************************************************************************)
\* Tree branches whose voltage follows from sources and capacitors.
Fixed(B, T) == With(B, {"vsrc", "short", "cap"}) \cap T

\* Mutant of FixedPrimaries: one pass over the primaries.
FixedAtOnce(B, T, path) ==
    {p \in With(B, {"p"}) : path[Partner(B, p)] \subseteq Fixed(B, T) \cup With(B, {"p"})}

\* Primaries whose voltage follows from sources and capacitors: the most that
\* support one another.
FixedPrimaries(B, T, path) ==
    UNION {S \in SUBSET With(B, {"p"}) :
               \A p \in S : path[Partner(B, p)] \subseteq Fixed(B, T) \cup S}

\* Tree branches with a loop that lets their current change freely, when the
\* currents of the primaries S follow from inductors and sources.
Marked(B, T, path, S) ==
    UNION {path[k] : k \in With(B, {"cap", "res"}) \ T}
    \cup UNION {path[Partner(B, p)] : p \in With(B, {"p"}) \ S}

DrivenPrimaries(B, T, path) ==
    UNION {S \in SUBSET With(B, {"p"}) : S \cap Marked(B, T, path, S) = {}}

\* Mutant of DependentCapacitors: a loop over a primary leaves its capacitor free.
LoopedCapacitors(B, T, path, vd) ==
    {k \in With(B, {"cap"}) \ T : path[k] \cap With(B, {"p"}) = {}}

DependentCapacitors(B, T, path, vd) ==
    {k \in With(B, {"cap"}) \ T : path[k] \cap (With(B, {"p"}) \ vd) = {}}

DependentInductors(B, T, path, cd) ==
    (With(B, {"ind"}) \cap T) \ Marked(B, T, path, cd)

Classified(B, T, path, vd, cd) ==
    [B |-> B, tree |-> T, vd |-> vd, cd |-> cd,
     depC |-> DependentCapacitors(B, T, path, vd),
     depL |-> DependentInductors(B, T, path, cd),
     root |-> Roots(B, T)]

=============================================================================
