--------------------------- MODULE DependencyPlan ---------------------------
(***************************************************************************)
(* The analysis of a dependency graph that the solver, the loop networks   *)
(* and the C++ export share (solver/model.py, _dependency_plan): a         *)
(* topological order, the nodes a cycle keeps out of it, and the strongly  *)
(* connected components among those.                                       *)
(*                                                                         *)
(* A graph is a function from the nodes 1..n to the nodes each of them     *)
(* depends on.                                                             *)
(***************************************************************************)
EXTENDS Naturals, FiniteSets, Sequences, SequencesExt, TLC

\* A sequence written out as the table of its values.
Table(f) == f \o <<>>

\* A set of numbers in their order.
Sorted(nodes) ==
    Table([i \in 1..Cardinality(nodes) |->
              CHOOSE n \in nodes : Cardinality({m \in nodes : m < n}) = i - 1])

MinOf(nodes) == CHOOSE n \in nodes : \A m \in nodes : n <= m
Followers(deps, n) == {m \in DOMAIN deps : n \in deps[m]}
Successors(deps) == Table([n \in DOMAIN deps |-> Followers(deps, n)])

\* One turn of Kahn's queue: the nodes whose last dependency this was follow.
QueueTurn(deps, queue) ==
    LET n == Head(queue.ready)
        order == Append(queue.order, n)
        freed == {c \in DOMAIN deps : n \in deps[c] /\ deps[c] \subseteq ToSet(order)}
    IN  IF queue.ready = <<>> THEN queue
        ELSE [ready |-> Tail(queue.ready) \o Sorted(freed), order |-> order]

\* _topological_order; a node on a cycle, or behind one, is not part of it.
TopologicalOrder(deps) ==
    LET first == [ready |-> Sorted({n \in DOMAIN deps : deps[n] = {}}), order |-> <<>>]
        turned[i \in 0 .. Cardinality(DOMAIN deps)] ==
            IF i = 0 THEN first ELSE QueueTurn(deps, turned[i - 1])
    IN  turned[Cardinality(DOMAIN deps)].order

\* The nodes on a cycle or behind one.
Residual(deps) == DOMAIN deps \ ToSet(TopologicalOrder(deps))

----------------------------------------------------------------------------
\* Tarjan's algorithm with explicit frames, on the residual only

Unvisited(nodes) ==
    [selected |-> nodes, indices |-> <<>>, low |-> <<>>, stack |-> <<>>, frames |-> <<>>,
     components |-> {}]

Least(a, b) == IF a < b THEN a ELSE b

\* A function with one more value.
WithValue(f, a, value) == [b \in DOMAIN f \cup {a} |-> IF b = a THEN value ELSE f[b]]

Visit(deps, s, n) ==
    LET index == Cardinality(DOMAIN s.indices)
    IN  [s EXCEPT !.indices = WithValue(@, n, index), !.low = WithValue(@, n, index),
                  !.stack = Append(@, n),
                  !.frames = Append(@, [node |-> n,
                      edges |-> Sorted(Followers(deps, n) \cap s.selected)])]

\* The next edge of the innermost frame: down to a new node, or back to one
\* that is still on the stack.
Follow(deps, s) ==
    LET frame == Last(s.frames)
        next == Head(frame.edges)
        moved == [s EXCEPT !.frames[Len(s.frames)].edges = Tail(@)]
    IN  CASE next \notin DOMAIN s.indices -> Visit(deps, moved, next)
          [] next \in DOMAIN s.indices /\ Contains(s.stack, next) ->
                 [moved EXCEPT !.low[frame.node] = Least(@, s.indices[next])]
          [] OTHER -> moved

\* Mutant: the node above does not learn how far down its successor reached.
LeaveUnlinked(s) ==
    LET n == Last(s.frames).node
        at == CHOOSE i \in DOMAIN s.stack : s.stack[i] = n
        left == [s EXCEPT !.frames = Front(@)]
    IN  IF s.low[n] # s.indices[n] THEN left
        ELSE [left EXCEPT !.stack = SubSeq(@, 1, at - 1),
                          !.components = @ \cup {ToSet(SubSeq(s.stack, at, Len(s.stack)))}]

\* The innermost frame has no edge left; a root takes its component along.
Leave(s) ==
    LET n == Last(s.frames).node
        frames == Front(s.frames)
        at == CHOOSE i \in DOMAIN s.stack : s.stack[i] = n
        low == IF frames = <<>> THEN s.low
               ELSE [s.low EXCEPT ![Last(frames).node] = Least(@, s.low[n])]
        left == [s EXCEPT !.frames = frames, !.low = low]
    IN  IF s.low[n] # s.indices[n] THEN left
        ELSE [left EXCEPT !.stack = SubSeq(@, 1, at - 1),
                          !.components = @ \cup {ToSet(SubSeq(s.stack, at, Len(s.stack)))}]

\* One turn of the loop: the innermost frame is left, or goes on.
FrameTurn(deps, s) ==
    IF s.frames = <<>> THEN s
    ELSE IF Last(s.frames).edges = <<>> THEN Leave(s) ELSE Follow(deps, s)

\* The loop ends: every node is left once, and every edge followed once.
Explore(deps, s) ==
    LET edges == {e \in s.selected \X s.selected : e[1] \in deps[e[2]]}
        turns == Cardinality(s.selected) + Cardinality(edges)
        explored[n \in 0 .. turns] == IF n = 0 THEN s ELSE FrameTurn(deps, explored[n - 1])
    IN  explored[turns]

\* A node not reached yet is the root of another search.
From(deps, s, n) == IF n \in DOMAIN s.indices THEN s ELSE Explore(deps, Visit(deps, s, n))

\* _strong_components of the residual.
StrongComponents(deps, residual) ==
    LET roots == Sorted(residual)
        searched[i \in 0 .. Len(roots)] ==
            IF i = 0 THEN Unvisited(residual) ELSE From(deps, searched[i - 1], roots[i])
    IN  searched[Len(roots)].components

----------------------------------------------------------------------------
\* Disjoint sets of nodes in the order of their least node.
ByNode(parts) ==
    LET first == Sorted({MinOf(p) : p \in parts})
    IN  Table([i \in DOMAIN first |-> CHOOSE p \in parts : MinOf(p) = first[i]])

\* The dependencies among the parts of a partition, given as a sequence.
Condensed(deps, parts) ==
    Table([i \in DOMAIN parts |->
              {j \in DOMAIN parts \ {i} : \E n \in parts[i] : deps[n] \cap parts[j] # {}}])

\* _ordered_components: every component after those it depends on.
OrderedComponents(deps) ==
    LET order == TopologicalOrder(deps)
        residual == DOMAIN deps \ ToSet(order)
        components == ByNode({{n} : n \in ToSet(order)} \cup StrongComponents(deps, residual))
        condensation == TopologicalOrder(Condensed(deps, components))
    IN  IF residual = {} THEN Table([i \in DOMAIN order |-> {order[i]}])
        ELSE Table([i \in DOMAIN condensation |-> components[condensation[i]]])

=============================================================================
