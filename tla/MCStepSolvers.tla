--------------------------- MODULE MCStepSolvers ---------------------------
(***************************************************************************)
(* A bridge circuit with two switch states and a link with a variable      *)
(* ratio.  Their matrices share patterns and blocks, couple all rows or    *)
(* leave them in two components, and change with parameters.  Windows of   *)
(* three steps have inputs of both signs.                                  *)
(***************************************************************************)
EXTENDS StepSolvers

TheCircuits == <<"bridge", "link">>

TwoRows(p, q, r, s) == (<<1, 1>> :> p) @@ (<<1, 2>> :> q) @@ (<<2, 1>> :> r) @@ (<<2, 2>> :> s)

\* Two rows that depend on each other, and a third beside them or below.
ThreeRows(m, below, third) ==
    m @@ (<<1, 3>> :> 0) @@ (<<2, 3>> :> 0) @@ (<<3, 1>> :> below) @@ (<<3, 2>> :> 0)
      @@ (<<3, 3>> :> third)

\* All three rows depend on each other.
Ring(value) ==
    [p \in (1 .. 3) \X (1 .. 3) |-> IF p[2] = (p[1] % 3) + 1 THEN value ELSE 0]

TheMatrix ==
    [c \in {"bridge", "link"} |->
        [p \in Plants |->
            IF c = "link" THEN TwoRows(0, p[2], 1 + p[3], 0)
            ELSE IF p[1] = "on" THEN ThreeRows(TwoRows(0, 1, 1, 0), 1, 1 + p[3])
            ELSE IF p[3] = 0 THEN ThreeRows(TwoRows(0, 2, 1, 0), 1, 1) ELSE Ring(1)]]

\* A block of entries up to this size is stable with this step.
InsideRegion(block, h) == \A p \in DOMAIN block : block[p] * h <= 2

\* The iteration does not end for a ring of three.
DoesDeflate(m) == m # Ring(1)

\* Both decompositions are right for these matrices, and for every pattern of
\* up to three rows.
ASSUME TheseDecompose == Decomposes
ASSUME ThreeRowsDecompose ==
    \A n \in 1 .. 3 : \A m \in [(1 .. n) \X (1 .. n) -> {0, 1}] : IsDecomposed(m)

TheInputs == {-1, 2}
TheValues == {5}

=============================================================================
