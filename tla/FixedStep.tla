----------------------------- MODULE FixedStep -----------------------------
(***************************************************************************)
(* Explicit Runge-Kutta steps of a fixed size (solver/integrators.py,      *)
(* FixedStepSolver).  Before an interval the eigenvalues of every circuit  *)
(* in its present mode are compared with the stability region; an interval *)
(* that leaves it goes to an implicit solver of its own.                   *)
(*                                                                         *)
(* Verdicts and eigenvalues are remembered by the identity of the modes,   *)
(* until parameters change.  Decompositions are remembered by the pattern  *)
(* of a matrix, from its second use on, and the eigenvalues of a diagonal  *)
(* block by the values of the block.                                       *)
(***************************************************************************)
EXTENDS SolverPlant

VARIABLE stability  \* the caches of the solver

fixedVars == <<plant, choice, stability>>

\* state_matrix_key: ratios that cannot change the matrix are left out.
MatrixKey(c) ==
    [circuit |-> c, mode |-> IF c \in Switched THEN mode ELSE None,
     ratio |-> IF c \in Reached THEN ratio ELSE None]

ModeKeys == [i \in DOMAIN Circuits |-> MatrixKey(Circuits[i])]

FixedInit ==
    stability = [results |-> <<>>, eigenvalues |-> <<>>, components |-> <<>>, blocks |-> <<>>]

----------------------------------------------------------------------------
\* The eigenvalues of one diagonal block; a block of one row is its own.
BlockEigenvalues(caches, block) ==
    IF Knows(caches.blocks, block) THEN Get(caches.blocks, block) ELSE Spectrum(block)

WithBlock(found, block) ==
    LET values == BlockEigenvalues(found.caches, block)
    IN  [values |-> found.values \cup values,
         caches |-> IF Cardinality(Rows(block)) = 1 THEN found.caches
                    ELSE [found.caches EXCEPT !.blocks = Used(@, block, values)]]

\* The eigenvalues of a matrix from those of its components.
Blockwise(caches, m, components) ==
    LET seen == [caches EXCEPT !.components = Used(@, Pattern(m), components)]
        found[n \in 0 .. Len(components)] ==
            IF n = 0 THEN [values |-> {}, caches |-> seen]
            ELSE WithBlock(found[n - 1], DiagonalBlock(m, components[n]))
    IN  IF Len(components) = 1 THEN [values |-> Spectrum(m), caches |-> seen]
        ELSE found[Len(components)]

Components(caches, pattern) ==
    IF Get(caches.components, pattern) = None THEN OrderedComponents(Dependencies(pattern))
    ELSE Get(caches.components, pattern)

\* _eigenvalues: a pattern is decomposed when it comes a second time.
Eigenvalues(caches, m) ==
    IF Knows(caches.components, Pattern(m))
    THEN Blockwise(caches, m, Components(caches, Pattern(m)))
    ELSE [values |-> Spectrum(m),
          caches |-> [caches EXCEPT !.components = Used(@, Pattern(m), None)]]

KnownOrFound(caches, key, c) ==
    IF Knows(caches.eigenvalues, key)
    THEN [values |-> Get(caches.eigenvalues, key), caches |-> caches]
    ELSE Eigenvalues(caches, Present(c))

Judged(h, key, found) ==
    [stable |-> \A value \in found.values : Inside(value, h),
     caches |-> [found.caches EXCEPT !.eigenvalues = Used(@, key, found.values)]]

\* Mutant: the identity of the mode is looked up without its ratio.
CheckedByMode(h, verdict, c) ==
    LET key == [MatrixKey(c) EXCEPT !.ratio = None]
    IN  IF verdict.stable THEN Judged(h, key, KnownOrFound(verdict.caches, key, c)) ELSE verdict

\* One circuit of _explicit_stable; after an unstable one none is looked at.
Checked(h, verdict, c) ==
    LET key == MatrixKey(c)
    IN  IF verdict.stable THEN Judged(h, key, KnownOrFound(verdict.caches, key, c)) ELSE verdict

\* _stiff, as its opposite.
ExplicitStable(h) ==
    LET key == [modes |-> ModeKeys, h |-> h]
        verdict[n \in 0 .. Len(Circuits)] ==
            IF n = 0 THEN [stable |-> TRUE, caches |-> stability]
            ELSE Checked(h, verdict[n - 1], Circuits[n])
    IN  IF Knows(stability.results, key)
        THEN [stable |-> Get(stability.results, key), caches |-> stability]
        ELSE verdict[Len(Circuits)]

Decide(h, verdict) ==
    /\ choice' = [h |-> h, explicit |-> verdict.stable]
    /\ stability' = [verdict.caches EXCEPT
           !.results = Used(@, [modes |-> ModeKeys, h |-> h], verdict.stable)]

\* An interval begins: advance, advance_guarded.
AdvanceFixed(h) ==
    /\ choice = None
    /\ Decide(h, ExplicitStable(h))
    /\ UNCHANGED plant

MovesFixed == PlantMoves /\ UNCHANGED stability

\* parameters_changed: what depends on values only may stay.
ParametersChangeFixed ==
    /\ ParametersMove
    /\ stability' = [stability EXCEPT !.results = <<>>, !.eigenvalues = <<>>]

FixedNext == MovesFixed \/ ParametersChangeFixed \/ \E h \in Steps : AdvanceFixed(h)

----------------------------------------------------------------------------
(***************************************************************************)
(* An interval is taken by explicit steps exactly when the state matrices  *)
(* of all circuits, in their present modes and with their present ratios   *)
(* and parameters, are inside the stability region at this step size: no   *)
(* verdict, eigenvalue, decomposition or block that was remembered before  *)
(* says otherwise (FixedStepSolver._stiff).                                *)
(***************************************************************************)
ChoiceIsSound == choice # None => (choice.explicit <=> Sound(choice.h))

=============================================================================
