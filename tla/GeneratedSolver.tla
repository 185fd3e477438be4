-------------------------- MODULE GeneratedSolver --------------------------
(***************************************************************************)
(* The solvers of the exported program (assembly/cpp.py): explicit steps   *)
(* under the same stability check as the simulation (_explicit_stability), *)
(* and implicit ones (_implicit_solver), also where the check fails.       *)
(*                                                                         *)
(* Its identity of a mode holds all switches and ratios.  Eigenvalues are  *)
(* remembered per circuit, with the epoch that a file event begins; the    *)
(* Jacobian and its factorizations are dropped by the event.  The          *)
(* eigenvalues of a matrix or block of three rows or more are iterated for *)
(* and may not be found.                                                   *)
(***************************************************************************)
EXTENDS SolverPlant

CONSTANT Deflates(_)  \* the iteration for the eigenvalues of a matrix ends

VARIABLES
    native,   \* the members of the program: caches, Jacobian, factorizations
    newton,   \* factorization of the Newton iteration that runs
    tries     \* Newton attempts of this step, 0 between intervals

nativeVars == <<plant, choice, native, newton, tries>>

\* structural_mode: every switch and ratio, and the part of one circuit.
StructuralMode ==
    [mode |-> mode, ratio |-> IF Transforming = {} THEN None ELSE ratio]

StabilityKey(c) ==
    [mode |-> IF c \in Switched THEN mode ELSE None,
     ratio |-> IF c \in Transforming THEN ratio ELSE None]

NativeInit ==
    /\ native = [epoch |-> 0, modes |-> [c \in ToSet(Circuits) |-> <<>>],
                 patterns |-> <<>>, blocks |-> <<>>,
                 jacobian |-> None, selected |-> None, known |-> <<>>, factors |-> {}]
    /\ newton = None /\ tries = 0

----------------------------------------------------------------------------
(***************************************************************************)
(* The stability check.                                                    *)
(***************************************************************************)
\* explicit_eigenvalues; one and two rows are solved in closed form.
NativeEigenvalues(m) ==
    LET converged == Cardinality(Rows(m)) <= 2 \/ Deflates(m)
    IN  [values |-> IF converged THEN Spectrum(m) ELSE {}, converged |-> converged]

\* stability_components: depth first along the dependencies of a row.
NativeComponents(pattern) ==
    LET along == Dependencies(pattern)
    IN  ByNode(StrongComponents(Successors(along), DOMAIN along))

\* Blocks of every size are remembered.
WithNativeBlock(found, block) ==
    LET entry == IF Knows(found.program.blocks, block) THEN Get(found.program.blocks, block)
                 ELSE NativeEigenvalues(block)
    IN  [values |-> found.values \cup entry.values,
         converged |-> found.converged /\ entry.converged,
         program |-> [found.program EXCEPT !.blocks = Kept(@, block, entry)]]

Whole(program, m) ==
    LET found == NativeEigenvalues(m)
    IN  [values |-> found.values, converged |-> found.converged, program |-> program]

NativeBlockwise(program, m, components) ==
    LET seen == [program EXCEPT !.patterns = Kept(@, Pattern(m), components)]
        found[n \in 0 .. Len(components)] ==
            IF n = 0 THEN [values |-> {}, converged |-> TRUE, program |-> seen]
            ELSE WithNativeBlock(found[n - 1], DiagonalBlock(m, components[n]))
    IN  IF Len(components) = 1 THEN Whole(seen, m) ELSE found[Len(components)]

Decomposed(program, pattern) ==
    IF Get(program.patterns, pattern) = None THEN NativeComponents(pattern)
    ELSE Get(program.patterns, pattern)

\* A mode not seen before: its matrix is probed and its eigenvalues found.
NewMode(program, m) ==
    IF Knows(program.patterns, Pattern(m))
    THEN NativeBlockwise(program, m, Decomposed(program, Pattern(m)))
    ELSE Whole([program EXCEPT !.patterns = Kept(@, Pattern(m), None)], m)

\* Mutant: the epoch is not part of the identity.
ModeKeyOfAllEpochs(program, c) == [epoch |-> 0, key |-> StabilityKey(c)]

ModeKey(program, c) == [epoch |-> program.epoch, key |-> StabilityKey(c)]

NativeKnown(program, key, c) ==
    LET entry == Get(program.modes[c], key)
    IN  IF Knows(program.modes[c], key)
        THEN [values |-> entry.values, converged |-> entry.converged, program |-> program]
        ELSE NewMode(program, Present(c))

NativeJudged(h, key, c, found) ==
    [stable |-> found.converged /\ \A value \in found.values : Inside(value, h),
     program |-> [found.program EXCEPT !.modes[c] =
         Kept(@, key, [values |-> found.values, converged |-> found.converged])]]

\* explicit_circuit_stable for one circuit; after an unstable one none is
\* looked at.
NativeChecked(h, verdict, c) ==
    LET key == ModeKey(verdict.program, c)
    IN  IF verdict.stable THEN NativeJudged(h, key, c, NativeKnown(verdict.program, key, c))
        ELSE verdict

NativeStable(h) ==
    LET verdict[n \in 0 .. Len(Circuits)] ==
            IF n = 0 THEN [stable |-> TRUE, program |-> native]
            ELSE NativeChecked(h, verdict[n - 1], Circuits[n])
    IN  verdict[Len(Circuits)]

----------------------------------------------------------------------------
(***************************************************************************)
(* The implicit solver.                                                    *)
(***************************************************************************)
\* implicit_linearize: finite differences at the present point.
Linearized(program) ==
    LET J == [mode |-> mode, ratio |-> ratio, params |-> params, point |-> point]
    IN  [program EXCEPT !.jacobian = J, !.factors = {}, !.selected = StructuralMode,
                        !.known = Kept(@, StructuralMode, J)]

\* implicit_select: the Jacobian of the present mode.
Selected(program) ==
    IF program.jacobian # None /\ program.selected = StructuralMode THEN program
    ELSE IF Knows(program.known, StructuralMode)
    THEN [program EXCEPT !.factors = {}, !.selected = StructuralMode,
                         !.jacobian = Get(program.known, StructuralMode)]
    ELSE Linearized(program)

DecideNative(h, verdict) ==
    /\ choice' = [h |-> h, explicit |-> verdict.stable]
    /\ native' = verdict.program

\* An interval begins with the verdict on explicit steps.
AdvanceChecked(h) ==
    /\ choice = None
    /\ DecideNative(h, NativeStable(h))
    /\ UNCHANGED <<plant, newton, tries>>

\* An interval of implicit steps begins with the Jacobian.
AdvanceImplicit ==
    /\ tries = 0
    /\ native' = Selected(native) /\ tries' = 1
    /\ UNCHANGED <<plant, choice, newton>>

\* implicit_factor: found by the step size alone.
FactorNative(h) ==
    LET known == {f \in native.factors : f.h = h}
        new == [h |-> h, matrix |-> native.jacobian]
    IN  /\ tries > 0 /\ newton = None
        /\ IF known # {}
           THEN newton' = (CHOOSE f \in known : TRUE) /\ UNCHANGED native
           ELSE /\ newton' = new
                /\ native' = [native EXCEPT !.factors =
                       {new} \cup (IF Cardinality(@) > MaxFactors THEN {} ELSE @)]
        /\ UNCHANGED <<plant, choice, tries>>

\* implicit_newton converges; the interval goes on or ends.
ConvergesNative ==
    /\ newton # None
    /\ newton' = None /\ tries' \in {0, 1} /\ point' \in Points
    /\ UNCHANGED <<mode, ratio, params, choice, native>>

\* It does not: a new Jacobian; after two attempts the step is split.
RetriesNative ==
    /\ newton # None
    /\ native' = Linearized(native)
    /\ newton' = None /\ tries' = IF tries = 1 THEN 2 ELSE 1
    /\ UNCHANGED <<plant, choice>>

MovesNative ==
    /\ tries = 0 /\ PlantMoves
    /\ UNCHANGED <<native, newton, tries>>

\* implicit_invalidate, after the file events of an instant.
FileEventNative ==
    /\ tries = 0 /\ ParametersMove
    /\ native' = [native EXCEPT !.jacobian = None, !.selected = None, !.known = <<>>,
                                !.factors = {}, !.epoch = @ + 1]
    /\ UNCHANGED <<newton, tries>>

NativeFixedNext ==
    MovesNative \/ FileEventNative \/ \E h \in Steps : AdvanceChecked(h)

NativeImplicitNext ==
    \/ MovesNative \/ FileEventNative \/ AdvanceImplicit
    \/ ConvergesNative \/ RetriesNative \/ \E h \in Steps : FactorNative(h)

----------------------------------------------------------------------------
\* A matrix or block that is present and has no eigenvalues in the program.
Unresolved ==
    \E c \in ToSet(Circuits) :
        \E m \in {Present(c)} \cup Spectrum(Present(c)) : ~NativeEigenvalues(m).converged

(***************************************************************************)
(* The exported program chooses between explicit and implicit steps as the *)
(* simulation does, on the present matrices, except that it is implicit    *)
(* where it does not find the eigenvalues.                                 *)
(***************************************************************************)
VerdictIsPresent ==
    choice # None =>
        /\ choice.explicit => Sound(choice.h)
        /\ ~choice.explicit => ~Sound(choice.h) \/ Unresolved

(***************************************************************************)
(* Its Newton iterations use a factorization of the Jacobian held now,     *)
(* formed in this mode with this ratio and these parameters.               *)
(***************************************************************************)
NewtonIsPresent ==
    /\ newton # None => newton.matrix = native.jacobian
    /\ tries > 0 =>
           /\ native.jacobian.mode = mode /\ native.jacobian.params = params
           /\ Transforming # {} => native.jacobian.ratio = ratio

\* Both, in a program that has either solver.
NativeStepsArePresent == VerdictIsPresent /\ NewtonIsPresent

=============================================================================
