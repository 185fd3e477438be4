---------------------------- MODULE StepSolvers ----------------------------
(***************************************************************************)
(* The solvers of one plant.  A run of the simulation has the implicit     *)
(* solver, the explicit one with a fixed step, or the multirate one        *)
(* (simulation.solver); an exported program has one of the first two.  The *)
(* steps that an explicit solver falls back to are those of the implicit   *)
(* one beside it, at any instant.                                          *)
(***************************************************************************)
EXTENDS LinearSystem, FixedStep, GeneratedSolver, MultirateWindows

VARIABLE solver  \* the solver of this run

vars == <<solver, linearVars, fixedVars, nativeVars, windowsVars>>

linear == <<J, held_mode, modes, blocks, factors, used, attempts>>
fixed == stability
generated == <<native, newton, tries>>

\* The parts of other solvers stay as they began, in one way.
Init ==
    /\ solver \in {"implicit", "fixed", "multirate", "native implicit", "native fixed"}
    /\ PlantInit /\ LinearInit /\ FixedInit /\ NativeInit /\ WindowsInit
    /\ IF solver = "multirate"
       THEN <<mode, ratio, point>> = CHOOSE first \in Modes \X Ratios \X Points : TRUE
       ELSE <<input, state>> = CHOOSE first \in Inputs \X Values : TRUE

Next ==
    \/ /\ solver = "implicit" /\ LinearNext
       /\ UNCHANGED <<solver, fixed, generated, windowsVars>>
    \/ /\ solver = "fixed" /\ FixedNext
       /\ UNCHANGED <<solver, linear, generated, windowsVars>>
    \/ /\ solver = "native implicit" /\ NativeImplicitNext
       /\ UNCHANGED <<solver, linear, fixed, windowsVars>>
    \/ /\ solver = "native fixed" /\ NativeFixedNext
       /\ UNCHANGED <<solver, linear, fixed, windowsVars>>
    \/ /\ solver = "multirate" /\ WindowsNext
       /\ UNCHANGED <<solver, plant, choice, linear, fixed, generated>>

Spec == Init /\ [][Next]_vars

----------------------------------------------------------------------------
\* Both decompositions of a pattern have the irreducible sets of rows as parts.
Decomposition(m, parts) == parts \in Seq(SUBSET Rows(m)) /\ ToSet(parts) = Irreducible(m)

IsDecomposed(m) ==
    /\ Decomposition(m, OrderedComponents(Dependencies(Pattern(m))))
    /\ Decomposition(m, NativeComponents(Pattern(m)))

Decomposes == \A m \in Matrices : IsDecomposed(m)

(***************************************************************************)
(* Every interval is integrated with the plant as it is: explicit steps    *)
(* only where they are stable now, implicit steps with a Newton matrix of  *)
(* the present circuits, in the simulation and in the exported program     *)
(* (integrators.py, implicit.py, cpp.py).                                  *)
(***************************************************************************)
StepsArePresent ==
    /\ solver = "implicit" => FactorIsPresent
    /\ solver = "fixed" => ChoiceIsSound
    /\ solver \in {"native implicit", "native fixed"} => NativeStepsArePresent

=============================================================================
