---------------------------- MODULE LinearSystem ----------------------------
(***************************************************************************)
(* The Jacobians and factorizations of the implicit solvers                *)
(* (solver/implicit.py: LinearSystem, ImplicitSolver, ModeJacobian).  The  *)
(* Jacobian is kept over intervals, per block of columns and per mode of   *)
(* the circuit; a factorization is found again by the versions of the      *)
(* blocks it was made from.                                                *)
(*                                                                         *)
(* Two blocks of columns: one holds the circuit, whose exact part comes    *)
(* from the netlist and follows the ratio of an averaged bridge; all other *)
(* columns are finite differences of the right-hand side at a point.  A    *)
(* matrix is what it was formed from.                                      *)
(***************************************************************************)
EXTENDS SolverPlant

CONSTANTS
    Skips,       \* exact columns are not differenced (no feedback outside)
    MaxRevision  \* bound on matrices formed per block

ASSUME LinearSystemAssumption ==
    /\ Skips \in BOOLEAN
    /\ MaxRevision \in Nat \ {0}

Blocks == {"circuit", "other"}

VARIABLES
    J,             \* the Jacobian, or None
    held_mode,     \* mode J was formed in
    modes,         \* Jacobians by mode, least recently used first
    blocks,        \* version, last revision and cached columns of each block
    factors,       \* factorizations by step and versions
    used,          \* factorization of the Newton iteration that runs
    attempts       \* Newton attempts of this step

linearVars == <<plant, choice, J, held_mode, modes, blocks, factors, used, attempts>>

\* What the columns of a block would be formed from now.
Differences == [mode |-> mode, params |-> params, point |-> point]
Exact == [mode |-> mode, params |-> params, ratio |-> ratio]

----------------------------------------------------------------------------
(***************************************************************************)
(* Blocks.                                                                 *)
(***************************************************************************)
\* touch: a new identity for the active matrix.
Touched(b) == [b EXCEPT !.revision = @ + 1, !.version = b.revision + 1]

\* The exact columns that identify a cached block: those not differenced.
Signature(columns) == IF Skips THEN columns ELSE [columns EXCEPT !.ex = None]

Stored(b, columns) ==
    LET touched == Touched(b)
    IN  [touched EXCEPT !.cache =
            Newest(Append(@, [version |-> touched.version, columns |-> Signature(columns)]))]

\* A cached block whose columns are those wanted, the last used first.
Found(b, columns) ==
    {i \in DOMAIN b.cache : b.cache[i].columns = Signature(columns)}

----------------------------------------------------------------------------
(***************************************************************************)
(* A system is [J, blocks]; its operations.                                *)
(***************************************************************************)
\* _refresh_exact: the present netlist matrix; blocks whose columns are not
\* differenced get a new identity when it changed.
Refreshed(s) ==
    [s EXCEPT !.J["circuit"].ex = Exact,
              !.blocks["circuit"] =
                  IF Skips /\ s.J["circuit"].ex # Exact THEN Touched(@) ELSE @]

\* _refresh_block.
Formed(s, b) ==
    LET columns == [fd |-> Differences, ex |-> s.J[b].ex]
    IN  [s EXCEPT !.J[b] = columns, !.blocks[b] = Stored(@, columns)]

AllFormed(s) == Refreshed(Formed(Formed(s, "circuit"), "other"))

\* lookup of one block: it holds, is cached, or is formed.
LookedUp(s, b) ==
    LET wanted == [fd |-> Differences, ex |-> s.J[b].ex]
        found == Found(s.blocks[b], wanted)
        i == CHOOSE k \in found : \A j \in found : j <= k
    IN  IF s.J[b].fd = Differences THEN s
        ELSE IF found = {} THEN Formed(s, b)
        ELSE LET entry == s.blocks[b].cache[i]
             IN  [s EXCEPT !.J[b].fd = Differences,
                           !.blocks[b].version = entry.version,
                           !.blocks[b].cache = Append(RemoveAt(@, i), entry)]

System == [J |-> J, blocks |-> blocks]
Empty == [b \in Blocks |-> [fd |-> Differences,
                            ex |-> IF b = "circuit" THEN Exact ELSE None]]

Held(m) == {i \in DOMAIN modes : modes[i].mode = m}

\* _store_mode: most recently used last, the oldest dropped.
Remembered(m, matrix) ==
    LET others == IF Held(m) = {} THEN modes
                  ELSE RemoveAt(modes, CHOOSE i \in Held(m) : TRUE)
    IN  Newest(Append(others, [mode |-> m, J |-> matrix]))

----------------------------------------------------------------------------
LinearInit ==
    /\ J = None /\ held_mode = None /\ modes = <<>>
    /\ blocks = [b \in Blocks |-> [version |-> 0, revision |-> 0, cache |-> <<>>]]
    /\ factors = {} /\ used = None /\ attempts = 0

\* Revisions may still grow by one solver call.
Room == \A b \in Blocks : blocks[b].revision < MaxRevision

Take(s) == J' = s.J /\ blocks' = s.blocks

\* ensure: the Jacobian of the present mode.
Ensured ==
    \/ /\ J # None /\ held_mode = mode
       /\ Take(Refreshed(System))
       /\ UNCHANGED <<held_mode, modes>>
    \/ /\ J = None \/ held_mode # mode
       /\ Held(mode) # {}
       /\ LET known == modes[CHOOSE i \in Held(mode) : TRUE].J
              s == Refreshed([J |-> known, blocks |-> [b \in Blocks |-> Touched(blocks[b])]])
          IN  Take(s) /\ modes' = Remembered(mode, s.J)
       /\ held_mode' = mode
    \/ /\ J = None \/ held_mode # mode
       /\ Held(mode) = {}
       /\ LET s == AllFormed([J |-> Empty, blocks |-> blocks])
          IN  Take(s) /\ modes' = Remembered(mode, s.J)
       /\ held_mode' = mode

\* A step of ImplicitSolver starts.
Ensure ==
    /\ attempts = 0 /\ used = None /\ Room
    /\ Ensured /\ attempts' = 1
    /\ UNCHANGED <<plant, choice, factors, used>>

Versions == [b \in Blocks |-> blocks[b].version]

\* The factorization for a step size, found by the versions of the blocks.
Factor(h) ==
    LET key == [h |-> h, versions |-> Versions]
        known == {f \in factors : f.key = key}
        new == [key |-> key, matrix |-> J]
    IN  /\ attempts > 0 /\ used = None
        /\ IF known # {}
           THEN used' = (CHOOSE f \in known : TRUE) /\ UNCHANGED factors
           ELSE /\ used' = new
                /\ factors' = {new} \cup (IF Cardinality(factors) > MaxFactors THEN {} ELSE factors)
        /\ UNCHANGED <<plant, choice, J, held_mode, modes, blocks, attempts>>

\* The iteration contracts: the states move on.
Converges ==
    /\ used # None
    /\ used' = None /\ attempts' \in {0, 1} /\ point' \in Points
    /\ UNCHANGED <<mode, ratio, params, choice, J, held_mode, modes, blocks, factors>>

\* It does not: update forms every block again.  After two attempts the step
\* is split, and its halves begin anew.
Update ==
    /\ used # None /\ Room
    /\ LET s == AllFormed(Refreshed(System))
       IN  Take(s) /\ modes' = Remembered(mode, s.J)
    /\ held_mode' = mode /\ used' = None
    /\ attempts' = IF attempts = 1 THEN 2 ELSE 1
    /\ UNCHANGED <<plant, choice, factors>>

\* The Jacobian for a stepper of SciPy: where the mode is the one held, each
\* block is probed.
ModeJacobian ==
    /\ attempts = 0 /\ Room /\ J # None /\ held_mode = mode
    /\ Take(Refreshed(LookedUp(LookedUp(Refreshed(System), "circuit"), "other")))
    /\ UNCHANGED <<plant, choice, held_mode, modes, factors, used, attempts>>

----------------------------------------------------------------------------
(***************************************************************************)
(* The plant between two intervals.                                        *)
(***************************************************************************)
Commutate ==
    /\ attempts = 0
    /\ PlantMoves
    /\ UNCHANGED <<J, held_mode, modes, blocks, factors, used, attempts>>

\* Mutant of KeptModes: the matrices of known modes survive.
KeepsModes == modes

\* Modes known after parameters changed.
KeptModes == <<>>

\* A set event: parameters_changed invalidates everything formed before.
ParametersChange ==
    /\ attempts = 0 /\ Room
    /\ ParametersMove
    /\ J' = None /\ held_mode' = None /\ modes' = KeptModes /\ factors' = {}
    /\ blocks' = [b \in Blocks |-> [Touched(blocks[b]) EXCEPT !.cache = <<>>]]
    /\ UNCHANGED <<used, attempts>>

LinearNext ==
    \/ Ensure \/ Converges \/ Update \/ ModeJacobian \/ Commutate \/ ParametersChange
    \/ \E h \in Steps : Factor(h)

----------------------------------------------------------------------------
(***************************************************************************)
(* A step is solved with the present plant.  The Newton matrix in use was  *)
(* factored from the Jacobian held now: no version names two matrices,     *)
(* over commutations, ratio changes, refreshed and re-found blocks and     *)
(* parameter changes.  And that Jacobian has columns formed in this mode   *)
(* with these parameters and the circuit matrix of the present ratio, also *)
(* where it comes back from an earlier visit of the mode.                  *)
(***************************************************************************)
FactorIsPresent ==
    /\ used # None => used.matrix = J
    /\ attempts > 0 =>
        /\ \A b \in Blocks : J[b].fd.mode = mode /\ J[b].fd.params = params
        /\ J["circuit"].ex = Exact

============================================================================
