---------------------------- MODULE CircuitModes ----------------------------
(***************************************************************************)
(* A switched circuit during a simulation: its modes are compiled on       *)
(* demand and kept, the states follow the derivative network of the        *)
(* present mode, and a change of the mode projects them onto its loops and *)
(* cutsets (solver/netlist.py, Netlist and Topology; assembly/circuit.py,  *)
(* CircuitUnit).                                                           *)
(*                                                                         *)
(* Switches and the ratio of a transformer change at boundaries; sources   *)
(* move with their rates.  The circuit has no diodes: Conduction has the   *)
(* search for their pattern.                                               *)
(***************************************************************************)
EXTENDS CircuitEquations

CONSTANTS
    Circuits,    \* netlists
    Ratios,      \* of its transformer
    Given,       \* values a state may have at first, of each branch
    Supplied,    \* first value and rate of a source branch
    Cache,       \* compiled modes kept (32 in the code)
    MaxCommands, \* bound on changes of the mode
    MaxSteps     \* bound on steps between them

ASSUME CircuitModesAssumption ==
    /\ Ratios \subseteq Int /\ Cache \in Nat \ {0}
    /\ MaxCommands \in Nat /\ MaxSteps \in Nat

VARIABLES
    net,          \* the netlist
    closed, ratio, \* the mode that is commanded
    x, u,         \* states and sources, of their branches
    shown,        \* of the storage branches: their voltage or current in the last
                  \* evaluation of this mode, or None
    phase,        \* "boundary", "settle", "commutate", "smooth"; "failed" for a mode
                  \* without equations, "singular" for one without a solution
    compiled,     \* the caches of the netlist
    consistent,   \* the mode the states were last found to fit
    constraints,  \* its constraints
    signature,    \* the switches at the last boundary
    commands, steps

circuitVars == <<net, closed, ratio, x, u, shown, phase, compiled, consistent, constraints,
                 signature, commands, steps>>

Switches == {j \in DOMAIN net : net[j].kind = "switch"}
Transforms == \E j \in DOMAIN net : net[j].kind = "transformer"
Here == InMode(net, closed)

----------------------------------------------------------------------------
(***************************************************************************)
(* Compiled modes.  A structure is compiled for given switches; modes that *)
(* differ in the ratio share it.  The caches drop what was used least      *)
(* recently.                                                               *)
(***************************************************************************)
NoCaches == [topologies |-> <<>>, structures |-> <<>>, bases |-> <<>>, keys |-> <<>>, made |-> 0]

\* A cache after the use of an entry: the entry is last, the oldest are gone.
Used(cache, entry) ==
    LET all == Append(SelectSeq(cache, LAMBDA e : e # entry), entry)
    IN  SubSeq(all, Max({1, Len(all) - Cache + 1}), Len(all))

Structure(B) ==
    LET T == Tree(B)
        path == Paths(B, T)
    IN  IF Degenerate(B, T, path) THEN None
        ELSE Classified(B, T, path, FixedPrimaries(B, T, path), DrivenPrimaries(B, T, path))

\* The caches with a structure for the present switches.
WithStructure(c, N) ==
    LET of == SelectSeq(c.structures, LAMBDA s : s.closed = closed)
    IN  IF of # <<>> THEN [c EXCEPT !.structures = Used(@, of[1])]
        ELSE [c EXCEPT !.bases = Append(@, [N |-> N, free |-> RatioFree(N), shared |-> None]),
                       !.structures = Used(@, [closed |-> closed, base |-> Len(c.bases) + 1])]

\* The caches after the present mode was asked for; its topology is last.
Topology(c) ==
    LET of == SelectSeq(c.topologies, LAMBDA t : t.closed = closed /\ t.ratio = ratio)
    IN  IF of # <<>> THEN [c EXCEPT !.topologies = Used(@, of[1])]
        ELSE LET d == WithStructure(c, Structure(Here))
             IN  [d EXCEPT !.topologies =
                     Used(@, [closed |-> closed, ratio |-> ratio, base |-> Last(d.structures).base,
                              projectors |-> None, key |-> None])]

Present(c) == Last(c.topologies)
Equational(c) == c.bases[Present(c).base]

Amended(c, t) == [c EXCEPT !.topologies = [@ EXCEPT ![Len(c.topologies)] = t]]

\* The projections of the present mode are formed on first use, and shared
\* with the other ratios when they do not depend on them.
WithProjectors(c) ==
    LET t == Present(c)
        base == Equational(c)
        own == IF t.projectors # None THEN t.projectors
               ELSE IF base.free /\ base.shared # None THEN base.shared
               ELSE Constraints(base.N, t.ratio)
    IN  [Amended(c, [t EXCEPT !.projectors = own]) EXCEPT
            !.bases[t.base].shared = IF base.free THEN own ELSE @]

\* Equal constraints have the same key as long as it is kept.
WithKey(c) ==
    LET t == Present(c)
        of == SelectSeq(c.keys, LAMBDA e : e.constraints = t.projectors)
        key == IF of = <<>> THEN c.made + 1 ELSE of[1].key
    IN  IF t.key # None THEN c
        ELSE [Amended(c, [t EXCEPT !.key = key]) EXCEPT
                 !.keys = Used(@, [constraints |-> t.projectors, key |-> key]),
                 !.made = Max({@, key})]

Keyed(c) == WithKey(WithProjectors(Topology(c)))

\* The states as the projections of the present mode leave them.
Projection(c) == Projected(Equational(c).N.B, Present(c).projectors, x, u)

----------------------------------------------------------------------------
(***************************************************************************)
(* The circuit.                                                            *)
(***************************************************************************)
Compilable ==
    (\A i \in DOMAIN compiled.structures : compiled.structures[i].closed # closed)
        => Structure(Here) # None

Fail ==
    /\ phase \in {"boundary", "settle"} /\ ~Compilable
    /\ phase' = "failed"
    /\ UNCHANGED <<net, closed, ratio, x, u, shown, compiled, consistent, constraints,
                   signature, commands, steps>>

\* CircuitUnit.commutate
Jump ==
    \E c \in {Keyed(compiled)} :
        /\ compiled' = c
        /\ x' = Projection(c)
        /\ consistent' = <<closed, ratio>> /\ constraints' = Present(c).key
        /\ signature' = closed
        /\ phase' = "settle"
        /\ UNCHANGED <<net, closed, ratio, u, shown, commands, steps>>

\* CircuitUnit.reconcile: a switch changed at the boundary.
Reconcile ==
    /\ phase = "boundary" /\ Compilable
    /\ \/ closed # signature /\ Jump
       \/ /\ closed = signature
          /\ phase' = "settle" /\ compiled' = Topology(compiled)
          /\ UNCHANGED <<net, closed, ratio, x, u, shown, consistent, constraints,
                         signature, commands, steps>>

\* CircuitUnit.commutation_margin
Settle ==
    /\ phase = "settle" /\ Compilable
    /\ \E known \in {consistent = <<closed, ratio>>} :
       \E c \in {IF known THEN Topology(compiled) ELSE Keyed(compiled)} :
       \E fits \in {known \/ Present(c).key = constraints \/ Projection(c) = x} :
           /\ compiled' = c
           /\ phase' = IF fits THEN "smooth" ELSE "commutate"
           /\ consistent' = IF fits THEN <<closed, ratio>> ELSE consistent
           /\ constraints' = IF fits /\ ~known THEN Present(c).key ELSE constraints
    /\ UNCHANGED <<net, closed, ratio, x, u, shown, signature, commands, steps>>

Commutate == phase = "commutate" /\ Jump

\* Netlist.outputs: a capacitor's branch voltage, else the branch current.
Shown(B, found, k) ==
    LET Potential(v) == IF v = 0 THEN 0 ELSE found[<<"e", v>>][RHS]
    IN  IF B[k].role = "cap" THEN (Potential(B[k].a) - Potential(B[k].b)) % Prime
        ELSE found[<<"i", k>>][RHS]

\* One step along the derivatives of the present mode.
Advance ==
    /\ phase = "smooth" /\ steps < MaxSteps
    /\ steps' = steps + 1
    /\ \E c \in {Topology(compiled)} :
       LET N == Equational(c).N
           du == [k \in DOMAIN u |-> Supplied[N.B[k].kind][2]]
       IN  \E solution \in {Solved(N, ratio, x, u, du)} :
           /\ compiled' = c
           /\ IF Unique(solution, Unknowns(N))
              THEN /\ x' = [k \in DOMAIN x |->
                               (x[k] + solution.found[<<"d", k>>][RHS]) % Prime]
                   /\ u' = [k \in DOMAIN u |-> (u[k] + du[k]) % Prime]
                   /\ shown' = [k \in DOMAIN x |-> Shown(N.B, solution.found, k)]
                   /\ UNCHANGED phase
              ELSE phase' = "singular" /\ UNCHANGED <<x, u, shown>>
    /\ UNCHANGED <<net, closed, ratio, consistent, constraints, signature, commands>>

\* A boundary gives switches or the transformer another command.
Command ==
    /\ phase = "smooth" /\ commands < MaxCommands
    /\ \/ closed' \in (SUBSET Switches) \ {closed} /\ UNCHANGED ratio
       \/ Transforms /\ ratio' \in Ratios \ {ratio} /\ UNCHANGED closed
    /\ phase' = "boundary" /\ commands' = commands + 1 /\ steps' = 0 /\ shown' = None
    /\ UNCHANGED <<net, x, u, compiled, consistent, constraints, signature>>

Init ==
    /\ net \in Circuits
    /\ closed \in SUBSET Switches
    /\ ratio \in IF Transforms THEN Ratios ELSE {Min(Ratios)}
    /\ LET B == Branches(net)
       IN  /\ x = [k \in {k \in DOMAIN B : B[k].kind \in {"cap", "ind", "state"}} |-> Given[k]]
           /\ u = [k \in {k \in DOMAIN B : B[k].kind \in {"vsrc", "isrc", "state"}} |->
                      Supplied[B[k].kind][1]]
    /\ shown = None /\ phase = "settle" /\ compiled = NoCaches
    /\ consistent = None /\ constraints = None /\ signature = closed
    /\ commands = 0 /\ steps = 0

Next == Fail \/ Reconcile \/ Settle \/ Commutate \/ Advance \/ Command

Spec == Init /\ [][Next]_circuitVars

----------------------------------------------------------------------------
(***************************************************************************)
(* A circuit runs only in states that fit it: there are potentials and     *)
(* currents with every capacitor at its voltage and every inductor at its  *)
(* current, after any sequence of modes, with projections and keys that    *)
(* were kept from others and after steps with moving sources               *)
(* (Netlist.project, CircuitUnit.commutation_margin).                      *)
(***************************************************************************)
StatesFit == phase = "smooth" => Fits(Here, ratio, x, u)

(***************************************************************************)
(* A change of the mode moves the states by an impulse the circuit can     *)
(* carry: charges and flux linkages are conserved (Netlist.project).       *)
(***************************************************************************)
Moved == [k \in DOMAIN x |-> x'[k] - x[k]]

JumpsConserve ==
    [][x' # x /\ phase # "smooth" =>
           CarriesCharge(Here, ratio, Moved) /\ CarriesFlux(Here, ratio, Moved)]_circuitVars

(***************************************************************************)
(* The classification of the states gives every compiled mode equations    *)
(* with one solution, in which every branch that crosses a cutset has a    *)
(* current derivative and every state, independent or not, is the voltage  *)
(* or current that the circuit shows (Topology.__init__, Netlist.outputs). *)
(***************************************************************************)
Crosses(N, k) ==
    \/ N.B[k].role \in {"ind", "isrc", "state"}
    \/ N.B[k].role \in {"p", "s"} /\ {k, Partner(N.B, k)} \cap N.cd # {}

ModesAreSolvable ==
    [][steps' > steps =>
           /\ phase' = "smooth" /\ shown' = x
           /\ LET N == Equational(compiled').N
              IN  \A k \in Crossing(N) : Crosses(N, k)]_circuitVars

=============================================================================
