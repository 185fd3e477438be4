---------------------------- MODULE ControlGraph ----------------------------
(***************************************************************************)
(* The loop network of a sampled controller (control/controller.py,        *)
(* ControlGraph with its host): loops of several rates that hold their     *)
(* outputs between updates, parameter changes that wait for the next       *)
(* control interrupt, what a run that continues from a row makes of both,  *)
(* and which held values the closed-loop map may leave out.                *)
(*                                                                         *)
(* A value is represented by when and from what it was computed.  Loops    *)
(* are numbered as in the parameter file.                                  *)
(***************************************************************************)
EXTENDS Integers, DependencyPlan

CONSTANTS
    Designs,  \* loop networks
    Tunings,  \* values of the parameters of one loop, or of the references
    MaxSets,  \* bound on the parameter changes of a run
    LastInterrupt, \* bound on the control interrupts
    Periods   \* lengths of a map, in interrupts

\* The networks that are accepted: strides are whole numbers of interrupts,
\* and no loops wait for each other (ControlGraph.__init__).
Accepted(d) ==
    LET n == Len(d.sources)
    IN  /\ d.sources \in Seq(SUBSET (1 .. n))
        /\ d.every \in [1 .. n -> Nat \ {0}]
        /\ \A r \in d.reads : r.loop \in 1 .. n /\ r.stride \in Nat
        /\ Residual(d.sources) = {}

ASSUME DesignAssumption ==
    /\ \A d \in Designs : Accepted(d)
    /\ Tunings # {} /\ Periods \subseteq Nat

VARIABLES
    design,    \* the loops: their sources, strides, the host's reads, the limited loop
    interrupt, \* the latest interrupt; interrupts are counted on the control clock
    graph,     \* the graph: pending, cfg, references, nodes, runners and held values
    latest,    \* the unit parameters in effect after the latest set event
    sets,      \* number of set events
    map,       \* the closed-loop map being taken
    began,     \* history: the first interrupt of the run
    inforce    \* history: the unit parameters at the latest interrupt

controlVars == <<design, interrupt, graph, latest, sets, map, began, inforce>>

Loops == DOMAIN design.sources
Sources(n) == design.sources[n]
Every(n) == design.every[n]
NoMap == [from |-> 0, length |-> 0, dead |-> {}]

----------------------------------------------------------------------------
\* The order of the loops

\* Mutant: the order of the parameter file.
FileOrder == Sorted(Loops)

\* _dependency_plan of an acyclic network: a loop follows its sources.
Order == TopologicalOrder(design.sources)

\* due: the loops that run at the interrupt i.
DueAt(i) == {n \in Loops : i % Every(n) = 0}

----------------------------------------------------------------------------
\* Parameter changes

\* Mutant: what is set does not reach the function that runs the loop.
RunnerKept(g, cfg, n) == g.runners[n]

\* _retune and _configure_limit: the function that runs a rebuilt loop is
\* that of the new loop, wrapped again in the limit of the old one.
Runner(g, cfg, n) == [tuning |-> cfg.loops[n], limited |-> n = design.limited]

\* One queued configuration: the references first, then the changed loops,
\* each continuing from the states of the one it replaces.
Apply(g, cfg) ==
    LET changed == {n \in Loops : cfg.loops[n] # g.cfg.loops[n]}
    IN  [g EXCEPT !.cfg = cfg, !.references = cfg.references,
                  !.runners = [n \in Loops |->
                      IF n \in changed THEN Runner(g, cfg, n) ELSE @[n]]]

\* _apply_pending: the queue in its order.
ApplyPending(g) ==
    LET applied[i \in 0 .. Len(g.pending)] ==
            IF i = 0 THEN g ELSE Apply(applied[i - 1], g.pending[i])
    IN  [applied[Len(g.pending)] EXCEPT !.pending = <<>>]

----------------------------------------------------------------------------
\* One interrupt

\* A loop takes what its sources hold now.
Updated(g, n, i) ==
    [g EXCEPT
        !.memory[n] = @ + 1,
        !.values[n] = [at |-> i, tuning |-> g.runners[n].tuning,
                       limited |-> g.runners[n].limited, references |-> g.references,
                       seen |-> [s \in Sources(n) |-> g.values[s].at]]]

\* sample: pending changes, then the due loops in signal order.
SampledAt(g, i) ==
    LET order == Order
        run[n \in 0 .. Len(order)] ==
            IF n = 0 THEN ApplyPending(g)
            ELSE IF order[n] \in DueAt(i) THEN Updated(run[n - 1], order[n], i)
            ELSE run[n - 1]
    IN  run[Len(order)]

----------------------------------------------------------------------------
\* The closed-loop map

\* A reader finds the value of this interrupt where it runs at multiples of
\* its source; a host without a stride may read before an update.
ReadAfterUpdate(stride, source) == stride > 0 /\ stride % Every(source) = 0

\* Mutant: only the host reads a value before it is computed again.
RetainedByHost == {r.loop : r \in {h \in design.reads : h.stride = 0}}

\* Values that may be read before they are computed again.
Retained ==
    {s \in Loops : \/ \E n \in Loops : s \in Sources(n) /\ ~ReadAfterUpdate(Every(n), s)
                   \/ \E r \in design.reads : r.loop = s /\ ~ReadAfterUpdate(r.stride, s)}

\* overwritten_state_names: held values a map of this length need not start
\* from.  None are named while changes are pending.
Overwritten(length) ==
    IF graph.pending # <<>> THEN {}
    ELSE {n \in Loops : length >= Every(n)} \ Retained

----------------------------------------------------------------------------
\* The actions

\* The graph as built from a configuration.
Built(cfg) ==
    [pending |-> <<>>, cfg |-> cfg, references |-> cfg.references,
     runners |-> [n \in Loops |-> [tuning |-> cfg.loops[n], limited |-> n = design.limited]],
     memory |-> [n \in Loops |-> 0],
     values |-> [n \in Loops |-> [at |-> -1]]]

\* The parameters of the file.
InFile == CHOOSE t \in Tunings : TRUE
File == [references |-> InFile, loops |-> [n \in Loops |-> InFile]]

ControlInit ==
    /\ design \in Designs
    /\ began \in {0, 1} /\ interrupt = began - 1
    /\ latest = File /\ inforce = File
    /\ graph = Built(File)
    /\ sets = 0 /\ map = NoMap

\* A set event changes parameters of the unit (schedule).  Every
\* event carries all parameters as they are after it.
Set ==
    /\ sets < MaxSets
    /\ \E tuning \in Tunings :
          \/ latest' = [latest EXCEPT !.references = tuning]
          \/ \E n \in Loops : latest' = [latest EXCEPT !.loops[n] = tuning]
    /\ graph' = [graph EXCEPT !.pending = Append(@, latest')]
    /\ sets' = sets + 1
    /\ UNCHANGED <<design, interrupt, map, began, inforce>>

Sample ==
    /\ interrupt < LastInterrupt /\ interrupt' = interrupt + 1
    /\ graph' = SampledAt(graph, interrupt')
    /\ inforce' = latest
    /\ UNCHANGED <<design, latest, sets, map, began>>

\* The host takes a map over some interrupts from here.
TakeMap ==
    /\ map = NoMap
    /\ \E length \in Periods :
          map' = [from |-> interrupt + 1, length |-> length, dead |-> Overwritten(length)]
    /\ UNCHANGED <<design, interrupt, graph, latest, sets, began, inforce>>

\* Mutant: the graph continues with the parameters of the file.
ReplayNothing == Built(File)

\* A run that continues builds the graph from the file and applies the set
\* events up to now before it loads states.
Replay == ApplyPending([Built(File) EXCEPT !.pending = <<latest>>])

\* The loops' states and held values are those of the row.
Continue ==
    /\ graph' = [Replay EXCEPT !.memory = graph.memory, !.values = graph.values]
    /\ map' = NoMap
    /\ UNCHANGED <<design, interrupt, latest, sets, began, inforce>>

ControlNext == Set \/ Sample \/ TakeMap \/ Continue

ControlSpec == ControlInit /\ [][ControlNext]_controlVars

----------------------------------------------------------------------------
\* Properties

\* The last interrupt up to i at which a loop ran.
LastRun(n, i) ==
    LET last == i - (i % Every(n)) IN IF last >= began THEN last ELSE -1

\* Whatever the rates, a loop that runs at an interrupt uses what each of its
\* sources computed when it last was due, this very interrupt included: no
\* connection adds a sample of delay (ControlGraph.sample).
InputsAreNewest ==
    \A n \in DueAt(interrupt) : interrupt >= began =>
        /\ graph.values[n].at = interrupt
        /\ \A s \in Sources(n) : graph.values[n].seen[s] = LastRun(s, interrupt)

\* All loops of one interrupt run with the parameters and references in
\* effect at it, also where several changes came since the interrupt before,
\* and a rebuilt loop stays limited (schedule, _apply_pending, _retune).
ChangesActTogether ==
    \A n \in DueAt(interrupt) : interrupt >= began =>
        /\ graph.values[n].tuning = inforce.loops[n]
        /\ graph.values[n].references = inforce.references
        /\ graph.values[n].limited = (n = design.limited)

(***************************************************************************)
(* A loop that runs computes with what belongs to its interrupt: sources,  *)
(* parameters, references and limits (ControlGraph.sample, schedule).      *)
(***************************************************************************)
LoopsRunOnPresent == InputsAreNewest /\ ChangesActTogether

\* A held value that the closed-loop map leaves out of its state is computed
\* within the map, and nobody reads it before (overwritten_state_names).
OverwrittenAreDead ==
    map # NoMap =>
        /\ \A n \in Loops : graph.values[n].at >= map.from =>
              \A s \in Sources(n) \cap map.dead : graph.values[n].seen[s] >= map.from
        /\ \A r \in design.reads :
              interrupt >= map.from /\ r.stride > 0 /\ interrupt % r.stride = 0 /\ r.loop \in map.dead
                  => graph.values[r.loop].at >= map.from
        /\ interrupt + 1 >= map.from + map.length =>
              \A n \in map.dead : graph.values[n].at >= map.from

\* A run that continues from a row has the loops of the run that wrote it, as
\* its next interrupt would find them (initialize, set_state).
ContinuesControl == [][Continue => graph' = ApplyPending(graph)]_controlVars

----------------------------------------------------------------------------
\* What the run checks: two networks of three loops, a chain and a chain with a
\* shortcut, both against the order of the file, with every combination of
\* strides up to three and one value that the host reads.
Networks == {<<{2}, {3}, {}>>, <<{2, 3}, {}, {2}>>}

TheDesigns ==
    {[sources |-> network, every |-> every, reads |-> {[loop |-> 1, stride |-> stride]},
      limited |-> 1] :
        network \in Networks, every \in [1..3 -> 1..3], stride \in 0..2}

=============================================================================
