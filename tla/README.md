# A verification project for PESLite

PESLite simulates power-electronic converters. Its numerical core integrates differential
equations, which no model checker can follow. Around that core runs a discrete event system: PWM
timers with double-buffered registers, converter units that are connected, ramped up, tripped and
restarted, and an event loop that visits every clocked part of the plant in a fixed order of
phases. Between the events, graph algorithms decide in which order equations are evaluated,
which diodes conduct, and which cached matrix belongs to the present plant. A mistake there does not
crash: it shifts a control word by one period, reads outputs of a plant that has changed since, or
makes a restarted run differ from the one that was stopped. The C++ export writes a second program
that has to do all of this again. This project models that discrete system in TLA+, checks it with TLC
and proves its central properties with TLAPS.

Paths below are relative to `src/src/peslite/` unless they start with `docs/` (`src/docs/`).

## 1. The system

### Inventory

| component | state | operations | interacts with |
|---|---|---|---|
| periodic clocks (`solver/timing.py`) | period, offset | `at`, `index_after`, `index_at_or_after`, `start_index`, `due` | every timer and the event loop |
| PWM timer (`components/pwm.py`, sampled bridge of `components/converter.py`) | active, shadow and pending words, timer indices, edges to come | `start`, `write`, `load`, `switches`, `get_state`, `set_state`, `actuate` | written by the unit after each control computation; its edges drive the plant |
| converter unit (`assembly/unit.py`) | breaker, gates, pending trip, pending tracking, pending word | `start`, `states_loaded`, `begin`, `connect`, `trip`, `protect`, `sense`, `actuate`, `retune` | called by the event loop and by file events; commands controller, DC link, bridge and branch |
| protection (`assembly/protection.py`) | trip and fault latches, hold timers, ROCOF window | `check_fast`, `check_sampled`, `latch`, `restore_latches` | called by the unit in two phases of an instant |
| start-up (`control/controller.py`) | run, ramp, step count or start time | `command`, `advance` or `at`, `set_state` | commanded by the unit, read by the protection criteria |
| controller graph (`control/`) | loop states, held outputs, queued changes, strides | `schedule`, `_apply_pending`, `sample`, `track`, `overwritten_state_names` | called by the unit when it senses |
| ADC (`components/adc.py`) | window integrals, held conversions, RMS windows, position in the period | `start`, `seed`, `accumulate_to`, `open`, `sample`, `peek`, `convert` | reads plant outputs; its windows must not span a jump |
| shared plant (`Plant` in `assembly/unit.py`) | state vector, cached outputs, change flags | `outputs`, `hold`, `change`, `read_state` | shared by all owners and the loop |
| event loop (`solver/simulation.py`, `Simulation.run`) | time, file events, row index, observation times, stop reason | select an instant, advance, apply events, protect, sense, actuate, snapshot | calls everything |
| events and scenario (`assembly/events.py`, `assembly/system.py`) | time-ordered connection commands | `Scenario.at`, `System.apply`, `switch` | restart asks for the command in force |
| model kernel (`solver/model.py`) | evaluation plan and its shorter plans, plan revision, outputs and inputs, cached answers | `_build_evaluation_plan`, `rebuild_evaluation_plan`, `sync`, `rhs`, `rhs_group`, `sync_zoh`, `has_external_state_dependency` | called by every solver and by the loop; its analysis of graphs is shared by controllers and exporters |
| multirate solver (`solver/multirate.py`) | window anchor, slope, input sums, end of the window | `advance`, `settle`, `get_state`, `set_state` | settled by the loop before a change; saved in every row |
| natural conduction (`assembly/conduction.py`, `solver/netlist.py`) | diode pattern, kept residuals, guard times | `advance`, `_settle`, `commutate`, the locator | wraps the integration; called at every change of the plant |
| implicit solvers (`solver/implicit.py`) | Jacobian, its blocks and versions, factorizations | `ensure`, `update`, `factor`, `lookup`, `parameters_changed` | inside the integration; told of commutations and set events |
| netlist and circuit (`solver/netlist.py`, `assembly/circuit.py`) | compiled modes, their projections and keys; the mode the states fit | `_compiled`, `projectors`, `constraint_key`, `project`, `reconcile`, `commutation_margin`, `commutate` | evaluated by every solver; switched by the units |
| fixed-step solver (`solver/integrators.py`) | verdicts, eigenvalues and decompositions of known modes | `advance`, `advance_guarded`, `parameters_changed` | asks circuits for the matrix of their mode; falls back to an implicit solver |
| adaptive solvers, energy, components | real vectors and matrices | integrate, evaluate, audit | inside the integration |
| named state and recorder (`solver/simulation.py`) | CSV tables | `snapshot`, `finish`, load states | rows are what a later run continues from |
| C++ export (`assembly/cpp.py`) | none; the program it writes has the state of a run | generate; in the program `run`, `sync`, `reconcile_circuits`, and `sense`, `actuate`, `protect`, `command` of each unit | replaces the event loop and all owners by text specialized for one system |
| frontend service (`frontend/service.py`) | loaded case, latest run, signals, modes, layout; a snapshot file per case | `load_model`, `restore`, `run`, `run_small_signal`, `save`, `reset` | an editor extension and the user write the same files |
| Imperix export, command line, add-ons | files and text | generate | outside the run |

### Which behaviours are hard

* *Coincidence.* Interrupts, register loads, switching edges, file events, rows and observations
  fall on the same instant. The order within the instant is part of the semantics.
* *Two-phase actions.* A sampled trip is latched when a unit senses and applied when it actuates;
  a word is computed at one instant and takes effect at another.
* *Restart from any row.* Timer indices, edges and commands are reconstructed from the saved
  time and a few named states. What is not saved must not matter.
* *Cached data.* Plant outputs are cached per time; averaging windows keep the last reading; the
  active PWM word outlives a disconnection; the exported program reads stores that only some of its calls renew.
* *Early ends.* Trips, limits, divergence and failed snapshots end or disturb a run between any
  two steps, and the last row may be used to continue.
* *Deferred and located work.* The multirate solver finishes integrals later than the time they belong to; the
  conduction solver looks for the instant at which a mode stopped being valid; both meet changes of the
  plant and saved rows half way.
* *Keys of caches.* A factorization is found again by version numbers, a Jacobian by mode, a group's plan by revision,
  and what they were made from changes under events, commutations and ratios.
* *States that stop being free.* A switch closes a loop of capacitors or cuts inductors off. Which states follow from
  others, and how they jump, is decided per mode, and compiled modes are kept, shared and dropped.
* *Partial evaluation.* Derivatives, held inputs and groups of subsystems are evaluated by parts of one plan. A
  part that is too small leaves signals of an earlier state where they are read.
* *One meaning, two programs.* The simulation and the exported program share no code at run time.
* *A service beside other writers.* The frontend service keeps a run, its results and a file that an
  extension and a user write too, and any request may fail half way.

A run has one thread. What is open is the phase of the clocks, the order in which units are
assembled, the timeline of events, the faults that the plant produces and the row at which a run is
stopped and continued.

## 2. Modules

| module | what it is |
|---|---|
| `PeriodicClock` | the event grids of `solver/timing.py` |
| `PwmRegisters` | timer and registers of one sampled bridge, and continuation from a saved row |
| `SwitchingPattern` | what a load lays out: carrier comparison, phase shift, complete pulses, dead time |
| `PwmDelay` | abstract specification: words pass through a delay line |
| `UnitLifecycle` | connection, protection, gates and restart of one unit of any kind |
| `InstantService` | abstract specification: what an instant owes to clocks, file events and rows |
| `EventLoop` | `Simulation.run` with the shared plant, units, black boxes, windows, rows, observers |
| `GeneratedProgram` | the exported C++ program: its run loop, units, stores, circuit modes and windows |
| `StartUp` | start-up ramps, and the command in force on a timeline |
| `Protection` | fast and sampled protection criteria with hold timers and latch |
| `Supervision` | composes `StartUp` and `Protection` over runs, restarts and a timeline |
| `AdcSampler` | windows, conversions and mean squares of one ADC, fresh and continued |
| `DependencyPlan` | topological order, cycles and strong components of a dependency graph |
| `EvaluationPlan` | plans of a model, their parts and renewal, and what an evaluation leaves behind |
| `ControlGraph` | a sampled loop network: rates, held outputs, queued changes, restart, what a map may leave out |
| `MultirateWindows` | windows of the multirate solver through changes, bounds and saved rows |
| `DiodeCircuit` | diode patterns of a circuit, their margins, and the recovery of singular patterns |
| `Conduction` | extends it by the dispatcher, the locator and the scheduled commutations around the solver |
| `NormalTree` | the tree of a circuit in one mode, and the states its loops and cutsets make dependent |
| `CircuitEquations` | the equations and projections of one mode |
| `CircuitLaws` | reference: what a circuit is, without trees or dependent states |
| `CircuitModes` | a switched circuit during a run: compiled modes, boundaries, projections, steps |
| `SolverPlant` | the plant as solvers see it: modes, ratios, parameters, state matrices, and caches of what belongs to them |
| `LinearSystem` | Jacobians, their blocks and the cached factorizations of the implicit solvers |
| `FixedStep` | the choice between explicit and implicit steps, and what it remembers |
| `GeneratedSolver` | the same choice and the implicit solver of the exported program |
| `StepSolvers` | composes the three and `MultirateWindows` over one plant |
| `FrontendService` | requests of the frontend, its results and its snapshot files |
| `MC...` | instances for TLC; `UnitLifecycle` and `ControlGraph` bring their own |
| `SharedTheorems` | lemmas that several proofs need: integer division and clocks, courses of a recursive function, sorted sets, the search for components |
| `TimerAdcProofs`, `UnitProofs`, `EventLoopProofs`, `PlanProofs`, `ConductionProofs`, `GeneratedProgramProofs`, `FrontendServiceProofs` | theorems and proofs |

`PwmRegisters`, `InstantService`, `EventLoop`, `GeneratedProgram`, `AdcSampler` and `StartUp` extend `PeriodicClock`;
`ControlGraph` and `EvaluationPlan` extend `DependencyPlan`; `Supervision` extends `StartUp` and `Protection`;
`Conduction` extends `DiodeCircuit`; `LinearSystem`, `FixedStep` and `GeneratedSolver` extend `SolverPlant`, which extends
`DependencyPlan`, and `StepSolvers` extends them and `MultirateWindows`. `CircuitModes` extends `CircuitEquations`, which
extends `CircuitLaws` and so `NormalTree`. `PwmRegisters` also extends `SwitchingPattern` and instances `PwmDelay`, `EventLoop` instances `InstantService`, and
`GeneratedProgram` instances `InstantService`, `UnitLifecycle` and `PwmDelay`: the same specifications that describe the
simulation are what the exported program has to implement.

`UnitLifecycle` keeps of the registers only what it depends on: the enable bit of each word and
whether the latest computation has completed. `EventLoop` keeps of a unit its clock, whether it is
open or tripped, and when its output last jumped.

### Time and data

Time is counted in integer ticks, in all modules. `TIME_EPS`, which absorbs rounding around an
instant, becomes equality. Properties about floating-point drift are therefore out of scope. Plant
quantities, duty ratios and control laws are replaced by the identity of the word, reading or
jump that the properties tell apart.

### `PwmRegisters`

The three registers of `PWM` hold word numbers: `active` drives the bridge, `shadow` is the word
the next load takes, the completed word is the one a computation in progress will replace. `Interrupt`
is `_SampledModel.actuate` at a control interrupt (`PWM.write`), `LoadRegisters` the register load,
`LoadThenWrite` and `WriteThenLoad` their coincidence: with a computation time the load comes first,
without one the new word is loaded at once. `SwitchingEdge` is `PWM.switches`, which applies every edge
due. `Continue` replaces the running timer by one restarted from the saved words at the
present time, under `Continuable`, the check of `validate.py` (`_initial`). The carrier is
abstracted to its phase relative to the nominal rotation.

### `SwitchingPattern`

The operators a load uses to lay out its interval, over ticks instead of real instants; a sequence of durations and words
becomes a function of the tick. `Raw` is the waveform of the modulator, a carrier comparison or a phase-shift pattern of
one of four modes, one period longer than the interval as `PulseSequence` asks for it. `WholePulses` is `PulseSequence`:
it finishes the pulse it inherits, begins with the first pulse of the new waveform after that, and leaves the pulse it is in
to the next interval (`HandOver`). `LegCourse` is `_DeadTimeSequence` for one leg: a change of the command
clamps the leg by the direction of the pole current and starts a dead time, which may end in a later interval. In `PwmRegisters`,
`memory` is what an interval began with and what `get_state` saves, current signs included, and `laid` the interval with what it leaves
to the next one; a load turns the one into the other and chooses a current direction, a continued run lays the interval out
again from `memory`. The history `owed` keeps the same in absolute time, for the property.

### `UnitLifecycle`

One action per call the event loop makes: `Instant` chooses what is due, `Event` applies a
connection command, `Protect`, `Sense` and `Actuate` are the phases, and between instants `Continue`
saves the named state and builds the unit again from it (`Unit.start`, `set_state`, `states_loaded`,
`begin`). The kinds of unit are the combinations of filtered or not, sampled or continuous, with or
without computation time.

### `EventLoop`

An iteration is `Advance` (selection of the next instant and integration to it), `CloseWindows`,
one `ApplyEvent` for each file event due, one `Protect` per unit, one `Sense` and one `Actuate` per owner, `WindowEdge`, and `Log` or
`Observe`. A phase ends when every owner has had its turn; the order of turns is left open in every
phase, which covers every order of assembly. `Limit` and `Diverge` end the run at the head of the
loop, trips end it in the middle of an instant, and `Finish` is the final snapshot.

The plant is a record of causes: events applied, units open, units tripped, and the last time each owner
changed its own output. `Outputs` is the cache of `Plant.outputs` with its two flags, `Change`
is `Plant.change` including `settle_now`, `Hold` is `Plant.hold`. Each windowed unit remembers the
plant its last reading was taken from and the time up to which it has integrated. Which
faults occur, whether a bridge switches its gates when it drives, and which later time an observer
asks for are nondeterministic. The observer is modelled as given explicit times, so rows are
observed only when something else is noticed at them. A black box commits its state through
`Plant.change`.

### `InstantService`

What a run owes, without phases or owners: time passes only up to what is due next (`Pass`), file events are applied in
their order before any clock of the instant is served (`Apply`), clocks are served when they are due (`Serve`), and the
row comes last (`Row`). A run may end anywhere.

### `StartUp`, `Protection`, `Supervision`

`StartUp` and `Protection` hold operators, one per method. A sampled ramp counts interrupts, a
continuous one measures time; one record holds both, and the ramp's value is kept as the fraction that
goes into `smoothstep`. `CommandAt` is `Scenario.at`, over the connections up to a time (`CommandAfter`). `CheckSampled` goes through the criteria
in the order of the code and stops at the first that expires. Which criteria a sample meets, and whether the
peak current exceeds its limit, are inputs.

`Supervision` runs one unit, sampled or continuous, through integer time. An instant is `ApplyEvent`
(`Unit.connect` or `Unit.retune`) for every event of this time in turn until none is due (`EventsApplied`), `ProtectUnit`, and `Interrupt` or `Pass`
(`Unit.sense`; the trip that `actuate` applies is taken with it, which nothing in between can
observe). After any instant a run may begin again: `ContinueRow` from the whole row, `Rerun` from
states of the plant alone (fresh) or with some controller states (continued). The latter two recount
the ramp from the timeline and keep the settings, which the file of that run then has to state. The history variables
record for how many samples in a row criteria were met in service, and whether the run repeats an interrupt its start has counted.

### `AdcSampler`

One ADC with the calls its unit makes: `Pass` and `Arrive` are the loop's integration to an instant that is not,
or is, one of the unit's; `Sense` and `Actuate` are the unit's turns; `ContinueRun` is a restart from the row of
this time. A design says who owns the clock (the controller, the ADC itself, or only the sliding mean squares), how many
conversions a period has, and how long the window is. The reading of the one channel is a small
integer that may jump whenever the plant does. The window integral is the trapezoid of the code over the
instants of the unit. `trace` and `squares` are histories from which the properties compute the integral again: `trace` has, for every instant of
the last period, the instant before it, what the channel read on leaving that one, on arrival, and after the jumps of file events.

### `DependencyPlan` and `EvaluationPlan`

`DependencyPlan` holds the algorithms on a graph of numbered nodes, with the tie-breaking of the code: Kahn's queue, the
residual, Tarjan's search with explicit frames on the residual only, and the condensation. `ControlGraph` orders loops
with it, `EvaluationPlan` operations. Their recursive functions are indexed by the number of turns, so that proofs can speak of them.

`Models` is the set of models considered: subsystems with the stages they declare before and after each renewal, which of them have
states, held inputs or belong to the windowed group, and the connections (`IsModel`). `Declaration` is what the code accepts: stages that wait for
each other without a connection between them raise an error.

In `EvaluationPlan` a node is a stage of a subsystem or the copy of an input. `Connect` to `Cut` are the steps of
`_build_evaluation_plan`; `Rebuild` starts it again with the stages of another circuit mode. `Sync`, `Rhs`, `RhsGroup` and `SyncZoh`
are the calls, each a program of operations that `Run` takes one by one and `NoConvergence` may end; `SetZohInput` changes a held input
and `Ask` is `has_external_state_dependency` with its cache. Signals have no values: `present` is the set of operations whose
last result is what they would write now. A loop is present after its solution provided one sweep evaluates every node
after those it depends on, except for the torn copies.

### `ControlGraph`

Loops are numbered as in the parameter file. Their order is `TopologicalOrder`, `DueAt` the strides,
`Set` queues a configuration, and `Sample` applies the queue in its order and then runs the due loops. A held value is the
record of when, with which parameters, and from which values of its sources it was computed, so that one more
sample of delay is visible. `TakeMap` asks which held values a closed-loop map may leave out of its state.
A network with feedback among its loops is rejected (`Accepted`): the code raises an error where the residual of the order is not empty.

### `MultirateWindows`

`Call` is `MultirateSolver.advance` up to its loop, `Pass` one turn of the loop, `PlantChange` is
`Plant.change` with `settle`, `Bound` the clipping of states after a call, `SaveRow` and `Restart` are
`get_state` and `set_state`. The windowed state is an integer whose rate is its input. `exact` is
the integral it stands for, kept beside the code's bookkeeping, and `dropped` what the code gives up of it. Bounds, given
values, changes and rows may meet a window anywhere, also several of them at one instant, before a call takes a value up
(`Overlooked`).

### `DiodeCircuit` and `Conduction`

A circuit of ideal diodes is a table: for each pattern and diode how the margin develops (it holds, turns negative
or to round-off at some time, is wrong, or the jump into the pattern drives the diode in reverse), with a second table
while a switch is closed, with loops of diodes that the closed switch shorts and cutsets that the open one leaves. `Resolve` is
the recovery from either. `Conduction` has one step per turn of each loop of the code: `SettleRound`, the
commutation of each pending owner or its `Skip`, `SearchFlip` or `SearchAccept` for each pattern tried,
`PassSmoothly` or `PassCrosses`, and `Locate` per trial. Secant trials may fall anywhere inside
the bracket; how the margin at the lower end selects the method is left open. Every bound of the code is a
constant with its own failing action. The switch changes at scheduled instants and at a boundary of the run; one branch has
a diode that blocks reverse current.

### `NormalTree`, `CircuitLaws`, `CircuitEquations` and `CircuitModes`

A netlist is a sequence of elements with their ports, and `Branches` numbers the ports as `Netlist.add` does. `Tree` is the union
by priority, `FixedPrimaries` and `DrivenPrimaries` the two fixpoints of `Topology.__init__` (the largest sets that support
themselves), `DependentCapacitors` and `DependentInductors` the verdict. `Equations` and `Unknowns` are the rows and columns of
the derivative network with their names instead of offsets, `NetworkCoefficient` and `NetworkRight` its entries, `Constraints`
and `Onto` the projections. Numbers are residues modulo a prime: equations are solved exactly, by an elimination that stands for
the factorizations, and a sum that is zero by accident is as unlikely as the prime is large.

`CircuitModes` has the caches of `_compiled`, `projectors` and `constraint_key` as sequences in the order of use. A boundary is
`Command`, `Reconcile` and as many turns of `Settle` and `Commutate` as the margin asks for; `Advance` is one evaluation and an explicit
step of unit size, which moves sources along their rates so that the dependent states have to follow. `shown` is what the
evaluation gives for the voltages of capacitors and the currents of inductors. Branches have dimension and scale one, sources
move with their rates only, all transformers of a circuit have one ratio, and there are no diodes (`Conduction` has them).

`CircuitLaws` says what the circuit is, of potentials and currents alone: `Fits` asks for any that obey every branch with the states
given, `CarriesCharge` and `CarriesFlux` for an impulse that obeys Kirchhoff's laws and moves the states by this much.

### `SolverPlant`, `FixedStep`, `LinearSystem`, `GeneratedSolver` and `StepSolvers`

A state matrix is a function of rows and columns, given for each circuit, switch state, ratio and set of parameters. Its
eigenvalues are those of its irreducible diagonal blocks; the blocks stand for them, and `Sound` compares those of the present
matrices with the region of a step size. `FixedStep` is `_stiff` with its four caches: verdicts by the identities of all modes,
eigenvalues by the identity of one, decompositions by the pattern of the matrix from its second use on, found by the analysis of
`DependencyPlan`, and eigenvalues of a block by its values. Identities leave out ratios that cannot change the matrix; that
`input_reach` finds these is the assumption `SolverPlantAssumption`. `GeneratedSolver` is the C++ text: its identity holds every
ratio and the epoch that a file event begins, blocks of one row are remembered too, and the iteration for eigenvalues may
not end (`Deflates`). Its implicit solver finds a factorization by the step size alone, since whatever changes the Jacobian
drops them all.

`StepSolvers` gives a run one of five solvers, the multirate one with the windows of `MultirateWindows`. Steps a fixed-step solver leaves to an implicit one are those of `LinearSystem`, or
of the implicit solver of the program, begun at any instant: both are told of the same changes.

In `LinearSystem` a matrix is the record of what it was formed from. Two blocks of columns, one with the exact part from the
netlist; `Stored`, `LookedUp`, `Refreshed` and `Touched` are the methods that give blocks versions. `Ensure`,
`Factor`, `Converges` and `Update` are a step of the Newton solver, `ModeJacobian` serves a stepper of SciPy,
`Commutate` and `ParametersChange` come from the plant. `Skips` says whether exact columns are left out of
the differencing.

### `GeneratedProgram`

One step per turn of the program's loop: `Boundary` integrates to the next instant of its grid, synchronizes the stores
and closes windows; `ApplyAction` is one file event; `Protect`, `Sense` and `Actuate` are the turns of
units and black boxes in the order that the text fixes; `Log` is the end of an iteration. The methods of a unit are functions of its
members (`Command`, `TripBody`, `Registers`, `Driven`), named after what generates them. The value of the
plant is the set of causes that make it jump, as in `EventLoop`, and `obs` is what the stores hold of it, so that a
method reading them late is visible. `history` holds what only the refinement needs: how far a unit is in the
instant, and its last command.

The model is of a fresh run. Connection events of one instant name different units (`Names`): `event_changes` of
`assembly/params.py` refuses a file in which one unit is switched twice at one time. Start-up, measurements, control laws, the channels of the ADC, switching edges between loads, natural
conduction and the equations are parts of the text the model leaves out; the solvers are in `GeneratedSolver`. The export refuses multirate schedules.

### `FrontendService`

A request is split where others can come in between: `Load` (with `restore`), `StartRun` and `FinishRun`,
`Analyse`, and the two halves of `save`, `ReadLayout` and `Write`. `Fail` is an exception in a run or an
analysis, `SaveLayout` the extension, `Edit` the user, `Kill` the end of the process at any point. The
parameters of a case are one value the editor shows and one it does not; a result is the configuration it was
computed from, so that equality of results means the same run.

## 3. Runs

| run | question | distinct states |
|---|---|---|
| `pwm_registers` | do loads take the newest completed word, does the bridge follow it, are pulses and dead times kept through loads, and is a continued run the stopped run? | 75 881 |
| `unit_lifecycle` | does a trip isolate for good, are gates, word, branch, source and command consistent after any sequence of events, faults, loads and restarts, and does a unit commanded on come into service and one commanded off leave it? | 17 180 |
| `event_loop` | is every clock served once and on time and every row and event in its place, do the samples of an instant agree, does no window span a jump, and does the run end? | 663 643 |
| `generated_program` | do circuits, stores and windows of the exported program follow the plant, and does it serve the instants, and treat its units and registers, as the simulation does? | 82 302 |
| `supervision` | does a ramp stand where the timeline puts it wherever a run begins, and do the sampled criteria trip neither too early nor too late? | 107 762 |
| `adc_sampler` | does a mean cover exactly its window, is each conversion delivered once, and is a continued sampler the stopped one? | 2 234 090 |
| `evaluation_plan` | is what a caller reads of the present states, whichever part of the plan was evaluated and whenever it was renewed? | 413 344 |
| `control_graph` | does no connection add a delay, do changes act together, and is nothing read that a map left out? | 1 956 446 |
| `conduction` | does a call return in modes the states allow, at the first instant the old ones failed, and does every search end? | 649 808 |
| `step_solvers` | is a step explicit exactly where that is stable now, is a factorization, a matrix or a mode never reused for another plant, and is every windowed input integrated once, on the grid, with predictions of the present plant? | 2 002 602 |
| `circuit_modes` | has every mode of a switched circuit equations with one solution, do its states fit it whenever it runs, and do jumps conserve charge and flux? | 3 349 |
| `frontend_service` | do model, run, signals, modes and layout belong together, in memory and in every file? | 1 464 881 |

### Properties

Most state invariants of the proved modules are conjuncts of the module's `IndInv` or follow from it, and the run checks
`IndInv`; the theorems of section 4 derive the single properties.

*PWM timer.* `IndInv` is the type invariant with the position of the timer on its grids and the words
the registers must hold; from it follows `ActiveIsNewest`: a load puts the newest word into effect whose
computation has finished. `NoWordSkipped`: words become active in
order, without gaps when loads are at least as frequent as interrupts. `PatternIsKept` looks at an interval and what it owes to the
earlier ones: a pulse under way when a load came is finished at the instant it would have ended, after it every pulse of the new
waveform is whole, no leg turns on before its dead time is over, and each does when it is. `ContinuesExactly`: an allowed
continuation has the same indices, takes the same next word, holds the same state, has the same edges ahead and leaves the same pulse
and turn-ons to the next interval. `ImplementsDelay`: the registers implement `PwmDelay`.

*Unit.* `IndInv` contains the types; that gates are on exactly where word, breaker and latch say so between
instants; that a blocked unfiltered bridge is at zero; and that the loop hears of every trip once. From it follows
`TrippedIsIsolated`: breaker, gates, branch, source and command of a tripped unit are all off. `RunsAligned`: a
continuous unit that runs was tracked to the plant since it was connected. `ContinuesService`: a restart keeps the
unit in service or out of it. `ServiceFollowsCommand`: a unit commanded on comes into service, one commanded off or
tripped leaves it. `StaysTripped`, that nothing changes a latched trip, is a theorem only.

*Event loop.* `IndInv` says what of each source of instants is still to come at each place of
an iteration. From it follow `NothingOverdue` (between instants every clock, event, row and observation lies in
the future), `EventsSeen` (a sample sees exactly the file events up to its time), `ViewIsCurrent` (the cache never
serves an old plant to an owner that samples), `StopsAtTrip`, and `NoSampleSkipped` (successive samples of an owner are one
period apart). `ImplementsInstants`: the loop implements `InstantService`. `SamplesAgree`: samples of one
instant see the same plant, apart from tracking. `WindowsMeetNoJump`: a window starts on the new side of every jump and ends on
its old side. `RowsOnGrid` and `Terminates` are about the end of a run.

*Exported program.* `PlantIsFollowed`: where an integration begins, every circuit is in the mode its switches command and
every window starts from the present outputs, and a window closes on the plant found on arrival; section 5 has the one exception.
`SamplesArePresent`: what an owner samples is of the present plant, although only some calls renew the stores; a
continuous unit tracked in its own turn is excepted. `ImplementsInstants`: the program implements `InstantService`, with
a clock for every interrupt, load and black box. `ImplementsUnits`: every unit implements `UnitLifecycle`, and the registers of every
sampled unit implement the load of `PwmDelay`.

*Supervision.* `RampGovernsTrips`: wherever a run
starts and whatever of the controller it was given, the ramp stands where the interrupts (or the time) since
the connection in force put it, with the one exception of section 5, and no sampled criterion
trips before the ramp of the present connection is over. `HoldTrips`: a criterion met for the hold time by a
unit in service trips it at the first such sample, across restarts from a row.

*ADC.* `MeasurementsAreOfWindows`: the value a controller gets is the integral over exactly the window before its interrupt, whatever
jumped inside it and wherever the run began (`MeanIsOfWindow`), a sliding mean square is of complete periods (`SquaresAreOfPeriods`), and
a sample brings every conversion since the interrupt before, once and in order (`SamplesAreComplete`).
`ContinuesSampling`: a restart at any tick leaves the sampler as it was.

*Evaluation plan.* `ReadsArePresent`: when a call has done its operations, all its caller reads is of the states it loaded
and the held inputs of this moment, for the whole plan, the derivatives, held inputs and either group; inputs kept for a window stay as set.
`PlanIsPresent` has two parts. `LoopsAreCycles`: the operations are the classes of mutually dependent nodes, in an order that respects dependencies, and a
loop is torn at copies only. `AnswersArePresent`: a cached answer about dependencies is that of the present plan.

*Loop network.* `LoopsRunOnPresent`: a loop uses what its sources computed when they last were due, this interrupt
included (`InputsAreNewest`), and all loops of an interrupt run with the parameters in effect at it (`ChangesActTogether`). `OverwrittenAreDead`: a held
value left out of a map is computed within the map before anyone reads it. `ContinuesControl`: a restart, which builds
from the file and replays the set events, has the loops of the stopped run.

*Multirate.* `NothingLost`: anchor and open sum are the integral of the input, but for what observations 7 and 8 of section 5 say is dropped. `ClosesOnGrid`: windows shortened by
changes and restarts do not move the grid. `PredictsPresentPlant`: a slope formed before a change is never used after it.

*Conduction.* `ReturnsConsistent`: when a call returns, and when outputs are synchronized, every mode is one the
states allow, up to the tolerance. `LocatesFirst`: a mode is left at the first tick it fails, however the trials
fall. `EndsOrFails`: no circuit makes search, dispatch or locator run for ever. `AcceptedHolds`, that a pattern the
search accepts is valid for the dispatcher, is a theorem only.

*Solvers.* `StepsArePresent` says of each solver that no cache outlives the plant it was filled from.
`FactorIsPresent`: the factorization in use is of the Jacobian held, and a step is
solved with columns of the present mode and parameters and the circuit matrix of the present ratio. `ChoiceIsSound`: an
interval is explicit exactly when the present matrices of all circuits are in the stability region for its step.
`NativeStepsArePresent`: both for the exported program, which may also be implicit where its iteration for eigenvalues fails.

*Circuit.* `StatesFit`: whenever the circuit runs there are potentials and currents for its states, after any sequence of modes,
with projections skipped for equal constraints or shared between ratios, and after steps with moving sources. `ModesAreSolvable`: the
classification leaves every compiled mode one solution, which shows every state, dependent or not, at its own branch, and only
branches whose current has a rate cross a cutset. `JumpsConserve`: a change of the mode moves the states by an impulse that the
circuit can carry.

*Frontend.* `IndInv` says that an analysis starts from a run of the loaded model, that modes and signals shown
together come from one run, and that signals, in memory or in a file, were computed with the parameters
shown beside them; and that a layout held is one the file has. `SaveKeepsLayout`: a save does not undo a layout that was saved in place before the save read the file.

### Bounds and why they are enough

`pwm_registers` checks every control period, offset and computation time admitted by the validation with a half carrier
of two ticks, within nine ticks (`Horizon`), from fresh and late starts. Two
interrupts and several loads fit before the horizon, with every order of interrupt, load and
end of the computation; the proofs remove the bound. The patterns have half carriers of three ticks, loads at every offset and a
new command for every load, so that pulses of up to four ticks cross a load at each of their ticks, last beyond a whole interval, and
begin or end on a load, and dead times of up to two ticks cross a load with and without a reversal of the current. `unit_lifecycle` needs no bound: its state is finite.
Its registers keep bits instead of word numbers. The event loop runs six ticks with two
sampled units, a continuous unit and a black box. Their periods are chosen such that instants occur
at which one owner, several, only a row or only an observation is due, and events coincide with some of them.
One observation is requested from the start, of the end; during the run the observer asks once (`MaxRequests`), at any of its calls,
for any later time, and at one of them nothing else is due. `generated_program` runs ten ticks, in three orders of turns, with loads inside and outside the
computation, a connection that shares its instant with a change of parameters, and a unit disconnected and connected again.

`adc_sampler` has six designs that differ in control flow, control periods of two to four ticks and six ticks of
time: at least one complete period after the latest start, with a restart at every tick. `evaluation_plan` has an integrator, a gain with
one or two sources, a held gain and a circuit with a view, connected in every way that makes acyclic plans, self-loops, loops
of two to five operations and several loops at once, and one renewal. `control_graph` has two networks against the order
of the file, all strides up to three, and two changes of parameters, which can both fall before one interrupt. `conduction` has two diodes, so patterns may form cycles of any length up to four, with bounds on patterns and rounds
just large enough to be met and to be missed; its brackets are at most twelve ticks and its locator has five trials.
`step_solvers` has two switch states, ratios, points and step sizes, a circuit of three rows and one of two, and caches of two, so that
every cache overflows. The matrices share patterns and blocks, fall into two components or into one, and change with a set
event, which occurs once: an identity kept over it would find the old matrix. Its windows have three steps within seven, and calls of
any length: each position of a call in a window occurs, also calls over two windows. The one value given to the windowed state is
also the first one, so it differs from what is held as soon as a window closed or was settled. `circuit_modes` has twelve circuits of up to
five elements on three vertices and the ground: capacitors in parallel and in loops with sources, inductors in series with each other,
with sources and coupled, both at either end of one and of two transformers, a behavioral current, and a loop of sources, which fails. Three
changes of switches or of the ratio are enough to return to a mode that the caches of two have dropped, and one step in
between moves sources and states off the values they had. The prime is 32749.

`supervision` has one period of two ticks at both offsets, ramps of none to five ticks, which
are whole and broken numbers of periods, and timelines with a late, a repeated and an interrupted
connection, a connection inside the ramp of the one before, and changes of the settings; eleven ticks
reach past the last event and the hold time after it. `frontend_service` has two cases, two values
of each parameter, an override, two edits and a layout: enough for a result of another case, of other
parameters and of other hidden parameters to be about.

`CHECK_DEADLOCK FALSE` stands where the program really stops: a timer or a solver at the horizon, a
run that is done. `unit_lifecycle`, `frontend_service`, `conduction` and `evaluation_plan` check deadlock.

### Fairness

`UnitLifecycle!FairSpec`: an instant that has begun is completed (weak fairness), since the event
loop calls the phases in sequence. Interrupts and loads recur (strong fairness of the instants at which they are due), since
their clocks are periodic and the loop stops at every one of them; strong, because instants
of other kinds come in between. No event or fault is fair: the environment owes nothing.
`EventLoop!FairSpec` and the fairness of `Conduction` are weak fairness of the one thread, which goes on as long as it has
something to do. That the loop takes no unbounded number of iterations, and no search an unbounded number of
patterns, is not assumed but checked (`Terminates`, `EndsOrFails`).

## 4. Proofs

All theorems hold for every value of the constants under the named assumptions: `TimingAssumption` and
`CommandAssumption` in `PwmRegisters` (a valid timing as `validate.py` admits, in particular a computation shorter
than the control period and a dead time within half a switching period; commands that are register words, with a mode the modulator accepts,
and angles that are whole ticks), `FormAssumption` in `UnitLifecycle` (kinds of unit), `LoopAssumption` in `EventLoop` (finite,
disjoint sets of owners, valid clocks, file events after the start and in the order of
time, as `event_changes` of `assembly/params.py` sorts them), `WindowsAssumption` in `MultirateWindows` (a window of at least one
step), `ProgramAssumption` in `GeneratedProgram` (the same as `LoopAssumption` for a fresh run that ends after its start, and
orders of turns that name the units first, as the text does; computations shorter than the control period, which `validate.py`
demands, and events of one instant that name different units, which `event_changes` of `assembly/params.py` demands), `ModelsAssumption` in `EvaluationPlan` (stages and connections as the model validates them, and no methods that wait for each other), `DesignAssumption` in `ControlGraph` (whole strides and no feedback among loops, which the code rejects), `DiodeCircuitAssumption` and `ConductionAssumption` (tables of a circuit, positive bounds) and `FrontendAssumption` (the
sets hold no `None`, overrides and edits are well formed).

*PWM timer* (`TimerAdcProofs`, with the clocks of `SharedTheorems`). That the newest completed word
becomes active is not inductive. `IndInv` adds that indices are the first interrupt and load not yet processed,
which words the three registers hold in terms of the number of interrupts made, whether the
computation of the latest is still running at the present time, and that state and edges of the bridge are those of the
laid out interval (`OutputFollowsActive`; that nothing changes between two edges needs the least of a set of ticks, `LeastNatural`). The lemmas on clocks say that
`IndexAfter` and `IndexAtOrAfter` are the first index after, and at or after, a time. `Invariance` proves
`IndInv`; `TypeCorrectness`, `NewestWordIsActive`, `BridgeFollowsInterval`, `ContinuationIsExact` and `WordsInOrder` follow from it,
and `RegistersImplementDelay` maps initial states to initial states and steps to steps or stutters of `PwmDelay`.

`PatternIsNeverCut` is the theorem for `PatternIsKept`, for any half carrier, load period, dead time and commands. An interval is laid out
from what the one before left, counted from its load; the property speaks of what all earlier ones owe, in absolute time. `MemoryIsOwed`, the last conjunct of
`IndInv`, ties the two: the remainder of a pulse and the pending turn-ons in `memory` are those of `owed`, at the instants they stand for, and
the commands of the legs are those of the last tick. The argument has two halves. For the pulses: a waveform is periodic (`ModShift`), so the carrier words
of one period decide all, in each period a pulse begins (`LitBackToRise`, `PulseBegins`), and a pulse under way ends
where the raw waveform that began it ends (`PulseIsFinished`, `PulseIsHandedOver`). For the legs: the course through an interval is a recursive function,
of which the provers know nothing; `StepsExist` shows by the least number at which it would fail that it takes a step at every tick, `LegStepKeeps`
that a step keeps the turn-on at the end of its dead time, and `LegWasIs`, again by a least number, that it is kept to the end of the interval (`LegIsHandedOver`).

*ADC* (`TimerAdcProofs`). A published sample is compared with the histories, and nothing in it says how the integral came to
be. `SamplerInv` relates every field of the ADC to them at every turn: `MeanOK` says that an open window has the
integral from its opening to the latest instant, `SquareOK` the same of the squares since the last interrupt (or the start), `RingOK` that the ring holds `squares` in order,
and `PositionOK` that the next conversion is the first one still to come, with all others since the interrupt held as the channel was seen (`Converted`).
`TimesOK` and `TraceOK` place the present turn in its control period. Three things carry the proof. Integrals
are recursive functions of the time; `SumsExist` shows that there are such sums, by the least time at which there would be none, and
`IntegralGoesOn` that the integral up to the next instant, over the history without its oldest entries, is the old integral and one trapezoid, which is what
`Accumulate` adds. `RingStep` shows that a ring of whole periods is the list of the last ones, before it is full and
after. `AlignedConversions` and `ControlPosition` say where the conversions of a period lie on either kind of clock. There is one lemma
per action, `FirstAdc` for a fresh run and `ContinueKeeps` for a continued one: the position is computed again from the time, and `SamplerInv` determines it.
`SamplerIsInductive`, `SamplesAreOfWindows` and `ContinuedSamplersGoOn` are the theorems, for any readings, periods, offsets, windows and rings.
They assume `DesignAssumption` of `AdcSampler`, which is what `validate.py` demands, and `ConversionsKeep`: a conversion with a clock of its own comes more than
once in a control period. A design with exactly one does lose it in a continued run (observation 9).

*Unit* (`UnitProofs`). `TrippedIsIsolated` has exceptions in the middle of an instant,
when a sampled trip is latched and not applied. `IndInv` names them: `TripPending` relates latch, pending trip and
pc, `StageConsistent` relates gates, branch, breaker, source and word, and `CommandFollowed` relates the
start-up command to the timeline, without which a restart could not be shown to keep service. Each helper of
the model (`SetGates`, `Shutdown`, `ConnectUnit`, `Assembled`, `Actuated`) has a lemma on its
result, and there is one lemma per action. `LifecycleInvariance`, `TripIsolates`, `GatesAreConsistent`,
`TripIsReportedOnce`, `ContinuationKeepsService` and `TripIsPermanent` are the theorems. `ControllerIsTracked` needs
`AlignInv` beside it: a running continuous controller that is not tracked has its turn to sense still to come.

*Supervision* (`UnitProofs`). `SupInv` is the inductive invariant, found to hold on the instances of the run before it was proved. The properties compare
a ramp with the command in force on the timeline, which at a restart is computed from all events up to now and during a run from the events
applied. `TimelineInv` and `InForceIs` make these one (`InPlace`): the events applied are the first ones of the timeline, in the
middle of an instant too, and `CommandNext` says what one more event does to the command. `IndexInv` says which
interrupt is next, and `Grid` relates the indices before, at and after an instant. `RampInv` is the heart: `Obeys` ties run, ramp, steps and completion of
the start-up to the command and the latch, `Timed` the ramp of a continuous unit to the time of the connection, and
`Counted` the steps of a sampled one to the interrupts served since, up to the end of the ramp. Where a start has counted an interrupt
that the run repeats, only the lower bound on the steps is left, which is what `HoldTrips` needs; `RampGovernsTrips` excepts it. `EndStepReaches` (the
step from which on the ramp is over, for every ramp and period), `SteppedCounts` (an interrupt counts one more, or none at the
end) and `StartedIs` (a start counts the interrupts in the closed interval) are the lemmas it rests on. `SensedIs` is the link to the protection: at an interrupt the
start-up is complete if the unit is in service, and only if it is, unless an interrupt was counted twice. `HoldInv` and `CheckSampledIs` then give that a timer has at least the time its
criterion was met in service. `RampIsOfTimeline`, `TripsAwaitTheRamp` and `HeldCriteriaTrip` are the theorems, for every timeline,
any settings and changes of settings, any grid of interrupts and any sequence of restarts; events are in the order of time
(`SupervisionAssumption`), in which `Scenario` sorts them.

*Event loop* (`EventLoopProofs`). `NothingOverdue` speaks of the head of the loop only.
`IndInv` extends it to every phase. `ClocksAhead` says of every owner whether its clock may still be due (`Pending`):
a continuous unit moves its clock when it senses, the others when they actuate. `EventsAhead`, `RowsAhead` and
`ObservationsAhead` do the same for the other sources, `SamplesSpaced` ties the last sample of an owner to its
clock, where `HalfDone` marks an owner between sense and actuate, `SamplesSee` relates what it saw to the file events,
and `CacheCoherent` is the validity of the cached outputs. `MinNat` shows that the next stop exists, `StopSpec` that it lies
before nothing still to come; each operation on the plant has a lemma that it keeps the cache coherent, and
there is one lemma per action. The theorems are `LoopInvariance`, `EverythingServed`, `SamplesSeeEvents`,
`NoneSkipped`, `SamplesAreCurrent`, `TripStopsRun`, and `LoopImplementsInstants`: for any number of units and black boxes, any
periods and offsets, in any order of turns. The refinement needs one fact beside `IndInv`, `LastServed`: as long as
a file event of the instant is not applied, the last service of every owner lies before the instant.

Three more invariants stand beside `IndInv`. `RowInv` says which rows of the grid are behind the index of the next one, for
`RowsAreOnGrid`. `AgreeInv` says that until the last owner has sensed, nothing moves the plant but a controller that tracks, for
`OwnersSampleTheSame`; it needs that no iteration of the loop repeats an instant with something physical due (`SomethingDue`).
`WindowInv` says where windows may differ from the present outputs: only while a change is noted (`changed`), or a hold
changed at an instant whose circuit is due, and both seed them again before the next integration. It gives
`WindowsStartFromPresent` for continued runs and for fresh ones that begin with no continuous unit connected. The hypothesis is not
a convenience: without it the first window of a run can cross the jump of a later tracking (observation 3 of section 5), and
`begin` preserves no invariant that excludes it. The system of the run is within the hypothesis, too: its continuous unit is connected by an event.

*Solvers* (`PlanProofs`). `WindowInv` says of the running window, and of the one in the saved row: its end lies on the grid (`OnGrid`), the open
sum covers the steps since the anchor (`Books`), and its slope was formed after the last change (`Current`). `WindowInvariance`,
`WindowsCloseOnGrid` and `PredictionsArePresent` need nothing else. `InputIsKept` adds the account of the exact integral (`AccountInv`): while a given value waits for a call, the integral is
that value and the open sum, otherwise the anchor, the open sum and what was dropped. It assumes nothing of the environment. `SolversRunWindows` carries all of them over to the runs of `StepSolvers`.

A factorization is found by the versions of the blocks it was made from. That it is one of the present Jacobian (`FactorsArePresent`) is no fact of any
single structure: `LinearInv` says of each block that among everything that still bears a version, the cache, the factorizations and the Jacobian held, no version has two
meanings, and none is above the last revision (`OneMeaning`, `Coherent`); a new version is above all of them (`TouchedMeans`), a stored or found one means
what it meant (`StoredMeans`, `FoundMeans`). Remembered Jacobians belong to their mode and to the present parameters (`FormedIn`). TLC found `LinearInv` to hold on the run
first. It holds for `Skips`, exact columns that are not differenced; observation 10 is the rest. The exported program finds factorizations by the step size
alone, so that `NativeInv` has all of them of the Jacobian held; `NewtonsArePresent` follows.

The choice between explicit and implicit steps goes through four caches. `FixedInv` types each of them by the entries that are true of the present
parameters: a verdict or the eigenvalues of an identity are those of the matrices of any mode with that identity (`KeysMeanMatrices`), a
pattern has the components that every matrix of the pattern has, and a block has itself as its only irreducible block
(`BlocksAreTheirOwn`: a set of rows that is closed within an irreducible one extends to a closed set of the whole matrix, so it is empty or all). Then
the eigenvalues found circuit by circuit and block by block are those of the present matrix, whichever part was remembered
(`CircuitFound`, `BlockwiseFound`), and the verdict is the present one (`VerdictFound`). `NativeFixedInv` says the same of the exported
program, whose entries are of an epoch instead of being dropped, and where values that are missing were not to be found (`Findings`, `NativeVerdictFound`).
`StepsStayPresent` is the sum: `StepsArePresent` for all five solvers, for any circuits, matrices and caches of any size.

*Components of a pattern* (`SharedTheorems`, `PlanProofs`). The blocks are right because both decompositions are: `PatternsDecompose`, for matrices of any size,
says that Tarjan's search in the simulation, behind Kahn's queue, and the same search over all rows in the exported program, along the edges the other way, yield the irreducible sets of rows, each of them.
A node leads to another (`Leads`) if every set of nodes that has all its followers (`ShutIn`) and the one node has the other, which
speaks of paths without naming one; nodes that lead to each other are of one kind (`Kinds`). `SearchInv` is the invariant of the search: nodes
reached are on the stack or released and numbered as they were reached (`Numbered`), the frames are of nodes of the stack, in its order
(`Framed`), `low` is the number of a node of the stack that the node leads to, and below its own once the node was left (`Lowered`), a frame leads
to all above it (`Grown`) and knows how low those reach that were left within it (`Learned`), every edge followed is accounted for or awaits
its return (`Traced`), and what was released is shut and of whole kinds (`Emitted`). There is one lemma per step: `VisitKeeps`,
`BackKeeps` and `SkipKeeps` for an edge, `ReturnKeeps` and `EmitKeeps` for a node that is left. The turns that `Explore` has suffice since each of them leaves a node or follows an
edge for good (`FollowShrinks`, `LeaveShrinks`). `StrongComponentsAreKinds` is the sum. Around it, `KahnComplete`
says that the topological order has every node once whose dependencies it has, for which the turns suffice, too, `KindsOfOrder` that its nodes are kinds of their own,
`CondensationIsOrdered` that the graph of the components has no cycle, so that ordering them loses none, and `OrderedComponentsAreKinds` is the
result, for any graph. A set of rows is closed for the matrix exactly if the other rows are shut, so kinds are irreducible sets (`KindsOfRows`).

*Evaluation plan* (`PlanProofs`). What each step of `_build_evaluation_plan` finds is a lemma of its own. From `OrderedComponentsAreKinds`, the parts that
become operations are the kinds of the nodes, in an order of their dependencies, whether the graph has cycles or not (`PartsAreKinds`, `LayoutIs`);
`IsLayout` is what the rest needs of it: a node reaches another exactly if its operation reaches the other's (`LayoutReaches`). The tearing ends
with every node in the order and behind what it depends on, torn copies excepted, because stages alone form no cycle (`Opens`, `TornIs`), so a loop
is solved by a sweep and is a loop exactly if it is cyclic (`OperationIs`). The pass from the end finds the least set that has all its members depend on
(`LiveIs`), the pass from the beginning what is reached (`AffectedIs`), as the two searches do (`ClosureIs`, `BehindIs`).

`EvaluationInv` has the plan as far as it is built at each step (`BuiltUpTo`), the groups and answers of the plan in force (`GroupsKept`, `AnswersKept`): groups are
of the revision they name, and while a plan is built they are of an earlier one. Of a call it says that what is done precedes what is left, and is present
(`Progress`). A step keeps that because all that the next operation reads is done: an operation chosen by a search has its dependencies chosen too (`ChosenIs`), one of the
held inputs reads otherwise only what a synchronisation left (`SyncedUpToHeld`, `HeldReach`), and an operation of a group's own reads an input
that the caller set or one of the group, unless the group is split (`OwnReads`, `Split`; observation 11). One sweep of the whole operation then suffices. `EvaluationIsInductive`
puts the steps together; `EvaluationReadsThePresent` and `EvaluationPlanIsPresent` are the two properties of the run, for models of any size, any number of renewals, and
loops that fail to converge anywhere. They assume `ModelsAssumption` only, that is, what the code accepts.

*Loop network* (`PlanProofs`). The order of the loops is taken from Kahn's queue, of which `IsQueue` is the invariant: what is in the order comes
after its dependencies, and what is ready depends on the order only (`QueueTurnKeeps`). Its turns, the loops of an interrupt and the queued
configurations are courses of steps, so that each has a lemma that there is one and one that carries a fact along it (`KahnOrder`,
`SampledIs`, `AppliedIs`). `ControlInv` says that the graph is always tuned to its configuration (`Configured`), that
the newest one is the parameters in effect, and that a loop holds what it computed when it last was due, from what its sources held
then (`HoldsLast`). A loop's turn keeps that for the loops that had theirs (`TurnKeeps`), as a source that is due comes before its readers. A value
left out of the map is one whose readers run at multiples of its stride, hence when it does (`MultipleOfMultiple`).
`ControlIsInductive`, `LoopsAlwaysRunOnPresent`, `OverwrittenStayDead` and `ControlContinues` are the theorems, for any number of loops, any
acyclic connections, strides, changes and maps; `DesignAssumption` is what the code accepts.

*Conduction* (`ConductionProofs`). `ConductionInv` follows a call through its phases: where the interval ends (`InInterval`), which modes
hold and how long current may flow back (`Modes`), and that the locator's bracket encloses the first failure
(`Bracketed`). `ConductionInvariance` proves it, `ModesAreConsistent` and `SearchesAgree` follow. `LocatesTheFirst` says that the
locator, when it ends, has found the first tick, provided its trials suffice (`Halves(W)`: the measure `W` of
a bracket falls to one within the trials it has, halving with every two of them, whatever secants do in
between). The code's eighty trials halve 2^39 ticks; the run uses five for its short brackets.

*Exported program* (`GeneratedProgramProofs`). The turns of the text are positions of a loop, so `Had` says whose turn has passed, and
`ClockOpen` and `LoadOpen` up to which place of an instant a clock or load may still be due. `Timely` says this of all sources
(`ClocksAhead`, `LoadsAhead`, `RowsAhead`, `EventsAhead`), of the black boxes that wait for their output (`WaitingInv`), and of the last service
(`LastServed`). `Kept` is what the program holds of its plant: `StoresInv`, the stores are present where they are read; `FollowInv`,
only an instant of the circuit or a trip leaves something to follow; `CloseInv`, the windows are closed up to such an
instant; `CircuitInv` and `UnitsInv`, what a unit may still owe when the program classes an instant as not of the circuit. Each helper
(`Sync`, `Reconcile`, `Accumulate`, `Reseed`, `Terminal`, `TripBody`, `Command`, `Driven`) has a lemma on what it keeps. From
`ProgramInvariance` follow `CircuitsAndWindowsFollow` and `SamplesReadThePresent`, and `ProgramImplementsInstants`: the program implements the same
`InstantService` as the loop of the simulation, with its register loads as further clocks.

That every unit goes through the lifecycle needs a second invariant beside `IndInv`, `LifeInv`, which TLC found to hold on the
run of the program before it was proved. `StageOK` ties how far a unit is in the instant to the turns of the loop (`Place`): a unit with
something due has exactly the step before it whose phase is running, and until its clocks have moved (`Undone`) they still show what the
lifecycle remembers as due. `ServiceOK` says what a unit owes at each step: a track before its sense, a trip or an interrupt's command
between sense and actuate only, and gates, filter branch and held input where the active word, the breaker and the latch put them
whenever no trip waits. `WordsOK` says which commands the three registers hold, counted from the next interrupt; from it a load is
a load of `PwmDelay` (`LoadTakesLatest`), although the text writes and loads in an order that depends on the computation time.
Each method has a lemma on all members it returns (`CommandMembers`, `TripBodyMembers`, `SensedMembers`, `ActedFacts`), so has each helper
of the lifecycle (`SetGatesMembers`, `ShutdownMembers`, `ConnectMembers`, `ActuatedMembers`), and one lemma per action compares them
(`BoundaryFollows` to `LogFollows`, `LoadFollows`): the two texts of one unit differ in the order of assignments, in the flags they keep
and in the moment a flag is cleared. `ProgramImplementsUnits` is the result. With `Isolated` beside `LifeInv`
follow `ProgramTripIsolates` (a tripped unit is out of service outside the turns of an instant, whatever the file events command
and the registers load) and `ProgramTripIsPermanent` (the first cause stays).

*Frontend* (`FrontendServiceProofs`). `ModesMatchSignals` alone is lost when a run finishes beside old modes, and
`RunIsOfModel` when a case is loaded during a run. `IndInv` adds `Handling` (a step of a request works on a loaded
model, and a run starts with nothing older) and `SignalsOfRun` (the signals beside a run are of that run): together `ResultsInv`. Its other
half, `LayoutIsOnDisk`, is what the layouts need: a layout that the service holds is one its file has too, so that a save which
finds no layout to take holds none either, and between the halves of a save both are the same. Each half has one
lemma for loading, for the analyses, for the two halves of a save, and for reset, kill, extension and
user; `Invariance`, `ShownResultsMatch`, `ShownModesMatch`, `AnalysedRun` and `SavesKeepLayouts` follow.

*Only model-checked.* Liveness (`ServiceFollowsCommand`, `Terminates`, `EndsOrFails`), because fairness and
ENABLED are out of the prover's reach.
That `Resolve` of `DiodeCircuit` ends in a pattern with equations: it is a recursive function, whose values need
induction, so the proofs use only that it is a pattern. All of `CircuitModes`, which folds over equations.

## 5. What the models show of the code

No property that a run checks is violated. The following was met while modelling: behaviour that differs from a
document or a comment, or that limits what could be stated. Where a property has an exception, it is one of these.

1. *Restart after a quick reconnection.* An unfiltered sampled unit reconnected before
   the next register load gates on at the event, with the enable bit of its previous connection
   (`assembly/unit.py:309`), although `docs/Events-Timeline.md:46-47` says that start-up, control computation and
   the existing PWM load timing decide when gates activate. Its bridge input then
   is zero until the next edge, and a run continued from a row in between drives the active word at once.
   `docs/Events-Timeline.md` promises to continue from that exact time and lists the rows it
   rejects; this one is not among them.
2. *Tracking during the sense phase.* A continuous unit that was just connected
   tracks its controller while it senses, and tracking is a change of the plant: a grid-forming controller takes
   over angle and magnitude of the terminal voltage. Owners before it sample the old plant, those after
   it the new one. `docs/Architecture.md:177` and the comment in the loop promise one view and
   independence of the order. `SamplesAgree` excepts it.
3. *Windows seeded before a later unit tracks.* In `begin` each unit seeds its
   windows in its own turn. A continuous unit later in the assembly then tracks, which changes the plant; when
   nothing of the circuit is due at the start, the first interval of the window begins with outputs
   that no longer hold. During the run the loop seeds all windows after any jump.
4. *Rows of an unfinished instant.* With `stop_on_trip`, a fast trip leaves the loop
   before the sense phase, and the final row belongs to an instant at which due interrupts were not
   processed. A continuation takes restored controller or PWM state to mean that they were
   (`solver/simulation.py:857`) and begins after them.
5. *A fresh run counts its first interrupt twice.* `Unit.start` sets the step count to
   the number of interrupts since the connection, both ends included (`assembly/unit.py:354`,
   `components/pwm.py:481`). A fresh run that starts on an interrupt processes that one itself, so its ramp is one
   interrupt ahead until it ends. This includes every run whose unit is connected by an event at its start.
   `RampGovernsTrips` excepts these runs.
6. *Hold timers stand still.* While a start-up is in progress, or a criterion is disabled
   by an event, its timer is not updated (`assembly/protection.py:178`). It goes on from the old count
   afterwards, and trips a unit whose condition had cleared in between. `control/blocks.py:459` says that
   a timer tells how long the condition has held continuously.
7. *Bounds and rows inside a window.* A bound in the middle of a window changes the held value, and the next call takes it up
   as a new anchor and drops the open sum (`solver/multirate.py:247`). A row written before that call has the given value
   beside the old anchor, which a continued run trusts (`solver/multirate.py:502`): the value is dropped, although the docstring at 458
   promises exact continuation from any instant. `dropped` counts both.
8. *Two settlements at one instant.* The second overwrites `_last_returned` (`solver/multirate.py:296-312`), so that a value a
   caller gave in between is not taken up. `dropped` counts it.
9. *Conversions off the interrupt grid.* With one conversion per period between the interrupts, a restart after the
   conversion and before the interrupt passes the validation (`assembly/validate.py:588`), and the conversion is lost;
   `docs/Events-Timeline.md:148-156` lists the rows that are rejected. A fresh run that starts exactly on
   an interrupt publishes the conversion of its start twice. The designs of the run leave out the first, as does the hypothesis
   `ConversionsKeep` of the theorems; `SamplesAreComplete` leaves out the second.
10. *Versions of exact columns.* Columns refreshed by the netlist keep the version of their block, so that a factorization made
    before is still found. Newton's method converges with either: a matter of speed. It cannot happen where exact
    columns are left out of the differencing (`Skips`), as in the run.
11. *Groups that split a loop or a circuit.* The plan of the window's own operations runs a loop that lies across its border
    whole, inputs from outside included, while the docstring of `rhs_group` (`solver/model.py:1799`) says that those stay as
    set: a loop counts as an operation of the group's own, not as an input (`solver/model.py:1782-1785`). And a stage of a circuit of
    which only a view is in the group is run without the stages it waits for, or the inputs of a circuit outside. Whatever such an
    operation reads from outside may be of an earlier state. `Split` says when a group is like that; `ReadsArePresent` excepts
    the own operations of such a group.
12. *Layouts and hidden parameters in the frontend.* A layout saved between `save`'s reading of the file and its
    replacement is lost (`frontend/service.py:229`); `SaveKeepsLayout` excludes exactly this window. Results are
    restored for equal editable parameters only (`frontend/service.py:205`), so initial states and event
    values may differ from those of the file; `ResultsMatchParameters` speaks of the shown ones for this reason.
13. *Turns of the exported program.* Its fast checks read stores that are renewed after all of them, so a unit checks values from
    before an earlier unit's trip; the simulation reads them anew. A continuous unit tracked in its turn runs its sampled criteria on
    values from before the tracking.
14. *Trips between the windows.* At an instant where only clocks of continuous units are due, the program closes their
    windows only; when one of them trips, `reconcile_circuits` moves the circuit and renews the stores before the other
    windows are accumulated. They close on the plant after the trip, although the comment at `assembly/cpp.py:8287`
    puts it before. `WindowsCloseFirst` excepts it.
15. *Dead time and a reversal.* A leg whose diode already carries it to the commanded rail waits for no turn-on. When the current
    reverses at a load within the dead time, the code does not clamp it again (`components/pwm.py:330-334`), although both gates
    are off for the rest of it; the docstring of `_DeadTimeSequence` clamps by the current while both gates are off.
    `PatternIsKept` takes such a leg as turned on (`freed`).
16. *A pulse that begins exactly at a load.* Of the replaced waveform it is kept when another pulse of that waveform
    began in the interval before, and dropped otherwise (`components/pwm.py:222-233`). `PulsesOwed` allows both.
17. *A behavioral current in a cutset.* The projection of inductors onto a cutset takes the source value of every branch that
   is neither inductor nor winding (`solver/netlist.py:2207`). For a behavioral current that value is its derivative
   (`i = x`, `dx/dt = derivative(t)`, docstring at `solver/netlist.py:821`), so that an inductor in series with one would jump to
   the derivative. A filter with averaged diode conduction is built as a behavioral current
   (`components/network.py:172`), so this concerns one in series with a further inductor and no capacitor between them. The run has
   none (`DrivenInductor` in `MCCircuitModes` is one).
18. *Capacitors that a transformer hides.* The tree prefers a primary to a capacitor. Two capacitors in parallel with a primary
   whose secondary feeds an inductor are both left free, and so are two capacitors coupled by a chain of two transformers with a
   third between them: the network is singular and the code says so, although the header of the module
   (`solver/netlist.py:10-13`) calls the capacitors of a loop dependent. The circuits of the run have none.
19. *A source that jumps in a loop of capacitors.* States are projected when the mode changes (`assembly/circuit.py:1630`), not when a
   source jumps within a mode; the derivative of the source is what moves the dependent capacitor. In the model, sources move by
   their rates only.

## 6. Not modelled

* Numerical integration, tableaus and step-size control, component equations, control laws and
  energy audits: real-valued, outside both tools. Floating-point rounding, including instants that differ by less than the tolerance and the
  rounding of accumulated hold times.
* Of the solvers: the automatic choice between explicit and implicit methods, a ratio that varies inside an interval, iterations of LAPACK
  that do not converge, and the error after too many splits of a step.
* Of the circuit: how components are assembled into a netlist, groups of a large network and their reduction, generated kernels,
  ports of more than one phase and their scales, a ratio of zero, transformers of different ratios in one circuit, and cutsets
  that consist of secondaries only. Equations are solved over residues, not over floating-point numbers: pivoting and
  conditioning are out.
* Most of the text of the C++ export: the translation of equations, control laws, conduction and adaptive solvers. What it must agree with, the order
  of turns, the life of the units and the choice of steps, is modelled. The Imperix export, the command line, plotting and reports: generators of text and files.
* Parameter schemas: no state. The checks of `validate.py` that decide which rows a run may continue from are guards of
  `Continue` in `PwmRegisters` and of `ContinueRun` in `AdcSampler`.
* Of the PWM: the frequency register of a phase-shift pattern, the held duty ratios and the mean dead time of the averaged models, and
  dead-time compensation, a formula for the commanded duty ratio. The legs of a carrier comparison are modelled one by one; the rate of change of frequency, which raises an alarm and never
  trips; continuous control networks, which the solver evaluates; state guards that replace a margin, and averaged
  mixtures of modes; progress output and the CSV files; the translation of a case into components and signals of the
  frontend; the closed-loop map, which perturbs and reruns a simulation, except for the states it may leave out.
* ONNX black boxes: an external runtime. Their clocked interface is that of a black box in `EventLoop`.

## 7. Plan

Done: all modules of section 2. Open, the most important first:

1. The recorder: tables that are written piece by piece while a run may fail.
2. Diodes in `CircuitModes`: the patterns of `Conduction` decided by the solved circuit instead of a table.
3. A composition of `EventLoop` with `PwmRegisters` and `UnitLifecycle` for two units of the simulation, as
   `GeneratedProgram` has for the exported one.
