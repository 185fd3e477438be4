-------------------------- MODULE GeneratedProgram --------------------------
(***************************************************************************)
(* The program that the C++ export writes (assembly/cpp.py): its run loop, *)
(* the circuit modes it keeps, the observations its methods read, and the  *)
(* sense, actuate, protect and trip methods of its units and discrete      *)
(* black boxes.  The text is specialized for one system; its order of      *)
(* turns is that of the units in the file, followed by the black boxes.    *)
(*                                                                         *)
(* Unlike the simulation, the program reads every measurement from stores  *)
(* that only `sync' renews, and moves its circuits to other modes only in  *)
(* `reconcile_circuits'.  The value of the plant is the set of causes that *)
(* make it jump: file events, trips, circuit modes, and the last instant   *)
(* at which each owner changed its own output.  Start-up, measurements and *)
(* control laws are left out, and so are edges between two register loads. *)
(***************************************************************************)
EXTENDS PeriodicClock, FiniteSets, Sequences

CONSTANTS
    Units,        \* converter units
    BlackBoxes,   \* discrete black boxes (event_subsystems)
    Continuous,   \* units with ideal averaging; the others are sampled
    Unfiltered,   \* sampled units without a series filter branch
    Windowed,     \* units whose ADC integrates between its samples
    Connected,    \* units connected at the start
    Clocks,       \* interrupts of sampled units, own clocks of all others
    Loads,        \* register loads of the sampled units
    Computation,  \* computation time of the sampled units
    Events,       \* file events after the start, in the order of time
    Start, End,   \* initial.t and t_end
    OutputPeriod, \* output period
    StopChoices,  \* values of simulation.stop_on_trip
    Orders        \* orders of turns: the units as in the file, the black boxes

Owners == Units \cup BlackBoxes
Sampled == Units \ Continuous

Event == [t : Nat, unit : Units, on : BOOLEAN]
         \cup [t : Nat, parameters : {TRUE}]

\* The unit that a file event connects or disconnects, as a set.
Names(event) == IF "unit" \in DOMAIN event THEN {event.unit} ELSE {}

ASSUME ProgramAssumption ==
    /\ IsFiniteSet(Units) /\ IsFiniteSet(BlackBoxes)
    /\ Units # {} /\ Units \cap BlackBoxes = {}
    /\ Continuous \subseteq Units /\ Unfiltered \subseteq Sampled
    /\ Windowed \subseteq Units /\ Connected \subseteq Units
    /\ Clocks \in [Owners -> Clock] /\ Loads \in [Sampled -> Clock]
    /\ Computation \in [Sampled -> Nat]
    /\ \A u \in Sampled : Computation[u] < Clocks[u].period
    /\ Start \in Nat /\ End \in Nat /\ Start < End /\ OutputPeriod \in Nat \ {0}
    /\ StopChoices \subseteq BOOLEAN
    /\ Events \in Seq(Event)
    /\ \A i \in 1 .. Len(Events) : Start < Events[i].t
    /\ \A i, j \in 1 .. Len(Events) : i < j => Events[i].t <= Events[j].t
    /\ \A i, j \in 1 .. Len(Events) :
           i < j /\ Names(Events[i]) \cap Names(Events[j]) # {} => Events[i].t < Events[j].t
    /\ \A s \in Orders : /\ s \in Seq(Owners) /\ Len(s) = Cardinality(Owners)
                         /\ Units = {s[i] : i \in 1 .. Cardinality(Units)}
                         /\ Owners = {s[i] : i \in 1 .. Len(s)}

VARIABLES
    pc,       \* place in the run loop
    order,    \* order of turns, fixed for the run
    stop,     \* simulation.stop_on_trip, fixed for the run
    turn,     \* whose turn it is in the present phase
    t,        \* t
    action,   \* action_index, from 1
    output,   \* output_index
    clock,    \* pwm_k of a sampled unit, clock index of all others
    load,     \* pwm_j of the sampled units
    units,    \* members of the units
    words,    \* enable and interrupt of active, shadow and completed
    plant,    \* circuit modes, stores, windows and own outputs
    waiting,  \* black boxes whose next state is computed (pending)
    flags,    \* circuit_due and trip_now of the present instant
    sampled,  \* history: when an owner last sampled, what it saw, what held
    arrival,  \* history: the plant on arrival at the present instant
    history   \* history: how far a unit is in the instant, and its commands

vars == <<pc, order, stop, turn, t, action, output, clock, load, units, words, plant,
          waiting, flags, sampled, arrival, history>>

NextTime(o) == ClockAt(Clocks[o], clock[o])
LoadTime(u) == ClockAt(Loads[u], load[u])

----------------------------------------------------------------------------
\* The plant as the program holds it

Tripped(s) == s.trip # "none"

\* The commands of the circuit switches.
Flags(us) == [u \in Units |-> <<us[u].branch, us[u].linkTripped>>]

\* What the stores would hold if they were renewed now.
Value(p, us, n) ==
    [applied |-> n - 1, tripped |-> {u \in Units : Tripped(us[u]) /\ us[u].linkTripped},
     mode |-> p.mode, touched |-> p.touched]

\* sync: the model's outputs are evaluated into the stores.
Sync(p, us, n) == [p EXCEPT !.obs = Value(p, us, n)]

\* reconcile_circuits: a circuit whose switch commands changed takes the mode
\* they ask for; the stores are renewed on the other side.
Reconcile(p, us, n) ==
    IF p.mode = Flags(us) THEN p ELSE Sync([p EXCEPT !.mode = Flags(us)], us, n)

\* adc_accumulate of these units: the interval since the last one is closed on
\* the stores, which are its other end as well as the first of the next.
Accumulate(p, those, at) ==
    [p EXCEPT !.windows = [w \in Windowed |->
        IF w \in those /\ at > @[w].upto
        THEN [anchor |-> p.obs, closed |-> p.obs, upto |-> at] ELSE @[w]]]

\* sync<true>: every window starts again from the present outputs.
Reseed(p, us, n) ==
    [p EXCEPT !.windows = [w \in Windowed |-> [@[w] EXCEPT !.anchor = Value(p, us, n)]]]

Touch(p, o) == [p EXCEPT !.touched[o] = t]

----------------------------------------------------------------------------
\* The lifecycle of one unit, as functions from its members to the next

\* _stage_condition
Stage(u, s, on) == on /\ (u \in Unfiltered => s.breaker) /\ ~Tripped(s)

\* _terminal_lines
Terminal(u, s) ==
    [s EXCEPT !.branch = u \notin Unfiltered /\ s.breaker /\ s.gates /\ ~Tripped(s)]

\* latch: the first cause stays.
Latch(s, cause) == [s EXCEPT !.trip = IF @ = "none" THEN cause ELSE @,
                             !.fault = @ \/ cause = "overcurrent"]

\* apply_trip: the stop command, then the power stage and the DC source.
TripBody(u, s) ==
    Terminal(u, [s EXCEPT !.run = FALSE, !.gates = FALSE, !.breaker = FALSE,
                          !.driven = @ /\ u \notin Unfiltered, !.linkTripped = TRUE])

\* command_lines of a continuous unit.
CommandContinuous(u, s, on) ==
    LET effective == on /\ ~Tripped(s)
        active == s.breaker /\ s.gates /\ ~Tripped(s)
    IN  Terminal(u, [s EXCEPT !.trackDue = effective /\ ~active, !.run = effective,
                              !.breaker = effective, !.gates = effective])

\* command_lines of a sampled unit: its gates wait for the next load, except
\* that a bridge without a filter needs its breaker at once.
CommandSampled(u, s, on) ==
    LET effective == on /\ ~Tripped(s)
        commanded == [s EXCEPT !.breaker = effective, !.run = effective]
        gates == IF u \in Unfiltered THEN Stage(u, commanded, words[u].active.on)
                 ELSE s.gates
    IN  Terminal(u, [commanded EXCEPT !.gates = gates,
                                      !.driven = @ /\ (u \in Unfiltered => gates)])

Command(u, s, on) == IF u \in Continuous THEN CommandContinuous(u, s, on)
                     ELSE CommandSampled(u, s, on)

\* _pwm_write_lines
Write(w, on, k) ==
    [w EXCEPT !.completed = w.shadow, !.shadow = [on |-> on, stamp |-> k]]

\* _pwm_load_lines: k is the next interrupt, so the word of the one before it
\* is in the shadow register.
LoadWord(u, w, k) ==
    [w EXCEPT !.active =
        IF ClockAt(Clocks[u], k - 1) + Computation[u] <= t THEN w.shadow ELSE w.completed]

\* Mutant: the load comes first whatever the computation time.
LoadsFirst(u, w, on) ==
    LET k == clock[u]
        loaded == IF t = LoadTime(u) THEN LoadWord(u, w, k) ELSE w
    IN  IF t = NextTime(u) THEN Write(loaded, on, k) ELSE loaded

\* The registers at one instant: event_methods writes before the load when the
\* computation takes no time, and after it when it does.
Registers(u, w, on) ==
    LET k == clock[u]
        loads(v, n) == IF t = LoadTime(u) THEN LoadWord(u, v, n) ELSE v
        written(v) == IF t = NextTime(u) THEN Write(v, on, k) ELSE v
    IN  IF Computation[u] = 0
        THEN loads(written(w), IF t = NextTime(u) THEN k + 1 ELSE k)
        ELSE written(loads(w, k))

\* The gates and the held input after the registers.
Driven(u, s, w) ==
    IF t # LoadTime(u) THEN s
    ELSE LET gates == Stage(u, s, w.active.on)
         IN  Terminal(u, [s EXCEPT !.gates = gates,
                                   !.driven = u \in Unfiltered => gates])

----------------------------------------------------------------------------
\* The event grid

ActionTimes == {Events[i].t : i \in action .. Len(Events)}

\* Mutant: the clocks of discrete black boxes are left out of the grid.
CircuitTimesOfUnits ==
    ActionTimes \cup {NextTime(u) : u \in Sampled} \cup {LoadTime(u) : u \in Sampled}

CircuitTimes ==
    ActionTimes \cup {NextTime(o) : o \in Sampled \cup BlackBoxes}
                \cup {LoadTime(u) : u \in Sampled}

PhysicalTimes == CircuitTimes \cup {NextTime(u) : u \in Continuous}
OutputTime == output * OutputPeriod

\* The first instant at which something is due.
IsBoundary(at) ==
    LET times == {End, OutputTime} \cup PhysicalTimes
    IN  at \in times /\ \A x \in times : at <= x

\* What is due for a unit at an instant; every load is an edge of its bridge.
DueAt(u, at) ==
    IF u \in Continuous THEN [edge |-> at = NextTime(u), control |-> at = NextTime(u),
                              load |-> FALSE]
    ELSE [edge |-> at = LoadTime(u), control |-> at = NextTime(u),
          load |-> at = LoadTime(u)]

NothingDue == [edge |-> FALSE, control |-> FALSE, load |-> FALSE]

\* Every unit with something due begins the instant.
Entered(h, at) ==
    [u \in Units |-> IF h[u].stage = "idle" /\ DueAt(u, at) # NothingDue
                     THEN [h[u] EXCEPT !.stage = "protect", !.due = DueAt(u, at)] ELSE h[u]]

\* A unit has had its turn in a phase.
Past(h, u, stage) ==
    IF h[u].stage = "idle" THEN h
    ELSE [h EXCEPT ![u].stage = stage,
                   ![u].due = IF stage = "idle" THEN NothingDue ELSE @]

\* The turns of a phase, over its owners in their order.
Owner == order[turn]
Ends(phase) == turn = IF phase = "protect" THEN Cardinality(Units) ELSE Len(order)
Turn(phase, to) ==
    /\ pc = phase
    /\ IF Ends(phase) THEN pc' = to /\ turn' = 1 ELSE pc' = pc /\ turn' = turn + 1

----------------------------------------------------------------------------
\* The constructor: the circuits take the modes of the initial commands, the
\* connected continuous units are tracked, and the windows start.
Initial(u, latched) ==
    LET on == u \in Connected /\ ~latched
    IN  Terminal(u, [trip |-> IF latched THEN "restored" ELSE "none", fault |-> FALSE,
                     breaker |-> on, gates |-> on /\ u \in Continuous, run |-> on,
                     branch |-> FALSE, linkTripped |-> latched,
                     driven |-> u \notin Unfiltered, tripDue |-> FALSE,
                     trackDue |-> FALSE, pending |-> "none"])

Init ==
    /\ pc = "boundary" /\ turn = 1 /\ order \in Orders /\ stop \in StopChoices
    /\ t = Start /\ action = 1
    /\ output = IndexAtOrAfter([period |-> OutputPeriod, offset |-> 0], Start)
    /\ clock = [o \in Owners |-> StartIndex(Clocks[o], Start, FALSE)]
    /\ load = [u \in Sampled |-> StartIndex(Loads[u], Start, FALSE)]
    /\ \E latched \in SUBSET Units : units = [u \in Units |-> Initial(u, u \in latched)]
    /\ words = [u \in Sampled |->
                   LET word == [on |-> FALSE, stamp |-> clock[u] - 1]
                   IN  [active |-> word, shadow |-> word, completed |-> word]]
    /\ LET own == [o \in Owners |-> IF o \in Connected \cap Continuous THEN Start
                                    ELSE Start - 1]
           value == Value([touched |-> own, mode |-> Flags(units)], units, 1)
       IN  /\ plant = [touched |-> own, mode |-> Flags(units), obs |-> value,
                       windows |-> [w \in Windowed |-> [anchor |-> value, closed |-> value,
                                                        upto |-> Start]]]
           /\ arrival = value
           /\ sampled = [o \in Owners |-> [at |-> Start - 1, saw |-> value]]
    /\ waiting = {}
    /\ flags = [circuit |-> FALSE, trip |-> FALSE]
    /\ history = [u \in Units |-> LET on == u \in Connected
                     IN  [stage |-> "idle", due |-> NothingDue, command |-> on,
                          source |-> on, aligned |-> on, reports |-> 0]]

\* The windows that an instant closes before anything changes there.
Closing(at) == IF at \in CircuitTimes THEN Windowed
               ELSE {w \in Windowed \cap Continuous : at = NextTime(w)}

\* Integrate to the next instant, renew the stores and close the windows.
Boundary ==
    /\ pc = "boundary"
    /\ \E at \in t .. End :
          /\ IsBoundary(at)
          /\ t' = at
          /\ arrival' = Value(plant, units, action)
          /\ plant' = Accumulate(Sync(plant, units, action), Closing(at), at)
          /\ flags' = [circuit |-> at \in CircuitTimes, trip |-> FALSE]
          /\ history' = IF at \in ActionTimes THEN history ELSE Entered(history, at)
          /\ pc' = CASE at \notin PhysicalTimes -> "log"
                     [] at \in ActionTimes -> "actions"
                     [] OTHER -> "protect"
    /\ UNCHANGED <<order, stop, turn, action, output, clock, load, units, words,
                   waiting, sampled>>

\* The history of a unit that a file event connects or disconnects.
Commanded(u, on) ==
    [history[u] EXCEPT !.stage = "protect", !.due = DueAt(u, t), !.command = on,
                       !.source = on /\ ~Tripped(units[u]),
                       !.aligned = @ /\ units[u].breaker /\ units[u].gates]

\* apply_action: one file event due now; after the last one the circuits and
\* the stores follow.
ApplyAction ==
    /\ pc = "actions"
    /\ LET event == Events[action]
           reaches == "unit" \in DOMAIN event
           more == action < Len(Events) /\ Events[action + 1].t <= t
           us == IF reaches
                 THEN [units EXCEPT ![event.unit] = Command(event.unit, @, event.on)]
                 ELSE units
           told == IF reaches
                   THEN [history EXCEPT ![event.unit] = Commanded(event.unit, event.on)]
                   ELSE history
           n == action + 1
       IN  /\ units' = us /\ action' = n
           /\ plant' = IF more THEN plant ELSE Sync(Reconcile(plant, us, n), us, n)
           /\ history' = IF more THEN told ELSE Entered(told, t)
           /\ pc' = IF more THEN "actions" ELSE "protect"
    /\ UNCHANGED <<order, stop, turn, t, output, clock, load, words, waiting, flags,
                   sampled, arrival>>

\* After the fast checks of all units, when one of them tripped.
AfterTrips(us) == Sync(Accumulate(Reconcile(plant, us, action), Windowed, t), us, action)

Reported(h, u, trips) == IF trips THEN [h EXCEPT ![u].reports = @ + 1] ELSE h

\* protect: the fast check of one unit at its own edge.
Protect ==
    /\ pc = "protect"
    /\ LET u == Owner
           checked == DueAt(u, t).edge /\ ~Tripped(units[u])
       IN  \E over \in IF checked THEN BOOLEAN ELSE {FALSE} :
              LET us == IF over
                        THEN [units EXCEPT ![u] = TripBody(u, Latch(@, "overcurrent"))]
                        ELSE units
                  trip == flags.trip \/ over
              IN  /\ units' = us
                  /\ flags' = [flags EXCEPT !.trip = trip]
                  /\ plant' = IF Ends("protect") /\ trip THEN AfterTrips(us) ELSE plant
                  /\ history' = Reported(Past(history, u, "sense"), u, over)
                  /\ Turn("protect", IF trip /\ stop THEN "done" ELSE "sense")
    /\ UNCHANGED <<order, stop, t, action, output, clock, load, words, waiting, sampled,
                   arrival>>

\* sampled_protect: what the sampled criteria latch is acted on in actuate.
Checked(s, due, bad) ==
    IF due /\ bad /\ ~Tripped(s) /\ s.run
    THEN [Latch(s, "sampled") EXCEPT !.tripDue = TRUE] ELSE s

\* Mutant: a tracked controller changes the plant after the stores were read.
TrackUnsynced(o) == Touch(plant, o)

\* track, and the sync that follows a sense which changed something.
Track(o) == Sync(Touch(plant, o), units, action)

\* sense of one owner.
Sense ==
    /\ pc = "sense"
    /\ LET o == Owner
           due == t = NextTime(o)
       IN  /\ IF o \in BlackBoxes
              THEN /\ waiting' = IF due THEN waiting \cup {o} ELSE waiting
                   /\ UNCHANGED <<units, history, plant>>
              ELSE /\ \E bad \in IF due THEN BOOLEAN ELSE {FALSE} :
                         units' = [units EXCEPT ![o] =
                             [Checked(@, due, bad) EXCEPT
                                 !.trackDue = FALSE,
                                 !.pending = IF ~due \/ o \in Continuous
                                             THEN units[o].pending
                                             ELSE IF units[o].run THEN "on" ELSE "off"]]
                   /\ plant' = IF units[o].trackDue THEN Track(o) ELSE plant
                   /\ history' = [Past(history, o, "actuate") EXCEPT ![o].aligned =
                                     @ \/ (units[o].trackDue /\ ~Tripped(units[o]))]
                   /\ UNCHANGED waiting
           /\ clock' = [clock EXCEPT ![o] = IF due /\ o \in Continuous THEN @ + 1 ELSE @]
           /\ sampled' = [sampled EXCEPT ![o] =
                  IF due THEN [at |-> t, saw |-> plant.obs] ELSE @]
           /\ Turn("sense", "actuate")
    /\ UNCHANGED <<order, stop, t, action, output, load, words, flags, arrival>>

\* Mutant: only the interrupts and events start the windows again.
ReseedAtCircuit(us, p, trip) == IF flags.circuit THEN Reseed(p, us, action) ELSE p

\* Where the windows start again at the end of an instant.
NewWindows(us, p, trip) == IF flags.circuit \/ trip THEN Reseed(p, us, action) ELSE p

\* After the actuation of all owners.
AfterActuation(us, p, trip) ==
    LET switched == Reconcile(p, us, action)
        settled == IF trip THEN Accumulate(switched, Windowed, t) ELSE switched
    IN  IF trip /\ stop THEN Sync(settled, us, action)
        ELSE NewWindows(us, settled, trip)

\* actuate of one owner: a trip latched by sense first, then its output.
Actuate ==
    /\ pc = "actuate"
    /\ LET o == Owner
           trips == o \in Units /\ units[o].tripDue
           s == IF trips THEN [TripBody(o, units[o]) EXCEPT !.tripDue = FALSE]
                ELSE units[o]
           w == Registers(o, words[o], Stage(o, s, s.pending = "on"))
           us == CASE o \in Sampled ->
                         [units EXCEPT ![o] = [Driven(o, s, w) EXCEPT
                             !.pending = IF t = NextTime(o) THEN "none" ELSE @]]
                   [] o \in Continuous -> [units EXCEPT ![o] = s]
                   [] o \in BlackBoxes -> units
           drives == o \in waiting \/ (o \in Sampled /\ t = LoadTime(o))
           p == IF drives THEN Touch(plant, o) ELSE plant
           trip == flags.trip \/ trips
       IN  /\ units' = us
           /\ words' = IF o \in Sampled THEN [words EXCEPT ![o] = w] ELSE words
           /\ clock' = [clock EXCEPT ![o] =
                  IF o \in waiting \/ (o \in Sampled /\ t = NextTime(o)) THEN @ + 1 ELSE @]
           /\ load' = IF o \in Sampled /\ t = LoadTime(o) THEN [load EXCEPT ![o] = @ + 1]
                      ELSE load
           /\ waiting' = waiting \ {o}
           /\ flags' = [flags EXCEPT !.trip = trip]
           /\ plant' = IF Ends("actuate") THEN AfterActuation(us, p, trip) ELSE p
           /\ history' = IF o \in BlackBoxes THEN history
                         ELSE Reported(Past(history, o, "idle"), o, trips)
           /\ Turn("actuate", IF trip /\ stop THEN "done" ELSE "log")
    /\ UNCHANGED <<order, stop, t, action, output, sampled, arrival>>

\* The end of an iteration: the last snapshot, or an output row.
Log ==
    /\ pc = "log"
    /\ IF t = End
       THEN pc' = "done" /\ plant' = Sync(plant, units, action) /\ UNCHANGED output
       ELSE /\ pc' = "boundary"
            /\ IF t = OutputTime
               THEN output' = output + 1 /\ plant' = Sync(plant, units, action)
               ELSE UNCHANGED <<output, plant>>
    /\ UNCHANGED <<order, stop, turn, t, action, clock, load, units, words, waiting, flags,
                   sampled, arrival, history>>

Next == Boundary \/ ApplyAction \/ Protect \/ Sense \/ Actuate \/ Log

Spec == Init /\ [][Next]_vars

----------------------------------------------------------------------------
(***************************************************************************)
(* Properties.                                                             *)
(***************************************************************************)
\* The value of the plant at this moment.
Present == Value(plant, units, action)

Unit == [trip : {"none", "restored", "overcurrent", "sampled"}, fault : BOOLEAN,
         breaker : BOOLEAN, gates : BOOLEAN, run : BOOLEAN, branch : BOOLEAN,
         linkTripped : BOOLEAN, driven : BOOLEAN, tripDue : BOOLEAN, trackDue : BOOLEAN,
         pending : {"none", "off", "on"}]

TypeOK ==
    /\ pc \in {"boundary", "actions", "protect", "sense", "actuate", "log", "done"}
    /\ turn \in 1 .. Len(order) /\ t \in Start .. End
    /\ action \in 1 .. (Len(Events) + 1) /\ output \in Nat
    /\ clock \in [Owners -> Int] /\ load \in [Sampled -> Int]
    /\ units \in [Units -> Unit] /\ waiting \subseteq BlackBoxes
    /\ flags \in [circuit : BOOLEAN, trip : BOOLEAN]

\* Where an integration begins, every circuit is in the mode that its switches
\* command now, and every window starts from the outputs on this side of all
\* jumps: `reconcile_circuits' and `sync<true>' have followed every command,
\* trip and load, whichever method gave it (cpp.py, run).
BoundaryIsSettled ==
    pc = "boundary" =>
        /\ plant.mode = Flags(units)
        /\ \A w \in Windowed : plant.windows[w].anchor = Present

\* A window that closes does so on the plant it found on arrival, before the
\* file events, trips and loads of the instant.  Where only continuous units
\* are due, the other windows are still open when a trip moves the circuits.
WindowsCloseFirst ==
    \A w \in Windowed :
        plant.windows[w].upto = t => \/ plant.windows[w].closed = arrival
                                     \/ flags.trip /\ ~flags.circuit

\* The circuits and the windows follow the plant, under the types above.
PlantIsFollowed == TypeOK /\ BoundaryIsSettled /\ WindowsCloseFirst

\* Whatever owner samples, in whatever order, the stores it reads are those of
\* the present plant: all file events and trips of the instant are in them,
\* and no output of the instant (cpp.py, sense methods).  A continuous unit
\* that is tracked in the same turn checks the values from before.
SamplesArePresent ==
    [][\A o \in Owners : sampled'[o] # sampled[o] =>
          \/ sampled'[o].saw = Present'
          \/ o \in Continuous /\ units[o].trackDue]_vars

\* The clocks of the program, by what they drive.
AllClocks ==
    [c \in {<<o, "clock">> : o \in Owners} \cup {<<u, "load">> : u \in Sampled} |->
        IF c[2] = "clock" THEN Clocks[c[1]] ELSE Loads[c[1]]]
AllIndices ==
    [c \in DOMAIN AllClocks |-> IF c[2] = "clock" THEN clock[c[1]] ELSE load[c[1]]]

\* The exported program serves its clocks, file events and rows exactly as the
\* simulation does (cpp.py, run; InstantService).
Instants == INSTANCE InstantService WITH
    Clocks <- AllClocks, EventTimes <- [i \in 1 .. Len(Events) |-> Events[i].t],
    Final <- End, LogPeriod <- OutputPeriod, Resumed <- FALSE,
    now <- t, index <- AllIndices, next <- action, nlog <- output

ImplementsInstants == Instants!Spec

FormOf(v) == [filtered |-> v \notin Unfiltered, continuous |-> v \in Continuous,
              computation |-> v \in Sampled /\ Computation[v] > 0]

\* The enable bits, and whether no load has seen the latest one completed.
WordsOf(v) ==
    IF v \in Continuous
    THEN [active |-> FALSE, shadow |-> FALSE, completed |-> FALSE, computing |-> FALSE]
    ELSE [active |-> words[v].active.on, shadow |-> words[v].shadow.on,
          completed |-> words[v].completed.on,
          computing |-> Computation[v] > 0
                        /\ words[v].active.stamp # words[v].shadow.stamp]

\* A fast trip leaves a pending track to the next sense of the tripped unit.
UnitOf(v) ==
    [trip |-> units[v].trip, fault |-> units[v].fault, breaker |-> units[v].breaker,
     gates |-> units[v].gates, branch |-> units[v].branch, source |-> history[v].source,
     linkTripped |-> units[v].linkTripped, run |-> units[v].run,
     driven |-> units[v].driven, tripDue |-> units[v].tripDue,
     trackDue |-> units[v].trackDue /\ ~Tripped(units[v])]

Lifecycle(v) == INSTANCE UnitLifecycle WITH
    Forms <- {FormOf(v)}, form <- FormOf(v), pc <- history[v].stage,
    due <- history[v].due, command <- history[v].command, u <- UnitOf(v),
    word <- WordsOf(v), pending <- units[v].pending, aligned <- history[v].aligned,
    reports <- history[v].reports

\* The registers as the delay line between interrupts and loads.
TimingOf(v) ==
    [control |-> Clocks[v], loads |-> Loads[v], computation |-> Computation[v]]

Delay(v) == INSTANCE PwmDelay WITH
    Timings <- {TimingOf(v)}, timing <- TimingOf(v),
    StartTimes <- {Start}, j <- load[v],
    first <- StartIndex(Clocks[v], Start, FALSE), applied <- words[v].active.stamp

\* Every unit of the program goes through the lifecycle that the simulation's
\* units do, trips, connections and gates included, and the enable it applies
\* at a load is that of the newest interrupt whose computation has completed
\* (cpp.py, the methods of a unit; UnitLifecycle; PwmDelay).
ImplementsUnits ==
    /\ \A v \in Units : Lifecycle(v)!Init
    /\ \A v \in Sampled : Delay(v)!Init
    /\ [][/\ \A v \in Units : [Lifecycle(v)!Next]_(Lifecycle(v)!vars)
          /\ \A v \in Sampled : [Delay(v)!Load]_(Delay(v)!vars)]_vars

=============================================================================
