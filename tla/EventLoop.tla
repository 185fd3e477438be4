----------------------------- MODULE EventLoop -----------------------------
(***************************************************************************)
(* The event loop of one run (solver/simulation.py, Simulation.run) with   *)
(* the access to the shared plant that it gives to the clocked owners      *)
(* (assembly/unit.py, Plant; the begin, protect, sense and actuate of      *)
(* units and discrete black boxes).                                        *)
(*                                                                         *)
(* The loop advances to the next instant among the file events, the        *)
(* owners' clocks, the output grid and the times an observer asked for,    *)
(* and processes everything due there.  One action below is one owner's    *)
(* turn.  The order of turns within a phase is the assembly order of the   *)
(* owners, which is left open.                                             *)
(*                                                                         *)
(* What the plant computes is left out.  Its value is the set of causes    *)
(* that make its outputs jump: file events applied, breakers, trips, and   *)
(* the last instant at which each owner changed its own output.            *)
(***************************************************************************)
EXTENDS PeriodicClock, FiniteSets, Sequences, FiniteSetsExt

CONSTANTS
    Units,        \* converter units
    BlackBoxes,   \* discrete black boxes (event_subsystems)
    Continuous,   \* units with ideal averaging; the others are sampled
    Unfiltered,   \* units without a series filter branch
    Windowed,     \* units whose ADC integrates between its samples
    Connected,    \* units connected at the start
    Clocks,       \* clock of every owner
    Events,       \* file events after the start, in the order of time
    Start, Final, \* t_start and t_final
    LogPeriod,    \* output period
    Requested,    \* observation times asked for before the run
    MaxRequests,  \* bound on the times an observer asks for later
    Resumed,      \* the run continues a saved row
    StopOnTrip,   \* simulation.stop_on_trip
    Limited,      \* the run has a time or evaluation limit
    Faulty        \* the plant may overflow

Owners == Units \cup BlackBoxes
Sampled == Units \ Continuous

\* A file event connects or disconnects a unit, or changes parameters.
Event == [t : Nat, unit : Units, on : BOOLEAN]
         \cup [t : Nat, parameters : {TRUE}]

ASSUME LoopAssumption ==
    /\ IsFiniteSet(Units) /\ IsFiniteSet(BlackBoxes)
    /\ Units # {} /\ Units \cap BlackBoxes = {}
    /\ Continuous \subseteq Units /\ Unfiltered \subseteq Units
    /\ Windowed \subseteq Units /\ Connected \subseteq Units
    /\ Clocks \in [Owners -> Clock]
    /\ Start \in Nat /\ Final \in Nat /\ Start < Final /\ LogPeriod \in Nat \ {0}
    /\ Events \in Seq(Event)
    /\ \A i \in 1..Len(Events) : Events[i].t > Start
    /\ \A i, j \in 1..Len(Events) : i < j => Events[i].t <= Events[j].t
    /\ Requested \subseteq Start..Final /\ MaxRequests \in Nat
    /\ {Resumed, StopOnTrip, Limited, Faulty} \subseteq BOOLEAN

VARIABLES
    pc,           \* place in the loop
    todo,         \* owners whose turn in this phase is still to come
    now,          \* t_local
    index,        \* clock index of every owner
    next,         \* first file event not yet applied
    nlog,         \* n_log, index of the next output row
    observations, \* observation times still to come
    due,          \* what the current iteration found due
    sim,          \* the plant, its cached outputs, windows and pending work
    sampled,      \* history: when an owner last sampled, and what it saw
    rows,         \* history: times of the output rows
    lost,         \* history: times whose snapshot failed
    wanted,       \* history: every observation time asked for
    told          \* history: times the observer was called at

vars == <<pc, todo, now, index, next, nlog, observations, due, sim, sampled,
          rows, lost, wanted, told>>

----------------------------------------------------------------------------
\* The shared plant

\* Plant.outputs: the cached outputs are renewed after an integration, a
\* change or a hold, and only then.
Outputs(s) ==
    [s EXCEPT !.view = IF s.synced /\ ~s.zoh THEN @ ELSE s.plant,
              !.synced = TRUE, !.zoh = FALSE]

\* ADC.accumulate_to: close the interval since the last one, and remember the
\* outputs as the first end of the next.
Accumulate(s, units, t) ==
    IF units = {} THEN s
    ELSE LET read == Outputs(s)
         IN  [read EXCEPT !.windows = [w \in Windowed |->
                 IF w \in units /\ t > @[w].upto
                 THEN [anchor |-> read.view, upto |-> t] ELSE @[w]]]

\* Mutant: the cached outputs survive a change.
ChangeCached(s, t, plant) ==
    [Accumulate(s, Windowed, t) EXCEPT !.plant = plant, !.changed = TRUE]

\* Plant.change with settle_now: windows end on the values before the change.
Change(s, t, plant) ==
    [Accumulate(s, Windowed, t) EXCEPT !.plant = plant, !.synced = FALSE,
                                       !.changed = TRUE]

\* The same before the first iteration, when no settle is installed.
ChangeUnsettled(s, plant) ==
    [s EXCEPT !.plant = plant, !.synced = FALSE, !.changed = TRUE]

Touched(plant, o, t) == [plant EXCEPT !.touched[o] = t]

Hold(s, o, t) == [s EXCEPT !.plant = Touched(@, o, t), !.zoh = TRUE]

\* Unit.trip: the unit leaves the plant for good.
TripUnit(s, u, t) ==
    [Change(s, t, [s.plant EXCEPT !.tripped = @ \cup {u}, !.open = @ \cup {u}])
        EXCEPT !.trackDue = @ \ {u}, !.tripDue = @ \ {u}]

\* ADC.seed of every window, on the new side of a jump.
Seed(s, units) ==
    LET read == Outputs(s)
    IN  [read EXCEPT !.windows = [w \in Windowed |->
            IF w \in units THEN [@[w] EXCEPT !.anchor = read.view] ELSE @[w]]]

\* Unit.connect for a connection event; a parameter event only counts.
Apply(s, event) ==
    LET counted == [s.plant EXCEPT !.applied = @ + 1]
        reaches == "unit" \in DOMAIN event
        on == reaches /\ event.on /\ event.unit \notin s.plant.tripped
        starts == on /\ event.unit \in s.plant.open \cap Continuous
    IN  IF ~reaches THEN [s EXCEPT !.plant = counted]
        ELSE [s EXCEPT
                 !.plant = [counted EXCEPT
                     !.open = IF on THEN @ \ {event.unit} ELSE @ \cup {event.unit}],
                 !.trackDue = IF starts THEN @ \cup {event.unit}
                                        ELSE @ \ {event.unit}]

\* The sampled output of a disconnected unfiltered unit is held at zero.
Enabled(s, u) == u \notin s.plant.tripped /\ ~(u \in Unfiltered /\ u \in s.plant.open)

----------------------------------------------------------------------------
\* The event grid

NextTime(o) == ClockAt(Clocks[o], index[o])

\* A black box compares with <=, a unit with the tolerance of its clock.
IsDue(o) == IF o \in BlackBoxes THEN NextTime(o) <= now
            ELSE ClockDue(Clocks[o], now, index[o])

ActionTimes == {Events[i].t : i \in next..Len(Events)}

\* Mutant: the clocks of discrete black boxes are left out of the grid.
CircuitTimesOfUnits == ActionTimes \cup {NextTime(o) : o \in Sampled}

\* The instants at which the circuit changes for every unit.
CircuitTimes == ActionTimes \cup {NextTime(o) : o \in Sampled \cup BlackBoxes}

PhysicalTimes == CircuitTimes \cup {NextTime(u) : u \in Continuous}
LogTime == nlog * LogPeriod


\* Mutant: the output grid does not stop the integration.
StopWithoutLog == Min({Final} \cup PhysicalTimes)

NativeStop == Min({Final, LogTime} \cup PhysicalTimes)
Stop == Min({NativeStop} \cup observations)

Idle == [log |-> FALSE, observation |-> FALSE, event |-> FALSE,
         circuit |-> FALSE, physical |-> FALSE, trip |-> FALSE]

\* The flags of the iteration that stops at t.
DueAt(t) ==
    [log |-> t = LogTime, observation |-> t \in observations,
     event |-> t \in ActionTimes, circuit |-> t \in CircuitTimes,
     physical |-> t \in PhysicalTimes, trip |-> FALSE]

\* The order of the phases; every owner has had its turn before the next.
After(phase, tripped) ==
    CASE phase = "begin" -> "head"
      [] phase = "protect" -> IF tripped /\ StopOnTrip THEN "final" ELSE "sense"
      [] phase = "sense" -> "actuate"
      [] phase = "actuate" -> IF tripped /\ StopOnTrip THEN "final" ELSE "edge"

Taking(phase) == IF phase = "protect" THEN Units ELSE Owners

\* One owner's turn of a phase ends, perhaps with a trip.
Turn(o, phase, tripped) ==
    LET trip == due.trip \/ tripped
        to == IF todo = {o} THEN After(phase, trip) ELSE phase
    IN  /\ pc = phase
        /\ o \in todo
        /\ todo' = IF todo # {o} THEN todo \ {o}
                   ELSE IF to \in {"sense", "actuate"} THEN Taking(to) ELSE {}
        /\ due' = [due EXCEPT !.trip = trip]
        /\ pc' = to

----------------------------------------------------------------------------
NoPlant == [applied |-> 0, open |-> Units \ Connected, tripped |-> {},
            touched |-> [o \in Owners |-> Start - 1]]

Init ==
    /\ pc = "begin" /\ todo = Owners
    /\ now = Start
    /\ index = [o \in Owners |-> 0]
    /\ next = 1
    /\ nlog = IndexAtOrAfter([period |-> LogPeriod, offset |-> 0], Start)
    /\ observations = Requested
    /\ due = Idle
    /\ sim = [plant |-> NoPlant, view |-> NoPlant, synced |-> FALSE,
              zoh |-> FALSE, changed |-> FALSE, trackDue |-> {}, tripDue |-> {},
              windows |-> [w \in Windowed |-> [anchor |-> NoPlant, upto |-> Start]]]
    /\ sampled = [o \in Owners |-> [at |-> Start - 1, saw |-> NoPlant]]
    /\ rows = <<>> /\ lost = {} /\ told = {}
    /\ wanted = Requested

\* Unit.begin and the begin of a black box.  A fresh run tracks the connected
\* controllers and seeds the windows; a continued one has restored both.  The
\* controller of a continuous unit is part of the plant.
Begin(o) ==
    LET track == o \in Connected /\ ~Resumed
        jump == IF o \in Continuous THEN Touched(sim.plant, o, Start) ELSE sim.plant
        tracked == IF track THEN ChangeUnsettled(Outputs(sim), jump) ELSE sim
        held == IF o \in Sampled THEN [tracked EXCEPT !.zoh = TRUE] ELSE tracked
    IN  /\ Turn(o, "begin", FALSE)
        /\ index' = [index EXCEPT ![o] = StartIndex(Clocks[o], Start, Resumed)]
        /\ sim' = [IF o \in BlackBoxes THEN sim
                   ELSE Seed(held, IF Resumed THEN {} ELSE {o})
                       EXCEPT !.synced = @ /\ todo # {o}]
        /\ UNCHANGED <<now, next, nlog, observations, sampled, rows, lost, wanted, told>>

\* A limit is only checked between instants.
Limit ==
    /\ pc = "head" /\ Limited
    /\ pc' = "final"
    /\ UNCHANGED <<todo, now, index, next, nlog, observations, due, sim, sampled,
                   rows, lost, wanted, told>>

\* The integration to the next instant overflows on the way, which keeps the
\* old time, or ends in states that are not finite.
Diverge ==
    /\ pc = "head" /\ Faulty /\ Stop > now
    /\ observations' = {t \in observations : t > Stop}
    /\ now' \in {now, Stop}
    /\ pc' = "final"
    /\ UNCHANGED <<todo, index, next, nlog, due, sim, sampled, rows, lost, wanted, told>>

\* Select the next instant and integrate up to it.
Advance ==
    /\ pc = "head"
    /\ now' = Stop
    /\ due' = DueAt(Stop)
    /\ observations' = {t \in observations : t > Stop}
    /\ sim' = [sim EXCEPT !.changed = FALSE, !.synced = @ /\ Stop = now]
    /\ pc' = CASE Stop < NativeStop -> "observe"
               [] Stop \in PhysicalTimes -> "windows"
               [] OTHER -> "log"
    /\ UNCHANGED <<todo, index, next, nlog, sampled, rows, lost, wanted, told>>

\* Every window is closed where the circuit may change.
Closing == IF due.circuit THEN Windowed ELSE {w \in Windowed : IsDue(w)}

\* The windows are closed on the values before any file event.
CloseWindows ==
    /\ pc = "windows"
    /\ sim' = Accumulate(sim, Closing, now)
    /\ pc' = IF due.event THEN "events" ELSE "protect"
    /\ todo' = IF due.event THEN {} ELSE Units
    /\ UNCHANGED <<now, index, next, nlog, observations, due, sampled, rows, lost,
                   wanted, told>>

\* The event after this one is due at this instant too.
More == next < Len(Events) /\ Events[next + 1].t <= now

\* One file event due now; they are applied in the order of the file.
ApplyEvent ==
    /\ pc = "events"
    /\ sim' = [Apply(sim, Events[next]) EXCEPT !.synced = FALSE, !.changed = TRUE]
    /\ next' = next + 1
    /\ pc' = IF More THEN "events" ELSE "protect"
    /\ todo' = IF More THEN {} ELSE Units
    /\ UNCHANGED <<now, index, nlog, observations, due, sampled, rows, lost,
                   wanted, told>>

\* Unit.protect: the fast check of a unit at its own edge or clock.
Protect(u) ==
    LET checked == IsDue(u) /\ u \notin sim.plant.tripped
    IN  \E fault \in IF checked THEN BOOLEAN ELSE {FALSE} :
            /\ Turn(u, "protect", fault)
            /\ sim' = CASE fault -> TripUnit(Outputs(sim), u, now)
                        [] ~fault /\ checked -> Outputs(sim)
                        [] OTHER -> sim
            /\ UNCHANGED <<now, index, next, nlog, observations, sampled, rows,
                           lost, wanted, told>>

\* Mutant: a black box commits as soon as it has sampled.
TrackedAndCommitted(s, o) ==
    IF o \in BlackBoxes /\ IsDue(o)
    THEN Change(Outputs(s), now, Touched(s.plant, o, now))
    ELSE IF IsDue(o) THEN Outputs(s) ELSE s

\* What an owner reads when it samples; a continuous unit that was just
\* connected tracks its controller first, which changes the plant.
Tracked(s, o) ==
    IF o \in s.trackDue
    THEN Outputs([Change(Outputs(s), now, Touched(s.plant, o, now))
                     EXCEPT !.trackDue = @ \ {o}])
    ELSE IF IsDue(o) THEN Outputs(s) ELSE s

\* sense of a unit or a black box.  A continuous unit moves its clock here.
Sense(o) ==
    LET read == Tracked(sim, o)
        checked == IsDue(o) /\ o \in Units \ sim.plant.tripped
    IN  /\ Turn(o, "sense", FALSE)
        /\ \E fault \in IF checked THEN BOOLEAN ELSE {FALSE} :
               sim' = IF fault THEN [read EXCEPT !.tripDue = @ \cup {o}] ELSE read
        /\ index' = [index EXCEPT ![o] = IF o \in Continuous /\ IsDue(o)
                                         THEN @ + 1 ELSE @]
        /\ sampled' = [sampled EXCEPT ![o] = IF IsDue(o)
                           THEN [at |-> now, saw |-> read.view] ELSE @]
        /\ UNCHANGED <<now, next, nlog, observations, rows, lost, wanted, told>>

\* The bridge of a sampled unit: it drives the plant at its own instants, and
\* may switch its gates there; without enable it is held at zero.
Drive(s, u) ==
    LET driven == {Hold(s, u, now), Hold(Change(s, now, Touched(s.plant, u, now)), u, now)}
        blocked == IF u \in Unfiltered THEN [s EXCEPT !.zoh = TRUE] ELSE s
    IN  IF Enabled(s, u) THEN IF IsDue(u) THEN driven ELSE {s} ELSE {blocked}

\* actuate of a unit or a black box: the pending trip, then the output.
Actuate(o) ==
    LET trips == o \in sim.tripDue
        tripped == IF trips THEN TripUnit(sim, o, now) ELSE sim
    IN  /\ Turn(o, "actuate", trips)
        /\ sim' \in CASE o \in Sampled -> Drive(tripped, o)
                      [] o \in BlackBoxes /\ IsDue(o) ->
                             {Change(sim, now, Touched(sim.plant, o, now))}
                      [] OTHER -> {tripped}
        /\ index' = [index EXCEPT ![o] = IF o \notin Continuous /\ IsDue(o)
                                         THEN @ + 1 ELSE @]
        /\ UNCHANGED <<now, next, nlog, observations, sampled, rows, lost, wanted, told>>

\* Mutant: only held inputs count as a jump.
JumpedByHold == due.circuit /\ sim.zoh

\* Whether the windows have to start again from the new values.
Jumped == sim.changed \/ (due.circuit /\ sim.zoh)

\* window_edge.
WindowEdge ==
    /\ pc = "edge"
    /\ sim' = IF Windowed # {} /\ Jumped THEN Seed(sim, Windowed) ELSE sim
    /\ pc' = "log"
    /\ UNCHANGED <<todo, now, index, next, nlog, observations, due, sampled, rows,
                   lost, wanted, told>>

----------------------------------------------------------------------------
\* Output rows and observations

\* The observer may ask for a later time.
Call ==
    /\ told' = told \cup {now}
    /\ \E asked \in SUBSET ((now + 1)..Final) :
           /\ Cardinality(asked) <= 1
           /\ Cardinality(wanted) + Cardinality(asked)
                  <= Cardinality(Requested) + MaxRequests
           /\ observations' = observations \cup asked
           /\ wanted' = wanted \cup asked

\* snapshot: the row and the call of the observer.  One that fails before the
\* end drops both.
Snapshot(record, notify) ==
    \/ /\ rows' = IF record THEN Append(rows, now) ELSE rows
       /\ IF notify THEN Call ELSE UNCHANGED <<observations, wanted, told>>
       /\ sim' = Outputs(sim) /\ UNCHANGED lost
    \/ /\ Faulty
       /\ lost' = lost \cup {now}
       /\ UNCHANGED <<sim, rows, observations, wanted, told>>

Noticed == due.observation \/ due.event \/ due.trip

\* Mutant: a row that could not be written stays due.
LoggedRow == IF now \in lost' THEN nlog ELSE nlog + 1

\* The next row, whether or not this one could be written.
Logged == nlog + 1

\* The end of an iteration.
Log ==
    /\ pc = "log"
    /\ \/ /\ now = Final /\ pc' = "final"
          /\ UNCHANGED <<nlog, sim, rows, lost, observations, wanted, told>>
       \/ /\ now # Final /\ pc' = "head"
          /\ IF due.log \/ Noticed THEN Snapshot(due.log, Noticed)
             ELSE UNCHANGED <<sim, rows, lost, observations, wanted, told>>
          /\ nlog' = IF due.log THEN Logged ELSE nlog
    /\ UNCHANGED <<todo, now, index, next, due, sampled>>

\* An instant at which nothing but an observation is due.
Observe ==
    /\ pc = "observe"
    /\ Snapshot(FALSE, TRUE)
    /\ pc' = "head"
    /\ UNCHANGED <<todo, now, index, next, nlog, due, sampled>>

\* The final snapshot: the row can be unavailable, the observer is called.
Finish ==
    /\ pc = "final"
    /\ pc' = "done"
    /\ told' = told \cup {now}
    /\ \/ /\ rows' = Append(rows, now) /\ sim' = Outputs(sim) /\ UNCHANGED lost
       \/ /\ Faulty /\ lost' = lost \cup {now} /\ UNCHANGED <<rows, sim>>
    /\ UNCHANGED <<todo, now, index, next, nlog, observations, due, sampled, wanted>>

Next ==
    \/ Limit \/ Diverge \/ Advance \/ CloseWindows \/ ApplyEvent \/ WindowEdge
    \/ Log \/ Observe \/ Finish
    \/ \E o \in Owners : Begin(o) \/ Sense(o) \/ Actuate(o)
    \/ \E u \in Units : Protect(u)

Spec == Init /\ [][Next]_vars

\* One thread runs the loop to its end.
FairSpec == Spec /\ WF_vars(Next)

----------------------------------------------------------------------------
\* Properties

(***************************************************************************)
(* The invariant of the loop: its types, and for every source of instants  *)
(* what is still to come at each place of an iteration.                    *)
(***************************************************************************)
Plant == [applied : Nat, open : SUBSET Units, tripped : SUBSET Units,
          touched : [Owners -> Int]]

Sim == [plant : Plant, view : Plant, synced : BOOLEAN, zoh : BOOLEAN,
        changed : BOOLEAN, trackDue : SUBSET Units, tripDue : SUBSET Units,
        windows : [Windowed -> [anchor : Plant, upto : Nat]]]

Flags == [log : BOOLEAN, observation : BOOLEAN, event : BOOLEAN,
          circuit : BOOLEAN, physical : BOOLEAN, trip : BOOLEAN]

Phases == {"windows", "events", "protect", "sense", "actuate", "edge", "log"}

TypeOK ==
    /\ pc \in Phases \cup {"begin", "head", "observe", "final", "done"}
    /\ todo \subseteq IF pc = "protect" THEN Units ELSE Owners
    /\ now \in 0..Final /\ next \in 1..(Len(Events) + 1) /\ nlog \in Nat
    /\ index \in [Owners -> Int]
    /\ observations \subseteq Nat /\ due \in Flags /\ sim \in Sim
    /\ sampled \in [Owners -> [at : Int, saw : Plant]]
    /\ rows \in Seq(Nat)
    /\ lost \subseteq Nat /\ wanted \subseteq Nat /\ told \subseteq Nat

Ended == pc \in {"final", "done"}

\* Before the first iteration, where the start itself may be due.
Fresh == pc = "begin" \/ (pc = "head" /\ due = Idle)

\* The clock of o may still be due at this instant.
Pending(o) ==
    \/ Fresh \/ pc \in {"windows", "events", "protect"}
    \/ pc = "sense" /\ (o \in Continuous => o \in todo)
    \/ pc = "actuate" /\ o \notin Continuous /\ o \in todo

ClocksAhead ==
    \A o \in Owners : (pc = "begin" => o \notin todo) =>
        IF Pending(o) THEN now <= NextTime(o) ELSE now < NextTime(o)

EventsAhead ==
    /\ sim.plant.applied = next - 1
    /\ \A i \in 1..Len(Events) :
           IF i < next THEN Events[i].t <= now
           ELSE IF pc \in {"windows", "events"} THEN now <= Events[i].t
           ELSE now < Events[i].t
    /\ pc = "windows" => (due.event <=> now \in ActionTimes)
    /\ pc = "events" => next <= Len(Events) /\ Events[next].t = now

RowsAhead ==
    /\ Fresh \/ pc \in Phases => now <= LogTime
    /\ pc \in Phases => (due.log <=> now = LogTime)
    /\ ~Fresh /\ pc \in {"head", "observe"} => now < LogTime

ObservationsAhead ==
    \A t \in observations : IF Fresh THEN now <= t ELSE now < t

\* Owner o has sampled at this instant and not yet moved its clock.
HalfDone(o) ==
    /\ o \notin Continuous /\ NextTime(o) = now
    /\ \/ pc = "sense" /\ o \notin todo
       \/ pc = "actuate" /\ o \in todo

SamplesSpaced ==
    \A o \in Owners : sampled[o].at >= Start =>
        /\ pc # "begin"
        /\ NextTime(o) = IF HalfDone(o) THEN sampled[o].at
                         ELSE sampled[o].at + Clocks[o].period

\* The file events that a sample saw are those up to its time.
SamplesSee ==
    \A o \in Owners : sampled[o].at >= Start =>
        {i \in 1..Len(Events) : Events[i].t <= sampled[o].at}
            = 1..sampled[o].saw.applied

\* The cached outputs are those of the plant while they count as valid.
CacheCoherent == sim.synced /\ ~sim.zoh => sim.view = sim.plant

TripEnds ==
    StopOnTrip /\ sim.plant.tripped # {} =>
        Ended \/ (due.trip /\ pc \in {"protect", "actuate"})

AtStart == pc = "begin" => now = Start /\ due = Idle

IndInv ==
    /\ TypeOK /\ CacheCoherent /\ SamplesSee /\ TripEnds /\ AtStart
    /\ ~Ended => /\ ClocksAhead /\ EventsAhead /\ RowsAhead
                 /\ ObservationsAhead /\ SamplesSpaced

\* The first iteration has run; before it the start itself may be due.
Started == pc = "head" /\ due # Idle

\* Between instants nothing that was due is left behind: every clock, file
\* event, output row and observation still to come lies in the future.
NothingOverdue ==
    Started => /\ \A o \in Owners : NextTime(o) > now
               /\ \A t \in ActionTimes \cup observations : t > now
               /\ LogTime > now

\* No owner misses or repeats an update: successive samples of one owner are
\* one period of its clock apart.
NoSampleSkipped ==
    [][\A o \in Owners : sampled'[o] # sampled[o] =>
          sampled[o].at < Start \/ sampled'[o].at = sampled[o].at + Clocks[o].period]_vars

\* A sample taken at an instant sees all file events up to that instant and
\* none of a later one, coincident ones included.
EventsSeen ==
    \A o \in Owners : sampled[o].at >= Start =>
        sampled[o].saw.applied = Cardinality({i \in 1..Len(Events) :
                                                 Events[i].t <= sampled[o].at})

\* The cached outputs that an owner samples are those of the present plant.
ViewIsCurrent ==
    [][\A o \in Owners : sampled'[o] # sampled[o] => sampled'[o].saw = sim'.plant]_vars

ExceptTracking(plant) ==
    [plant EXCEPT !.touched = [o \in Owners \ Continuous |-> @[o]]]

\* Owners that sample at the same instant see the same plant, whatever their
\* order, except for what tracking a newly connected continuous unit changes.
SamplesAgree ==
    \A o, p \in Owners : sampled[o].at = sampled[p].at =>
        ExceptTracking(sampled[o].saw) = ExceptTracking(sampled[p].saw)

\* No averaging window integrates across a jump of the plant: when an
\* integration begins, every window starts from the present outputs.
WindowsMeetNoJump ==
    pc = "head" /\ Stop > now => \A w \in Windowed : sim.windows[w].anchor = sim.plant

\* The plant never changes under an open interval of a window: whatever owner
\* or event changes it, every window has been integrated up to that time.
ChangesAreSettled ==
    [][sim'.plant # sim.plant /\ pc # "begin" =>
          \A w \in Windowed : sim'.windows[w].upto = now]_vars

\* With stop_on_trip the run goes no further than the instant of a trip.
StopsAtTrip == StopOnTrip /\ pc = "head" => sim.plant.tripped = {}

\* The rows before the end are the output grid, in order and without gaps,
\* whatever else stops the integration; a row is missing only where its
\* snapshot failed.
RowsOnGrid ==
    Started => /\ \A i, j \in 1..Len(rows) : i < j => rows[i] < rows[j]
               /\ {t \in Start..now : t % LogPeriod = 0} \subseteq
                      {rows[i] : i \in 1..Len(rows)} \cup lost
               /\ \A i \in 1..Len(rows) : rows[i] % LogPeriod = 0

\* Every time an observer asked for is delivered, unless its snapshot failed
\* or the run ended before it, also when it coincides with other instants.
ObservedOnTime ==
    /\ pc = "head" => wanted \subseteq told \cup lost \cup observations
    /\ pc = "done" => {t \in wanted : t <= now} \subseteq told \cup lost

\* The indices of the run; the first is chosen when an owner begins.
Chosen == [o \in Owners |-> IF pc = "begin" /\ o \in todo
                            THEN StartIndex(Clocks[o], Start, Resumed) ELSE index[o]]

\* The last service of an owner, and what is so of it: it lies before the
\* instant until its file events have been applied.
LastTime(o) == ClockAt(Clocks[o], index[o] - 1)
LastServed ==
    ~Ended => \A o \in Owners : (pc = "begin" => o \notin todo) =>
        /\ LastTime(o) <= now
        /\ pc = "events" \/ (pc = "windows" /\ due.event) => LastTime(o) < now

\* Every clock, file event and output row is served at its instant, exactly
\* once and in the order of InstantService, although one owner's turn comes
\* after another's, snapshots fail and the run may end anywhere.
Instants == INSTANCE InstantService WITH
    EventTimes <- [i \in 1..Len(Events) |-> Events[i].t], index <- Chosen

ImplementsInstants == Instants!Spec

\* The run ends, also when snapshots fail and the observer asks for a later time.
Terminates == <>(pc = "done")

=============================================================================
