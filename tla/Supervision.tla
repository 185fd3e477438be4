---------------------------- MODULE Supervision ----------------------------
(***************************************************************************)
(* Start-up and protection of one converter unit over a run, its timeline  *)
(* of events and its restarts (assembly/unit.py: start, connect, retune,   *)
(* protect, sense, trip; solver/simulation.py, _apply_initial).            *)
(*                                                                         *)
(* The sampled criteria are blind while a start-up is in progress, a       *)
(* start-up ramp is counted in interrupts, and a run may start anywhere    *)
(* on the timeline: fresh, from some controller states, or from a whole    *)
(* saved row.  UnitLifecycle has the breakers and gates of the same unit;  *)
(* here are the numbers that decide when it trips.                         *)
(***************************************************************************)
EXTENDS StartUp, Protection

CONSTANTS
    Cases,       \* units and timelines checked
    Checked,     \* sampled criteria the unit measures
    Configured,  \* settings before the first event
    Horizon      \* bound on time

Events == [t : Nat, on : BOOLEAN, ramp : Nat] \cup [t : Nat, settings : Settings]

Case == [continuous : BOOLEAN, clock : Clock, initial : BOOLEAN, timeline : Seq(Events)]

ASSUME SupervisionAssumption ==
    /\ Cases \subseteq Case /\ Checked \subseteq Criteria
    /\ Configured \in Settings /\ Horizon \in Nat
    /\ \A c \in Cases : \A i, j \in DOMAIN c.timeline :
           i < j => c.timeline[i].t <= c.timeline[j].t

VARIABLES
    case,        \* the unit and its timeline
    settings,    \* protection settings in force
    now,
    applied,     \* events of the timeline that were applied
    phase,       \* of the instant `now': events, protect, sense, done
    index,       \* next interrupt
    startup,
    protection,
    ready,       \* the RMS window is full
    sampled,     \* history: an interrupt has set startup.value
    recounted,   \* history: this run repeats an interrupt its start counted
    span         \* history: samples in service that met a criterion, in a row

supervisionVars == <<case, settings, now, applied, phase, index, startup, protection, ready,
                     sampled, recounted, span>>

Continuous == case.continuous
InForce(t) == CommandAt(case.timeline, case.initial, t)
NewStartup == [run |-> TRUE, ramp |-> 0, steps |-> 0, start |-> 0,
               value |-> Zero, complete |-> FALSE]
NoCount == [c \in Checked |-> 0]

\* The next event of the timeline is due (the queue of actions of the run).
EventDue ==
    applied < Len(case.timeline) /\ case.timeline[applied + 1].t <= now

----------------------------------------------------------------------------
(***************************************************************************)
(* Starting a run.                                                         *)
(***************************************************************************)
\* Mutant of Recount: the interrupt at the start is not counted.
RecountBefore(command, t) == ControlCount(case.clock, command.since, t - 1)

\* Interrupts the start-up has had when a run starts at t.
Recount(command, t) == ControlCount(case.clock, command.since, t)

\* Unit.start, and begin_timing for a continuous unit.
Started(t) ==
    LET command == InForce(t)
        s == Command(NewStartup, Continuous, command.on,
                     IF command.on THEN command.ramp ELSE 0,
                     IF command.on /\ command.known THEN command.since ELSE t)
    IN  IF Continuous THEN AtTime(s, t)
        ELSE IF command.on /\ command.known
             THEN Restored(s, Recount(command, t), case.clock.period)
             ELSE s

\* Loading a saved row: the start-up, and its stop if the latch is loaded.
Loaded(t) ==
    LET saved == [startup EXCEPT !.value = Zero, !.complete = FALSE]
        s == IF HasTripped(protection) THEN Command(saved, Continuous, FALSE, 0, 0)
             ELSE IF Continuous THEN saved
             ELSE Restored(saved, saved.steps, case.clock.period)
    IN  IF Continuous THEN AtTime(s, t) ELSE s

\* Mutant of LoadedProtection: the hold timers are not among the states.
LoadedUntimed == [NewProtection(Checked) EXCEPT
    !.trip = IF HasTripped(protection) THEN "restored" ELSE "none",
    !.fault = protection.fault]

\* The latches and hold timers of a saved row; the report starts anew.
LoadedProtection == [NewProtection(Checked) EXCEPT
    !.trip = IF HasTripped(protection) THEN "restored" ELSE "none",
    !.fault = protection.fault, !.held = protection.held]

\* The interrupt at the start of the run is in its count and still to come.
CountsItsStart(t, i) == ~Continuous /\ ClockDue(case.clock, t, i) /\ InForce(t).known

SupervisionInit ==
    /\ case \in Cases
    /\ settings = Configured /\ now = 0 /\ phase = "protect"
    /\ applied = Cardinality({i \in DOMAIN case.timeline : case.timeline[i].t <= 0})
    /\ index = StartIndex(case.clock, 0, FALSE)
    /\ startup = Started(0)
    /\ protection = NewProtection(Checked)
    /\ ready = FALSE /\ sampled = Continuous
    /\ recounted = CountsItsStart(0, index)
    /\ span = NoCount

\* A run from a whole saved row of this time.
ContinueRow ==
    /\ phase = "done"
    /\ phase' = "protect"
    /\ index' = StartIndex(case.clock, now, TRUE)
    /\ startup' = Loaded(now) /\ protection' = LoadedProtection
    /\ sampled' = Continuous
    /\ UNCHANGED <<case, settings, now, applied, ready, recounted, span>>

\* A run of which only states of the plant, or also some of the controller
\* that are not its start-up, are given.
Rerun(continued) ==
    /\ phase = "done"
    /\ phase' = "protect"
    /\ index' = StartIndex(case.clock, now, continued)
    /\ startup' = Started(now) /\ protection' = NewProtection(Checked)
    /\ ready' = FALSE /\ sampled' = Continuous
    /\ recounted' = CountsItsStart(now, index')
    /\ span' = NoCount
    /\ UNCHANGED <<case, settings, now, applied>>

----------------------------------------------------------------------------
(***************************************************************************)
(* One instant.                                                            *)
(***************************************************************************)
\* The next event of this instant: Unit.connect or Unit.retune.
ApplyEvent ==
    /\ phase = "events" /\ EventDue
    /\ LET event == case.timeline[applied + 1]
       IN  IF "on" \in DOMAIN event
           THEN /\ startup' = Command(startup, Continuous, event.on /\ ~HasTripped(protection),
                                      event.ramp, now)
                /\ sampled' = Continuous /\ recounted' = FALSE
                /\ UNCHANGED settings
           ELSE settings' = event.settings /\ UNCHANGED <<startup, sampled, recounted>>
    /\ applied' = applied + 1
    /\ UNCHANGED <<case, now, phase, index, protection, ready, span>>

EventsApplied ==
    /\ phase = "events" /\ ~EventDue
    /\ phase' = "protect"
    /\ UNCHANGED <<case, settings, now, applied, index, startup, protection, ready, sampled,
                   recounted, span>>

\* Unit.protect, at an edge of the bridge or the clock of a continuous unit.
ProtectUnit(over) ==
    /\ phase = "protect"
    /\ over => (Continuous => ClockDue(case.clock, now, index))
    /\ protection' = IF over THEN CheckFast(protection, settings) ELSE protection
    /\ startup' = IF protection' = protection THEN startup
                  ELSE Command(startup, Continuous, FALSE, 0, now)
    /\ phase' = "sense"
    /\ UNCHANGED <<case, settings, now, applied, index, ready, sampled, recounted, span>>

\* When the sampled criteria become active after a connection.
Armed(command) ==
    command.ramp + IF Continuous THEN command.since
                   ELSE ClockAt(case.clock, IndexAtOrAfter(case.clock, command.since))

InService(t) ==
    LET command == InForce(t)
    IN  command.on /\ (command.known => t >= Armed(command))

\* Unit.sense at an interrupt, with the trip that its actuate applies.
Interrupt(met, full) ==
    LET s == IF Continuous THEN AtTime(startup, now)
             ELSE IF InProgress(startup) THEN Advance(startup, case.clock.period)
             ELSE startup
        available == IF full THEN Checked ELSE Checked \ {"rms_current"}
        sample == [met |-> met, available |-> available, complete |-> s.complete]
        p == CheckSampled(protection, sample, settings, case.clock.period)
    IN  /\ phase = "sense" /\ ClockDue(case.clock, now, index)
        /\ met \subseteq available
        /\ ready' = full
        /\ protection' = p
        /\ startup' = IF p.trip = protection.trip THEN s
                      ELSE Command(s, Continuous, FALSE, 0, now)
        /\ index' = index + 1 /\ phase' = "done" /\ sampled' = TRUE
        /\ span' = [c \in Checked |->
               IF HasTripped(protection) \/ c \notin met \cap settings.enabled
                  \/ ~InService(now)
               THEN 0 ELSE span[c] + 1]
        /\ UNCHANGED <<case, settings, now, applied, recounted>>

\* No interrupt now; a continuous controller is evaluated with the plant.
Pass ==
    /\ phase = "sense" /\ ~ClockDue(case.clock, now, index)
    /\ startup' = IF Continuous THEN AtTime(startup, now) ELSE startup
    /\ phase' = "done"
    /\ UNCHANGED <<case, settings, now, applied, index, protection, ready, sampled, recounted,
                   span>>

Tick ==
    /\ phase = "done" /\ now < Horizon
    /\ now' = now + 1 /\ phase' = "events"
    /\ UNCHANGED <<case, settings, applied, index, startup, protection, ready, sampled, recounted,
                   span>>

SupervisionNext ==
    \/ ApplyEvent
    \/ EventsApplied
    \/ \E over \in BOOLEAN : ProtectUnit(over)
    \/ \E met \in SUBSET Checked, full \in {ready, TRUE} : Interrupt(met, full)
    \/ Pass
    \/ Tick
    \/ ContinueRow
    \/ \E continued \in BOOLEAN : Rerun(continued)

SupervisionSpec == SupervisionInit /\ [][SupervisionNext]_supervisionVars

----------------------------------------------------------------------------
(***************************************************************************)
(* Properties.                                                             *)
(***************************************************************************)
\* The types; a count of interrupts is within its ramp, however it was set.
SupervisionTyped ==
    /\ case \in Cases /\ settings \in Settings /\ now \in 0..Horizon
    /\ applied \in 0..Len(case.timeline)
    /\ phase \in {"events", "protect", "sense", "done"} /\ index \in Int
    /\ startup \in Startup /\ startup.value.num <= startup.value.den
    /\ ~Continuous => startup.steps <= EndStep(startup, case.clock.period)
    /\ protection \in ProtectionState(Checked)
    /\ {ready, sampled, recounted} \subseteq BOOLEAN
    /\ span \in [Checked -> Nat]

\* Interrupts processed since the connection in force.
Served(command) == Max({0, index - IndexAtOrAfter(case.clock, command.since)})

\* The ramp the timeline asks for at this time, sampled unit.
CountsInterrupts(command) ==
    /\ startup.steps = Min({Served(command), EndStep(startup, case.clock.period)})
    /\ sampled => startup.value =
           Progress((Served(command) - 1) * case.clock.period, command.ramp)

\* The same for a continuous unit.
MeasuresTime(command) == startup.value = Progress(now - command.since, command.ramp)

RampAsCommanded ==
    LET command == InForce(now)
    IN  /\ startup.run = (command.on /\ ~HasTripped(protection))
        /\ startup.run /\ command.known =>
               IF Continuous THEN MeasuresTime(command) ELSE CountsInterrupts(command)

\* Wherever on the timeline a run starts, and whatever of the controller it
\* was given, its ramp stands where the interrupts since the connection put
\* it.  The one exception is a fresh run that starts on an interrupt.
RampFollowsTimeline == phase = "done" /\ ~recounted => RampAsCommanded

Trips == protection'.trip # protection.trip /\ protection'.trip \in Criteria

\* The ramp that arms the protection is always the one RampFollowsTimeline asks
\* for, and no sampled criterion trips before the ramp of the connection in
\* force is over, also after a reconnection and a restart in the middle of a
\* ramp.
RampGovernsTrips ==
    [][RampFollowsTimeline' /\ (Trips /\ ~recounted => InService(now))]_supervisionVars

\* A criterion met for the hold time by a unit in service trips it, at the
\* first sample for which that holds and across restarts from a saved row.
HoldTrips ==
    [][index' = index + 1 /\ phase = "sense" /\ ~HasTripped(protection') =>
          \A c \in Checked : span'[c] > 0 => span'[c] * case.clock.period < settings.hold]_supervisionVars

============================================================================
