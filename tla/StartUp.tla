------------------------------ MODULE StartUp ------------------------------
(***************************************************************************)
(* The start-up ramps of controllers (control/controller.py, Startup and   *)
(* ContinuousStartup) and the connection command in force on the event     *)
(* timeline (assembly/events.py, Scenario).                                *)
(*                                                                         *)
(* A sampled controller counts its interrupts; a continuous one measures   *)
(* absolute time.  One record holds both: `steps' is used by the first and *)
(* `start' by the second.  `value' is the argument of smoothstep, kept as  *)
(* a fraction.                                                             *)
(***************************************************************************)
EXTENDS PeriodicClock, FiniteSetsExt, Sequences

Fraction == [num : Nat, den : Nat \ {0}]
Zero == [num |-> 0, den |-> 1]
Whole == [num |-> 1, den |-> 1]

\* min(1, elapsed / ramp), and 1 without a ramp.
Progress(elapsed, ramp) ==
    IF ramp = 0 \/ elapsed >= ramp THEN Whole ELSE [num |-> elapsed, den |-> ramp]

Startup == [run : BOOLEAN, ramp : Nat, steps : Nat, start : Nat,
            value : Fraction, complete : BOOLEAN]

InProgress(s) == s.run /\ ~s.complete

\* Startup.command, or ContinuousStartup.command at absolute time t.
Command(s, continuous, run, ramp, t) ==
    [s EXCEPT !.run = run, !.ramp = IF run \/ continuous THEN ramp ELSE @,
              !.steps = 0, !.start = IF continuous THEN t ELSE 0,
              !.value = Zero, !.complete = FALSE]

\* Startup.advance: one interrupt of the controller.
Advance(s, period) ==
    LET progress == Progress(s.steps * period, s.ramp)
    IN  [s EXCEPT !.value = progress, !.complete = progress = Whole,
                  !.steps = IF progress = Whole THEN @ ELSE @ + 1]

\* ContinuousStartup.at.
AtTime(s, t) ==
    IF ~s.run THEN [s EXCEPT !.value = Zero, !.complete = FALSE]
    ELSE LET progress == Progress(t - s.start, s.ramp)
         IN  [s EXCEPT !.value = progress, !.complete = progress = Whole]

\* The first step whose progress is complete.
EndStep(s, period) == (s.ramp + period - 1) \div period

\* The "steps" entry of Startup.set_state.
Restored(s, steps, period) ==
    [s EXCEPT !.steps = Min({steps, EndStep(s, period)})]

----------------------------------------------------------------------------
(***************************************************************************)
(* A timeline is a sequence of events in the order of time, the connection *)
(* commands among them with the field `on'.                                *)
(***************************************************************************)
ConnectionsUntil(timeline, t) ==
    {i \in DOMAIN timeline : timeline[i].t <= t /\ "on" \in DOMAIN timeline[i]}

\* The command in force after some connection events, and the last connection
\* with its ramp.
CommandAfter(timeline, initial, past) ==
    LET on == {i \in past : timeline[i].on}
    IN  [on    |-> IF past = {} THEN initial ELSE timeline[Max(past)].on,
         known |-> on # {},
         since |-> IF on = {} THEN 0 ELSE timeline[Max(on)].t,
         ramp  |-> IF on = {} THEN 0 ELSE timeline[Max(on)].ramp]

\* Scenario.at.
CommandAt(timeline, initial, t) ==
    CommandAfter(timeline, initial, ConnectionsUntil(timeline, t))

\* PWM.control_count: interrupts in [from, to], both ends included.
ControlCount(clock, from, to) ==
    Max({0, IndexAfter(clock, to) - IndexAtOrAfter(clock, from)})

============================================================================
