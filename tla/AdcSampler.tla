----------------------------- MODULE AdcSampler -----------------------------
(***************************************************************************)
(* The ADC of one converter unit (components/adc.py) with the calls its    *)
(* unit makes (assembly/unit.py): the window that averages a channel up to *)
(* the control interrupt, the conversions between two interrupts, the      *)
(* sliding mean square, and what a run that starts or continues at any     *)
(* time makes of them.                                                     *)
(*                                                                         *)
(* One channel stands for all.  Its reading is a small integer.  Integrals *)
(* are kept without their factor 1/2, and a mean square as its integral    *)
(* over the period.  The loop integrates at the instants of the unit and   *)
(* of the circuit only, so a window is a trapezoid over those instants.    *)
(***************************************************************************)
EXTENDS PeriodicClock, Sequences

CONSTANTS
    Designs,  \* the ways the ADC is set up
    Values,   \* readings of the channel
    Starts,   \* times at which a fresh run starts
    LastTime  \* bound on the time

\* A unit is "sampled" by its controller, "clocked" by its ADC (ideal
\* averaging without a controller), or ideal averaging with a controller,
\* where only the mean "squares" serve the protection.
\* window = 0: instantaneous sampling; rms = 0: no sliding mean square.
Design == [kind : {"sampled", "clocked", "squares"}, control : Clock,
           sampling : Clock, window : Nat, rms : Nat]

\* What validation requires of a design (assembly/validate.py).
ASSUME DesignAssumption ==
    /\ Designs \subseteq Design /\ Values \subseteq Int /\ Starts \subseteq Nat
    /\ LastTime \in Nat
    /\ \A d \in Designs :
          /\ d.control.period % d.sampling.period = 0
          /\ d.sampling.offset < d.sampling.period
          /\ d.window <= d.control.period
          /\ d.kind # "sampled" => d.sampling = d.control
          /\ d.kind = "squares" => d.window = 0 /\ d.rms > 0

VARIABLES
    pc,         \* "idle", or the unit's turn of this instant: "sense", "actuate"
    design,     \* how this ADC is set up
    time,       \* now
    reading,    \* what the channel read at the latest instant
    interrupt,  \* index of the next control interrupt
    changed,    \* the plant jumped at this instant
    adc,        \* the ADC
    published,  \* the sample of the latest control interrupt
    began,      \* history: start of the fresh run
    trace,      \* history: the instants of the last period, with what the channel
                \* read on leaving the instant before, on arrival, and as seen
    squares     \* history: square integrals of the last complete periods

samplerVars == <<pc, design, time, reading, interrupt, changed, adc, published, began,
                 trace, squares>>

----------------------------------------------------------------------------
\* How the ADC is set up

ControlPeriod == design.control.period
Averaging == design.window > 0
Squaring == design.rms > 0
Accumulating == Averaging \/ Squaring
Full == design.window >= ControlPeriod
Samples == ControlPeriod \div design.sampling.period

\* The conversions have a clock of their own: a clocked ADC, or a control
\* grid off the sampling grid.
Independent ==
    \/ design.kind = "clocked"
    \/ (design.control.offset - design.sampling.offset) % design.sampling.period # 0

\* The ADC as built: nothing read, and nothing restored.
Blank == [sum |-> 0, last |-> 0, upto |-> 0, anchored |-> FALSE,
          open |-> ~Averaging \/ Full, peeks |-> <<>>, taken |-> 1, index |-> 0,
          held |-> 0, square |-> 0, area |-> 0, duration |-> 0,
          ring |-> [i \in 0..(design.rms - 1) |-> 0], place |-> 0, count |-> 0,
          total |-> 0]

----------------------------------------------------------------------------
\* The integrals

\* accumulate_to: the trapezoid from the last reading to this one.  A closed
\* window only remembers the reading.
Accumulate(s, t, value) ==
    LET dt == t - s.upto
        averaged == IF ~Averaging \/ dt = 0 THEN s
                    ELSE [s EXCEPT !.sum = IF s.open THEN @ + dt * (s.last + value) ELSE @,
                                   !.last = value]
    IN  IF Squaring /\ dt > 0
        THEN [averaged EXCEPT !.area = @ + dt * (s.square + value * value),
                              !.duration = @ + dt, !.square = value * value, !.upto = t]
        ELSE [averaged EXCEPT !.upto = t]

\* seed: the next interval starts from the reading after a change.
Seed(s, value) == [s EXCEPT !.last = IF Averaging THEN value ELSE @,
                            !.square = IF Squaring THEN value * value ELSE @,
                            !.anchored = TRUE]

Open(s) == [s EXCEPT !.sum = 0, !.open = TRUE]

\* t_window: the window that ends at the interrupt `next` opens here.
OpensAt(s, next, t) == ~s.open /\ t = next - design.window

\* _RMSWindow.sample: a complete period replaces the oldest; the part of a
\* period before the first interrupt is dropped.
SampleSquares(s) ==
    LET dropped == [s EXCEPT !.area = 0, !.duration = 0]
        old == IF s.count = design.rms THEN s.ring[s.place] ELSE 0
    IN  IF ~Squaring THEN s
        ELSE IF s.duration < ControlPeriod THEN dropped
        ELSE [dropped EXCEPT !.ring[s.place] = s.area,
                             !.place = (@ + 1) % design.rms,
                             !.count = IF @ < design.rms THEN @ + 1 ELSE @,
                             !.total = @ + s.area - old]

----------------------------------------------------------------------------
\* The conversions

\* peek and convert
Peek(s, t, value) == [s EXCEPT !.peeks = Append(@, [t |-> t, value |-> value]),
                               !.taken = @ + 1]
Convert(s, t, value) == [s EXCEPT !.peeks = Append(@, [t |-> t, value |-> value]),
                                  !.held = value, !.index = @ + 1]

\* t_sample: the aligned conversions of this period that are still to come.
PeekDue(s, t) ==
    /\ ~Independent /\ s.taken < Samples
    /\ t = ClockAt(design.control, interrupt - 1) + s.taken * design.sampling.period

ConversionDue(s, t) == Independent /\ ClockDue(design.sampling, t, s.index)

\* measure: the mean where the channel is averaged; a held sample has no
\* conversion of its own.
Measure(s, t, value, held) ==
    [t |-> t, mean |-> Averaging,
     value |-> IF Averaging THEN s.sum ELSE value,
     samples |-> s.peeks \o IF held THEN <<>> ELSE <<[t |-> t, value |-> value]>>]

\* Mutant: the conversions already published are kept.
SampledKeeping(s, result) ==
    LET rearmed == [SampleSquares(s) EXCEPT !.taken = 1]
    IN  IF Averaging THEN [rearmed EXCEPT !.sum = 0, !.open = Full] ELSE rearmed

\* sample: the state after the sample of a control interrupt.
Sampled(s, result) ==
    LET counted == SampleSquares(s)
        rearmed == IF Averaging THEN [counted EXCEPT !.sum = 0, !.open = Full] ELSE counted
        next == [rearmed EXCEPT !.peeks = <<>>, !.taken = 1]
    IN  IF design.kind = "clocked"
        THEN [next EXCEPT !.held = result.value, !.index = @ + 1] ELSE next

----------------------------------------------------------------------------
\* Starting

ControlTime == ClockAt(design.control, interrupt)

\* The conversions between `last` and the start, at the value of the start.
Earlier(last, t, value) ==
    IF Independent
    THEN LET i == IndexAfter(design.sampling, last)
         IN  [n \in 1..(IndexAtOrAfter(design.sampling, t) - i) |->
                 [t |-> ClockAt(design.sampling, i + n - 1), value |-> value]]
    ELSE [n \in 1..((t - last) \div design.sampling.period) |->
             [t |-> last + n * design.sampling.period, value |-> value]]

\* Mutant: a window that began before the start counts from the start only.
NoneBefore(s, t, next, held) == 0

\* held_before: how long a fresh run counts its start value over the part
\* of an open window that precedes it.
HeldBefore(s, t, next, held) ==
    IF Averaging /\ held /\ t > next - design.window THEN t - (next - design.window) ELSE 0

\* start: the position of the sampler follows from the time.
Start(s, t, next, value, held) ==
    LET last == next - ControlPeriod
        opened == ~Averaging \/ Full \/ t >= next - design.window
        set == [s EXCEPT
            !.index = IF Independent THEN StartIndex(design.sampling, t, ~held) ELSE 0,
            !.taken = IF Independent THEN 1 ELSE (t - last) \div design.sampling.period + 1,
            !.open = opened,
            !.sum = @ + 2 * s.last * HeldBefore(s, t, next, held),
            !.peeks = IF Independent /\ ~held THEN <<>> ELSE Earlier(last, t, value)]
    IN  IF Independent /\ held THEN [set EXCEPT !.held = value] ELSE set

\* begin_timing and _begin_sampled: the integrals are anchored at the start
\* unless the restored state did so.  Only sums of squares need no position.
BeginTiming(s, t, next, value, held) ==
    LET anchored == IF Accumulating /\ ~s.anchored
                    THEN [Seed(s, value) EXCEPT !.upto = t] ELSE s
    IN  IF design.kind = "squares" THEN anchored
        ELSE Start(anchored, t, next, value, held)

\* Mutant: the last reading is not among the states.
RestoredUnanchored(s) ==
    [Blank EXCEPT !.sum = s.sum, !.held = IF Independent THEN s.held ELSE @,
                  !.square = s.square, !.area = s.area, !.duration = s.duration,
                  !.ring = s.ring, !.place = s.place, !.count = s.count, !.total = s.total]

\* get_state followed by set_state on an ADC as built.
Restored(s) ==
    LET integrals == IF Accumulating
                     THEN [Blank EXCEPT !.sum = s.sum, !.last = s.last, !.upto = s.upto,
                                        !.anchored = TRUE]
                     ELSE Blank
    IN  [integrals EXCEPT
            !.held = IF Independent THEN s.held ELSE @,
            !.square = s.square, !.area = s.area, !.duration = s.duration,
            !.ring = s.ring, !.place = s.place, !.count = s.count, !.total = s.total]

\* Validation: an oversampled unit continues from an interrupt.
MayContinue ==
    \/ design.kind # "sampled"
    \/ design.sampling.period >= ControlPeriod
    \/ (time - design.control.offset) % ControlPeriod = 0

----------------------------------------------------------------------------
\* The actions

\* next_time: what of the unit is due at t.
Due(t) == \/ t = ControlTime
          \/ ConversionDue(adc, t) \/ PeekDue(adc, t)
          \/ OpensAt(adc, ControlTime, t)

\* The readings before a fresh run are its start value.
SamplerInit ==
    /\ design \in Designs
    /\ time \in Starts /\ began = time
    /\ reading \in Values
    /\ interrupt = StartIndex(design.control, time, FALSE)
    /\ adc = BeginTiming(Blank, time, ControlTime, reading, TRUE)
    /\ pc = IF Due(time) THEN "sense" ELSE "idle"
    /\ changed = FALSE
    /\ published = [t |-> -1]
    /\ trace = [t \in (time - ControlPeriod)..time |->
                   [since |-> t - 1, first |-> reading, last |-> reading, seen |-> reading]]
    /\ squares = <<>>

\* The latest instant.
Latest == CHOOSE t \in DOMAIN trace : \A u \in DOMAIN trace : u <= t

\* Nothing of the unit or of the circuit is due at the next tick; at most a
\* row is saved there.  What the channel does meanwhile is not read.
Pass ==
    /\ pc = "idle" /\ time < LastTime /\ ~Due(time + 1)
    /\ time' = time + 1
    /\ UNCHANGED <<pc, design, reading, interrupt, changed, adc, published, began, trace,
                   squares>>

\* The loop stops at the next tick for the unit or for the circuit.  The
\* unit integrates up to it before file events change the plant.
Arrive ==
    /\ pc = "idle" /\ time < LastTime
    /\ time' = time + 1
    /\ \E value, new \in Values, circuit \in BOOLEAN :
          /\ circuit \/ (Due(time') /\ value = new)
          /\ reading' = new
          /\ changed' = (value # new)
          /\ adc' = IF Accumulating THEN Accumulate(adc, time', value) ELSE adc
          /\ trace' = [t \in {u \in DOMAIN trace : u >= time' - ControlPeriod} \cup {time'} |->
                          IF t # time' THEN trace[t]
                          ELSE [since |-> Latest, first |-> reading, last |-> value,
                                seen |-> new]]
    /\ pc' = "sense"
    /\ UNCHANGED <<design, interrupt, published, began, squares>>

\* The integral, from one instant to another, of what was read between them:
\* of the readings or of their squares.
Readings == [v \in Values |-> v]
Squares == [v \in Values |-> v * v]
Strip(of, from, t) ==
    IF t \in DOMAIN trace /\ trace[t].since >= from
    THEN (t - trace[t].since) * (of[trace[t].first] + of[trace[t].last]) ELSE 0
IntegralOf(of, from, to) ==
    LET area[t \in from..to] == IF t = from THEN 0 ELSE area[t - 1] + Strip(of, from, t)
    IN  area[to]

\* The sample of a control interrupt, and the conversions of this instant.
ControlSample(s, held) ==
    LET result == Measure(s, time, IF held THEN s.held ELSE reading, held)
    IN  adc' = Sampled(s, result) /\ published' = result

\* sense: a conversion precedes the control sample of the same instant.
Sense ==
    /\ pc = "sense" /\ pc' = "actuate"
    /\ LET control == time = ControlTime
           converted == IF ConversionDue(adc, time) THEN Convert(adc, time, reading) ELSE adc
       IN  CASE design.kind = "squares" ->
                    /\ adc' = IF control THEN SampleSquares(adc) ELSE adc
                    /\ UNCHANGED published
             [] design.kind = "clocked" /\ control -> ControlSample(adc, FALSE)
             [] design.kind = "clocked" /\ ~control ->
                    /\ adc' = IF OpensAt(adc, ControlTime, time) THEN Open(adc) ELSE adc
                    /\ UNCHANGED published
             [] design.kind = "sampled" /\ control -> ControlSample(converted, Independent)
             [] design.kind = "sampled" /\ ~control ->
                    /\ adc' = IF PeekDue(adc, time) THEN Peek(adc, time, reading) ELSE converted
                    /\ UNCHANGED published
    /\ squares' = IF Squaring /\ time = ControlTime /\ time - ControlPeriod >= began
                  THEN LET all == Append(squares, IntegralOf(Squares, time - ControlPeriod, time))
                       IN  IF Len(all) > design.rms THEN Tail(all) ELSE all
                  ELSE squares
    /\ interrupt' = IF time = ControlTime /\ design.kind # "sampled"
                    THEN interrupt + 1 ELSE interrupt
    /\ UNCHANGED <<design, time, reading, changed, began, trace>>

\* actuate: the timer passes its interrupt, the unit or another one may
\* change the plant, and the next window opens.  After the last change of
\* an instant the loop seeds the windows.
Actuate ==
    /\ pc = "actuate" /\ pc' = "idle"
    /\ interrupt' = IF time = ControlTime /\ design.kind = "sampled"
                    THEN interrupt + 1 ELSE interrupt
    /\ \E new \in Values :
          LET opened == IF design.kind = "sampled"
                           /\ OpensAt(adc, ClockAt(design.control, interrupt'), time)
                        THEN Open(adc) ELSE adc
          IN  /\ reading' = new
              /\ adc' = IF Accumulating /\ (changed \/ new # reading)
                        THEN Seed(opened, new) ELSE opened
    /\ changed' = FALSE
    /\ UNCHANGED <<design, time, published, began, trace, squares>>

\* A run continues here from the row saved here.
ContinueRun ==
    /\ pc = "idle" /\ MayContinue
    /\ LET next == StartIndex(design.control, time, TRUE)
       IN  /\ interrupt' = next
           /\ adc' = BeginTiming(Restored(adc), time, ClockAt(design.control, next), reading,
                                 ~(Accumulating \/ Independent))
    /\ UNCHANGED <<pc, design, time, reading, changed, published, began, trace, squares>>

SamplerNext == Pass \/ Arrive \/ Sense \/ Actuate \/ ContinueRun

SamplerSpec == SamplerInit /\ [][SamplerNext]_samplerVars

----------------------------------------------------------------------------
\* Properties

JustSampled == pc = "actuate" /\ published.t = time

\* The value a controller gets for an averaged channel is the integral of
\* the channel over exactly the window that ends at its interrupt, whatever
\* jumped inside it and wherever the run started or continued
\* (components/adc.py, accumulate, open, sample and start).
MeanIsOfWindow ==
    JustSampled /\ Averaging =>
        published.value = IntegralOf(Readings, time - design.window, time)

\* The conversions since the interrupt before, each as the channel was seen.
Conversions ==
    LET first == IndexAfter(design.sampling, time - ControlPeriod)
        At(n) == ClockAt(design.sampling, first + n - 1)
    IN  [n \in 1..(IndexAfter(design.sampling, time) - first) |->
            [t |-> At(n), value |-> trace[At(n)].seen]]

\* A sample brings along every conversion since the interrupt before, once
\* and in order, each as the channel was read at its instant.  (The first
\* interrupt of a fresh run that starts on it has its own conversion twice.)
SamplesAreComplete ==
    JustSampled /\ time > began => published.samples = Conversions

\* The sum of a list.
Total(areas) ==
    LET sum[i \in 0..Len(areas)] == IF i = 0 THEN 0 ELSE sum[i - 1] + areas[i]
    IN  sum[Len(areas)]

\* The sliding mean square holds the last complete control periods in the
\* order of time, and its running total is their sum: neither the partial
\* period at the start nor a restart leaves a trace in it.
SquaresAreOfPeriods ==
    Squaring /\ pc # "sense" =>
        /\ adc.count = Len(squares)
        /\ adc.total = Total(squares)
        /\ \A i \in 1..adc.count :
              squares[i] = adc.ring[(adc.place - adc.count + i - 1) % design.rms]

(***************************************************************************)
(* What a controller measures is of the stretch of time it asks for: the   *)
(* mean of a window, the conversions of a period, the squares of whole     *)
(* periods (ADC.sample, ADC.convert).                                      *)
(***************************************************************************)
MeasurementsAreOfWindows == MeanIsOfWindow /\ SamplesAreComplete /\ SquaresAreOfPeriods

\* A run that continues from a row has the sampler of the run that wrote it,
\* with the window, the position and the conversions of the open period.
ContinuesSampling == [][ContinueRun => adc' = adc /\ interrupt' = interrupt]_samplerVars

=============================================================================
