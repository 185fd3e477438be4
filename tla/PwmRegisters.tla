---------------------------- MODULE PwmRegisters ----------------------------
(***************************************************************************)
(* The carrier timer and the compare registers of one sampled bridge       *)
(* (components/pwm.py, PWM; components/converter.py, _SampledModel).       *)
(*                                                                         *)
(* Control interrupts and register loads are two unrelated periodic grids. *)
(* An interrupt writes the command it computes to the shadow register; the *)
(* value is complete only after `computation' ticks.  A load copies the    *)
(* shadow register to the active one, or the completed word the shadow     *)
(* replaced while the latest computation still runs.  A run may be stopped *)
(* at any output row and continued from the saved states, which do not     *)
(* include the completed word, the timer indices or the schedule.          *)
(*                                                                         *)
(* A load lays out the switching sequence of its interval                  *)
(* (SwitchingPattern): the pulse and the dead times the last interval left *)
(* unfinished enter it, and the interval leaves its own to the next one.   *)
(*                                                                         *)
(* A word carries its command and, as a history component, the index of    *)
(* the interrupt that computed it.                                         *)
(***************************************************************************)
EXTENDS PeriodicClock, SwitchingPattern

CONSTANTS
    Timings,     \* the timer and pattern configurations the model starts in
    Commands,    \* values the controllers may compute, PWM enable included
    Neutral,     \* the command both banks hold before the first write
    Phases,      \* controller angles, relative to the nominal rotation
    StartTimes,  \* instants at which a fresh run may start
    Horizon      \* bound: no event after this instant is taken

\* A pattern also bounds the commands and the angles its controller computes.
Pattern == [scheme : {"carrier", "bridge"}, half : Nat \ {0},
            pulse : BOOLEAN, dead : Nat,
            commands : SUBSET Commands, phases : SUBSET Phases]

Timing ==
    [control : Clock, loads : Clock, computation : Nat, pattern : Pattern]

\* validate.py _timing and _pwm: the offset lies within the period, a
\* computation ends before the next interrupt, and a dead time within half a
\* switching period.
ValidTiming(tm) ==
    /\ tm.control.offset < tm.control.period
    /\ tm.computation < tm.control.period
    /\ tm.pattern.dead < tm.pattern.half

ASSUME TimingAssumption ==
    /\ Timings \subseteq {tm \in Timing : ValidTiming(tm)}
    /\ StartTimes \subseteq Nat
    /\ Horizon \in Nat

\* What a controller hands to the modulator: PWM enable, half the width of a
\* pulse, its phase shift, and the pulses it has.
Command == [on : BOOLEAN, width : Int, phase : Int,
            mode : {"duty", "both", "positive", "negative", "none"}]

ASSUME CommandAssumption ==
    /\ Neutral \in Commands
    /\ Commands \subseteq Command
    /\ Phases \subseteq Int

VARIABLES
    timing,     \* clocks, computation time and pattern, fixed for the run
    now,        \* current instant
    k, j,       \* index of the next interrupt, of the next register load
    active,     \* the word in the active compare registers
    shadow,     \* the word in the shadow registers
    completed,  \* the completed word the shadow replaced
    sync,       \* controller angle of the latest interrupt
    carrier,    \* angle the carrier was locked to at the last load
    schedule,   \* instants of the pending switching edges
    q,          \* switching state the bridge holds
    memory,     \* pulse, legs and current signs the interval began with
    laid,       \* the interval laid out, and what it leaves to the next one
    owed,       \* history: what the interval owes to the earlier ones
    first       \* history: index of the first interrupt since the fresh start

registers == <<active, shadow, completed>>
bridge == <<carrier, schedule, q, memory, laid, owed>>
vars == <<timing, now, k, j, registers, sync, bridge, first>>

----------------------------------------------------------------------------
InterruptAt(n) == ClockAt(timing.control, n)
LoadAt(n) == ClockAt(timing.loads, n)

\* Instant at which the word of interrupt n may be loaded.
CompleteAt(n) == InterruptAt(n) + timing.computation

Word(c, n) == [command |-> c, stamp |-> n]
IsWord(w) == w \in [command : Commands, stamp : Int]

\* The interval at l, for a command and a carrier angle.
Interval(from, command, p, l) ==
    LaidOut(timing.pattern, timing.loads.period, from, from.sign, command, p, l)

\* The switching sequence of the interval at l: edges after t stay pending,
\* earlier ones are folded into the state held at t.
Edges(words, l, t) ==
    {x \in t + 1 .. l + timing.loads.period - 1 : words[x - l] # words[x - l - 1]}
Held(words, l, t) ==
    words[IF t < l + timing.loads.period THEN t - l ELSE timing.loads.period - 1]

\* Directions the pole current may have at a load: only dead time reads them.
Signs == IF timing.pattern.dead = 0 THEN {0} ELSE {-1, 0, 1}

\* The memory at the start of an interval; a blocked bridge samples no current.
Remembered(from, s, command) ==
    [pulse |-> from.pulse, legs |-> from.legs,
     sign |-> IF command.on THEN s ELSE memory.sign]

\* History: what the interval that ends now owes to the one that begins.
OwedNext ==
    LET pattern == timing.pattern
        span == timing.loads.period
        l == LoadAt(j - 1)
    IN  [pulses |->
            IF pattern.pulse /\ active.command.on
            THEN PulsesOwed(pattern, span, l, owed.pulses, laid)
            ELSE {NoPulse(pattern, l + span)},
         legs |->
            [leg \in Legs(pattern) |->
                IF active.command.on
                THEN LegOwed(l, owed.legs[leg], laid, leg,
                             LegSign(memory.sign, leg), span - 1)
                ELSE [command |-> -1, since |-> l, freed |-> TRUE]]]

\* The word a load at t takes: the shadow word once its computation has
\* completed, else the completed word it replaced.  `latest' is the index of
\* the interrupt that wrote the shadow word.
Taken(latest, new, old, t) == IF CompleteAt(latest) <= t THEN new ELSE old

InterruptDue(t) == t = InterruptAt(k)
LoadDue(t) == t = LoadAt(j)

\* _SampledModel.next_time: the timer, the load and the next edge.
IsNext(t) ==
    /\ t <= InterruptAt(k) /\ t <= LoadAt(j)
    /\ \A x \in schedule : t <= x
    /\ InterruptDue(t) \/ LoadDue(t) \/ t \in schedule

----------------------------------------------------------------------------
(***************************************************************************)
(* A fresh run: PWM.start with continued = False after reset.  An event    *)
(* that coincides with the start belongs to the run.                       *)
(***************************************************************************)
Init ==
    /\ timing \in Timings
    /\ now \in StartTimes
    /\ k = StartIndex(timing.control, now, FALSE)
    /\ j = StartIndex(timing.loads, now, FALSE)
    /\ first = k
    /\ active = Word(Neutral, first - 1)
    /\ shadow = active
    /\ completed = active
    /\ sync \in Phases
    /\ carrier = sync
    /\ memory = [pulse |-> Fresh(timing.pattern).pulse,
                 legs |-> Fresh(timing.pattern).legs, sign |-> 0]
    /\ laid = Interval(memory, Neutral, carrier, LoadAt(j - 1))
    /\ owed = [pulses |-> {NoPulse(timing.pattern, LoadAt(j - 1))},
               legs |-> [leg \in Legs(timing.pattern) |->
                           [command |-> -1, since |-> now, freed |-> TRUE]]]
    /\ schedule = Edges(laid.words, LoadAt(j - 1), now)
    /\ q = Held(laid.words, LoadAt(j - 1), now)

\* The event loop moves to the bridge's next event and never past the end.
Reach(t) ==
    /\ IsNext(t)
    /\ t <= Horizon
    /\ now' = t

\* Mutant of Write: the replaced word is forgotten.
WriteForgets(c, p) ==
    /\ c \in timing.pattern.commands /\ p \in timing.pattern.phases
    /\ k' = k + 1
    /\ completed' = completed
    /\ shadow' = Word(c, k)
    /\ sync' = p

\* PWM.write: the timer advances, the computed word replaces the shadow word.
Write(c, p) ==
    /\ c \in timing.pattern.commands /\ p \in timing.pattern.phases
    /\ k' = k + 1
    /\ completed' = shadow
    /\ shadow' = Word(c, k)
    /\ sync' = p

\* PWM.load: the active word changes and its switching sequence is laid out
\* with the angle known at this point.
Load(word, p, t) ==
    /\ active' = word
    /\ carrier' = p
    /\ \E s \in Signs : memory' = Remembered(laid.next, s, word.command)
    /\ laid' = Interval(memory', word.command, p, LoadAt(j))
    /\ owed' = OwedNext
    /\ schedule' = Edges(laid'.words, LoadAt(j), t)
    /\ q' = Held(laid'.words, LoadAt(j), t)
    /\ j' = j + 1

\* PWM.switches: every edge due at t is applied; the later ones stay pending.
Switch(t) ==
    /\ schedule' = {x \in schedule : x > t}
    /\ q' = IF t \in schedule
            THEN Held(laid.words, LoadAt(j - 1), t)
            ELSE q
    /\ UNCHANGED <<carrier, memory, laid, owed>>

\* A control interrupt between two loads.
Interrupt(t, c, p) ==
    /\ Reach(t)
    /\ InterruptDue(t) /\ ~LoadDue(t)
    /\ Write(c, p)
    /\ Switch(t)
    /\ UNCHANGED <<timing, j, active, first>>

\* A register load between two interrupts.
LoadRegisters(t) ==
    /\ Reach(t)
    /\ LoadDue(t) /\ ~InterruptDue(t)
    /\ Load(Taken(k - 1, shadow, completed, t), sync, t)
    /\ UNCHANGED <<timing, k, shadow, completed, sync, first>>

\* Mutant of WriteThenLoad: the load comes first although nothing is computed.
LoadBeforeWrite(t, c, p) ==
    /\ Reach(t)
    /\ InterruptDue(t) /\ LoadDue(t)
    /\ timing.computation = 0
    /\ Write(c, p)
    /\ Load(Taken(k - 1, shadow, completed, t), p, t)
    /\ UNCHANGED <<timing, first>>

\* Both are due and the computation takes no time: _SampledModel.actuate
\* writes the word first, so the load takes it at once.
WriteThenLoad(t, c, p) ==
    /\ Reach(t)
    /\ InterruptDue(t) /\ LoadDue(t)
    /\ timing.computation = 0
    /\ Write(c, p)
    /\ Load(Taken(k, Word(c, k), shadow, t), p, t)
    /\ UNCHANGED <<timing, first>>

\* Both are due and the computation takes time: the load comes first and
\* sees the registers of the previous interrupt.
LoadThenWrite(t, c, p) ==
    /\ Reach(t)
    /\ InterruptDue(t) /\ LoadDue(t)
    /\ timing.computation > 0
    /\ Load(Taken(k - 1, shadow, completed, t), sync, t)
    /\ Write(c, p)
    /\ UNCHANGED <<timing, first>>

\* Only a switching edge is due.
SwitchingEdge(t) ==
    /\ Reach(t)
    /\ ~InterruptDue(t) /\ ~LoadDue(t)
    /\ Switch(t)
    /\ UNCHANGED <<timing, k, j, registers, sync, first>>

\* Mutant of Continuable: every output row may be continued.
ContinuableAlways(t) == TRUE

\* validate.py _initial refuses to continue inside a computation whose
\* replaced word the next load needs and no load has taken yet.
Continuable(t) ==
    LET n == IndexAfter(timing.control, t)
        m == IndexAfter(timing.loads, t)
    IN  ~ (CompleteAt(n - 1) > LoadAt(m) /\ CompleteAt(n - 2) > LoadAt(m - 1))

(***************************************************************************)
(* The run is stopped at an output row at t and a new one continues from   *)
(* its states: PWM.set_state restores the two banks, the modulator the     *)
(* angle captured at the last load, the pulse update and the dead time     *)
(* what they began the interval with, current signs included; PWM.start    *)
(* with continued = True derives everything else.                          *)
(***************************************************************************)
Continue(t) ==
    /\ now <= t /\ t <= Horizon
    /\ t < InterruptAt(k) /\ t < LoadAt(j) /\ \A x \in schedule : t < x
    /\ Continuable(t)
    /\ now' = t
    /\ k' = StartIndex(timing.control, t, TRUE)
    /\ j' = StartIndex(timing.loads, t, TRUE)
    /\ completed' = active
    /\ laid' = Interval(memory, active.command, carrier, LoadAt(j' - 1))
    /\ schedule' = Edges(laid'.words, LoadAt(j' - 1), t)
    /\ q' = Held(laid'.words, LoadAt(j' - 1), t)
    /\ UNCHANGED <<timing, active, shadow, sync, carrier, memory, owed, first>>

Next ==
    \E t \in 0 .. Horizon :
        \/ \E c \in Commands, p \in Phases :
              \/ Interrupt(t, c, p)
              \/ WriteThenLoad(t, c, p)
              \/ LoadThenWrite(t, c, p)
        \/ LoadRegisters(t)
        \/ SwitchingEdge(t)
        \/ Continue(t)

Spec == Init /\ [][Next]_vars

----------------------------------------------------------------------------
(***************************************************************************)
(* Properties.                                                             *)
(***************************************************************************)
TypeOK ==
    /\ timing \in Timings
    /\ now \in Nat /\ k \in Int /\ j \in Int /\ first \in Int
    /\ IsWord(active) /\ IsWord(shadow) /\ IsWord(completed)
    /\ sync \in Phases /\ carrier \in Phases
    /\ schedule \subseteq Int

\* The timer never falls behind or ahead, even across a continued run: the
\* next interrupt and the next load are the first ones not yet taken, and an
\* interrupt and a load of one instant are taken together (PWM.tick,
\* PWM.load, PWM.start, _SampledModel.actuate).
TimerOK ==
    /\ InterruptAt(k - 1) <= now /\ now <= InterruptAt(k)
    /\ LoadAt(j - 1) <= now /\ now <= LoadAt(j)
    /\ InterruptAt(k - 1) < LoadAt(j) /\ LoadAt(j - 1) < InterruptAt(k)
    /\ first <= k

\* The registers hold what the next load may need: the shadow word is that of
\* the latest interrupt, and while a load would come before its computation
\* ends, the replaced word is the one before it (PWM.write, PWM.start).
RegistersOK ==
    /\ TimerOK
    /\ shadow.stamp = k - 1
    /\ CompleteAt(k - 1) > LoadAt(j) =>
          completed.stamp = IF k = first THEN k - 1 ELSE k - 2

\* The active word is the newest whose computation had completed when it was
\* loaded: no load takes a word still being computed, and none keeps an older
\* word than the one available (PWM.load, PWM.write, _SampledModel.actuate).
ActiveIsNewest ==
    LET n == active.stamp
    IN  /\ first - 1 <= n /\ n < k
        /\ n >= first => CompleteAt(n) <= LoadAt(j - 1)
        /\ n + 1 < k => CompleteAt(n + 1) > LoadAt(j - 1)

\* The pending switching edges lie ahead.
EdgesAhead == \A x \in schedule : now < x

\* No interrupt computes two words: registers of one stamp hold one word.
OneWordPerStamp ==
    \A v, w \in {active, shadow, completed} : v.stamp = w.stamp => v = w

\* The bridge holds the state its interval has at this offset, whether the
\* edges were taken one by one or folded into the start of a continued run
\* (PWM._switching_interval, PWM.switches).
OutputFollowsActive ==
    /\ laid = Interval(memory, active.command, carrier, LoadAt(j - 1))
    /\ now < LoadAt(j) =>
          /\ q = Held(laid.words, LoadAt(j - 1), now)
          /\ schedule = Edges(laid.words, LoadAt(j - 1), now)

\* The words the legs of a pattern may have, and the pulses it may hand over.
Words(pattern) == [Legs(pattern) -> {0, 1}]
Remainder(pattern) == [word : Words(pattern), left : Nat]

\* A pulse with nothing left owes nothing after l; any other one is owed for as
\* long as it is left.
PulseDue(pulse, due, l) ==
    /\ due.until \in Int
    /\ IF pulse.left = 0 THEN due.until <= l
       ELSE due.word = pulse.word /\ due.until = l + pulse.left

\* A leg without a command owes nothing.  Any other one has its command, or is
\* off it for the rest of the dead time since it has the command.
LegDue(pattern, leg, due, l) ==
    /\ due.command = leg.command /\ due.since \in Int /\ due.freed \in BOOLEAN
    /\ \/ leg.command = -1 /\ leg.left = 0
       \/ /\ leg.command \in {0, 1}
          /\ IF due.freed \/ l - due.since >= pattern.dead
             THEN leg.left = 0 /\ leg.actual = leg.command
             ELSE /\ leg.left = due.since + pattern.dead - l
                  /\ leg.actual = 1 - leg.command

\* The remainders an interval begins with, which count from its load and are all
\* that is saved, stand for the pulses and the commands of every interval since
\* the fresh start (PulseSequence.remaining, _DeadTimeSequence.remaining).
MemoryIsOwed ==
    LET pattern == timing.pattern
        l == LoadAt(j - 1)
    IN  /\ memory.pulse \in Remainder(pattern)
        /\ pattern.pulse => \E due \in owed.pulses : PulseDue(memory.pulse, due, l)
        /\ pattern.dead > 0 =>
              \A leg \in Legs(pattern) :
                  LegDue(pattern, memory.legs[leg], owed.legs[leg], l)

\* The inductive invariant ActiveIsNewest rests on: the timer is on its grids,
\* every word the next load may need is in one of the registers, the registers
\* never mix the words of two interrupts, the bridge is where the laid out
\* interval has it, and the interval began with what it owes, continued runs
\* included (PWM.tick, PWM.write, PWM.load, PWM.switches, PWM.start).
IndInv ==
    /\ TypeOK /\ RegistersOK /\ ActiveIsNewest
    /\ EdgesAhead /\ OneWordPerStamp /\ OutputFollowsActive /\ MemoryIsOwed

\* No load cuts what an earlier interval began: a pulse under way is finished
\* and later ones are whole, a leg never turns on before its dead time is over
\* and always when it is, over any number of loads, new commands, changes of
\* the current's direction and continued runs (PulseSequence,
\* _DeadTimeSequence).
PatternIsKept ==
    LET pattern == timing.pattern
        span == timing.loads.period
        l == LoadAt(j - 1)
    IN  active.command.on =>
          /\ pattern.pulse =>
                \E pulse \in owed.pulses :
                    FinishesPulse(pattern, span, l, pulse, laid)
          /\ pattern.dead > 0 =>
                \A leg \in Legs(pattern) :
                    KeepsDeadTime(pattern, span, l, owed.legs[leg], laid, leg,
                                  LegSign(memory.sign, leg))

\* With loads at least as frequent as interrupts every computed word becomes
\* active in its turn: words are neither skipped nor taken out of order.
NoWordSkipped ==
    [][/\ active'.stamp >= active.stamp
       /\ (timing.loads.period <= timing.control.period
            => active'.stamp <= active.stamp + 1)]_vars

\* The word the next load takes if no interrupt comes before it.
NextWord == Taken(k - 1, shadow, completed, LoadAt(j))

\* A continued run is the stopped run: it takes the word the stopped run would
\* have taken, although the completed word is not among the saved states, holds
\* the same state and switches at the same instants, with the angle and the
\* current signs captured at the load and not with later ones, and hands the
\* same pulse and turn-ons to the next interval (PWM.start, set_state of the
\* modulators, validate.py _initial).
ContinuesExactly ==
    [][(\E t \in 0 .. Horizon : Continue(t)) =>
          UNCHANGED <<k, j, NextWord, schedule, q, laid>>]_vars

\* The registers implement the delay line the computation-time table of the
\* documentation describes (PWM.write, PWM.load, PWM.start).
Delay == INSTANCE PwmDelay WITH applied <- active.stamp

ImplementsDelay == Delay!Spec

=============================================================================
