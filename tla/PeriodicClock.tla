--------------------------- MODULE PeriodicClock ---------------------------
(***************************************************************************)
(* The periodic event grids of solver/timing.py.  Time is counted in       *)
(* integer ticks.  TIME_EPS, which absorbs floating-point rounding around  *)
(* an instant, becomes exact equality of ticks.                            *)
(***************************************************************************)
EXTENDS Integers

Clock == [period : Nat \ {0}, offset : Nat]

\* Time of the event with this index; indices may be negative.
ClockAt(clock, index) == clock.offset + index * clock.period

\* The first event strictly after t: floor((t - offset) / period) + 1.
IndexAfter(clock, t) == ((t - clock.offset) \div clock.period) + 1

\* The first event at or after t: ceil((t - offset) / period).
IndexAtOrAfter(clock, t) == -((clock.offset - t) \div clock.period)

\* Mutant of StartIndex: a continued run repeats the event of its start.
StartIndexRepeats(clock, t, continued) == IndexAtOrAfter(clock, t)

\* A fresh run processes an event that coincides with its start; a continued
\* run has processed it already.
StartIndex(clock, t, continued) ==
    IF continued THEN IndexAfter(clock, t) ELSE IndexAtOrAfter(clock, t)

ClockDue(clock, t, index) == t = ClockAt(clock, index)

============================================================================
