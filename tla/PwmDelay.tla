------------------------------ MODULE PwmDelay ------------------------------
(***************************************************************************)
(* What the register path promises the closed loop: a pure delay line.     *)
(* Whatever the registers hold and however the events interleave, the load *)
(* at LoadAt(j) puts into effect the command of the newest interrupt whose *)
(* computation has completed, or the initial word before the first one     *)
(* (docs: Bridge-and-PWM, computation time).  Runs that stop and continue  *)
(* do not appear: continuing changes nothing.                              *)
(***************************************************************************)
EXTENDS PeriodicClock

CONSTANTS
    Timings,    \* the timer configurations
    StartTimes  \* instants at which a fresh run may start

VARIABLES
    timing,   \* clocks and computation time
    j,        \* index of the next load
    first,    \* index of the first interrupt of the run
    applied   \* index of the interrupt whose command is in effect

vars == <<timing, j, first, applied>>

\* The newest interrupt whose computation has completed at t.
LatestComplete(t) ==
    LET n == IndexAfter(timing.control, t - timing.computation) - 1
    IN  IF n < first THEN first - 1 ELSE n

Init ==
    /\ timing \in Timings
    /\ \E t \in StartTimes :
          /\ first = IndexAtOrAfter(timing.control, t)
          /\ j = IndexAtOrAfter(timing.loads, t)
    /\ applied = first - 1

Load ==
    /\ j' = j + 1
    /\ applied' = LatestComplete(ClockAt(timing.loads, j))
    /\ UNCHANGED <<timing, first>>

Spec == Init /\ [][Load]_vars

=============================================================================
