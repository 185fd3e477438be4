-------------------------- MODULE MultirateWindows --------------------------
(***************************************************************************)
(* The windows of the multirate solver (solver/multirate.py).  The states  *)
(* of a windowed group are held over a window of several system steps: the *)
(* system sees them extrapolated from the last close (anchor and slope),   *)
(* their inputs are summed up, and the close advances them over the        *)
(* average.  A change of the plant settles the open window first, the next *)
(* one still closes on the original grid, and a restart resumes an open    *)
(* window from a saved row.                                                *)
(*                                                                         *)
(* One windowed state whose rate is its input; the input is a number that  *)
(* changes with the plant.  Time in system steps: times the code tells     *)
(* apart by less than its _EPS are equal here.                             *)
(***************************************************************************)
EXTENDS Integers

CONSTANTS
    Window,     \* system steps per window
    Sweeps,     \* coupling sweeps of a system step
    Inputs,     \* values of the input of the windowed group
    Values,     \* values a caller gives the windowed state
    Horizon,    \* bound on time
    MaxChanges, \* bound on plant changes
    MaxRestarts \* bound on restarts

ASSUME WindowsAssumption ==
    /\ Window \in Nat \ {0} /\ Sweeps \in Nat \ {0}
    /\ Inputs \subseteq Int /\ Values \subseteq Int
    /\ Horizon \in Nat /\ MaxChanges \in Nat /\ MaxRestarts \in Nat

VARIABLES
    now, target,   \* time of the states, and the end of the call in progress
    input,         \* present input of the windowed group
    state,         \* the windowed state in the caller's vector
    windows,       \* the bookkeeping get_state saves
    trusted,       \* last_returned is None: the next call trusts the anchor
    last_returned, \* the windowed state last handed to the caller
    exact,         \* the integral the windowed state stands for
    dropped,       \* what of it the solver has given up
    origin,        \* start of the window grid
    changed_at,    \* the last change of the plant
    slope_from,    \* start of the window the slope was formed over
    row,           \* a saved row: the above when it was written
    changes, restarts

system == <<now, target, input, state>>
held == <<windows, trusted, last_returned>>
reference == <<exact, dropped, origin, changed_at, slope_from>>
windowsVars == <<system, held, reference, row, changes, restarts>>

\* acc is the integral of the input since t_anchor; the slope is the rational
\* rise / over.
Bookkeeping == [open : BOOLEAN, t_anchor : Int, window_end : Int, anchor : Int,
                rise : Int, over : Int, acc : Int]

NoWindows == [open |-> FALSE, t_anchor |-> 0, window_end |-> 0, anchor |-> 0,
              rise |-> 0, over |-> 1, acc |-> 0]

----------------------------------------------------------------------------
(***************************************************************************)
(* Windows.                                                                *)
(***************************************************************************)
OpenWindow(w, t, anchor, rise, over) ==
    [open |-> TRUE, t_anchor |-> t, window_end |-> w.window_end, anchor |-> anchor,
     rise |-> rise, over |-> over, acc |-> 0]

\* Mutant of Quadrature: every sweep of a step adds to the sum.
EverySweep(span, u) == Sweeps * (span * u)

\* What the sweeps of the system steps over a span add to the sum of a
\* constant input: only the last sweep has a weight.
Quadrature(span, u) == span * u

\* The group advances over its average input and the actual duration; the
\* slope of the next window is the mean rate of this one.
CloseWindow(w, t_end) ==
    OpenWindow(w, t_end, w.anchor + w.acc, w.acc, t_end - w.t_anchor)

\* Mutant of Settled: a change on the grid itself is not a change.
SettledOffGrid(w, t) ==
    IF ~w.open \/ t <= w.t_anchor THEN w
    ELSE [CloseWindow(w, t) EXCEPT !.rise = 0, !.over = 1]

\* Mutant of Settled: the shortened window starts a new grid.
SettledAnew(w, t) ==
    IF ~w.open THEN w
    ELSE [(IF t > w.t_anchor THEN CloseWindow(w, t) ELSE w)
              EXCEPT !.rise = 0, !.over = 1, !.window_end = t + Window]

\* Deferred work is finished before the model changes, and the prediction of
\* the old model is discarded even when the window closed at t by itself.
Settled(w, t) ==
    IF ~w.open THEN w
    ELSE [(IF t > w.t_anchor THEN CloseWindow(w, t) ELSE w) EXCEPT !.rise = 0, !.over = 1]

\* The caller changed the windowed state since it was returned.
Given == windows.open /\ ~trusted /\ state # last_returned

\* What is given up where a value is not taken up: the anchor stays.
Overlooked == IF Given THEN state - windows.anchor ELSE dropped

----------------------------------------------------------------------------
(***************************************************************************)
(* The solver.                                                             *)
(***************************************************************************)
WindowsInit ==
    /\ now = 0 /\ target = 0 /\ input \in Inputs /\ state \in Values
    /\ windows = NoWindows /\ trusted = TRUE /\ last_returned = state
    /\ exact = state /\ dropped = 0 /\ origin = 0 /\ changed_at = 0 /\ slope_from = 0
    /\ row = [now |-> 0, input |-> input, state |-> state, windows |-> NoWindows,
              exact |-> state, dropped |-> 0, origin |-> 0, changed_at |-> 0,
              slope_from |-> 0]
    /\ changes = 0 /\ restarts = 0

\* MultirateSolver.advance up to its loop.  A value given inside a window is
\* taken up as its new anchor, and the open sum is given up.
Call ==
    /\ target = now /\ now < Horizon
    /\ target' \in (now + 1)..Horizon
    /\ IF ~windows.open \/ Given
       THEN LET end == IF windows.open /\ windows.window_end > now
                       THEN windows.window_end ELSE now + Window
            IN  /\ windows' = [OpenWindow(windows, now, state, 0, 1)
                                   EXCEPT !.window_end = end]
                /\ origin' = IF end = windows.window_end THEN origin ELSE now
                /\ slope_from' = now /\ dropped' = windows.acc
       ELSE UNCHANGED <<windows, origin, slope_from, dropped>>
    /\ UNCHANGED <<now, input, state, trusted, last_returned, exact, changed_at,
                   row, changes, restarts>>

\* One pass of its loop: to the close of the window or the end of the call.
Pass ==
    /\ now < target
    /\ LET stop == IF windows.window_end < target THEN windows.window_end ELSE target
           summed == [windows EXCEPT !.acc = @ + Quadrature(stop - now, input)]
       IN  /\ now' = stop
           /\ exact' = exact + (stop - now) * input
           /\ IF stop = windows.window_end
              THEN /\ windows' = [CloseWindow(summed, stop)
                                      EXCEPT !.window_end = stop + Window]
                   /\ state' = windows'.anchor
                   /\ slope_from' = windows.t_anchor
              ELSE windows' = summed /\ UNCHANGED <<state, slope_from>>
           /\ IF stop = target
              THEN trusted' = FALSE /\ last_returned' = state'
              ELSE UNCHANGED <<trusted, last_returned>>
    /\ UNCHANGED <<target, input, dropped, origin, changed_at, row, changes, restarts>>

\* The windowed state after settle: the caller's unless the window closed.
SettledState == IF windows.open /\ now > windows.t_anchor THEN Settled(windows, now).anchor
                ELSE state

\* Plant.change: the solver settles, overlooking a value given since the last
\* call, and the change may give the windowed state another value (a projected
\* jump, a bound).
PlantChange ==
    /\ target = now /\ changes < MaxChanges
    /\ windows' = Settled(windows, now)
    /\ IF windows.open
       THEN trusted' = FALSE /\ last_returned' = SettledState
       ELSE UNCHANGED <<trusted, last_returned>>
    /\ \/ state' = SettledState /\ UNCHANGED exact
       \/ state' \in Values \ {SettledState} /\ exact' = state'
    /\ dropped' = Overlooked
    /\ input' \in Inputs
    /\ changed_at' = now /\ changes' = changes + 1
    /\ UNCHANGED <<now, target, origin, slope_from, row, restarts>>

\* The bounds of the states apply to what a call returned, also in the middle
\* of a window.
Bound ==
    /\ target = now /\ windows.open /\ ~trusted /\ state = last_returned
    /\ state' \in Values \ {state} /\ exact' = state' + windows.acc
    /\ UNCHANGED <<now, target, input, held, dropped, origin, changed_at, slope_from,
                   row, changes, restarts>>

----------------------------------------------------------------------------
(***************************************************************************)
(* Saved rows.                                                             *)
(***************************************************************************)
\* get_state saves the anchor beside a value given since.
SaveRow ==
    /\ target = now
    /\ row' = [now |-> now, input |-> input, state |-> state, windows |-> windows,
               exact |-> exact, dropped |-> Overlooked, origin |-> origin,
               changed_at |-> changed_at, slope_from |-> slope_from]
    /\ UNCHANGED <<system, held, reference, changes, restarts>>

\* set_state: no window without an anchor, else the window as it was.
Loaded(w) ==
    IF ~w.open THEN NoWindows
    ELSE [w EXCEPT !.window_end = IF @ > w.t_anchor THEN @ ELSE w.t_anchor + Window]

\* A new solver continues from the row and trusts its anchor.
Restart ==
    /\ restarts < MaxRestarts /\ restarts' = restarts + 1
    /\ now' = row.now /\ target' = row.now /\ input' = row.input /\ state' = row.state
    /\ windows' = Loaded(row.windows)
    /\ trusted' = TRUE /\ last_returned' = row.state
    /\ exact' = row.exact /\ dropped' = row.dropped /\ origin' = row.origin
    /\ changed_at' = row.changed_at /\ slope_from' = row.slope_from
    /\ UNCHANGED <<row, changes>>

WindowsNext == Call \/ Pass \/ PlantChange \/ Bound \/ SaveRow \/ Restart

WindowsSpec == WindowsInit /\ [][WindowsNext]_windowsVars

----------------------------------------------------------------------------
TypeOK ==
    /\ now \in Nat /\ target \in Nat /\ input \in Int /\ state \in Int
    /\ windows \in Bookkeeping /\ trusted \in BOOLEAN /\ last_returned \in Int
    /\ exact \in Int /\ dropped \in Int
    /\ origin \in Int /\ changed_at \in Int /\ slope_from \in Int

(***************************************************************************)
(* No input is lost or counted twice, across closes, shortened windows,    *)
(* bounds, given values, rows and restarts: the anchor and the open sum    *)
(* are the integral of the input, but for what is dropped.  Dropped are    *)
(* the open sum where a value is taken up inside a window, and a given     *)
(* value that a settlement or a row meets before a call (multirate.py:     *)
(* 247, 296 and 502); the next value that is taken up ends that.           *)
(***************************************************************************)
NothingLost ==
    windows.open /\ ~Given => windows.anchor + windows.acc + dropped = exact

(***************************************************************************)
(* Every window closes on the grid of the first one, whatever changes of   *)
(* the plant and restarts shortened the windows before it.                 *)
(***************************************************************************)
ClosesOnGrid ==
    windows.open => /\ now < windows.window_end /\ windows.window_end <= now + Window
                    /\ (windows.window_end - origin) % Window = 0

(***************************************************************************)
(* The system is never shown a prediction of the plant before a change:    *)
(* a slope was formed over a window that began after the last change.      *)
(***************************************************************************)
PredictsPresentPlant == windows.open /\ windows.rise # 0 => slope_from >= changed_at

============================================================================
