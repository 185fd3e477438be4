----------------------------- MODULE PlanProofs -----------------------------
(***************************************************************************)
(* The windows of the multirate solver keep their grid, never predict from *)
(* an old plant and lose no input, for any window, inputs, calls, changes  *)
(* and restarts.  And no implicit step, in the simulation or an exported   *)
(* program, is solved with the matrix of another plant, for any circuits,  *)
(* caches and sequence of commutations, steps and changes of parameters.   *)
(* The analysis of dependencies that the solvers share with the loop       *)
(* networks of a controller orders them so that every loop runs on present *)
(* inputs and parameters, for any network, strides and changes.            *)
(* Its strong components are those of the graph, for any graph.  And a     *)
(* model's outputs are evaluated in an order, with loops, that leaves      *)
(* nothing a caller reads of the states before, for any stages, input      *)
(* copies, groups, held inputs and renewals of the plan.                   *)
(***************************************************************************)
EXTENDS StepSolvers, ControlGraph, EvaluationPlan, SharedTheorems

----------------------------------------------------------------------------
(***************************************************************************)
(* The inductive invariants.  Each part is stated of a bookkeeping and of  *)
(* what goes with it, to hold of the solver and of the saved row alike.    *)
(***************************************************************************)
\* An open window has begun and has not ended, and one that just began has
\* summed nothing; without one there is no bookkeeping.
Books(w, t) ==
    IF w.open
    THEN /\ w.t_anchor <= t /\ t < w.window_end /\ w.window_end <= t + Window
         /\ w.t_anchor = t => w.acc = 0
    ELSE w = NoWindows

OnGrid(w, o) == w.open => (w.window_end - o) % Window = 0

\* The open window began at the last change or later, and the window its
\* slope was formed over, if it has one, did too.
Current(w, changed, from) == w.open => changed <= w.t_anchor /\ (w.rise # 0 => changed <= from)

Booked(w, t, o, changed, from) ==
    /\ w \in Bookkeeping /\ t \in Nat /\ o \in Int /\ changed \in Int /\ from \in Int
    /\ Books(w, t) /\ OnGrid(w, o) /\ Current(w, changed, from) /\ changed <= t

WindowInv ==
    /\ TypeOK
    /\ row.input \in Int /\ row.state \in Int /\ row.exact \in Int /\ row.dropped \in Int
    /\ Booked(windows, now, origin, changed_at, slope_from)
    /\ Booked(row.windows, row.now, row.origin, row.changed_at, row.slope_from)
    /\ now <= target /\ (now < target => windows.open)

\* The anchor and the open sum stand for the exact integral, but for what was
\* dropped; where no window is open the windowed state does.
Accounted(w, s, e, d) == IF w.open THEN w.anchor + w.acc + d = e ELSE s = e

\* A value given by the caller replaces the anchor until a call takes it up.
AccountInv ==
    /\ IF target = now /\ Given THEN exact = state + windows.acc
       ELSE Accounted(windows, state, exact, dropped)
    /\ Accounted(row.windows, row.state, row.exact, row.dropped)

----------------------------------------------------------------------------
(***************************************************************************)
(* Lemmas about the operators.                                             *)
(***************************************************************************)
\* One window further is on the grid again.
LEMMA NextOnGrid ==
    ASSUME NEW d \in Int, d % Window = 0
    PROVE  (d + Window) % Window = 0
<1>1. Window \in Nat /\ Window > 0
  BY WindowsAssumption
<1>2. d = Window * (d \div Window)
  BY <1>1
<1>3. PICK k \in Int : d = Window * k
  BY <1>1, <1>2
<1> DEFINE r == (d + Window) % Window
           j == k + 1 - ((d + Window) \div Window)
<1>4. r \in Int /\ 0 <= r /\ r < Window /\ j \in Int
  BY <1>1
<1>5. r = Window * j
  BY <1>1, <1>3
<1>6. j <= -1 \/ j = 0 \/ j >= 1
  BY <1>4
<1>7. (j >= 1 => Window * j >= Window) /\ (j <= -1 => Window * j <= -Window)
  BY <1>1, <1>4
<1>8. j = 0
  BY <1>1, <1>4, <1>5, <1>6, <1>7
<1> QED
  BY <1>1, <1>5, <1>8

\* What a bookkeeping is after its window was opened again at t.
Opened(o, w, t, anchor, rise, over) ==
    /\ o \in Bookkeeping /\ o.open /\ o.t_anchor = t /\ o.window_end = w.window_end
    /\ o.anchor = anchor /\ o.rise = rise /\ o.over = over /\ o.acc = 0

\* Opening sets everything but the end of the window.
LEMMA OpenFields ==
    ASSUME NEW w \in Bookkeeping, NEW t \in Int, NEW anchor \in Int,
           NEW rise \in Int, NEW over \in Int
    PROVE  Opened(OpenWindow(w, t, anchor, rise, over), w, t, anchor, rise, over)
BY DEF OpenWindow, Bookkeeping, Opened

\* Closing moves the anchor by the sum and empties it; the grid stands.
LEMMA CloseFields ==
    ASSUME NEW w \in Bookkeeping, NEW t \in Int
    PROVE  Opened(CloseWindow(w, t), w, t, w.anchor + w.acc, w.acc, t - w.t_anchor)
<1>1. w.anchor + w.acc \in Int /\ w.acc \in Int /\ t - w.t_anchor \in Int
  BY DEF Bookkeeping
<1> QED
  BY <1>1, OpenFields DEF CloseWindow

\* A bookkeeping without its prediction is one, the same but for the slope.
Unpredicted(w) == [w EXCEPT !.rise = 0, !.over = 1]

LEMMA UnpredictedFields ==
    ASSUME NEW w \in Bookkeeping
    PROVE  /\ Unpredicted(w) \in Bookkeeping
           /\ Unpredicted(w).open = w.open /\ Unpredicted(w).t_anchor = w.t_anchor
           /\ Unpredicted(w).window_end = w.window_end
           /\ Unpredicted(w).anchor = w.anchor /\ Unpredicted(w).acc = w.acc
           /\ Unpredicted(w).rise = 0 /\ Unpredicted(w).over = 1
<1> DEFINE v == [w EXCEPT !.rise = 0]
<1>1. v \in Bookkeeping
  BY DEF Bookkeeping
<1>2. /\ v.open = w.open /\ v.t_anchor = w.t_anchor /\ v.window_end = w.window_end
      /\ v.anchor = w.anchor /\ v.acc = w.acc /\ v.rise = 0
  BY DEF Bookkeeping
<1>3. Unpredicted(w) = [v EXCEPT !.over = 1]
  BY DEF Unpredicted
<1> HIDE DEF v
<1>4. [v EXCEPT !.over = 1] \in Bookkeeping
  BY <1>1 DEF Bookkeeping
<1> QED
  BY <1>1, <1>2, <1>3, <1>4 DEF Bookkeeping

\* Settling an open window leaves one that began at t or already had, with
\* the same end, no slope, and the same integral.
LEMMA SettledFields ==
    ASSUME NEW w \in Bookkeeping, NEW t \in Int, w.open, w.t_anchor <= t,
           w.t_anchor = t => w.acc = 0
    PROVE  Opened(Settled(w, t), w, t, w.anchor + w.acc, 0, 1)
<1>1. CASE t > w.t_anchor
  <2> DEFINE c == CloseWindow(w, t)
  <2>1. Opened(c, w, t, w.anchor + w.acc, w.acc, t - w.t_anchor)
    BY CloseFields
  <2>2. Settled(w, t) = Unpredicted(c)
    BY <1>1 DEF Settled, Unpredicted
  <2> HIDE DEF c
  <2> QED
    BY <2>1, <2>2, UnpredictedFields DEF Opened
<1>2. CASE ~(t > w.t_anchor)
  <2>1. w.t_anchor = t /\ w.acc = 0 /\ w.anchor + w.acc = w.anchor
    BY <1>2 DEF Bookkeeping
  <2>2. Settled(w, t) = Unpredicted(w)
    BY <1>2 DEF Settled, Unpredicted
  <2> QED
    BY <2>1, <2>2, UnpredictedFields DEF Opened
<1> QED
  BY <1>1, <1>2

\* A row that kept the bookkeeping gives it back.
LEMMA LoadedIsSaved ==
    ASSUME NEW w \in Bookkeeping, NEW t \in Int, Books(w, t)
    PROVE  Loaded(w) = w
<1>1. CASE w.open
  <2>1. w.window_end > w.t_anchor
    BY <1>1 DEF Books, Bookkeeping
  <2>2. Loaded(w) = [w EXCEPT !.window_end = w.window_end]
    BY <1>1, <2>1 DEF Loaded, Bookkeeping
  <2> QED
    BY <2>2 DEF Bookkeeping
<1>2. CASE ~w.open
  BY <1>2 DEF Loaded, Books
<1> QED
  BY <1>1, <1>2

----------------------------------------------------------------------------
(***************************************************************************)
(* The windows.                                                            *)
(***************************************************************************)
LEMMA WindowInit == WindowsInit => WindowInv
<1> SUFFICES ASSUME WindowsInit PROVE WindowInv
  OBVIOUS
<1>1. NoWindows \in Bookkeeping /\ ~NoWindows.open
  BY DEF NoWindows, Bookkeeping
<1>2. input \in Int /\ state \in Int
  BY WindowsAssumption DEF WindowsInit
<1> QED
  BY <1>1, <1>2 DEF WindowsInit, WindowInv, TypeOK, Booked, Books, OnGrid, Current

\* A call opens a window where none is open or a value was given, which
\* closes where the old one would have.
LEMMA WindowCall == ASSUME WindowInv, Call PROVE WindowInv'
<1> DEFINE end == IF windows.open /\ windows.window_end > now
                  THEN windows.window_end ELSE now + Window
           o == OpenWindow(windows, now, state, 0, 1)
<1>0. Window \in Nat /\ Window > 0 /\ Horizon \in Nat
  BY WindowsAssumption
<1>1. /\ windows \in Bookkeeping /\ now \in Nat /\ state \in Int /\ origin \in Int
      /\ Books(windows, now) /\ OnGrid(windows, origin) /\ changed_at <= now
      /\ changed_at \in Int
  BY DEF WindowInv, TypeOK, Booked
<1>2. UNCHANGED <<now, input, state, trusted, last_returned, exact, changed_at, row>>
      /\ now < target' /\ target' \in Nat
  BY <1>0, <1>1 DEF Call
<1>5. dropped' \in Int
  BY <1>1 DEF Call, WindowInv, TypeOK, Bookkeeping
<1>3. CASE ~windows.open \/ Given
  <2>1. windows' = [o EXCEPT !.window_end = end] /\ slope_from' = now
        /\ origin' = IF end = windows.window_end THEN origin ELSE now
    BY <1>3 DEF Call
  <2>2. Opened(o, windows, now, state, 0, 1)
    BY <1>1, OpenFields
  <2>3. end \in Int /\ now < end /\ end <= now + Window
    BY <1>0, <1>1 DEF Books, Bookkeeping
  <2>4. (end - origin') % Window = 0 /\ origin' \in Int
    <3>1. CASE windows.open
      BY <2>1, <1>1, <3>1 DEF Books, OnGrid
    <3>2. CASE ~windows.open
      <4>1. end = now + Window /\ windows.window_end = 0 /\ origin' = now
        BY <1>0, <1>1, <2>1, <3>2 DEF Books, NoWindows
      <4>2. (end - now) = 0 + Window /\ 0 % Window = 0
        BY <1>0, <1>1, <4>1
      <4> HIDE DEF end
      <4> QED
        BY <1>1, <4>1, <4>2, NextOnGrid
    <3> QED
      BY <3>1, <3>2
  <2> HIDE DEF o, end
  <2>5. /\ windows' \in Bookkeeping /\ windows'.open /\ windows'.window_end = end
        /\ windows'.t_anchor = now /\ windows'.acc = 0 /\ windows'.rise = 0
    BY <2>1, <2>2, <2>3 DEF Opened, Bookkeeping
  <2>6. Booked(windows, now, origin, changed_at, slope_from)'
    BY <1>1, <1>2, <2>1, <2>3, <2>4, <2>5 DEF Booked, Books, OnGrid, Current
  <2> QED
    BY <1>2, <1>5, <2>1, <2>4, <2>5, <2>6 DEF WindowInv, TypeOK
<1>4. CASE ~(~windows.open \/ Given)
  <2>1. UNCHANGED <<windows, origin, slope_from>>
    BY <1>4 DEF Call
  <2> QED
    BY <1>2, <1>4, <1>5, <2>1 DEF WindowInv, TypeOK, Booked, Books, OnGrid, Current
<1> QED
  BY <1>3, <1>4

\* A pass sums the input up to the close or the end of the call; a close
\* starts the next window, with a slope of the one that ended.
LEMMA WindowPass == ASSUME WindowInv, Pass PROVE WindowInv'
<1> DEFINE stop == IF windows.window_end < target THEN windows.window_end ELSE target
           q == Quadrature(stop - now, input)
           summed == [windows EXCEPT !.acc = @ + q]
           c == CloseWindow(summed, stop)
<1>0. Window \in Nat /\ Window > 0
  BY WindowsAssumption
<1>1. /\ windows \in Bookkeeping /\ windows.open /\ now \in Nat /\ target \in Nat
      /\ now < target /\ state \in Int /\ origin \in Int /\ input \in Int /\ exact \in Int
      /\ Books(windows, now) /\ OnGrid(windows, origin)
      /\ Current(windows, changed_at, slope_from) /\ changed_at <= now
      /\ changed_at \in Int /\ slope_from \in Int
  BY DEF WindowInv, TypeOK, Booked, Pass
<1>2. stop \in Int /\ now < stop /\ stop <= target /\ stop <= windows.window_end
  BY <1>1 DEF Books, Bookkeeping
<1>3. q \in Int /\ (stop - now) * input \in Int
  BY <1>1, <1>2 DEF Quadrature
<1>4. /\ summed \in Bookkeeping /\ summed.open /\ summed.t_anchor = windows.t_anchor
      /\ summed.window_end = windows.window_end /\ summed.anchor = windows.anchor
      /\ summed.rise = windows.rise /\ summed.acc = windows.acc + q
  <2> HIDE DEF q
  <2> QED
    BY <1>1, <1>3 DEF Bookkeeping
<1>5. /\ now' = stop /\ exact' = exact + (stop - now) * input
      /\ UNCHANGED <<target, input, dropped, origin, changed_at, row>>
      /\ trusted' \in BOOLEAN /\ last_returned' \in {last_returned, state'}
  BY DEF Pass, WindowInv, TypeOK
<1>6. CASE stop = windows.window_end
  <2>1. windows' = [c EXCEPT !.window_end = stop + Window] /\ state' = windows'.anchor
        /\ slope_from' = windows.t_anchor
    BY <1>6 DEF Pass
  <2> HIDE DEF summed
  <2>2. Opened(c, summed, stop, summed.anchor + summed.acc, summed.acc, stop - summed.t_anchor)
    BY <1>2, <1>4, CloseFields
  <2> HIDE DEF c, stop, q
  <2>3. /\ windows' \in Bookkeeping /\ windows'.open /\ windows'.t_anchor = stop
        /\ windows'.window_end = stop + Window /\ windows'.acc = 0
    BY <2>1, <2>2, <1>0, <1>2 DEF Opened, Bookkeeping
  <2>4. (windows'.window_end - origin) % Window = 0
    <3>1. windows.window_end - origin \in Int /\ (windows.window_end - origin) % Window = 0
      BY <1>1 DEF OnGrid, Bookkeeping
    <3>2. windows'.window_end - origin = (windows.window_end - origin) + Window
      BY <1>0, <1>1, <1>2, <1>6, <2>3
    <3> QED
      BY <3>1, <3>2, NextOnGrid
  <2>5. changed_at <= windows.t_anchor /\ windows.t_anchor \in Int
    BY <1>1 DEF Current, Bookkeeping
  <2>6. Booked(windows, now, origin, changed_at, slope_from)'
    BY <1>0, <1>1, <1>2, <1>5, <2>1, <2>3, <2>4, <2>5
       DEF Booked, Books, OnGrid, Current
  <2>7. state' \in Int
    BY <2>1, <2>3 DEF Bookkeeping
  <2> QED
    BY <1>1, <1>2, <1>3, <1>5, <2>1, <2>3, <2>5, <2>6, <2>7 DEF WindowInv, TypeOK, Booked
<1>7. CASE stop # windows.window_end
  <2>1. windows' = summed /\ UNCHANGED <<state, slope_from>>
    BY <1>7 DEF Pass
  <2> HIDE DEF summed, stop, q
  <2>2. stop < windows.window_end
    BY <1>1, <1>2, <1>7 DEF Bookkeeping
  <2>3. Booked(windows, now, origin, changed_at, slope_from)'
    BY <1>0, <1>1, <1>2, <1>4, <1>5, <2>1, <2>2 DEF Booked, Books, OnGrid, Current, Bookkeeping
  <2> QED
    BY <1>1, <1>2, <1>3, <1>4, <1>5, <2>1, <2>3 DEF WindowInv, TypeOK, Booked
<1> QED
  BY <1>6, <1>7

\* A change of the plant finds every window begun no earlier than itself,
\* and none that predicts.
LEMMA WindowPlantChange == ASSUME WindowInv, PlantChange PROVE WindowInv'
<1>1. /\ windows \in Bookkeeping /\ now \in Nat /\ target = now /\ state \in Int
      /\ origin \in Int /\ input \in Int /\ exact \in Int /\ slope_from \in Int
      /\ trusted \in BOOLEAN /\ last_returned \in Int
      /\ Books(windows, now) /\ OnGrid(windows, origin)
  BY DEF WindowInv, TypeOK, Booked, PlantChange
<1>2. /\ windows' = Settled(windows, now) /\ input' \in Inputs /\ changed_at' = now
      /\ UNCHANGED <<now, target, origin, slope_from, row>>
      /\ trusted' \in BOOLEAN /\ last_returned' \in {last_returned, SettledState}
      /\ (state' = SettledState /\ exact' = exact) \/ (state' \in Values /\ exact' = state')
  BY <1>1 DEF PlantChange
<1>3. input' \in Int /\ Values \subseteq Int
  BY <1>2, WindowsAssumption
<1>6. dropped' \in Int
  BY <1>1 DEF PlantChange, Overlooked, WindowInv, TypeOK, Bookkeeping
<1>4. CASE windows.open
  <2> DEFINE s == Settled(windows, now)
  <2>1. Opened(s, windows, now, windows.anchor + windows.acc, 0, 1)
    BY <1>1, <1>4, SettledFields DEF Books
  <2>2. SettledState \in {s.anchor, state}
    BY DEF SettledState
  <2> HIDE DEF s
  <2>3. windows' = s /\ windows' \in Bookkeeping /\ SettledState \in Int
    BY <1>1, <1>2, <2>1, <2>2 DEF Opened, Bookkeeping, s
  <2>4. Booked(windows, now, origin, changed_at, slope_from)'
    <3>1. /\ windows' \in Bookkeeping /\ windows'.open /\ windows'.t_anchor = now
          /\ windows'.window_end = windows.window_end /\ windows'.rise = 0 /\ windows'.acc = 0
      BY <2>1, <2>3 DEF Opened
    <3>2. now < windows.window_end /\ windows.window_end <= now + Window
          /\ (windows.window_end - origin) % Window = 0
      BY <1>1, <1>4 DEF Books, OnGrid
    <3>3. Books(windows, now)' /\ Current(windows, changed_at, slope_from)'
      BY <1>1, <1>2, <3>1, <3>2 DEF Books, Current
    <3>4. OnGrid(windows, origin)'
      BY <1>2, <3>1, <3>2 DEF OnGrid
    <3> QED
      BY <1>1, <1>2, <3>1, <3>3, <3>4 DEF Booked
  <2>5. state' \in Int /\ exact' \in Int
    BY <1>1, <1>2, <1>3, <2>3
  <2>6. last_returned' \in Int
    BY <1>1, <1>2, <2>3
  <2>7. now' <= target' /\ ~(now' < target')
    BY <1>1, <1>2
  <2>8. TypeOK'
    BY <1>1, <1>2, <1>3, <1>6, <2>3, <2>5, <2>6 DEF TypeOK
  <2> QED
    BY <1>1, <1>2, <2>4, <2>7, <2>8 DEF WindowInv, Booked, Books, OnGrid, Current
<1>5. CASE ~windows.open
  <2>1. windows' = windows /\ SettledState = state
    BY <1>2, <1>5 DEF Settled, SettledState
  <2>2. Booked(windows, now, origin, changed_at, slope_from)'
    BY <1>1, <1>2, <1>5, <2>1 DEF Booked, Books, OnGrid, Current
  <2> QED
    BY <1>1, <1>2, <1>3, <1>6, <2>1, <2>2 DEF WindowInv, TypeOK, Booked
<1> QED
  BY <1>4, <1>5

\* A restart takes the windows of the row as they were.
LEMMA WindowRestart == ASSUME WindowInv, Restart PROVE WindowInv'
<1>1. Booked(row.windows, row.now, row.origin, row.changed_at, row.slope_from)
      /\ row.state \in Int /\ row.input \in Int /\ row.exact \in Int
      /\ row.dropped \in Int
  BY DEF WindowInv
<1>2. Loaded(row.windows) = row.windows
  BY <1>1, LoadedIsSaved DEF Booked
<1>3. /\ now' = row.now /\ target' = row.now /\ input' = row.input /\ state' = row.state
      /\ windows' = row.windows /\ trusted' = TRUE /\ last_returned' = row.state
      /\ exact' = row.exact /\ dropped' = row.dropped /\ origin' = row.origin
      /\ changed_at' = row.changed_at /\ slope_from' = row.slope_from /\ row' = row
  BY <1>2 DEF Restart
<1>4. Booked(windows, now, origin, changed_at, slope_from)'
  BY <1>1, <1>3 DEF Booked, Books, OnGrid, Current
<1> QED
  BY <1>1, <1>3, <1>4 DEF WindowInv, TypeOK, Booked

\* A row is what the solver has, and a bound moves only the state.
LEMMA WindowRow == ASSUME WindowInv, SaveRow PROVE WindowInv'
<1>1. /\ row'.now = now /\ row'.input = input /\ row'.state = state
      /\ row'.windows = windows /\ row'.exact = exact /\ row'.origin = origin
      /\ row'.changed_at = changed_at /\ row'.slope_from = slope_from
      /\ UNCHANGED <<system, held, reference>>
  BY DEF SaveRow
<1>2. row'.dropped \in Int
  BY DEF SaveRow, Overlooked, WindowInv, TypeOK, Bookkeeping
<1> QED
  BY <1>1, <1>2 DEF WindowInv, TypeOK, Booked, Books, OnGrid, Current, system, held, reference

LEMMA WindowBound == ASSUME WindowInv, Bound PROVE WindowInv'
<1>1. state' \in Int /\ exact' = state' + windows.acc
      /\ UNCHANGED <<now, target, input, held, dropped, origin, changed_at, slope_from, row>>
  BY WindowsAssumption DEF Bound
<1>2. windows.acc \in Int
  BY DEF WindowInv, TypeOK, Bookkeeping
<1> QED
  BY <1>1, <1>2 DEF WindowInv, TypeOK, Booked, Books, OnGrid, Current, held

\* Every reachable state satisfies it.
THEOREM WindowInvariance == WindowsSpec => []WindowInv
<1>1. WindowInv /\ [WindowsNext]_windowsVars => WindowInv'
  <2> SUFFICES ASSUME WindowInv, [WindowsNext]_windowsVars PROVE WindowInv'
    OBVIOUS
  <2>1. CASE UNCHANGED windowsVars
    BY <2>1 DEF windowsVars, system, held, reference, WindowInv, TypeOK, Booked, Books, OnGrid, Current
  <2> QED
    BY <2>1, WindowCall, WindowPass, WindowPlantChange, WindowBound, WindowRow, WindowRestart
       DEF WindowsNext
<1> QED
  BY <1>1, WindowInit, PTL DEF WindowsSpec

\* Every window closes on the grid of the first one, whatever shortened the
\* windows before it.
THEOREM WindowsCloseOnGrid == WindowsSpec => []ClosesOnGrid
<1>1. WindowInv => ClosesOnGrid
  BY DEF WindowInv, Booked, Books, OnGrid, ClosesOnGrid
<1> QED
  BY <1>1, WindowInvariance, PTL

\* The system is never shown a prediction of the plant before a change.
THEOREM PredictionsArePresent == WindowsSpec => []PredictsPresentPlant
<1>1. WindowInv => PredictsPresentPlant
  BY DEF WindowInv, Booked, Current, PredictsPresentPlant
<1> QED
  BY <1>1, WindowInvariance, PTL

----------------------------------------------------------------------------
(***************************************************************************)
(* The integral of the input, and what the solver drops of it.             *)
(***************************************************************************)
LEMMA AccountInit == WindowsInit => AccountInv
BY DEF WindowsInit, AccountInv, Accounted, Given, NoWindows

\* A value given is taken up by the call, as the anchor of a new window; what
\* the old one had summed is dropped.
LEMMA AccountCall == ASSUME WindowInv, AccountInv, Call PROVE AccountInv'
<1> DEFINE end == IF windows.open /\ windows.window_end > now
                  THEN windows.window_end ELSE now + Window
           o == OpenWindow(windows, now, state, 0, 1)
<1>1. /\ windows \in Bookkeeping /\ now \in Nat /\ state \in Int /\ exact \in Int
      /\ Books(windows, now)
  BY DEF WindowInv, TypeOK, Booked
<1>2. UNCHANGED <<now, state, exact, row>> /\ target = now /\ target' # now' /\ row' = row
  BY <1>1, WindowsAssumption DEF Call
<1>3. CASE ~windows.open \/ Given
  <2>1. windows' = [o EXCEPT !.window_end = end] /\ dropped' = windows.acc
    BY <1>3 DEF Call
  <2>2. Opened(o, windows, now, state, 0, 1)
    BY <1>1, OpenFields
  <2> HIDE DEF o, end
  <2>3. windows'.open /\ windows'.anchor = state /\ windows'.acc = 0
    BY <2>1, <2>2 DEF Opened, Bookkeeping
  <2>4. exact = state + windows.acc
    <3>1. CASE windows.open
      BY <1>2, <1>3, <3>1 DEF AccountInv
    <3>2. CASE ~windows.open
      <4>1. state = exact /\ windows.acc = 0
        BY <1>1, <3>2 DEF AccountInv, Accounted, Given, Books, NoWindows
      <4> QED
        BY <1>1, <4>1
    <3> QED
      BY <3>1, <3>2
  <2>5. windows.acc \in Int
    BY <1>1 DEF Bookkeeping
  <2>6. windows'.anchor + windows'.acc + dropped' = exact'
    BY <1>1, <1>2, <2>1, <2>3, <2>4, <2>5
  <2> QED
    BY <1>2, <2>3, <2>6 DEF AccountInv, Accounted
<1>4. CASE ~(~windows.open \/ Given)
  <2>1. windows' = windows /\ dropped' = dropped
    BY <1>4 DEF Call
  <2> QED
    BY <1>2, <1>4, <2>1 DEF AccountInv, Accounted
<1> QED
  BY <1>3, <1>4

\* What a pass sums is what the exact integral gains, and a close only moves
\* it from the sum to the anchor.
LEMMA AccountPass == ASSUME WindowInv, AccountInv, Pass PROVE AccountInv'
<1> DEFINE stop == IF windows.window_end < target THEN windows.window_end ELSE target
           q == (stop - now) * input
           summed == [windows EXCEPT !.acc = @ + q]
           c == CloseWindow(summed, stop)
<1>1. /\ windows \in Bookkeeping /\ windows.open /\ now \in Int /\ target \in Int
      /\ now < target /\ state \in Int /\ input \in Int /\ exact \in Int /\ dropped \in Int
  BY DEF WindowInv, TypeOK, Pass
<1>2. windows.anchor + windows.acc + dropped = exact
  BY <1>1 DEF AccountInv, Accounted
<1>3. stop \in Int /\ q \in Int
  BY <1>1 DEF Bookkeeping
<1>4. /\ summed \in Bookkeeping /\ summed.open /\ summed.anchor = windows.anchor
      /\ summed.acc = windows.acc + q
  <2> HIDE DEF q
  <2> QED
    BY <1>1, <1>3 DEF Bookkeeping
<1>5. /\ now' = stop /\ exact' = exact + q /\ row' = row /\ target' = target
      /\ dropped' = dropped /\ (stop = target => last_returned' = state')
  BY DEF Pass
<1>6. CASE stop = windows.window_end
  <2>1. windows' = [c EXCEPT !.window_end = stop + Window]
    BY <1>6 DEF Pass, Quadrature
  <2> HIDE DEF summed
  <2>2. Opened(c, summed, stop, summed.anchor + summed.acc, summed.acc, stop - summed.t_anchor)
    BY <1>3, <1>4, CloseFields
  <2> HIDE DEF c, stop, q
  <2>3. windows'.open /\ windows'.anchor = windows.anchor + windows.acc + q /\ windows'.acc = 0
    BY <1>1, <1>3, <1>4, <2>1, <2>2 DEF Opened, Bookkeeping
  <2>5. windows.anchor \in Int /\ windows.acc \in Int
    BY <1>1 DEF Bookkeeping
  <2>4. windows'.anchor + windows'.acc + dropped' = exact'
    BY <1>1, <1>2, <1>3, <1>5, <2>3, <2>5
  <2> QED
    BY <1>5, <2>3, <2>4 DEF AccountInv, Accounted, Given
<1>7. CASE stop # windows.window_end
  <2>1. windows' = summed
    BY <1>7 DEF Pass, Quadrature
  <2> HIDE DEF summed, stop, q
  <2>3. windows.anchor \in Int /\ windows.acc \in Int
    BY <1>1 DEF Bookkeeping
  <2>2. windows'.anchor + windows'.acc + dropped' = exact'
    BY <1>1, <1>2, <1>3, <1>4, <1>5, <2>1, <2>3
  <2> QED
    BY <1>4, <1>5, <2>1, <2>2 DEF AccountInv, Accounted, Given
<1> QED
  BY <1>6, <1>7

\* What is overlooked leaves the account balanced at the anchor.
LEMMA OverlookedBalances ==
    ASSUME WindowInv, AccountInv, target = now, windows.open
    PROVE  windows.anchor + windows.acc + Overlooked = exact
<1>1. /\ windows.anchor \in Int /\ windows.acc \in Int /\ state \in Int /\ exact \in Int
      /\ dropped \in Int
  BY DEF WindowInv, TypeOK, Bookkeeping
<1>2. CASE Given
  <2>1. exact = state + windows.acc /\ Overlooked = state - windows.anchor
    BY <1>2 DEF AccountInv, Overlooked
  <2> QED
    BY <1>1, <2>1
<1>3. CASE ~Given
  <2>1. windows.anchor + windows.acc + dropped = exact /\ Overlooked = dropped
    BY <1>3 DEF AccountInv, Accounted, Overlooked
  <2> QED
    BY <2>1
<1> QED
  BY <1>2, <1>3

\* Settling moves the sum to the anchor; a value given after it stands for
\* itself.
LEMMA AccountPlantChange == ASSUME WindowInv, AccountInv, PlantChange PROVE AccountInv'
<1>1. /\ windows \in Bookkeeping /\ now \in Nat /\ state \in Int /\ exact \in Int
      /\ Books(windows, now)
  BY DEF WindowInv, TypeOK, Booked
<1>0. /\ now' = now /\ target' = now /\ target = now /\ row' = row
      /\ windows' = Settled(windows, now) /\ dropped' = Overlooked
  BY DEF PlantChange
<1>2. \/ state' = SettledState /\ exact' = exact
      \/ state' # SettledState /\ state' \in Int /\ exact' = state'
  BY WindowsAssumption DEF PlantChange
<1>4. CASE windows.open
  <2> DEFINE s == Settled(windows, now)
  <2>1. Opened(s, windows, now, windows.anchor + windows.acc, 0, 1)
    BY <1>1, <1>4, SettledFields DEF Books
  <2> HIDE DEF s
  <2>3. s.anchor = windows.anchor + windows.acc /\ s.acc = 0 /\ s.open
    BY <1>4, <2>1 DEF Opened
  <2>4. trusted' = FALSE /\ last_returned' = SettledState
    BY <1>4 DEF PlantChange
  <2>5. windows' = s
    BY <1>0 DEF s
  <2>6. windows.anchor \in Int /\ windows.acc \in Int /\ Overlooked \in Int
    BY <1>1 DEF Bookkeeping, Overlooked, WindowInv, TypeOK
  <2>7. CASE state' = SettledState /\ exact' = exact
    <3>1. windows.anchor + windows.acc + Overlooked = exact
      BY <1>0, <1>4, OverlookedBalances
    <3>2. windows'.anchor + windows'.acc + dropped' = exact'
      BY <1>0, <1>1, <2>3, <2>5, <2>6, <2>7, <3>1
    <3> QED
      BY <1>0, <2>3, <2>4, <2>5, <2>7, <3>2 DEF AccountInv, Accounted, Given
  <2>8. CASE state' # SettledState /\ state' \in Int /\ exact' = state'
    <3>1. exact' = state' + windows'.acc
      BY <2>3, <2>5, <2>8
    <3>2. Given'
      BY <2>3, <2>4, <2>5, <2>8 DEF Given
    <3> QED
      BY <1>0, <3>1, <3>2 DEF AccountInv
  <2> QED
    BY <1>2, <2>7, <2>8
<1>5. CASE ~windows.open
  <2>1. windows' = windows /\ SettledState = state
    BY <1>0, <1>5 DEF Settled, SettledState
  <2>2. state = exact
    BY <1>5 DEF AccountInv, Accounted, Given
  <2> QED
    BY <1>0, <1>2, <1>5, <2>1, <2>2 DEF AccountInv, Accounted, Given
<1> QED
  BY <1>4, <1>5

\* A bound gives a value beside the open sum.
LEMMA AccountBound == ASSUME WindowInv, AccountInv, Bound PROVE AccountInv'
<1>1. /\ target = now /\ windows.open /\ ~trusted /\ state = last_returned
      /\ state' # state /\ exact' = state' + windows.acc
      /\ UNCHANGED <<now, target, windows, trusted, last_returned, row>>
  BY DEF Bound, held
<1>2. Given'
  BY <1>1 DEF Given
<1> QED
  BY <1>1, <1>2 DEF AccountInv

\* A row is written with what its reader will drop, and read back so.
LEMMA AccountRow == ASSUME WindowInv, AccountInv, SaveRow PROVE AccountInv'
<1>1. /\ row'.state = state /\ row'.windows = windows /\ row'.exact = exact
      /\ row'.dropped = Overlooked /\ target = now
      /\ UNCHANGED <<now, target, state, windows, trusted, last_returned, exact, dropped>>
  BY DEF SaveRow, system, held, reference
<1>2. Accounted(row.windows, row.state, row.exact, row.dropped)'
  <2>1. CASE windows.open
    BY <1>1, <2>1, OverlookedBalances DEF Accounted
  <2>2. CASE ~windows.open
    BY <1>1, <2>2 DEF AccountInv, Accounted, Given
  <2> QED
    BY <2>1, <2>2
<1>3. IF (target = now /\ Given)' THEN (exact = state + windows.acc)'
      ELSE Accounted(windows, state, exact, dropped)'
  BY <1>1 DEF AccountInv, Accounted, Given
<1> QED
  BY <1>2, <1>3 DEF AccountInv

LEMMA AccountRestart == ASSUME WindowInv, AccountInv, Restart PROVE AccountInv'
<1>1. Loaded(row.windows) = row.windows
  BY LoadedIsSaved DEF WindowInv, Booked
<1>2. /\ state' = row.state /\ windows' = row.windows /\ exact' = row.exact
      /\ dropped' = row.dropped /\ trusted' = TRUE /\ row' = row
  BY <1>1 DEF Restart
<1> QED
  BY <1>2 DEF AccountInv, Accounted, Given

THEOREM AccountInvariance == WindowsSpec => []AccountInv
<1>1. WindowInv /\ AccountInv /\ [WindowsNext]_windowsVars => AccountInv'
  <2> SUFFICES ASSUME WindowInv, AccountInv, [WindowsNext]_windowsVars PROVE AccountInv'
    OBVIOUS
  <2>1. CASE UNCHANGED windowsVars
    BY <2>1 DEF windowsVars, system, held, reference, AccountInv, Accounted, Given
  <2> QED
    BY <2>1, AccountCall, AccountPass, AccountPlantChange, AccountBound, AccountRow,
       AccountRestart DEF WindowsNext
<1> QED
  BY <1>1, AccountInit, WindowInvariance, PTL DEF WindowsSpec

\* No input of the windowed group is lost or counted twice, wherever bounds,
\* given values, changes and rows meet its windows: what its anchor and the open
\* sum stand for is the integral of the input, but for the open sum dropped by
\* the call that takes a value up, and the value that none takes up.
THEOREM InputIsKept == WindowsSpec => []NothingLost
<1>1. AccountInv => NothingLost
  BY DEF AccountInv, Accounted, NothingLost
<1> QED
  BY <1>1, AccountInvariance, PTL

----------------------------------------------------------------------------
(***************************************************************************)
(* The Jacobians of the implicit solver.  That a factorization found by    *)
(* versions is one of the present Jacobian follows from a property of all  *)
(* versions a block ever had and something still remembers: each names     *)
(* one set of columns, and a new one is above them.                        *)
(***************************************************************************)
Places == [mode : Modes, params : Nat, point : Points]
Exacts == [mode : Modes, params : Nat, ratio : Ratios]
Columns == [fd : Places, ex : Exacts \cup {None}]
Jacobians == [Blocks -> Columns]
Name == [version : Nat, columns : Columns]
Block == [version : Nat, revision : Nat, cache : Seq(Name)]

\* What the cache, the factorizations and the Jacobian call by a version.
FactorNames(b) == {[version |-> f.key.versions[b], columns |-> f.matrix[b]] : f \in factors}
Named(block, others) == ToSet(block.cache) \cup others
Own(block, columns) == [version |-> block.version, columns |-> columns]

\* Versions that name one thing each, none above the last revision.
OneMeaning(names, revision) ==
    /\ \A x, y \in names : x.version = y.version => x.columns = y.columns
    /\ \A x \in names : x.version <= revision

\* A block with columns of its own, and one whose columns are given up.
Free(block, others) ==
    /\ block \in Block /\ others \subseteq Name
    /\ OneMeaning(Named(block, others), block.revision)
Meant(block, columns, others) ==
    /\ Free(block, others) /\ columns \in Columns
    /\ OneMeaning(Named(block, others) \cup {Own(block, columns)}, block.revision)

\* Of a system of Jacobian and blocks.
Coherent(s) ==
    /\ s.J \in Jacobians /\ s.blocks \in [Blocks -> Block]
    /\ \A b \in Blocks : Meant(s.blocks[b], s.J[b], FactorNames(b))

\* Columns formed in a mode with the present parameters.
FormedIn(m, matrix) == \A b \in Blocks : matrix[b].fd.mode = m /\ matrix[b].fd.params = params

\* The Jacobian held belongs to its mode, and its versions name it.
JacobianHolds == Coherent(System) /\ FormedIn(held_mode, J)

LinearInv ==
    /\ mode \in Modes /\ ratio \in Ratios /\ point \in Points /\ params \in Nat
    /\ attempts \in Nat /\ blocks \in [Blocks -> Block]
    /\ factors \subseteq [key : [h : Steps, versions : [Blocks -> Nat]], matrix : Jacobians]
    /\ modes \in Seq([mode : Modes, J : Jacobians])
    /\ \A b \in Blocks : Free(blocks[b], FactorNames(b))
    /\ J # None => JacobianHolds
    /\ \A i \in DOMAIN modes : FormedIn(modes[i].mode, modes[i].J)
    /\ attempts > 0 => JacobianHolds /\ held_mode = mode /\ J["circuit"].ex = Exact
    /\ used # None => attempts > 0 /\ used.matrix = J

----------------------------------------------------------------------------
\* Sequences that lose or gain an entry.
LEMMA AppendNames ==
    ASSUME NEW S, NEW q \in Seq(S), NEW e \in S
    PROVE  Append(q, e) \in Seq(S) /\ ToSet(Append(q, e)) = ToSet(q) \cup {e}
<1>1. /\ Append(q, e) \in Seq(S) /\ Len(Append(q, e)) = Len(q) + 1
      /\ \A i \in 1 .. Len(q) : Append(q, e)[i] = q[i]
      /\ Append(q, e)[Len(q) + 1] = e
  BY AppendProperties
<1>2. DOMAIN q = 1 .. Len(q) /\ DOMAIN Append(q, e) = 1 .. Len(q) + 1 /\ Len(q) \in Nat
  BY <1>1
<1>3. 1 .. Len(q) + 1 = (1 .. Len(q)) \cup {Len(q) + 1}
  BY <1>2
<1> QED
  BY <1>1, <1>2, <1>3 DEF ToSet

\* A cache never gains an entry by its bound.
LEMMA NewestNames ==
    ASSUME NEW S, NEW q \in Seq(S)
    PROVE  Newest(q) \in Seq(S) /\ ToSet(Newest(q)) \subseteq ToSet(q)
<1>1. CASE Len(q) > Cache
  <2>1. q # <<>>
    BY <1>1, SolverPlantAssumption
  <2>2. /\ Tail(q) \in Seq(S) /\ Len(Tail(q)) = Len(q) - 1
        /\ \A i \in 1 .. Len(Tail(q)) : Tail(q)[i] = q[i + 1]
    BY <2>1, HeadTailProperties
  <2>3. \A i \in DOMAIN Tail(q) : Tail(q)[i] = q[i + 1] /\ i + 1 \in DOMAIN q
    BY <2>2
  <2> QED
    BY <1>1, <2>2, <2>3 DEF Newest, ToSet
<1>2. CASE ~(Len(q) > Cache)
  BY <1>2 DEF Newest
<1> QED
  BY <1>1, <1>2

\* Removing an entry leaves others as they are.
LEMMA RemovedNames ==
    ASSUME NEW S, NEW q \in Seq(S), NEW i \in DOMAIN q
    PROVE  RemoveAt(q, i) \in Seq(S) /\ ToSet(RemoveAt(q, i)) \subseteq ToSet(q)
<1> DEFINE l == SubSeq(q, 1, i - 1)
           r == SubSeq(q, i + 1, Len(q))
<1>1. i \in 1 .. Len(q) /\ Len(q) \in Nat
  OBVIOUS
<1>2. /\ l \in Seq(S) /\ Len(l) = i - 1
      /\ \A k \in 1 .. i - 1 : l[k] = q[k]
  BY <1>1, SubSeqProperties
<1>3. /\ r \in Seq(S) /\ Len(r) = Len(q) - i
      /\ \A k \in 1 .. Len(q) - i : r[k] = q[k + i]
  BY <1>1, SubSeqProperties
<1> HIDE DEF l, r
<1>4. /\ l \o r \in Seq(S) /\ Len(l \o r) = Len(l) + Len(r)
      /\ \A k \in 1 .. Len(l) + Len(r) :
             (l \o r)[k] = IF k <= Len(l) THEN l[k] ELSE r[k - Len(l)]
  BY <1>2, <1>3, ConcatProperties
<1>0. Len(l) + Len(r) = Len(q) - 1
  BY <1>1, <1>2, <1>3
<1>5. ASSUME NEW k \in 1 .. Len(q) - 1
      PROVE  \E n \in 1 .. Len(q) : (l \o r)[k] = q[n]
  <2>0. (l \o r)[k] = IF k <= Len(l) THEN l[k] ELSE r[k - Len(l)]
    BY <1>4, <1>0
  <2>1. CASE k <= i - 1
    <3>1. (l \o r)[k] = q[k] /\ k \in 1 .. Len(q)
      BY <1>1, <1>2, <2>0, <2>1
    <3> QED
      BY <3>1
  <2>2. CASE k > i - 1
    <3> DEFINE d == k - (i - 1)
    <3>1. (l \o r)[k] = r[d] /\ d \in 1 .. Len(q) - i
      BY <1>1, <1>2, <2>0, <2>2
    <3>2. d + i \in 1 .. Len(q)
      BY <1>1, <3>1, SMTT(30)
    <3> HIDE DEF d
    <3>3. (l \o r)[k] = q[d + i]
      BY <3>1, <1>3
    <3> QED
      BY <3>2, <3>3
  <2>3. k <= i - 1 \/ k > i - 1
    BY <1>1
  <2> QED
    BY <2>1, <2>2, <2>3
<1>6. \A k \in DOMAIN (l \o r) : \E n \in DOMAIN q : (l \o r)[k] = q[n]
  <2>1. DOMAIN (l \o r) = 1 .. Len(q) - 1 /\ DOMAIN q = 1 .. Len(q)
    BY <1>1, <1>4, <1>0
  <2> QED
    BY <1>5, <2>1
<1>7. ToSet(l \o r) \subseteq ToSet(q)
  BY <1>6 DEF ToSet
<1> QED
  BY <1>4, <1>7 DEF RemoveAt, l, r

----------------------------------------------------------------------------
\* A new identity is above everything a version means.
LEMMA TouchedMeans ==
    ASSUME NEW block, NEW others, Free(block, others), NEW columns \in Columns
    PROVE  Meant(Touched(block), columns, others)
<1>0. block \in [version : Nat, revision : Nat, cache : Seq(Name)]
  BY DEF Free, Block
<1>1. /\ Touched(block) \in Block /\ Touched(block).cache = block.cache
      /\ Touched(block).revision = block.revision + 1
      /\ Touched(block).version = block.revision + 1
      /\ block.revision \in Nat
  <2>1. block.revision \in Nat /\ block.revision + 1 \in Nat
    BY <1>0
  <2>2. Touched(block) = [block EXCEPT !.revision = block.revision + 1,
                                       !.version = block.revision + 1]
    BY <1>0 DEF Touched
  <2> QED
    BY <1>0, <2>1, <2>2 DEF Block
<1>2. block.cache \in Seq(Name)
  BY DEF Free, Block
<1>3. Named(block, others) \subseteq Name
  BY <1>2 DEF Free, Named, ToSet
<1>4. \A x \in Named(block, others) : x.version \in Nat /\ x.version <= block.revision
  BY <1>3 DEF Free, OneMeaning, Name
<1>5. Named(Touched(block), others) = Named(block, others)
  BY <1>1 DEF Named
<1>6. Own(Touched(block), columns).version = block.revision + 1
  BY <1>1 DEF Own
<1> QED
  BY <1>1, <1>4, <1>5, <1>6 DEF Meant, Free, OneMeaning

\* Columns stored in the cache are what the new version means.
LEMMA StoredMeans ==
    ASSUME Skips, NEW block, NEW others, Free(block, others), NEW columns \in Columns
    PROVE  Meant(Stored(block, columns), columns, others)
<1> DEFINE touched == Touched(block)
           entry == [version |-> touched.version, columns |-> columns]
           kept == Newest(Append(touched.cache, entry))
<1>1. Meant(touched, columns, others)
  BY TouchedMeans
<1>2. touched \in Block /\ touched.cache \in Seq(Name) /\ touched.version \in Nat
  BY <1>1 DEF Meant, Free, Block
<1> HIDE DEF touched
<1>3. entry \in Name /\ entry = Own(touched, columns)
  BY <1>2 DEF Name, Own
<1>4. kept \in Seq(Name) /\ ToSet(kept) \subseteq ToSet(touched.cache) \cup {entry}
  <2> DEFINE longer == Append(touched.cache, entry)
  <2>1. longer \in Seq(Name) /\ ToSet(longer) = ToSet(touched.cache) \cup {entry}
    BY <1>2, <1>3, AppendNames
  <2> HIDE DEF longer
  <2>2. Newest(longer) \in Seq(Name) /\ ToSet(Newest(longer)) \subseteq ToSet(longer)
    BY <2>1, NewestNames
  <2> QED
    BY <2>1, <2>2 DEF longer
<1>5. Stored(block, columns) = [touched EXCEPT !.cache = kept]
  BY <1>2 DEF Stored, Signature, touched, Block
<1> HIDE DEF kept, entry
<1>6. /\ Stored(block, columns) \in Block /\ Stored(block, columns).cache = kept
      /\ Stored(block, columns).version = touched.version
      /\ Stored(block, columns).revision = touched.revision
  BY <1>2, <1>4, <1>5 DEF Block
<1>7. Own(Stored(block, columns), columns) = Own(touched, columns)
  BY <1>6 DEF Own
<1>8. Named(Stored(block, columns), others) \subseteq
          Named(touched, others) \cup {Own(touched, columns)}
  BY <1>3, <1>4, <1>6 DEF Named
<1> QED
  BY <1>1, <1>6, <1>7, <1>8 DEF Meant, Free, OneMeaning

\* An entry found again: its version means its columns as before.
LEMMA FoundMeans ==
    ASSUME NEW block, NEW others, Free(block, others), NEW i \in DOMAIN block.cache
    PROVE  Meant([block EXCEPT !.version = block.cache[i].version,
                               !.cache = Append(RemoveAt(block.cache, i), block.cache[i])],
                 block.cache[i].columns, others)
<1> DEFINE entry == block.cache[i]
           moved == Append(RemoveAt(block.cache, i), entry)
           found == [block EXCEPT !.version = entry.version, !.cache = moved]
<1>1. block \in Block /\ block.cache \in Seq(Name) /\ entry \in Name
      /\ entry \in ToSet(block.cache)
  BY DEF Free, Block, ToSet
<1>2. moved \in Seq(Name) /\ ToSet(moved) \subseteq ToSet(block.cache)
  BY <1>1, RemovedNames, AppendNames
<1>3. entry.version \in Nat /\ entry.columns \in Columns
      /\ entry = [version |-> entry.version, columns |-> entry.columns]
  BY <1>1 DEF Name
<1> HIDE DEF entry, moved
<1>4. found \in Block /\ found.cache = moved /\ found.version = entry.version
      /\ found.revision = block.revision
  BY <1>1, <1>2, <1>3 DEF Block
<1> HIDE DEF found
<1>5. Own(found, entry.columns) = entry
  BY <1>3, <1>4 DEF Own
<1>6. Named(found, others) \cup {entry} \subseteq Named(block, others)
  BY <1>1, <1>2, <1>4 DEF Named
<1>7. Meant(found, entry.columns, others)
  BY <1>3, <1>4, <1>5, <1>6 DEF Meant, Free, OneMeaning
<1> QED
  BY <1>7 DEF found, entry, moved

----------------------------------------------------------------------------
\* What the columns would be formed from now is one of them.
PlantTyped == mode \in Modes /\ ratio \in Ratios /\ point \in Points /\ params \in Nat

\* They are well formed.
LEMMA PresentColumns ==
    ASSUME PlantTyped
    PROVE  Differences \in Places /\ Exact \in Exacts
BY DEF PlantTyped, Differences, Exact, Places, Exacts

\* A system whose blocks are free to be formed.
Open(s) ==
    /\ s = [J |-> s.J, blocks |-> s.blocks]
    /\ s.J \in Jacobians /\ s.blocks \in [Blocks -> Block]
    /\ \A b \in Blocks : Free(s.blocks[b], FactorNames(b))

\* A coherent system may be formed anew.
LEMMA CoherentIsOpen ==
    ASSUME NEW s, s = [J |-> s.J, blocks |-> s.blocks], Coherent(s)
    PROVE  Open(s)
BY DEF Coherent, Open, Meant

\* The netlist's matrix renewed: columns that change get a new identity, those
\* that are renewed to what they were keep theirs.
LEMMA RefreshedMeans ==
    ASSUME Skips, PlantTyped, NEW s, s = [J |-> s.J, blocks |-> s.blocks], Coherent(s)
    PROVE  /\ Coherent(Refreshed(s))
           /\ Refreshed(s) = [J |-> Refreshed(s).J, blocks |-> Refreshed(s).blocks]
           /\ Refreshed(s).J["circuit"].ex = Exact
           /\ \A b \in Blocks : Refreshed(s).J[b].fd = s.J[b].fd
<1> DEFINE columns == [s.J["circuit"] EXCEPT !.ex = Exact]
           matrix == [s.J EXCEPT !["circuit"] = columns]
           own == s.blocks["circuit"]
           block == IF s.J["circuit"].ex # Exact THEN Touched(own) ELSE own
           new == [s.blocks EXCEPT !["circuit"] = block]
<1>1. "circuit" \in Blocks /\ s.J \in Jacobians /\ s.blocks \in [Blocks -> Block]
  BY DEF Coherent, Blocks
<1>2. s.J["circuit"] \in Columns
  BY <1>1 DEF Jacobians
<1>3. columns \in Columns /\ columns.ex = Exact /\ columns.fd = s.J["circuit"].fd
      /\ (s.J["circuit"].ex = Exact => columns = s.J["circuit"])
  BY <1>2, PresentColumns DEF Columns
<1>4. Refreshed(s) = [J |-> matrix, blocks |-> new]
  <2>1. s \in [J : Jacobians, blocks : [Blocks -> Block]]
    BY <1>1
  <2>2. Refreshed(s) = [s EXCEPT !.J = matrix, !.blocks = new]
    BY <1>1, <1>2, <2>1 DEF Refreshed, Jacobians
  <2> QED
    BY <2>1, <2>2
<1> HIDE DEF columns
<1>5. matrix \in Jacobians /\ matrix["circuit"] = columns
      /\ \A b \in Blocks : b # "circuit" => matrix[b] = s.J[b]
  BY <1>1, <1>3 DEF Jacobians
<1>6. Meant(own, s.J["circuit"], FactorNames("circuit"))
  BY <1>1 DEF Coherent
<1>7. Meant(block, columns, FactorNames("circuit"))
  <2>1. CASE s.J["circuit"].ex = Exact
    BY <2>1, <1>3, <1>6
  <2>2. CASE s.J["circuit"].ex # Exact
    <3>1. Free(own, FactorNames("circuit"))
      BY <1>6 DEF Meant
    <3> QED
      BY <2>2, <3>1, <1>3, TouchedMeans
  <2> QED
    BY <2>1, <2>2
<1> HIDE DEF block
<1>8. block \in Block
  BY <1>7 DEF Meant, Free
<1>9. new \in [Blocks -> Block] /\ new["circuit"] = block
      /\ \A b \in Blocks : b # "circuit" => new[b] = s.blocks[b]
  BY <1>1, <1>8
<1> HIDE DEF matrix, new
<1>10. Coherent([J |-> matrix, blocks |-> new])
  BY <1>5, <1>7, <1>9 DEF Coherent
<1> QED
  BY <1>3, <1>4, <1>5, <1>10

\* What is so of a system after a block of another one was formed.
BlockFormed(new, s, b) ==
    /\ Open(new)
    /\ new.J[b] = [fd |-> Differences, ex |-> s.J[b].ex]
    /\ Meant(new.blocks[b], new.J[b], FactorNames(b))
    /\ \A c \in Blocks : c # b => new.J[c] = s.J[c] /\ new.blocks[c] = s.blocks[c]

\* A block that is formed means its columns, which are the present ones.
LEMMA FormedMeans ==
    ASSUME Skips, PlantTyped, NEW s, Open(s), NEW b \in Blocks
    PROVE  BlockFormed(Formed(s, b), s, b)
<1> DEFINE columns == [fd |-> Differences, ex |-> s.J[b].ex]
           matrix == [s.J EXCEPT ![b] = columns]
           block == Stored(s.blocks[b], columns)
           new == [s.blocks EXCEPT ![b] = block]
<1>1. s.J \in Jacobians /\ s.blocks \in [Blocks -> Block]
      /\ s = [J |-> s.J, blocks |-> s.blocks] /\ Free(s.blocks[b], FactorNames(b))
  BY DEF Open
<1>2. columns \in Columns
  BY <1>1, PresentColumns DEF Jacobians, Columns
<1>3. Formed(s, b) = [J |-> matrix, blocks |-> new]
  <2>1. s \in [J : Jacobians, blocks : [Blocks -> Block]]
    BY <1>1
  <2>2. Formed(s, b) = [s EXCEPT !.J = matrix, !.blocks = new]
    BY <1>1, <2>1 DEF Formed
  <2> QED
    BY <2>1, <2>2
<1> HIDE DEF columns
<1>4. Meant(block, columns, FactorNames(b))
  BY <1>1, <1>2, StoredMeans
<1> HIDE DEF block
<1>5. block \in Block /\ Free(block, FactorNames(b))
  BY <1>4 DEF Meant, Free
<1>6. matrix \in Jacobians /\ matrix[b] = columns
      /\ \A c \in Blocks : c # b => matrix[c] = s.J[c]
  BY <1>1, <1>2 DEF Jacobians
<1>7. new \in [Blocks -> Block] /\ new[b] = block
      /\ \A c \in Blocks : c # b => new[c] = s.blocks[c]
  BY <1>1, <1>5
<1> HIDE DEF matrix, new
<1>8. Open([J |-> matrix, blocks |-> new])
  BY <1>1, <1>5, <1>6, <1>7 DEF Open
<1> QED
  BY <1>3, <1>4, <1>6, <1>7, <1>8 DEF columns, BlockFormed

\* All blocks formed are present.
LEMMA AllFormedMeans ==
    ASSUME Skips, PlantTyped, NEW s, Open(s)
    PROVE  /\ Coherent(AllFormed(s))
           /\ FormedIn(mode, AllFormed(s).J)
           /\ AllFormed(s).J["circuit"].ex = Exact
<1> DEFINE one == Formed(s, "circuit")
           two == Formed(one, "other")
<1>1. Blocks = {"circuit", "other"} /\ "circuit" # "other"
  BY DEF Blocks
<1>2. /\ Open(one) /\ one.J["circuit"].fd = Differences
      /\ Meant(one.blocks["circuit"], one.J["circuit"], FactorNames("circuit"))
  <2>1. BlockFormed(one, s, "circuit")
    BY <1>1, FormedMeans
  <2> HIDE DEF one
  <2> QED
    BY <2>1 DEF BlockFormed
<1> HIDE DEF one
<1>3. /\ Open(two) /\ two.J["other"].fd = Differences
      /\ Meant(two.blocks["other"], two.J["other"], FactorNames("other"))
      /\ two.J["circuit"] = one.J["circuit"] /\ two.blocks["circuit"] = one.blocks["circuit"]
  <2>1. BlockFormed(two, one, "other")
    BY <1>1, <1>2, FormedMeans
  <2> HIDE DEF two
  <2> QED
    BY <1>1, <2>1 DEF BlockFormed
<1> HIDE DEF two
<1>4. Coherent(two) /\ two = [J |-> two.J, blocks |-> two.blocks]
      /\ \A b \in Blocks : two.J[b].fd = Differences
  BY <1>1, <1>2, <1>3 DEF Open, Coherent
<1>5. /\ Coherent(Refreshed(two)) /\ Refreshed(two).J["circuit"].ex = Exact
      /\ \A b \in Blocks : Refreshed(two).J[b].fd = Differences
  BY <1>4, RefreshedMeans
<1>6. AllFormed(s) = Refreshed(two)
  BY DEF AllFormed, one, two
<1> QED
  BY <1>5, <1>6 DEF FormedIn, Differences

\* A block that is looked up: it holds, comes from its cache or is formed.
LEMMA LookedUpMeans ==
    ASSUME Skips, PlantTyped, NEW s, s = [J |-> s.J, blocks |-> s.blocks], Coherent(s),
           NEW b \in Blocks
    PROVE  /\ Coherent(LookedUp(s, b))
           /\ LookedUp(s, b) = [J |-> LookedUp(s, b).J, blocks |-> LookedUp(s, b).blocks]
           /\ LookedUp(s, b).J[b].fd = Differences
           /\ \A c \in Blocks : c # b => LookedUp(s, b).J[c] = s.J[c]
<1> DEFINE wanted == [fd |-> Differences, ex |-> s.J[b].ex]
           found == Found(s.blocks[b], wanted)
           i == CHOOSE k \in found : \A j \in found : j <= k
           entry == s.blocks[b].cache[i]
<1>0. s.J \in Jacobians /\ s.blocks \in [Blocks -> Block] /\ s.J[b] \in Columns
      /\ Meant(s.blocks[b], s.J[b], FactorNames(b)) /\ Open(s)
  BY CoherentIsOpen DEF Coherent, Jacobians
<1>1. CASE s.J[b].fd = Differences
  BY <1>1 DEF LookedUp
<1>2. CASE s.J[b].fd # Differences /\ found = {}
  <2>1. LookedUp(s, b) = Formed(s, b)
    BY <1>2 DEF LookedUp
  <2>2. BlockFormed(LookedUp(s, b), s, b)
    BY <2>1, <1>0, FormedMeans
  <2> QED
    BY <2>2, <1>0 DEF BlockFormed, Open, Coherent
<1>3. CASE s.J[b].fd # Differences /\ found # {}
  <2> DEFINE columns == [s.J[b] EXCEPT !.fd = Differences]
             block == [s.blocks[b] EXCEPT !.version = entry.version,
                                          !.cache = Append(RemoveAt(s.blocks[b].cache, i), entry)]
             matrix == [s.J EXCEPT ![b] = columns]
             new == [s.blocks EXCEPT ![b] = block]
  <2>1. s.blocks[b].cache \in Seq(Name)
    BY <1>0 DEF Block
  <2>2. found \subseteq 1 .. Len(s.blocks[b].cache) /\ Len(s.blocks[b].cache) \in Nat
    BY <2>1 DEF Found
  <2>3. i \in found
    <3>1. \E k \in found : \A j \in found : j <= k
      BY <2>2, <1>3, LastExists
    <3> QED
      BY <3>1
  <2>4. i \in DOMAIN s.blocks[b].cache /\ entry.columns = wanted
    BY <2>3 DEF Found, Signature
  <2>5. columns = wanted
    BY <1>0 DEF Columns
  <2>6. LookedUp(s, b) = [J |-> matrix, blocks |-> new]
    <3>1. s \in [J : Jacobians, blocks : [Blocks -> Block]]
      BY <1>0
    <3>2. LookedUp(s, b) = [s EXCEPT !.J[b].fd = Differences,
                                     !.blocks[b].version = entry.version,
                                     !.blocks[b].cache =
                                         Append(RemoveAt(s.blocks[b].cache, i), entry)]
      BY <1>3, <3>1 DEF LookedUp
    <3> HIDE DEF i, entry, found, wanted
    <3>3. [s EXCEPT !.J[b].fd = Differences, !.blocks[b].version = entry.version,
                    !.blocks[b].cache = Append(RemoveAt(s.blocks[b].cache, i), entry)]
              = [s EXCEPT !.J = matrix, !.blocks = new]
      BY <1>0, <3>1 DEF Jacobians, Block
    <3> QED
      BY <3>1, <3>2, <3>3, ZenonT(60)
  <2> HIDE DEF i, found, wanted
  <2>7. Meant(block, entry.columns, FactorNames(b))
    <3>1. Free(s.blocks[b], FactorNames(b))
      BY <1>0 DEF Meant
    <3> QED
      BY <3>1, <2>4, FoundMeans
  <2>8. Meant(block, columns, FactorNames(b))
    BY <2>4, <2>5, <2>7
  <2>9. columns.fd = Differences
    BY <1>0 DEF Columns
  <2> HIDE DEF block, columns, entry
  <2>10. block \in Block /\ columns \in Columns
    BY <2>8 DEF Meant, Free
  <2>11. matrix \in Jacobians /\ matrix[b] = columns
         /\ \A c \in Blocks : c # b => matrix[c] = s.J[c]
    BY <1>0, <2>10 DEF Jacobians
  <2>12. new \in [Blocks -> Block] /\ new[b] = block
         /\ \A c \in Blocks : c # b => new[c] = s.blocks[c]
    BY <1>0, <2>10
  <2> HIDE DEF matrix, new
  <2>13. Coherent([J |-> matrix, blocks |-> new])
    BY <2>8, <2>11, <2>12 DEF Coherent
  <2> QED
    BY <2>6, <2>9, <2>11, <2>13
<1> QED
  BY <1>1, <1>2, <1>3

----------------------------------------------------------------------------
\* What a step leaves of the system it took over.
LEMMA TakenSystem ==
    ASSUME NEW s, Coherent(s), J' = s.J, blocks' = s.blocks, factors' = factors
    PROVE  Coherent(System)' /\ J' \in Jacobians /\ blocks' \in [Blocks -> Block]
           /\ \A b \in Blocks : Free(blocks'[b], FactorNames(b)')
BY DEF Coherent, System, FactorNames, Meant

\* The memory of modes keeps what was formed with these parameters.
LEMMA RememberedModes ==
    ASSUME LinearInv, NEW m \in Modes, NEW matrix \in Jacobians, FormedIn(m, matrix)
    PROVE  /\ Remembered(m, matrix) \in Seq([mode : Modes, J : Jacobians])
           /\ \A i \in DOMAIN Remembered(m, matrix) :
                  FormedIn(Remembered(m, matrix)[i].mode, Remembered(m, matrix)[i].J)
<1> DEFINE S == [mode : Modes, J : Jacobians]
           entry == [mode |-> m, J |-> matrix]
           others == IF Held(m) = {} THEN modes ELSE RemoveAt(modes, CHOOSE i \in Held(m) : TRUE)
           longer == Append(others, entry)
<1>1. modes \in Seq(S) /\ entry \in S
  BY DEF LinearInv
<1>2. others \in Seq(S) /\ ToSet(others) \subseteq ToSet(modes)
  <2>1. CASE Held(m) = {}
    BY <1>1, <2>1
  <2>2. CASE Held(m) # {}
    <3>1. (CHOOSE i \in Held(m) : TRUE) \in DOMAIN modes
      BY <2>2 DEF Held
    <3> QED
      BY <1>1, <2>2, <3>1, RemovedNames
  <2> QED
    BY <2>1, <2>2
<1> HIDE DEF S, entry, others
<1>3. longer \in Seq(S) /\ ToSet(longer) = ToSet(others) \cup {entry}
  BY <1>1, <1>2, AppendNames
<1> HIDE DEF longer
<1>4. Newest(longer) \in Seq(S) /\ ToSet(Newest(longer)) \subseteq ToSet(longer)
  BY <1>3, NewestNames
<1>5. Remembered(m, matrix) = Newest(longer)
  BY DEF Remembered, longer, others, entry
<1>6. \A x \in ToSet(modes) : FormedIn(x.mode, x.J)
  BY DEF LinearInv, ToSet
<1>7. FormedIn(entry.mode, entry.J)
  BY DEF entry
<1>8. \A x \in ToSet(Newest(longer)) : FormedIn(x.mode, x.J)
  BY <1>2, <1>3, <1>4, <1>6, <1>7
<1> QED
  BY <1>4, <1>5, <1>8 DEF ToSet, S

\* The Jacobian held is renewed, one of the mode's earlier visit is taken up
\* under new versions, or one is formed.
LEMMA EnsureInv ==
    ASSUME Skips, LinearInv, Ensure
    PROVE  LinearInv'
<1>1. PlantTyped /\ mode' = mode /\ params' = params /\ point' = point /\ ratio' = ratio
      /\ factors' = factors /\ used' = None /\ used = None /\ attempts' = 1
  BY DEF LinearInv, PlantTyped, Ensure, plant
<1>2. /\ FactorNames("circuit") = FactorNames("circuit")
      /\ \A b \in Blocks : Free(blocks[b], FactorNames(b))
      /\ blocks \in [Blocks -> Block]
  BY DEF LinearInv
<1> SUFFICES /\ Coherent(System)' /\ J' \in Jacobians /\ blocks' \in [Blocks -> Block]
             /\ \A b \in Blocks : Free(blocks'[b], FactorNames(b)')
             /\ held_mode' = mode /\ FormedIn(mode, J') /\ J'["circuit"].ex = Exact
             /\ modes' \in Seq([mode : Modes, J : Jacobians])
             /\ \A i \in DOMAIN modes' : FormedIn(modes'[i].mode, modes'[i].J)
  BY <1>1 DEF LinearInv, JacobianHolds, FormedIn, Exact, PlantTyped
<1>3. CASE J # None /\ held_mode = mode /\ Take(Refreshed(System)) /\ UNCHANGED <<held_mode, modes>>
  <2>1. Coherent(System) /\ FormedIn(mode, J) /\ System.J = J
        /\ System = [J |-> System.J, blocks |-> System.blocks]
    BY <1>3 DEF LinearInv, JacobianHolds, System
  <2>2. /\ Coherent(Refreshed(System)) /\ Refreshed(System).J["circuit"].ex = Exact
        /\ \A b \in Blocks : Refreshed(System).J[b].fd = J[b].fd
    BY <1>1, <2>1, RefreshedMeans
  <2>3. J' = Refreshed(System).J /\ blocks' = Refreshed(System).blocks
    BY <1>3 DEF Take
  <2>4. Coherent(System)' /\ J' \in Jacobians /\ blocks' \in [Blocks -> Block]
        /\ \A b \in Blocks : Free(blocks'[b], FactorNames(b)')
    BY <2>2, <2>3, <1>1, TakenSystem
  <2> QED
    BY <1>3, <2>1, <2>2, <2>3, <2>4 DEF LinearInv, FormedIn
<1>4. CASE /\ Held(mode) # {}
           /\ LET known == modes[CHOOSE i \in Held(mode) : TRUE].J
                  s == Refreshed([J |-> known, blocks |-> [b \in Blocks |-> Touched(blocks[b])]])
              IN  Take(s) /\ modes' = Remembered(mode, s.J)
           /\ held_mode' = mode
  <2> DEFINE known == modes[CHOOSE i \in Held(mode) : TRUE].J
             renamed == [J |-> known, blocks |-> [b \in Blocks |-> Touched(blocks[b])]]
             s == Refreshed(renamed)
  <2>1. known \in Jacobians /\ FormedIn(mode, known)
    <3>0. (CHOOSE i \in Held(mode) : TRUE) \in Held(mode)
      BY <1>4
    <3>1. PICK i \in Held(mode) : known = modes[i].J
      BY <3>0
    <3>2. i \in DOMAIN modes /\ modes[i].mode = mode
      BY <3>1 DEF Held
    <3>3. modes[i] \in [mode : Modes, J : Jacobians]
      <4> DEFINE S == [mode : Modes, J : Jacobians]
      <4>1. modes \in Seq(S)
        BY DEF LinearInv
      <4> HIDE DEF S
      <4>2. modes[i] \in S
        BY <3>2, <4>1
      <4> QED
        BY <4>2 DEF S
    <3>4. FormedIn(modes[i].mode, modes[i].J)
      BY <3>2 DEF LinearInv
    <3> QED
      BY <3>1, <3>2, <3>3, <3>4
  <2> HIDE DEF known
  <2>2. \A b \in Blocks : Meant(Touched(blocks[b]), known[b], FactorNames(b))
    <3>1. \A b \in Blocks : known[b] \in Columns
      BY <2>1 DEF Jacobians
    <3> QED
      BY <3>1, <1>2, TouchedMeans
  <2>3. Coherent(renamed) /\ renamed.J = known
        /\ renamed = [J |-> renamed.J, blocks |-> renamed.blocks]
    BY <2>1, <2>2 DEF Coherent, Meant, Free
  <2> HIDE DEF renamed
  <2>4. /\ Coherent(s) /\ s.J["circuit"].ex = Exact
        /\ \A b \in Blocks : s.J[b].fd = known[b].fd
    BY <1>1, <2>3, RefreshedMeans
  <2>5. J' = s.J /\ blocks' = s.blocks /\ modes' = Remembered(mode, s.J) /\ held_mode' = mode
    BY <1>4 DEF Take, known, renamed
  <2> HIDE DEF s
  <2>6. FormedIn(mode, s.J) /\ s.J \in Jacobians
    BY <2>1, <2>4 DEF FormedIn, Coherent
  <2>7. Coherent(System)' /\ J' \in Jacobians /\ blocks' \in [Blocks -> Block]
        /\ \A b \in Blocks : Free(blocks'[b], FactorNames(b)')
    BY <2>4, <2>5, <1>1, TakenSystem
  <2>8. /\ modes' \in Seq([mode : Modes, J : Jacobians])
        /\ \A i \in DOMAIN modes' : FormedIn(modes'[i].mode, modes'[i].J)
    BY <2>5, <2>6, <1>1, RememberedModes DEF PlantTyped
  <2> QED
    BY <2>4, <2>5, <2>6, <2>7, <2>8
<1>5. CASE /\ LET s == AllFormed([J |-> Empty, blocks |-> blocks])
              IN  Take(s) /\ modes' = Remembered(mode, s.J)
           /\ held_mode' = mode
  <2> DEFINE blank == [J |-> Empty, blocks |-> blocks]
             s == AllFormed(blank)
  <2>1. Empty \in Jacobians
    BY <1>1, PresentColumns DEF Empty, Jacobians, Columns
  <2>2. Open(blank)
    BY <2>1, <1>2 DEF Open
  <2> HIDE DEF blank
  <2>3. Coherent(s) /\ FormedIn(mode, s.J) /\ s.J["circuit"].ex = Exact
    BY <1>1, <2>2, AllFormedMeans
  <2>4. J' = s.J /\ blocks' = s.blocks /\ modes' = Remembered(mode, s.J) /\ held_mode' = mode
    BY <1>5 DEF Take, blank
  <2> HIDE DEF s
  <2>5. s.J \in Jacobians
    BY <2>3 DEF Coherent
  <2>6. Coherent(System)' /\ J' \in Jacobians /\ blocks' \in [Blocks -> Block]
        /\ \A b \in Blocks : Free(blocks'[b], FactorNames(b)')
    BY <2>3, <2>4, <1>1, TakenSystem
  <2>7. /\ modes' \in Seq([mode : Modes, J : Jacobians])
        /\ \A i \in DOMAIN modes' : FormedIn(modes'[i].mode, modes'[i].J)
    BY <2>3, <2>4, <2>5, <1>1, RememberedModes DEF PlantTyped
  <2> QED
    BY <2>3, <2>4, <2>6, <2>7
<1> QED
  BY <1>3, <1>4, <1>5 DEF Ensure, Ensured

\* A factorization that is found was made from the Jacobian held, since equal
\* versions mean equal columns; one that is made bears its versions.
LEMMA FactorInv ==
    ASSUME LinearInv, NEW h \in Steps, Factor(h)
    PROVE  LinearInv'
<1> DEFINE key == [h |-> h, versions |-> Versions]
           known == {f \in factors : f.key = key}
           new == [key |-> key, matrix |-> J]
           AllFactors == [key : [h : Steps, versions : [Blocks -> Nat]], matrix : Jacobians]
<1>1. /\ attempts > 0 /\ used = None /\ factors \subseteq AllFactors
      /\ UNCHANGED <<mode, ratio, point, params, J, held_mode, modes, blocks, attempts>>
      /\ Coherent(System) /\ J \in Jacobians /\ blocks \in [Blocks -> Block]
  BY DEF Factor, plant, LinearInv, JacobianHolds, Coherent, System
<1>2. \A b \in Blocks : blocks[b].version \in Nat
  BY <1>1 DEF Block
<1>3. new \in AllFactors /\ new.matrix = J
      /\ \A b \in Blocks : new.key.versions[b] = blocks[b].version
  BY <1>1, <1>2 DEF Versions
<1>4. \A b \in Blocks :
          /\ Meant(blocks[b], J[b], FactorNames(b))
          /\ Own(blocks[b], J[b]) = [version |-> blocks[b].version, columns |-> J[b]]
  BY <1>1 DEF Coherent, System, Own
<1>5. /\ used'.matrix = J
      /\ factors' \subseteq factors \cup {new}
  <2>1. CASE known # {}
    <3>1. PICK f \in known : used' = f /\ factors' = factors
      BY <2>1 DEF Factor
    <3>2. f \in factors /\ f.key = key /\ f.matrix \in Jacobians
      BY <3>1, <1>1
    <3>3. ASSUME NEW b \in Blocks PROVE f.matrix[b] = J[b]
      <4>1. f.key.versions[b] = blocks[b].version
        BY <3>2, <1>3
      <4>2. [version |-> f.key.versions[b], columns |-> f.matrix[b]] \in FactorNames(b)
        BY <3>2 DEF FactorNames
      <4>3. OneMeaning(Named(blocks[b], FactorNames(b)) \cup {Own(blocks[b], J[b])},
                       blocks[b].revision)
        BY <1>4 DEF Meant
      <4> DEFINE x == [version |-> f.key.versions[b], columns |-> f.matrix[b]]
                 y == [version |-> blocks[b].version, columns |-> J[b]]
      <4>4. x.version = y.version /\ x.columns = f.matrix[b] /\ y.columns = J[b]
        BY <4>1
      <4>5. x \in Named(blocks[b], FactorNames(b)) /\ y = Own(blocks[b], J[b])
        BY <1>4, <4>2 DEF Named
      <4> HIDE DEF x, y
      <4> QED
        BY <4>3, <4>4, <4>5 DEF OneMeaning
    <3>4. f.matrix = J
      BY <3>2, <3>3, <1>1 DEF Jacobians
    <3> QED
      BY <3>1, <3>4
  <2>2. CASE known = {}
    <3>1. used' = new
      BY <2>2 DEF Factor
    <3>2. factors' = {new} \cup (IF Cardinality(factors) > MaxFactors THEN {} ELSE factors)
      BY <2>2 DEF Factor
    <3> QED
      BY <3>1, <3>2, <1>3
  <2> QED
    BY <2>1, <2>2
<1> HIDE DEF known, new, key
<1>6. factors' \subseteq AllFactors
  BY <1>1, <1>3, <1>5
<1>7. ASSUME NEW b \in Blocks
      PROVE  FactorNames(b)' \subseteq FactorNames(b) \cup {Own(blocks[b], J[b])}
  <2> SUFFICES ASSUME NEW x \in FactorNames(b)'
               PROVE  x \in FactorNames(b) \cup {Own(blocks[b], J[b])}
    OBVIOUS
  <2>1. PICK f \in factors' : x = [version |-> f.key.versions[b], columns |-> f.matrix[b]]
    BY DEF FactorNames
  <2>2. CASE f = new
    <3>1. x = [version |-> blocks[b].version, columns |-> J[b]]
      BY <2>1, <2>2, <1>3
    <3> QED
      BY <3>1, <1>4
  <2>3. CASE f \in factors
    BY <2>1, <2>3 DEF FactorNames
  <2> QED
    BY <1>5, <2>2, <2>3
<1>8. ASSUME NEW b \in Blocks
      PROVE  Meant(blocks[b], J[b], FactorNames(b)')
  <2>1. FactorNames(b)' \subseteq Name
    <3>1. Own(blocks[b], J[b]) \in Name
      BY <1>1, <1>2, <1>4 DEF Name, Jacobians
    <3> QED
      BY <3>1, <1>4, <1>7 DEF Meant, Free
  <2>2. Named(blocks[b], FactorNames(b)') \cup {Own(blocks[b], J[b])}
            \subseteq Named(blocks[b], FactorNames(b)) \cup {Own(blocks[b], J[b])}
    BY <1>7 DEF Named
  <2> QED
    BY <1>4, <2>1, <2>2, ZenonT(60) DEF Meant, Free, OneMeaning
<1>9. Coherent(System)' /\ \A b \in Blocks : Free(blocks[b], FactorNames(b)')
  BY <1>1, <1>8 DEF Coherent, System, Meant
<1> QED
  BY <1>1, <1>5, <1>6, <1>9 DEF LinearInv, JacobianHolds, FormedIn, Exact

\* Every block is formed again.
LEMMA UpdateInv ==
    ASSUME Skips, LinearInv, Update
    PROVE  LinearInv'
<1> DEFINE now1 == Refreshed(System)
           s == AllFormed(now1)
<1>1. /\ PlantTyped /\ mode' = mode /\ params' = params /\ point' = point /\ ratio' = ratio
      /\ factors' = factors /\ used' = None /\ attempts' \in Nat
      /\ Coherent(System) /\ System = [J |-> System.J, blocks |-> System.blocks]
  BY DEF LinearInv, JacobianHolds, PlantTyped, Update, plant, System
<1>2. Coherent(now1) /\ now1 = [J |-> now1.J, blocks |-> now1.blocks]
  BY <1>1, RefreshedMeans
<1> HIDE DEF now1
<1>3. Open(now1)
  BY <1>2, CoherentIsOpen
<1>4. Coherent(s) /\ FormedIn(mode, s.J) /\ s.J["circuit"].ex = Exact
  BY <1>1, <1>3, AllFormedMeans
<1>5. J' = s.J /\ blocks' = s.blocks /\ modes' = Remembered(mode, s.J) /\ held_mode' = mode
  BY DEF Update, Take, now1
<1> HIDE DEF s
<1>6. s.J \in Jacobians
  BY <1>4 DEF Coherent
<1>7. Coherent(System)' /\ J' \in Jacobians /\ blocks' \in [Blocks -> Block]
      /\ \A b \in Blocks : Free(blocks'[b], FactorNames(b)')
  BY <1>1, <1>4, <1>5, TakenSystem
<1>8. /\ modes' \in Seq([mode : Modes, J : Jacobians])
      /\ \A i \in DOMAIN modes' : FormedIn(modes'[i].mode, modes'[i].J)
  BY <1>1, <1>4, <1>5, <1>6, RememberedModes DEF PlantTyped
<1> QED
  BY <1>1, <1>4, <1>5, <1>7, <1>8
     DEF LinearInv, JacobianHolds, FormedIn, Exact, PlantTyped

\* Each block is looked up for a stepper of SciPy.
LEMMA ModeJacobianInv ==
    ASSUME Skips, LinearInv, ModeJacobian
    PROVE  LinearInv'
<1> DEFINE one == Refreshed(System)
           two == LookedUp(one, "circuit")
           three == LookedUp(two, "other")
           s == Refreshed(three)
<1>1. /\ PlantTyped /\ mode' = mode /\ params' = params /\ point' = point /\ ratio' = ratio
      /\ factors' = factors /\ used' = used /\ attempts' = attempts /\ attempts = 0
      /\ held_mode' = held_mode /\ held_mode = mode /\ modes' = modes
      /\ Coherent(System) /\ System = [J |-> System.J, blocks |-> System.blocks]
      /\ J' = s.J /\ blocks' = s.blocks
  BY DEF LinearInv, JacobianHolds, PlantTyped, ModeJacobian, plant, System, Take
<1>2. Coherent(one) /\ one = [J |-> one.J, blocks |-> one.blocks]
  BY <1>1, RefreshedMeans
<1>3. Blocks = {"circuit", "other"} /\ "circuit" # "other"
  BY DEF Blocks
<1> HIDE DEF one
<1>4. Coherent(two) /\ two = [J |-> two.J, blocks |-> two.blocks]
      /\ two.J["circuit"].fd = Differences
  BY <1>1, <1>2, <1>3, LookedUpMeans
<1> HIDE DEF two
<1>5. Coherent(three) /\ three = [J |-> three.J, blocks |-> three.blocks]
      /\ three.J["other"].fd = Differences
      /\ three.J["circuit"] = two.J["circuit"]
  BY <1>1, <1>4, <1>3, LookedUpMeans
<1> HIDE DEF three
<1>6. Coherent(s) /\ \A b \in Blocks : s.J[b].fd = three.J[b].fd
  BY <1>1, <1>5, RefreshedMeans
<1> HIDE DEF s
<1>7. FormedIn(mode, s.J)
  BY <1>3, <1>4, <1>5, <1>6 DEF FormedIn, Differences
<1>8. Coherent(System)' /\ J' \in Jacobians /\ blocks' \in [Blocks -> Block]
      /\ \A b \in Blocks : Free(blocks'[b], FactorNames(b)')
  BY <1>1, <1>6, TakenSystem
<1> QED
  BY <1>1, <1>7, <1>8 DEF LinearInv, JacobianHolds, FormedIn, Exact, PlantTyped

\* A Jacobian that stays keeps what its versions name.
LEMMA NamesStay ==
    ASSUME J' = J, blocks' = blocks, factors' = factors
    PROVE  /\ Coherent(System)' = Coherent(System)
           /\ \A b \in Blocks : FactorNames(b)' = FactorNames(b)
BY DEF Coherent, System, FactorNames

\* The plant moves between two steps, when no Jacobian is in use.
LEMMA PlantInv ==
    ASSUME LinearInv, Converges \/ Commutate
    PROVE  LinearInv'
<1>1. /\ UNCHANGED <<params, J, held_mode, modes, blocks, factors>>
      /\ mode' \in Modes /\ ratio' \in Ratios /\ point' \in Points /\ attempts' \in Nat
      /\ attempts' > 0 => attempts > 0 /\ mode' = mode /\ ratio' = ratio
      /\ used' # None => used' = used /\ attempts' = attempts
  <2>1. CASE Converges
    BY <2>1 DEF Converges, LinearInv
  <2>2. CASE Commutate
    BY <2>2 DEF Commutate, PlantMoves, LinearInv
  <2> QED
    BY <2>1, <2>2
<1>2. /\ Coherent(System)' = Coherent(System)
      /\ \A b \in Blocks : FactorNames(b)' = FactorNames(b)
  BY <1>1, NamesStay
<1>3. JacobianHolds' = JacobianHolds
  BY <1>1, <1>2 DEF JacobianHolds, FormedIn
<1>4. (\A i \in DOMAIN modes : FormedIn(modes[i].mode, modes[i].J))'
  BY <1>1 DEF LinearInv, FormedIn
<1>5. attempts' > 0 => JacobianHolds' /\ held_mode' = mode' /\ J'["circuit"].ex = Exact'
  BY <1>1, <1>3 DEF LinearInv, Exact
<1> QED
  BY <1>1, <1>2, <1>3, <1>4, <1>5 DEF LinearInv

\* Nothing formed before a change of the parameters is kept.
LEMMA ParametersInv ==
    ASSUME LinearInv, ParametersChange
    PROVE  LinearInv'
<1>1. /\ UNCHANGED <<mode, ratio, point, used, attempts>> /\ attempts = 0
      /\ params' = params + 1
      /\ J' = None /\ modes' = <<>> /\ factors' = {}
      /\ blocks' = [b \in Blocks |-> [Touched(blocks[b]) EXCEPT !.cache = <<>>]]
  BY DEF ParametersChange, ParametersMove, KeptModes
<1>2. ASSUME NEW b \in Blocks
      PROVE  blocks'[b] \in Block /\ blocks'[b].cache = <<>>
  <2>1. blocks[b] \in [version : Nat, revision : Nat, cache : Seq(Name)]
    BY DEF LinearInv, Block
  <2>2. blocks[b].revision + 1 \in Nat
    BY <2>1
  <2>3. Touched(blocks[b]) = [blocks[b] EXCEPT !.revision = blocks[b].revision + 1,
                                               !.version = blocks[b].revision + 1]
    BY <2>1 DEF Touched
  <2>4. Touched(blocks[b]) \in [version : Nat, revision : Nat, cache : Seq(Name)]
    BY <2>1, <2>2, <2>3
  <2>5. blocks'[b] = [Touched(blocks[b]) EXCEPT !.cache = <<>>]
    BY <1>1
  <2>6. <<>> \in Seq(Name)
    OBVIOUS
  <2> QED
    BY <2>4, <2>5, <2>6 DEF Block
<1>3. \A b \in Blocks : FactorNames(b)' = {}
  BY <1>1 DEF FactorNames
<1>4. \A b \in Blocks : Free(blocks'[b], FactorNames(b)')
  <2>1. ToSet(<<>>) = {}
    BY DEF ToSet
  <2> QED
    BY <1>2, <1>3, <2>1 DEF Free, Named, OneMeaning
<1>5. blocks' \in [Blocks -> Block]
  BY <1>1, <1>2
<1> QED
  BY <1>1, <1>4, <1>5 DEF LinearInv, JacobianHolds

\* No version of a block ever names two matrices, and no Jacobian outlives its
\* mode or its parameters.
LEMMA LinearStarts == PlantInit /\ LinearInit => LinearInv
<1> SUFFICES ASSUME PlantInit, LinearInit PROVE LinearInv
  OBVIOUS
<1>1. \A b \in Blocks : blocks[b] \in Block /\ blocks[b].cache = <<>>
  BY DEF LinearInit, Block
<1>2. \A b \in Blocks : Free(blocks[b], FactorNames(b))
  BY <1>1 DEF LinearInit, Free, Named, OneMeaning, FactorNames, ToSet
<1> QED
  BY <1>1, <1>2 DEF PlantInit, LinearInit, LinearInv, JacobianHolds

\* Each action of the implicit solver keeps the invariant.
LEMMA LinearStep == ASSUME Skips, LinearInv, LinearNext PROVE LinearInv'
BY EnsureInv, FactorInv, UpdateInv, ModeJacobianInv, PlantInv, ParametersInv DEF LinearNext

----------------------------------------------------------------------------
\* What a cache knows is one of its entries.
LEMMA KnownEntry ==
    ASSUME NEW E, NEW q \in Seq(E), NEW k, Knows(q, k)
    PROVE  \E e \in E : e.key = k /\ e.value = Get(q, k)
<1> DEFINE i == CHOOSE n \in DOMAIN q : q[n].key = k
<1>1. i \in DOMAIN q /\ q[i].key = k
  BY DEF Knows
<1>2. Get(q, k) = q[i].value
  BY DEF Get
<1>3. q[i] \in E
  BY <1>1
<1> QED
  BY <1>1, <1>2, <1>3

\* A cache that takes an entry still holds entries of its kind.
LEMMA UsedEntries ==
    ASSUME NEW E, NEW q \in Seq(E), NEW k, NEW v, [key |-> k, value |-> v] \in E
    PROVE  Used(q, k, v) \in Seq(E)
<1> DEFINE others == IF Knows(q, k) THEN RemoveAt(q, CHOOSE i \in DOMAIN q : q[i].key = k) ELSE q
<1>1. others \in Seq(E)
  <2>1. CASE Knows(q, k)
    <3> DEFINE i == CHOOSE n \in DOMAIN q : q[n].key = k
    <3>1. i \in DOMAIN q
      BY <2>1 DEF Knows
    <3> HIDE DEF i
    <3>2. RemoveAt(q, i) \in Seq(E)
      BY <3>1, RemovedNames
    <3> QED
      BY <2>1, <3>2 DEF i
  <2> QED
    BY <2>1
<1>2. Used(q, k, v) = Newest(Append(others, [key |-> k, value |-> v]))
  BY DEF Used
<1> HIDE DEF others
<1>3. Append(others, [key |-> k, value |-> v]) \in Seq(E)
  BY <1>1
<1> QED
  BY <1>2, <1>3, NewestNames

\* The same for one that keeps known entries in their places.
LEMMA KeptEntries ==
    ASSUME NEW E, \A e \in E : e = [key |-> e.key, value |-> e.value],
           NEW q \in Seq(E), NEW k, NEW v, [key |-> k, value |-> v] \in E
    PROVE  Kept(q, k, v) \in Seq(E)
<1> DEFINE entry == [key |-> k, value |-> v]
<1>1. CASE Knows(q, k)
  <2> DEFINE new == [i \in DOMAIN q |-> IF q[i].key = k THEN [q[i] EXCEPT !.value = v] ELSE q[i]]
  <2>1. Kept(q, k, v) = new
    BY <1>1 DEF Kept
  <2>2. ASSUME NEW i \in DOMAIN q
        PROVE  new[i] \in E
    <3>1. q[i] \in E
      OBVIOUS
    <3>2. q[i] = [key |-> q[i].key, value |-> q[i].value]
      BY <3>1
    <3>3. q[i].key = k => [q[i] EXCEPT !.value = v] = entry
      BY <3>2
    <3> QED
      BY <3>1, <3>3
  <2>3. DOMAIN new = 1 .. Len(q) /\ Len(q) \in Nat
    OBVIOUS
  <2> HIDE DEF new
  <2>4. new \in [1 .. Len(q) -> E]
    BY <2>2, <2>3 DEF new
  <2> QED
    BY <2>1, <2>3, <2>4
<1>2. CASE ~Knows(q, k)
  <2>1. Kept(q, k, v) = Newest(Append(q, entry)) /\ Append(q, entry) \in Seq(E)
    BY <1>2 DEF Kept
  <2> QED
    BY <2>1, NewestNames
<1> QED
  BY <1>1, <1>2

----------------------------------------------------------------------------
(***************************************************************************)
(* The Jacobian and factorizations of an exported program.  Its caches     *)
(* keep entries in their places, and a factorization is found by the step  *)
(* size alone, so that all of them must be of the Jacobian held.           *)
(***************************************************************************)
StructuralModes == [mode : Modes, ratio : Ratios \cup {None}]
NativeJacobians == [mode : Modes, ratio : Ratios, params : Nat, point : Points]
Visits == [key : StructuralModes, value : NativeJacobians]

\* A record with the members of the program, and a memory of modes.
IsProgram(p) ==
    p \in [epoch : {p.epoch}, modes : {p.modes}, patterns : {p.patterns}, blocks : {p.blocks},
           jacobian : {p.jacobian}, selected : {p.selected}, known : Seq(Visits),
           factors : {p.factors}]

\* A Jacobian of a structural mode, formed with the present parameters.
IsOf(matrix, selected) ==
    /\ matrix.mode = selected.mode /\ matrix.params = params
    /\ Transforming # {} => matrix.ratio = selected.ratio

\* The Jacobian that a program holds, and those it remembers.
Holds(p) ==
    /\ IsProgram(p)
    /\ \A f \in p.factors : f.matrix = p.jacobian
    /\ \A x \in ToSet(p.known) : IsOf(x.value, x.key)

NativeInv ==
    /\ PlantTyped /\ tries \in Nat
    /\ Holds(native)
    /\ native.jacobian # None => IsOf(native.jacobian, native.selected)
    /\ tries > 0 => IsOf(native.jacobian, StructuralMode)
    /\ newton # None => tries > 0 /\ newton.matrix = native.jacobian

\* A memory that keeps entries in their places.
LEMMA KeptVisits ==
    ASSUME NEW q \in Seq(Visits), NEW k \in StructuralModes, NEW v \in NativeJacobians
    PROVE  /\ Kept(q, k, v) \in Seq(Visits)
           /\ ToSet(Kept(q, k, v)) \subseteq ToSet(q) \cup {[key |-> k, value |-> v]}
<1> DEFINE entry == [key |-> k, value |-> v]
           E == ToSet(q) \cup {entry}
<1>1. entry \in Visits /\ DOMAIN q = 1 .. Len(q) /\ Len(q) \in Nat
  BY DEF Visits
<1>2. E \subseteq Visits /\ \A i \in 1 .. Len(q) : q[i] \in E
  BY <1>1 DEF ToSet
<1>3. q \in Seq(E) /\ \A e \in E : e = [key |-> e.key, value |-> e.value]
  <2> HIDE DEF E, entry
  <2> QED
    BY <1>1, <1>2 DEF Visits
<1>4. Kept(q, k, v) \in Seq(E)
  BY <1>3, KeptEntries
<1> HIDE DEF E
<1>5. ToSet(Kept(q, k, v)) \subseteq E /\ Kept(q, k, v) \in Seq(Visits)
  BY <1>2, <1>4 DEF ToSet
<1> QED
  BY <1>5 DEF E

\* A Jacobian that is formed is one of the present mode.
LEMMA LinearizedHolds ==
    ASSUME PlantTyped, NEW p, Holds(p)
    PROVE  /\ Holds(Linearized(p)) /\ IsOf(Linearized(p).jacobian, StructuralMode)
           /\ Linearized(p).selected = StructuralMode
<1> DEFINE matrix == [mode |-> mode, ratio |-> ratio, params |-> params, point |-> point]
           known == Kept(p.known, StructuralMode, matrix)
           new == Linearized(p)
<1>1. matrix \in NativeJacobians /\ StructuralMode \in StructuralModes
      /\ IsOf(matrix, StructuralMode)
  BY DEF PlantTyped, NativeJacobians, StructuralMode, StructuralModes, IsOf
<1>2. p.known \in Seq(Visits)
  BY DEF Holds, IsProgram
<1> HIDE DEF matrix
<1>3. /\ known \in Seq(Visits)
      /\ ToSet(known) \subseteq ToSet(p.known) \cup {[key |-> StructuralMode, value |-> matrix]}
  BY <1>1, <1>2, KeptVisits
<1>4. Linearized(p) = [p EXCEPT !.jacobian = matrix, !.factors = {}, !.selected = StructuralMode,
                                !.known = known]
  <2>1. p.known = p.known
    OBVIOUS
  <2> QED
    BY DEF Linearized, matrix, Holds, IsProgram
<1> HIDE DEF known
<1>5. /\ new.jacobian = matrix /\ new.factors = {} /\ new.selected = StructuralMode
      /\ new.known = known /\ IsProgram(new)
  BY <1>3, <1>4 DEF Holds, IsProgram
<1>6. \A x \in ToSet(known) : IsOf(x.value, x.key)
  BY <1>1, <1>3 DEF Holds
<1> QED
  BY <1>1, <1>5, <1>6 DEF Holds

\* The Jacobian of the present mode: the one held, one of an earlier visit, or
\* a new one.
LEMMA SelectedHolds ==
    ASSUME NativeInv
    PROVE  Holds(Selected(native)) /\ IsOf(Selected(native).jacobian, StructuralMode)
           /\ (Selected(native).jacobian # None =>
                  IsOf(Selected(native).jacobian, Selected(native).selected))
<1>0. PlantTyped /\ Holds(native)
  BY DEF NativeInv
<1>1. CASE native.jacobian # None /\ native.selected = StructuralMode
  BY <1>1 DEF NativeInv, Selected
<1>2. CASE ~(native.jacobian # None /\ native.selected = StructuralMode)
           /\ Knows(native.known, StructuralMode)
  <2> DEFINE old == Get(native.known, StructuralMode)
             new == [native EXCEPT !.factors = {}, !.selected = StructuralMode, !.jacobian = old]
  <2>1. Selected(native) = new
    BY <1>2 DEF Selected
  <2>2. PICK i \in DOMAIN native.known :
            native.known[i].key = StructuralMode /\ old = native.known[i].value
    BY <1>2 DEF Knows, Get
  <2>3. IsOf(old, StructuralMode)
    <3>1. native.known[i] \in ToSet(native.known)
      BY DEF ToSet
    <3> QED
      BY <3>1, <2>2, <1>0 DEF Holds
  <2> HIDE DEF old
  <2>4. /\ new.jacobian = old /\ new.factors = {} /\ new.selected = StructuralMode
        /\ new.known = native.known /\ IsProgram(new)
    BY <1>0 DEF Holds, IsProgram
  <2> QED
    BY <2>1, <2>3, <2>4, <1>0 DEF Holds
<1>3. CASE ~(native.jacobian # None /\ native.selected = StructuralMode)
           /\ ~Knows(native.known, StructuralMode)
  BY <1>0, <1>3, LinearizedHolds DEF Selected
<1> QED
  BY <1>1, <1>2, <1>3

\* A program starts without a Jacobian.
LEMMA NativeStarts == PlantInit /\ NativeInit => NativeInv
<1> SUFFICES ASSUME PlantInit, NativeInit PROVE NativeInv
  OBVIOUS
<1>1. /\ IsProgram(native) /\ native.factors = {} /\ native.known = <<>>
      /\ native.jacobian = None /\ tries = 0 /\ newton = None
  BY DEF NativeInit, IsProgram
<1> QED
  BY <1>1 DEF PlantInit, PlantTyped, NativeInv, Holds, ToSet

\* The invariant of the exported implicit solver, action by action: a file
\* event drops everything, and a factorization is of the Jacobian held.
LEMMA NativeStep == ASSUME NativeInv, NativeImplicitNext PROVE NativeInv'
<1>0. PlantTyped /\ Holds(native) /\ tries \in Nat
  BY DEF NativeInv
<1>1. CASE MovesNative
  <2>1. /\ tries = 0 /\ UNCHANGED <<native, newton, tries, params>>
        /\ mode' \in Modes /\ ratio' \in Ratios /\ point' \in Points
    BY <1>1 DEF MovesNative, PlantMoves
  <2> QED
    BY <1>0, <2>1 DEF NativeInv, PlantTyped, Holds, IsOf
<1>2. CASE FileEventNative
  <2>1. /\ tries = 0 /\ UNCHANGED <<mode, ratio, point, newton, tries>> /\ params' = params + 1
        /\ native' = [native EXCEPT !.jacobian = None, !.selected = None, !.known = <<>>,
                                    !.factors = {}, !.epoch = native.epoch + 1]
    BY <1>0, <1>2 DEF FileEventNative, ParametersMove, Holds, IsProgram
  <2>2. /\ native'.jacobian = None /\ native'.factors = {} /\ native'.known = <<>>
        /\ IsProgram(native')
    <3> DEFINE none == <<>>
               next == native.epoch + 1
    <3>1. none \in Seq(Visits)
      OBVIOUS
    <3>2. native' = [native EXCEPT !.jacobian = None, !.selected = None, !.known = none,
                                   !.factors = {}, !.epoch = next]
      BY <2>1
    <3> HIDE DEF none, next
    <3>3. native'.known = none /\ native'.jacobian = None /\ native'.factors = {}
          /\ IsProgram(native')
      BY <1>0, <3>1, <3>2 DEF Holds, IsProgram
    <3> QED
      BY <3>3 DEF none
  <2> QED
    BY <1>0, <2>1, <2>2 DEF NativeInv, PlantTyped, Holds, ToSet
<1>3. CASE AdvanceImplicit
  <2>1. /\ UNCHANGED <<mode, ratio, params, point, newton>> /\ tries = 0 /\ tries' = 1
        /\ native' = Selected(native)
    BY <1>3 DEF AdvanceImplicit, plant
  <2>2. newton' = None /\ StructuralMode' = StructuralMode
    BY <2>1 DEF NativeInv, StructuralMode
  <2>3. Holds(native') /\ IsOf(native'.jacobian, StructuralMode)
        /\ (native'.jacobian # None => IsOf(native'.jacobian, native'.selected))
    BY <2>1, SelectedHolds
  <2> QED
    BY <1>0, <2>1, <2>2, <2>3 DEF NativeInv, PlantTyped, Holds, IsOf
<1>4. CASE ConvergesNative
  <2>1. /\ UNCHANGED <<mode, ratio, params, native>> /\ newton # None /\ newton' = None
        /\ tries' \in {0, 1} /\ point' \in Points
    BY <1>4 DEF ConvergesNative
  <2> QED
    BY <1>0, <2>1 DEF NativeInv, PlantTyped, Holds, IsOf, StructuralMode
<1>5. CASE RetriesNative
  <2>1. /\ UNCHANGED <<mode, ratio, params, point>> /\ newton # None /\ newton' = None
        /\ tries' \in {1, 2} /\ native' = Linearized(native)
    BY <1>5 DEF RetriesNative, plant
  <2>2. Holds(native') /\ IsOf(native'.jacobian, StructuralMode)
        /\ native'.selected = StructuralMode /\ StructuralMode' = StructuralMode
    BY <1>0, <2>1, LinearizedHolds DEF StructuralMode
  <2> QED
    BY <1>0, <2>1, <2>2 DEF NativeInv, PlantTyped, Holds, IsOf
<1>6. ASSUME NEW h \in Steps, FactorNative(h) PROVE NativeInv'
  <2> DEFINE known == {f \in native.factors : f.h = h}
             new == [h |-> h, matrix |-> native.jacobian]
  <2>1. UNCHANGED <<mode, ratio, params, point, tries>> /\ tries > 0
        /\ StructuralMode' = StructuralMode
    BY <1>6 DEF FactorNative, plant, StructuralMode
  <2>2. /\ newton'.matrix = native.jacobian /\ Holds(native')
        /\ native'.jacobian = native.jacobian /\ native'.selected = native.selected
    <3>1. CASE known # {}
      BY <1>0, <1>6, <3>1 DEF FactorNative, Holds
    <3>2. CASE known = {}
      <4> DEFINE others == IF Cardinality(native.factors) > MaxFactors THEN {} ELSE native.factors
      <4>1. newton' = new /\ native' = [native EXCEPT !.factors = {new} \cup others]
        BY <1>0, <1>6, <3>2 DEF FactorNative, Holds, IsProgram
      <4>2. /\ native'.jacobian = native.jacobian /\ native'.selected = native.selected
            /\ native'.known = native.known /\ native'.factors = {new} \cup others
            /\ IsProgram(native')
        BY <1>0, <4>1 DEF Holds, IsProgram
      <4> QED
        BY <1>0, <4>1, <4>2 DEF Holds
    <3> QED
      BY <3>1, <3>2
  <2> QED
    BY <1>0, <2>1, <2>2 DEF NativeInv, PlantTyped, Holds, IsOf
<1> QED
  BY <1>1, <1>2, <1>3, <1>4, <1>5, <1>6 DEF NativeImplicitNext

----------------------------------------------------------------------------
\* The rows of a matrix are numbered.
LEMMA RowsOfMatrix ==
    ASSUME NEW m \in Matrices
    PROVE  /\ IsFiniteSet(Rows(m)) /\ Rows(m) \in SUBSET Nat
           /\ DOMAIN m = Rows(m) \X Rows(m)
<1> DEFINE R == 1 .. Cardinality(Rows(m))
<1>1. IsFiniteSet(Rows(m)) /\ DOMAIN m = R \X R
  BY MatrixAssumption
<1>2. R \in SUBSET Nat
  OBVIOUS
<1> HIDE DEF R
<1>3. Rows(m) = R
  <2>1. \A r \in R : <<r, r>> \in DOMAIN m /\ <<r, r>>[1] = r
    BY <1>1
  <2>2. \A p \in DOMAIN m : p[1] \in R
    BY <1>1
  <2> QED
    BY <2>1, <2>2, Zenon DEF Rows
<1> QED
  BY <1>1, <1>2, <1>3

LEMMA PatternGraph ==
    ASSUME NEW m \in Matrices
    PROVE  LET deps == Dependencies(Pattern(m))
           IN  /\ IsGraph(deps) /\ DOMAIN deps = Rows(m)
               /\ \A i, j \in Rows(m) : j \in deps[i] <=> m[<<i, j>>] # 0
               /\ IsGraph(Successors(deps)) /\ DOMAIN Successors(deps) = Rows(m)
               /\ \A i, j \in Rows(m) : i \in Successors(deps)[j] <=> j \in deps[i]
<1> DEFINE N == Cardinality(Rows(m))
           R == 1 .. N
           deps == Dependencies(Pattern(m))
           f == [i \in R |-> {j \in R : <<i, j>> \in Pattern(m).nonzero}]
<1>1. IsFiniteSet(Rows(m)) /\ DOMAIN m = R \X R
  BY MatrixAssumption
<1>2. N \in Nat
  BY <1>1, FS_CardinalityType
<1> HIDE DEF N
<1>3. Rows(m) = R
  <2>1. \A r \in R : <<r, r>> \in DOMAIN m /\ <<r, r>>[1] = r
    BY <1>1
  <2>2. \A p \in DOMAIN m : p[1] \in R
    BY <1>1
  <2> HIDE DEF R
  <2> QED
    BY <2>1, <2>2, Zenon DEF Rows
<1>4. Pattern(m).n = N /\ Pattern(m).nonzero = {p \in DOMAIN m : m[p] # 0}
  BY DEF Pattern, N
<1>5. deps = Table(f)
  BY <1>4 DEF Dependencies
<1> HIDE DEF deps
<1>6. f \in [1 .. N -> SUBSET R]
  OBVIOUS
<1>7. \A i, j \in R : j \in f[i] <=> m[<<i, j>>] # 0
  <2>1. \A i, j \in R : <<i, j>> \in DOMAIN m
    BY <1>1
  <2> QED
    BY <2>1, <1>4
<1> HIDE DEF f
<1>8. Table(f) = f /\ Len(f) = N
  BY <1>2, <1>6, TableIs
<1>9. deps \in [R -> SUBSET R] /\ Len(deps) = N /\ DOMAIN deps = R
  BY <1>5, <1>6, <1>8
<1>10. \A i, j \in R : j \in deps[i] <=> m[<<i, j>>] # 0
  BY <1>5, <1>7, <1>8
<1>14. IsGraph(deps)
  BY <1>2, <1>9 DEF IsGraph
<1>15. IsGraph(Successors(deps)) /\ DOMAIN Successors(deps) = R
  BY <1>9, <1>14, SuccessorsAre
<1>16. \A i, j \in R : i \in Successors(deps)[j] <=> j \in deps[i]
  BY <1>9, <1>14, SuccessorsAre
<1>17. DOMAIN deps = R
  BY <1>9
<1> HIDE DEF R
<1> QED
  BY <1>3, <1>10, <1>14, <1>15, <1>16, <1>17 DEF deps

\* A set of rows is closed when the others depend on none of it; so both
\* graphs have the irreducible sets of rows as their kinds.
LEMMA KindsOfRows ==
    ASSUME NEW m \in Matrices
    PROVE  LET deps == Dependencies(Pattern(m))
           IN  /\ Kinds(deps, Rows(m)) = Irreducible(m)
               /\ Kinds(Successors(deps), Rows(m)) = Irreducible(m)
<1> DEFINE deps == Dependencies(Pattern(m))
           back == Successors(deps)
           R == Rows(m)
           part(i) == {j \in R : \A S \in SUBSET R : Closed(m, S) => (i \in S <=> j \in S)}
<1>1. /\ DOMAIN deps = R /\ DOMAIN back = R
      /\ \A i, j \in R : j \in deps[i] <=> m[<<i, j>>] # 0
      /\ \A i, j \in R : i \in back[j] <=> j \in deps[i]
  BY PatternGraph
<1>2. DOMAIN m = R \X R
  BY RowsOfMatrix
<1> HIDE DEF deps, back, R
<1>3. \A S \in SUBSET R : Closed(m, S) <=> \A i \in S, j \in R : m[<<i, j>>] # 0 => j \in S
  <2> SUFFICES ASSUME NEW S \in SUBSET R
               PROVE  Closed(m, S) <=> \A i \in S, j \in R : m[<<i, j>>] # 0 => j \in S
    OBVIOUS
  <2>1. ASSUME Closed(m, S), NEW i \in S, NEW j \in R, m[<<i, j>>] # 0
        PROVE  j \in S
    <3>1. <<i, j>> \in DOMAIN m
      BY <1>2
    <3> QED
      BY <3>1, <2>1 DEF Closed
  <2>2. ASSUME \A i \in S, j \in R : m[<<i, j>>] # 0 => j \in S,
               NEW p \in DOMAIN m, m[p] # 0, p[1] \in S
        PROVE  p[2] \in S
    <3>1. p = <<p[1], p[2]>> /\ p[2] \in R
      BY <1>2
    <3> QED
      BY <3>1, <2>2
  <2> QED
    BY <2>1, <2>2 DEF Closed
<1>4. \A S \in SUBSET R : ShutIn(deps, R, S) <=> Closed(m, R \ S)
  <2>1. \A a, b : b \in Onward(deps, R, a) <=> b \in R /\ a \in deps[b]
    BY <1>1 DEF Onward, Followers
  <2> SUFFICES ASSUME NEW S \in SUBSET R
               PROVE  ShutIn(deps, R, S) <=> Closed(m, R \ S)
    OBVIOUS
  <2> DEFINE T == R \ S
  <2>2. T \in SUBSET R /\ \A v \in R : v \in T <=> v \notin S
    OBVIOUS
  <2> HIDE DEF T
  <2>3. Closed(m, T) <=> \A i \in T, j \in R : j \in deps[i] => j \in T
    BY <2>2, <1>1, <1>3
  <2>4. ShutIn(deps, R, S) <=> \A j \in S, i \in R : j \in deps[i] => i \in S
    BY <2>1 DEF ShutIn
  <2>5. Closed(m, T) <=> ShutIn(deps, R, S)
    BY <2>2, <2>3, <2>4
  <2> QED
    BY <2>5 DEF T
<1>5. \A S \in SUBSET R : ShutIn(back, R, S) <=> Closed(m, S)
  <2>1. \A a, b : b \in Onward(back, R, a) <=> b \in R /\ a \in back[b]
    BY <1>1 DEF Onward, Followers
  <2> QED
    BY <2>1, <1>1, <1>3 DEF ShutIn
<1>6. Irreducible(m) = {part(i) : i \in R}
  <2> DEFINE closed == {S \in SUBSET R : Closed(m, S)}
             piece(i) == {j \in R : \A S \in closed : i \in S <=> j \in S}
  <2>1. Irreducible(m) = {piece(i) : i \in R}
    BY DEF Irreducible, R
  <2>2. \A i \in R : piece(i) = part(i)
    OBVIOUS
  <2> HIDE DEF piece, part
  <2> QED
    BY <2>1, <2>2
<1>7. ASSUME NEW a \in R
      PROVE  Kin(deps, R, a) = part(a) /\ Kin(back, R, a) = part(a)
  <2>1. ASSUME NEW b \in R, NEW S \in SUBSET R, Closed(m, S),
               \A T \in SUBSET R : ShutIn(deps, R, T) => (a \in T <=> b \in T)
        PROVE  a \in S <=> b \in S
    <3>1. R \ S \in SUBSET R /\ R \ (R \ S) = S
      OBVIOUS
    <3>2. ShutIn(deps, R, R \ S)
      BY <3>1, <2>1, <1>4
    <3>3. a \in R \ S <=> b \in R \ S
      BY <3>1, <3>2, <2>1
    <3> QED
      BY <3>3
  <2>2. ASSUME NEW b \in R, NEW T \in SUBSET R, ShutIn(deps, R, T),
               \A S \in SUBSET R : Closed(m, S) => (a \in S <=> b \in S)
        PROVE  a \in T <=> b \in T
    <3>1. Closed(m, R \ T) /\ R \ T \in SUBSET R
      BY <2>2, <1>4
    <3>2. a \in R \ T <=> b \in R \ T
      BY <3>1, <2>2
    <3> QED
      BY <3>2
  <2>3. Kin(deps, R, a) = part(a)
    BY <2>1, <2>2 DEF Kin
  <2>4. Kin(back, R, a) = part(a)
    BY <1>5 DEF Kin
  <2> QED
    BY <2>3, <2>4
<1> HIDE DEF part
<1>8. Kinds(deps, R) = {part(i) : i \in R} /\ Kinds(back, R) = {part(i) : i \in R}
  BY <1>7 DEF Kinds
<1> QED
  BY <1>6, <1>8 DEF deps, back, R

(***************************************************************************)
(* The components of the simulation and those of the exported program are  *)
(* the irreducible sets of rows of the matrix, all of them and no others,  *)
(* for any matrix of any size (_ordered_components and _strong_components, *)
(* model.py; stability_components, cpp.py).                                *)
(***************************************************************************)
THEOREM PatternsDecompose == Decomposes
<1> SUFFICES ASSUME NEW m \in Matrices
             PROVE  IsDecomposed(m)
  BY DEF Decomposes
<1> DEFINE deps == Dependencies(Pattern(m))
           back == Successors(deps)
           R == Rows(m)
<1>1. IsGraph(deps) /\ DOMAIN deps = R /\ IsGraph(back) /\ DOMAIN back = R
  BY PatternGraph
<1>2. Kinds(deps, R) = Irreducible(m) /\ Kinds(back, R) = Irreducible(m)
  BY KindsOfRows
<1>3. Irreducible(m) \subseteq SUBSET R
  BY DEF Irreducible
<1>4. NativeComponents(Pattern(m)) = ByNode(StrongComponents(back, DOMAIN deps))
  BY DEF NativeComponents, Successors
<1> HIDE DEF deps, back, R
<1>5. Decomposition(m, OrderedComponents(deps))
  <2>1. AreKinds(deps, OrderedComponents(deps))
    BY <1>1, OrderedComponentsAreKinds
  <2> DEFINE parts == OrderedComponents(deps)
             K == Irreducible(m)
  <2> HIDE DEF parts
  <2>2. parts \in Seq(K) /\ ToSet(parts) = K
    BY <2>1, <1>1, <1>2 DEF AreKinds, parts
  <2> HIDE DEF K
  <2>3. parts \in Seq(SUBSET R)
    BY <2>2, <1>3 DEF K
  <2> QED
    BY <2>2, <2>3 DEF Decomposition, parts, K, R
<1>6. Decomposition(m, NativeComponents(Pattern(m)))
  <2> DEFINE K == Irreducible(m)
             parts == ByNode(K)
  <2>1. StrongComponents(back, R) = K
    BY <1>1, <1>2, StrongComponentsAreKinds
  <2>2. AreParts(K, R) /\ R \in SUBSET Nat /\ IsFiniteSet(R)
    <3>1. AreParts(Kinds(back, R), R)
      BY KindsAreParts
    <3> QED
      BY <3>1, <1>2, RowsOfMatrix DEF R
  <2> HIDE DEF K
  <2>3. parts \in Seq(K) /\ ToSet(parts) = K
    BY <2>2, ByNodeIs
  <2>4. NativeComponents(Pattern(m)) = parts
    BY <1>1, <1>4, <2>1
  <2> HIDE DEF parts
  <2>5. parts \in Seq(SUBSET R)
    BY <2>3, <1>3 DEF K
  <2> QED
    BY <2>3, <2>4, <2>5 DEF Decomposition, K, R
<1> QED
  BY <1>5, <1>6 DEF IsDecomposed, deps

\* The rows and columns that an irreducible set of rows depends on.
Reach(m, C) == {r \in Rows(m) : \A S \in SUBSET Rows(m) : Closed(m, S) /\ C \subseteq S => r \in S}

\* A set of rows closed within an irreducible one has all of it or none.
LEMMA NoneWithin ==
    ASSUME NEW m \in Matrices, NEW C \in Irreducible(m), NEW X \in SUBSET C,
           \A p \in DOMAIN m : m[p] # 0 /\ p[1] \in X /\ p[2] \in C => p[2] \in X
    PROVE  C \subseteq Rows(m) /\ C # {} /\ (X = {} \/ X = C)
<1> DEFINE R == Rows(m)
           T == X \cup (Reach(m, C) \ C)
<1>1. DOMAIN m = R \X R
  BY RowsOfMatrix
<1>2. PICK i \in R : C = {j \in R : \A S \in SUBSET R : Closed(m, S) => (i \in S <=> j \in S)}
  BY DEF Irreducible
<1>3. i \in C /\ C \subseteq R
  BY <1>2
<1>4. \A S \in SUBSET R, a, b \in C : Closed(m, S) => (a \in S <=> b \in S)
  BY <1>2
<1>5. \A j \in R : (\A S \in SUBSET R : Closed(m, S) => (i \in S <=> j \in S)) => j \in C
  BY <1>2
<1>6. Reach(m, C) \subseteq R /\ C \subseteq Reach(m, C)
  BY <1>3 DEF Reach
<1>7. \A p \in DOMAIN m : m[p] # 0 /\ p[1] \in Reach(m, C) => p[2] \in Reach(m, C)
  <2> SUFFICES ASSUME NEW p \in DOMAIN m, m[p] # 0, p[1] \in Reach(m, C)
               PROVE  p[2] \in Reach(m, C)
    OBVIOUS
  <2>1. p[2] \in R
    BY <1>1
  <2>2. \A S \in SUBSET R : Closed(m, S) /\ C \subseteq S => p[1] \in S
    BY DEF Reach
  <2>3. \A S \in SUBSET R : Closed(m, S) /\ C \subseteq S => p[2] \in S
    BY <2>2 DEF Closed
  <2> QED
    BY <2>1, <2>3 DEF Reach
<1>8. Closed(m, T)
  <2> SUFFICES ASSUME NEW p \in DOMAIN m, m[p] # 0, p[1] \in T
               PROVE  p[2] \in T
    BY DEF Closed
  <2>1. p[2] \in Reach(m, C) /\ p[1] \in R
    BY <1>1, <1>3, <1>6, <1>7
  <2>2. CASE p[1] \in X
    BY <2>1, <2>2
  <2>3. CASE p[1] \in Reach(m, C) \ C /\ p[2] \in C
    <3>1. \A S \in SUBSET R : Closed(m, S) => (i \in S <=> p[1] \in S)
      <4> TAKE S \in SUBSET R
      <4> HAVE Closed(m, S)
      <4>1. i \in S => C \subseteq S
        BY <1>3, <1>4
      <4>2. i \in S => p[1] \in S
        BY <2>3, <4>1 DEF Reach
      <4>3. p[1] \in S => p[2] \in S
        BY DEF Closed
      <4>4. p[2] \in S => i \in S
        BY <1>3, <1>4, <2>3
      <4> QED
        BY <4>2, <4>3, <4>4
    <3> QED
      BY <1>5, <2>1, <2>3, <3>1
  <2>4. CASE p[2] \notin C
    BY <2>1, <2>4
  <2> QED
    BY <2>2, <2>3, <2>4
<1>9. T \in SUBSET R
  BY <1>3, <1>6
<1>10. ASSUME NEW a \in X
       PROVE  X = C
  <2>1. \A b \in C : b \in T
    BY <1>4, <1>8, <1>9
  <2> QED
    BY <2>1
<1> QED
  BY <1>3, <1>10

\* An irreducible block has one component: all of its rows.
LEMMA BlockIsWhole ==
    ASSUME NEW m \in Matrices, NEW C \in Irreducible(m)
    PROVE  LET block == DiagonalBlock(m, C)
           IN  /\ Irreducible(block) = {1 .. Cardinality(C)}
               /\ DiagonalBlock(block, 1 .. Cardinality(C)) = block
<1> DEFINE k == Cardinality(C)
           K == 1 .. k
           at == Sorted(C)
           block == DiagonalBlock(m, C)
<1>1. IsFiniteSet(C) /\ C \in SUBSET Nat /\ C # {} /\ C \subseteq Rows(m)
  <2>1. C \subseteq Rows(m) /\ C # {}
    BY NoneWithin
  <2> QED
    BY <2>1, RowsOfMatrix, FS_Subset
<1>2. k \in Nat /\ at \in [K -> C]
  BY <1>1, SortedIs
<1>3. /\ \A i, j \in K : at[i] = at[j] => i = j
      /\ \A n \in C : \E i \in K : at[i] = n
  BY <1>1, SortedOnce
<1>4. K # {}
  BY <1>1, <1>3
<1>5. DOMAIN m = Rows(m) \X Rows(m)
  BY RowsOfMatrix
<1>6. block = [p \in K \X K |-> m[<<at[p[1]], at[p[2]]>>]]
  BY <1>2 DEF DiagonalBlock
<1> HIDE DEF at, K
<1>7. DOMAIN block = K \X K /\ \A a, b \in K : block[<<a, b>>] = m[<<at[a], at[b]>>]
  BY <1>6
<1> HIDE DEF block
<1>8. Rows(block) = K
  <2>1. \A r \in K : <<r, r>> \in DOMAIN block /\ <<r, r>>[1] = r
    BY <1>7
  <2>2. \A p \in DOMAIN block : p[1] \in K
    BY <1>7
  <2> QED
    BY <2>1, <2>2, Zenon DEF Rows
<1>9. ASSUME NEW S \in SUBSET K, Closed(block, S), NEW i \in S, NEW j \in K
      PROVE  j \in S
  <2> DEFINE X == {at[s] : s \in S}
  <2>1. X \in SUBSET C
    BY <1>2
  <2>2. \A p \in DOMAIN m : m[p] # 0 /\ p[1] \in X /\ p[2] \in C => p[2] \in X
    <3> SUFFICES ASSUME NEW p \in DOMAIN m, m[p] # 0, p[1] \in X, p[2] \in C
                 PROVE  p[2] \in X
      OBVIOUS
    <3>1. PICK a \in S : p[1] = at[a]
      OBVIOUS
    <3>2. PICK b \in K : p[2] = at[b]
      BY <1>3
    <3>3. p = <<at[a], at[b]>>
      BY <1>5, <3>1, <3>2
    <3>4. <<a, b>> \in DOMAIN block /\ block[<<a, b>>] # 0
      BY <1>7, <3>3
    <3>5. b \in S
      BY <1>9, <3>4 DEF Closed
    <3> QED
      BY <3>2, <3>5
  <2>3. X = {} \/ X = C
    <3> HIDE DEF X
    <3> QED
      BY <2>1, <2>2, NoneWithin
  <2>4. X = C
    BY <2>3
  <2>5. PICK s \in S : at[s] = at[j]
    BY <1>2, <2>4
  <2> QED
    BY <1>3, <2>5
<1>10. \A S \in {T \in SUBSET K : Closed(block, T)}, i, j \in K : i \in S <=> j \in S
  BY <1>9
<1>11. Irreducible(block) = {K}
  <2> DEFINE closed == {S \in SUBSET K : Closed(block, S)}
             part(i) == {j \in K : \A S \in closed : i \in S <=> j \in S}
  <2>1. Irreducible(block) = {part(i) : i \in K}
    BY <1>8 DEF Irreducible
  <2>2. \A i \in K : part(i) = K
    BY <1>10
  <2> HIDE DEF part
  <2> QED
    BY <1>4, <2>1, <2>2
<1>12. DiagonalBlock(block, K) = block
  <2>1. Sorted(K) = [i \in K |-> i]
    BY <1>2, SortedInterval DEF K
  <2>2. DiagonalBlock(block, K) = [p \in K \X K |-> block[<<p[1], p[2]>>]]
    BY <2>1 DEF DiagonalBlock
  <2>3. \A p \in K \X K : block[<<p[1], p[2]>>] = block[p]
    OBVIOUS
  <2>4. block = [p \in K \X K |-> block[p]]
    BY <1>6 DEF block
  <2> QED
    BY <2>2, <2>3, <2>4
<1> QED
  BY <1>11, <1>12 DEF block, K

\* An irreducible block is its own.
Irreducibles == UNION {Spectrum(m) : m \in Matrices}
LEMMA BlocksAreTheirOwn ==
    ASSUME NEW block \in Irreducibles
    PROVE  Spectrum(block) = {block}
<1> DEFINE f == [n \in Matrices |-> {DiagonalBlock(n, component) : component \in Irreducible(n)}]
<1>0. Spectra = f
  BY DEF Spectra
<1>1. \A m \in Matrices : Spectrum(m) = {DiagonalBlock(m, C) : C \in Irreducible(m)}
  BY <1>0 DEF Spectrum
<1> HIDE DEF f
<1>2. PICK m \in Matrices : block \in Spectrum(m)
  BY DEF Irreducibles
<1>3. PICK C \in Irreducible(m) : block = DiagonalBlock(m, C)
  BY <1>1, <1>2
<1>4. /\ Irreducible(block) = {1 .. Cardinality(C)}
      /\ DiagonalBlock(block, 1 .. Cardinality(C)) = block
  BY <1>3, BlockIsWhole
<1>5. CASE block \in Matrices
  <2>1. Spectrum(block) = {DiagonalBlock(block, D) : D \in {1 .. Cardinality(C)}}
    BY <1>1, <1>4, <1>5
  <2> QED
    BY <1>4, <2>1
<1>6. CASE block \notin Matrices
  BY <1>6 DEF Spectrum
<1> QED
  BY <1>5, <1>6

----------------------------------------------------------------------------
(***************************************************************************)
(* The choice of the fixed-step solver. All caches hold what is true of    *)
(* the present parameters: a verdict or the eigenvalues of an identity are *)
(* those of every mode with that identity, a pattern has the components    *)
(* that every matrix of the pattern has, and a block has its own           *)
(* eigenvalues.                                                            *)
(***************************************************************************)
PresentPlant == PlantTyped /\ params \in 0 .. MaxParams

\* The spectrum of a matrix in terms of a decomposition.
LEMMA SpectrumOf ==
    ASSUME NEW m \in Matrices, NEW parts, Decomposition(m, parts)
    PROVE  /\ Spectrum(m) = {DiagonalBlock(m, parts[i]) : i \in 1 .. Len(parts)}
           /\ Len(parts) \in Nat
<1> DEFINE f == [n \in Matrices |-> {DiagonalBlock(n, component) : component \in Irreducible(n)}]
<1>1. Spectra = f
  BY DEF Spectra
<1>2. Spectrum(m) = {DiagonalBlock(m, component) : component \in Irreducible(m)}
  BY <1>1 DEF Spectrum
<1>3. Len(parts) \in Nat /\ DOMAIN parts = 1 .. Len(parts)
  BY DEF Decomposition
<1>4. Irreducible(m) = {parts[i] : i \in 1 .. Len(parts)}
  BY <1>3 DEF Decomposition, ToSet
<1> HIDE DEF Decomposition
<1> QED
  BY <1>2, <1>3, <1>4, Zenon

\* The entries of the caches that are true of the present parameters.
KeyOf(c, m, r) ==
    [circuit |-> c, mode |-> IF c \in Switched THEN m ELSE None,
     ratio |-> IF c \in Reached THEN r ELSE None]
KeysOf(m, r) == [i \in DOMAIN Circuits |-> KeyOf(Circuits[i], m, r)]
With(c, m, r) == Matrix[c][<<m, r, params>>]
CircuitSound(c, m, r, h) == \A value \in Spectrum(With(c, m, r)) : Inside(value, h)
SoundWith(m, r, h) == \A c \in ToSet(Circuits) : CircuitSound(c, m, r, h)

SpectrumEntries ==
    {[key |-> KeyOf(c, m, r), value |-> Spectrum(With(c, m, r))] :
        c \in ToSet(Circuits), m \in Modes, r \in Ratios}
ResultEntries ==
    {[key |-> [modes |-> KeysOf(m, r), h |-> h], value |-> SoundWith(m, r, h)] :
        m \in Modes, r \in Ratios, h \in Steps}
PartEntries ==
    {[key |-> Pattern(m), value |-> None] : m \in Matrices}
        \cup {[key |-> Pattern(m), value |-> OrderedComponents(Dependencies(Pattern(m)))] :
                 m \in Matrices}
BlockEntries == {[key |-> block, value |-> {block}] : block \in Irreducibles}

Caches == [results : Seq(ResultEntries), eigenvalues : Seq(SpectrumEntries),
           components : Seq(PartEntries), blocks : Seq(BlockEntries)]

FixedInv == PresentPlant /\ stability \in Caches /\ ChoiceIsSound

\* Equal keys are of equal matrices.
LEMMA KeysMeanMatrices ==
    ASSUME PresentPlant, NEW c \in ToSet(Circuits), NEW m \in Modes, NEW r \in Ratios,
           NEW n \in Modes, NEW s \in Ratios, KeyOf(c, m, r) = KeyOf(c, n, s)
    PROVE  With(c, m, r) = With(c, n, s)
<1> DEFINE p == <<m, r, params>>
           q == <<n, s, params>>
<1>1. p \in Plants /\ q \in Plants
  BY DEF Plants, PresentPlant
<1>2. (c \in Switched => m = n) /\ (c \in Reached => r = s)
  BY DEF KeyOf
<1>3. (c \in Switched => p[1] = q[1]) /\ (c \in Reached => p[2] = q[2]) /\ p[3] = q[3]
  BY <1>2
<1> HIDE DEF p, q
<1>4. Matrix[c][p] = Matrix[c][q]
  BY <1>1, <1>3, SolverPlantAssumption
<1> QED
  BY <1>4 DEF p, q, With

\* Matrices of the present parameters are matrices.
LEMMA WithIsMatrix ==
    ASSUME PresentPlant, NEW c \in ToSet(Circuits), NEW m \in Modes, NEW r \in Ratios
    PROVE  With(c, m, r) \in Matrices
<1>1. <<m, r, params>> \in Plants
  BY DEF Plants, PresentPlant
<1> QED
  BY <1>1 DEF With, Matrices

\* A block that is known is known as its own.
LEMMA BlockFound ==
    ASSUME NEW caches \in Caches, NEW block \in Irreducibles
    PROVE  BlockEigenvalues(caches, block) = {block}
<1>1. CASE Knows(caches.blocks, block)
  <2>1. caches.blocks \in Seq(BlockEntries)
    BY DEF Caches
  <2>2. PICK e \in BlockEntries : e.key = block /\ e.value = Get(caches.blocks, block)
    BY <1>1, <2>1, KnownEntry
  <2>3. Get(caches.blocks, block) = {block}
    BY <2>2 DEF BlockEntries
  <2> QED
    BY <1>1, <2>3 DEF BlockEigenvalues
<1>2. CASE ~Knows(caches.blocks, block)
  BY <1>2, BlocksAreTheirOwn DEF BlockEigenvalues
<1> QED
  BY <1>1, <1>2

Collected == [values : SUBSET Irreducibles, caches : Caches]

\* One block more.
LEMMA BlockAdded ==
    ASSUME NEW found \in Collected, NEW block \in Irreducibles
    PROVE  /\ WithBlock(found, block) \in Collected
           /\ WithBlock(found, block).values = found.values \cup {block}
<1>1. found.caches \in Caches /\ found.values \in SUBSET Irreducibles
  BY DEF Collected
<1>2. BlockEigenvalues(found.caches, block) = {block}
  BY <1>1, BlockFound
<1> DEFINE stored == Used(found.caches.blocks, block, {block})
           caches == IF Cardinality(Rows(block)) = 1 THEN found.caches
                     ELSE [found.caches EXCEPT !.blocks = stored]
<1>3. stored \in Seq(BlockEntries)
  <2>1. [key |-> block, value |-> {block}] \in BlockEntries
    BY DEF BlockEntries
  <2>2. found.caches.blocks \in Seq(BlockEntries)
    BY <1>1 DEF Caches
  <2> QED
    BY <2>1, <2>2, UsedEntries
<1>4. WithBlock(found, block) = [values |-> found.values \cup {block}, caches |-> caches]
  BY <1>2 DEF WithBlock
<1> HIDE DEF stored
<1>5. caches \in Caches
  BY <1>1, <1>3 DEF Caches
<1> HIDE DEF caches
<1>6. found.values \cup {block} \in SUBSET Irreducibles
  BY <1>1
<1> QED
  BY <1>4, <1>5, <1>6 DEF Collected

FoundOf(m) == [values : {Spectrum(m)}, caches : Caches]

IsBlockCourse(f, m, components, seen) ==
    f = [n \in 0 .. Len(components) |->
            IF n = 0 THEN [values |-> {}, caches |-> seen]
            ELSE WithBlock(f[n - 1], DiagonalBlock(m, components[n]))]

LEMMA BlockCourseExists ==
    ASSUME NEW m, NEW components, Len(components) \in Nat, NEW seen \in Caches,
           \A n \in 1 .. Len(components) : DiagonalBlock(m, components[n]) \in Irreducibles
    PROVE  \E f : IsBlockCourse(f, m, components, seen)
<1> DEFINE N == Len(components)
           first == [values |-> {}, caches |-> seen]
           step == [n \in 1 .. N |-> [s \in Collected |-> WithBlock(s, DiagonalBlock(m, components[n]))]]
<1>1. first \in Collected
  BY DEF Collected
<1>2. ASSUME NEW n \in 1 .. N, NEW s \in Collected
      PROVE  WithBlock(s, DiagonalBlock(m, components[n])) \in Collected
  <2>1. DiagonalBlock(m, components[n]) \in Irreducibles
    OBVIOUS
  <2> QED
    BY <2>1, BlockAdded
<1>3. step \in [1 .. N -> [Collected -> Collected]]
  BY <1>2
<1>4. \A n \in 1 .. N, s \in Collected : step[n][s] = WithBlock(s, DiagonalBlock(m, components[n]))
  OBVIOUS
<1> HIDE DEF step, first
<1>5. PICK f \in [0 .. N -> Collected] :
          IsCourse(f, N, first, step)
  <2>1. N \in Nat
    OBVIOUS
  <2> HIDE DEF N
  <2> QED
    BY <1>1, <1>3, <2>1, CourseExists
<1>6. ASSUME NEW n \in 0 .. N
      PROVE  f[n] = IF n = 0 THEN first ELSE WithBlock(f[n - 1], DiagonalBlock(m, components[n]))
  <2>1. CASE n = 0
    BY <1>5, <2>1 DEF IsCourse
  <2>2. CASE n # 0
    <3>1. n \in 1 .. N /\ n - 1 \in 0 .. N
      BY <2>2
    <3>2. f[n] = step[n][f[n - 1]] /\ f[n - 1] \in Collected
      BY <1>5, <3>1 DEF IsCourse
    <3> QED
      BY <1>4, <2>2, <3>1, <3>2
  <2> QED
    BY <2>1, <2>2
<1>7. f = [n \in 0 .. N |-> IF n = 0 THEN first
                            ELSE WithBlock(f[n - 1], DiagonalBlock(m, components[n]))]
  BY <1>5, <1>6
<1> QED
  BY <1>7 DEF IsBlockCourse, first

\* The eigenvalues of the blocks are those of the matrix.
LEMMA BlockwiseFound ==
    ASSUME NEW m \in Matrices, NEW components, Decomposition(m, components),
           [key |-> Pattern(m), value |-> components] \in PartEntries, NEW caches \in Caches
    PROVE  Blockwise(caches, m, components) \in FoundOf(m)
<1> DEFINE seen == [caches EXCEPT !.components = Used(@, Pattern(m), components)]
           N == Len(components)
<1>1. seen \in Caches
  <2>1. caches.components \in Seq(PartEntries)
    BY DEF Caches
  <2>2. Used(caches.components, Pattern(m), components) \in Seq(PartEntries)
    BY <2>1, UsedEntries
  <2> QED
    BY <2>2 DEF Caches
<1>2. N \in Nat /\ Spectrum(m) = {DiagonalBlock(m, components[i]) : i \in 1 .. N}
  BY SpectrumOf
<1>3. \A n \in 1 .. N : DiagonalBlock(m, components[n]) \in Irreducibles
  BY <1>2 DEF Irreducibles
<1> DEFINE f == CHOOSE g : IsBlockCourse(g, m, components, seen)
<1>4. Blockwise(caches, m, components)
          = IF N = 1 THEN [values |-> Spectrum(m), caches |-> seen] ELSE f[N]
  BY DEF Blockwise, IsBlockCourse
<1> HIDE DEF seen
<1>5. IsBlockCourse(f, m, components, seen)
  <2>1. \E g : IsBlockCourse(g, m, components, seen)
    BY <1>1, <1>2, <1>3, BlockCourseExists
  <2> QED
    BY <2>1, Zenon
<1> HIDE DEF f
<1>0. \A n \in 1 .. N : f[n] = WithBlock(f[n - 1], DiagonalBlock(m, components[n]))
  <2> TAKE n \in 1 .. N
  <2>1. n \in 0 .. Len(components) /\ n # 0
    BY <1>2
  <2> QED
    BY <2>1, <1>5, Zenon DEF IsBlockCourse
<1> DEFINE Upto(n) == {DiagonalBlock(m, components[i]) : i \in 1 .. n}
           P == {n \in 0 .. N : f[n] \in Collected /\ f[n].values = Upto(n)}
<1>6. 0 \in P
  <2>1. f[0] = [values |-> {}, caches |-> seen]
    BY <1>2, <1>5 DEF IsBlockCourse
  <2>2. f[0] \in Collected /\ f[0].values = {}
    BY <1>1, <2>1 DEF Collected
  <2>3. 0 \in 0 .. N /\ 1 .. 0 = {}
    BY <1>2
  <2>4. Upto(0) = {}
    BY <2>3
  <2> HIDE DEF Upto
  <2> QED
    BY <2>2, <2>3, <2>4
<1>7. ASSUME NEW n \in 0 .. N - 1, n \in P
      PROVE  n + 1 \in P
  <2>1. n + 1 \in 0 .. N /\ n + 1 # 0 /\ n + 1 - 1 = n /\ n + 1 \in 1 .. N
    BY <1>2
  <2> DEFINE block == DiagonalBlock(m, components[n + 1])
  <2>2. f[n + 1] = WithBlock(f[n], block)
    BY <1>0, <2>1
  <2>3. block \in Irreducibles
    BY <1>3, <2>1
  <2>4. f[n + 1] \in Collected /\ f[n + 1].values = f[n].values \cup {block}
    BY <1>7, <2>2, <2>3, BlockAdded
  <2>5. 1 .. n + 1 = (1 .. n) \cup {n + 1}
    OBVIOUS
  <2>6. Upto(n + 1) = Upto(n) \cup {block}
    BY <2>5
  <2> HIDE DEF Upto, block
  <2> QED
    BY <1>7, <2>1, <2>4, <2>6
<1>8. \A n \in 0 .. N : n \in P
  <2> HIDE DEF P
  <2>1. \A n \in 0 .. N - 1 : n \in P => n + 1 \in P
    BY <1>7
  <2> QED
    BY <1>2, <1>6, <2>1, Along
<1>9. f[N] \in FoundOf(m)
  <2>1. N \in P
    BY <1>2, <1>8
  <2> QED
    BY <1>2, <2>1 DEF Collected, FoundOf
<1> QED
  BY <1>1, <1>4, <1>9 DEF FoundOf

\* A pattern that was decomposed before has the parts it has now.
LEMMA EigenvaluesFound ==
    ASSUME NEW m \in Matrices, NEW caches \in Caches
    PROVE  Eigenvalues(caches, m) \in FoundOf(m)
<1> DEFINE pattern == Pattern(m)
           parts == OrderedComponents(Dependencies(pattern))
<1>1. caches.components \in Seq(PartEntries)
  BY DEF Caches
<1>2. CASE Knows(caches.components, pattern)
  <2>1. PICK e \in PartEntries : e.key = pattern /\ e.value = Get(caches.components, pattern)
    BY <1>1, <1>2, KnownEntry
  <2>2. Get(caches.components, pattern) \in {None, parts}
    BY <2>1 DEF PartEntries
  <2>3. Components(caches, pattern) = parts
    BY <2>2 DEF Components
  <2>4. Decomposition(m, parts) /\ [key |-> pattern, value |-> parts] \in PartEntries
    BY PatternsDecompose DEF Decomposes, IsDecomposed, PartEntries
  <2>5. Blockwise(caches, m, parts) \in FoundOf(m)
    <3> HIDE DEF parts
    <3> QED
      BY <2>4, BlockwiseFound
  <2> QED
    BY <1>2, <2>3, <2>5 DEF Eigenvalues
<1>3. CASE ~Knows(caches.components, pattern)
  <2>1. [key |-> pattern, value |-> None] \in PartEntries
    BY DEF PartEntries
  <2>2. Used(caches.components, pattern, None) \in Seq(PartEntries)
    BY <1>1, <2>1, UsedEntries
  <2> QED
    BY <1>3, <2>2 DEF Eigenvalues, FoundOf, Caches
<1> QED
  BY <1>2, <1>3

\* The eigenvalues of a circuit, remembered or not, are those of its matrix.
LEMMA CircuitFound ==
    ASSUME PresentPlant, NEW c \in ToSet(Circuits), NEW caches \in Caches
    PROVE  KnownOrFound(caches, MatrixKey(c), c) \in FoundOf(Present(c))
<1>1. MatrixKey(c) = KeyOf(c, mode, ratio) /\ Present(c) = With(c, mode, ratio)
  BY DEF MatrixKey, KeyOf, Present, With
<1>2. Present(c) \in Matrices
  BY <1>1, WithIsMatrix DEF PresentPlant, PlantTyped
<1>3. CASE Knows(caches.eigenvalues, MatrixKey(c))
  <2>1. caches.eigenvalues \in Seq(SpectrumEntries)
    BY DEF Caches
  <2>2. PICK e \in SpectrumEntries :
            e.key = MatrixKey(c) /\ e.value = Get(caches.eigenvalues, MatrixKey(c))
    BY <1>3, <2>1, KnownEntry
  <2>3. PICK d \in ToSet(Circuits), m \in Modes, r \in Ratios :
            e = [key |-> KeyOf(d, m, r), value |-> Spectrum(With(d, m, r))]
    BY <2>2 DEF SpectrumEntries
  <2>4. KeyOf(d, m, r) = KeyOf(c, mode, ratio) /\ e.value = Spectrum(With(d, m, r))
    BY <1>1, <2>2, <2>3
  <2>5. d = c
    BY <2>4 DEF KeyOf
  <2>6. With(c, m, r) = With(c, mode, ratio)
    BY <2>4, <2>5, KeysMeanMatrices DEF PresentPlant, PlantTyped
  <2> QED
    BY <1>1, <1>3, <2>2, <2>4, <2>5, <2>6 DEF KnownOrFound, FoundOf
<1>4. CASE ~Knows(caches.eigenvalues, MatrixKey(c))
  BY <1>2, <1>4, EigenvaluesFound DEF KnownOrFound
<1> QED
  BY <1>3, <1>4

Verdicts == [stable : BOOLEAN, caches : Caches]

\* One circuit of the check.
LEMMA CircuitChecked ==
    ASSUME PresentPlant, NEW c \in ToSet(Circuits), NEW h, NEW verdict \in Verdicts
    PROVE  /\ Checked(h, verdict, c) \in Verdicts
           /\ Checked(h, verdict, c).stable <=>
                  verdict.stable /\ CircuitSound(c, mode, ratio, h)
<1> DEFINE key == MatrixKey(c)
           found == KnownOrFound(verdict.caches, key, c)
           stable == \A value \in found.values : Inside(value, h)
           stored == Used(found.caches.eigenvalues, key, found.values)
           caches == [found.caches EXCEPT !.eigenvalues = stored]
<1>1. verdict.caches \in Caches /\ verdict.stable \in BOOLEAN
  BY DEF Verdicts
<1>2. found \in FoundOf(Present(c))
  BY <1>1, CircuitFound
<1>3. key = KeyOf(c, mode, ratio) /\ Present(c) = With(c, mode, ratio)
  BY DEF MatrixKey, KeyOf, Present, With
<1>4. Judged(h, key, found) = [stable |-> stable, caches |-> caches]
  BY DEF Judged
<1>5. Checked(h, verdict, c) = IF verdict.stable THEN Judged(h, key, found) ELSE verdict
  BY DEF Checked
<1> HIDE DEF found
<1>6. found.values = Spectrum(With(c, mode, ratio)) /\ found.caches \in Caches
  BY <1>2, <1>3 DEF FoundOf
<1>7. stable \in BOOLEAN /\ (stable <=> CircuitSound(c, mode, ratio, h))
  BY <1>6 DEF CircuitSound
<1>8. caches \in Caches
  <2>1. [key |-> key, value |-> found.values] \in SpectrumEntries
    BY <1>3, <1>6 DEF SpectrumEntries, PresentPlant, PlantTyped
  <2>2. found.caches.eigenvalues \in Seq(SpectrumEntries)
    BY <1>6 DEF Caches
  <2> HIDE DEF key
  <2>3. stored \in Seq(SpectrumEntries)
    BY <2>1, <2>2, UsedEntries
  <2> HIDE DEF stored
  <2> QED
    BY <1>6, <2>3 DEF Caches
<1> HIDE DEF stable, caches, key
<1> QED
  BY <1>1, <1>4, <1>5, <1>7, <1>8 DEF Verdicts
IsVerdictCourse(h, f) ==
    f = [n \in 0 .. Len(Circuits) |->
            IF n = 0 THEN [stable |-> TRUE, caches |-> stability]
            ELSE Checked(h, f[n - 1], Circuits[n])]

LEMMA VerdictCourseExists ==
    ASSUME FixedInv, NEW h, Len(Circuits) \in Nat,
           \A n \in 1 .. Len(Circuits) : Circuits[n] \in ToSet(Circuits)
    PROVE  \E f : IsVerdictCourse(h, f)
<1> DEFINE N == Len(Circuits)
           first == [stable |-> TRUE, caches |-> stability]
           step == [n \in 1 .. N |-> [s \in Verdicts |-> Checked(h, s, Circuits[n])]]
<1>1. first \in Verdicts
  BY DEF Verdicts, FixedInv
<1>2. ASSUME NEW n \in 1 .. N, NEW s \in Verdicts
      PROVE  Checked(h, s, Circuits[n]) \in Verdicts
  BY CircuitChecked DEF FixedInv
<1>3. step \in [1 .. N -> [Verdicts -> Verdicts]]
  BY <1>2
<1>4. \A n \in 1 .. N, s \in Verdicts : step[n][s] = Checked(h, s, Circuits[n])
  OBVIOUS
<1> HIDE DEF step, first
<1>5. PICK f \in [0 .. N -> Verdicts] :
          IsCourse(f, N, first, step)
  <2>1. N \in Nat
    OBVIOUS
  <2> HIDE DEF N
  <2> QED
    BY <1>1, <1>3, <2>1, CourseExists
<1>6. ASSUME NEW n \in 0 .. N
      PROVE  f[n] = IF n = 0 THEN first ELSE Checked(h, f[n - 1], Circuits[n])
  <2>1. CASE n = 0
    BY <1>5, <2>1 DEF IsCourse
  <2>2. CASE n # 0
    <3>1. n \in 1 .. N /\ n - 1 \in 0 .. N
      BY <2>2
    <3>2. f[n] = step[n][f[n - 1]] /\ f[n - 1] \in Verdicts
      BY <1>5, <3>1 DEF IsCourse
    <3> QED
      BY <1>4, <2>2, <3>1, <3>2
  <2> QED
    BY <2>1, <2>2
<1>7. f = [n \in 0 .. N |-> IF n = 0 THEN first ELSE Checked(h, f[n - 1], Circuits[n])]
  BY <1>5, <1>6
<1> QED
  BY <1>7 DEF IsVerdictCourse, first

\* A remembered verdict is the present one, and a new one looks at all circuits.
LEMMA VerdictFound ==
    ASSUME FixedInv, NEW h \in Steps
    PROVE  /\ ExplicitStable(h) \in Verdicts
           /\ ExplicitStable(h).stable <=> Sound(h)
<1> DEFINE key == [modes |-> ModeKeys, h |-> h]
           N == Len(Circuits)
           f == CHOOSE g : IsVerdictCourse(h, g)
<1>1. /\ N \in Nat /\ DOMAIN Circuits = 1 .. N
      /\ \A n \in 1 .. N : Circuits[n] \in ToSet(Circuits)
      /\ \A c \in ToSet(Circuits) : \E n \in 1 .. N : c = Circuits[n]
  BY SolverPlantAssumption DEF ToSet
<1>2. ExplicitStable(h) = IF Knows(stability.results, key)
                          THEN [stable |-> Get(stability.results, key), caches |-> stability]
                          ELSE f[N]
  BY DEF ExplicitStable, IsVerdictCourse
<1>3. IsVerdictCourse(h, f)
  <2>1. \E g : IsVerdictCourse(h, g)
    BY <1>1, VerdictCourseExists
  <2> QED
    BY <2>1, Zenon
<1>4. Sound(h) <=> SoundWith(mode, ratio, h)
  BY DEF Sound, SoundWith, CircuitSound, Present, With
<1>5. key = [modes |-> KeysOf(mode, ratio), h |-> h]
  BY DEF ModeKeys, KeysOf, MatrixKey, KeyOf
<1> HIDE DEF f
<1>6. stability \in Caches /\ PresentPlant
  BY DEF FixedInv
<1>7. CASE Knows(stability.results, key)
  <2>1. stability.results \in Seq(ResultEntries)
    BY <1>6 DEF Caches
  <2>2. PICK e \in ResultEntries : e.key = key /\ e.value = Get(stability.results, key)
    BY <1>7, <2>1, KnownEntry
  <2>3. PICK m \in Modes, r \in Ratios, d \in Steps :
            e = [key |-> [modes |-> KeysOf(m, r), h |-> d], value |-> SoundWith(m, r, d)]
    BY <2>2 DEF ResultEntries
  <2>4. KeysOf(m, r) = KeysOf(mode, ratio) /\ d = h /\ e.value = SoundWith(m, r, h)
    BY <1>5, <2>2, <2>3
  <2>5. ASSUME NEW c \in ToSet(Circuits)
        PROVE  With(c, m, r) = With(c, mode, ratio)
    <3>1. PICK n \in 1 .. N : c = Circuits[n]
      BY <1>1
    <3>2. KeysOf(m, r)[n] = KeyOf(c, m, r) /\ KeysOf(mode, ratio)[n] = KeyOf(c, mode, ratio)
      BY <1>1, <3>1 DEF KeysOf
    <3>3. KeyOf(c, m, r) = KeyOf(c, mode, ratio)
      BY <2>4, <3>2
    <3> QED
      BY <1>6, <3>3, KeysMeanMatrices DEF PresentPlant, PlantTyped
  <2>6. SoundWith(m, r, h) <=> SoundWith(mode, ratio, h)
    BY <2>5 DEF SoundWith, CircuitSound
  <2>7. Get(stability.results, key) \in BOOLEAN /\ (Get(stability.results, key) <=> Sound(h))
    <3>1. Get(stability.results, key) = SoundWith(m, r, h)
      BY <2>2, <2>4
    <3>2. SoundWith(m, r, h) \in BOOLEAN
      BY DEF SoundWith
    <3> QED
      BY <1>4, <2>6, <3>1, <3>2
  <2> HIDE DEF key
  <2> QED
    BY <1>2, <1>6, <1>7, <2>7 DEF Verdicts
<1>8. CASE ~Knows(stability.results, key)
  <2> DEFINE All(n) == \A i \in 1 .. n : CircuitSound(Circuits[i], mode, ratio, h)
             P == {n \in 0 .. N : f[n] \in Verdicts /\ (f[n].stable <=> All(n))}
  <2>1. \A n \in 1 .. N : f[n] = Checked(h, f[n - 1], Circuits[n])
    <3> TAKE n \in 1 .. N
    <3>1. n \in 0 .. Len(Circuits) /\ n # 0
      BY <1>1
    <3> QED
      BY <3>1, <1>3, Zenon DEF IsVerdictCourse
  <2>2. 0 \in P
    <3>1. 0 \in 0 .. N /\ 1 .. 0 = {}
      BY <1>1
    <3>2. f[0] = [stable |-> TRUE, caches |-> stability]
      BY <3>1, <1>3, Zenon DEF IsVerdictCourse
    <3>3. f[0] \in Verdicts /\ f[0].stable = TRUE
      BY <1>6, <3>2 DEF Verdicts
    <3>4. All(0)
      BY <3>1
    <3> HIDE DEF All
    <3> QED
      BY <3>1, <3>3, <3>4
  <2>3. ASSUME NEW n \in 0 .. N - 1, n \in P
        PROVE  n + 1 \in P
    <3>1. n + 1 \in 0 .. N /\ n + 1 - 1 = n /\ n + 1 \in 1 .. N
      BY <1>1
    <3> DEFINE c == Circuits[n + 1]
    <3>2. f[n + 1] = Checked(h, f[n], c) /\ c \in ToSet(Circuits)
      BY <1>1, <2>1, <3>1
    <3>3. 1 .. n + 1 = (1 .. n) \cup {n + 1}
      OBVIOUS
    <3>4. All(n + 1) <=> All(n) /\ CircuitSound(c, mode, ratio, h)
      BY <3>3
    <3> HIDE DEF All, c
    <3>5. f[n] \in Verdicts /\ (f[n].stable <=> All(n))
      BY <2>3
    <3>6. /\ f[n + 1] \in Verdicts
          /\ f[n + 1].stable <=> f[n].stable /\ CircuitSound(c, mode, ratio, h)
      BY <1>6, <3>2, <3>5, CircuitChecked
    <3> QED
      BY <3>1, <3>4, <3>5, <3>6
  <2>4. \A n \in 0 .. N : n \in P
    <3> HIDE DEF P
    <3>1. \A n \in 0 .. N - 1 : n \in P => n + 1 \in P
      BY <2>3
    <3> QED
      BY <1>1, <2>2, <3>1, Along
  <2>5. f[N] \in Verdicts /\ (f[N].stable <=> All(N))
    <3>1. N \in P
      BY <1>1, <2>4
    <3> QED
      BY <3>1
  <2>6. All(N) <=> SoundWith(mode, ratio, h)
    BY <1>1 DEF SoundWith
  <2> HIDE DEF All, key
  <2> QED
    BY <1>2, <1>4, <1>8, <2>5, <2>6
<1> HIDE DEF key
<1> QED
  BY <1>7, <1>8

\* The invariant of the fixed-step solver.
LEMMA FixedStarts == PlantInit /\ FixedInit => FixedInv
<1> SUFFICES ASSUME PlantInit, FixedInit PROVE FixedInv
  OBVIOUS
<1>1. PresentPlant /\ ChoiceIsSound
  BY SolverPlantAssumption DEF PlantInit, PresentPlant, PlantTyped, ChoiceIsSound
<1>2. \A E : <<>> \in Seq(E)
  OBVIOUS
<1>3. stability \in Caches
  BY <1>2 DEF FixedInit, Caches
<1> QED
  BY <1>1, <1>3 DEF FixedInv

LEMMA FixedKeeps ==
    ASSUME FixedInv, FixedNext
    PROVE  FixedInv'
<1>0. stability \in Caches /\ PresentPlant
  BY DEF FixedInv
<1>1. CASE MovesFixed
  <2>1. stability' = stability /\ params' = params /\ choice' = None
    BY <1>1 DEF MovesFixed, PlantMoves
  <2>2. PresentPlant'
    BY <1>0, <1>1 DEF MovesFixed, PlantMoves, PresentPlant, PlantTyped
  <2>3. Caches' = Caches
    BY <2>1 DEF Caches, ResultEntries, SpectrumEntries, SoundWith, CircuitSound, With
  <2> QED
    BY <1>0, <2>1, <2>2, <2>3 DEF FixedInv, ChoiceIsSound
<1>2. CASE ParametersChangeFixed
  <2>1. /\ choice' = None /\ params' = params + 1 /\ params < MaxParams
        /\ stability' = [stability EXCEPT !.results = <<>>, !.eigenvalues = <<>>]
    BY <1>2 DEF ParametersChangeFixed, ParametersMove
  <2>2. PresentPlant'
    BY <1>0, <1>2, <2>1, SolverPlantAssumption
        DEF ParametersChangeFixed, ParametersMove, PresentPlant, PlantTyped
  <2>3. \A E : <<>> \in Seq(E)
    OBVIOUS
  <2>4. stability' \in [results : Seq(ResultEntries'), eigenvalues : Seq(SpectrumEntries'),
                        components : Seq(PartEntries), blocks : Seq(BlockEntries)]
    BY <1>0, <2>1, <2>3 DEF Caches
  <2>5. stability' \in Caches'
    BY <2>4 DEF Caches
  <2> QED
    BY <2>1, <2>2, <2>5 DEF FixedInv, ChoiceIsSound
<1>3. ASSUME NEW h \in Steps, AdvanceFixed(h)
      PROVE  FixedInv'
  <2> DEFINE verdict == ExplicitStable(h)
             key == [modes |-> ModeKeys, h |-> h]
             results == Used(verdict.caches.results, key, verdict.stable)
  <2>1. verdict \in Verdicts /\ (verdict.stable <=> Sound(h))
    BY VerdictFound
  <2>2. /\ choice' = [h |-> h, explicit |-> verdict.stable]
        /\ stability' = [verdict.caches EXCEPT !.results = results]
        /\ UNCHANGED plant
    BY <1>3 DEF AdvanceFixed, Decide
  <2> HIDE DEF verdict
  <2>3. verdict.stable \in BOOLEAN /\ verdict.caches \in Caches
    BY <2>1 DEF Verdicts
  <2>4. [key |-> key, value |-> verdict.stable] \in ResultEntries
    <3>1. key = [modes |-> KeysOf(mode, ratio), h |-> h]
      BY DEF ModeKeys, KeysOf, MatrixKey, KeyOf
    <3>2. SoundWith(mode, ratio, h) \in BOOLEAN /\ (Sound(h) <=> SoundWith(mode, ratio, h))
      BY DEF Sound, SoundWith, CircuitSound, Present, With
    <3>3. verdict.stable = SoundWith(mode, ratio, h)
      BY <2>1, <2>3, <3>2
    <3> HIDE DEF key
    <3> QED
      BY <1>0, <3>1, <3>3 DEF ResultEntries, PresentPlant, PlantTyped
  <2> HIDE DEF key
  <2>5. results \in Seq(ResultEntries)
    <3>1. verdict.caches.results \in Seq(ResultEntries)
      BY <2>3 DEF Caches
    <3> QED
      BY <2>4, <3>1, UsedEntries
  <2> HIDE DEF results
  <2>6. stability' \in Caches
    BY <2>2, <2>3, <2>5 DEF Caches
  <2>7. Caches' = Caches /\ (Sound(h))' = Sound(h) /\ PresentPlant'
    BY <1>0, <2>2 DEF Caches, ResultEntries, SpectrumEntries, SoundWith, CircuitSound, With, plant,
                      Sound, Present, PresentPlant, PlantTyped
  <2>8. ChoiceIsSound'
    <3>1. choice'.h = h /\ choice'.explicit = verdict.stable
      BY <2>2
    <3> QED
      BY <2>1, <2>7, <3>1 DEF ChoiceIsSound
  <2> QED
    BY <2>6, <2>7, <2>8 DEF FixedInv
<1> QED
  BY <1>1, <1>2, <1>3 DEF FixedNext

----------------------------------------------------------------------------
(***************************************************************************)
(* The choice of an exported program. An entry of a mode is of its own     *)
(* epoch, that is of its own parameters, and where eigenvalues are missing *)
(* those of the matrix, or of one of its blocks, are not found.            *)
(***************************************************************************)
\* The eigenvalues of a matrix, or of one of its blocks, are not found.
Finds(m) == NativeEigenvalues(m).converged
Unfound(m) == ~Finds(m) \/ \E block \in Spectrum(m) : ~Finds(block)

\* What the exported program may find of a matrix.
Findings(m) ==
    {v \in [values : SUBSET Spectrum(m), converged : BOOLEAN] :
        IF v.converged THEN v.values = Spectrum(m) ELSE Unfound(m)}

KeyAt(c, p) ==
    [epoch |-> p[3], key |-> [mode |-> IF c \in Switched THEN p[1] ELSE None,
                              ratio |-> IF c \in Transforming THEN p[2] ELSE None]]
EntriesAt(c, p) == {[key |-> KeyAt(c, p), value |-> v] : v \in Findings(Matrix[c][p])}
ModeEntries(c) == UNION {EntriesAt(c, p) : p \in Plants}
AllModeEntries == UNION {ModeEntries(c) : c \in ToSet(Circuits)}
NativePartEntries ==
    {[key |-> Pattern(m), value |-> None] : m \in Matrices}
        \cup {[key |-> Pattern(m), value |-> NativeComponents(Pattern(m))] : m \in Matrices}
NativeBlockEntries == {[key |-> block, value |-> NativeEigenvalues(block)] : block \in Irreducibles}

Members == [epoch : {params}, modes : [ToSet(Circuits) -> Seq(AllModeEntries)],
            patterns : Seq(NativePartEntries), blocks : Seq(NativeBlockEntries),
            jacobian : {None}, selected : {None}, known : {<<>>}, factors : {{}}]
Programs == {p \in Members : \A c \in ToSet(Circuits) : p.modes[c] \in Seq(ModeEntries(c))}

NativeFixedInv ==
    /\ PresentPlant /\ native \in Programs /\ VerdictIsPresent
    /\ newton = None /\ tries = 0

\* What the program finds of a block, all at once.
LEMMA EigenvaluesOfBlock ==
    ASSUME NEW block \in Irreducibles
    PROVE  /\ Finds(block) \in BOOLEAN
           /\ NativeEigenvalues(block) = [values |-> IF Finds(block) THEN {block} ELSE {},
                                          converged |-> Finds(block)]
<1>1. Spectrum(block) = {block}
  BY BlocksAreTheirOwn
<1> QED
  BY <1>1 DEF NativeEigenvalues, Finds

NativeFound == [values : SUBSET Irreducibles, converged : BOOLEAN, program : Programs]

\* The members of a program that takes an entry.
LEMMA PatternKept ==
    ASSUME NEW p \in Programs, NEW k, NEW v, [key |-> k, value |-> v] \in NativePartEntries
    PROVE  [p EXCEPT !.patterns = Kept(@, k, v)] \in Programs
<1>1. p \in Members /\ \A c \in ToSet(Circuits) : p.modes[c] \in Seq(ModeEntries(c))
  BY DEF Programs
<1>2. p.patterns \in Seq(NativePartEntries)
  BY <1>1 DEF Members
<1>3. \A e \in NativePartEntries : e = [key |-> e.key, value |-> e.value]
  BY DEF NativePartEntries
<1>4. Kept(p.patterns, k, v) \in Seq(NativePartEntries)
  BY <1>2, <1>3, KeptEntries
<1>5. [p EXCEPT !.patterns = Kept(@, k, v)] \in Members
  BY <1>1, <1>4 DEF Members
<1>6. [p EXCEPT !.patterns = Kept(@, k, v)].modes = p.modes
  BY <1>1 DEF Members
<1> QED
  BY <1>1, <1>5, <1>6 DEF Programs

LEMMA BlockKept ==
    ASSUME NEW p \in Programs, NEW block \in Irreducibles
    PROVE  [p EXCEPT !.blocks = Kept(@, block, NativeEigenvalues(block))] \in Programs
<1> DEFINE v == NativeEigenvalues(block)
<1>1. p \in Members /\ \A c \in ToSet(Circuits) : p.modes[c] \in Seq(ModeEntries(c))
  BY DEF Programs
<1>2. p.blocks \in Seq(NativeBlockEntries) /\ [key |-> block, value |-> v] \in NativeBlockEntries
  BY <1>1 DEF Members, NativeBlockEntries
<1>3. \A e \in NativeBlockEntries : e = [key |-> e.key, value |-> e.value]
  BY DEF NativeBlockEntries
<1> HIDE DEF v
<1>4. Kept(p.blocks, block, v) \in Seq(NativeBlockEntries)
  BY <1>2, <1>3, KeptEntries
<1>5. [p EXCEPT !.blocks = Kept(@, block, v)] \in Members
  BY <1>1, <1>4 DEF Members
<1>6. [p EXCEPT !.blocks = Kept(@, block, v)].modes = p.modes
  BY <1>1 DEF Members
<1> QED
  BY <1>1, <1>5, <1>6 DEF Programs, v

LEMMA ModeKept ==
    ASSUME NEW p \in Programs, NEW c \in ToSet(Circuits), NEW k, NEW v,
           [key |-> k, value |-> v] \in ModeEntries(c)
    PROVE  [p EXCEPT !.modes[c] = Kept(@, k, v)] \in Programs
<1> DEFINE cache == Kept(p.modes[c], k, v)
           modes2 == [p.modes EXCEPT ![c] = cache]
           q == [p EXCEPT !.modes = modes2]
<1>1. p \in Members /\ \A d \in ToSet(Circuits) : p.modes[d] \in Seq(ModeEntries(d))
  BY DEF Programs
<1>2. p.modes \in [ToSet(Circuits) -> Seq(AllModeEntries)]
  BY <1>1 DEF Members
<1>3. \A e \in ModeEntries(c) : e = [key |-> e.key, value |-> e.value]
  BY DEF ModeEntries, EntriesAt
<1>4. cache \in Seq(ModeEntries(c))
  <2>1. p.modes[c] \in Seq(ModeEntries(c))
    BY <1>1
  <2> QED
    BY <1>3, <2>1, KeptEntries
<1> HIDE DEF cache
<1>5. cache \in Seq(AllModeEntries)
  <2>1. ModeEntries(c) \subseteq AllModeEntries
    BY DEF AllModeEntries
  <2> QED
    BY <1>4, <2>1
<1>6. /\ modes2 \in [ToSet(Circuits) -> Seq(AllModeEntries)]
      /\ \A d \in ToSet(Circuits) : modes2[d] \in Seq(ModeEntries(d))
  BY <1>1, <1>2, <1>4, <1>5
<1>7. [p EXCEPT !.modes[c] = Kept(@, k, v)] = q
  BY <1>1 DEF Members, cache
<1> HIDE DEF modes2
<1>8. q \in Members /\ q.modes = modes2
  BY <1>1, <1>6 DEF Members
<1> HIDE DEF q
<1> QED
  BY <1>6, <1>7, <1>8 DEF Programs

\* One block more.
LEMMA NativeBlockAdded ==
    ASSUME NEW found \in NativeFound, NEW block \in Irreducibles
    PROVE  /\ WithNativeBlock(found, block) \in NativeFound
           /\ WithNativeBlock(found, block).values
                  = found.values \cup IF Finds(block) THEN {block} ELSE {}
           /\ WithNativeBlock(found, block).converged = (found.converged /\ Finds(block))
<1> DEFINE v == NativeEigenvalues(block)
           program == [found.program EXCEPT !.blocks = Kept(@, block, v)]
<1>1. /\ found.program \in Programs /\ found.values \in SUBSET Irreducibles
      /\ found.converged \in BOOLEAN
  BY DEF NativeFound
<1>2. (IF Knows(found.program.blocks, block) THEN Get(found.program.blocks, block)
       ELSE NativeEigenvalues(block)) = v
  <2>1. CASE Knows(found.program.blocks, block)
    <3>1. found.program.blocks \in Seq(NativeBlockEntries)
      BY <1>1 DEF Programs, Members
    <3>2. PICK e \in NativeBlockEntries :
              e.key = block /\ e.value = Get(found.program.blocks, block)
      BY <2>1, <3>1, KnownEntry
    <3>3. e.value = NativeEigenvalues(block)
      BY <3>2 DEF NativeBlockEntries
    <3> QED
      BY <2>1, <3>2, <3>3
  <2> QED
    BY <2>1
<1>3. WithNativeBlock(found, block) = [values |-> found.values \cup v.values,
                                       converged |-> found.converged /\ v.converged,
                                       program |-> program]
  BY <1>2 DEF WithNativeBlock
<1>4. program \in Programs
  BY <1>1, BlockKept
<1>5. /\ v.values = (IF Finds(block) THEN {block} ELSE {})
      /\ v.converged = Finds(block) /\ Finds(block) \in BOOLEAN
  BY EigenvaluesOfBlock
<1> HIDE DEF v, program
<1>6. found.values \cup v.values \in SUBSET Irreducibles
  BY <1>1, <1>5
<1> QED
  BY <1>1, <1>3, <1>4, <1>5, <1>6 DEF NativeFound

NativeFoundOf(m) ==
    {found \in [values : SUBSET Spectrum(m), converged : BOOLEAN, program : Programs] :
        [values |-> found.values, converged |-> found.converged] \in Findings(m)}

IsNativeCourse(f, m, components, seen) ==
    f = [n \in 0 .. Len(components) |->
            IF n = 0 THEN [values |-> {}, converged |-> TRUE, program |-> seen]
            ELSE WithNativeBlock(f[n - 1], DiagonalBlock(m, components[n]))]

LEMMA NativeCourseExists ==
    ASSUME NEW m, NEW components, Len(components) \in Nat, NEW seen \in Programs,
           \A n \in 1 .. Len(components) : DiagonalBlock(m, components[n]) \in Irreducibles
    PROVE  \E f : IsNativeCourse(f, m, components, seen)
<1> DEFINE N == Len(components)
           first == [values |-> {}, converged |-> TRUE, program |-> seen]
           step == [n \in 1 .. N |-> [s \in NativeFound |->
                       WithNativeBlock(s, DiagonalBlock(m, components[n]))]]
<1>1. first \in NativeFound
  BY DEF NativeFound
<1>2. ASSUME NEW n \in 1 .. N, NEW s \in NativeFound
      PROVE  WithNativeBlock(s, DiagonalBlock(m, components[n])) \in NativeFound
  <2>1. DiagonalBlock(m, components[n]) \in Irreducibles
    OBVIOUS
  <2> QED
    BY <2>1, NativeBlockAdded
<1>3. step \in [1 .. N -> [NativeFound -> NativeFound]]
  BY <1>2
<1>4. \A n \in 1 .. N, s \in NativeFound :
          step[n][s] = WithNativeBlock(s, DiagonalBlock(m, components[n]))
  OBVIOUS
<1> HIDE DEF step, first
<1>5. PICK f \in [0 .. N -> NativeFound] : IsCourse(f, N, first, step)
  <2>1. N \in Nat
    OBVIOUS
  <2> HIDE DEF N
  <2> QED
    BY <1>1, <1>3, <2>1, CourseExists
<1>6. ASSUME NEW n \in 0 .. N
      PROVE  f[n] = IF n = 0 THEN first
                    ELSE WithNativeBlock(f[n - 1], DiagonalBlock(m, components[n]))
  <2>1. CASE n = 0
    BY <1>5, <2>1 DEF IsCourse
  <2>2. CASE n # 0
    <3>1. n \in 1 .. N /\ n - 1 \in 0 .. N
      BY <2>2
    <3>2. f[n] = step[n][f[n - 1]] /\ f[n - 1] \in NativeFound
      BY <1>5, <3>1 DEF IsCourse
    <3> QED
      BY <1>4, <2>2, <3>1, <3>2
  <2> QED
    BY <2>1, <2>2
<1>7. f = [n \in 0 .. N |-> IF n = 0 THEN first
                            ELSE WithNativeBlock(f[n - 1], DiagonalBlock(m, components[n]))]
  BY <1>5, <1>6
<1> QED
  BY <1>7 DEF IsNativeCourse, first

LEMMA WholeFound ==
    ASSUME NEW m, NEW program \in Programs
    PROVE  Whole(program, m) \in NativeFoundOf(m)
<1> DEFINE v == NativeEigenvalues(m)
<1>1. v = [values |-> IF Finds(m) THEN Spectrum(m) ELSE {}, converged |-> Finds(m)]
      /\ Finds(m) \in BOOLEAN
  BY DEF NativeEigenvalues, Finds
<1>2. [values |-> v.values, converged |-> v.converged] \in Findings(m)
  BY <1>1 DEF Findings, Unfound
<1>3. v.values \in SUBSET Spectrum(m) /\ v.converged \in BOOLEAN
  BY <1>1
<1>4. Whole(program, m) = [values |-> v.values, converged |-> v.converged, program |-> program]
  BY DEF Whole
<1> HIDE DEF v
<1> QED
  BY <1>2, <1>3, <1>4 DEF NativeFoundOf

\* The blocks together are the matrix, where all are found.
LEMMA NativeBlockwiseFound ==
    ASSUME NEW m \in Matrices, NEW components, Decomposition(m, components),
           [key |-> Pattern(m), value |-> components] \in NativePartEntries,
           NEW program \in Programs
    PROVE  NativeBlockwise(program, m, components) \in NativeFoundOf(m)
<1> DEFINE seen == [program EXCEPT !.patterns = Kept(@, Pattern(m), components)]
           N == Len(components)
<1>1. seen \in Programs
  BY PatternKept
<1>2. N \in Nat /\ Spectrum(m) = {DiagonalBlock(m, components[i]) : i \in 1 .. N}
  BY SpectrumOf
<1>3. \A n \in 1 .. N : DiagonalBlock(m, components[n]) \in Irreducibles
  BY <1>2 DEF Irreducibles
<1> DEFINE f == CHOOSE g : IsNativeCourse(g, m, components, seen)
<1>4. NativeBlockwise(program, m, components) = IF N = 1 THEN Whole(seen, m) ELSE f[N]
  BY DEF NativeBlockwise, IsNativeCourse
<1> HIDE DEF seen
<1>5. IsNativeCourse(f, m, components, seen)
  <2>1. \E g : IsNativeCourse(g, m, components, seen)
    BY <1>1, <1>2, <1>3, NativeCourseExists
  <2> QED
    BY <2>1, Zenon
<1> HIDE DEF f
<1>0. \A n \in 1 .. N : f[n] = WithNativeBlock(f[n - 1], DiagonalBlock(m, components[n]))
  <2> TAKE n \in 1 .. N
  <2>1. n \in 0 .. Len(components) /\ n # 0
    BY <1>2
  <2> QED
    BY <2>1, <1>5, Zenon DEF IsNativeCourse
<1> DEFINE block(n) == DiagonalBlock(m, components[n])
           Upto(n) == {block(i) : i \in 1 .. n}
           Good(n) == /\ f[n] \in NativeFound /\ f[n].values \subseteq Upto(n)
                      /\ IF f[n].converged THEN f[n].values = Upto(n)
                         ELSE \E b \in Upto(n) : ~Finds(b)
           P == {n \in 0 .. N : Good(n)}
<1>6. 0 \in P
  <2>1. f[0] = [values |-> {}, converged |-> TRUE, program |-> seen]
    <3>1. 0 \in 0 .. Len(components)
      BY <1>2
    <3> QED
      BY <3>1, <1>5, Zenon DEF IsNativeCourse
  <2>2. f[0] \in NativeFound /\ f[0].values = {} /\ f[0].converged = TRUE
    BY <1>1, <2>1 DEF NativeFound
  <2>3. 0 \in 0 .. N /\ 1 .. 0 = {}
    BY <1>2
  <2>4. Upto(0) = {}
    BY <2>3
  <2> HIDE DEF Upto
  <2> QED
    BY <2>2, <2>3, <2>4
<1>7. ASSUME NEW n \in 0 .. N - 1, n \in P
      PROVE  n + 1 \in P
  <2>1. n + 1 \in 0 .. N /\ n + 1 # 0 /\ n + 1 - 1 = n /\ n + 1 \in 1 .. N
    BY <1>2
  <2> DEFINE b == block(n + 1)
  <2>2. f[n + 1] = WithNativeBlock(f[n], b)
    BY <1>0, <2>1
  <2>3. b \in Irreducibles
    BY <1>3, <2>1
  <2>5. 1 .. n + 1 = (1 .. n) \cup {n + 1}
    OBVIOUS
  <2>6. Upto(n + 1) = Upto(n) \cup {b}
    BY <2>5
  <2> HIDE DEF Upto, b, block
  <2>7. Good(n)
    BY <1>7
  <2>8. /\ f[n + 1] \in NativeFound
        /\ f[n + 1].values = f[n].values \cup IF Finds(b) THEN {b} ELSE {}
        /\ f[n + 1].converged = (f[n].converged /\ Finds(b))
    BY <2>2, <2>3, <2>7, NativeBlockAdded
  <2>9. Good(n + 1)
    <3>1. CASE f[n].converged /\ Finds(b)
      BY <2>6, <2>7, <2>8, <3>1
    <3>2. CASE ~(f[n].converged /\ Finds(b))
      <4>1. \E d \in Upto(n + 1) : ~Finds(d)
        BY <2>6, <2>7, <3>2
      <4>2. ~f[n + 1].converged /\ f[n + 1].values \subseteq Upto(n + 1)
        BY <2>6, <2>7, <2>8, <3>2
      <4> QED
        BY <2>8, <4>1, <4>2
    <3> QED
      BY <3>1, <3>2
  <2> HIDE DEF Good
  <2> QED
    BY <2>1, <2>9
<1>8. \A n \in 0 .. N : n \in P
  <2> HIDE DEF P
  <2>1. \A n \in 0 .. N - 1 : n \in P => n + 1 \in P
    BY <1>7
  <2> QED
    BY <1>2, <1>6, <2>1, Along
<1>9. f[N] \in NativeFoundOf(m)
  <2>1. Good(N)
    BY <1>2, <1>8
  <2>2. Upto(N) = Spectrum(m)
    BY <1>2
  <2> HIDE DEF Upto
  <2>3. /\ f[N].values \in SUBSET Spectrum(m) /\ f[N].converged \in BOOLEAN
        /\ f[N].program \in Programs
        /\ f[N] = [values |-> f[N].values, converged |-> f[N].converged, program |-> f[N].program]
    BY <2>1, <2>2 DEF NativeFound
  <2>4. [values |-> f[N].values, converged |-> f[N].converged] \in Findings(m)
    BY <2>1, <2>2, <2>3 DEF Findings, Unfound
  <2>5. f[N] \in [values : SUBSET Spectrum(m), converged : BOOLEAN, program : Programs]
    BY <2>3
  <2> QED
    BY <2>4, <2>5 DEF NativeFoundOf
<1>10. Whole(seen, m) \in NativeFoundOf(m)
  BY <1>1, WholeFound
<1> QED
  BY <1>4, <1>9, <1>10

\* A mode not seen before.
LEMMA NewModeFound ==
    ASSUME NEW m \in Matrices, NEW program \in Programs
    PROVE  NewMode(program, m) \in NativeFoundOf(m)
<1> DEFINE pattern == Pattern(m)
           parts == NativeComponents(pattern)
<1>1. program.patterns \in Seq(NativePartEntries)
  BY DEF Programs, Members
<1>2. CASE Knows(program.patterns, pattern)
  <2>1. PICK e \in NativePartEntries : e.key = pattern /\ e.value = Get(program.patterns, pattern)
    BY <1>1, <1>2, KnownEntry
  <2>2. Get(program.patterns, pattern) \in {None, parts}
    BY <2>1 DEF NativePartEntries
  <2>3. Decomposed(program, pattern) = parts
    BY <2>2 DEF Decomposed
  <2>4. Decomposition(m, parts) /\ [key |-> pattern, value |-> parts] \in NativePartEntries
    BY PatternsDecompose DEF Decomposes, IsDecomposed, NativePartEntries
  <2>5. NativeBlockwise(program, m, parts) \in NativeFoundOf(m)
    <3> HIDE DEF parts
    <3> QED
      BY <2>4, NativeBlockwiseFound
  <2> QED
    BY <1>2, <2>3, <2>5 DEF NewMode
<1>3. CASE ~Knows(program.patterns, pattern)
  <2>1. [key |-> pattern, value |-> None] \in NativePartEntries
    BY DEF NativePartEntries
  <2>2. [program EXCEPT !.patterns = Kept(@, pattern, None)] \in Programs
    BY <2>1, PatternKept
  <2> QED
    BY <1>3, <2>2, WholeFound DEF NewMode
<1> QED
  BY <1>2, <1>3

\* A mode that is known is known of the present epoch, which is of the present
\* parameters.
LEMMA NativeCircuitFound ==
    ASSUME PresentPlant, NEW c \in ToSet(Circuits), NEW program \in Programs
    PROVE  NativeKnown(program, ModeKey(program, c), c) \in NativeFoundOf(Present(c))
<1> DEFINE key == ModeKey(program, c)
           p == <<mode, ratio, params>>
<1>1. p \in Plants
  BY DEF Plants, PresentPlant, PlantTyped
<1>2. program.epoch = params
  BY DEF Programs, Members
<1>3. key = KeyAt(c, p) /\ Present(c) = Matrix[c][p]
  BY <1>2 DEF ModeKey, StabilityKey, KeyAt, Present
<1>4. Present(c) \in Matrices
  BY <1>1, <1>3 DEF Matrices
<1>5. CASE Knows(program.modes[c], key)
  <2>1. program.modes[c] \in Seq(ModeEntries(c))
    BY DEF Programs
  <2>2. PICK e \in ModeEntries(c) : e.key = key /\ e.value = Get(program.modes[c], key)
    BY <1>5, <2>1, KnownEntry
  <2>3. PICK q \in Plants : e \in EntriesAt(c, q)
    BY <2>2 DEF ModeEntries
  <2>4. KeyAt(c, q) = KeyAt(c, p) /\ e.value \in Findings(Matrix[c][q])
    BY <1>3, <2>2, <2>3 DEF EntriesAt
  <2>5. /\ c \in Switched => q[1] = p[1]
        /\ c \in Reached => q[2] = p[2]
        /\ q[3] = p[3]
    BY <2>4, SolverPlantAssumption DEF KeyAt
  <2> HIDE DEF p
  <2>6. Matrix[c][q] = Matrix[c][p]
    BY <1>1, <2>5, SolverPlantAssumption
  <2>7. e.value \in Findings(Present(c))
    BY <1>3, <2>4, <2>6
  <2> HIDE DEF key
  <2>8. NativeKnown(program, key, c) = [values |-> e.value.values,
            converged |-> e.value.converged, program |-> program]
    BY <1>5, <2>2 DEF NativeKnown
  <2>9. /\ e.value.values \in SUBSET Spectrum(Present(c)) /\ e.value.converged \in BOOLEAN
        /\ e.value = [values |-> e.value.values, converged |-> e.value.converged]
    BY <2>7 DEF Findings
  <2> QED
    BY <2>7, <2>8, <2>9 DEF NativeFoundOf, key
<1>6. CASE ~Knows(program.modes[c], key)
  BY <1>4, <1>6, NewModeFound DEF NativeKnown
<1> QED
  BY <1>5, <1>6

NativeVerdicts == [stable : BOOLEAN, program : Programs]

\* One circuit of the check.
LEMMA NativeCircuitChecked ==
    ASSUME PresentPlant, NEW c \in ToSet(Circuits), NEW h,
           NEW verdict \in NativeVerdicts
    PROVE  LET after == NativeChecked(h, verdict, c)
               sound == CircuitSound(c, mode, ratio, h)
           IN  /\ after \in NativeVerdicts
               /\ after.stable => verdict.stable /\ sound
               /\ ~after.stable => ~verdict.stable \/ ~sound \/ Unfound(Present(c))
<1> DEFINE key == ModeKey(verdict.program, c)
           found == NativeKnown(verdict.program, key, c)
           value == [values |-> found.values, converged |-> found.converged]
           stable == found.converged /\ \A v \in found.values : Inside(v, h)
           program == [found.program EXCEPT !.modes[c] = Kept(@, key, value)]
<1>1. verdict.program \in Programs /\ verdict.stable \in BOOLEAN
  BY DEF NativeVerdicts
<1>2. found \in NativeFoundOf(Present(c))
  BY <1>1, NativeCircuitFound
<1>3. NativeChecked(h, verdict, c)
          = IF verdict.stable THEN [stable |-> stable, program |-> program] ELSE verdict
  BY DEF NativeChecked, NativeJudged
<1>4. key = KeyAt(c, <<mode, ratio, params>>) /\ <<mode, ratio, params>> \in Plants
      /\ Present(c) = Matrix[c][<<mode, ratio, params>>]
      /\ Present(c) = With(c, mode, ratio)
  BY <1>1 DEF Programs, Members, ModeKey, StabilityKey, KeyAt, Present, With, Plants,
              PresentPlant, PlantTyped
<1> HIDE DEF found, key
<1>5. found.program \in Programs /\ value \in Findings(Present(c))
      /\ found.converged \in BOOLEAN /\ found.values \subseteq Spectrum(Present(c))
  BY <1>2 DEF NativeFoundOf
<1>6. IF found.converged THEN found.values = Spectrum(Present(c)) ELSE Unfound(Present(c))
  BY <1>5 DEF Findings
<1>7. program \in Programs
  <2>1. [key |-> key, value |-> value] \in EntriesAt(c, <<mode, ratio, params>>)
    BY <1>4, <1>5 DEF EntriesAt
  <2>2. [key |-> key, value |-> value] \in ModeEntries(c)
    BY <1>4, <2>1 DEF ModeEntries
  <2> HIDE DEF value
  <2> QED
    BY <1>5, <2>2, ModeKept
<1>8. /\ stable \in BOOLEAN
      /\ stable => CircuitSound(c, mode, ratio, h)
      /\ ~stable => ~CircuitSound(c, mode, ratio, h) \/ Unfound(Present(c))
  BY <1>4, <1>5, <1>6 DEF CircuitSound
<1> HIDE DEF stable, program
<1> QED
  BY <1>1, <1>3, <1>7, <1>8 DEF NativeVerdicts

IsNativeVerdictCourse(h, f) ==
    f = [n \in 0 .. Len(Circuits) |->
            IF n = 0 THEN [stable |-> TRUE, program |-> native]
            ELSE NativeChecked(h, f[n - 1], Circuits[n])]

LEMMA NativeVerdictCourseExists ==
    ASSUME NativeFixedInv, NEW h, Len(Circuits) \in Nat,
           \A n \in 1 .. Len(Circuits) : Circuits[n] \in ToSet(Circuits)
    PROVE  \E f : IsNativeVerdictCourse(h, f)
<1> DEFINE N == Len(Circuits)
           first == [stable |-> TRUE, program |-> native]
           step == [n \in 1 .. N |-> [s \in NativeVerdicts |-> NativeChecked(h, s, Circuits[n])]]
<1>1. first \in NativeVerdicts
  BY DEF NativeVerdicts, NativeFixedInv
<1>2. ASSUME NEW n \in 1 .. N, NEW s \in NativeVerdicts
      PROVE  NativeChecked(h, s, Circuits[n]) \in NativeVerdicts
  BY NativeCircuitChecked DEF NativeFixedInv
<1>3. step \in [1 .. N -> [NativeVerdicts -> NativeVerdicts]]
  BY <1>2
<1>4. \A n \in 1 .. N, s \in NativeVerdicts : step[n][s] = NativeChecked(h, s, Circuits[n])
  OBVIOUS
<1> HIDE DEF step, first
<1>5. PICK f \in [0 .. N -> NativeVerdicts] : IsCourse(f, N, first, step)
  <2>1. N \in Nat
    OBVIOUS
  <2> HIDE DEF N
  <2> QED
    BY <1>1, <1>3, <2>1, CourseExists
<1>6. ASSUME NEW n \in 0 .. N
      PROVE  f[n] = IF n = 0 THEN first ELSE NativeChecked(h, f[n - 1], Circuits[n])
  <2>1. CASE n = 0
    BY <1>5, <2>1 DEF IsCourse
  <2>2. CASE n # 0
    <3>1. n \in 1 .. N /\ n - 1 \in 0 .. N
      BY <2>2
    <3>2. f[n] = step[n][f[n - 1]] /\ f[n - 1] \in NativeVerdicts
      BY <1>5, <3>1 DEF IsCourse
    <3> QED
      BY <1>4, <2>2, <3>1, <3>2
  <2> QED
    BY <2>1, <2>2
<1>7. f = [n \in 0 .. N |-> IF n = 0 THEN first ELSE NativeChecked(h, f[n - 1], Circuits[n])]
  BY <1>5, <1>6
<1> QED
  BY <1>7 DEF IsNativeVerdictCourse, first

LEMMA NativeVerdictFound ==
    ASSUME NativeFixedInv, NEW h
    PROVE  /\ NativeStable(h) \in NativeVerdicts
           /\ NativeStable(h).stable => Sound(h)
           /\ ~NativeStable(h).stable => ~Sound(h) \/ Unresolved
<1> DEFINE N == Len(Circuits)
           f == CHOOSE g : IsNativeVerdictCourse(h, g)
<1>1. /\ N \in Nat /\ DOMAIN Circuits = 1 .. N
      /\ \A n \in 1 .. N : Circuits[n] \in ToSet(Circuits)
      /\ \A c \in ToSet(Circuits) : \E n \in 1 .. N : c = Circuits[n]
  BY SolverPlantAssumption DEF ToSet
<1>2. NativeStable(h) = f[N]
  BY DEF NativeStable, IsNativeVerdictCourse
<1>3. IsNativeVerdictCourse(h, f)
  <2>1. \E g : IsNativeVerdictCourse(h, g)
    BY <1>1, NativeVerdictCourseExists
  <2> QED
    BY <2>1, Zenon
<1>4. Sound(h) <=> SoundWith(mode, ratio, h)
  BY DEF Sound, SoundWith, CircuitSound, Present, With
<1> HIDE DEF f
<1>6. native \in Programs /\ PresentPlant
  BY DEF NativeFixedInv
<1> DEFINE All(n) == \A i \in 1 .. n : CircuitSound(Circuits[i], mode, ratio, h)
           Good(n) == /\ f[n] \in NativeVerdicts
                      /\ f[n].stable => All(n)
                      /\ ~f[n].stable => ~SoundWith(mode, ratio, h) \/ Unresolved
           P == {n \in 0 .. N : Good(n)}
<1>7. \A n \in 1 .. N : f[n] = NativeChecked(h, f[n - 1], Circuits[n])
  <2> TAKE n \in 1 .. N
  <2>1. n \in 0 .. Len(Circuits) /\ n # 0
    BY <1>1
  <2> QED
    BY <2>1, <1>3, Zenon DEF IsNativeVerdictCourse
<1>8. 0 \in P
  <2>1. 0 \in 0 .. N /\ 1 .. 0 = {}
    BY <1>1
  <2>2. f[0] = [stable |-> TRUE, program |-> native]
    BY <2>1, <1>3, Zenon DEF IsNativeVerdictCourse
  <2>3. f[0] \in NativeVerdicts /\ f[0].stable = TRUE
    BY <1>6, <2>2 DEF NativeVerdicts
  <2>4. All(0)
    BY <2>1
  <2> HIDE DEF All
  <2> QED
    BY <2>1, <2>3, <2>4
<1>9. ASSUME NEW n \in 0 .. N - 1, n \in P
      PROVE  n + 1 \in P
  <2>1. n + 1 \in 0 .. N /\ n + 1 - 1 = n /\ n + 1 \in 1 .. N
    BY <1>1
  <2> DEFINE c == Circuits[n + 1]
             sound == CircuitSound(c, mode, ratio, h)
  <2>2. f[n + 1] = NativeChecked(h, f[n], c) /\ c \in ToSet(Circuits)
    BY <1>1, <1>7, <2>1
  <2>3. 1 .. n + 1 = (1 .. n) \cup {n + 1}
    OBVIOUS
  <2>4. All(n + 1) <=> All(n) /\ sound
    BY <2>3
  <2> HIDE DEF c
  <2>5. ~sound => ~SoundWith(mode, ratio, h)
    BY <2>2 DEF SoundWith
  <2>6. Unfound(Present(c)) => Unresolved
    BY <2>2 DEF Unfound, Finds, Unresolved
  <2> HIDE DEF All, sound
  <2>7. Good(n)
    BY <1>9
  <2>8. /\ f[n + 1] \in NativeVerdicts
        /\ f[n + 1].stable => f[n].stable /\ sound
        /\ ~f[n + 1].stable => ~f[n].stable \/ ~sound \/ Unfound(Present(c))
    BY <1>6, <2>2, <2>7, NativeCircuitChecked DEF sound
  <2>9. Good(n + 1)
    BY <2>4, <2>5, <2>6, <2>7, <2>8
  <2> HIDE DEF Good
  <2> QED
    BY <2>1, <2>9
<1>10. \A n \in 0 .. N : n \in P
  <2> HIDE DEF P
  <2>1. \A n \in 0 .. N - 1 : n \in P => n + 1 \in P
    BY <1>9
  <2> QED
    BY <1>1, <1>8, <2>1, Along
<1>11. Good(N)
  BY <1>1, <1>10
<1>12. All(N) => SoundWith(mode, ratio, h)
  BY <1>1 DEF SoundWith
<1> HIDE DEF All
<1> QED
  BY <1>2, <1>4, <1>11, <1>12

\* The program starts with nothing remembered.
LEMMA NativeFixedStarts == PlantInit /\ NativeInit => NativeFixedInv
<1> SUFFICES ASSUME PlantInit, NativeInit PROVE NativeFixedInv
  OBVIOUS
<1> DEFINE none == <<>>
           empty == [c \in ToSet(Circuits) |-> none]
<1>1. PresentPlant /\ VerdictIsPresent /\ params = 0
  BY SolverPlantAssumption DEF PlantInit, PresentPlant, PlantTyped, VerdictIsPresent
<1>2. \A E : none \in Seq(E)
  OBVIOUS
<1>3. /\ native = [epoch |-> 0, modes |-> empty, patterns |-> none, blocks |-> none,
                   jacobian |-> None, selected |-> None, known |-> <<>>, factors |-> {}]
      /\ newton = None /\ tries = 0
  BY DEF NativeInit
<1> HIDE DEF none
<1>4. /\ empty \in [ToSet(Circuits) -> Seq(AllModeEntries)]
      /\ \A c \in ToSet(Circuits) : empty[c] \in Seq(ModeEntries(c))
  BY <1>2
<1> HIDE DEF empty
<1>5. native \in Members /\ native.modes = empty
  BY <1>1, <1>2, <1>3, <1>4 DEF Members
<1>6. native \in Programs
  BY <1>4, <1>5 DEF Programs
<1> QED
  BY <1>1, <1>3, <1>6 DEF NativeFixedInv

\* A file event begins an epoch, in which nothing that was remembered of a mode
\* is looked up; a verdict is of the plant as it is.
LEMMA NativeFixedKeeps ==
    ASSUME NativeFixedInv, NativeFixedNext
    PROVE  NativeFixedInv'
<1>0. native \in Programs /\ PresentPlant /\ newton = None /\ tries = 0
  BY DEF NativeFixedInv
<1>1. CASE MovesNative
  <2>1. UNCHANGED <<native, newton, tries, params>> /\ choice' = None
    BY <1>1 DEF MovesNative, PlantMoves
  <2>2. PresentPlant'
    BY <1>0, <1>1 DEF MovesNative, PlantMoves, PresentPlant, PlantTyped
  <2>3. Programs' = Programs
    BY <2>1 DEF Programs, Members
  <2> QED
    BY <1>0, <2>1, <2>2, <2>3 DEF NativeFixedInv, VerdictIsPresent
<1>2. CASE FileEventNative
  <2> DEFINE none == <<>>
             next == native.epoch + 1
  <2>1. /\ UNCHANGED <<mode, ratio, point, newton, tries>> /\ choice' = None
        /\ params < MaxParams /\ params' = params + 1
        /\ native' = [native EXCEPT !.jacobian = None, !.selected = None, !.known = none,
                                    !.factors = {}, !.epoch = next]
    BY <1>0, <1>2 DEF FileEventNative, ParametersMove, Programs, Members
  <2>2. PresentPlant'
    BY <1>0, <2>1, SolverPlantAssumption DEF PresentPlant, PlantTyped
  <2>3. native \in Members /\ next = params'
    BY <1>0, <2>1 DEF Programs, Members
  <2>4. none \in {<<>>}
    OBVIOUS
  <2> HIDE DEF none, next
  <2>5. native' \in Members' /\ native'.modes = native.modes
    BY <2>1, <2>3, <2>4 DEF Members
  <2>6. native' \in Programs'
    BY <1>0, <2>5 DEF Programs
  <2> QED
    BY <1>0, <2>1, <2>2, <2>6 DEF NativeFixedInv, VerdictIsPresent
<1>3. ASSUME NEW h \in Steps, AdvanceChecked(h)
      PROVE  NativeFixedInv'
  <2> DEFINE verdict == NativeStable(h)
  <2>1. /\ verdict \in NativeVerdicts
        /\ verdict.stable => Sound(h)
        /\ ~verdict.stable => ~Sound(h) \/ Unresolved
    BY NativeVerdictFound
  <2>2. /\ choice' = [h |-> h, explicit |-> verdict.stable] /\ native' = verdict.program
        /\ UNCHANGED <<plant, newton, tries>>
    BY <1>3 DEF AdvanceChecked, DecideNative
  <2> HIDE DEF verdict
  <2>3. native' \in Programs
    BY <2>1, <2>2 DEF NativeVerdicts
  <2>4. Programs' = Programs /\ (Sound(h))' = Sound(h) /\ Unresolved' = Unresolved
        /\ PresentPlant'
    BY <1>0, <2>2 DEF plant, Programs, Members, Sound, Unresolved, Present, PresentPlant, PlantTyped
  <2>5. VerdictIsPresent'
    <3>1. choice'.h = h /\ choice'.explicit = verdict.stable
      BY <2>2
    <3> QED
      BY <2>1, <2>4, <3>1 DEF VerdictIsPresent
  <2> QED
    BY <1>0, <2>2, <2>3, <2>4, <2>5 DEF NativeFixedInv
<1> QED
  BY <1>1, <1>2, <1>3 DEF NativeFixedNext

----------------------------------------------------------------------------
(***************************************************************************)
(* The solvers of one plant.                                               *)
(***************************************************************************)
\* A run has one solver, which keeps its invariant.
THEOREM LinearInvariance == ASSUME Skips PROVE Spec => [](solver = "implicit" => LinearInv)
<1>1. Init => LinearInv
  BY LinearStarts DEF Init
<1>2. (solver = "implicit" => LinearInv) /\ [Next]_vars => (solver = "implicit" => LinearInv)'
  <2> SUFFICES ASSUME solver = "implicit" => LinearInv, [Next]_vars, solver' = "implicit"
               PROVE  LinearInv'
    OBVIOUS
  <2>1. solver = "implicit" /\ LinearInv
    BY DEF Next, vars
  <2>2. CASE LinearNext
    BY <2>1, <2>2, LinearStep
  <2>3. CASE UNCHANGED linearVars
    BY <2>1, <2>3
       DEF linearVars, plant, LinearInv, JacobianHolds, FormedIn, Exact, Coherent, System,
           FactorNames
  <2> QED
    BY <2>1, <2>2, <2>3 DEF Next, vars
<1> QED
  BY <1>1, <1>2, PTL DEF Spec

\* So does an exported program.
THEOREM NativeInvariance == Spec => [](solver = "native implicit" => NativeInv)
<1>1. Init => NativeInv
  BY NativeStarts DEF Init
<1>2. (solver = "native implicit" => NativeInv) /\ [Next]_vars =>
          (solver = "native implicit" => NativeInv)'
  <2> SUFFICES ASSUME solver = "native implicit" => NativeInv, [Next]_vars,
                      solver' = "native implicit"
               PROVE  NativeInv'
    OBVIOUS
  <2>1. solver = "native implicit" /\ NativeInv
    BY DEF Next, vars
  <2>2. CASE NativeImplicitNext
    BY <2>1, <2>2, NativeStep
  <2>3. CASE UNCHANGED nativeVars
    BY <2>1, <2>3 DEF nativeVars, plant, NativeInv, PlantTyped, Holds, IsOf, StructuralMode
  <2> QED
    BY <2>1, <2>2, <2>3 DEF Next, vars
<1> QED
  BY <1>1, <1>2, PTL DEF Spec

\* Every implicit step of a simulation is solved with a factorization of the
\* Jacobian held, whose columns were formed in the present mode with the present
\* parameters and the netlist's matrix of the present ratio.
THEOREM FactorsArePresent ==
    ASSUME Skips PROVE Spec => [](solver = "implicit" => FactorIsPresent)
<1>1. LinearInv => FactorIsPresent
  BY DEF LinearInv, JacobianHolds, FormedIn, FactorIsPresent
<1> QED
  BY <1>1, LinearInvariance, PTL

\* And so is every implicit step of an exported program.
THEOREM NewtonsArePresent == Spec => [](solver = "native implicit" => NewtonIsPresent)
<1>1. NativeInv => NewtonIsPresent
  BY DEF NativeInv, IsOf, StructuralMode, NewtonIsPresent
<1> QED
  BY <1>1, NativeInvariance, PTL

\* A simulation with explicit steps of a fixed size keeps its invariant.
THEOREM FixedInvariance == Spec => [](solver = "fixed" => FixedInv)
<1>1. Init => FixedInv
  BY FixedStarts DEF Init
<1>2. (solver = "fixed" => FixedInv) /\ [Next]_vars => (solver = "fixed" => FixedInv)'
  <2> SUFFICES ASSUME solver = "fixed" => FixedInv, [Next]_vars, solver' = "fixed"
               PROVE  FixedInv'
    OBVIOUS
  <2>1. solver = "fixed" /\ FixedInv
    BY DEF Next, vars
  <2>2. CASE FixedNext
    BY <2>1, <2>2, FixedKeeps
  <2>3. CASE UNCHANGED fixedVars
    <3>1. UNCHANGED <<mode, ratio, point, params, choice, stability>>
      BY <2>3 DEF fixedVars, plant
    <3>2. Caches' = Caches /\ PresentPlant' = PresentPlant /\ ChoiceIsSound' = ChoiceIsSound
      BY <3>1 DEF Caches, ResultEntries, SpectrumEntries, SoundWith, CircuitSound, With,
                  PresentPlant, PlantTyped, ChoiceIsSound, Sound, Present
    <3> QED
      BY <2>1, <3>1, <3>2 DEF FixedInv
  <2> QED
    BY <2>1, <2>2, <2>3 DEF Next, vars
<1> QED
  BY <1>1, <1>2, PTL DEF Spec

\* So does an exported program with them.
THEOREM NativeFixedInvariance ==
    Spec => [](solver = "native fixed" => NativeFixedInv)
<1>1. Init => NativeFixedInv
  BY NativeFixedStarts DEF Init
<1>2. (solver = "native fixed" => NativeFixedInv) /\ [Next]_vars
          => (solver = "native fixed" => NativeFixedInv)'
  <2> SUFFICES ASSUME solver = "native fixed" => NativeFixedInv, [Next]_vars,
                      solver' = "native fixed"
               PROVE  NativeFixedInv'
    OBVIOUS
  <2>1. solver = "native fixed" /\ NativeFixedInv
    BY DEF Next, vars
  <2>2. CASE NativeFixedNext
    BY <2>1, <2>2, NativeFixedKeeps
  <2>3. CASE UNCHANGED nativeVars
    <3>1. UNCHANGED <<mode, ratio, point, params, choice, native, newton, tries>>
      BY <2>3 DEF nativeVars, plant
    <3>2. /\ Programs' = Programs /\ PresentPlant' = PresentPlant
          /\ VerdictIsPresent' = VerdictIsPresent
      BY <3>1 DEF Programs, Members, PresentPlant, PlantTyped, VerdictIsPresent, Sound,
                  Unresolved, Present
    <3> QED
      BY <2>1, <3>1, <3>2 DEF NativeFixedInv
  <2> QED
    BY <2>1, <2>2, <2>3 DEF Next, vars
<1> QED
  BY <1>1, <1>2, PTL DEF Spec

\* An exported program of implicit steps decides nothing.
LEMMA NothingDecided == Spec => [](solver = "native implicit" => choice = None)
<1>1. Init => choice = None
  BY DEF Init, PlantInit
<1>2. (solver = "native implicit" => choice = None) /\ [Next]_vars
          => (solver = "native implicit" => choice = None)'
  <2> SUFFICES ASSUME solver = "native implicit" => choice = None, [Next]_vars,
                      solver' = "native implicit"
               PROVE  choice' = None
    OBVIOUS
  <2>1. solver = "native implicit" /\ choice = None
    BY DEF Next, vars
  <2>2. CASE NativeImplicitNext
    BY <2>1, <2>2 DEF NativeImplicitNext, MovesNative, FileEventNative, AdvanceImplicit,
       ConvergesNative, RetriesNative, FactorNative, PlantMoves, ParametersMove, plant
  <2>3. CASE UNCHANGED choice
    BY <2>1, <2>3
  <2> QED
    BY <2>1, <2>2, <2>3 DEF Next, vars, nativeVars
<1> QED
  BY <1>1, <1>2, PTL DEF Spec

\* Every interval is integrated with the plant as it is.
THEOREM StepsStayPresent == ASSUME Skips PROVE Spec => []StepsArePresent
<1>1. FixedInv => ChoiceIsSound
  BY DEF FixedInv
<1>2. NativeFixedInv => NativeStepsArePresent
  BY DEF NativeFixedInv, NativeStepsArePresent, NewtonIsPresent
<1>3. choice = None /\ NewtonIsPresent => NativeStepsArePresent
  BY DEF NativeStepsArePresent, VerdictIsPresent
<1>4. /\ solver = "implicit" => FactorIsPresent
      /\ solver = "fixed" => FixedInv
      /\ solver = "native fixed" => NativeFixedInv
      /\ solver = "native implicit" => choice = None
      /\ solver = "native implicit" => NewtonIsPresent
      => StepsArePresent
  BY <1>1, <1>2, <1>3 DEF StepsArePresent
<1> QED
  BY <1>4, FactorsArePresent, FixedInvariance, NativeFixedInvariance, NothingDecided,
     NewtonsArePresent, PTL

\* The windows of a run with the multirate solver are those of MultirateWindows.
LEMMA SolversRunWindows == Spec => WindowsSpec
<1>1. Init => WindowsInit
  BY DEF Init
<1>2. [Next]_vars => [WindowsNext]_windowsVars
  BY DEF Next, vars
<1> QED
  BY <1>1, <1>2, PTL DEF Spec, WindowsSpec

----------------------------------------------------------------------------
(***************************************************************************)
(* The loop network of a controller.                                       *)
(***************************************************************************)
Configs == [references : Tunings, loops : [Loops -> Tunings]]
Runners == [tuning : Tunings, limited : BOOLEAN]

\* A held value: none yet, or what a loop computed.
HeldValues == [at : {-1}]
        \cup [at : Nat, tuning : Tunings, limited : BOOLEAN, references : Tunings,
              seen : UNION {[S -> Int] : S \in SUBSET Loops}]

ControlGraphs ==
    [pending : Seq(Configs), cfg : Configs, references : Tunings,
     runners : [Loops -> Runners], memory : [Loops -> Nat], values : [Loops -> HeldValues]]

\* The loops run with the configuration of the graph.
Configured(g) ==
    /\ g.references = g.cfg.references
    /\ g.runners = [n \in Loops |-> Runner(g, g.cfg, n)]

\* The configuration once what is pending is applied.
NewestTuning(g) == IF g.pending = <<>> THEN g.cfg ELSE g.pending[Len(g.pending)]

\* A loop holds what it computed when it last was due, from what each of its
\* sources held then.
HoldsLast(values, i) ==
    \A n \in Loops :
        /\ values[n].at = LastRun(n, i)
        /\ values[n].at >= began =>
              \A s \in Sources(n) : values[n].seen[s] = LastRun(s, values[n].at)

\* What is left out of a map is computed within it, and nobody reads it before.
MapInv ==
    /\ map.from \in Int /\ map.length \in Int
    /\ map # NoMap => map.from >= began
    /\ \A n \in map.dead : n \in Loops /\ map.length >= Every(n) /\ n \notin Retained

ControlInv ==
    /\ design \in Designs /\ began \in {0, 1} /\ interrupt \in Int /\ interrupt >= began - 1
    /\ latest \in Configs /\ graph \in ControlGraphs
    /\ Configured(graph) /\ NewestTuning(graph) = latest
    /\ HoldsLast(graph.values, interrupt)
    /\ ChangesActTogether
    /\ MapInv

\* The remainder is the one that leaves a multiple.
LEMMA RemainderIs ==
    ASSUME NEW x \in Int, NEW e \in Nat \ {0}, NEW q \in Int, NEW r \in 0 .. e - 1, x = e * q + r
    PROVE  x % e = r
<1>1. PICK p \in Int, s \in 0 .. e - 1 : x = e * p + s /\ x % e = s
  <2>1. x \div e \in Int /\ x % e \in 0 .. e - 1 /\ x = e * (x \div e) + (x % e)
    OBVIOUS
  <2> QED
    BY <2>1
<1>2. e * (q - p) = s - r
  BY <1>1
<1>3. q - p <= 0
  <2> SUFFICES ASSUME q - p >= 1 PROVE FALSE
    BY <1>1
  <2>1. e * (q - p) >= e
    <3> DEFINE d == q - p - 1
    <3>1. d \in Nat /\ q - p = d + 1
      BY <1>1
    <3> HIDE DEF d
    <3>2. e * (d + 1) = e * d + e /\ e * d >= 0 /\ e * d \in Int
      BY <3>1
    <3> QED
      BY <3>1, <3>2
  <2> QED
    BY <1>2, <2>1
<1>4. p - q <= 0
  <2> SUFFICES ASSUME p - q >= 1 PROVE FALSE
    BY <1>1
  <2>1. e * (p - q) >= e
    <3> DEFINE d == p - q - 1
    <3>1. d \in Nat /\ p - q = d + 1
      BY <1>1
    <3> HIDE DEF d
    <3>2. e * (d + 1) = e * d + e /\ e * d >= 0 /\ e * d \in Int
      BY <3>1
    <3> QED
      BY <3>1, <3>2
  <2>2. e * (p - q) = r - s
    BY <1>1
  <2> QED
    BY <2>1, <2>2
<1>5. p = q
  BY <1>1, <1>3, <1>4
<1> QED
  BY <1>1, <1>5

\* From one instant to the next the remainder grows by one, or is nothing.
LEMMA Multiples ==
    ASSUME NEW i \in Int, NEW e \in Nat \ {0}
    PROVE  /\ i % e \in 0 .. e - 1
           /\ (i + 1) % e = 0 \/ (i + 1) % e = (i % e) + 1
<1> DEFINE q == i \div e
           r == i % e
<1>1. q \in Int /\ r \in 0 .. e - 1 /\ i = e * q + r
  OBVIOUS
<1> HIDE DEF q, r
<1>2. CASE r = e - 1
  <2>1. i + 1 = e * (q + 1) + 0 /\ q + 1 \in Int /\ 0 \in 0 .. e - 1 /\ i + 1 \in Int
    BY <1>1, <1>2
  <2>2. (i + 1) % e = 0
    BY <2>1, RemainderIs
  <2> QED
    BY <1>1, <2>2 DEF r
<1>3. CASE r # e - 1
  <2>1. i + 1 = e * q + (r + 1) /\ r + 1 \in 0 .. e - 1 /\ i + 1 \in Int
    BY <1>1, <1>3
  <2>2. (i + 1) % e = r + 1
    BY <1>1, <2>1, RemainderIs
  <2> QED
    BY <1>1, <2>2 DEF r
<1> QED
  BY <1>2, <1>3

\* Multiples of a multiple.
LEMMA MultipleOfMultiple ==
    ASSUME NEW i \in Int, NEW e \in Nat \ {0}, NEW f \in Nat \ {0}, i % e = 0, e % f = 0
    PROVE  i % f = 0
<1>1. PICK q \in Int : i = e * q
  OBVIOUS
<1>2. PICK p \in Int : e = f * p
  OBVIOUS
<1>3. i = f * (p * q) /\ p * q \in Int
  BY <1>1, <1>2
<1> QED
  BY <1>3
\* What is accepted of a design, and the order of its loops.
LEMMA DesignIs ==
    ASSUME design \in Designs
    PROVE  /\ Loops = 1 .. Len(design.sources) /\ Len(design.sources) \in Nat
           /\ \A n \in Loops : Sources(n) \in SUBSET Loops /\ Every(n) \in Nat \ {0}
           /\ \A r \in design.reads : r.loop \in Loops /\ r.stride \in Nat
           /\ Order \in Seq(Loops)
           /\ \A n \in Loops : \E i \in DOMAIN Order : Order[i] = n
           /\ \A i \in DOMAIN Order : \A s \in Sources(Order[i]) :
                 \E j \in DOMAIN Order : j < i /\ Order[j] = s
<1> DEFINE S == design.sources
<1>1. Accepted(design)
  BY DesignAssumption
<1>2. S \in Seq(SUBSET (1 .. Len(S))) /\ design.every \in [1 .. Len(S) -> Nat \ {0}]
      /\ (\A r \in design.reads : r.loop \in 1 .. Len(S) /\ r.stride \in Nat)
      /\ Residual(S) = {}
  BY <1>1 DEF Accepted
<1> HIDE DEF S
<1>3. Len(S) \in Nat /\ S \in [1 .. Len(S) -> SUBSET (1 .. Len(S))] /\ DOMAIN S = 1 .. Len(S)
  BY <1>2
<1>4. IsGraph(S)
  BY <1>3 DEF IsGraph
<1>5. TopologicalOrder(S) \in Seq(DOMAIN S)
      /\ \A i \in DOMAIN TopologicalOrder(S) : \A d \in S[TopologicalOrder(S)[i]] :
            \E j \in DOMAIN TopologicalOrder(S) : j < i /\ TopologicalOrder(S)[j] = d
  BY <1>4, KahnOrder
<1>6. \A n \in DOMAIN S : \E i \in DOMAIN TopologicalOrder(S) : TopologicalOrder(S)[i] = n
  <2>1. DOMAIN S \subseteq ToSet(TopologicalOrder(S))
    BY <1>2 DEF Residual
  <2> QED
    BY <2>1 DEF ToSet
<1> QED
  BY <1>2, <1>3, <1>5, <1>6 DEF S, Loops, Sources, Every, Order

\* The last interrupt at which a loop ran.
LEMMA LastRunIs ==
    ASSUME design \in Designs, began \in {0, 1}, NEW n \in Loops, NEW i \in Int
    PROVE  /\ LastRun(n, i) \in Int /\ LastRun(n, i) >= -1
           /\ i < began => LastRun(n, i) = -1
           /\ n \in DueAt(i) /\ i >= began => LastRun(n, i) = i
           /\ n \notin DueAt(i) => LastRun(n, i) = LastRun(n, i - 1)
           /\ LastRun(n, i) >= began => LastRun(n, i) <= i /\ LastRun(n, i) % Every(n) = 0
           /\ i + 1 - Every(n) >= began => LastRun(n, i) >= i + 1 - Every(n)
<1> DEFINE e == Every(n)
           r == i % e
<1>1. e \in Nat \ {0}
  BY DesignIs
<1>2. r \in 0 .. e - 1
  BY <1>1, Multiples
<1>3. (i - r) % e = 0
  <2> DEFINE q == i \div e
  <2>1. q \in Int /\ i = e * q + r
    <3> HIDE DEF e
    <3> QED
      BY <1>1
  <2> HIDE DEF q, r, e
  <2>2. i - r = e * q + 0 /\ i - r \in Int /\ 0 \in 0 .. e - 1
    BY <1>1, <1>2, <2>1
  <2> QED
    BY <1>1, <2>1, <2>2, RemainderIs
<1>4. r # 0 => (i - 1) - ((i - 1) % e) = i - r
  <2>1. r = 0 \/ r = ((i - 1) % e) + 1
    <3> HIDE DEF e
    <3>1. i - 1 \in Int /\ (i - 1) + 1 = i
      OBVIOUS
    <3> QED
      BY <1>1, <3>1, Multiples
  <2>2. (i - 1) % e \in 0 .. e - 1
    <3> HIDE DEF e
    <3> QED
      BY <1>1, Multiples
  <2> HIDE DEF e, r
  <2> QED
    BY <1>2, <2>1, <2>2
<1>5. LastRun(n, i) = IF i - r >= began THEN i - r ELSE -1
  BY DEF LastRun
<1>6. LastRun(n, i - 1) = IF (i - 1) - ((i - 1) % e) >= began THEN (i - 1) - ((i - 1) % e) ELSE -1
  BY DEF LastRun
<1>7. n \in DueAt(i) <=> r = 0
  BY DEF DueAt
<1> HIDE DEF e, r
<1>8. n \notin DueAt(i) => LastRun(n, i) = LastRun(n, i - 1)
  BY <1>4, <1>5, <1>6, <1>7
<1>9. LastRun(n, i) >= began => LastRun(n, i) % e = 0
  BY <1>3, <1>5
<1> QED
  BY <1>1, <1>2, <1>5, <1>7, <1>8, <1>9 DEF e
\* The graph as it runs with a configuration.
Tuned(g, cfg) ==
    [g EXCEPT !.cfg = cfg, !.references = cfg.references,
              !.runners = [n \in Loops |-> Runner(g, cfg, n)]]

\* A tuned graph runs with its configuration and keeps what the loops hold.
LEMMA TunedIs ==
    ASSUME NEW g \in ControlGraphs, NEW cfg \in Configs
    PROVE  /\ Tuned(g, cfg) \in ControlGraphs /\ Configured(Tuned(g, cfg))
           /\ Tuned(g, cfg).cfg = cfg /\ Tuned(g, cfg).pending = g.pending
           /\ Tuned(g, cfg).memory = g.memory /\ Tuned(g, cfg).values = g.values
<1> DEFINE runners == [n \in Loops |-> Runner(g, cfg, n)]
<1>1. runners \in [Loops -> Runners]
  BY DEF Runner, Configs, Runners
<1>3. runners = [n \in Loops |-> Runner(Tuned(g, cfg), cfg, n)]
  BY DEF Runner
<1>4. Tuned(g, cfg) = [g EXCEPT !.cfg = cfg, !.references = cfg.references, !.runners = runners]
  BY DEF Tuned
<1> HIDE DEF runners
<1>5. Tuned(g, cfg) = [pending |-> g.pending, cfg |-> cfg, references |-> cfg.references,
                       runners |-> runners, memory |-> g.memory, values |-> g.values]
  BY <1>4 DEF ControlGraphs
<1>6. cfg.references \in Tunings
  BY DEF Configs
<1> QED
  BY <1>1, <1>3, <1>5, <1>6 DEF ControlGraphs, Configured

\* A configuration replaces the one before it.
LEMMA TunedAgain ==
    ASSUME NEW g \in ControlGraphs, NEW cfg \in Configs, NEW next \in Configs
    PROVE  Apply(Tuned(g, cfg), next) = Tuned(g, next)
<1> DEFINE h == Tuned(g, cfg)
           changed == {n \in Loops : next.loops[n] # h.cfg.loops[n]}
           mixed == [n \in Loops |-> IF n \in changed THEN Runner(h, next, n) ELSE h.runners[n]]
           runners == [n \in Loops |-> Runner(g, next, n)]
<1>1. h \in ControlGraphs /\ h.cfg = cfg /\ Configured(h)
  BY TunedIs
<1>2. \A n \in Loops : h.runners[n] = Runner(h, cfg, n)
  BY <1>1 DEF Configured
<1>3. ASSUME NEW n \in Loops
      PROVE  mixed[n] = Runner(g, next, n)
  <2>1. CASE n \in changed
    BY <2>1 DEF Runner
  <2>2. CASE n \notin changed
    <3>1. next.loops[n] = cfg.loops[n]
      BY <1>1, <2>2
    <3>2. mixed[n] = Runner(h, cfg, n)
      BY <1>2, <2>2
    <3> QED
      BY <3>1, <3>2 DEF Runner
  <2> QED
    BY <2>1, <2>2
<1>4. mixed = runners
  BY <1>3
<1>5. Apply(h, next) = [h EXCEPT !.cfg = next, !.references = next.references, !.runners = mixed]
  BY DEF Apply, ControlGraphs
<1> QED
  <2> HIDE DEF mixed, runners, changed
  <2>1. Apply(h, next) = [h EXCEPT !.cfg = next, !.references = next.references, !.runners = runners]
    BY <1>4, <1>5
  <2>2. Tuned(g, next) = [g EXCEPT !.cfg = next, !.references = next.references, !.runners = runners]
    BY DEF Tuned, runners
  <2> QED
    BY <2>1, <2>2 DEF Tuned, ControlGraphs

\* A graph that runs with its configuration is tuned to it.
LEMMA TunedToItself ==
    ASSUME NEW g \in ControlGraphs, Configured(g)
    PROVE  Tuned(g, g.cfg) = g
<1>1. [n \in Loops |-> Runner(g, g.cfg, n)] = g.runners /\ g.references = g.cfg.references
  BY DEF Configured
<1> QED
  BY <1>1 DEF Tuned, ControlGraphs

IsAppliedCourse(f, g) ==
    f = [i \in 0 .. Len(g.pending) |-> IF i = 0 THEN g ELSE Apply(f[i - 1], g.pending[i])]

\* What is pending is applied in turn, which leaves the newest configuration.
LEMMA AppliedIs ==
    ASSUME NEW g \in ControlGraphs, Configured(g)
    PROVE  /\ ApplyPending(g) = [Tuned(g, NewestTuning(g)) EXCEPT !.pending = <<>>]
           /\ NewestTuning(g) \in Configs
<1> DEFINE N == Len(g.pending)
           cfg(i) == IF i = 0 THEN g.cfg ELSE g.pending[i]
           closed == [i \in 0 .. N |-> Tuned(g, cfg(i))]
           f == CHOOSE h : IsAppliedCourse(h, g)
<1>1. N \in Nat /\ g.pending \in Seq(Configs) /\ g.cfg \in Configs
  BY DEF ControlGraphs
<1>2. \A i \in 0 .. N : cfg(i) \in Configs
  BY <1>1
<1>3. \A i \in 0 .. N : closed[i] = Tuned(g, cfg(i))
  OBVIOUS
<1>4. ASSUME NEW i \in 0 .. N, i # 0
      PROVE  i - 1 \in 0 .. N /\ Apply(Tuned(g, cfg(i - 1)), g.pending[i]) = Tuned(g, cfg(i))
  <2>1. i - 1 \in 0 .. N /\ cfg(i) = g.pending[i]
    BY <1>1, <1>4
  <2>2. cfg(i) \in Configs /\ cfg(i - 1) \in Configs
    BY <1>2, <2>1
  <2> HIDE DEF cfg
  <2> QED
    BY <2>1, <2>2, TunedAgain
<1>5. Tuned(g, cfg(0)) = g
  BY TunedToItself
<1> HIDE DEF closed, cfg, N
<1>6. ASSUME NEW i \in 0 .. N
      PROVE  closed[i] = IF i = 0 THEN g ELSE Apply(closed[i - 1], g.pending[i])
  BY <1>3, <1>4, <1>5
<1>7. closed = [i \in 0 .. N |-> IF i = 0 THEN g ELSE Apply(closed[i - 1], g.pending[i])]
  BY <1>6 DEF closed
<1>8. IsAppliedCourse(closed, g)
  BY <1>7 DEF IsAppliedCourse, N
<1>9. IsAppliedCourse(f, g)
  BY <1>8
<1>10. ApplyPending(g) = [f[N] EXCEPT !.pending = <<>>]
  BY DEF ApplyPending, IsAppliedCourse, N
<1> HIDE DEF f
<1>11. \A i \in 0 .. N : f[i] = IF i = 0 THEN g ELSE Apply(f[i - 1], g.pending[i])
  BY <1>9 DEF IsAppliedCourse, N
<1> DEFINE P == {i \in 0 .. N : f[i] = Tuned(g, cfg(i))}
<1>12. 0 \in P
  BY <1>1, <1>5, <1>11
<1>13. ASSUME NEW i \in 0 .. N - 1, i \in P
       PROVE  i + 1 \in P
  <2>1. i + 1 \in 0 .. N /\ i + 1 # 0 /\ i + 1 - 1 = i
    BY <1>1
  <2>2. f[i + 1] = Apply(f[i], g.pending[i + 1])
    BY <1>11, <2>1
  <2>3. Apply(Tuned(g, cfg(i)), g.pending[i + 1]) = Tuned(g, cfg(i + 1))
    BY <1>4, <2>1
  <2> QED
    BY <1>13, <2>1, <2>2, <2>3
<1>14. N \in P
  <2> HIDE DEF P
  <2>1. N \in 0 .. N
    BY <1>1
  <2> QED
    BY <1>1, <1>12, <1>13, <2>1, Along
<1>15. f[N] = Tuned(g, cfg(N))
  BY <1>14
<1>16. cfg(N) = NewestTuning(g)
  BY <1>1 DEF cfg, NewestTuning, N
<1>17. cfg(N) \in Configs
  BY <1>1, <1>2
<1> QED
  BY <1>10, <1>15, <1>16, <1>17
\* A held value is of some instant, or of none.
LEMMA HeldInstant ==
    ASSUME NEW v \in HeldValues
    PROVE  v.at \in Int
BY DEF HeldValues

\* The turn of a loop changes the value of this loop only.
LEMMA UpdatedIs ==
    ASSUME design \in Designs, NEW g \in ControlGraphs, NEW n \in Loops, NEW i \in Nat
    PROVE  LET h == Updated(g, n, i) IN
           /\ h \in ControlGraphs
           /\ h.pending = g.pending /\ h.cfg = g.cfg /\ h.references = g.references
           /\ h.runners = g.runners
           /\ h.values[n] = [at |-> i, tuning |-> g.runners[n].tuning,
                             limited |-> g.runners[n].limited, references |-> g.references,
                             seen |-> [s \in Sources(n) |-> g.values[s].at]]
           /\ \A m \in Loops : m # n => h.values[m] = g.values[m]
<1> DEFINE seen == [s \in Sources(n) |-> g.values[s].at]
           new == [at |-> i, tuning |-> g.runners[n].tuning,
                   limited |-> g.runners[n].limited, references |-> g.references,
                   seen |-> seen]
           values == [g.values EXCEPT ![n] = new]
           memory == [g.memory EXCEPT ![n] = @ + 1]
<1>1. Sources(n) \in SUBSET Loops
  BY DesignIs
<1>2. g.values \in [Loops -> HeldValues] /\ g.memory \in [Loops -> Nat] /\ g.runners \in [Loops -> Runners]
      /\ g.references \in Tunings
  BY DEF ControlGraphs
<1>3. \A s \in Sources(n) : g.values[s].at \in Int
  BY <1>1, <1>2, HeldInstant
<1>4. seen \in [Sources(n) -> Int]
  BY <1>3
<1>5. new \in HeldValues
  <2>1. g.runners[n] \in Runners
    BY <1>2
  <2>2. g.runners[n].tuning \in Tunings /\ g.runners[n].limited \in BOOLEAN
    BY <2>1 DEF Runners
  <2>3. seen \in UNION {[S -> Int] : S \in SUBSET Loops}
    BY <1>1, <1>4
  <2> HIDE DEF seen
  <2> QED
    BY <1>2, <2>2, <2>3 DEF HeldValues
<1>6. values \in [Loops -> HeldValues] /\ memory \in [Loops -> Nat]
  <2> HIDE DEF new
  <2> QED
    BY <1>2, <1>5
<1>7. values[n] = new /\ \A m \in Loops : m # n => values[m] = g.values[m]
  <2> HIDE DEF new
  <2> QED
    BY <1>2
<1>8. Updated(g, n, i) = [g EXCEPT !.memory = memory, !.values = values]
  <2>1. Updated(g, n, i) = [g EXCEPT !.memory[n] = @ + 1, !.values[n] = new]
    BY DEF Updated
  <2> HIDE DEF new
  <2> QED
    BY <2>1 DEF ControlGraphs
<1> HIDE DEF values, memory, new
<1>9. Updated(g, n, i) = [pending |-> g.pending, cfg |-> g.cfg, references |-> g.references,
                          runners |-> g.runners, memory |-> memory, values |-> values]
  BY <1>8 DEF ControlGraphs
<1>10. Updated(g, n, i) \in ControlGraphs
  BY <1>6, <1>9 DEF ControlGraphs
<1> QED
  BY <1>7, <1>9, <1>10 DEF new, seen

IsSampleCourse(f, g, i) ==
    f = [n \in 0 .. Len(Order) |->
            IF n = 0 THEN ApplyPending(g)
            ELSE IF Order[n] \in DueAt(i) THEN Updated(f[n - 1], Order[n], i)
            ELSE f[n - 1]]

\* There is a course of turns of the loops.
LEMMA SampleCourseExists ==
    ASSUME design \in Designs, NEW g, ApplyPending(g) \in ControlGraphs, NEW i \in Nat
    PROVE  \E f : IsSampleCourse(f, g, i)
<1> DEFINE N == Len(Order)
           first == ApplyPending(g)
           turn(n, h) == IF Order[n] \in DueAt(i) THEN Updated(h, Order[n], i) ELSE h
           step == [n \in 1 .. N |-> [h \in ControlGraphs |-> turn(n, h)]]
<1>1. N \in Nat /\ \A n \in 1 .. N : Order[n] \in Loops
  BY DesignIs
<1>2. \A n \in 1 .. N, h \in ControlGraphs : turn(n, h) \in ControlGraphs
  BY <1>1, UpdatedIs
<1>3. step \in [1 .. N -> [ControlGraphs -> ControlGraphs]]
      /\ \A n \in 1 .. N, h \in ControlGraphs : step[n][h] = turn(n, h)
  <2> HIDE DEF turn, N
  <2> QED
    BY <1>2
<1> HIDE DEF step, first, N, turn
<1>4. first \in ControlGraphs
  BY DEF first
<1>5. PICK f \in [0 .. N -> ControlGraphs] : IsCourse(f, N, first, step)
  BY <1>1, <1>3, <1>4, CourseExists
<1>6. ASSUME NEW n \in 0 .. N
      PROVE  f[n] = IF n = 0 THEN first ELSE turn(n, f[n - 1])
  <2>1. CASE n = 0
    BY <1>5, <2>1 DEF IsCourse
  <2>2. CASE n # 0
    <3>1. n \in 1 .. N /\ n - 1 \in 0 .. N
      BY <1>1, <2>2
    <3>2. f[n] = step[n][f[n - 1]] /\ f[n - 1] \in ControlGraphs
      BY <1>5, <3>1 DEF IsCourse
    <3> QED
      BY <1>3, <2>2, <3>1, <3>2
  <2> QED
    BY <2>1, <2>2
<1>7. f = [n \in 0 .. N |-> IF n = 0 THEN first ELSE turn(n, f[n - 1])]
  BY <1>5, <1>6
<1> QED
  BY <1>7, Zenon DEF IsSampleCourse, first, N, turn

\* What a loop computes at an interrupt.
ComputedAt(v, g, n, i) ==
    /\ v.at = i /\ v.tuning = g.runners[n].tuning /\ v.limited = g.runners[n].limited
    /\ v.references = g.references
    /\ \A s \in Sources(n) : v.seen[s] = LastRun(s, i)

\* The graph after some of its loops had their turn at an interrupt.
SampledUpTo(h, g, m, i) ==
    /\ h \in ControlGraphs
    /\ h.pending = g.pending /\ h.cfg = g.cfg /\ h.references = g.references
    /\ h.runners = g.runners
    /\ \A n \in Loops :
          IF n \in DueAt(i) /\ \E j \in 1 .. m : Order[j] = n
          THEN ComputedAt(h.values[n], g, n, i)
          ELSE h.values[n] = g.values[n]

\* A loop that has its turn finds what its sources computed when they last
\* were due, as they had theirs before.
LEMMA TurnKeeps ==
    ASSUME design \in Designs, began \in {0, 1}, NEW i \in Nat, i >= began,
           NEW g \in ControlGraphs, \A n \in Loops : g.values[n].at = LastRun(n, i - 1),
           NEW m \in 1 .. Len(Order), NEW h, SampledUpTo(h, g, m - 1, i)
    PROVE  SampledUpTo(IF Order[m] \in DueAt(i) THEN Updated(h, Order[m], i) ELSE h, g, m, i)
<1> DEFINE l == Order[m]
           next == Updated(h, l, i)
           Done(n, j) == \E p \in 1 .. j : Order[p] = n
<1>1. l \in Loops /\ Len(Order) \in Nat /\ m \in DOMAIN Order
      /\ \A s \in Sources(l) : \E j \in 1 .. m - 1 : Order[j] = s
  BY DesignIs
<1>2. \A n \in Loops : Done(n, m) <=> Done(n, m - 1) \/ n = l
  <2>1. m \in 1 .. m /\ 1 .. m = 1 .. m - 1 \cup {m}
    BY <1>1
  <2> QED
    BY <2>1
<1>3. \A s \in Sources(l) : s \in Loops /\ h.values[s].at = LastRun(s, i)
  <2> SUFFICES ASSUME NEW s \in Sources(l) PROVE s \in Loops /\ h.values[s].at = LastRun(s, i)
    OBVIOUS
  <2>1. s \in Loops /\ Done(s, m - 1)
    BY <1>1, DesignIs
  <2>2. CASE s \in DueAt(i)
    <3>1. h.values[s].at = i
      BY <2>1, <2>2 DEF SampledUpTo, ComputedAt
    <3>2. LastRun(s, i) = i
      BY <2>1, <2>2, LastRunIs
    <3> QED
      BY <2>1, <3>1, <3>2
  <2>3. CASE s \notin DueAt(i)
    <3>1. h.values[s] = g.values[s]
      BY <2>1, <2>3 DEF SampledUpTo
    <3>2. LastRun(s, i) = LastRun(s, i - 1)
      BY <2>1, <2>3, LastRunIs
    <3> QED
      BY <2>1, <3>1, <3>2
  <2> QED
    BY <2>2, <2>3
<1> HIDE DEF Done, l
<1>4. CASE l \in DueAt(i)
  <2>1. h \in ControlGraphs /\ h.runners = g.runners /\ h.references = g.references
    BY DEF SampledUpTo
  <2>2. /\ next \in ControlGraphs
        /\ next.pending = h.pending /\ next.cfg = h.cfg /\ next.references = h.references
        /\ next.runners = h.runners
        /\ next.values[l] = [at |-> i, tuning |-> h.runners[l].tuning,
                             limited |-> h.runners[l].limited, references |-> h.references,
                             seen |-> [s \in Sources(l) |-> h.values[s].at]]
        /\ \A n \in Loops : n # l => next.values[n] = h.values[n]
    BY <1>1, <2>1, UpdatedIs
  <2>3. ComputedAt(next.values[l], g, l, i)
    BY <1>3, <2>1, <2>2 DEF ComputedAt
  <2> HIDE DEF next
  <2>4. ASSUME NEW n \in Loops
        PROVE  IF n \in DueAt(i) /\ Done(n, m)
               THEN ComputedAt(next.values[n], g, n, i)
               ELSE next.values[n] = g.values[n]
    <3>1. CASE n = l
      BY <1>2, <1>4, <2>3, <3>1
    <3>2. CASE n # l
      <4>1. next.values[n] = h.values[n] /\ (Done(n, m) <=> Done(n, m - 1))
        BY <1>2, <2>2, <3>2
      <4>2. IF n \in DueAt(i) /\ Done(n, m - 1)
            THEN ComputedAt(h.values[n], g, n, i)
            ELSE h.values[n] = g.values[n]
        BY DEF SampledUpTo, Done
      <4> QED
        BY <4>1, <4>2
    <3> QED
      BY <3>1, <3>2
  <2>5. SampledUpTo(next, g, m, i)
    BY <2>2, <2>4 DEF SampledUpTo, Done
  <2> QED
    BY <1>4, <2>5 DEF l, next
<1>5. CASE l \notin DueAt(i)
  <2>1. ASSUME NEW n \in Loops
        PROVE  IF n \in DueAt(i) /\ Done(n, m)
               THEN ComputedAt(h.values[n], g, n, i)
               ELSE h.values[n] = g.values[n]
    <3>1. n \in DueAt(i) => (Done(n, m) <=> Done(n, m - 1))
      BY <1>2, <1>5
    <3>2. IF n \in DueAt(i) /\ Done(n, m - 1)
          THEN ComputedAt(h.values[n], g, n, i)
          ELSE h.values[n] = g.values[n]
      BY DEF SampledUpTo, Done
    <3> QED
      BY <3>1, <3>2
  <2>2. SampledUpTo(h, g, m, i)
    BY <2>1 DEF SampledUpTo, Done
  <2> QED
    BY <1>5, <2>2 DEF l
<1> QED
  BY <1>4, <1>5
\* What an interrupt makes of the graph: the loops that are due compute with
\* the newest configuration from what their sources hold now.
LEMMA SampledIs ==
    ASSUME design \in Designs, began \in {0, 1}, NEW i \in Nat, i >= began,
           NEW g \in ControlGraphs, Configured(g),
           \A n \in Loops : g.values[n].at = LastRun(n, i - 1)
    PROVE  LET tuned == ApplyPending(g) IN
           /\ SampledUpTo(SampledAt(g, i), tuned, Len(Order), i)
           /\ tuned \in ControlGraphs /\ Configured(tuned)
           /\ tuned.pending = <<>> /\ tuned.cfg = NewestTuning(g) /\ tuned.values = g.values
<1> DEFINE tuned == ApplyPending(g)
           N == Len(Order)
           f == CHOOSE h : IsSampleCourse(h, g, i)
<1>1. N \in Nat
  BY DesignIs
<1>2. /\ tuned \in ControlGraphs /\ Configured(tuned)
      /\ tuned.pending = <<>> /\ tuned.cfg = NewestTuning(g) /\ tuned.values = g.values
  <2>1. tuned = [Tuned(g, NewestTuning(g)) EXCEPT !.pending = <<>>] /\ NewestTuning(g) \in Configs
    BY AppliedIs
  <2> DEFINE h == Tuned(g, NewestTuning(g))
  <2>2. h \in ControlGraphs /\ Configured(h) /\ h.cfg = NewestTuning(g) /\ h.values = g.values
    BY <2>1, TunedIs
  <2> HIDE DEF h, tuned
  <2>3. tuned = [pending |-> <<>>, cfg |-> h.cfg, references |-> h.references,
                 runners |-> h.runners, memory |-> h.memory, values |-> h.values]
    BY <2>1, <2>2 DEF ControlGraphs, h
  <2>4. <<>> \in Seq(Configs)
    OBVIOUS
  <2>5. tuned \in ControlGraphs
    BY <2>2, <2>3, <2>4 DEF ControlGraphs
  <2>6. \A n \in Loops : Runner(tuned, h.cfg, n) = Runner(h, h.cfg, n)
    BY DEF Runner
  <2> QED
    BY <2>2, <2>3, <2>5, <2>6 DEF Configured
<1>3. IsSampleCourse(f, g, i)
  BY <1>2, SampleCourseExists
<1>4. SampledAt(g, i) = f[N]
  BY DEF SampledAt, IsSampleCourse
<1> HIDE DEF f, tuned
<1>5. \A n \in 0 .. N :
         f[n] = IF n = 0 THEN tuned
                ELSE IF Order[n] \in DueAt(i) THEN Updated(f[n - 1], Order[n], i) ELSE f[n - 1]
  BY <1>3 DEF IsSampleCourse, tuned
<1> DEFINE P == {n \in 0 .. N : SampledUpTo(f[n], tuned, n, i)}
<1>6. 0 \in P
  <2>1. f[0] = tuned /\ 0 \in 0 .. N
    BY <1>1, <1>5
  <2>2. SampledUpTo(tuned, tuned, 0, i)
    BY <1>2 DEF SampledUpTo
  <2> QED
    BY <2>1, <2>2
<1>7. ASSUME NEW n \in 0 .. N - 1, n \in P
      PROVE  n + 1 \in P
  <2>1. n + 1 \in 1 .. N /\ n + 1 \in 0 .. N /\ n + 1 # 0 /\ n + 1 - 1 = n
    BY <1>1
  <2>2. f[n + 1] = IF Order[n + 1] \in DueAt(i) THEN Updated(f[n], Order[n + 1], i) ELSE f[n]
    BY <1>5, <2>1
  <2>3. SampledUpTo(f[n], tuned, n + 1 - 1, i)
    BY <1>7, <2>1
  <2>4. \A l \in Loops : tuned.values[l].at = LastRun(l, i - 1)
    BY <1>2
  <2>5. SampledUpTo(f[n + 1], tuned, n + 1, i)
    <3> DEFINE m == n + 1
               h == f[n]
    <3>1. m \in 1 .. Len(Order) /\ SampledUpTo(h, tuned, m - 1, i)
      BY <2>1, <2>3
    <3>2. f[m] = IF Order[m] \in DueAt(i) THEN Updated(h, Order[m], i) ELSE h
      BY <2>2
    <3> HIDE DEF m, h, N, P
    <3>3. SampledUpTo(IF Order[m] \in DueAt(i) THEN Updated(h, Order[m], i) ELSE h, tuned, m, i)
      BY <1>2, <2>4, <3>1, TurnKeeps
    <3>4. SampledUpTo(f[m], tuned, m, i)
      BY <3>2, <3>3
    <3> QED
      BY <3>4 DEF m
  <2> QED
    BY <2>1, <2>5
<1>8. N \in P
  <2> HIDE DEF P, N
  <2>1. N \in 0 .. N
    BY <1>1
  <2> QED
    BY <1>1, <1>6, <1>7, <2>1, Along
<1> QED
  BY <1>2, <1>4, <1>8 DEF tuned

----------------------------------------------------------------------------
\* A graph as built runs with the parameters of the file and holds nothing.
LEMMA BuiltIs ==
    ASSUME design \in Designs
    PROVE  /\ File \in Configs /\ Built(File) \in ControlGraphs /\ Configured(Built(File))
           /\ Built(File).pending = <<>> /\ Built(File).cfg = File
           /\ \A n \in Loops : Built(File).values[n] = [at |-> -1]
<1>1. InFile \in Tunings
  BY DesignAssumption DEF InFile
<1>2. File \in Configs
  BY <1>1 DEF File, Configs
<1> DEFINE runners == [n \in Loops |-> [tuning |-> File.loops[n], limited |-> n = design.limited]]
           memory == [n \in Loops |-> 0]
           values == [n \in Loops |-> [at |-> -1]]
<1>3. runners \in [Loops -> Runners]
  BY <1>2 DEF Configs, Runners
<1>4. memory \in [Loops -> Nat]
  OBVIOUS
<1>5. values \in [Loops -> HeldValues]
  BY DEF HeldValues
<1>6. Built(File) = [pending |-> <<>>, cfg |-> File, references |-> File.references,
                     runners |-> runners, memory |-> memory, values |-> values]
  BY DEF Built
<1>7. File.references \in Tunings /\ <<>> \in Seq(Configs)
  BY <1>2 DEF Configs
<1>8. runners = [n \in Loops |-> Runner(Built(File), File, n)]
  BY DEF Runner
<1>9. \A n \in Loops : values[n] = [at |-> -1]
  OBVIOUS
<1> HIDE DEF runners, memory, values
<1>10. Built(File) \in ControlGraphs
  BY <1>2, <1>3, <1>4, <1>5, <1>6, <1>7 DEF ControlGraphs
<1> QED
  BY <1>2, <1>6, <1>8, <1>9, <1>10 DEF Configured

\* The invariant holds of a graph as built,
LEMMA ControlStarts == ControlInit => ControlInv
<1> SUFFICES ASSUME ControlInit PROVE ControlInv
  OBVIOUS
<1>1. /\ design \in Designs /\ began \in {0, 1} /\ interrupt = began - 1
      /\ latest = File /\ graph = Built(File) /\ map = NoMap
  BY DEF ControlInit
<1>2. /\ File \in Configs /\ graph \in ControlGraphs /\ Configured(graph)
      /\ graph.pending = <<>> /\ graph.cfg = File
      /\ \A n \in Loops : graph.values[n] = [at |-> -1]
  BY <1>1, BuiltIs
<1>3. NewestTuning(graph) = latest
  BY <1>1, <1>2 DEF NewestTuning
<1>4. HoldsLast(graph.values, interrupt)
  <2>1. \A n \in Loops : LastRun(n, interrupt) = -1
    BY <1>1, LastRunIs
  <2> QED
    BY <1>1, <1>2, <2>1 DEF HoldsLast
<1>5. ChangesActTogether
  BY <1>1 DEF ChangesActTogether
<1>6. MapInv
  BY <1>1 DEF MapInv, NoMap
<1> QED
  BY <1>1, <1>2, <1>3, <1>4, <1>5, <1>6 DEF ControlInv

\* where changes are queued,
LEMMA ControlSet == ASSUME ControlInv, Set PROVE ControlInv'
<1>1. PICK tuning \in Tunings :
         \/ latest' = [latest EXCEPT !.references = tuning]
         \/ \E n \in Loops : latest' = [latest EXCEPT !.loops[n] = tuning]
  BY DEF Set
<1>2. latest \in Configs /\ graph \in ControlGraphs
  BY DEF ControlInv
<1>3. latest' \in Configs
  BY <1>1, <1>2 DEF Configs
<1>4. graph' = [graph EXCEPT !.pending = Append(@, latest')]
      /\ UNCHANGED <<design, interrupt, map, began, inforce>>
  BY DEF Set
<1> DEFINE pending == Append(graph.pending, latest')
<1>5. graph.pending \in Seq(Configs)
  BY <1>2 DEF ControlGraphs
<1>6. pending \in Seq(Configs) /\ pending # <<>> /\ pending[Len(pending)] = latest'
  BY <1>3, <1>5
<1> HIDE DEF pending
<1>7. graph' = [pending |-> pending, cfg |-> graph.cfg, references |-> graph.references,
                runners |-> graph.runners, memory |-> graph.memory, values |-> graph.values]
  BY <1>2, <1>4 DEF ControlGraphs, pending
<1>8. UNCHANGED <<design, interrupt, map, began, inforce>> /\ design' = design
  BY <1>4
<1>9. (graph \in ControlGraphs)'
  BY <1>2, <1>6, <1>7, <1>8 DEF ControlGraphs, Loops, Configs, HeldValues
<1>10. Configured(graph)'
  BY <1>7, <1>8 DEF ControlInv, Configured, Runner, Loops
<1>11. (NewestTuning(graph) = latest)'
  BY <1>6, <1>7 DEF NewestTuning
<1>12. HoldsLast(graph.values, interrupt)'
  BY <1>7, <1>8 DEF ControlInv, HoldsLast, Loops, Sources, LastRun, Every
<1>13. ChangesActTogether'
  BY <1>7, <1>8 DEF ControlInv, ChangesActTogether, DueAt, Every, Loops
<1>14. MapInv'
  BY <1>8 DEF ControlInv, MapInv, Loops, Every, Retained, ReadAfterUpdate, Sources
<1>15. (latest \in Configs)'
  BY <1>3, <1>8 DEF Configs, Loops
<1> QED
  BY <1>8, <1>9, <1>10, <1>11, <1>12, <1>13, <1>14, <1>15 DEF ControlInv
\* at every interrupt,
LEMMA ControlSample == ASSUME ControlInv, Sample PROVE ControlInv'
<1> DEFINE i == interrupt + 1
           tuned == ApplyPending(graph)
<1>1. /\ interrupt' = i /\ graph' = SampledAt(graph, i) /\ inforce' = latest
      /\ UNCHANGED <<design, latest, sets, map, began>>
  BY DEF Sample
<1>2. /\ design \in Designs /\ began \in {0, 1} /\ i \in Nat /\ i >= began /\ i - 1 = interrupt
      /\ graph \in ControlGraphs /\ Configured(graph) /\ NewestTuning(graph) = latest
      /\ latest \in Configs
  BY DEF ControlInv
<1>3. \A n \in Loops : graph.values[n].at = LastRun(n, i - 1)
  BY <1>2 DEF ControlInv, HoldsLast
<1> HIDE DEF i, tuned
<1>4. /\ SampledUpTo(graph', tuned, Len(Order), i)
      /\ tuned \in ControlGraphs /\ Configured(tuned)
      /\ tuned.pending = <<>> /\ tuned.cfg = latest /\ tuned.values = graph.values
  BY <1>1, <1>2, <1>3, SampledIs DEF tuned
<1>5. \A n \in Loops : \E j \in 1 .. Len(Order) : Order[j] = n
  <2>1. Order \in Seq(Loops) /\ \A n \in Loops : \E j \in DOMAIN Order : Order[j] = n
    BY <1>2, DesignIs
  <2>2. DOMAIN Order = 1 .. Len(Order)
    BY <2>1
  <2> QED
    BY <2>1, <2>2
<1>6. /\ graph' \in ControlGraphs /\ graph'.pending = <<>> /\ graph'.cfg = latest
      /\ graph'.references = tuned.references /\ graph'.runners = tuned.runners
      /\ \A n \in Loops :
            /\ n \in DueAt(i) => ComputedAt(graph'.values[n], tuned, n, i)
            /\ n \notin DueAt(i) => graph'.values[n] = graph.values[n]
  BY <1>4, <1>5 DEF SampledUpTo
<1>7. (graph \in ControlGraphs)'
  BY <1>1, <1>6 DEF ControlGraphs, Loops, Configs, HeldValues
<1>8. Configured(graph)'
  BY <1>1, <1>4, <1>6 DEF Configured, Runner, Loops
<1>9. (NewestTuning(graph) = latest)'
  BY <1>1, <1>6 DEF NewestTuning
<1>10. ASSUME NEW n \in Loops
       PROVE  /\ graph'.values[n].at = LastRun(n, i)
              /\ graph'.values[n].at >= began =>
                    \A s \in Sources(n) :
                       graph'.values[n].seen[s] = LastRun(s, graph'.values[n].at)
  <2>1. CASE n \in DueAt(i)
    <3>1. LastRun(n, i) = i
      BY <1>2, <2>1, LastRunIs
    <3> QED
      BY <1>6, <2>1, <3>1 DEF ComputedAt
  <2>2. CASE n \notin DueAt(i)
    <3>1. LastRun(n, i) = LastRun(n, i - 1)
      BY <1>2, <2>2, LastRunIs
    <3>2. graph'.values[n] = graph.values[n]
      BY <1>6, <2>2
    <3> QED
      BY <1>3, <3>1, <3>2 DEF ControlInv, HoldsLast
  <2> QED
    BY <2>1, <2>2
<1>11. HoldsLast(graph.values, interrupt)'
  BY <1>1, <1>10 DEF HoldsLast, Loops, Sources, LastRun, Every
<1>12. ASSUME NEW n \in DueAt(i)
       PROVE  /\ graph'.values[n].tuning = latest.loops[n]
              /\ graph'.values[n].references = latest.references
              /\ graph'.values[n].limited = (n = design.limited)
  <2>1. n \in Loops /\ ComputedAt(graph'.values[n], tuned, n, i)
    BY <1>6 DEF DueAt
  <2>2. tuned.runners[n] = [tuning |-> latest.loops[n], limited |-> n = design.limited]
    BY <1>4, <2>1 DEF Configured, Runner
  <2>3. tuned.references = latest.references
    BY <1>4 DEF Configured
  <2>4. graph'.values[n].tuning = latest.loops[n]
    BY <2>1, <2>2 DEF ComputedAt
  <2>5. graph'.values[n].references = latest.references
    BY <2>1, <2>3 DEF ComputedAt
  <2>6. graph'.values[n].limited = tuned.runners[n].limited
    BY <2>1 DEF ComputedAt
  <2>7. tuned.runners[n].limited = (n = design.limited)
    BY <2>2
  <2>8. graph'.values[n].limited = (n = design.limited)
    BY <2>6, <2>7
  <2> QED
    BY <2>4, <2>5, <2>8
<1>13. ChangesActTogether'
  BY <1>1, <1>12, Zenon DEF ChangesActTogether, DueAt, Every, Loops
<1>14. MapInv'
  BY <1>1 DEF ControlInv, MapInv, Loops, Every, Retained, ReadAfterUpdate, Sources
<1>15. (latest \in Configs)'
  BY <1>1, <1>2 DEF Configs, Loops
<1>16. interrupt' \in Int /\ interrupt' >= began' - 1
  BY <1>1, <1>2
<1> QED
  BY <1>1, <1>2, <1>7, <1>8, <1>9, <1>11, <1>13, <1>14, <1>15, <1>16 DEF ControlInv

\* where a map is taken,
LEMMA ControlTakeMap == ASSUME ControlInv, TakeMap PROVE ControlInv'
<1>1. PICK length \in Periods :
         map' = [from |-> interrupt + 1, length |-> length, dead |-> Overwritten(length)]
  BY DEF TakeMap
<1>2. UNCHANGED <<design, interrupt, graph, latest, sets, began, inforce>>
  BY DEF TakeMap
<1>3. Overwritten(length) \subseteq {n \in Loops : length >= Every(n)} \ Retained
  BY DEF Overwritten
<1>4. length \in Int /\ interrupt + 1 \in Int /\ interrupt + 1 >= began
  BY DesignAssumption DEF ControlInv
<1>5. /\ map'.from \in Int /\ map'.length \in Int /\ map'.from >= began
      /\ \A n \in map'.dead : n \in Loops /\ map'.length >= Every(n) /\ n \notin Retained
  BY <1>1, <1>3, <1>4
<1>6. MapInv'
  BY <1>2, <1>5 DEF MapInv, Loops, Every, Retained, ReadAfterUpdate, Sources
<1>7. (latest \in Configs)' /\ (graph \in ControlGraphs)'
  BY <1>2 DEF ControlInv, Configs, ControlGraphs, HeldValues, Loops
<1>8. Configured(graph)' /\ (NewestTuning(graph) = latest)'
  BY <1>2 DEF ControlInv, Configured, Runner, Loops, NewestTuning
<1>9. HoldsLast(graph.values, interrupt)'
  BY <1>2 DEF ControlInv, HoldsLast, Loops, Sources, LastRun, Every
<1>10. ChangesActTogether'
  BY <1>2 DEF ControlInv, ChangesActTogether, DueAt, Every, Loops
<1> QED
  BY <1>2, <1>6, <1>7, <1>8, <1>9, <1>10 DEF ControlInv

\* A run that continues builds the graph that runs with the newest parameters.
LEMMA ReplayIs ==
    ASSUME ControlInv
    PROVE  LET next == [Replay EXCEPT !.memory = graph.memory, !.values = graph.values] IN
           /\ next = ApplyPending(graph)
           /\ next \in ControlGraphs /\ Configured(next) /\ NewestTuning(next) = latest
           /\ next.values = graph.values
<1> DEFINE built == [Built(File) EXCEPT !.pending = <<latest>>]
           runners == [n \in Loops |-> Runner(graph, latest, n)]
           next == [Replay EXCEPT !.memory = graph.memory, !.values = graph.values]
           whole == [pending |-> <<>>, cfg |-> latest, references |-> latest.references,
                     runners |-> runners, memory |-> graph.memory, values |-> graph.values]
<1>1. /\ design \in Designs /\ latest \in Configs /\ graph \in ControlGraphs
      /\ Configured(graph) /\ NewestTuning(graph) = latest
  BY DEF ControlInv
<1>2. /\ File \in Configs /\ Built(File) \in ControlGraphs /\ Configured(Built(File))
      /\ Built(File).cfg = File
  BY <1>1, BuiltIs
<1>3. <<latest>> \in Seq(Configs) /\ <<latest>> # <<>> /\ <<latest>>[Len(<<latest>>)] = latest
  BY <1>1
<1> DEFINE b == Built(File)
<1>0. b \in ControlGraphs /\ built = [b EXCEPT !.pending = <<latest>>]
  BY <1>2
<1> HIDE DEF b, built
<1>4. built = [pending |-> <<latest>>, cfg |-> b.cfg, references |-> b.references,
               runners |-> b.runners, memory |-> b.memory, values |-> b.values]
  BY <1>0 DEF ControlGraphs
<1> HIDE DEF built
<1>5. built \in ControlGraphs
  BY <1>2, <1>3, <1>4 DEF ControlGraphs, b
<1>6. Configured(built)
  BY <1>2, <1>4 DEF Configured, Runner, b
<1>7. NewestTuning(built) = latest
  BY <1>3, <1>4 DEF NewestTuning
<1>8. ApplyPending(built) = [Tuned(built, latest) EXCEPT !.pending = <<>>]
  BY <1>5, <1>6, <1>7, AppliedIs
<1>9. ApplyPending(graph) = [Tuned(graph, latest) EXCEPT !.pending = <<>>]
  BY <1>1, AppliedIs
<1>10. [n \in Loops |-> Runner(built, latest, n)] = runners
  BY DEF Runner
<1>11. Tuned(built, latest) = [built EXCEPT !.cfg = latest, !.references = latest.references,
                                            !.runners = runners]
  BY <1>10 DEF Tuned
<1>12. Tuned(graph, latest) = [graph EXCEPT !.cfg = latest, !.references = latest.references,
                                            !.runners = runners]
  BY DEF Tuned
<1>13. runners \in [Loops -> Runners]
  BY <1>1 DEF Configs, Runners, Runner
<1> HIDE DEF runners
<1>22. Replay = ApplyPending(built)
  BY DEF Replay, built
<1>14. Replay = [pending |-> <<>>, cfg |-> latest, references |-> latest.references,
                 runners |-> runners, memory |-> built.memory, values |-> built.values]
  BY <1>5, <1>8, <1>11, <1>22 DEF ControlGraphs
<1>23. latest.references \in Tunings /\ <<>> \in Seq(Configs)
  BY <1>1 DEF Configs
<1>24. Replay \in ControlGraphs
  BY <1>1, <1>5, <1>13, <1>14, <1>23 DEF ControlGraphs
<1>15. next = whole
  <2> DEFINE r == Replay
  <2>1. next = [r EXCEPT !.memory = graph.memory, !.values = graph.values] /\ r \in ControlGraphs
    BY <1>24
  <2>2. /\ r.pending = <<>> /\ r.cfg = latest /\ r.references = latest.references
        /\ r.runners = runners
    BY <1>14
  <2> HIDE DEF r, next
  <2> QED
    BY <2>1, <2>2 DEF ControlGraphs
<1>16. ApplyPending(graph) = whole
  BY <1>1, <1>9, <1>12 DEF ControlGraphs
<1>18. whole \in ControlGraphs
  BY <1>1, <1>13, <1>23 DEF ControlGraphs
<1>19. Configured(whole)
  BY DEF Configured, Runner, runners
<1>20. NewestTuning(whole) = latest
  BY DEF NewestTuning
<1>21. whole.values = graph.values
  OBVIOUS
<1> HIDE DEF whole, next
<1> QED
  BY <1>15, <1>16, <1>18, <1>19, <1>20, <1>21 DEF next

\* where a run continues from a row,
LEMMA ControlContinue == ASSUME ControlInv, Continue PROVE ControlInv'
<1> DEFINE next == [Replay EXCEPT !.memory = graph.memory, !.values = graph.values]
<1>1. /\ graph' = next /\ map' = NoMap
      /\ UNCHANGED <<design, interrupt, latest, sets, began, inforce>>
  BY DEF Continue
<1>2. /\ next \in ControlGraphs /\ Configured(next) /\ NewestTuning(next) = latest
      /\ next.values = graph.values
  BY ReplayIs
<1> HIDE DEF next
<1>3. (graph \in ControlGraphs)'
  BY <1>1, <1>2 DEF ControlGraphs, Loops, Configs, HeldValues
<1>4. Configured(graph)'
  BY <1>1, <1>2 DEF Configured, Runner, Loops
<1>5. (NewestTuning(graph) = latest)'
  BY <1>1, <1>2 DEF NewestTuning
<1>6. graph'.values = graph.values
  BY <1>1, <1>2
<1>7. HoldsLast(graph.values, interrupt)'
  BY <1>1, <1>6 DEF ControlInv, HoldsLast, Loops, Sources, LastRun, Every
<1>8. ChangesActTogether'
  BY <1>1, <1>6 DEF ControlInv, ChangesActTogether, DueAt, Every, Loops
<1>9. MapInv'
  BY <1>1 DEF MapInv, NoMap
<1>10. (latest \in Configs)'
  BY <1>1 DEF ControlInv, Configs, Loops
<1> QED
  BY <1>1, <1>3, <1>4, <1>5, <1>7, <1>8, <1>9, <1>10 DEF ControlInv

\* and where nothing happens.
LEMMA ControlStutters == ASSUME ControlInv, UNCHANGED controlVars PROVE ControlInv'
<1>1. UNCHANGED <<design, interrupt, graph, latest, map, began, inforce>>
  BY DEF controlVars
<1>2. MapInv'
  BY <1>1 DEF ControlInv, MapInv, Loops, Every, Retained, ReadAfterUpdate, Sources
<1>3. (latest \in Configs)' /\ (graph \in ControlGraphs)'
  BY <1>1 DEF ControlInv, Configs, ControlGraphs, HeldValues, Loops
<1>4. Configured(graph)' /\ (NewestTuning(graph) = latest)'
  BY <1>1 DEF ControlInv, Configured, Runner, Loops, NewestTuning
<1>5. HoldsLast(graph.values, interrupt)'
  BY <1>1 DEF ControlInv, HoldsLast, Loops, Sources, LastRun, Every
<1>6. ChangesActTogether'
  BY <1>1 DEF ControlInv, ChangesActTogether, DueAt, Every, Loops
<1> QED
  BY <1>1, <1>2, <1>3, <1>4, <1>5, <1>6 DEF ControlInv

\* A loop holds what it computed when it last was due, and the graph is always
\* tuned, up to what is pending, to the parameters in effect.
THEOREM ControlIsInductive == ControlSpec => []ControlInv
<1>1. ControlInit => ControlInv
  BY ControlStarts
<1>2. ControlInv /\ [ControlNext]_controlVars => ControlInv'
  BY ControlSet, ControlSample, ControlTakeMap, ControlContinue, ControlStutters DEF ControlNext
<1> QED
  BY <1>1, <1>2, PTL DEF ControlSpec

\* At an interrupt the last instant of a loop that is due is this one.
LEMMA InputsNewest == ControlInv => InputsAreNewest
<1> SUFFICES ASSUME ControlInv, NEW n \in DueAt(interrupt), interrupt >= began
             PROVE  /\ graph.values[n].at = interrupt
                    /\ \A s \in Sources(n) : graph.values[n].seen[s] = LastRun(s, interrupt)
  BY DEF InputsAreNewest
<1>1. n \in Loops /\ design \in Designs /\ began \in {0, 1} /\ interrupt \in Int
  BY DEF ControlInv, DueAt
<1>2. LastRun(n, interrupt) = interrupt
  BY <1>1, LastRunIs
<1> QED
  BY <1>1, <1>2 DEF ControlInv, HoldsLast

\* Whatever the network, the strides and the changes: a loop that runs uses
\* what its sources computed when they last were due, and the parameters in
\* effect at its interrupt.
THEOREM LoopsAlwaysRunOnPresent == ControlSpec => []LoopsRunOnPresent
<1>1. ControlInv => LoopsRunOnPresent
  BY InputsNewest DEF ControlInv, LoopsRunOnPresent
<1> QED
  BY <1>1, ControlIsInductive, PTL

\* A source that nobody reads before its update runs where its readers run.
LEMMA DeadAreOverwritten == ControlInv => OverwrittenAreDead
<1> SUFFICES ASSUME ControlInv, map # NoMap PROVE OverwrittenAreDead
  BY DEF OverwrittenAreDead
<1>1. /\ design \in Designs /\ began \in {0, 1} /\ interrupt \in Int
      /\ map.from \in Int /\ map.length \in Int /\ map.from >= began
      /\ \A n \in map.dead : n \in Loops /\ map.length >= Every(n) /\ n \notin Retained
      /\ HoldsLast(graph.values, interrupt)
  BY DEF ControlInv, MapInv
<1>2. \A n \in Loops : Every(n) \in Nat \ {0} /\ Sources(n) \in SUBSET Loops
  BY <1>1, DesignIs
<1>3. ASSUME NEW n \in Loops, graph.values[n].at >= map.from, NEW s \in Sources(n) \cap map.dead
      PROVE  graph.values[n].seen[s] >= map.from
  <2> DEFINE at == graph.values[n].at
  <2>1. s \in Loops /\ s \in Sources(n) /\ s \notin Retained
    BY <1>1
  <2>2. ReadAfterUpdate(Every(n), s)
    BY <2>1 DEF Retained
  <2>3. at = LastRun(n, interrupt) /\ LastRun(n, interrupt) \in Int
    BY <1>1, LastRunIs DEF HoldsLast
  <2>4. at >= began
    BY <1>1, <1>3, <2>3
  <2>5. at % Every(n) = 0 /\ graph.values[n].seen[s] = LastRun(s, at)
    BY <1>1, <2>1, <2>3, <2>4, LastRunIs DEF HoldsLast
  <2> HIDE DEF at
  <2>6. at % Every(s) = 0
    BY <1>2, <2>1, <2>2, <2>3, <2>5, MultipleOfMultiple DEF ReadAfterUpdate
  <2>7. LastRun(s, at) = at
    BY <1>1, <2>1, <2>3, <2>4, <2>6, LastRunIs DEF DueAt
  <2> QED
    BY <1>3, <2>5, <2>7 DEF at
<1>4. ASSUME NEW r \in design.reads, interrupt >= map.from, r.stride > 0,
             interrupt % r.stride = 0, r.loop \in map.dead
      PROVE  graph.values[r.loop].at >= map.from
  <2>1. r.loop \in Loops /\ r.stride \in Nat \ {0} /\ r.loop \notin Retained
    BY <1>1, <1>4, DesignIs
  <2>2. r.stride % Every(r.loop) = 0
    BY <2>1 DEF Retained, ReadAfterUpdate
  <2>3. interrupt % Every(r.loop) = 0
    BY <1>1, <1>2, <1>4, <2>1, <2>2, MultipleOfMultiple
  <2>4. LastRun(r.loop, interrupt) = interrupt
    BY <1>1, <1>4, <2>1, <2>3, LastRunIs DEF DueAt
  <2> QED
    BY <1>1, <1>4, <2>1, <2>4 DEF HoldsLast
<1>5. ASSUME interrupt + 1 >= map.from + map.length, NEW n \in map.dead
      PROVE  graph.values[n].at >= map.from
  <2>1. n \in Loops /\ map.length >= Every(n)
    BY <1>1
  <2>2. interrupt + 1 - Every(n) >= map.from
    BY <1>1, <1>2, <1>5, <2>1
  <2>3. LastRun(n, interrupt) >= interrupt + 1 - Every(n) /\ LastRun(n, interrupt) \in Int
    BY <1>1, <1>2, <2>1, <2>2, LastRunIs
  <2> QED
    BY <1>1, <1>2, <2>1, <2>2, <2>3 DEF HoldsLast
<1> QED
  BY <1>3, <1>4, <1>5 DEF OverwrittenAreDead

\* What the closed-loop map leaves out is computed within the map before
\* anything reads it, for every network and length.
THEOREM OverwrittenStayDead == ControlSpec => []OverwrittenAreDead
BY DeadAreOverwritten, ControlIsInductive, PTL

\* A run that continues from a row has the loops of the run that wrote it.
THEOREM ControlContinues == ControlSpec => ContinuesControl
<1>1. ControlInv /\ [ControlNext]_controlVars => [Continue => graph' = ApplyPending(graph)]_controlVars
  <2> SUFFICES ASSUME ControlInv, Continue PROVE graph' = ApplyPending(graph)
    OBVIOUS
  <2> QED
    BY ReplayIs DEF Continue
<1> QED
  BY <1>1, ControlIsInductive, PTL DEF ControlSpec, ContinuesControl
----------------------------------------------------------------------------
(***************************************************************************)
(* What a set of nodes needs.                                              *)
(***************************************************************************)
\* A set with all that its members depend on.
Supplied(deps, S) == \A i \in S : deps[i] \subseteq S

IsClosureCourse(f, seeds, deps) ==
    f = [k \in 0 .. Len(deps) |->
            IF k = 0 THEN seeds
            ELSE LET before == f[k - 1] IN before \cup UNION {deps[i] : i \in before}]

LEMMA ClosureCourseExists ==
    ASSUME NEW deps, IsGraph(deps), NEW seeds \in SUBSET DOMAIN deps
    PROVE  \E f : IsClosureCourse(f, seeds, deps)
<1> DEFINE N == Len(deps)
           S == SUBSET DOMAIN deps
           More(A) == A \cup UNION {deps[i] : i \in A}
           step == [n \in 1 .. N |-> [A \in S |-> More(A)]]
<1>1. N \in Nat /\ \A i \in DOMAIN deps : deps[i] \subseteq DOMAIN deps
  BY DEF IsGraph
<1>2. seeds \in S
  OBVIOUS
<1>3. \A A \in S : More(A) \in S
  BY <1>1
<1> HIDE DEF S, More
<1>4. step \in [1 .. N -> [S -> S]] /\ \A n \in 1 .. N, A \in S : step[n][A] = More(A)
  BY <1>3
<1> HIDE DEF step, N
<1>5. PICK f \in [0 .. N -> S] : IsCourse(f, N, seeds, step)
  BY <1>1, <1>2, <1>4, CourseExists
<1>6. ASSUME NEW n \in 0 .. N
      PROVE  f[n] = IF n = 0 THEN seeds ELSE More(f[n - 1])
  <2>1. CASE n = 0
    BY <1>5, <2>1 DEF IsCourse
  <2>2. CASE n # 0
    <3>1. n \in 1 .. N /\ n - 1 \in 0 .. N
      BY <1>1, <2>2
    <3>2. f[n] = step[n][f[n - 1]] /\ f[n - 1] \in S
      BY <1>5, <3>1 DEF IsCourse
    <3> QED
      BY <1>4, <2>2, <3>1, <3>2
  <2> QED
    BY <2>1, <2>2
<1>7. f = [n \in 0 .. N |-> IF n = 0 THEN seeds ELSE More(f[n - 1])]
  BY <1>5, <1>6
<1> QED
  BY <1>7 DEF IsClosureCourse, N, More

\* The closure is the least set with the seeds and all it depends on.
LEMMA ClosureIs ==
    ASSUME NEW deps, IsGraph(deps), NEW seeds \in SUBSET DOMAIN deps
    PROVE  LET C == Closure(seeds, deps)
           IN  /\ seeds \subseteq C /\ C \in SUBSET DOMAIN deps /\ Supplied(deps, C)
               /\ \A S \in SUBSET DOMAIN deps : seeds \subseteq S /\ Supplied(deps, S) => C \subseteq S
<1> DEFINE N == Len(deps)
           V == DOMAIN deps
           f == CHOOSE g : IsClosureCourse(g, seeds, deps)
           More(A) == A \cup UNION {deps[i] : i \in A}
           Within(A) == \A S \in SUBSET V : seeds \subseteq S /\ Supplied(deps, S) => A \subseteq S
           P == {n \in 0 .. N : /\ seeds \subseteq f[n] /\ f[n] \in SUBSET V /\ Within(f[n])
                                /\ Supplied(deps, f[n]) \/ Cardinality(f[n]) >= n}
<1>1. /\ N \in Nat /\ V = 1 .. N /\ IsFiniteSet(V) /\ Cardinality(V) = N
      /\ \A i \in V : deps[i] \subseteq V
  <2>1. N \in Nat /\ V = 1 .. N /\ \A i \in V : deps[i] \subseteq V
    BY DEF IsGraph
  <2> HIDE DEF N, V, f, More, Within, P
  <2>2. IsFiniteSet(1 .. N) /\ Cardinality(1 .. N) = N
    BY <2>1, FS_Interval
  <2> QED
    BY <2>1, <2>2
<1>2. IsClosureCourse(f, seeds, deps)
  BY ClosureCourseExists
<1>3. Closure(seeds, deps) = f[N]
  BY DEF Closure, IsClosureCourse
<1> HIDE DEF f
<1>4. \A n \in 0 .. N : f[n] = IF n = 0 THEN seeds ELSE More(f[n - 1])
  BY <1>2 DEF IsClosureCourse
<1> HIDE DEF More
<1>5. 0 \in P
  <2>1. f[0] = seeds /\ 0 \in 0 .. N
    BY <1>1, <1>4
  <2>2. Cardinality(seeds) >= 0
    BY <1>1, FS_Subset, FS_CardinalityType
  <2> QED
    BY <2>1, <2>2
<1> HIDE DEF N, V
<1>6. ASSUME NEW n \in 0 .. N - 1, n \in P
      PROVE  n + 1 \in P
  <2> DEFINE A == f[n]
             B == f[n + 1]
  <2>1. n + 1 \in 0 .. N /\ n + 1 # 0 /\ n + 1 - 1 = n /\ n \in Nat
    BY <1>1
  <2>2. B = More(A)
    BY <1>4, <2>1
  <2>3. seeds \subseteq A /\ A \in SUBSET V /\ Within(A) /\ (Supplied(deps, A) \/ Cardinality(A) >= n)
    BY <1>6
  <2> HIDE DEF A, B
  <2>4. A \subseteq B /\ B \in SUBSET V
    BY <1>1, <2>2, <2>3 DEF More
  <2>5. Within(B)
    BY <2>2, <2>3 DEF Supplied, More
  <2>6. CASE Supplied(deps, A)
    <3>1. B = A
      BY <2>2, <2>6 DEF Supplied, More
    <3> QED
      BY <2>1, <2>3, <2>6, <3>1 DEF A, B
  <2>7. CASE ~Supplied(deps, A) /\ Cardinality(A) >= n
    <3>1. B # A
      BY <2>2, <2>7 DEF Supplied, More
    <3>2. IsFiniteSet(B) /\ IsFiniteSet(A)
      BY <1>1, <2>3, <2>4, FS_Subset
    <3>3. Cardinality(A) \in Nat /\ Cardinality(B) \in Nat
      BY <3>2, FS_CardinalityType
    <3>4. Cardinality(A) <= Cardinality(B) /\ (Cardinality(A) = Cardinality(B) => A = B)
      BY <2>4, <3>2, FS_Subset
    <3>5. Cardinality(B) >= n + 1
      BY <2>1, <2>7, <3>1, <3>3, <3>4
    <3>6. seeds \subseteq B
      BY <2>3, <2>4
    <3> QED
      BY <2>1, <2>4, <2>5, <3>5, <3>6 DEF B
  <2> QED
    BY <2>3, <2>6, <2>7
<1>7. N \in P
  <2> HIDE DEF P
  <2>1. \A n \in 0 .. N : n \in P
    BY <1>1, <1>5, <1>6, Along
  <2> QED
    BY <2>1, <1>1
<1> DEFINE C == f[N]
<1>8. /\ seeds \subseteq C /\ C \in SUBSET V /\ Within(C)
      /\ Supplied(deps, C) \/ Cardinality(C) >= N
  BY <1>7
<1> HIDE DEF C
<1>9. Supplied(deps, C)
  <2> SUFFICES ASSUME Cardinality(C) >= N
               PROVE  Supplied(deps, C)
    BY <1>8
  <2>1. IsFiniteSet(C) /\ Cardinality(C) <= N /\ (Cardinality(C) = N => C = V)
    BY <1>1, <1>8, FS_Subset
  <2>2. Cardinality(C) \in Nat
    BY <2>1, FS_CardinalityType
  <2>3. C = V
    BY <1>1, <2>1, <2>2
  <2> QED
    BY <1>1, <2>3 DEF Supplied
<1> QED
  BY <1>3, <1>8, <1>9 DEF C, V

\* What a change reaches, in terms of what leads on.
LEMMA BehindIs ==
    ASSUME NEW deps, IsGraph(deps), NEW nodes \in SUBSET DOMAIN deps
    PROVE  /\ nodes \subseteq Behind(deps, nodes) /\ Behind(deps, nodes) \in SUBSET DOMAIN deps
           /\ \A m \in DOMAIN deps : deps[m] \cap Behind(deps, nodes) # {} => m \in Behind(deps, nodes)
           /\ \A S \in SUBSET DOMAIN deps :
                 /\ nodes \subseteq S
                 /\ \A m \in DOMAIN deps : deps[m] \cap S # {} => m \in S
                 => Behind(deps, nodes) \subseteq S
<1> DEFINE V == DOMAIN deps
           back == Successors(deps)
           B == Behind(deps, nodes)
<1>1. IsGraph(back) /\ DOMAIN back = V /\ \A i, j \in V : i \in back[j] <=> j \in deps[i]
  BY SuccessorsAre
<1>2. /\ \A i \in V : deps[i] \subseteq V /\ back[i] \subseteq V
  BY <1>1 DEF IsGraph
<1>3. B = Closure(nodes, back)
  BY DEF Behind
<1> HIDE DEF back, B
<1>4. /\ nodes \subseteq B /\ B \in SUBSET V /\ Supplied(back, B)
      /\ \A S \in SUBSET V : nodes \subseteq S /\ Supplied(back, S) => B \subseteq S
  BY <1>1, <1>3, ClosureIs
<1>5. \A S \in SUBSET V : Supplied(back, S) <=> \A m \in V : deps[m] \cap S # {} => m \in S
  <2> SUFFICES ASSUME NEW S \in SUBSET V
               PROVE  Supplied(back, S) <=> \A m \in V : deps[m] \cap S # {} => m \in S
    OBVIOUS
  <2>1. Supplied(back, S) <=> \A j \in S : \A i \in V : i \in back[j] => i \in S
    BY <1>2 DEF Supplied
  <2> QED
    BY <1>1, <1>2, <2>1
<1> HIDE DEF V
<1> QED
  BY <1>4, <1>5 DEF V, B


----------------------------------------------------------------------------
(***************************************************************************)
(* The tearing of a cycle.                                                 *)
(***************************************************************************)
\* Nodes that all wait for each other have a copy among them.
Opens(m, deps) ==
    \A S \in SUBSET DOMAIN deps : S # {} => \E n \in S : IsCopy(m, n) \/ deps[n] \cap S = {}

Tearings(nodes) == [left : SUBSET nodes, order : Seq(nodes), tears : SUBSET nodes]

\* A tearing under way.
IsTearing(m, deps, nodes, s) ==
    /\ s \in Tearings(nodes)
    /\ ToSet(s.order) = nodes \ s.left
    /\ \A n \in s.tears : IsCopy(m, n)
    /\ \A i \in DOMAIN s.order : \A n \in deps[s.order[i]] \cap nodes :
          s.order[i] \in s.tears \/ \E j \in 1 .. i - 1 : s.order[j] = n
    /\ (\A n \in nodes : deps[n] \cap nodes = {}) => s.tears = {}

LEMMA TearTurnKeeps ==
    ASSUME NEW m, NEW deps, IsGraph(deps), Opens(m, deps), NEW nodes \in SUBSET DOMAIN deps,
           NEW s, IsTearing(m, deps, nodes, s)
    PROVE  /\ IsTearing(m, deps, nodes, TearTurn(m, deps, s))
           /\ TearTurn(m, deps, s).left \subseteq s.left
           /\ s.left # {} => TearTurn(m, deps, s).left # s.left
<1> DEFINE ready == {n \in s.left : deps[n] \cap s.left = {}}
           chosen == IF ready = {} THEN {FirstCopy(m, s.left)} ELSE ready
           t == [left |-> s.left \ chosen, order |-> s.order \o Sorted(chosen),
                 tears |-> s.tears \cup (chosen \ ready)]
<1>1. /\ s.left \in SUBSET nodes /\ s.order \in Seq(nodes) /\ s.tears \in SUBSET nodes
      /\ ToSet(s.order) = nodes \ s.left
      /\ \A n \in s.tears : IsCopy(m, n)
      /\ (\A n \in nodes : deps[n] \cap nodes = {}) => s.tears = {}
  BY DEF IsTearing, Tearings
<1>2. CASE s.left = {}
  BY <1>2 DEF TearTurn
<1>3. CASE s.left # {}
  <2>1. TearTurn(m, deps, s) = t
    BY <1>3 DEF TearTurn
  <2>2. /\ chosen # {} /\ chosen \subseteq s.left
        /\ \A n \in chosen : deps[n] \cap s.left = {} \/ (n \notin ready /\ IsCopy(m, n))
    <3>1. CASE ready # {}
      BY <3>1
    <3>2. CASE ready = {}
      <4> DEFINE C == {n \in s.left : IsCopy(m, n)}
      <4>1. \E n \in s.left : IsCopy(m, n) \/ deps[n] \cap s.left = {}
        BY <1>1, <1>3 DEF Opens
      <4>2. C # {}
        BY <3>2, <4>1
      <4>3. C \in SUBSET Nat
        BY <1>1 DEF IsGraph
      <4>4. FirstCopy(m, s.left) \in C
        <5> HIDE DEF C
        <5>1. MinOf(C) \in C
          BY <4>2, <4>3, LeastIs
        <5> QED
          BY <5>1 DEF FirstCopy, C
      <4> QED
        BY <3>2, <4>4
    <3> QED
      BY <3>1, <3>2
  <2>3. (\A n \in nodes : deps[n] \cap nodes = {}) => chosen \ ready = {}
    <3> SUFFICES ASSUME \A n \in nodes : deps[n] \cap nodes = {}
                 PROVE  ready = s.left
      BY <1>3
    <3> QED
      BY <1>1
  <2>4. chosen \ ready \subseteq chosen
    OBVIOUS
  <2>5. \A n \in chosen : deps[n] \cap s.left = {} \/ n \in chosen \ ready
    BY <2>2
  <2>6. \A n \in chosen \ ready : IsCopy(m, n)
    BY <2>2
  <2> DEFINE torn == chosen \ ready
  <2>7. t = [left |-> s.left \ chosen, order |-> s.order \o Sorted(chosen), tears |-> s.tears \cup torn]
    OBVIOUS
  <2> HIDE DEF t, torn, chosen, ready
  <2>8. chosen \in SUBSET Nat /\ IsFiniteSet(chosen)
    <3>1. chosen \in SUBSET DOMAIN deps
      BY <1>1, <2>2
    <3> QED
      BY <3>1, NodesAreNumbers
  <2> DEFINE added == Sorted(chosen)
             L == Len(s.order)
  <2>9. added \in Seq(chosen) /\ ToSet(added) = chosen
    BY <2>8, SortedIsOnce
  <2>10. /\ L \in Nat /\ Len(added) \in Nat /\ DOMAIN s.order = 1 .. L
         /\ DOMAIN added = 1 .. Len(added)
         /\ \A i \in 1 .. L : s.order[i] \in nodes \ s.left
         /\ \A n \in nodes \ s.left : \E i \in 1 .. L : s.order[i] = n
         /\ \A i \in 1 .. Len(added) : added[i] \in chosen
         /\ \A n \in chosen : \E i \in 1 .. Len(added) : added[i] = n
    <3> HIDE DEF added
    <3>1. /\ L \in Nat /\ DOMAIN s.order = 1 .. L
          /\ \A i \in DOMAIN s.order : s.order[i] \in ToSet(s.order)
          /\ \A n \in ToSet(s.order) : \E i \in DOMAIN s.order : s.order[i] = n
      BY <1>1, SetOf
    <3>2. /\ Len(added) \in Nat /\ DOMAIN added = 1 .. Len(added)
          /\ \A i \in DOMAIN added : added[i] \in ToSet(added)
          /\ \A n \in ToSet(added) : \E i \in DOMAIN added : added[i] = n
      BY <2>9, SetOf
    <3> QED
      BY <1>1, <2>9, <3>1, <3>2
  <2> HIDE DEF added
  <2> DEFINE o == s.order \o added
  <2>11. /\ o \in Seq(nodes) /\ Len(o) = L + Len(added) /\ DOMAIN o = 1 .. L + Len(added)
         /\ \A i \in 1 .. L : o[i] = s.order[i]
         /\ \A i \in 1 .. L + Len(added) : i > L => i - L \in 1 .. Len(added) /\ o[i] = added[i - L]
         /\ \A i \in 1 .. Len(added) : L + i \in 1 .. L + Len(added) /\ o[L + i] = added[i]
    <3>1. added \in Seq(nodes)
      BY <1>1, <2>2, <2>9
    <3> QED
      BY <1>1, <2>10, <3>1
  <2> HIDE DEF o
  <2>12. ToSet(o) = nodes \ (s.left \ chosen)
    <3>0. /\ \A i \in DOMAIN o : o[i] \in ToSet(o)
          /\ \A n \in ToSet(o) : \E i \in DOMAIN o : o[i] = n
      BY <2>11, SetOf
    <3>1. ASSUME NEW n \in ToSet(o)
          PROVE  n \in nodes \ (s.left \ chosen)
      <4>1. PICK i \in 1 .. L + Len(added) : o[i] = n
        BY <2>11, <3>0
      <4>2. CASE i \in 1 .. L
        BY <2>10, <2>11, <4>1, <4>2
      <4>3. CASE i > L
        BY <1>1, <2>2, <2>10, <2>11, <4>1, <4>3
      <4> QED
        BY <2>10, <4>1, <4>2, <4>3
    <3>2. ASSUME NEW n \in nodes \ (s.left \ chosen)
          PROVE  n \in ToSet(o)
      <4>1. CASE n \in chosen
        <5>1. PICK i \in 1 .. Len(added) : added[i] = n
          BY <2>10, <4>1
        <5> QED
          BY <2>11, <3>0, <5>1
      <4>2. CASE n \notin s.left
        <5>1. PICK i \in 1 .. L : s.order[i] = n
          BY <2>10, <4>2
        <5>2. i \in DOMAIN o
          BY <2>10, <2>11, <5>1
        <5> QED
          BY <2>11, <3>0, <5>1, <5>2
      <4> QED
        BY <4>1, <4>2
    <3> QED
      BY <3>1, <3>2
  <2>13. ASSUME NEW i \in DOMAIN o, NEW n \in deps[o[i]] \cap nodes
         PROVE  o[i] \in s.tears \cup torn \/ \E j \in 1 .. i - 1 : o[j] = n
    <3>1. CASE i \in 1 .. L
      <4>1. s.order[i] \in s.tears \/ \E j \in 1 .. i - 1 : s.order[j] = n
        BY <2>10, <2>11, <3>1 DEF IsTearing
      <4>2. \A j \in 1 .. i - 1 : o[j] = s.order[j]
        BY <2>10, <2>11, <3>1
      <4> QED
        BY <2>11, <3>1, <4>1, <4>2
    <3>2. CASE i > L
      <4>1. o[i] \in chosen
        BY <2>10, <2>11, <3>2
      <4>2. CASE o[i] \in torn
        BY <4>2
      <4>3. CASE n \notin s.left
        <5>1. PICK j \in 1 .. L : s.order[j] = n
          BY <2>10, <4>3
        <5>2. j \in 1 .. i - 1 /\ o[j] = n
          BY <2>10, <2>11, <3>2, <5>1
        <5> QED
          BY <5>2
      <4> QED
        BY <2>5, <4>1, <4>2, <4>3 DEF torn
    <3> QED
      BY <2>10, <2>11, <3>1, <3>2
  <2>14. t = [left |-> s.left \ chosen, order |-> o, tears |-> s.tears \cup torn]
    BY <2>7 DEF o, added
  <2>15. torn \subseteq nodes /\ \A n \in torn : IsCopy(m, n)
    BY <1>1, <2>2, <2>6 DEF torn
  <2>16. (\A n \in nodes : deps[n] \cap nodes = {}) => s.tears \cup torn = {}
    BY <1>1, <2>3 DEF torn
  <2>17. t \in Tearings(nodes)
    BY <1>1, <2>11, <2>14, <2>15 DEF Tearings
  <2>18. t.left = s.left \ chosen /\ t.order = o /\ t.tears = s.tears \cup torn
    BY <2>14
  <2>19. \A n \in s.tears \cup torn : IsCopy(m, n)
    BY <1>1, <2>15
  <2>20. IsTearing(m, deps, nodes, t)
    BY <2>12, <2>13, <2>16, <2>17, <2>18, <2>19 DEF IsTearing
  <2>21. t.left \subseteq s.left /\ t.left # s.left
    BY <2>2, <2>18
  <2> QED
    BY <2>1, <2>20, <2>21
<1> QED
  BY <1>2, <1>3

IsTornCourse(f, m, deps, nodes) ==
    f = [k \in 0 .. Cardinality(nodes) |->
            IF k = 0 THEN [left |-> nodes, order |-> <<>>, tears |-> {}]
            ELSE TearTurn(m, deps, f[k - 1])]

LEMMA TornStarts ==
    ASSUME NEW m, NEW deps, NEW nodes
    PROVE  IsTearing(m, deps, nodes, [left |-> nodes, order |-> <<>>, tears |-> {}])
  BY DEF IsTearing, Tearings, ToSet

LEMMA TornCourseExists ==
    ASSUME NEW m, NEW deps, IsGraph(deps), Opens(m, deps), NEW nodes \in SUBSET DOMAIN deps
    PROVE  \E f : IsTornCourse(f, m, deps, nodes)
<1> DEFINE N == Cardinality(nodes)
           S == {s \in Tearings(nodes) : IsTearing(m, deps, nodes, s)}
           first == [left |-> nodes, order |-> <<>>, tears |-> {}]
           step == [n \in 1 .. N |-> [s \in S |-> TearTurn(m, deps, s)]]
<1>1. N \in Nat
  BY NodesAreNumbers, FS_CardinalityType
<1>2. first \in S
  BY TornStarts DEF IsTearing
<1>3. \A s \in S : TearTurn(m, deps, s) \in S
  BY TearTurnKeeps DEF IsTearing
<1> HIDE DEF S, first
<1>4. step \in [1 .. N -> [S -> S]] /\ \A n \in 1 .. N, s \in S : step[n][s] = TearTurn(m, deps, s)
  BY <1>3
<1> HIDE DEF step, N
<1>5. PICK f \in [0 .. N -> S] : IsCourse(f, N, first, step)
  BY <1>1, <1>2, <1>4, CourseExists
<1>6. ASSUME NEW n \in 0 .. N
      PROVE  f[n] = IF n = 0 THEN first ELSE TearTurn(m, deps, f[n - 1])
  <2>1. CASE n = 0
    BY <1>5, <2>1 DEF IsCourse
  <2>2. CASE n # 0
    <3>1. n \in 1 .. N /\ n - 1 \in 0 .. N
      BY <1>1, <2>2
    <3>2. f[n] = step[n][f[n - 1]] /\ f[n - 1] \in S
      BY <1>5, <3>1 DEF IsCourse
    <3> QED
      BY <1>4, <2>2, <3>1, <3>2
  <2> QED
    BY <2>1, <2>2
<1>7. f = [n \in 0 .. N |-> IF n = 0 THEN first ELSE TearTurn(m, deps, f[n - 1])]
  BY <1>5, <1>6
<1> QED
  BY <1>7 DEF IsTornCourse, N, first

\* A torn cycle is complete.
LEMMA TornIs ==
    ASSUME NEW m, NEW deps, IsGraph(deps), Opens(m, deps), NEW nodes \in SUBSET DOMAIN deps
    PROVE  IsTearing(m, deps, nodes, Torn(m, deps, nodes)) /\ Torn(m, deps, nodes).left = {}
<1> DEFINE N == Cardinality(nodes)
           f == CHOOSE g : IsTornCourse(g, m, deps, nodes)
           first == [left |-> nodes, order |-> <<>>, tears |-> {}]
           P == {n \in 0 .. N : /\ IsTearing(m, deps, nodes, f[n])
                                /\ Cardinality(f[n].left) + n <= N \/ f[n].left = {}}
<1>1. N \in Nat /\ IsFiniteSet(nodes)
  BY NodesAreNumbers, FS_CardinalityType
<1>2. IsTornCourse(f, m, deps, nodes)
  BY TornCourseExists
<1>3. Torn(m, deps, nodes) = f[N]
  BY DEF Torn, IsTornCourse
<1> HIDE DEF f
<1>4. \A n \in 0 .. N : f[n] = IF n = 0 THEN first ELSE TearTurn(m, deps, f[n - 1])
  BY <1>2 DEF IsTornCourse
<1>5. 0 \in P
  <2>1. IsTearing(m, deps, nodes, first) /\ Cardinality(first.left) = N
    BY TornStarts
  <2> HIDE DEF first
  <2>2. f[0] = first /\ 0 \in 0 .. N
    BY <1>1, <1>4
  <2> HIDE DEF N
  <2> QED
    BY <1>1, <2>1, <2>2
<1> HIDE DEF N, first
<1>6. ASSUME NEW n \in 0 .. N - 1, n \in P
      PROVE  n + 1 \in P
  <2> DEFINE s == f[n]
             t == f[n + 1]
  <2>1. n + 1 \in 0 .. N /\ n + 1 # 0 /\ n + 1 - 1 = n /\ n \in Nat
    BY <1>1
  <2>2. t = TearTurn(m, deps, s)
    BY <1>4, <2>1
  <2>3. IsTearing(m, deps, nodes, s) /\ (Cardinality(s.left) + n <= N \/ s.left = {})
    BY <1>6
  <2> HIDE DEF s
  <2>4. /\ IsTearing(m, deps, nodes, TearTurn(m, deps, s))
        /\ TearTurn(m, deps, s).left \subseteq s.left
        /\ s.left # {} => TearTurn(m, deps, s).left # s.left
    BY <2>3, TearTurnKeeps
  <2>5. /\ IsTearing(m, deps, nodes, t) /\ t.left \subseteq s.left
        /\ s.left # {} => t.left # s.left
    BY <2>2, <2>4
  <2> HIDE DEF t
  <2>6. Cardinality(t.left) + (n + 1) <= N \/ t.left = {}
    <3> SUFFICES ASSUME s.left # {}
                 PROVE  Cardinality(t.left) + (n + 1) <= N
      BY <2>5
    <3>1. IsFiniteSet(s.left)
      BY <1>1, <2>3, FS_Subset DEF IsTearing, Tearings
    <3>2. /\ IsFiniteSet(t.left) /\ Cardinality(t.left) <= Cardinality(s.left)
          /\ Cardinality(s.left) = Cardinality(t.left) => s.left = t.left
      BY <2>5, <3>1, FS_Subset
    <3>3. Cardinality(t.left) \in Nat /\ Cardinality(s.left) \in Nat
      BY <3>1, <3>2, FS_CardinalityType
    <3> QED
      BY <1>1, <2>1, <2>3, <2>5, <3>2, <3>3
  <2> QED
    BY <2>1, <2>5, <2>6 DEF t
<1>7. N \in P
  <2> HIDE DEF P
  <2>1. \A n \in 0 .. N : n \in P
    BY <1>1, <1>5, <1>6, Along
  <2> QED
    BY <2>1, <1>1
<1> DEFINE s == f[N]
<1>8. IsTearing(m, deps, nodes, s) /\ (Cardinality(s.left) + N <= N \/ s.left = {})
  BY <1>7
<1> HIDE DEF s
<1>9. s.left = {}
  <2>1. IsFiniteSet(s.left)
    BY <1>1, <1>8, FS_Subset DEF IsTearing, Tearings
  <2>2. Cardinality(s.left) \in Nat
    BY <2>1, FS_CardinalityType
  <2>3. Cardinality(s.left) = 0 \/ s.left = {}
    BY <1>1, <1>8, <2>2
  <2> QED
    BY <2>1, <2>3, FS_EmptySet
<1> QED
  BY <1>3, <1>8, <1>9 DEF s

IsLiveCourse(f, required, deps) ==
    f = [k \in 0 .. Len(deps) |->
            IF k = 0 THEN required
            ELSE LET i == Len(deps) - (k - 1)
                 IN  IF i \in f[k - 1] THEN f[k - 1] \cup deps[i] ELSE f[k - 1]]

\* A turn of the pass from the end.
LiveTurn(deps, k, A) ==
    LET i == Len(deps) - (k - 1) IN IF i \in A THEN A \cup deps[i] ELSE A

\* Operations that depend on earlier ones only.
Backward(deps) == \A i \in DOMAIN deps : \A d \in deps[i] : d < i

LEMMA LiveCourseExists ==
    ASSUME NEW deps, IsGraph(deps), NEW required \in SUBSET DOMAIN deps
    PROVE  \E f : IsLiveCourse(f, required, deps)
<1> DEFINE N == Len(deps)
           S == SUBSET DOMAIN deps
           step == [n \in 1 .. N |-> [A \in S |-> LiveTurn(deps, n, A)]]
<1>1. N \in Nat /\ (\A i \in DOMAIN deps : deps[i] \subseteq DOMAIN deps) /\ DOMAIN deps = 1 .. N
  BY DEF IsGraph
<1>2. required \in S
  OBVIOUS
<1>3. \A n \in 1 .. N, A \in S : LiveTurn(deps, n, A) \in S
  BY <1>1 DEF LiveTurn
<1> HIDE DEF S
<1>4. step \in [1 .. N -> [S -> S]] /\ \A n \in 1 .. N, A \in S : step[n][A] = LiveTurn(deps, n, A)
  BY <1>3
<1> HIDE DEF step, N
<1>5. PICK f \in [0 .. N -> S] : IsCourse(f, N, required, step)
  BY <1>1, <1>2, <1>4, CourseExists
<1>6. ASSUME NEW n \in 0 .. N
      PROVE  f[n] = IF n = 0 THEN required ELSE LiveTurn(deps, n, f[n - 1])
  <2>1. CASE n = 0
    BY <1>5, <2>1 DEF IsCourse
  <2>2. CASE n # 0
    <3>1. n \in 1 .. N /\ n - 1 \in 0 .. N
      BY <1>1, <2>2
    <3>2. f[n] = step[n][f[n - 1]] /\ f[n - 1] \in S
      BY <1>5, <3>1 DEF IsCourse
    <3> QED
      BY <1>4, <2>2, <3>1, <3>2
  <2> QED
    BY <2>1, <2>2
<1>7. f = [n \in 0 .. N |-> IF n = 0 THEN required ELSE LiveTurn(deps, n, f[n - 1])]
  BY <1>5, <1>6
<1> QED
  BY <1>7 DEF IsLiveCourse, LiveTurn, N

\* One pass from the end finds all that is required.
LEMMA LiveIs ==
    ASSUME NEW deps, IsGraph(deps), Backward(deps), NEW required \in SUBSET DOMAIN deps
    PROVE  LET L == Live(required, deps)
           IN  /\ required \subseteq L /\ L \in SUBSET DOMAIN deps /\ Supplied(deps, L)
               /\ \A S \in SUBSET DOMAIN deps : required \subseteq S /\ Supplied(deps, S) => L \subseteq S
<1> DEFINE N == Len(deps)
           V == DOMAIN deps
           f == CHOOSE g : IsLiveCourse(g, required, deps)
           Within(A) == \A S \in SUBSET V : required \subseteq S /\ Supplied(deps, S) => A \subseteq S
           P == {n \in 0 .. N : /\ required \subseteq f[n] /\ f[n] \in SUBSET V /\ Within(f[n])
                                /\ \A i \in f[n] : i > N - n => deps[i] \subseteq f[n]}
<1>1. /\ N \in Nat /\ V = 1 .. N /\ \A i \in V : deps[i] \subseteq V
  BY DEF IsGraph
<1>2. IsLiveCourse(f, required, deps)
  BY LiveCourseExists
<1>3. Live(required, deps) = f[N]
  BY DEF Live, IsLiveCourse
<1> HIDE DEF f
<1>4. \A n \in 0 .. N : f[n] = IF n = 0 THEN required ELSE LiveTurn(deps, n, f[n - 1])
  BY <1>2 DEF IsLiveCourse, LiveTurn
<1>5. 0 \in P
  <2>1. f[0] = required /\ 0 \in 0 .. N
    BY <1>1, <1>4
  <2>2. \A i \in required : ~(i > N - 0)
    BY <1>1
  <2> QED
    BY <2>1, <2>2
<1>6. ASSUME NEW n \in 0 .. N - 1, n \in P
      PROVE  n + 1 \in P
  <2> DEFINE A == f[n]
             B == f[n + 1]
             i == N - n
  <2>1. /\ n + 1 \in 0 .. N /\ n + 1 # 0 /\ n + 1 - 1 = n /\ n \in Nat /\ i \in V
    BY <1>1
  <2>2. B = LiveTurn(deps, n + 1, A)
    BY <1>4, <2>1
  <2>3. /\ required \subseteq A /\ A \in SUBSET V /\ Within(A)
        /\ \A j \in A : j > i => deps[j] \subseteq A
    BY <1>6
  <2> HIDE DEF A, B
  <2>4. B = IF i \in A THEN A \cup deps[i] ELSE A
    BY <1>1, <2>1, <2>2 DEF LiveTurn
  <2>5. required \subseteq B /\ B \in SUBSET V /\ A \subseteq B
    BY <1>1, <2>1, <2>3, <2>4
  <2>6. Within(B)
    BY <2>3, <2>4 DEF Supplied
  <2>7. ASSUME NEW j \in B, j > N - (n + 1)
        PROVE  deps[j] \subseteq B
    <3>1. j \in A
      <4> SUFFICES ASSUME i \in A, j \in deps[i]
                   PROVE  FALSE
        BY <2>4
      <4>1. j < i /\ j \in V
        BY <1>1, <2>1 DEF Backward
      <4> QED
        BY <1>1, <2>1, <2>7, <4>1
    <3>2. CASE j = i
      BY <2>4, <3>1, <3>2
    <3>3. CASE j > i
      BY <2>3, <2>5, <3>1, <3>3
    <3> QED
      BY <1>1, <2>1, <2>5, <2>7, <3>2, <3>3
  <2> QED
    BY <2>1, <2>5, <2>6, <2>7 DEF B
<1> HIDE DEF N, V
<1>7. N \in P
  <2> HIDE DEF P
  <2>1. \A n \in 0 .. N : n \in P
    BY <1>1, <1>5, <1>6, Along
  <2> QED
    BY <2>1, <1>1
<1> DEFINE C == f[N]
<1>8. /\ required \subseteq C /\ C \in SUBSET V /\ Within(C)
      /\ \A i \in C : i > N - N => deps[i] \subseteq C
  BY <1>7
<1> HIDE DEF C
<1>9. Supplied(deps, C)
  <2>1. \A i \in C : i > N - N
    BY <1>1, <1>8
  <2> QED
    BY <1>8, <2>1 DEF Supplied
<1> QED
  BY <1>3, <1>8, <1>9 DEF C, V

IsAffectedCourse(f, seeds, deps) ==
    f = [i \in 0 .. Len(deps) |->
            IF i = 0 THEN {}
            ELSE IF i \in seeds \/ deps[i] \cap f[i - 1] # {} THEN f[i - 1] \cup {i}
            ELSE f[i - 1]]

AffectedTurn(seeds, deps, i, A) == IF i \in seeds \/ deps[i] \cap A # {} THEN A \cup {i} ELSE A

LEMMA AffectedCourseExists ==
    ASSUME NEW deps, IsGraph(deps), NEW seeds
    PROVE  \E f : IsAffectedCourse(f, seeds, deps)
<1> DEFINE N == Len(deps)
           S == SUBSET DOMAIN deps
           step == [n \in 1 .. N |-> [A \in S |-> AffectedTurn(seeds, deps, n, A)]]
<1>1. N \in Nat /\ DOMAIN deps = 1 .. N
  BY DEF IsGraph
<1>2. {} \in S
  OBVIOUS
<1>3. \A n \in 1 .. N, A \in S : AffectedTurn(seeds, deps, n, A) \in S
  BY <1>1 DEF AffectedTurn
<1> HIDE DEF S
<1>4. /\ step \in [1 .. N -> [S -> S]]
      /\ \A n \in 1 .. N, A \in S : step[n][A] = AffectedTurn(seeds, deps, n, A)
  BY <1>3
<1> HIDE DEF step, N
<1>5. PICK f \in [0 .. N -> S] : IsCourse(f, N, {}, step)
  BY <1>1, <1>2, <1>4, CourseExists
<1>6. ASSUME NEW n \in 0 .. N
      PROVE  f[n] = IF n = 0 THEN {} ELSE AffectedTurn(seeds, deps, n, f[n - 1])
  <2>1. CASE n = 0
    BY <1>5, <2>1 DEF IsCourse
  <2>2. CASE n # 0
    <3>1. n \in 1 .. N /\ n - 1 \in 0 .. N
      BY <1>1, <2>2
    <3>2. f[n] = step[n][f[n - 1]] /\ f[n - 1] \in S
      BY <1>5, <3>1 DEF IsCourse
    <3> QED
      BY <1>4, <2>2, <3>1, <3>2
  <2> QED
    BY <2>1, <2>2
<1>7. f = [n \in 0 .. N |-> IF n = 0 THEN {} ELSE AffectedTurn(seeds, deps, n, f[n - 1])]
  BY <1>5, <1>6
<1> QED
  BY <1>7 DEF IsAffectedCourse, AffectedTurn, N

\* One pass from the beginning finds all that held inputs reach.
LEMMA AffectedIs ==
    ASSUME NEW deps, IsGraph(deps), Backward(deps), NEW seeds \in SUBSET DOMAIN deps
    PROVE  LET A == Affected(seeds, deps)
           IN  /\ seeds \subseteq A /\ A \in SUBSET DOMAIN deps
               /\ \A i \in DOMAIN deps : deps[i] \cap A # {} => i \in A
<1> DEFINE N == Len(deps)
           f == CHOOSE g : IsAffectedCourse(g, seeds, deps)
           P == {n \in 0 .. N : /\ f[n] \subseteq 1 .. n
                                /\ \A i \in 1 .. n : i \in seeds \/ deps[i] \cap f[n] # {} => i \in f[n]}
<1>1. /\ N \in Nat /\ DOMAIN deps = 1 .. N /\ \A i \in DOMAIN deps : deps[i] \subseteq DOMAIN deps
  BY DEF IsGraph
<1>2. IsAffectedCourse(f, seeds, deps)
  BY AffectedCourseExists
<1>3. Affected(seeds, deps) = f[N]
  BY DEF Affected, IsAffectedCourse
<1> HIDE DEF f
<1>4. \A n \in 0 .. N : f[n] = IF n = 0 THEN {} ELSE AffectedTurn(seeds, deps, n, f[n - 1])
  BY <1>2 DEF IsAffectedCourse, AffectedTurn
<1> HIDE DEF N
<1>5. 0 \in P
  <2>1. f[0] = {} /\ 0 \in 0 .. N /\ 1 .. 0 = {}
    BY <1>1, <1>4
  <2> QED
    BY <2>1
<1>6. ASSUME NEW n \in 0 .. N - 1, n \in P
      PROVE  n + 1 \in P
  <2> DEFINE A == f[n]
             B == f[n + 1]
  <2>1. n + 1 \in 0 .. N /\ n + 1 # 0 /\ n + 1 - 1 = n /\ n \in Nat /\ n + 1 \in DOMAIN deps
    BY <1>1
  <2>2. B = AffectedTurn(seeds, deps, n + 1, A)
    BY <1>4, <2>1
  <2>3. /\ A \subseteq 1 .. n
        /\ \A i \in 1 .. n : i \in seeds \/ deps[i] \cap A # {} => i \in A
    BY <1>6
  <2> HIDE DEF A, B
  <2>4. B = IF n + 1 \in seeds \/ deps[n + 1] \cap A # {} THEN A \cup {n + 1} ELSE A
    BY <2>2 DEF AffectedTurn
  <2>5. B \subseteq 1 .. n + 1 /\ A \subseteq B /\ B \subseteq A \cup {n + 1}
    BY <2>1, <2>3, <2>4
  <2>6. ASSUME NEW i \in 1 .. n + 1, i \in seeds \/ deps[i] \cap B # {}
        PROVE  i \in B
    <3>1. \A d \in deps[i] : d # n + 1
      <4>1. i \in DOMAIN deps /\ i <= n + 1
        BY <1>1, <2>1
      <4> QED
        BY <1>1, <2>1, <4>1 DEF Backward
    <3>2. i \in seeds \/ deps[i] \cap A # {}
      BY <2>5, <2>6, <3>1
    <3>3. CASE i = n + 1
      BY <2>4, <3>2, <3>3
    <3>4. CASE i \in 1 .. n
      BY <2>3, <2>5, <3>2, <3>4
    <3> QED
      BY <2>1, <3>3, <3>4
  <2> QED
    BY <2>1, <2>5, <2>6 DEF B
<1>7. N \in P
  <2> HIDE DEF P
  <2>1. \A n \in 0 .. N : n \in P
    BY <1>1, <1>5, <1>6, Along
  <2> QED
    BY <2>1, <1>1
<1> QED
  BY <1>1, <1>3, <1>7

----------------------------------------------------------------------------
(***************************************************************************)
(* Operations laid out in the order of what they depend on.                *)
(***************************************************************************)
\* What a set reaches is what its members reach.
LEMMA BehindOne ==
    ASSUME NEW deps, IsGraph(deps), NEW nodes \in SUBSET DOMAIN deps, NEW q
    PROVE  q \in Behind(deps, nodes) <=> \E n \in nodes : q \in Behind(deps, {n})
<1> DEFINE V == DOMAIN deps
           U == {v \in V : \E n \in nodes : v \in Behind(deps, {n})}
           B == Behind(deps, nodes)
<1>1. /\ nodes \subseteq B /\ B \in SUBSET V
      /\ \A v \in V : deps[v] \cap B # {} => v \in B
      /\ \A S \in SUBSET V : nodes \subseteq S /\ (\A v \in V : deps[v] \cap S # {} => v \in S)
                             => B \subseteq S
  BY BehindIs
<1>2. ASSUME NEW n \in nodes
      PROVE  /\ n \in Behind(deps, {n}) /\ Behind(deps, {n}) \in SUBSET V
             /\ \A v \in V : deps[v] \cap Behind(deps, {n}) # {} => v \in Behind(deps, {n})
             /\ Behind(deps, {n}) \subseteq B
  <2>1. {n} \in SUBSET V
    OBVIOUS
  <2>2. /\ {n} \subseteq Behind(deps, {n}) /\ Behind(deps, {n}) \in SUBSET V
        /\ \A v \in V : deps[v] \cap Behind(deps, {n}) # {} => v \in Behind(deps, {n})
        /\ \A S \in SUBSET V : {n} \subseteq S /\ (\A v \in V : deps[v] \cap S # {} => v \in S)
                               => Behind(deps, {n}) \subseteq S
    BY <2>1, BehindIs
  <2> HIDE DEF B
  <2>3. Behind(deps, {n}) \subseteq B
    BY <1>1, <2>2, ZenonT(60)
  <2> QED
    BY <2>2, <2>3
<1> HIDE DEF B, V
<1>3. B \subseteq U
  <2>1. U \in SUBSET V /\ nodes \subseteq U
    BY <1>2
  <2>2. \A v \in V : deps[v] \cap U # {} => v \in U
    BY <1>2
  <2> HIDE DEF U
  <2> QED
    BY <1>1, <2>1, <2>2
<1>4. (q \in U) <=> \E n \in nodes : q \in Behind(deps, {n})
  BY <1>2
<1> QED
  BY <1>2, <1>3, <1>4 DEF B

\* The same in the other direction: what a set needs is what reaches it.
LEMMA LiveReaches ==
    ASSUME NEW deps, IsGraph(deps), Backward(deps), NEW required \in SUBSET DOMAIN deps,
           NEW i \in DOMAIN deps
    PROVE  i \in Live(required, deps) <=> \E r \in required : r \in Behind(deps, {i})
<1> DEFINE V == DOMAIN deps
           L == Live(required, deps)
           U == {v \in V : \E r \in required : r \in Behind(deps, {v})}
<1>1. /\ required \subseteq L /\ L \in SUBSET V /\ Supplied(deps, L)
      /\ \A S \in SUBSET V : required \subseteq S /\ Supplied(deps, S) => L \subseteq S
  BY LiveIs
<1>2. \A v \in V : deps[v] \subseteq V
  BY DEF IsGraph
<1>3. ASSUME NEW v \in V
      PROVE  /\ v \in Behind(deps, {v}) /\ Behind(deps, {v}) \in SUBSET V
             /\ \A x \in V : deps[x] \cap Behind(deps, {v}) # {} => x \in Behind(deps, {v})
             /\ \A S \in SUBSET V : v \in S /\ (\A x \in V : deps[x] \cap S # {} => x \in S)
                                    => Behind(deps, {v}) \subseteq S
  <2>1. {v} \in SUBSET V
    OBVIOUS
  <2>2. /\ {v} \subseteq Behind(deps, {v}) /\ Behind(deps, {v}) \in SUBSET V
        /\ \A x \in V : deps[x] \cap Behind(deps, {v}) # {} => x \in Behind(deps, {v})
        /\ \A S \in SUBSET V : {v} \subseteq S /\ (\A x \in V : deps[x] \cap S # {} => x \in S)
                               => Behind(deps, {v}) \subseteq S
    BY <2>1, BehindIs
  <2> QED
    BY <2>2
<1> HIDE DEF V, L
<1>4. L \subseteq U
  <2>1. required \subseteq U /\ U \in SUBSET V
    BY <1>1, <1>3
  <2>2. ASSUME NEW v \in U, NEW d \in deps[v]
        PROVE  d \in U
    <3>1. PICK r \in required : r \in Behind(deps, {v})
      OBVIOUS
    <3>2. v \in V /\ d \in V
      BY <1>2
    <3>3. v \in Behind(deps, {d})
      BY <1>3, <3>2
    <3>4. Behind(deps, {v}) \subseteq Behind(deps, {d})
      BY <1>3, <3>2, <3>3
    <3> QED
      BY <3>1, <3>2, <3>4
  <2> HIDE DEF U
  <2> QED
    BY <1>1, <2>1, <2>2 DEF Supplied
<1>5. ASSUME NEW v \in V, NEW r \in required, r \in Behind(deps, {v}), v \notin L
      PROVE  FALSE
  <2> DEFINE S == V \ L
  <2>1. S \in SUBSET V /\ v \in S
    BY <1>5
  <2>2. \A x \in V : deps[x] \cap S # {} => x \in S
    BY <1>1 DEF Supplied
  <2> HIDE DEF S
  <2>3. r \in S
    BY <1>3, <1>5, <2>1, <2>2
  <2> QED
    BY <1>1, <2>3 DEF S
<1> QED
  BY <1>4, <1>5 DEF V, L

\* Each operation is a kind of nodes that lead to each other, the positions are
\* those it depends on, and they come before it.
IsLayout(deps, nodes, positions) ==
    /\ IsGraph(deps) /\ IsGraph(positions) /\ DOMAIN nodes = DOMAIN positions
    /\ Backward(positions)
    /\ \A i \in DOMAIN nodes :
          /\ nodes[i] \subseteq DOMAIN deps /\ nodes[i] # {}
          /\ \A n \in nodes[i] : nodes[i] = Kin(deps, DOMAIN deps, n)
          /\ \A j \in DOMAIN nodes :
                /\ nodes[i] \cap nodes[j] # {} => i = j
                /\ j \in positions[i] <=> i # j /\ \E n \in nodes[i] : deps[n] \cap nodes[j] # {}
    /\ \A n \in DOMAIN deps : \E i \in DOMAIN nodes : n \in nodes[i]

\* What an operation reads from others is at its positions.
LEMMA BeforeIs ==
    ASSUME NEW deps, NEW nodes, NEW positions, IsLayout(deps, nodes, positions),
           NEW i \in DOMAIN nodes, NEW n \in nodes[i], NEW q \in deps[n] \ nodes[i]
    PROVE  \E j \in positions[i] : j \in DOMAIN nodes /\ j < i /\ q \in nodes[j]
<1>1. q \in DOMAIN deps
  BY DEF IsLayout, IsGraph
<1>2. PICK j \in DOMAIN nodes : q \in nodes[j]
  BY <1>1 DEF IsLayout
<1>3. j # i /\ deps[n] \cap nodes[j] # {}
  BY <1>2
<1>4. j \in positions[i]
  BY <1>3 DEF IsLayout
<1>5. j < i
  BY <1>4 DEF IsLayout, Backward
<1> QED
  BY <1>2, <1>4, <1>5

LEMMA BehindNode ==
    ASSUME NEW deps, IsGraph(deps), NEW n \in DOMAIN deps
    PROVE  /\ n \in Behind(deps, {n}) /\ Behind(deps, {n}) \in SUBSET DOMAIN deps
           /\ \A x \in DOMAIN deps : deps[x] \cap Behind(deps, {n}) # {} => x \in Behind(deps, {n})
           /\ \A S \in SUBSET DOMAIN deps :
                 n \in S /\ (\A x \in DOMAIN deps : deps[x] \cap S # {} => x \in S)
                 => Behind(deps, {n}) \subseteq S
<1>1. {n} \in SUBSET DOMAIN deps
  OBVIOUS
<1>2. /\ {n} \subseteq Behind(deps, {n}) /\ Behind(deps, {n}) \in SUBSET DOMAIN deps
      /\ \A x \in DOMAIN deps : deps[x] \cap Behind(deps, {n}) # {} => x \in Behind(deps, {n})
      /\ \A S \in SUBSET DOMAIN deps :
            {n} \subseteq S /\ (\A x \in DOMAIN deps : deps[x] \cap S # {} => x \in S)
            => Behind(deps, {n}) \subseteq S
  BY <1>1, BehindIs
<1> QED
  BY <1>2

\* To lead to a node is to have it behind.
LEMMA LeadsBehind ==
    ASSUME NEW deps, IsGraph(deps), NEW a \in DOMAIN deps, NEW b \in DOMAIN deps
    PROVE  Leads(deps, DOMAIN deps, a, b) <=> b \in Behind(deps, {a})
<1> DEFINE V == DOMAIN deps
           B == Behind(deps, {a})
<1>1. /\ a \in B /\ B \in SUBSET V
      /\ \A x \in V : deps[x] \cap B # {} => x \in B
      /\ \A S \in SUBSET V :
            a \in S /\ (\A x \in V : deps[x] \cap S # {} => x \in S) => B \subseteq S
  BY BehindNode
<1>2. \A S \in SUBSET V : ShutIn(deps, V, S) <=> \A x \in V : deps[x] \cap S # {} => x \in S
  BY DEF ShutIn, Onward, Followers
<1> HIDE DEF B, V
<1>3. Leads(deps, V, a, b) <=> \A S \in SUBSET V : ShutIn(deps, V, S) /\ a \in S => b \in S
  BY DEF Leads
<1>4. ASSUME Leads(deps, V, a, b) PROVE b \in B
  BY <1>1, <1>2, <1>3, <1>4
<1>5. ASSUME b \in B PROVE Leads(deps, V, a, b)
  BY <1>1, <1>2, <1>3, <1>5
<1> QED
  BY <1>4, <1>5 DEF B, V

\* An operation is the class of any of its nodes.
LEMMA LayoutClass ==
    ASSUME NEW deps, NEW nodes, NEW positions, IsLayout(deps, nodes, positions),
           NEW i \in DOMAIN nodes, NEW n \in nodes[i]
    PROVE  nodes[i] = {m \in Behind(deps, {n}) : n \in Behind(deps, {m})}
<1> DEFINE V == DOMAIN deps
<1>1. IsGraph(deps) /\ nodes[i] \subseteq V /\ nodes[i] = Kin(deps, V, n) /\ n \in V
  BY DEF IsLayout
<1>2. Behind(deps, {n}) \subseteq V
  BY <1>1, BehindNode
<1>3. ASSUME NEW m \in V
      PROVE  m \in nodes[i] <=> m \in Behind(deps, {n}) /\ n \in Behind(deps, {m})
  <2>1. m \in Kin(deps, V, n) <=> Leads(deps, V, n, m) /\ Leads(deps, V, m, n)
    BY LeadsOn
  <2>2. /\ Leads(deps, V, n, m) <=> m \in Behind(deps, {n})
        /\ Leads(deps, V, m, n) <=> n \in Behind(deps, {m})
    BY <1>1, LeadsBehind
  <2> QED
    BY <1>1, <2>1, <2>2
<1> QED
  BY <1>1, <1>2, <1>3

\* In an operation of several nodes each depends on another one of them.
LEMMA LayoutCycle ==
    ASSUME NEW deps, NEW nodes, NEW positions, IsLayout(deps, nodes, positions),
           NEW i \in DOMAIN nodes, NEW a \in nodes[i], NEW b \in nodes[i], a # b
    PROVE  deps[b] \cap nodes[i] # {}
<1> DEFINE V == DOMAIN deps
           B == Behind(deps, {a})
           S == B \ {b}
<1> SUFFICES ASSUME deps[b] \cap nodes[i] = {}
             PROVE  FALSE
  OBVIOUS
<1>1. IsGraph(deps) /\ nodes[i] \subseteq V /\ a \in V /\ b \in V
  BY DEF IsLayout
<1>2. /\ a \in B /\ B \in SUBSET V
      /\ \A x \in V : deps[x] \cap B # {} => x \in B
      /\ \A T \in SUBSET V :
            a \in T /\ (\A x \in V : deps[x] \cap T # {} => x \in T) => B \subseteq T
  BY <1>1, BehindNode
<1>3. b \in B /\ a \in Behind(deps, {b})
  BY LayoutClass
<1>4. ASSUME NEW v \in B, v \in deps[b]
      PROVE  v \in nodes[i]
  <2>1. v \in V
    BY <1>2
  <2>2. b \in Behind(deps, {v})
    BY <1>1, <1>4, <2>1, BehindNode
  <2>3. Behind(deps, {b}) \subseteq Behind(deps, {v})
    <3>1. /\ Behind(deps, {v}) \in SUBSET V
          /\ \A x \in V : deps[x] \cap Behind(deps, {v}) # {} => x \in Behind(deps, {v})
      BY <1>1, <2>1, BehindNode
    <3>2. \A T \in SUBSET V : b \in T /\ (\A x \in V : deps[x] \cap T # {} => x \in T)
                              => Behind(deps, {b}) \subseteq T
      BY <1>1, BehindNode
    <3> QED
      BY <2>2, <3>1, <3>2
  <2>4. a \in Behind(deps, {v})
    BY <1>3, <2>3
  <2> QED
    BY <1>4, <2>4, LayoutClass
<1>5. S \in SUBSET V /\ a \in S
  BY <1>2
<1>6. ASSUME NEW x \in V, deps[x] \cap S # {}
      PROVE  x \in S
  <2>1. PICK v \in B : v \in deps[x] /\ v # b
    BY <1>6
  <2>2. x \in B
    BY <1>2, <2>1
  <2>3. x # b
    BY <1>4, <2>1
  <2> QED
    BY <2>2, <2>3
<1>7. B \subseteq S
  <2> HIDE DEF S, B, V
  <2> QED
    BY <1>2, <1>5, <1>6
<1> QED
  BY <1>3, <1>7

\* What is reached along the operations is what is reached along the nodes.
LEMMA LayoutReaches ==
    ASSUME NEW deps, NEW nodes, NEW positions, IsLayout(deps, nodes, positions),
           NEW i \in DOMAIN nodes, NEW n \in nodes[i], NEW j \in DOMAIN nodes, NEW m \in nodes[j]
    PROVE  m \in Behind(deps, {n}) <=> j \in Behind(positions, {i})
<1> DEFINE V == DOMAIN deps
           K == DOMAIN nodes
           B == Behind(deps, {n})
           C == Behind(positions, {i})
<1>1. IsGraph(deps) /\ IsGraph(positions) /\ K = DOMAIN positions /\ n \in V /\ m \in V
  BY DEF IsLayout
<1>2. /\ n \in B /\ B \in SUBSET V
      /\ \A x \in V : deps[x] \cap B # {} => x \in B
      /\ \A T \in SUBSET V :
            n \in T /\ (\A x \in V : deps[x] \cap T # {} => x \in T) => B \subseteq T
  BY <1>1, BehindNode
<1>3. /\ i \in C /\ C \in SUBSET K
      /\ \A x \in K : positions[x] \cap C # {} => x \in C
      /\ \A T \in SUBSET K :
            i \in T /\ (\A x \in K : positions[x] \cap T # {} => x \in T) => C \subseteq T
  BY <1>1, BehindNode
<1>4. /\ \A k \in K : nodes[k] \subseteq V
      /\ \A v \in V : \E k \in K : v \in nodes[k]
      /\ \A k, l \in K : nodes[k] \cap nodes[l] # {} => k = l
      /\ \A k, l \in K :
            l \in positions[k] <=> k # l /\ \E x \in nodes[k] : deps[x] \cap nodes[l] # {}
  BY DEF IsLayout
<1>5. ASSUME NEW k \in K, NEW x \in nodes[k], x \in B
      PROVE  nodes[k] \subseteq B
  <2>1. nodes[k] \subseteq Behind(deps, {x})
    <3>1. nodes[k] = {y \in Behind(deps, {x}) : x \in Behind(deps, {y})}
      BY LayoutClass
    <3> QED
      BY <3>1
  <2>2. /\ x \in V
        /\ \A T \in SUBSET V : x \in T /\ (\A y \in V : deps[y] \cap T # {} => y \in T)
                               => Behind(deps, {x}) \subseteq T
    BY <1>1, <1>4, BehindNode
  <2> HIDE DEF B
  <2> QED
    BY <1>2, <1>5, <2>1, <2>2
<1> HIDE DEF B, C, V, K
<1>6. ASSUME m \in B PROVE j \in C
  <2> DEFINE T == {v \in V : \E k \in C : v \in nodes[k]}
  <2>1. T \in SUBSET V /\ n \in T
    BY <1>1, <1>3
  <2>2. ASSUME NEW x \in V, NEW v \in deps[x], v \in T
        PROVE  x \in T
    <3>1. PICK k \in C : v \in nodes[k]
      BY <2>2
    <3>2. PICK l \in K : x \in nodes[l]
      BY <1>4
    <3>3. k = l \/ k \in positions[l]
      BY <1>3, <1>4, <3>1, <3>2
    <3>4. l \in C
      BY <1>3, <3>1, <3>2, <3>3
    <3> QED
      BY <3>2, <3>4
  <2>3. \A x \in V : deps[x] \cap T # {} => x \in T
    BY <2>2
  <2> HIDE DEF T
  <2>4. m \in T
    BY <1>2, <1>6, <2>1, <2>3
  <2>5. PICK k \in C : m \in nodes[k]
    BY <2>4 DEF T
  <2> QED
    BY <1>3, <1>4, <2>5 DEF K
<1>7. ASSUME j \in C PROVE m \in B
  <2> DEFINE T == {k \in K : nodes[k] \subseteq B}
  <2>1. T \in SUBSET K /\ i \in T
    BY <1>2, <1>5 DEF K
  <2>2. ASSUME NEW k \in K, NEW l \in positions[k], l \in T
        PROVE  k \in T
    <3>1. PICK x \in nodes[k] : deps[x] \cap nodes[l] # {}
      BY <1>4, <2>2
    <3>2. x \in B
      BY <1>2, <1>4, <2>2, <3>1
    <3> QED
      BY <1>5, <3>1, <3>2
  <2>3. \A k \in K : positions[k] \cap T # {} => k \in T
    BY <2>2
  <2> HIDE DEF T
  <2>4. j \in T
    BY <1>3, <1>7, <2>1, <2>3
  <2> QED
    BY <2>4 DEF T
<1> QED
  BY <1>6, <1>7 DEF B, C

----------------------------------------------------------------------------
(***************************************************************************)
(* The plan of a model.                                                    *)
(***************************************************************************)
LEMMA ModelIs ==
    ASSUME model \in Models, NEW m \in 1 .. Len(model.stages)
    PROVE  LET T == Stages(m)
           IN  /\ Len(T) \in Nat /\ DOMAIN T = 1 .. Len(T) /\ Len(Copies) \in Nat
               /\ Nodes(m) = 1 .. (Len(T) + Len(Copies)) /\ DOMAIN T \subseteq Nodes(m)
               /\ \A n \in Nodes(m) : IsCopy(m, n) <=> n \notin DOMAIN T
               /\ \A i \in DOMAIN T : T[i].sub \in T[i].owners /\ T[i].after \subseteq DOMAIN T
               /\ \A S \in SUBSET DOMAIN T : S # {} => \E i \in S : T[i].after \cap S = {}
<1> DEFINE T == Stages(m)
<1>1. /\ model.stages \in Seq(Declaration(model.subsystems))
      /\ model.connections \in Seq([dst : model.subsystems, field : STRING,
                                    from : SUBSET (model.subsystems \X STRING)])
  BY ModelsAssumption DEF IsModel
<1>2. Len(Copies) \in Nat
  BY <1>1 DEF Copies
<1>3. T \in Declaration(model.subsystems)
  BY <1>1 DEF Stages
<1> HIDE DEF T
<1>4. /\ T \in Seq([sub : model.subsystems, owners : SUBSET model.subsystems, reads : SUBSET STRING,
                    writes : SUBSET STRING, rhs : BOOLEAN, after : SUBSET Nat])
      /\ \A i \in DOMAIN T : T[i].sub \in T[i].owners /\ T[i].after \subseteq DOMAIN T
      /\ \A S \in SUBSET DOMAIN T : S # {} => \E i \in S : T[i].after \cap S = {}
  BY <1>3 DEF Declaration
<1>5. Len(T) \in Nat /\ DOMAIN T = 1 .. Len(T)
  BY <1>4
<1>6. /\ Nodes(m) = 1 .. (Len(T) + Len(Copies))
      /\ \A n : IsCopy(m, n) <=> n > Len(T)
  BY DEF Nodes, IsCopy, T
<1>7. /\ DOMAIN T \subseteq Nodes(m)
      /\ \A n \in Nodes(m) : IsCopy(m, n) <=> n \notin DOMAIN T
  BY <1>2, <1>5, <1>6
<1> QED
  BY <1>2, <1>4, <1>5, <1>6, <1>7 DEF T

\* Everything a node of the model depends on.
ReadOf(m, n) ==
    IF IsCopy(m, n) THEN Producers(m, CopyOf(m, n).from)
    ELSE Stages(m)[n].after \cup CopiesTo(m, Stages(m)[n].sub, Stages(m)[n].reads)

LEMMA DependenciesAre ==
    ASSUME model \in Models, NEW m \in 1 .. Len(model.stages)
    PROVE  LET deps == SignalDependencies(m)
           IN  /\ IsGraph(deps) /\ DOMAIN deps = Nodes(m)
               /\ \A n \in Nodes(m) : deps[n] = ReadOf(m, n)
               /\ Opens(m, deps)
<1> DEFINE T == Stages(m)
           N == Len(T) + Len(Copies)
           f == [n \in Nodes(m) |-> ReadOf(m, n)]
           deps == SignalDependencies(m)
<1>1. /\ Len(T) \in Nat /\ DOMAIN T = 1 .. Len(T) /\ Len(Copies) \in Nat
      /\ Nodes(m) = 1 .. N /\ DOMAIN T \subseteq Nodes(m)
      /\ \A n \in Nodes(m) : IsCopy(m, n) <=> n \notin DOMAIN T
      /\ \A i \in DOMAIN T : T[i].sub \in T[i].owners /\ T[i].after \subseteq DOMAIN T
      /\ \A S \in SUBSET DOMAIN T : S # {} => \E i \in S : T[i].after \cap S = {}
  BY ModelIs
<1>2. N \in Nat
  BY <1>1
<1>3. ASSUME NEW n \in Nodes(m)
      PROVE  ReadOf(m, n) \subseteq Nodes(m)
  <2>1. CASE IsCopy(m, n)
    BY <1>1, <2>1 DEF ReadOf, Producers
  <2>2. CASE ~IsCopy(m, n)
    <3>1. n \in DOMAIN T
      BY <1>1, <2>2
    <3>2. T[n].after \subseteq Nodes(m)
      BY <1>1, <3>1
    <3>3. CopiesTo(m, T[n].sub, T[n].reads) \subseteq Nodes(m)
      BY DEF CopiesTo
    <3> QED
      BY <2>2, <3>2, <3>3 DEF ReadOf
  <2> QED
    BY <2>1, <2>2
<1>4. deps = Table(f)
  BY DEF SignalDependencies, ReadOf
<1>5. f \in [1 .. N -> SUBSET (1 .. N)] /\ \A n \in Nodes(m) : f[n] = ReadOf(m, n)
  BY <1>1, <1>3
<1> HIDE DEF f, N, T
<1>6. Table(f) = f /\ Len(f) = N /\ DOMAIN f = 1 .. N
  BY <1>2, <1>5, TableIs
<1>7. IsGraph(deps) /\ DOMAIN deps = Nodes(m) /\ \A n \in Nodes(m) : deps[n] = ReadOf(m, n)
  BY <1>1, <1>2, <1>4, <1>5, <1>6 DEF IsGraph
<1>8. Opens(m, deps)
  <2> SUFFICES ASSUME NEW S \in SUBSET Nodes(m), S # {}, \A n \in S : ~IsCopy(m, n)
               PROVE  \E n \in S : deps[n] \cap S = {}
    BY <1>7 DEF Opens
  <2>1. S \in SUBSET DOMAIN T
    BY <1>1
  <2>2. PICK n \in S : T[n].after \cap S = {}
    BY <1>1, <2>1
  <2>3. \A q \in CopiesTo(m, T[n].sub, T[n].reads) : IsCopy(m, q)
    BY DEF CopiesTo
  <2>4. ReadOf(m, n) = T[n].after \cup CopiesTo(m, T[n].sub, T[n].reads)
    BY DEF ReadOf, T
  <2>5. ReadOf(m, n) \cap S = {}
    BY <2>2, <2>3, <2>4
  <2> QED
    BY <1>7, <2>2, <2>5
<1> QED
  BY <1>7, <1>8

LEMMA PartsAreKinds ==
    ASSUME NEW deps, IsGraph(deps)
    PROVE  AreKinds(deps, IF Residual(deps) = {} THEN Table([n \in DOMAIN deps |-> {n}])
                          ELSE OrderedComponents(deps))
<1>1. CASE Residual(deps) # {}
  BY <1>1, OrderedComponentsAreKinds
<1>2. CASE Residual(deps) = {}
  <2> DEFINE V == DOMAIN deps
             N == Len(deps)
             order == TopologicalOrder(deps)
             f == [n \in V |-> {n}]
  <2>1. V = 1 .. N /\ N \in Nat
    BY DEF IsGraph
  <2>2. order \in Seq(V) /\ ToSet(order) = V
    <3>1. order \in Seq(V)
      BY KahnComplete
    <3> HIDE DEF order, V
    <3>2. ToSet(order) \subseteq V
      BY <3>1, SetOf
    <3>3. V \ ToSet(order) = {}
      BY <1>2 DEF Residual, order, V
    <3> QED
      BY <3>1, <3>2, <3>3
  <2>3. Kinds(deps, V) = {{n} : n \in ToSet(order)} \cup Kinds(deps, V \ ToSet(order))
    BY KindsOfOrder
  <2> HIDE DEF order
  <2>4. Kinds(deps, {}) = {}
    BY DEF Kinds
  <2>5. Kinds(deps, V) = {{n} : n \in V}
    BY <2>2, <2>3, <2>4
  <2> DEFINE K == Kinds(deps, V)
  <2>6. f \in [1 .. N -> K] /\ \A n \in V : f[n] = {n}
    BY <2>1, <2>5
  <2>7. \A p \in K : \E n \in V : p = {n}
    BY <2>5
  <2> HIDE DEF f, N, V, K
  <2>8. Table(f) = f /\ f \in Seq(K) /\ Len(f) = N
    BY <2>1, <2>6, TableIs
  <2>9. Once(f)
    BY <2>1, <2>6 DEF Once
  <2>10. ToSet(f) = K
    <3>1. DOMAIN f = V
      BY <2>1, <2>6
    <3>2. ToSet(f) = {f[i] : i \in V}
      BY <3>1 DEF ToSet
    <3>3. ASSUME NEW p \in K PROVE p \in {f[i] : i \in V}
      BY <2>6, <2>7
    <3>4. ASSUME NEW p \in {f[i] : i \in V} PROVE p \in K
      BY <2>1, <2>6
    <3> QED
      BY <3>2, <3>3, <3>4
  <2> QED
    BY <1>2, <2>8, <2>9, <2>10 DEF AreKinds, f, V, K
<1> QED
  BY <1>1, <1>2

\* The parts in the order of their dependencies.
Sequenced(deps, parts, condensed, order, nodes, positions) ==
    /\ AreKinds(deps, parts)
    /\ condensed = Condensed(deps, parts)
    /\ order = TopologicalOrder(condensed)
    /\ nodes = [i \in DOMAIN order |-> parts[order[i]]]
    /\ positions = Table([i \in DOMAIN order |->
                              {j \in DOMAIN order : order[j] \in condensed[order[i]]}])

LEMMA LayoutIs ==
    ASSUME NEW deps, IsGraph(deps), NEW parts, NEW condensed, NEW order, NEW nodes, NEW positions,
           Sequenced(deps, parts, condensed, order, nodes, positions)
    PROVE  /\ IsLayout(deps, nodes, positions)
           /\ DOMAIN order = 1 .. Len(order) /\ Len(order) \in Nat
<1> DEFINE V == DOMAIN deps
           K == Kinds(deps, V)
           L == Len(parts)
           O == Len(order)
           At(i) == {j \in DOMAIN order : order[j] \in condensed[order[i]]}
           f == [i \in DOMAIN order |-> At(i)]
<1>1. /\ L \in Nat /\ DOMAIN parts = 1 .. L
      /\ \A i \in 1 .. L : parts[i] \in K
      /\ \A p \in K : \E i \in 1 .. L : parts[i] = p
      /\ \A i, j \in 1 .. L : parts[i] = parts[j] => i = j
  <2>1. parts \in Seq(K) /\ Once(parts) /\ ToSet(parts) = K
    BY DEF AreKinds, Sequenced
  <2> HIDE DEF K
  <2>2. /\ L \in Nat /\ DOMAIN parts = 1 .. L
        /\ \A i \in DOMAIN parts : parts[i] \in ToSet(parts)
        /\ \A v \in ToSet(parts) : \E i \in DOMAIN parts : parts[i] = v
    BY <2>1, SetOf
  <2> QED
    BY <2>1, <2>2 DEF Once
<1>2. /\ order \in Seq(1 .. L) /\ Once(order) /\ ToSet(order) = 1 .. L
      /\ \A i \in DOMAIN order : \A d \in condensed[order[i]] :
            \E j \in DOMAIN order : j < i /\ order[j] = d
  BY CondensationIsOrdered DEF Sequenced
<1>3. /\ O \in Nat /\ DOMAIN order = 1 .. O
      /\ \A i \in 1 .. O : order[i] \in 1 .. L
      /\ \A k \in 1 .. L : \E i \in 1 .. O : order[i] = k
      /\ \A i, j \in 1 .. O : order[i] = order[j] => i = j
  <2> HIDE DEF L
  <2>1. /\ O \in Nat /\ DOMAIN order = 1 .. O
        /\ \A i \in DOMAIN order : order[i] \in ToSet(order)
        /\ \A v \in ToSet(order) : \E i \in DOMAIN order : order[i] = v
    BY <1>2, SetOf
  <2> QED
    BY <1>2, <2>1 DEF Once
<1>4. \A k \in 1 .. L : condensed[k] = {j \in (1 .. L) \ {k} :
                                           \E n \in parts[k] : deps[n] \cap parts[j] # {}}
  BY <1>1, CondensedIs DEF Sequenced
<1>5. /\ \A p \in K : p \subseteq V /\ p # {}
      /\ \A p, q \in K : p \cap q # {} => p = q
      /\ \A a \in V : a \in Kin(deps, V, a) /\ Kin(deps, V, a) \in K
      /\ \A a \in V, p \in K : a \in p => p = Kin(deps, V, a)
  BY KindsAreParts DEF AreParts, Kinds
<1> HIDE DEF V, K, L, O
<1>6. f \in [1 .. O -> SUBSET (1 .. O)] /\ \A i \in 1 .. O : f[i] = At(i)
  BY <1>3
<1> HIDE DEF f
<1>7. Table(f) = f /\ Len(f) = O /\ DOMAIN f = 1 .. O
  BY <1>3, <1>6, TableIs
<1>8. positions = f
  BY <1>7 DEF f, Sequenced
<1>9. IsGraph(positions) /\ DOMAIN positions = 1 .. O
  BY <1>3, <1>6, <1>7, <1>8 DEF IsGraph
<1>10. DOMAIN nodes = 1 .. O /\ \A i \in 1 .. O : nodes[i] = parts[order[i]] /\ nodes[i] \in K
  BY <1>1, <1>3 DEF Sequenced
<1>11. Backward(positions)
  <2>1. ASSUME NEW i \in 1 .. O, NEW j \in positions[i]
        PROVE  j < i
    <3>1. j \in 1 .. O /\ order[j] \in condensed[order[i]]
      BY <1>3, <1>6, <1>8
    <3>2. PICK k \in 1 .. O : k < i /\ order[k] = order[j]
      BY <1>2, <1>3, <3>1
    <3> QED
      BY <1>3, <3>1, <3>2
  <2> QED
    BY <1>9, <2>1 DEF Backward
<1>12. ASSUME NEW i \in 1 .. O, NEW j \in 1 .. O
       PROVE  /\ nodes[i] \cap nodes[j] # {} => i = j
              /\ j \in positions[i] <=> i # j /\ \E n \in nodes[i] : deps[n] \cap nodes[j] # {}
  <2>1. nodes[i] = nodes[j] => i = j
    BY <1>1, <1>3, <1>10
  <2>2. nodes[i] \cap nodes[j] # {} => i = j
    BY <1>5, <1>10, <2>1
  <2>3. j \in positions[i] <=> order[j] \in condensed[order[i]]
    BY <1>3, <1>6, <1>8
  <2>4. order[i] \in 1 .. L /\ order[j] \in 1 .. L /\ (order[i] = order[j] <=> i = j)
    BY <1>3
  <2>5. order[j] \in condensed[order[i]]
            <=> order[j] # order[i] /\ \E n \in parts[order[i]] : deps[n] \cap parts[order[j]] # {}
    BY <1>4, <2>4
  <2> QED
    BY <1>10, <2>2, <2>3, <2>4, <2>5
<1>13. ASSUME NEW n \in V
       PROVE  \E i \in 1 .. O : n \in nodes[i]
  <2>1. PICK k \in 1 .. L : parts[k] = Kin(deps, V, n)
    BY <1>1, <1>5
  <2>2. PICK i \in 1 .. O : order[i] = k
    BY <1>3
  <2> QED
    BY <1>5, <1>10, <2>1, <2>2
<1>14. \A i \in 1 .. O : /\ nodes[i] \subseteq V /\ nodes[i] # {}
                         /\ \A n \in nodes[i] : nodes[i] = Kin(deps, V, n)
  BY <1>5, <1>10
<1> QED
  BY <1>3, <1>9, <1>10, <1>11, <1>12, <1>13, <1>14 DEF IsLayout, V, O

\* Two nodes that differ are more than one.
LEMMA MoreThanOne ==
    ASSUME NEW S, IsFiniteSet(S), NEW a \in S
    PROVE  Cardinality(S) > 1 <=> \E b \in S : b # a
<1>1. CASE S = {a}
  <2>1. Cardinality({a}) = 1
    BY FS_Singleton
  <2> QED
    BY <1>1, <2>1
<1>2. CASE S # {a}
  <2>1. PICK b \in S : b # a
    BY <1>2
  <2>2. /\ Cardinality({a}) = 1 /\ IsFiniteSet({a}) /\ Cardinality(S) \in Nat
        /\ Cardinality({a}) <= Cardinality(S) /\ (Cardinality(S) = Cardinality({a}) => S = {a})
    <3>1. {a} \in SUBSET S
      OBVIOUS
    <3> QED
      BY <3>1, FS_Singleton, FS_Subset, FS_CardinalityType
  <2> QED
    BY <1>2, <2>1, <2>2
<1> QED
  BY <1>1, <1>2

\* An operation of the plan is a loop if it is cyclic; then one sweep of it
\* evaluates every node after what it depends on, or from a torn copy.
LEMMA OperationIs ==
    ASSUME NEW m, NEW deps, Opens(m, deps), NEW nodes, NEW positions,
           IsLayout(deps, nodes, positions), NEW i \in DOMAIN nodes
    PROVE  LET op == Operation(m, deps, nodes[i])
               S == nodes[i]
           IN  /\ op.nodes = S
               /\ op.loop <=> \E n \in S : deps[n] \cap S # {}
               /\ op.loop <=> op.tears # {}
               /\ \A n \in op.tears : IsCopy(m, n)
               /\ op.loop => OneSweep(deps, op)
               /\ op.loop \/ \A a, b \in S : a = b
<1> DEFINE S == nodes[i]
           torn == Torn(m, deps, S)
           op == Operation(m, deps, S)
<1>1. IsGraph(deps) /\ S \in SUBSET DOMAIN deps /\ S # {}
  BY DEF IsLayout
<1>2. \A a, b \in S : a # b => deps[b] \cap S # {}
  BY LayoutCycle
<1> HIDE DEF S
<1>3. IsFiniteSet(S)
  BY <1>1, NodesAreNumbers
<1>4. IsTearing(m, deps, S, torn) /\ torn.left = {}
  BY <1>1, TornIs
<1>5. /\ op.nodes = S /\ op.order = torn.order /\ op.tears = torn.tears
      /\ op.loop = (Cardinality(S) > 1 \/ \E n \in S : n \in deps[n])
  BY DEF Operation
<1> HIDE DEF torn, op
<1>6. PICK a \in S : TRUE
  BY <1>1
<1>7. Cardinality(S) > 1 <=> \E b \in S : b # a
  BY <1>3, MoreThanOne
<1>8. CASE Cardinality(S) > 1
  <2>1. PICK b \in S : b # a
    BY <1>7, <1>8
  <2>2. \A n \in S : n # a \/ n # b
    BY <2>1
  <2>3. \A n \in S : deps[n] \cap S # {}
    BY <1>2, <2>1, <2>2
  <2>4. op.loop /\ (\E n \in S : deps[n] \cap S # {}) /\ \A n \in S : deps[n] \cap S # {}
    BY <1>5, <1>8, <2>3
  <2>5. torn.tears # {}
    <3>1. /\ torn.order \in Seq(S) /\ ToSet(torn.order) = S
          /\ \A j \in DOMAIN torn.order : \A n \in deps[torn.order[j]] \cap S :
                torn.order[j] \in torn.tears \/ \E k \in 1 .. j - 1 : torn.order[k] = n
      BY <1>4 DEF IsTearing, Tearings
    <3> DEFINE o == torn.order
    <3> HIDE DEF o
    <3>2. Len(o) \in Nat /\ DOMAIN o = 1 .. Len(o) /\ \E j \in DOMAIN o : o[j] = a
      BY <3>1, SetOf DEF o
    <3>3. 1 \in DOMAIN o
      BY <3>2
    <3>4. o[1] \in S
      BY <3>1, <3>3 DEF o
    <3>5. PICK n \in S : n \in deps[o[1]]
      BY <2>3, <3>4
    <3>6. \A k : k \notin 1 .. 1 - 1
      OBVIOUS
    <3>7. o[1] \in torn.tears
      BY <3>1, <3>3, <3>5, <3>6 DEF o
    <3> QED
      BY <3>7
  <2>6. OneSweep(deps, op)
    BY <1>4, <1>5 DEF OneSweep, IsTearing
  <2>7. \A n \in op.tears : IsCopy(m, n)
    BY <1>4, <1>5 DEF IsTearing
  <2>8. op.loop <=> op.tears # {}
    BY <1>5, <2>4, <2>5
  <2> QED
    BY <1>5, <2>4, <2>6, <2>7, <2>8 DEF op, S
<1>9. CASE ~(Cardinality(S) > 1)
  <2>1. S = {a}
    BY <1>7, <1>9
  <2>2. op.loop <=> a \in deps[a]
    BY <1>5, <1>9, <2>1
  <2>3. op.loop <=> \E n \in S : deps[n] \cap S # {}
    BY <2>1, <2>2
  <2>4. \A x, y \in S : x = y
    BY <2>1
  <2>5. OneSweep(deps, op)
    BY <1>4, <1>5 DEF OneSweep, IsTearing
  <2>6. \A n \in op.tears : IsCopy(m, n)
    BY <1>4, <1>5 DEF IsTearing
  <2>7. ~op.loop => torn.tears = {}
    BY <1>4, <2>3 DEF IsTearing
  <2>8. op.loop => torn.tears # {}
    <3> SUFFICES ASSUME op.loop
                 PROVE  torn.tears # {}
      OBVIOUS
    <3>1. /\ torn.order \in Seq(S) /\ ToSet(torn.order) = S
          /\ \A j \in DOMAIN torn.order : \A n \in deps[torn.order[j]] \cap S :
                torn.order[j] \in torn.tears \/ \E k \in 1 .. j - 1 : torn.order[k] = n
      BY <1>4 DEF IsTearing, Tearings
    <3> DEFINE o == torn.order
    <3> HIDE DEF o
    <3>2. Len(o) \in Nat /\ DOMAIN o = 1 .. Len(o) /\ \E j \in DOMAIN o : o[j] = a
      BY <3>1, SetOf DEF o
    <3>3. 1 \in DOMAIN o
      BY <3>2
    <3>4. o[1] = a
      BY <2>1, <3>1, <3>3 DEF o
    <3>5. a \in deps[o[1]]
      BY <2>2, <3>4
    <3>6. \A k : k \notin 1 .. 1 - 1
      OBVIOUS
    <3>7. o[1] \in torn.tears
      BY <3>1, <3>3, <3>5, <3>6 DEF o
    <3> QED
      BY <3>7
  <2>9. op.loop <=> op.tears # {}
    BY <1>5, <2>7, <2>8
  <2> QED
    BY <1>5, <2>3, <2>4, <2>5, <2>6, <2>9 DEF op, S
<1> QED
  BY <1>8, <1>9

----------------------------------------------------------------------------
(***************************************************************************)
(* Operations in the order of the plan.                                    *)
(***************************************************************************)
\* The least of some numbers is the first in their order.
LEMMA SortedStep ==
    ASSUME NEW S \in SUBSET Nat, IsFiniteSet(S), NEW k \in S, \A j \in S : k <= j
    PROVE  /\ IsFiniteSet(S \ {k}) /\ Cardinality(S) = Cardinality(S \ {k}) + 1
           /\ Cardinality(S \ {k}) \in Nat
           /\ Sorted(S)[1] = k
           /\ \A i \in 1 .. Cardinality(S \ {k}) : Sorted(S)[i + 1] = Sorted(S \ {k})[i]
<1> DEFINE T == S \ {k}
           c == Cardinality(S)
           d == Cardinality(T)
           s == Sorted(S)
           t == Sorted(T)
<1>1. IsFiniteSet(T) /\ c = d + 1 /\ c \in Nat /\ d \in Nat
  <2>1. IsFiniteSet(T) /\ d = c - 1
    BY FS_RemoveElement
  <2>2. c \in Nat /\ d \in Nat
    BY <2>1, FS_CardinalityType
  <2> HIDE DEF c, d, T
  <2> QED
    BY <2>1, <2>2
<1>2. s \in [1 .. c -> S] /\ \A i \in 1 .. c : Rank(S, s[i]) = i - 1
  BY SortedIs
<1>3. t \in [1 .. d -> T] /\ \A i \in 1 .. d : Rank(T, t[i]) = i - 1
  BY <1>1, SortedIs
<1> HIDE DEF s, t, c
<1>4. \A a, b \in S : Rank(S, a) = Rank(S, b) => a = b
  <2> SUFFICES ASSUME NEW a \in S, NEW b \in S, Rank(S, a) = Rank(S, b), a # b
               PROVE  FALSE
    OBVIOUS
  <2>1. a < b \/ b < a
    OBVIOUS
  <2> QED
    BY <2>1, RanksDiffer
<1>5. Rank(S, k) = 0
  <2>1. \A m \in S : ~(m < k)
    OBVIOUS
  <2>2. {m \in S : m < k} = {}
    BY <2>1
  <2> QED
    BY <2>2, FS_EmptySet DEF Rank
<1>6. ASSUME NEW a \in T
      PROVE  Rank(S, a) = Rank(T, a) + 1 /\ Rank(T, a) \in Int
  <2> DEFINE A == {m \in S : m < a}
             B == {m \in T : m < a}
  <2>1. k < a /\ a \in S
    OBVIOUS
  <2>2. A = B \cup {k} /\ k \notin B
    BY <2>1
  <2>3. B \in SUBSET S
    OBVIOUS
  <2>6. Rank(S, a) = Cardinality(A) /\ Rank(T, a) = Cardinality(B)
    BY DEF Rank
  <2> HIDE DEF A, B
  <2>4. IsFiniteSet(B)
    BY <2>3, FS_Subset
  <2>5. Cardinality(B \cup {k}) = Cardinality(B) + 1 /\ Cardinality(B) \in Nat
    BY <2>2, <2>4, FS_AddElement, FS_CardinalityType
  <2> QED
    BY <2>2, <2>5, <2>6
<1> HIDE DEF d, T
<1>7. s[1] = k
  <2>1. 1 \in 1 .. c
    BY <1>1
  <2>2. s[1] \in S /\ Rank(S, s[1]) = 0
    BY <1>2, <2>1
  <2> QED
    BY <1>4, <1>5, <2>2
<1>8. ASSUME NEW i \in 1 .. d
      PROVE  s[i + 1] = t[i]
  <2>1. i + 1 \in 1 .. c /\ i \in Nat
    BY <1>1
  <2>2. s[i + 1] \in S /\ Rank(S, s[i + 1]) = i
    BY <1>2, <2>1
  <2>3. t[i] \in T /\ Rank(T, t[i]) = i - 1
    BY <1>3
  <2>4. Rank(S, t[i]) = i
    BY <1>6, <2>1, <2>3
  <2> QED
    BY <1>4, <2>2, <2>3, <2>4 DEF T
<1> QED
  BY <1>1, <1>7, <1>8 DEF s, t, c, d, T

LEMMA InOrderIs ==
    ASSUME NEW p, NEW S \in SUBSET Nat, IsFiniteSet(S), NEW R, \A k \in S : p.operations[k] \in R
    PROVE  LET o == InOrder(p, S)
           IN  /\ Len(o) = Cardinality(S) /\ Cardinality(S) \in Nat /\ o \in Seq(R)
               /\ \A i \in 1 .. Cardinality(S) : o[i] = p.operations[Sorted(S)[i]]
<1> DEFINE c == Cardinality(S)
           s == Sorted(S)
           f == [i \in DOMAIN s |-> p.operations[s[i]]]
<1>1. c \in Nat /\ s \in [1 .. c -> S]
  BY SortedIs
<1>2. InOrder(p, S) = Table(f)
  BY DEF InOrder
<1> HIDE DEF c, s
<1>3. f \in [1 .. c -> R] /\ \A i \in 1 .. c : f[i] = p.operations[s[i]]
  BY <1>1
<1> HIDE DEF f
<1>4. Table(f) = f /\ f \in Seq(R) /\ Len(f) = c
  BY <1>1, <1>3, TableIs
<1> QED
  BY <1>1, <1>2, <1>3, <1>4 DEF c, s

LEMMA InOrderStep ==
    ASSUME NEW p, NEW S \in SUBSET Nat, IsFiniteSet(S), NEW k \in S, \A j \in S : k <= j
    PROVE  /\ InOrder(p, S) # <<>> /\ Head(InOrder(p, S)) = p.operations[k]
           /\ Tail(InOrder(p, S)) = InOrder(p, S \ {k})
<1> DEFINE T == S \ {k}
           R == {p.operations[j] : j \in S}
           a == InOrder(p, S)
           b == InOrder(p, T)
           c == Cardinality(S)
           d == Cardinality(T)
<1>1. /\ IsFiniteSet(T) /\ c = d + 1 /\ d \in Nat /\ Sorted(S)[1] = k
      /\ \A i \in 1 .. d : Sorted(S)[i + 1] = Sorted(T)[i]
  BY SortedStep
<1>2. /\ T \in SUBSET Nat
      /\ \A j \in S : p.operations[j] \in R
      /\ \A j \in T : p.operations[j] \in R
  OBVIOUS
<1> HIDE DEF R, T
<1>3. /\ Len(a) = c /\ a \in Seq(R) /\ \A i \in 1 .. c : a[i] = p.operations[Sorted(S)[i]]
  BY <1>2, InOrderIs
<1>4. /\ Len(b) = d /\ b \in Seq(R) /\ \A i \in 1 .. d : b[i] = p.operations[Sorted(T)[i]]
  BY <1>1, <1>2, InOrderIs, SMTT(30)
<1> HIDE DEF a, b, c, d
<1>5. a # <<>> /\ Head(a) = a[1] /\ Len(Tail(a)) = d /\ Tail(a) \in Seq(R)
      /\ \A i \in 1 .. d : Tail(a)[i] = a[i + 1]
  BY <1>1, <1>3
<1>6. a[1] = p.operations[k]
  BY <1>1, <1>3
<1>7. \A i \in 1 .. d : Tail(a)[i] = b[i]
  <2> SUFFICES ASSUME NEW i \in 1 .. d
               PROVE  Tail(a)[i] = b[i]
    OBVIOUS
  <2>1. i + 1 \in 1 .. c
    BY <1>1
  <2> QED
    BY <1>1, <1>3, <1>4, <1>5, <2>1
<1>8. Tail(a) = b
  BY <1>4, <1>5, <1>7
<1> QED
  BY <1>5, <1>6, <1>8 DEF a, b, T

LEMMA InOrderNone ==
    ASSUME NEW p
    PROVE  InOrder(p, {}) = <<>>
<1>1. Cardinality({}) = 0 /\ IsFiniteSet({}) /\ {} \in SUBSET Nat
  BY FS_EmptySet
<1>2. Len(InOrder(p, {})) = 0 /\ InOrder(p, {}) \in Seq({})
  BY <1>1, InOrderIs
<1> QED
  BY <1>2

LEMMA InOrderAll ==
    ASSUME NEW p, NEW N \in Nat, p.operations = [i \in 1 .. N |-> p.operations[i]]
    PROVE  InOrder(p, 1 .. N) = p.operations
<1> DEFINE S == 1 .. N
           R == {p.operations[i] : i \in S}
           a == InOrder(p, S)
<1>1. S \in SUBSET Nat /\ IsFiniteSet(S) /\ Cardinality(S) = N
  BY FS_Interval
<1>2. Sorted(S) = [i \in 1 .. N |-> i]
  BY SortedInterval
<1>3. \A k \in S : p.operations[k] \in R
  OBVIOUS
<1> HIDE DEF S, R
<1>4. /\ Len(a) = N /\ a \in Seq(R)
      /\ \A i \in 1 .. N : a[i] = p.operations[Sorted(S)[i]]
  <2>1. /\ Len(a) = Cardinality(S) /\ a \in Seq(R)
        /\ \A i \in 1 .. Cardinality(S) : a[i] = p.operations[Sorted(S)[i]]
    BY <1>1, <1>3, InOrderIs, ZenonT(60)
  <2> QED
    BY <1>1, <2>1
<1> HIDE DEF a
<1>5. a \in [1 .. N -> R] /\ \A i \in 1 .. N : a[i] = p.operations[i]
  BY <1>2, <1>4
<1>6. a = p.operations
  BY <1>5
<1> QED
  BY <1>6 DEF a, S

----------------------------------------------------------------------------
(***************************************************************************)
(* The invariant of the evaluation.                                        *)
(***************************************************************************)
Building == {"connect", "analyze", "condense", "sort", "collapse", "cut"}
GroupCalls == {"windowed", "system", "own", "feed"}

Required ==
    {i \in DOMAIN plan.operations :
        \E n \in plan.operations[i].nodes : ReadByRhs(declared, n)}
Holding == OwnedBy(declared, plan, {h[1] : h \in model.held})
Windowed == OwnedBy(declared, plan, model.windowed)
Inward == Boundary(declared, plan, model.windowed)
InwardNodes == UNION {plan.operations[i].nodes : i \in Inward}

\* What has been built of the plan when the next step is c.
BuiltUpTo(c) ==
    /\ plan = [deps |-> plan.deps, parts |-> plan.parts, condensed |-> plan.condensed,
               order |-> plan.order, operations |-> plan.operations,
               positions |-> plan.positions, rhs |-> plan.rhs, zoh |-> plan.zoh]
    /\ c \notin {"connect"} => plan.deps = SignalDependencies(declared)
    /\ c \notin {"connect", "analyze"} => AreKinds(plan.deps, plan.parts)
    /\ c \notin {"connect", "analyze", "condense"} =>
          plan.condensed = Condensed(plan.deps, plan.parts)
    /\ c \notin {"connect", "analyze", "condense", "sort"} =>
          plan.order = TopologicalOrder(plan.condensed)
    /\ c \notin {"connect", "analyze", "condense", "sort", "collapse"} =>
          /\ plan.operations = Table([i \in DOMAIN plan.order |->
                                  Operation(declared, plan.deps, plan.parts[plan.order[i]])])
          /\ plan.positions = Table([i \in DOMAIN plan.order |->
                                  {j \in DOMAIN plan.order :
                                      plan.order[j] \in plan.condensed[plan.order[i]]}])
    /\ c \notin Building =>
          plan.rhs = Live(Required, plan.positions) /\ plan.zoh = Affected(Holding, plan.positions)

\* The operations a call is to do.
Chosen(c) ==
    CASE c = "sync" -> DOMAIN plan.operations
      [] c = "rhs" -> plan.rhs
      [] c = "zoh" -> plan.zoh
      [] c = "windowed" -> Closure(Windowed, plan.positions)
      [] c = "system" ->
             Closure(OwnedBy(declared, plan, model.subsystems \ model.windowed), plan.positions)
      [] c = "feed" -> Closure(Inward, plan.positions)
      [] c = "own" -> Windowed \ Inward

GroupsKept ==
    /\ group.revision \in Nat /\ group.revision <= plan_revision
    /\ call \in Building => plan_revision = 0 \/ group.revision < plan_revision
    /\ call \in GroupCalls => group.revision = plan_revision
    /\ call \in Calls \cup {"none"} /\ group.revision = plan_revision =>
          group = Grouped(declared, plan, plan_revision)

AnswersKept ==
    /\ call \in Building \cup {"solver"} => DOMAIN answers = {}
    /\ \A members \in DOMAIN answers : answers[members] = Reaches(declared, plan, members)

\* When all outputs were evaluated, only held inputs have changed since.
SyncedUpToHeld ==
    synced => /\ call \in {"none", "zoh"}
              /\ \A i \in DOMAIN plan.operations \ plan.zoh :
                    plan.operations[i].nodes \subseteq present

\* The operations still to be done come after those that are done, and these
\* are present.
Progress(todo) ==
    /\ todo \subseteq Chosen(call) /\ remaining = InOrder(plan, todo)
    /\ \A i \in Chosen(call) \ todo : \A j \in todo : i < j
    /\ (call = "own" => ~Split(declared, plan)) =>
          \A i \in Chosen(call) \ todo : plan.operations[i].nodes \subseteq present
    /\ call = "zoh" => synced
    /\ call = "own" => InwardNodes \subseteq present /\ inputs_set = InwardNodes

EvaluationInv ==
    /\ model \in Models
    /\ plan_revision \in 0 .. Len(model.stages) - 1 /\ declared = plan_revision + 1
    /\ call \in Building \cup {"solver", "none"} \cup Calls
    /\ BuiltUpTo(call)
    /\ GroupsKept
    /\ AnswersKept
    /\ SyncedUpToHeld
    /\ IF call \in Calls THEN \E todo : Progress(todo) ELSE remaining = <<>>

LEMMA PlanFrame ==
    ASSUME model' = model, declared' = declared, plan' = plan
    PROVE  /\ \A r : Grouped(declared, plan, r)' = Grouped(declared, plan, r)
           /\ \A c : Chosen(c)' = Chosen(c)
           /\ Split(declared, plan)' <=> Split(declared, plan)
           /\ \A members : Reaches(declared, plan, members)' <=> Reaches(declared, plan, members)
           /\ InwardNodes' = InwardNodes
<1>1. \A r : Grouped(declared, plan, r)' = Grouped(declared, plan, r)
  BY DEF Grouped, GroupPlan, OwnedBy, Boundary, Copied, OperationOwners, OperationSources,
         NodeOwners, SourcesOf, IsCopy, CopyOf, Copies, Stages
<1>2. \A c : Chosen(c)' = Chosen(c)
  BY DEF Chosen, Windowed, Inward, OwnedBy, Boundary, Copied, OperationOwners, OperationSources,
         NodeOwners, SourcesOf, IsCopy, CopyOf, Copies, Stages
<1>3. Split(declared, plan)' <=> Split(declared, plan)
  BY DEF Split, OwnedBy, OperationOwners, OperationSources,
         NodeOwners, SourcesOf, IsCopy, CopyOf, Copies, Stages
<1>4. \A members : Reaches(declared, plan, members)' <=> Reaches(declared, plan, members)
  BY DEF Reaches, External, OwnedBy, OperationOwners, NodeOwners, IsCopy, CopyOf, Copies, Stages
<1>5. InwardNodes' = InwardNodes
  BY DEF InwardNodes, Inward, OwnedBy, Boundary, Copied, OperationOwners, OperationSources,
         NodeOwners, SourcesOf, IsCopy, CopyOf, Copies, Stages
<1> QED
  BY <1>1, <1>2, <1>3, <1>4, <1>5

LEMMA ModelFrame ==
    ASSUME model' = model, declared' = declared
    PROVE  /\ SignalDependencies(declared)' = SignalDependencies(declared)
           /\ Nodes(declared)' = Nodes(declared)
           /\ \A deps, nodes : Operation(declared, deps, nodes)' = Operation(declared, deps, nodes)
<1>1. SignalDependencies(declared)' = SignalDependencies(declared)
  BY DEF SignalDependencies, Nodes, Producers, CopiesTo, IsCopy, CopyOf, Copies, Stages
<1>2. Nodes(declared)' = Nodes(declared)
  BY DEF Nodes, Copies, Stages
<1>3. \A deps, nodes : Operation(declared, deps, nodes)' = Operation(declared, deps, nodes)
  BY DEF Operation, Torn, TearTurn, FirstCopy, IsCopy, Copies, Stages
<1> QED
  BY <1>1, <1>2, <1>3

LEMMA MarksFrame ==
    ASSUME model' = model, declared' = declared, plan.operations' = plan.operations
    PROVE  Required' = Required /\ Holding' = Holding
<1>1. Required' = Required
  BY DEF Required, ReadByRhs, IsCopy, CopyOf, Copies, Stages
<1>2. Holding' = Holding
  BY DEF Holding, OwnedBy, OperationOwners, NodeOwners, IsCopy, CopyOf, Copies, Stages
<1> QED
  BY <1>1, <1>2

LEMMA BuiltFrame ==
    ASSUME model' = model, declared' = declared, plan' = plan, BuiltUpTo(call),
           call \notin Building
    PROVE  BuiltUpTo(call)'
<1>1. SignalDependencies(declared)' = SignalDependencies(declared)
  BY ModelFrame
<1>2. \A deps, nodes : Operation(declared, deps, nodes)' = Operation(declared, deps, nodes)
  BY ModelFrame
<1>3. Required' = Required /\ Holding' = Holding
  BY MarksFrame
<1>4. BuiltUpTo("none")
  BY DEF BuiltUpTo, Building
<1>5. \A i \in DOMAIN plan.order :
         Operation(declared, plan.deps, plan.parts[plan.order[i]])'
             = Operation(declared, plan.deps, plan.parts[plan.order[i]])
  BY <1>2
<1> QED
  BY <1>1, <1>3, <1>4, <1>5 DEF BuiltUpTo, Building

PlanNodes == [i \in DOMAIN plan.operations |-> plan.operations[i].nodes]

\* The operations of a plan that is built.
LEMMA OperationsAre ==
    ASSUME model \in Models, declared \in 1 .. Len(model.stages), NEW c, BuiltUpTo(c),
           c \notin Building \ {"cut"}
    PROVE  /\ plan.deps = SignalDependencies(declared)
           /\ IsLayout(plan.deps, PlanNodes, plan.positions)
           /\ DOMAIN plan.deps = Nodes(declared)
           /\ DOMAIN plan.operations = 1 .. Len(plan.operations) /\ Len(plan.operations) \in Nat
           /\ plan.operations = [i \in DOMAIN plan.operations |-> plan.operations[i]]
           /\ DOMAIN plan.positions = DOMAIN plan.operations
           /\ \A i \in DOMAIN plan.operations :
                 plan.operations[i] = Operation(declared, plan.deps, PlanNodes[i])
<1> DEFINE D == plan.deps
           O == Len(plan.order)
           Done(i) == Operation(declared, D, plan.parts[plan.order[i]])
           f == [i \in DOMAIN plan.order |-> Done(i)]
           nodes == [i \in DOMAIN plan.order |-> plan.parts[plan.order[i]]]
<1>1. /\ D = SignalDependencies(declared)
      /\ AreKinds(D, plan.parts)
      /\ plan.condensed = Condensed(D, plan.parts)
      /\ plan.order = TopologicalOrder(plan.condensed)
      /\ plan.operations = Table(f)
      /\ plan.positions = Table([i \in DOMAIN plan.order |->
                             {j \in DOMAIN plan.order :
                                 plan.order[j] \in plan.condensed[plan.order[i]]}])
  BY DEF BuiltUpTo, Building
<1>2. IsGraph(D) /\ DOMAIN D = Nodes(declared)
  BY <1>1, DependenciesAre
<1>3. Sequenced(D, plan.parts, plan.condensed, plan.order, nodes, plan.positions)
  BY <1>1 DEF Sequenced
<1> HIDE DEF nodes, D
<1>4. IsLayout(D, nodes, plan.positions) /\ DOMAIN plan.order = 1 .. O /\ O \in Nat
  BY <1>2, <1>3, LayoutIs
<1>5. /\ DOMAIN nodes = 1 .. O /\ \A i \in 1 .. O : Done(i) = Operation(declared, D, nodes[i])
      /\ nodes = [i \in 1 .. O |-> nodes[i]]
  BY <1>4 DEF nodes
<1> DEFINE R == {Done(i) : i \in 1 .. O}
<1> HIDE DEF O, Done
<1>6. f \in [1 .. O -> R] /\ \A i \in 1 .. O : f[i] = Done(i)
  BY <1>4
<1> HIDE DEF f, R
<1>7. Table(f) = f /\ Len(f) = O
  BY <1>4, <1>6, TableIs
<1>8. /\ plan.operations = f /\ DOMAIN plan.operations = 1 .. O /\ Len(plan.operations) = O
      /\ \A i \in 1 .. O : plan.operations[i] = Operation(declared, D, nodes[i])
  BY <1>1, <1>5, <1>6, <1>7
<1>12. plan.operations = [i \in 1 .. O |-> plan.operations[i]]
  BY <1>6, <1>8
<1>9. \A i \in 1 .. O : plan.operations[i].nodes = nodes[i]
  BY <1>8 DEF Operation
<1>10. PlanNodes = nodes
  BY <1>5, <1>8, <1>9 DEF PlanNodes
<1>11. DOMAIN plan.positions = 1 .. O
  BY <1>4, <1>5 DEF IsLayout
<1> QED
  BY <1>1, <1>2, <1>4, <1>8, <1>10, <1>11, <1>12 DEF D

\* What the calls need to know of the plan.
LEMMA PlanIs ==
    ASSUME model \in Models, declared \in 1 .. Len(model.stages), NEW c, BuiltUpTo(c),
           c \notin Building
    PROVE  LET D == plan.deps
               K == DOMAIN plan.operations
           IN  /\ D = SignalDependencies(declared) /\ IsLayout(D, PlanNodes, plan.positions)
               /\ IsGraph(D) /\ DOMAIN D = Nodes(declared)
               /\ \A n \in Nodes(declared) : D[n] = ReadOf(declared, n)
               /\ K = 1 .. Len(plan.operations) /\ Len(plan.operations) \in Nat
               /\ IsGraph(plan.positions) /\ DOMAIN plan.positions = K
               /\ Backward(plan.positions)
               /\ DOMAIN PlanNodes = K /\ \A i \in K : PlanNodes[i] = plan.operations[i].nodes
               /\ \A n \in Nodes(declared) : \E i \in K : n \in plan.operations[i].nodes
               /\ \A i \in K : plan.operations[i].nodes \subseteq Nodes(declared)
               /\ \A i, j \in K :
                     plan.operations[i].nodes \cap plan.operations[j].nodes # {} => i = j
               /\ plan.rhs = Live(Required, plan.positions)
               /\ plan.zoh = Affected(Holding, plan.positions)
<1>1. /\ plan.deps = SignalDependencies(declared)
      /\ IsLayout(plan.deps, PlanNodes, plan.positions)
      /\ DOMAIN plan.deps = Nodes(declared)
      /\ DOMAIN plan.operations = 1 .. Len(plan.operations) /\ Len(plan.operations) \in Nat
      /\ DOMAIN plan.positions = DOMAIN plan.operations
  BY OperationsAre DEF Building
<1>2. /\ plan.rhs = Live(Required, plan.positions) /\ plan.zoh = Affected(Holding, plan.positions)
  BY DEF BuiltUpTo
<1>3. \A n \in Nodes(declared) : plan.deps[n] = ReadOf(declared, n)
  BY <1>1, DependenciesAre
<1>4. /\ DOMAIN PlanNodes = DOMAIN plan.operations
      /\ \A i \in DOMAIN plan.operations : PlanNodes[i] = plan.operations[i].nodes
  BY DEF PlanNodes
<1>5. /\ IsGraph(plan.deps) /\ IsGraph(plan.positions) /\ Backward(plan.positions)
      /\ \A n \in DOMAIN plan.deps : \E i \in DOMAIN PlanNodes : n \in PlanNodes[i]
      /\ \A i \in DOMAIN PlanNodes : PlanNodes[i] \subseteq DOMAIN plan.deps
      /\ \A i, j \in DOMAIN PlanNodes : PlanNodes[i] \cap PlanNodes[j] # {} => i = j
  BY <1>1 DEF IsLayout
<1> HIDE DEF PlanNodes
<1>6. /\ \A n \in Nodes(declared) : \E i \in DOMAIN plan.operations : n \in plan.operations[i].nodes
      /\ \A i \in DOMAIN plan.operations : plan.operations[i].nodes \subseteq Nodes(declared)
      /\ \A i, j \in DOMAIN plan.operations :
            plan.operations[i].nodes \cap plan.operations[j].nodes # {} => i = j
  BY <1>1, <1>4, <1>5
<1> QED
  BY <1>1, <1>2, <1>3, <1>4, <1>5, <1>6

\* Every call but two does all that its operations depend on.
LEMMA ChosenIs ==
    ASSUME model \in Models, declared \in 1 .. Len(model.stages), NEW c, BuiltUpTo(c),
           c \notin Building, NEW name \in Calls
    PROVE  /\ Chosen(name) \subseteq DOMAIN plan.operations
           /\ name \notin {"zoh", "own"} => Supplied(plan.positions, Chosen(name))
<1> DEFINE K == DOMAIN plan.operations
           P == plan.positions
<1>1. /\ IsGraph(P) /\ DOMAIN P = K /\ Backward(P)
      /\ plan.rhs = Live(Required, P) /\ plan.zoh = Affected(Holding, P)
  BY PlanIs
<1>2. Required \in SUBSET K /\ Holding \in SUBSET K /\ Windowed \in SUBSET K /\ Inward \in SUBSET K
  BY DEF Required, Holding, Windowed, Inward, OwnedBy, Boundary
<1>3. OwnedBy(declared, plan, model.subsystems \ model.windowed) \in SUBSET K
  BY DEF OwnedBy
<1> HIDE DEF K, P
<1>4. \A S \in SUBSET K : Closure(S, P) \in SUBSET K /\ Supplied(P, Closure(S, P))
  BY <1>1, ClosureIs
<1>5. CASE name = "sync"
  BY <1>1, <1>5 DEF Chosen, Supplied, IsGraph, K, P
<1>6. CASE name = "rhs"
  <2>1. Live(Required, P) \in SUBSET K /\ Supplied(P, Live(Required, P))
    BY <1>1, <1>2, LiveIs
  <2> QED
    BY <1>1, <1>6, <2>1 DEF Chosen, K, P
<1>7. CASE name = "zoh"
  <2>1. Affected(Holding, P) \in SUBSET K
    BY <1>1, <1>2, AffectedIs
  <2> QED
    BY <1>1, <1>7, <2>1 DEF Chosen, K, P
<1>8. CASE name = "windowed"
  BY <1>2, <1>4, <1>8 DEF Chosen, K, P
<1>9. CASE name = "system"
  BY <1>3, <1>4, <1>9 DEF Chosen, K, P
<1>10. CASE name = "feed"
  BY <1>2, <1>4, <1>10 DEF Chosen, K, P
<1>11. CASE name = "own"
  BY <1>2, <1>11 DEF Chosen, K, P
<1> QED
  BY <1>5, <1>6, <1>7, <1>8, <1>9, <1>10, <1>11 DEF Calls

\* Nodes that held inputs reach are of operations that a new evaluation does.
LEMMA HeldReach ==
    ASSUME model \in Models, declared \in 1 .. Len(model.stages), NEW c, BuiltUpTo(c),
           c \notin Building, NEW h \in model.held, NEW i \in DOMAIN plan.operations \ plan.zoh
    PROVE  plan.operations[i].nodes \cap Behind(plan.deps, ReadersOf(h)) = {}
<1> DEFINE D == plan.deps
           K == DOMAIN plan.operations
           P == plan.positions
           N(k) == plan.operations[k].nodes
           B == Behind(D, ReadersOf(h))
           S == {n \in DOMAIN D : \E k \in plan.zoh : n \in N(k)}
<1>1. /\ IsGraph(D) /\ DOMAIN D = Nodes(declared) /\ IsLayout(D, PlanNodes, P)
      /\ IsGraph(P) /\ DOMAIN P = K /\ Backward(P)
      /\ DOMAIN PlanNodes = K /\ \A k \in K : PlanNodes[k] = N(k)
      /\ \A n \in DOMAIN D : \E k \in K : n \in N(k)
      /\ \A k, l \in K : N(k) \cap N(l) # {} => k = l
      /\ plan.zoh = Affected(Holding, P)
  BY PlanIs
<1>2. Holding \in SUBSET K
  BY DEF Holding, OwnedBy
<1>3. ReadersOf(h) \in SUBSET DOMAIN D /\ \A n \in ReadersOf(h) : h[1] \in NodeOwners(declared, n)
  <2>1. /\ DOMAIN Stages(declared) \subseteq Nodes(declared)
        /\ \A n \in Nodes(declared) : IsCopy(declared, n) <=> n \notin DOMAIN Stages(declared)
        /\ \A n \in DOMAIN Stages(declared) :
              Stages(declared)[n].sub \in Stages(declared)[n].owners
    BY ModelIs
  <2> QED
    BY <1>1, <2>1 DEF ReadersOf, NodeOwners
<1>4. \A k, l \in K : l \in P[k] <=> k # l /\ \E x \in N(k) : D[x] \cap N(l) # {}
  BY <1>1 DEF IsLayout
<1>5. ASSUME NEW n \in ReadersOf(h)
      PROVE  \E k \in Holding : n \in N(k)
  <2>1. PICK k \in K : n \in N(k)
    BY <1>1, <1>3
  <2>2. h[1] \in OperationOwners(declared, plan.operations[k])
    BY <1>3, <2>1 DEF OperationOwners
  <2>3. k \in Holding
    BY <2>2 DEF Holding, OwnedBy
  <2> QED
    BY <2>1, <2>3
<1> HIDE DEF D, K, P, N, B
<1>6. /\ Holding \subseteq plan.zoh /\ plan.zoh \in SUBSET K
      /\ \A k \in K : P[k] \cap plan.zoh # {} => k \in plan.zoh
  BY <1>1, <1>2, AffectedIs
<1>7. ReadersOf(h) \subseteq S /\ S \in SUBSET DOMAIN D
  BY <1>3, <1>5, <1>6
<1>8. ASSUME NEW x \in DOMAIN D, NEW q \in D[x], q \in S
      PROVE  x \in S
  <2>1. PICK k \in plan.zoh : q \in N(k)
    BY <1>8
  <2>2. PICK l \in K : x \in N(l)
    BY <1>1
  <2>3. l = k \/ k \in P[l]
    BY <1>4, <1>6, <2>1, <2>2
  <2>4. l \in plan.zoh
    BY <1>6, <2>1, <2>2, <2>3
  <2> QED
    BY <2>2, <2>4
<1>9. \A x \in DOMAIN D : D[x] \cap S # {} => x \in S
  BY <1>8
<1> HIDE DEF S
<1>10. B \subseteq S
  <2>1. \A T \in SUBSET DOMAIN D :
           ReadersOf(h) \subseteq T /\ (\A x \in DOMAIN D : D[x] \cap T # {} => x \in T)
           => Behind(D, ReadersOf(h)) \subseteq T
    BY <1>1, <1>3, BehindIs
  <2> QED
    BY <1>7, <1>9, <2>1 DEF B
<1>11. i \in K /\ i \notin plan.zoh
  BY DEF K
<1>12. N(i) \cap B = {}
  BY <1>1, <1>6, <1>10, <1>11 DEF S
<1> QED
  BY <1>12 DEF N, B, D

\* What an operation of the windowed group reads is of the group, unless the
\* group is split or it is an input from outside.
LEMMA OwnReads ==
    ASSUME model \in Models, declared \in 1 .. Len(model.stages), NEW c, BuiltUpTo(c),
           c \notin Building, ~Split(declared, plan), NEW i \in Windowed \ Inward,
           NEW j \in DOMAIN plan.operations, NEW n \in plan.operations[i].nodes,
           NEW q \in plan.deps[n], q \in plan.operations[j].nodes
    PROVE  j \in Windowed
<1> DEFINE K == DOMAIN plan.operations
           op == plan.operations[i]
           T == Stages(declared)
           W == model.windowed
<1>1. /\ IsLayout(plan.deps, PlanNodes, plan.positions) /\ plan.deps = SignalDependencies(declared)
      /\ DOMAIN PlanNodes = K
      /\ \A k \in K : PlanNodes[k] = plan.operations[k].nodes
      /\ \A k \in K : plan.operations[k].nodes \subseteq Nodes(declared)
      /\ \A x \in Nodes(declared) : plan.deps[x] = ReadOf(declared, x)
  BY PlanIs
<1>2. i \in K /\ i \in Windowed /\ i \notin Inward
  BY DEF Windowed, OwnedBy
<1>3. /\ DOMAIN T \subseteq Nodes(declared)
      /\ \A x \in Nodes(declared) : IsCopy(declared, x) <=> x \notin DOMAIN T
      /\ \A x \in DOMAIN T : T[x].sub \in T[x].owners /\ T[x].after \subseteq DOMAIN T
  BY ModelIs
<1>4. n \in Nodes(declared) /\ q \in ReadOf(declared, n) /\ q \in Nodes(declared)
  BY <1>1, <1>2
<1>5. op.loop \/ \A a, b \in op.nodes : a = b
  <2>1. op = Operation(declared, plan.deps, PlanNodes[i])
    BY <1>2, OperationsAre
  <2>2. Opens(declared, plan.deps)
    BY <1>1, DependenciesAre
  <2>3. LET o == Operation(declared, plan.deps, PlanNodes[i])
        IN  o.nodes = PlanNodes[i] /\ (o.loop \/ \A a, b \in PlanNodes[i] : a = b)
    BY <1>1, <1>2, <2>2, OperationIs
  <2> QED
    BY <2>1, <2>3
<1>6. op.loop => OperationOwners(declared, op) \cup OperationSources(declared, op) \subseteq W
  BY <1>2 DEF Split, Windowed
<1>7. ~IsCopy(declared, n) =>
          /\ T[n].sub \in W
          /\ \A a \in T[n].after : NodeOwners(declared, a) \cap W # {}
  BY <1>2 DEF Split, Windowed
<1>8. NodeOwners(declared, q) \cap W # {} => j \in Windowed
  BY DEF Windowed, OwnedBy, OperationOwners
<1>9. CASE IsCopy(declared, n)
  <2>1. SourcesOf(declared, n) \subseteq W
    <3>1. CASE op.loop
      BY <1>6, <3>1 DEF OperationSources
    <3>2. CASE ~op.loop
      <4>1. \A a \in op.nodes : IsCopy(declared, a)
        BY <1>5, <1>9, <3>2
      <4>2. Copied(declared, op)
        BY <3>2, <4>1 DEF Copied
      <4>3. OperationSources(declared, op) \subseteq W
        BY <1>2, <4>2 DEF Inward, Boundary, Windowed
      <4> QED
        BY <4>3 DEF OperationSources
    <3> QED
      BY <3>1, <3>2
  <2>2. q \in Producers(declared, CopyOf(declared, n).from)
    BY <1>4, <1>9 DEF ReadOf
  <2>3. PICK f : q \in DOMAIN T /\ <<T[q].sub, f>> \in CopyOf(declared, n).from
    BY <2>2 DEF Producers
  <2>4. T[q].sub \in SourcesOf(declared, n)
    <3>1. <<T[q].sub, f>>[1] = T[q].sub
      OBVIOUS
    <3> QED
      BY <1>9, <2>3, <3>1 DEF SourcesOf
  <2>5. ~IsCopy(declared, q) /\ T[q].sub \in T[q].owners
    BY <1>3, <1>4, <2>3
  <2>6. T[q].sub \in NodeOwners(declared, q)
    BY <2>5 DEF NodeOwners
  <2> QED
    BY <1>8, <2>1, <2>4, <2>6
<1>10. CASE ~IsCopy(declared, n)
  <2>1. q \in T[n].after \/ q \in CopiesTo(declared, T[n].sub, T[n].reads)
    BY <1>4, <1>10 DEF ReadOf
  <2>2. CASE q \in T[n].after
    BY <1>7, <1>8, <1>10, <2>2
  <2>3. CASE q \in CopiesTo(declared, T[n].sub, T[n].reads)
    <3>1. NodeOwners(declared, q) = {T[n].sub}
      BY <2>3 DEF CopiesTo, NodeOwners
    <3> QED
      BY <1>7, <1>8, <1>10, <3>1
  <2> QED
    BY <2>1, <2>2, <2>3
<1> QED
  BY <1>9, <1>10

LEMMA LeftAreNumbers ==
    ASSUME model \in Models, declared \in 1 .. Len(model.stages), BuiltUpTo(call),
           call \in Calls, NEW todo, Progress(todo)
    PROVE  todo \in SUBSET Nat /\ IsFiniteSet(todo)
<1> DEFINE N == Len(plan.operations)
<1>1. Chosen(call) \subseteq DOMAIN plan.operations
  BY ChosenIs DEF Calls, Building
<1>2. DOMAIN plan.operations = 1 .. N /\ N \in Nat
  BY PlanIs DEF Calls, Building
<1>3. todo \in SUBSET (1 .. N)
  BY <1>1, <1>2 DEF Progress
<1> HIDE DEF N
<1>4. IsFiniteSet(1 .. N)
  BY <1>2, FS_Interval
<1>5. IsFiniteSet(todo)
  BY <1>3, <1>4, FS_Subset
<1>6. todo \in SUBSET Nat
  BY <1>2, <1>3
<1> QED
  BY <1>5, <1>6

\* The least of the operations still to be done is the next one.
LEMMA NextOperation ==
    ASSUME model \in Models, declared \in 1 .. Len(model.stages), BuiltUpTo(call),
           call \in Calls, NEW todo, Progress(todo), remaining # <<>>
    PROVE  \E k \in todo : /\ k \in Chosen(call) /\ k \in DOMAIN plan.operations
                           /\ \A j \in todo : k <= j
                           /\ Head(remaining) = plan.operations[k]
                           /\ Tail(remaining) = InOrder(plan, todo \ {k})
<1>1. todo \subseteq Chosen(call) /\ remaining = InOrder(plan, todo)
  BY DEF Progress
<1>2. Chosen(call) \subseteq DOMAIN plan.operations
  BY ChosenIs DEF Calls, Building
<1>5. todo \in SUBSET Nat /\ IsFiniteSet(todo)
  BY LeftAreNumbers
<1>6. todo # {}
  BY <1>1, InOrderNone
<1>7. PICK k \in todo : \A j \in todo : k <= j
  BY <1>5, <1>6, LeastNumber
<1>8. Head(remaining) = plan.operations[k] /\ Tail(remaining) = InOrder(plan, todo \ {k})
  BY <1>1, <1>5, <1>7, InOrderStep, ZenonT(60)
<1> QED
  BY <1>1, <1>2, <1>7, <1>8

\* Nothing is left to do when nothing remains.
LEMMA NothingLeft ==
    ASSUME model \in Models, declared \in 1 .. Len(model.stages), BuiltUpTo(call),
           call \in Calls, NEW todo, Progress(todo), remaining = <<>>
    PROVE  todo = {}
<1>1. todo \subseteq Chosen(call) /\ remaining = InOrder(plan, todo)
  BY DEF Progress
<1>2. Chosen(call) \subseteq DOMAIN plan.operations
  BY ChosenIs DEF Calls, Building
<1>5. todo \in SUBSET Nat /\ IsFiniteSet(todo)
  BY LeftAreNumbers
<1> SUFFICES ASSUME todo # {} PROVE FALSE
  OBVIOUS
<1>6. PICK k \in todo : \A j \in todo : k <= j
  BY <1>5, LeastNumber
<1>7. InOrder(plan, todo) # <<>>
  BY <1>5, <1>6, InOrderStep
<1> QED
  BY <1>1, <1>7

\* The next operation reads what is present.
LEMMA ReadsAreDone ==
    ASSUME model \in Models, declared \in 1 .. Len(model.stages), BuiltUpTo(call),
           call \in Calls, SyncedUpToHeld, NEW todo, Progress(todo),
           call = "own" => ~Split(declared, plan),
           NEW k \in todo, k \in Chosen(call), \A j \in todo : k <= j
    PROVE  (UNION {plan.deps[n] : n \in plan.operations[k].nodes}) \ plan.operations[k].nodes
               \subseteq present
<1> DEFINE K == DOMAIN plan.operations
           N(i) == plan.operations[i].nodes
<1> SUFFICES ASSUME NEW n \in N(k), NEW q \in plan.deps[n], q \notin N(k)
             PROVE  q \in present
  OBVIOUS
<1>1. /\ IsLayout(plan.deps, PlanNodes, plan.positions)
      /\ K = 1 .. Len(plan.operations) /\ DOMAIN PlanNodes = K
      /\ \A i \in K : PlanNodes[i] = N(i)
  BY PlanIs DEF Calls, Building
<1>2. /\ Chosen(call) \subseteq K
      /\ call \notin {"zoh", "own"} => Supplied(plan.positions, Chosen(call))
  BY ChosenIs DEF Calls, Building
<1>3. PICK j \in plan.positions[k] : j \in K /\ j < k /\ q \in N(j)
  <2>1. k \in DOMAIN PlanNodes /\ n \in PlanNodes[k] /\ q \in plan.deps[n] \ PlanNodes[k]
    BY <1>1, <1>2
  <2>2. \E j \in plan.positions[k] : j \in DOMAIN PlanNodes /\ j < k /\ q \in PlanNodes[j]
    BY <1>1, <2>1, BeforeIs
  <2> QED
    BY <1>1, <2>2
<1>4. j \notin todo
  BY <1>1, <1>2, <1>3
<1>5. \A i \in Chosen(call) \ todo : N(i) \subseteq present
  BY DEF Progress
<1>6. CASE j \in Chosen(call)
  BY <1>3, <1>4, <1>5, <1>6
<1>7. CASE call = "zoh"
  <2>1. j \in plan.zoh => j \in Chosen(call)
    BY <1>7 DEF Chosen
  <2>2. synced
    BY <1>7 DEF Progress
  <2>3. j \notin plan.zoh => N(j) \subseteq present
    BY <1>3, <2>2 DEF SyncedUpToHeld
  <2> QED
    BY <1>3, <1>6, <2>1, <2>3
<1>8. CASE call = "own"
  <2>1. Chosen(call) = Windowed \ Inward
    BY <1>8 DEF Chosen
  <2>2. ~Split(declared, plan)
    BY <1>8
  <2>3. call \notin Building
    BY DEF Calls, Building
  <2>4. k \in Windowed \ Inward
    BY <2>1
  <2>5. j \in Windowed
    BY <1>3, <2>2, <2>3, <2>4, OwnReads
  <2>6. j \in Inward => N(j) \subseteq present
    BY <1>8 DEF Progress, InwardNodes
  <2> QED
    BY <1>3, <1>6, <2>1, <2>5, <2>6
<1>9. CASE call \notin {"zoh", "own"}
  BY <1>2, <1>3, <1>6, <1>9 DEF Supplied
<1> QED
  BY <1>7, <1>8, <1>9

LEMMA EvaluationStarts == EvaluationInit => EvaluationInv
<1> SUFFICES ASSUME EvaluationInit
             PROVE  EvaluationInv
  OBVIOUS
<1> USE DEF EvaluationInit
<1>1. Len(model.stages) \in Nat /\ Len(model.stages) # 0
  <2>1. model.stages \in Seq(Declaration(model.subsystems)) /\ model.stages # <<>>
    BY ModelsAssumption DEF IsModel
  <2> QED
    BY <2>1
<1>2. plan_revision \in 0 .. Len(model.stages) - 1
  BY <1>1
<1>3. BuiltUpTo(call)
  BY DEF BuiltUpTo, NoPlan, Building
<1>4. GroupsKept
  BY DEF GroupsKept, Building, Calls, GroupCalls
<1>5. AnswersKept
  BY DEF AnswersKept
<1>6. SyncedUpToHeld
  BY DEF SyncedUpToHeld
<1> QED
  BY <1>2, <1>3, <1>4, <1>5, <1>6 DEF EvaluationInv, Building, Calls

\* A step of the building of the plan.
LEMMA BuildStep ==
    ASSUME EvaluationInv, call \in Building, call' \in Building \cup {"solver", "none"},
           call' = "none" => plan_revision # 0,
           UNCHANGED <<theModel, group, answers, evaluated>>, BuiltUpTo(call)'
    PROVE  EvaluationInv'
<1>1. /\ model' = model /\ declared' = declared /\ plan_revision' = plan_revision
      /\ group' = group /\ answers' = answers /\ remaining' = remaining /\ present' = present
      /\ inputs_set' = inputs_set /\ synced' = synced
  BY DEF theModel, evaluated
<1>2. ~synced /\ remaining = <<>> /\ DOMAIN answers = {}
  BY DEF EvaluationInv, Building, Calls, SyncedUpToHeld, AnswersKept
<1>3. GroupsKept'
  <2>1. /\ group.revision \in Nat /\ group.revision <= plan_revision
        /\ plan_revision = 0 \/ group.revision < plan_revision
        /\ plan_revision \in Int
    BY DEF EvaluationInv, GroupsKept
  <2>2. call' = "none" => group.revision # plan_revision
    BY <2>1
  <2>3. call' \notin Calls /\ call' \notin GroupCalls
    BY DEF Building, Calls, GroupCalls
  <2> QED
    BY <1>1, <2>1, <2>2, <2>3 DEF GroupsKept
<1>4. AnswersKept'
  BY <1>1, <1>2 DEF AnswersKept
<1>5. SyncedUpToHeld'
  BY <1>1, <1>2 DEF SyncedUpToHeld
<1>6. call' \notin Calls /\ remaining' = <<>>
  BY <1>1, <1>2 DEF Building, Calls
<1>7. /\ model' \in Models /\ plan_revision' \in 0 .. Len(model'.stages) - 1
      /\ declared' = plan_revision' + 1
  BY <1>1 DEF EvaluationInv
<1> QED
  BY <1>3, <1>4, <1>5, <1>6, <1>7 DEF EvaluationInv

LEMMA EvaluationBuilds ==
    ASSUME EvaluationInv, Connect \/ Analyze \/ Condense \/ Sort \/ Collapse \/ Cut
    PROVE  EvaluationInv'
<1>1. model \in Models /\ declared \in 1 .. Len(model.stages) /\ BuiltUpTo(call)
  BY DEF EvaluationInv
<1>2. ASSUME UNCHANGED <<theModel, group, answers, evaluated>>
      PROVE  /\ model' = model /\ declared' = declared
             /\ SignalDependencies(declared)' = SignalDependencies(declared)
             /\ Nodes(declared)' = Nodes(declared)
             /\ \A deps, nodes :
                   Operation(declared, deps, nodes)' = Operation(declared, deps, nodes)
  BY <1>2, ModelFrame DEF theModel
<1>3. CASE Connect
  <2>1. BuiltUpTo(call)'
    BY <1>1, <1>2, <1>3 DEF Connect, BuiltUpTo, Building
  <2> QED
    BY <1>3, <2>1, BuildStep DEF Connect, Building
<1>4. CASE Analyze
  <2>1. plan.deps = SignalDependencies(declared)
    BY <1>1, <1>4 DEF Analyze, BuiltUpTo
  <2>2. IsGraph(plan.deps) /\ DOMAIN plan.deps = Nodes(declared)
    BY <1>1, <2>1, DependenciesAre
  <2> DEFINE parts == IF Residual(plan.deps) = {} THEN Table([n \in Nodes(declared) |-> {n}])
                      ELSE OrderedComponents(plan.deps)
  <2>3. AreKinds(plan.deps, parts)
    BY <2>2, PartsAreKinds
  <2>4. plan' = [plan EXCEPT !.parts = parts]
    BY <1>4 DEF Analyze
  <2> HIDE DEF parts
  <2>5. BuiltUpTo(call)'
    BY <1>1, <1>2, <1>4, <2>3, <2>4 DEF Analyze, BuiltUpTo, Building
  <2> QED
    BY <1>4, <2>5, BuildStep DEF Analyze, Building
<1>5. CASE Condense
  <2>1. BuiltUpTo(call)'
    BY <1>1, <1>2, <1>5 DEF Condense, BuiltUpTo, Building
  <2> QED
    BY <1>5, <2>1, BuildStep DEF Condense, Building
<1>6. CASE Sort
  <2>1. BuiltUpTo(call)'
    BY <1>1, <1>2, <1>6 DEF Sort, BuiltUpTo, Building
  <2> QED
    BY <1>6, <2>1, BuildStep DEF Sort, Building
<1>7. CASE Collapse
  <2>1. \A i \in DOMAIN plan.order :
           Operation(declared, plan.deps, plan.parts[plan.order[i]])'
               = Operation(declared, plan.deps, plan.parts[plan.order[i]])
    BY <1>2, <1>7 DEF Collapse
  <2>2. BuiltUpTo(call)'
    BY <1>1, <1>2, <1>7, <2>1 DEF Collapse, BuiltUpTo, Building
  <2> QED
    BY <1>7, <2>2, BuildStep DEF Collapse, Building
<1>8. CASE Cut
  <2>1. /\ plan' = [plan EXCEPT !.rhs = Live(Required, plan.positions),
                                !.zoh = Affected(Holding, plan.positions)]
        /\ call = "cut" /\ call' = IF plan_revision = 0 THEN "solver" ELSE "none"
        /\ UNCHANGED <<theModel, group, answers, evaluated>>
    BY <1>8 DEF Cut, Required, Holding
  <2>2. BuiltUpTo("cut")
    BY <1>1, <2>1
  <2>3. plan' = [deps |-> plan.deps, parts |-> plan.parts, condensed |-> plan.condensed,
                 order |-> plan.order, operations |-> plan.operations,
                 positions |-> plan.positions, rhs |-> Live(Required, plan.positions),
                 zoh |-> Affected(Holding, plan.positions)]
    BY <2>1, <2>2 DEF BuiltUpTo
  <2>4. plan.operations' = plan.operations
    BY <2>3
  <2>5. Required' = Required /\ Holding' = Holding
    BY <1>2, <2>1, <2>4, MarksFrame
  <2>6. \A i \in DOMAIN plan.order :
           Operation(declared, plan.deps, plan.parts[plan.order[i]])'
               = Operation(declared, plan.deps, plan.parts[plan.order[i]])
    BY <1>2, <2>1, <2>3
  <2>7. BuiltUpTo(call)'
    BY <1>2, <2>1, <2>2, <2>3, <2>5, <2>6 DEF BuiltUpTo, Building
  <2> QED
    BY <2>1, <2>7, BuildStep DEF Building
<1> QED
  BY <1>3, <1>4, <1>5, <1>6, <1>7, <1>8

\* The parts of the invariant that a call leaves alone.
LEMMA PlanStays ==
    ASSUME EvaluationInv, call \notin Building, UNCHANGED theModel, plan' = plan
    PROVE  /\ model \in Models /\ declared \in 1 .. Len(model.stages) /\ BuiltUpTo(call)
           /\ model' \in Models /\ plan_revision' \in 0 .. Len(model'.stages) - 1
           /\ declared' = plan_revision' + 1 /\ BuiltUpTo(call)'
           /\ model' = model /\ declared' = declared /\ plan_revision' = plan_revision
           /\ Grouped(declared, plan, plan_revision)' = Grouped(declared, plan, plan_revision)
           /\ \A c : Chosen(c)' = Chosen(c)
           /\ Split(declared, plan)' <=> Split(declared, plan)
           /\ InwardNodes' = InwardNodes
<1>1. /\ model \in Models /\ declared \in 1 .. Len(model.stages) /\ BuiltUpTo(call)
      /\ plan_revision \in 0 .. Len(model.stages) - 1 /\ declared = plan_revision + 1
  BY DEF EvaluationInv
<1>2. model' = model /\ declared' = declared /\ plan_revision' = plan_revision
  BY DEF theModel
<1>3. BuiltUpTo(call)'
  BY <1>1, <1>2, BuiltFrame
<1>4. /\ \A r : Grouped(declared, plan, r)' = Grouped(declared, plan, r)
      /\ \A c : Chosen(c)' = Chosen(c)
      /\ Split(declared, plan)' <=> Split(declared, plan)
      /\ InwardNodes' = InwardNodes
  BY <1>2, PlanFrame
<1>5. Grouped(declared, plan, plan_revision)' = Grouped(declared, plan, plan_revision)
  BY <1>2, <1>4 DEF Grouped
<1> QED
  BY <1>1, <1>2, <1>3, <1>4, <1>5

LEMMA AnswersStay ==
    ASSUME AnswersKept, call \notin Building \cup {"solver"}, call' \notin Building \cup {"solver"},
           model' = model, declared' = declared, plan' = plan, answers' = answers
    PROVE  AnswersKept'
<1>1. \A members : Reaches(declared, plan, members)' <=> Reaches(declared, plan, members)
  BY PlanFrame
<1>2. \A members \in DOMAIN answers : answers[members] = Reaches(declared, plan, members)
  BY DEF AnswersKept
<1>3. \A members : Reaches(declared, plan, members) \in BOOLEAN
  BY DEF Reaches
<1>4. \A members : Reaches(declared, plan, members)' \in BOOLEAN
  BY DEF Reaches
<1>5. \A members \in DOMAIN answers : answers[members] = Reaches(declared, plan, members)'
  BY <1>1, <1>2, <1>3, <1>4
<1> QED
  BY <1>5 DEF AnswersKept

LEMMA EvaluationMakeSolver == ASSUME EvaluationInv, MakeSolver PROVE EvaluationInv'
<1>1. /\ call = "solver" /\ call' = "none" /\ UNCHANGED theModel /\ plan' = plan
      /\ answers' = answers /\ remaining' = remaining /\ synced' = synced
      /\ group' = Grouped(declared, plan, plan_revision)
  BY DEF MakeSolver, evaluated
<1>2. call \notin Building
  BY <1>1 DEF Building
<1>3. /\ model' \in Models /\ plan_revision' \in 0 .. Len(model'.stages) - 1
      /\ declared' = plan_revision' + 1 /\ BuiltUpTo(call)'
      /\ plan_revision' = plan_revision
      /\ Grouped(declared, plan, plan_revision)' = Grouped(declared, plan, plan_revision)
  BY <1>1, <1>2, PlanStays
<1>4. plan_revision \in Nat
  BY DEF EvaluationInv
<1>5. group'.revision = plan_revision
  BY <1>1 DEF Grouped
<1>6. GroupsKept'
  BY <1>1, <1>3, <1>4, <1>5 DEF GroupsKept, Building, GroupCalls
<1>7. DOMAIN answers = {}
  BY <1>1 DEF EvaluationInv, AnswersKept
<1>8. AnswersKept'
  BY <1>1, <1>7 DEF AnswersKept
<1>9. ~synced /\ remaining = <<>>
  BY <1>1 DEF EvaluationInv, SyncedUpToHeld, Calls
<1>10. SyncedUpToHeld'
  BY <1>1, <1>9 DEF SyncedUpToHeld
<1> QED
  BY <1>1, <1>3, <1>6, <1>8, <1>9, <1>10 DEF EvaluationInv, Calls

\* A call that begins has all of its operations to do.
LEMMA LoadKeeps ==
    ASSUME EvaluationInv, NEW c \in Calls \ {"zoh"}, NEW inputs,
           Load(c, InOrder(plan, Chosen(c)), inputs), c = "own" => inputs = InwardNodes,
           UNCHANGED theModel, plan' = plan, answers' = answers,
           group' = group \/ group' = Groups, c \in GroupCalls => group' = Groups
    PROVE  EvaluationInv'
<1>1. /\ call = "none" /\ call' = c /\ remaining' = InOrder(plan, Chosen(c))
      /\ present' = inputs /\ inputs_set' = inputs /\ synced' = FALSE
  BY DEF Load
<1>2. /\ call \notin Building /\ call \notin Building \cup {"solver"}
      /\ call' \notin Building \cup {"solver"}
  BY <1>1 DEF Building, Calls
<1>3. /\ model' \in Models /\ plan_revision' \in 0 .. Len(model'.stages) - 1
      /\ declared' = plan_revision' + 1 /\ BuiltUpTo(call)'
      /\ model' = model /\ declared' = declared /\ plan_revision' = plan_revision
      /\ Grouped(declared, plan, plan_revision)' = Grouped(declared, plan, plan_revision)
      /\ \A d : Chosen(d)' = Chosen(d)
      /\ Split(declared, plan)' <=> Split(declared, plan)
      /\ InwardNodes' = InwardNodes
  BY <1>2, PlanStays
<1>4. /\ group.revision \in Nat /\ group.revision <= plan_revision
      /\ group.revision = plan_revision => group = Grouped(declared, plan, plan_revision)
      /\ plan_revision \in Nat
  BY <1>1 DEF EvaluationInv, GroupsKept
<1>5. Groups = Grouped(declared, plan, plan_revision) /\ Groups.revision = plan_revision
  BY <1>4 DEF Groups, Grouped
<1>6. GroupsKept'
  BY <1>1, <1>2, <1>3, <1>4, <1>5 DEF GroupsKept
<1>7. AnswersKept'
  BY <1>2, <1>3, AnswersStay DEF EvaluationInv
<1>8. SyncedUpToHeld'
  BY <1>1 DEF SyncedUpToHeld
<1>9. Progress(Chosen(c))'
  <2>1. InOrder(plan, Chosen(c))' = InOrder(plan, Chosen(c))
    BY <1>3 DEF InOrder
  <2>2. Chosen(c)' = Chosen(c) /\ Chosen(call)' = Chosen(c)
    BY <1>1, <1>3 DEF Chosen
  <2>3. c = "own" => InwardNodes' \subseteq present' /\ inputs_set' = InwardNodes'
    BY <1>1, <1>3
  <2> QED
    BY <1>1, <2>1, <2>2, <2>3 DEF Progress
<1>10. \E todo : Progress(todo)'
  BY <1>9
<1> QED
  BY <1>1, <1>3, <1>6, <1>7, <1>8, <1>10 DEF EvaluationInv

LEMMA EvaluationLoads ==
    ASSUME EvaluationInv, Sync \/ Rhs \/ RhsGroup
    PROVE  EvaluationInv'
<1>1. CASE Sync
  <2>1. Load("sync", plan.operations, {}) /\ UNCHANGED <<theModel, plan, group, answers>>
    BY <1>1 DEF Sync
  <2>2. /\ model \in Models /\ declared \in 1 .. Len(model.stages) /\ BuiltUpTo(call)
        /\ call \notin Building
    BY <2>1 DEF EvaluationInv, Load, Building
  <2>3. DOMAIN plan.operations = 1 .. Len(plan.operations) /\ Len(plan.operations) \in Nat
    BY <2>2, PlanIs
  <2>4. plan.operations = [i \in 1 .. Len(plan.operations) |-> plan.operations[i]]
    BY <2>2, <2>3, OperationsAre
  <2>5. InOrder(plan, DOMAIN plan.operations) = plan.operations
    BY <2>3, <2>4, InOrderAll
  <2>6. Chosen("sync") = DOMAIN plan.operations
    BY DEF Chosen
  <2> QED
    BY <2>1, <2>5, <2>6, LoadKeeps DEF Calls, GroupCalls
<1>2. CASE Rhs
  <2>1. Chosen("rhs") = plan.rhs
    BY DEF Chosen
  <2> QED
    BY <1>2, <2>1, LoadKeeps DEF Rhs, Calls, GroupCalls
<1>3. CASE RhsGroup
  <2>1. /\ \/ Load("windowed", Groups.windowed.plan, {})
           \/ Load("system", Groups.system.plan, {})
           \/ Load("own", Groups.windowed.own, Groups.windowed.inputs)
           \/ Load("feed", Groups.windowed.feed, {})
        /\ group' = Groups
        /\ UNCHANGED <<theModel, plan, answers>>
    BY <1>3 DEF RhsGroup
  <2>2. call = "none"
    BY <2>1 DEF Load
  <2>3. Groups = Grouped(declared, plan, plan_revision)
    BY <2>2 DEF Groups, EvaluationInv, GroupsKept
  <2>4. /\ Groups.windowed = GroupPlan(declared, plan, model.windowed)
        /\ Groups.system = GroupPlan(declared, plan, model.subsystems \ model.windowed)
    BY <2>3 DEF Grouped
  <2>5. /\ Groups.windowed.plan = InOrder(plan, Chosen("windowed"))
        /\ Groups.system.plan = InOrder(plan, Chosen("system"))
        /\ Groups.windowed.own = InOrder(plan, Chosen("own"))
        /\ Groups.windowed.feed = InOrder(plan, Chosen("feed"))
        /\ Groups.windowed.inputs = InwardNodes
    BY <2>4 DEF GroupPlan, Chosen, Windowed, Inward, InwardNodes
  <2> QED
    BY <2>1, <2>5, LoadKeeps DEF Calls, GroupCalls
<1> QED
  BY <1>1, <1>2, <1>3

\* The rest of the invariant in a step that leaves the plans and the answers.
LEMMA KeptInCall ==
    ASSUME EvaluationInv, call \in Calls \cup {"none"}, call' \in Calls \cup {"none"},
           UNCHANGED <<theModel, plan, group, answers>>,
           call' \in GroupCalls => call \in GroupCalls
    PROVE  /\ model' \in Models /\ plan_revision' \in 0 .. Len(model'.stages) - 1
           /\ declared' = plan_revision' + 1 /\ BuiltUpTo(call)'
           /\ GroupsKept' /\ AnswersKept'
<1>1. call \notin Building \cup {"solver"} /\ call' \notin Building \cup {"solver"}
  BY DEF Building, Calls
<1>2. /\ model' \in Models /\ plan_revision' \in 0 .. Len(model'.stages) - 1
      /\ declared' = plan_revision' + 1 /\ BuiltUpTo(call)'
      /\ model' = model /\ declared' = declared /\ plan_revision' = plan_revision
      /\ Grouped(declared, plan, plan_revision)' = Grouped(declared, plan, plan_revision)
  BY <1>1, PlanStays
<1>3. GroupsKept'
  BY <1>1, <1>2 DEF GroupsKept, EvaluationInv
<1>4. AnswersKept'
  BY <1>1, <1>2, AnswersStay DEF EvaluationInv
<1> QED
  BY <1>2, <1>3, <1>4

LEMMA EvaluationSyncZoh == ASSUME EvaluationInv, SyncZoh PROVE EvaluationInv'
<1>1. /\ call = "none" /\ synced /\ call' = "zoh" /\ remaining' = InOrder(plan, plan.zoh)
      /\ UNCHANGED <<theModel, plan, group, answers>>
      /\ present' = present /\ inputs_set' = inputs_set /\ synced' = synced
  BY DEF SyncZoh
<1>2. /\ model' \in Models /\ plan_revision' \in 0 .. Len(model'.stages) - 1
      /\ declared' = plan_revision' + 1 /\ BuiltUpTo(call)'
      /\ GroupsKept' /\ AnswersKept'
  BY <1>1, KeptInCall DEF Calls, GroupCalls
<1>3. Chosen(call)' = plan.zoh
  BY <1>1 DEF Chosen
<1>4. InOrder(plan, plan.zoh)' = InOrder(plan, plan.zoh)
  BY <1>1 DEF InOrder
<1>5. Progress(plan.zoh)'
  BY <1>1, <1>3, <1>4 DEF Progress
<1>6. SyncedUpToHeld'
  BY <1>1 DEF EvaluationInv, SyncedUpToHeld
<1>7. \E todo : Progress(todo)'
  BY <1>1, <1>5
<1> QED
  BY <1>1, <1>2, <1>6, <1>7 DEF EvaluationInv, Calls

LEMMA EvaluationSetZohInput == ASSUME EvaluationInv, SetZohInput PROVE EvaluationInv'
<1>1. PICK h \in model.held : present' = present \ Behind(plan.deps, ReadersOf(h))
  BY DEF SetZohInput
<1>2. /\ call = "none" /\ call' = call /\ UNCHANGED <<theModel, plan, group, answers>>
      /\ remaining' = remaining /\ synced' = synced
  BY DEF SetZohInput
<1>3. /\ model' \in Models /\ plan_revision' \in 0 .. Len(model'.stages) - 1
      /\ declared' = plan_revision' + 1 /\ BuiltUpTo(call)'
      /\ GroupsKept' /\ AnswersKept'
  BY <1>2, KeptInCall DEF GroupCalls
<1>4. /\ model \in Models /\ declared \in 1 .. Len(model.stages) /\ BuiltUpTo(call)
      /\ call \notin Building
  BY <1>2 DEF EvaluationInv, Building
<1>5. \A i \in DOMAIN plan.operations \ plan.zoh :
         plan.operations[i].nodes \cap Behind(plan.deps, ReadersOf(h)) = {}
  BY <1>4, HeldReach
<1>6. SyncedUpToHeld'
  BY <1>1, <1>2, <1>5 DEF EvaluationInv, SyncedUpToHeld
<1> QED
  BY <1>2, <1>3, <1>6 DEF EvaluationInv, Calls

LEMMA EvaluationRun == ASSUME EvaluationInv, Run PROVE EvaluationInv'
<1> DEFINE op == Head(remaining)
           before == (UNION {plan.deps[n] : n \in op.nodes}) \ op.nodes
           K == DOMAIN plan.operations
           N(i) == plan.operations[i].nodes
<1>1. /\ remaining # <<>> /\ remaining' = Tail(remaining)
      /\ present' = IF before \subseteq present /\ (op.loop => OneSweep(plan.deps, op))
                    THEN present \cup op.nodes ELSE present \ op.nodes
      /\ inputs_set' = inputs_set \ op.nodes
      /\ UNCHANGED <<theModel, plan, group, answers>> /\ call' = call /\ synced' = synced
  BY DEF Run
<1>2. call \in Calls
  BY <1>1 DEF EvaluationInv
<1>3. /\ model' \in Models /\ plan_revision' \in 0 .. Len(model'.stages) - 1
      /\ declared' = plan_revision' + 1 /\ BuiltUpTo(call)'
      /\ GroupsKept' /\ AnswersKept'
  BY <1>1, <1>2, KeptInCall
<1>4. /\ model \in Models /\ declared \in 1 .. Len(model.stages) /\ BuiltUpTo(call)
      /\ call \notin Building /\ SyncedUpToHeld
  BY <1>2 DEF EvaluationInv, Calls, Building
<1>5. /\ \A c : Chosen(c)' = Chosen(c)
      /\ Split(declared, plan)' <=> Split(declared, plan)
      /\ InwardNodes' = InwardNodes
  BY <1>1, <1>4, PlanStays
<1>6. PICK todo : Progress(todo)
  BY <1>2 DEF EvaluationInv
<1>7. PICK k \in todo : /\ k \in Chosen(call) /\ k \in K
                        /\ \A j \in todo : k <= j
                        /\ op = plan.operations[k]
                        /\ Tail(remaining) = InOrder(plan, todo \ {k})
  BY <1>1, <1>2, <1>4, <1>6, NextOperation
<1>8. /\ K = 1 .. Len(plan.operations) /\ Len(plan.operations) \in Nat
      /\ \A i, j \in K : N(i) \cap N(j) # {} => i = j
  BY <1>4, PlanIs
<1>9. Chosen(call) \subseteq K
  BY <1>2, <1>4, ChosenIs
<1>10. OneSweep(plan.deps, op) \/ ~op.loop
  <2>1. /\ IsLayout(plan.deps, PlanNodes, plan.positions) /\ DOMAIN PlanNodes = K
        /\ Opens(declared, plan.deps)
    BY <1>4, PlanIs, DependenciesAre
  <2>2. op = Operation(declared, plan.deps, PlanNodes[k])
    BY <1>4, <1>7, OperationsAre
  <2> QED
    BY <1>7, <2>1, <2>2, OperationIs
<1>11. (call = "own" => ~Split(declared, plan)) => present' = present \cup N(k)
  <2> SUFFICES ASSUME call = "own" => ~Split(declared, plan)
               PROVE  present' = present \cup N(k)
    OBVIOUS
  <2>1. (UNION {plan.deps[n] : n \in N(k)}) \ N(k) \subseteq present
    BY <1>2, <1>4, <1>6, <1>7, ReadsAreDone
  <2>2. before \subseteq present
    BY <1>7, <2>1
  <2> HIDE DEF before, op
  <2> QED
    BY <1>1, <1>7, <1>10, <2>2
<1>12. present \ N(k) \subseteq present'
  <2>1. present' = present \cup op.nodes \/ present' = present \ op.nodes
    BY <1>1
  <2> QED
    BY <1>7, <2>1
<1> HIDE DEF before, op
<1>13. SyncedUpToHeld'
  <2>1. plan' = plan /\ call' = call /\ synced' = synced
    BY <1>1
  <2>2. ASSUME synced PROVE call = "zoh"
    BY <1>2, <1>4, <2>2 DEF SyncedUpToHeld, Calls
  <2>3. ASSUME synced, NEW i \in K \ plan.zoh
        PROVE  N(i) \subseteq present'
    <3>1. N(i) \subseteq present
      BY <1>4, <2>3 DEF SyncedUpToHeld
    <3>2. k \in plan.zoh
      BY <1>7, <2>2, <2>3 DEF Chosen
    <3>3. N(i) \cap N(k) = {}
      BY <1>7, <1>8, <2>3, <3>2
    <3> QED
      BY <1>12, <3>1, <3>3
  <2> QED
    BY <2>1, <2>2, <2>3 DEF SyncedUpToHeld
<1>14. Progress(todo \ {k})'
  <2> DEFINE left == todo \ {k}
  <2>1. /\ todo \subseteq Chosen(call)
        /\ \A i \in Chosen(call) \ todo : \A j \in todo : i < j
        /\ (call = "own" => ~Split(declared, plan)) =>
              \A i \in Chosen(call) \ todo : N(i) \subseteq present
        /\ call = "zoh" => synced
        /\ call = "own" => InwardNodes \subseteq present /\ inputs_set = InwardNodes
    BY <1>6 DEF Progress
  <2>2. Chosen(call)' = Chosen(call)
    BY <1>1 , <1>5 DEF Chosen
  <2>3. remaining' = InOrder(plan, left)'
    <3>1. InOrder(plan, left)' = InOrder(plan, left)
      BY <1>1 DEF InOrder
    <3> QED
      BY <1>1, <1>7, <3>1
  <2>4. ASSUME NEW i \in Chosen(call) \ left, NEW j \in left
        PROVE  i < j
    <3>1. i \in todo => i = k
      OBVIOUS
    <3>2. k < j
      BY <1>7, <1>8, <1>9, <2>1
    <3> QED
      BY <2>1, <3>1, <3>2
  <2>5. ASSUME call = "own" => ~Split(declared, plan), NEW i \in Chosen(call) \ left
        PROVE  N(i) \subseteq present'
    <3>1. present' = present \cup N(k)
      BY <1>11, <2>5
    <3>2. i = k \/ i \in Chosen(call) \ todo
      OBVIOUS
    <3> QED
      BY <2>1, <2>5, <3>1, <3>2
  <2>6. ASSUME call = "own"
        PROVE  InwardNodes \subseteq present' /\ inputs_set' = InwardNodes
    <3>1. k \notin Inward /\ Inward \subseteq K
      BY <1>7, <2>6 DEF Chosen, Inward, Boundary, OwnedBy
    <3>2. InwardNodes \cap N(k) = {}
      BY <1>7, <1>8, <3>1 DEF InwardNodes
    <3>3. /\ InwardNodes \subseteq present /\ inputs_set = InwardNodes
          /\ inputs_set' = inputs_set \ N(k)
      BY <1>1, <1>7, <2>1, <2>6
    <3> QED
      BY <1>12, <3>2, <3>3
  <2>7. left \subseteq Chosen(call)
    BY <2>1
  <2> HIDE DEF left
  <2>8. Progress(left)'
    BY <1>1, <1>5, <2>1, <2>2, <2>3, <2>4, <2>5, <2>6, <2>7 DEF Progress
  <2> QED
    BY <2>8 DEF left
<1>15. \E t : Progress(t)'
  BY <1>14
<1> QED
  BY <1>1, <1>2, <1>3, <1>13, <1>15 DEF EvaluationInv

LEMMA EvaluationNoConvergence == ASSUME EvaluationInv, NoConvergence PROVE EvaluationInv'
<1>1. /\ remaining # <<>> /\ call' = "none" /\ remaining' = <<>> /\ synced' = FALSE
      /\ UNCHANGED <<theModel, plan, group, answers>>
  BY DEF NoConvergence
<1>2. call \in Calls
  BY <1>1 DEF EvaluationInv
<1>3. /\ model' \in Models /\ plan_revision' \in 0 .. Len(model'.stages) - 1
      /\ declared' = plan_revision' + 1 /\ BuiltUpTo(call)'
      /\ GroupsKept' /\ AnswersKept'
  BY <1>1, <1>2, KeptInCall DEF GroupCalls
<1>4. SyncedUpToHeld'
  BY <1>1 DEF SyncedUpToHeld
<1> QED
  BY <1>1, <1>3, <1>4 DEF EvaluationInv, Calls

LEMMA EvaluationReturn == ASSUME EvaluationInv, Return PROVE EvaluationInv'
<1>1. /\ call \in Calls /\ remaining = <<>> /\ call' = "none" /\ remaining' = remaining
      /\ synced' = (call \in {"sync", "zoh"}) /\ present' = present
      /\ UNCHANGED <<theModel, plan, group, answers>>
  BY DEF Return
<1>2. /\ model' \in Models /\ plan_revision' \in 0 .. Len(model'.stages) - 1
      /\ declared' = plan_revision' + 1 /\ BuiltUpTo(call)'
      /\ GroupsKept' /\ AnswersKept'
  BY <1>1, KeptInCall DEF GroupCalls
<1>3. /\ model \in Models /\ declared \in 1 .. Len(model.stages) /\ BuiltUpTo(call)
      /\ SyncedUpToHeld
  BY DEF EvaluationInv
<1>4. PICK todo : Progress(todo)
  BY <1>1 DEF EvaluationInv
<1>5. todo = {}
  BY <1>1, <1>3, <1>4, NothingLeft
<1>6. SyncedUpToHeld'
  <2> SUFFICES ASSUME call \in {"sync", "zoh"}, NEW i \in DOMAIN plan.operations \ plan.zoh
               PROVE  plan.operations[i].nodes \subseteq present
    BY <1>1 DEF SyncedUpToHeld
  <2>1. CASE call = "sync"
    BY <1>4, <1>5, <2>1 DEF Progress, Chosen
  <2>2. CASE call = "zoh"
    BY <1>3, <1>4, <2>2 DEF Progress, SyncedUpToHeld
  <2> QED
    BY <2>1, <2>2
<1> QED
  BY <1>1, <1>2, <1>6 DEF EvaluationInv, Calls

LEMMA EvaluationRebuild == ASSUME EvaluationInv, Rebuild PROVE EvaluationInv'
<1>1. /\ call = "none" /\ plan_revision < Len(model.stages) - 1 /\ call' = "connect"
      /\ declared' = declared + 1 /\ plan' = NoPlan /\ plan_revision' = plan_revision + 1
      /\ answers' = <<>> /\ synced' = FALSE /\ model' = model /\ group' = group
      /\ remaining' = remaining
  BY DEF Rebuild, Answers
<1>2. /\ model \in Models /\ plan_revision \in 0 .. Len(model.stages) - 1
      /\ declared = plan_revision + 1 /\ group.revision \in Nat /\ group.revision <= plan_revision
      /\ remaining = <<>>
  BY <1>1 DEF EvaluationInv, GroupsKept, Calls
<1>3. Len(model.stages) \in Nat
  <2>1. model.stages \in Seq(Declaration(model.subsystems))
    BY <1>2, ModelsAssumption DEF IsModel
  <2> QED
    BY <2>1
<1>4. /\ plan_revision' \in 0 .. Len(model.stages) - 1 /\ declared' = plan_revision' + 1
      /\ group.revision <= plan_revision' /\ group.revision < plan_revision'
  BY <1>1, <1>2, <1>3
<1>5. BuiltUpTo(call)'
  BY <1>1 DEF BuiltUpTo, NoPlan, Building
<1>6. GroupsKept'
  BY <1>1, <1>2, <1>4 DEF GroupsKept, Building, Calls, GroupCalls
<1>7. AnswersKept'
  BY <1>1 DEF AnswersKept
<1>8. SyncedUpToHeld'
  BY <1>1 DEF SyncedUpToHeld
<1> QED
  BY <1>1, <1>2, <1>4, <1>5, <1>6, <1>7, <1>8 DEF EvaluationInv, Building, Calls

LEMMA EvaluationAsk == ASSUME EvaluationInv, Ask PROVE EvaluationInv'
<1>1. /\ call = "none" /\ call' = call /\ UNCHANGED theModel /\ plan' = plan /\ group' = group
      /\ remaining' = remaining /\ present' = present /\ synced' = synced
  BY DEF Ask, evaluated
<1>2. PICK members : answers' = WithValue(answers, members, Reaches(declared, plan, members))
  BY DEF Ask
<1>3. call \notin Building
  BY <1>1 DEF Building
<1>4. /\ model' \in Models /\ plan_revision' \in 0 .. Len(model'.stages) - 1
      /\ declared' = plan_revision' + 1 /\ BuiltUpTo(call)'
      /\ model' = model /\ declared' = declared /\ plan_revision' = plan_revision
      /\ Grouped(declared, plan, plan_revision)' = Grouped(declared, plan, plan_revision)
  BY <1>1, <1>3, PlanStays
<1>5. GroupsKept'
  BY <1>1, <1>4 DEF GroupsKept, EvaluationInv
<1>6. AnswersKept'
  <2>1. \A s : Reaches(declared, plan, s)' <=> Reaches(declared, plan, s)
    BY <1>1, <1>4, PlanFrame
  <2>2. \A s : Reaches(declared, plan, s) \in BOOLEAN
    BY DEF Reaches
  <2>3. \A s : Reaches(declared, plan, s)' \in BOOLEAN
    BY DEF Reaches
  <2>4. \A s \in DOMAIN answers : answers[s] = Reaches(declared, plan, s)
    BY DEF EvaluationInv, AnswersKept
  <2>5. \A s \in DOMAIN answers' : answers'[s] = Reaches(declared, plan, s)
    BY <1>2, <2>4 DEF WithValue
  <2>6. \A s \in DOMAIN answers' : answers'[s] = Reaches(declared, plan, s)'
    BY <2>1, <2>2, <2>3, <2>5
  <2>7. call' \notin Building \cup {"solver"}
    BY <1>1 DEF Building
  <2> QED
    BY <2>6, <2>7 DEF AnswersKept
<1>7. SyncedUpToHeld'
  BY <1>1 DEF EvaluationInv, SyncedUpToHeld
<1> QED
  BY <1>1, <1>4, <1>5, <1>6, <1>7 DEF EvaluationInv, Calls

LEMMA EvaluationStutters == ASSUME EvaluationInv, UNCHANGED evaluationVars PROVE EvaluationInv'
<1>1. /\ model' = model /\ declared' = declared /\ plan_revision' = plan_revision /\ plan' = plan
      /\ group' = group /\ answers' = answers /\ call' = call /\ remaining' = remaining
      /\ present' = present /\ inputs_set' = inputs_set /\ synced' = synced
  BY DEF evaluationVars, theModel, evaluated
<1>2. /\ \A r : Grouped(declared, plan, r)' = Grouped(declared, plan, r)
      /\ \A c : Chosen(c)' = Chosen(c)
      /\ Split(declared, plan)' <=> Split(declared, plan)
      /\ \A members : Reaches(declared, plan, members)' <=> Reaches(declared, plan, members)
      /\ InwardNodes' = InwardNodes
  BY <1>1, PlanFrame
<1>3. CASE call \in Building
  <2>1. BuiltUpTo(call)'
    <3>1. SignalDependencies(declared)' = SignalDependencies(declared)
      BY <1>1, ModelFrame
    <3>2. \A i \in DOMAIN plan.order :
             Operation(declared, plan.deps, plan.parts[plan.order[i]])'
                 = Operation(declared, plan.deps, plan.parts[plan.order[i]])
      BY <1>1, ModelFrame
    <3>3. BuiltUpTo(call)
      BY DEF EvaluationInv
    <3> QED
      BY <1>1, <1>3, <3>1, <3>2, <3>3 DEF BuiltUpTo, Building
  <2> QED
    BY <1>1, <1>3, <2>1, BuildStep DEF theModel, evaluated, Building
<1>4. CASE call \notin Building
  <2>1. /\ model' \in Models /\ plan_revision' \in 0 .. Len(model'.stages) - 1
        /\ declared' = plan_revision' + 1 /\ BuiltUpTo(call)'
        /\ Grouped(declared, plan, plan_revision)' = Grouped(declared, plan, plan_revision)
    BY <1>1, <1>4, PlanStays DEF theModel
  <2>2. GroupsKept'
    BY <1>1, <2>1 DEF EvaluationInv, GroupsKept
  <2>3. AnswersKept'
    <3>1. CASE call = "solver"
      BY <1>1, <3>1 DEF EvaluationInv, AnswersKept
    <3>2. CASE call # "solver"
      BY <1>1, <1>4, <3>2, AnswersStay DEF EvaluationInv
    <3> QED
      BY <3>1, <3>2
  <2>4. SyncedUpToHeld'
    BY <1>1 DEF EvaluationInv, SyncedUpToHeld
  <2>5. ASSUME NEW todo, Progress(todo)
        PROVE  Progress(todo)'
    <3>1. Chosen(call)' = Chosen(call)
      BY <1>1, <1>2 DEF Chosen
    <3>2. InOrder(plan, todo)' = InOrder(plan, todo)
      BY <1>1 DEF InOrder
    <3> QED
      BY <1>1, <1>2, <2>5, <3>1, <3>2 DEF Progress
  <2>6. call \in Calls => \E todo : Progress(todo)'
    BY <2>5 DEF EvaluationInv
  <2> QED
    BY <1>1, <2>1, <2>2, <2>3, <2>4, <2>6 DEF EvaluationInv
<1> QED
  BY <1>3, <1>4

(***************************************************************************)
(* Whatever is built, loaded, run, interrupted or renewed, the plan in     *)
(* force is of the stages declared and a call goes along it                *)
(* (_build_evaluation_plan, rebuild_evaluation_plan, evaluate).            *)
(***************************************************************************)
THEOREM EvaluationIsInductive == EvaluationSpec => []EvaluationInv
<1>1. ASSUME EvaluationInv, [EvaluationNext]_evaluationVars PROVE EvaluationInv'
  <2>1. CASE Connect \/ Analyze \/ Condense \/ Sort \/ Collapse \/ Cut
    BY <1>1, <2>1, EvaluationBuilds
  <2>2. CASE MakeSolver
    BY <1>1, <2>2, EvaluationMakeSolver
  <2>3. CASE Sync \/ Rhs \/ RhsGroup
    BY <1>1, <2>3, EvaluationLoads
  <2>4. CASE SyncZoh
    BY <1>1, <2>4, EvaluationSyncZoh
  <2>5. CASE SetZohInput
    BY <1>1, <2>5, EvaluationSetZohInput
  <2>6. CASE Run
    BY <1>1, <2>6, EvaluationRun
  <2>7. CASE NoConvergence
    BY <1>1, <2>7, EvaluationNoConvergence
  <2>8. CASE Return
    BY <1>1, <2>8, EvaluationReturn
  <2>9. CASE Rebuild
    BY <1>1, <2>9, EvaluationRebuild
  <2>10. CASE Ask
    BY <1>1, <2>10, EvaluationAsk
  <2>11. CASE UNCHANGED evaluationVars
    BY <1>1, <2>11, EvaluationStutters
  <2> QED
    BY <1>1, <2>1, <2>2, <2>3, <2>4, <2>5, <2>6, <2>7, <2>8, <2>9, <2>10, <2>11
       DEF EvaluationNext
<1> QED
  BY <1>1, EvaluationStarts, PTL DEF EvaluationSpec

\* What a caller reads is of operations that its call has done.
LEMMA ReadsAreOfCalls == EvaluationInv => ReadsArePresent
<1> SUFFICES ASSUME EvaluationInv, call \in Calls, remaining = <<>>
             PROVE  ReadsArePresent
  BY DEF ReadsArePresent
<1> DEFINE K == DOMAIN plan.operations
           N(i) == plan.operations[i].nodes
           W == model.windowed
           S == model.stateful
<1>1. /\ model \in Models /\ declared \in 1 .. Len(model.stages) /\ BuiltUpTo(call)
      /\ call \notin Building /\ SyncedUpToHeld /\ GroupsKept
  BY DEF EvaluationInv, Calls, Building
<1>2. /\ \A n \in Nodes(declared) : \E i \in K : n \in N(i)
      /\ IsGraph(plan.positions) /\ DOMAIN plan.positions = K /\ Backward(plan.positions)
      /\ plan.rhs = Live(Required, plan.positions)
  BY <1>1, PlanIs
<1>3. PICK todo : Progress(todo)
  BY DEF EvaluationInv
<1>4. todo = {}
  BY <1>1, <1>3, NothingLeft
<1>5. /\ (call = "own" => ~Split(declared, plan)) => \A i \in Chosen(call) : N(i) \subseteq present
      /\ call = "zoh" => synced
      /\ call = "own" => InwardNodes \subseteq present /\ inputs_set = InwardNodes
  BY <1>3, <1>4 DEF Progress
<1>6. ASSUME NEW subs, NEW n \in Reads(subs)
      PROVE  \E i \in K : n \in N(i) /\ i \in OwnedBy(declared, plan, subs)
  <2>1. n \in Nodes(declared) /\ NodeOwners(declared, n) \cap subs # {}
    BY DEF Reads
  <2>2. PICK i \in K : n \in N(i)
    BY <1>2, <2>1
  <2>3. NodeOwners(declared, n) \subseteq OperationOwners(declared, plan.operations[i])
    BY <2>2 DEF OperationOwners
  <2> QED
    BY <2>1, <2>2, <2>3 DEF OwnedBy
<1>7. ASSUME NEW T, T \subseteq K, NEW more, NEW some, some \subseteq more,
             OwnedBy(declared, plan, more) \subseteq T, \A i \in T : N(i) \subseteq present
      PROVE  Reads(some) \subseteq present
  <2> SUFFICES ASSUME NEW n \in Reads(some) PROVE n \in present
    OBVIOUS
  <2>1. PICK i \in K : n \in N(i) /\ i \in OwnedBy(declared, plan, some)
    BY <1>6
  <2>2. i \in OwnedBy(declared, plan, more)
    BY <1>7, <2>1 DEF OwnedBy
  <2> QED
    BY <1>7, <2>1, <2>2
<1>8. ASSUME NEW seeds, seeds \subseteq K
      PROVE  /\ seeds \subseteq Closure(seeds, plan.positions)
             /\ Closure(seeds, plan.positions) \subseteq K
  BY <1>2, <1>8, ClosureIs
<1>9. CASE call = "sync"
  BY <1>2, <1>5, <1>9 DEF ReadsArePresent, Chosen
<1>10. CASE call = "zoh"
  <2>1. \A i \in plan.zoh : N(i) \subseteq present
    BY <1>5, <1>10 DEF Chosen
  <2>2. \A i \in K \ plan.zoh : N(i) \subseteq present
    BY <1>1, <1>5, <1>10 DEF SyncedUpToHeld
  <2>3. Nodes(declared) \subseteq present
    BY <1>2, <2>1, <2>2
  <2> QED
    BY <1>10, <2>3 DEF ReadsArePresent
<1>11. CASE call = "rhs"
  <2> SUFFICES ASSUME NEW n \in Reads(S) PROVE n \in present
    BY <1>11 DEF ReadsArePresent
  <2>1. ReadByRhs(declared, n)
    BY DEF Reads, ReadByRhs, NodeOwners
  <2>2. PICK i \in K : n \in N(i)
    BY <1>6
  <2>3. i \in Required
    BY <2>1, <2>2 DEF Required
  <2>4. Required \in SUBSET K
    BY DEF Required
  <2>5. Required \subseteq plan.rhs
    BY <1>2, <2>4, LiveIs
  <2> QED
    BY <1>5, <1>11, <2>2, <2>3, <2>5 DEF Chosen
<1>12. CASE call = "windowed"
  <2>1. Windowed \subseteq K
    BY DEF Windowed, OwnedBy
  <2>2. Windowed \subseteq Chosen("windowed") /\ Chosen("windowed") \subseteq K
    BY <1>8, <2>1 DEF Chosen
  <2>3. Reads(S \cap W) \subseteq present
    BY <1>5, <1>7, <1>12, <2>2 DEF Windowed
  <2> QED
    BY <1>12, <2>3 DEF ReadsArePresent
<1>13. CASE call = "system"
  <2> DEFINE rest == OwnedBy(declared, plan, model.subsystems \ W)
  <2>1. rest \subseteq K
    BY DEF OwnedBy
  <2>2. rest \subseteq Chosen("system") /\ Chosen("system") \subseteq K
    BY <1>8, <2>1 DEF Chosen
  <2>3. S \ W \subseteq model.subsystems \ W
    BY <1>1, ModelsAssumption DEF IsModel
  <2>4. Reads(S \ W) \subseteq present
    BY <1>5, <1>7, <1>13, <2>2, <2>3
  <2> QED
    BY <1>13, <2>4 DEF ReadsArePresent
<1>14. call \in GroupCalls => group.windowed.inputs = InwardNodes
  BY <1>1 DEF GroupsKept, Calls, Grouped, GroupPlan, InwardNodes, Inward
<1>15. CASE call = "feed"
  <2>1. Inward \subseteq K
    BY DEF Inward, Boundary, OwnedBy
  <2>2. Inward \subseteq Chosen("feed")
    BY <1>8, <2>1 DEF Chosen
  <2>3. InwardNodes \subseteq present
    BY <1>5, <1>15, <2>2 DEF InwardNodes
  <2> QED
    BY <1>14, <1>15, <2>3 DEF ReadsArePresent, GroupCalls
<1>16. CASE call = "own"
  <2> SUFFICES ASSUME ~Split(declared, plan)
               PROVE  Reads(S \cap W) \subseteq present /\ inputs_set = group.windowed.inputs
    BY <1>16 DEF ReadsArePresent
  <2>1. \A i \in Windowed \ Inward : N(i) \subseteq present
    BY <1>5, <1>16 DEF Chosen
  <2>2. \A i \in Inward : N(i) \subseteq present
    BY <1>5, <1>16 DEF InwardNodes
  <2>3. \A i \in Windowed : N(i) \subseteq present
    BY <2>1, <2>2
  <2>4. Windowed \subseteq K
    BY DEF Windowed, OwnedBy
  <2>5. Reads(S \cap W) \subseteq present
    BY <1>7, <2>3, <2>4 DEF Windowed
  <2> QED
    BY <1>5, <1>14, <1>16, <2>5 DEF GroupCalls
<1> QED
  BY <1>9, <1>10, <1>11, <1>12, <1>13, <1>15, <1>16 DEF Calls

(***************************************************************************)
(* When a call of the model has done its operations, whatever its caller   *)
(* reads, of all subsystems, of a group, or of the inputs it has set, is   *)
(* of the states it loaded and the held inputs (sync, rhs, rhs_group).     *)
(***************************************************************************)
THEOREM EvaluationReadsThePresent == EvaluationSpec => []ReadsArePresent
BY EvaluationIsInductive, ReadsAreOfCalls, PTL

\* The operations of a plan that is built are the classes of its nodes.
LEMMA LoopsOfPlan == EvaluationInv => LoopsAreCycles
<1> SUFFICES ASSUME EvaluationInv, call = "none" PROVE LoopsAreCycles
  BY DEF LoopsAreCycles
<1> DEFINE K == DOMAIN plan.operations
           D == plan.deps
           Class(n) == {m \in Behind(D, {n}) : n \in Behind(D, {m})}
<1>1. /\ model \in Models /\ declared \in 1 .. Len(model.stages) /\ BuiltUpTo(call)
      /\ call \notin Building
  BY DEF EvaluationInv, Building
<1>2. /\ D = SignalDependencies(declared) /\ IsLayout(D, PlanNodes, plan.positions)
      /\ DOMAIN PlanNodes = K /\ DOMAIN plan.positions = K /\ Backward(plan.positions)
      /\ \A i \in K : PlanNodes[i] = plan.operations[i].nodes
      /\ \A n \in Nodes(declared) : \E i \in K : n \in plan.operations[i].nodes
      /\ \A i \in K : plan.operations[i].nodes \subseteq Nodes(declared)
  BY <1>1, PlanIs
<1>3. \A i \in K : plan.operations[i] = Operation(declared, D, PlanNodes[i])
  BY <1>1, OperationsAre
<1>4. Opens(declared, D)
  BY <1>1, <1>2, DependenciesAre
<1>5. UNION {plan.operations[i].nodes : i \in K} = Nodes(declared)
  BY <1>2
<1>6. ASSUME NEW i \in K
      PROVE  LET op == plan.operations[i]
             IN  /\ \A n \in op.nodes : op.nodes = Class(n)
                 /\ op.loop <=> \E n \in op.nodes : D[n] \cap op.nodes # {}
                 /\ op.loop <=> op.tears # {}
                 /\ \A n \in op.tears : IsCopy(declared, n)
                 /\ \A d \in plan.positions[i] : d < i
  <2> DEFINE op == plan.operations[i]
  <2>1. LET o == Operation(declared, D, PlanNodes[i])
            S == PlanNodes[i]
        IN  /\ o.nodes = S
            /\ o.loop <=> \E n \in S : D[n] \cap S # {}
            /\ o.loop <=> o.tears # {}
            /\ \A n \in o.tears : IsCopy(declared, n)
    BY <1>2, <1>4, OperationIs
  <2>2. op = Operation(declared, D, PlanNodes[i]) /\ op.nodes = PlanNodes[i]
    BY <1>2, <1>3
  <2>3. ASSUME NEW n \in PlanNodes[i] PROVE PlanNodes[i] = Class(n)
    <3>1. i \in DOMAIN PlanNodes /\ IsLayout(D, PlanNodes, plan.positions)
      BY <1>2
    <3> QED
      BY <3>1, LayoutClass
  <2>4. \A d \in plan.positions[i] : d < i
    BY <1>2 DEF Backward
  <2> HIDE DEF op, Class
  <2> QED
    BY <2>1, <2>2, <2>3, <2>4 DEF op
<1> QED
  BY <1>5, <1>6 DEF LoopsAreCycles

\* The derivatives use a node just if they use its operation.
LEMMA UsedAre ==
    ASSUME model \in Models, declared \in 1 .. Len(model.stages), NEW c, BuiltUpTo(c),
           c \notin Building, NEW i \in DOMAIN plan.operations,
           NEW m \in plan.operations[i].nodes
    PROVE  i \in plan.rhs <=> \E q \in Behind(plan.deps, {m}) : ReadByRhs(declared, q)
<1> DEFINE K == DOMAIN plan.operations
           D == plan.deps
           P == plan.positions
           N(j) == plan.operations[j].nodes
<1>1. /\ IsLayout(D, PlanNodes, P) /\ IsGraph(D) /\ DOMAIN D = Nodes(declared)
      /\ IsGraph(P) /\ DOMAIN P = K /\ Backward(P)
      /\ DOMAIN PlanNodes = K /\ \A j \in K : PlanNodes[j] = N(j)
      /\ \A n \in Nodes(declared) : \E j \in K : n \in N(j)
      /\ \A j \in K : N(j) \subseteq Nodes(declared)
      /\ plan.rhs = Live(Required, P)
  BY PlanIs
<1>2. Required \in SUBSET K
  BY DEF Required
<1>3. i \in plan.rhs <=> \E r \in Required : r \in Behind(P, {i})
  BY <1>1, <1>2, LiveReaches
<1>4. \A j \in K, q \in Nodes(declared) :
          q \in N(j) => (q \in Behind(D, {m}) <=> j \in Behind(P, {i}))
  BY <1>1, LayoutReaches
<1>5. Behind(D, {m}) \subseteq Nodes(declared)
  <2>1. IsGraph(D) /\ m \in DOMAIN D
    BY <1>1
  <2> QED
    BY <1>1, <2>1, BehindNode, ZenonT(60)
<1>6. ASSUME NEW r \in Required, r \in Behind(P, {i})
      PROVE  \E q \in Behind(D, {m}) : ReadByRhs(declared, q)
  <2>1. PICK q \in N(r) : ReadByRhs(declared, q)
    BY DEF Required
  <2> QED
    BY <1>1, <1>2, <1>4, <1>6, <2>1
<1>7. ASSUME NEW q \in Behind(D, {m}), ReadByRhs(declared, q)
      PROVE  \E r \in Required : r \in Behind(P, {i})
  <2>1. PICK r \in K : q \in N(r)
    BY <1>1, <1>5
  <2>2. r \in Required
    BY <1>7, <2>1 DEF Required
  <2> QED
    BY <1>4, <1>5, <2>1, <2>2
<1> QED
  BY <1>3, <1>6, <1>7

\* What is answered along the plan is so along the signals.
LEMMA AnswersOfPlan == EvaluationInv => AnswersArePresent
<1> SUFFICES ASSUME EvaluationInv, NEW members \in DOMAIN answers
             PROVE  answers[members] <=>
                       \E n \in Nodes(declared), m \in Nodes(declared) :
                           /\ \E q \in Behind(plan.deps, {m}) : ReadByRhs(declared, q)
                           /\ NodeOwners(declared, n) \cap members # {}
                           /\ NodeOwners(declared, m) \cap External(members) # {}
                           /\ m \in Behind(plan.deps, {n})
  BY DEF AnswersArePresent
<1> DEFINE K == DOMAIN plan.operations
           D == plan.deps
           P == plan.positions
           N(i) == plan.operations[i].nodes
           Ours(subs) == OwnedBy(declared, plan, subs)
           Needed(m) == \E q \in Behind(D, {m}) : ReadByRhs(declared, q)
           E == External(members)
<1>1. /\ model \in Models /\ declared \in 1 .. Len(model.stages) /\ BuiltUpTo(call)
      /\ call \notin Building /\ answers[members] = Reaches(declared, plan, members)
  BY DEF EvaluationInv, AnswersKept, Building
<1>2. /\ IsLayout(D, PlanNodes, P) /\ IsGraph(D) /\ DOMAIN D = Nodes(declared)
      /\ IsGraph(P) /\ DOMAIN P = K
      /\ DOMAIN PlanNodes = K /\ \A j \in K : PlanNodes[j] = N(j)
      /\ \A n \in Nodes(declared) : \E j \in K : n \in N(j)
      /\ \A j \in K : N(j) \subseteq Nodes(declared)
  BY <1>1, PlanIs
<1>3. \A i \in K, m \in Nodes(declared) : m \in N(i) => (i \in plan.rhs <=> Needed(m))
  BY <1>1, UsedAre
<1>4. \A i, j \in K, n, m \in Nodes(declared) :
          n \in N(i) /\ m \in N(j) => (m \in Behind(D, {n}) <=> j \in Behind(P, {i}))
  <2> SUFFICES ASSUME NEW i \in K, NEW j \in K, NEW n \in N(i), NEW m \in N(j)
               PROVE  m \in Behind(D, {n}) <=> j \in Behind(P, {i})
    OBVIOUS
  <2>1. /\ i \in DOMAIN PlanNodes /\ j \in DOMAIN PlanNodes
        /\ n \in PlanNodes[i] /\ m \in PlanNodes[j]
    BY <1>2
  <2> QED
    BY <1>2, <2>1, LayoutReaches
<1>5. \A subs, i : i \in Ours(subs) <=>
          i \in K /\ \E n \in N(i) : NodeOwners(declared, n) \cap subs # {}
  BY DEF OwnedBy, OperationOwners
<1>6. Ours(members) \in SUBSET K
  BY DEF OwnedBy
<1>7. \A j : j \in Behind(P, Ours(members)) <=> \E i \in Ours(members) : j \in Behind(P, {i})
  BY <1>2, <1>6, BehindOne
<1>8. answers[members] <=>
         \E i \in Ours(members), j \in Ours(E) : j \in Behind(P, {i}) /\ j \in plan.rhs
  BY <1>1, <1>7 DEF Reaches
<1> HIDE DEF N, Ours, Needed, E, D, P
<1>9. ASSUME NEW i \in Ours(members), NEW j \in Ours(E), j \in Behind(P, {i}), j \in plan.rhs
      PROVE  \E n \in Nodes(declared), m \in Nodes(declared) :
                 /\ Needed(m) /\ NodeOwners(declared, n) \cap members # {}
                 /\ NodeOwners(declared, m) \cap E # {} /\ m \in Behind(D, {n})
  <2>1. i \in K /\ j \in K
    BY <1>5
  <2>2. PICK n \in N(i) : NodeOwners(declared, n) \cap members # {}
    BY <1>5
  <2>3. PICK m \in N(j) : NodeOwners(declared, m) \cap E # {}
    BY <1>5
  <2>4. n \in Nodes(declared) /\ m \in Nodes(declared)
    BY <1>2, <2>1, <2>2, <2>3
  <2>5. Needed(m)
    BY <1>3, <1>9, <2>1, <2>3, <2>4
  <2>6. m \in Behind(D, {n})
    BY <1>4, <1>9, <2>1, <2>2, <2>3, <2>4
  <2> QED
    BY <2>2, <2>3, <2>4, <2>5, <2>6
<1>10. ASSUME NEW n \in Nodes(declared), NEW m \in Nodes(declared), Needed(m),
              NodeOwners(declared, n) \cap members # {}, NodeOwners(declared, m) \cap E # {},
              m \in Behind(D, {n})
       PROVE  \E i \in Ours(members), j \in Ours(E) : j \in Behind(P, {i}) /\ j \in plan.rhs
  <2>1. PICK i \in K : n \in N(i)
    BY <1>2
  <2>2. PICK j \in K : m \in N(j)
    BY <1>2
  <2>3. i \in Ours(members) /\ j \in Ours(E)
    BY <1>5, <1>10, <2>1, <2>2
  <2>4. j \in plan.rhs
    BY <1>3, <1>10, <2>2
  <2>5. j \in Behind(P, {i})
    BY <1>4, <1>10, <2>1, <2>2
  <2> QED
    BY <2>3, <2>4, <2>5
<1> QED
  BY <1>8, <1>9, <1>10 DEF Needed, D, E

(***************************************************************************)
(* A plan that is built has the cycles of the signals as its loops, each   *)
(* torn at copies and after what it depends on, and what was answered from *)
(* it is so of the signals, whatever plans there were before               *)
(* (_build_evaluation_plan, rebuild_evaluation_plan,                       *)
(* has_external_state_dependency).                                         *)
(***************************************************************************)
THEOREM EvaluationPlanIsPresent == EvaluationSpec => []PlanIsPresent
<1>1. EvaluationInv => PlanIsPresent
  BY LoopsOfPlan, AnswersOfPlan DEF PlanIsPresent
<1> QED
  BY <1>1, EvaluationIsInductive, PTL

=============================================================================
