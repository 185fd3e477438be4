--------------------------- MODULE InstantService ---------------------------
(***************************************************************************)
(* What a run promises its clocks, its file events and its output rows,    *)
(* whatever else happens at an instant: time never passes anything that is *)
(* due, the file events of an instant come before everything its clocks    *)
(* drive, its output row comes last, and nothing is served twice or left   *)
(* out (docs: Events-Timeline).  The event loop and the exported program   *)
(* are two implementations of it.                                          *)
(***************************************************************************)
EXTENDS PeriodicClock, Sequences

CONSTANTS
    Clocks,       \* the clock of everything that is served periodically
    EventTimes,   \* times of the file events, in the order of the file
    Start, Final, \* the run
    LogPeriod,    \* output period
    Resumed       \* the run continues a saved row

VARIABLES
    now,    \* the present instant
    index,  \* index of the next service of every clock
    next,   \* first file event not yet applied
    nlog    \* index of the next output row

vars == <<now, index, next, nlog>>

Served == DOMAIN Clocks

ServiceTime(c) == ClockAt(Clocks[c], index[c])
LastService(c) == ClockAt(Clocks[c], index[c] - 1)
RowTime == nlog * LogPeriod

\* No file event is left at or before t.
EventsDone(t) == next <= Len(EventTimes) => EventTimes[next] > t

Init ==
    /\ now = Start
    /\ index = [c \in Served |-> StartIndex(Clocks[c], Start, Resumed)]
    /\ next = 1
    /\ nlog = IndexAtOrAfter([period |-> LogPeriod, offset |-> 0], Start)

\* Time passes once everything due has been served, up to what is due next.
Pass(t) ==
    /\ now < t /\ t <= Final
    /\ \A c \in Served : now < ServiceTime(c) /\ t <= ServiceTime(c)
    /\ next <= Len(EventTimes) => now < EventTimes[next] /\ t <= EventTimes[next]
    /\ now < RowTime /\ t <= RowTime
    /\ now' = t
    /\ UNCHANGED <<index, next, nlog>>

\* The next file event of this instant; no clock has been served here yet.
Apply ==
    /\ next <= Len(EventTimes) /\ EventTimes[next] = now
    /\ \A c \in Served : LastService(c) < now
    /\ next' = next + 1
    /\ UNCHANGED <<now, index, nlog>>

\* Clocks due at this instant are served, after its file events.
Serve(clocks) ==
    /\ \A c \in clocks : ServiceTime(c) = now
    /\ EventsDone(now)
    /\ index' = [c \in Served |-> IF c \in clocks THEN index[c] + 1 ELSE index[c]]
    /\ UNCHANGED <<now, next, nlog>>

\* The output row of this instant, after everything else.
Row ==
    /\ RowTime = now /\ now < Final
    /\ EventsDone(now)
    /\ \A c \in Served : now < ServiceTime(c)
    /\ nlog' = nlog + 1
    /\ UNCHANGED <<now, index, next>>

Next ==
    \/ \E t \in now .. Final : Pass(t)
    \/ Apply
    \/ \E clocks \in SUBSET Served : Serve(clocks)
    \/ Row

Spec == Init /\ [][Next]_vars

=============================================================================
