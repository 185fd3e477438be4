----------------------------- MODULE Conduction -----------------------------
(***************************************************************************)
(* Natural conduction around the solver (assembly/conduction.py): before   *)
(* and after every smooth interval the commutations due there are          *)
(* dispatched until none is left, and inside an interval the first instant *)
(* at which a mode stops being valid is located.                           *)
(*                                                                         *)
(* One circuit of ideal diodes, one switch that changes at scheduled       *)
(* instants and one branch whose diode blocks reverse current.  The unit   *)
(* of time is the commutation tolerance.                                   *)
(***************************************************************************)
EXTENDS DiodeCircuit

CONSTANTS
    Circuits,           \* circuits checked
    Cuts,               \* instants at which the branch current would reverse
    Step,               \* the solver's step
    Interval,           \* between the boundaries of the run
    Period,             \* between the edges of the switch
    MaxCommutations,    \* rounds at one instant (64 in the code)
    LocatorIterations,  \* (80 in the code)
    Horizon             \* bound on time

ASSUME ConductionAssumption ==
    /\ Circuits \subseteq Circuit /\ Cuts \subseteq Nat
    /\ {Step, MaxCommutations, LocatorIterations} \subseteq Nat \ {0}
    /\ Interval \in Nat /\ Interval > 1 /\ Period \in Nat /\ Period > 2
    /\ Horizon \in Nat

VARIABLES
    circuit, cut,    \* the plant
    order,           \* its commutating parts, in model order
    observes,        \* the solver observes guards at its own steps
    now,             \* time of the state
    closed, edge,    \* the switch and its next scheduled instant
    conducting, residual,
    flows,           \* the branch carries current
    phase,           \* what runs next
    after,           \* where the dispatch returns to
    until,           \* end of the interval
    dispatch,        \* rounds so far, owners left in this one, one commutated
    search,          \* pattern search: attempts, patterns seen and checked, first one
    bracket,         \* locator: its two ends, how the last trial was chosen
    from,            \* start of the present pass
    stalled          \* passes that did not advance time

plant == <<circuit, cut, order, observes>>
state == <<closed, edge, conducting, residual, flows>>
vars == <<plant, now, state, phase, after, until, dispatch, search, bracket,
          from, stalled>>

Owners == {"circuit", "switch"}
NoDispatch == [rounds |-> 0, todo |-> {}, changed |-> FALSE]
NoSearch == [attempt |-> 0, seen |-> {}, checked |-> {}, start |-> {}]
NoBracket == [lower |-> 0, upper |-> 0, interpolated |-> FALSE, iteration |-> 0]

----------------------------------------------------------------------------
(***************************************************************************)
(* Margins.                                                                *)
(***************************************************************************)
\* The gate word of the switch is read one tolerance ahead.
EdgeDue(u) == edge <= u + 1

Negative(owner, u) ==
    IF owner = "switch" THEN EdgeDue(u)
    ELSE Fallen(circuit, conducting, closed, u, residual) # {}

\* DiodeConduction._margin, negative.
Invalid(u) ==
    \/ \E o \in Owners : Negative(o, u)
    \/ flows /\ u > cut

\* Instants of the solver's accepted steps over [now, target].
Accepted(target) ==
    LET n == (target - now + Step - 1) \div Step
    IN  {now + ((target - now) * k) \div n : k \in 1..n}

----------------------------------------------------------------------------
(***************************************************************************)
(* The dispatcher.                                                         *)
(***************************************************************************)
Settle(then) ==
    /\ phase' = "settle" /\ after' = then
    /\ dispatch' = NoDispatch /\ search' = NoSearch

\* Mutant of Pending: margins are read before the mode is synchronized.
PendingUnsynced == {o \in Owners : Negative(o, now)}

\* Owners that are invalid or scheduled, in the synchronized mode.
Pending == {o \in Owners : Negative(o, now)'}

SettleRound ==
    LET synced == Resolve(circuit, conducting, closed, {})
    IN  /\ phase = "settle" /\ dispatch.rounds < MaxCommutations
        /\ synced \in Patterns
        /\ conducting' = synced
        /\ residual' = Recovered(residual, conducting, synced)
        /\ UNCHANGED <<plant, now, closed, edge, flows, after, until, search,
                       bracket, from, stalled>>
        /\ \/ /\ Pending = {}
              /\ phase' = after /\ UNCHANGED dispatch
           \/ /\ Pending # {}
              /\ phase' = "dispatch"
              /\ dispatch' = [rounds |-> dispatch.rounds + 1, todo |-> Pending,
                              changed |-> FALSE]

\* No pattern with equations, or commutations without end.
SettleFails ==
    /\ phase = "settle"
    /\ \/ dispatch.rounds = MaxCommutations
       \/ Resolve(circuit, conducting, closed, {}) \notin Patterns
    /\ phase' = "failed"
    /\ UNCHANGED <<plant, now, state, after, until, dispatch, search, bracket,
                   from, stalled>>

\* The next pending owner, in the order of the model.
NextOwner(o) ==
    /\ o \in dispatch.todo
    /\ order[1] = o \/ order[1] \notin dispatch.todo

\* An earlier commutation of this round made the owner valid again.
Skipped(o) == dispatch.changed /\ ~Negative(o, now)

CommutateSwitch ==
    /\ phase = "dispatch" /\ NextOwner("switch") /\ ~Skipped("switch")
    /\ closed' = ~closed /\ edge' = edge + Period
    /\ dispatch' = [dispatch EXCEPT !.todo = @ \ {"switch"}, !.changed = TRUE]
    /\ UNCHANGED <<plant, now, conducting, residual, flows, phase, after, until,
                   search, bracket, from, stalled>>

CommutateCircuit ==
    /\ phase = "dispatch" /\ NextOwner("circuit") /\ ~Skipped("circuit")
    /\ phase' = "search"
    /\ search' = [NoSearch EXCEPT !.start = conducting]
    /\ dispatch' = [dispatch EXCEPT !.todo = @ \ {"circuit"}, !.changed = TRUE]
    /\ UNCHANGED <<plant, now, state, after, until, bracket, from, stalled>>

Skip ==
    /\ phase = "dispatch"
    /\ \E o \in dispatch.todo :
           /\ NextOwner(o) /\ Skipped(o)
           /\ dispatch' = [dispatch EXCEPT !.todo = @ \ {o}]
    /\ UNCHANGED <<plant, now, state, phase, after, until, search, bracket, from,
                   stalled>>

RoundDone ==
    /\ phase = "dispatch" /\ dispatch.todo = {}
    /\ phase' = "settle"
    /\ UNCHANGED <<plant, now, state, after, until, dispatch, search, bracket,
                   from, stalled>>

----------------------------------------------------------------------------
(***************************************************************************)
(* The pattern search (Netlist.commutate).  The first pattern is checked   *)
(* against its residual; if the search returns to it, to round-off.        *)
(***************************************************************************)
Seen == search.seen \cup {conducting}
Tried == Resolve(circuit, conducting, closed, Seen)

\* The diodes in reverse: by the jump into the pattern, else by its margins.
Bad(q) ==
    LET impulses == Impulses(circuit, q, closed, now)
    IN  IF impulses # {} THEN impulses
        ELSE IF search.attempt = 0
             THEN Fallen(circuit, q, closed, now, Recovered(residual, conducting, q))
             ELSE Reversed(circuit, q, closed, now)

\* Mutant of Exhausted: nothing stops a search that comes back.
NeverExhausted == FALSE

\* The bound on patterns, or a pattern checked to round-off seen again.
Exhausted == search.attempt = MaxPatterns \/ conducting \in search.checked

\* The diodes the search found in reverse flip together.
SearchFlip ==
    /\ phase = "search" /\ ~Exhausted /\ Tried \in Patterns /\ Bad(Tried) # {}
    /\ conducting' = SymDiff(Tried, Bad(Tried))
    /\ residual' = Recovered(residual, conducting, Tried)
    /\ search' = [attempt |-> IF search.attempt < MaxPatterns THEN search.attempt + 1
                               ELSE search.attempt,
                   seen |-> Seen,
                   checked |-> IF search.attempt > 0 THEN search.checked \cup {conducting}
                               ELSE search.checked,
                   start |-> search.start]
    /\ UNCHANGED <<plant, now, closed, edge, flows, phase, after, until, dispatch,
                   bracket, from, stalled>>

SearchAccept ==
    /\ phase = "search" /\ ~Exhausted /\ Tried \in Patterns /\ Bad(Tried) = {}
    /\ conducting' = Tried
    /\ residual' = IF search.attempt > 0 THEN Kept(circuit, Tried, closed, now)
                   ELSE Recovered(residual, conducting, Tried)
    /\ phase' = "dispatch"
    /\ UNCHANGED <<plant, now, closed, edge, flows, after, until, dispatch, search,
                   bracket, from, stalled>>

\* The diodes of a failed search are put back.
SearchFails ==
    /\ phase = "search" /\ (Exhausted \/ Tried \notin Patterns)
    /\ conducting' = search.start
    /\ phase' = "failed"
    /\ UNCHANGED <<plant, now, closed, edge, residual, flows, after, until, dispatch,
                   search, bracket, from, stalled>>

----------------------------------------------------------------------------
(***************************************************************************)
(* Intervals.                                                              *)
(***************************************************************************)
Init ==
    /\ circuit \in Circuits /\ cut \in Cuts /\ observes \in BOOLEAN
    /\ order \in SetToSeqs(Owners)
    /\ now = 0 /\ closed \in BOOLEAN /\ edge = Period
    /\ conducting = {} /\ residual = NoResidual /\ flows = TRUE
    /\ phase = "settle" /\ after = "call" /\ until = 0
    /\ dispatch = NoDispatch /\ search = NoSearch /\ bracket = NoBracket
    /\ from = 0 /\ stalled = 0

\* A boundary of the run: another command may move the switch, and outputs
\* are synchronized before they are read.
Boundary ==
    /\ phase = "call" /\ now < Horizon
    /\ closed' \in BOOLEAN
    /\ Settle("begin")
    /\ UNCHANGED <<plant, now, edge, conducting, residual, flows, until, bracket,
                   from, stalled>>

\* DiodeConduction.advance: modes are settled before the first interval.
Advance ==
    /\ phase = "begin"
    /\ until' = now + Interval /\ stalled' = 0
    /\ Settle("pass")
    /\ UNCHANGED <<plant, now, state, bracket, from>>

Target == IF observes THEN until ELSE IF now + Step < until THEN now + Step ELSE until
Reached == IF edge < Target THEN edge ELSE Target

\* Where the first negative margin is observed, and the last instant before
\* it.  A solver with guards observes its own steps; the exported program and
\* a solver without guards observe the end of the interval.
Crossings == {u \in IF observes THEN Accepted(Reached) ELSE {Reached} : Invalid(u)}
Crossed == CHOOSE u \in Crossings : \A v \in Crossings : u <= v
Before ==
    IF ~observes THEN now
    ELSE LET earlier == {u \in Accepted(Reached) : u < Crossed} \cup {now}
         IN  CHOOSE u \in earlier : \A v \in earlier : v <= u

IntervalEnds ==
    /\ phase = "pass" /\ now >= until - 1
    /\ now' = until /\ phase' = "call"
    /\ UNCHANGED <<plant, state, after, until, dispatch, search, bracket, from, stalled>>

\* A pass without a crossing.
PassSmoothly ==
    /\ phase = "pass" /\ now < until - 1 /\ Crossings = {}
    /\ now' = Reached /\ from' = now
    /\ phase' = "passed"
    /\ UNCHANGED <<plant, state, after, until, dispatch, search, bracket, stalled>>

PassCrosses ==
    /\ phase = "pass" /\ now < until - 1 /\ Crossings # {}
    /\ from' = now
    /\ bracket' = [NoBracket EXCEPT !.lower = Before, !.upper = Crossed]
    /\ phase' = "locate"
    /\ UNCHANGED <<plant, now, state, after, until, dispatch, search, stalled>>

\* The bracket after a trial, and after that of the adjacent instant.
Narrowed(b, middle, interpolated) ==
    LET first == IF Invalid(middle) THEN [b EXCEPT !.upper = middle]
                 ELSE [b EXCEPT !.lower = middle]
        adjacent == IF Invalid(middle) THEN middle - 1 ELSE middle + 1
    IN  IF ~interpolated \/ adjacent <= first.lower \/ adjacent >= first.upper
        THEN first
        ELSE IF Invalid(adjacent) THEN [first EXCEPT !.upper = adjacent]
        ELSE [first EXCEPT !.lower = adjacent]

\* Mutant of MayInterpolate: a secant may follow a secant.
AlwaysInterpolates(b) == TRUE

\* A bisection follows every interpolated trial.
MayInterpolate(b) == ~b.interpolated

LocatorDone == bracket.upper - bracket.lower <= 1 \/ bracket.iteration = LocatorIterations

Locate ==
    LET b == [bracket EXCEPT !.iteration = @ + 1]
    IN  /\ phase = "locate" /\ ~LocatorDone
        /\ \/ bracket' = [Narrowed(b, b.lower + (b.upper - b.lower) \div 2, FALSE)
                             EXCEPT !.interpolated = FALSE]
           \/ /\ MayInterpolate(b)   \* and the margin at the lower end is positive
              /\ \E middle \in (b.lower + 1)..(b.upper - 1) :
                     bracket' = [Narrowed(b, middle, TRUE) EXCEPT !.interpolated = TRUE]
        /\ UNCHANGED <<plant, now, state, phase, after, until, dispatch, search, from,
                       stalled>>

\* The state of the invalid end is taken, reverse current cut to zero, and
\* the commutations due there are dispatched.
Located ==
    /\ phase = "locate" /\ LocatorDone
    /\ now' = bracket.upper
    /\ flows' = (flows /\ bracket.upper <= cut)
    /\ Settle("passed")
    /\ UNCHANGED <<plant, closed, edge, conducting, residual, until, bracket, from,
                   stalled>>

Stall == IF now - from <= 1 THEN stalled + 1 ELSE 0

Passed ==
    /\ phase = "passed"
    /\ phase' = IF now = until THEN "call"
                ELSE IF Stall >= MaxCommutations THEN "failed" ELSE "pass"
    /\ stalled' = IF now = until THEN stalled ELSE Stall
    /\ UNCHANGED <<plant, now, state, after, until, dispatch, search, bracket, from>>

Done == phase \in {"call", "failed"} /\ (phase = "call" => now >= Horizon) /\ UNCHANGED vars

Work ==
    \/ SettleRound \/ SettleFails \/ CommutateSwitch \/ CommutateCircuit \/ Skip
    \/ RoundDone \/ SearchFlip \/ SearchAccept \/ SearchFails
    \/ Boundary \/ Advance \/ IntervalEnds \/ PassSmoothly \/ PassCrosses
    \/ Locate \/ Located \/ Passed

Next == Work \/ Done

Spec == Init /\ [][Next]_vars /\ WF_vars(Work)

----------------------------------------------------------------------------
TypeOK ==
    /\ circuit \in Circuit /\ order \in SetToSeqs(Owners) /\ cut \in Cuts /\ observes \in BOOLEAN
    /\ {now, edge, until, from, stalled} \subseteq Nat
    /\ closed \in BOOLEAN /\ flows \in BOOLEAN
    /\ conducting \in Patterns /\ residual \in Residuals
    /\ phase \in {"settle", "dispatch", "search", "call", "begin", "pass", "passed",
                  "locate", "failed"}
    /\ dispatch.rounds \in 0..MaxCommutations

Consistent(u) == ~Invalid(u)

(***************************************************************************)
(* When a call returns every mode is one the states allow: no diode margin *)
(* is negative, no edge of the switch is overdue and no blocked current    *)
(* flows back, up to the tolerance of one tick that an interval may end    *)
(* early.  The same holds after outputs have been synchronized at a        *)
(* boundary, where only a branch can be late by that tick.                 *)
(***************************************************************************)
ReturnsConsistent ==
    /\ phase = "call" => Consistent(now) \/ (now = until /\ Consistent(now - 1))
    /\ phase = "begin" => /\ \A o \in Owners : ~Negative(o, now)
                          /\ flows => now - 1 <= cut

(***************************************************************************)
(* A mode is left at the first instant it is invalid, however the secant   *)
(* and bisection trials fall: at the end of the search no earlier instant  *)
(* of the pass was invalid.                                                *)
(***************************************************************************)
LocatesFirst ==
    phase = "locate" /\ LocatorDone =>
        /\ Invalid(bracket.upper)
        /\ \A u \in (from + 1)..(bracket.upper - 1) : Consistent(u)

(***************************************************************************)
(* A pattern the search accepts is one the dispatcher finds valid: the     *)
(* round-off it was accepted with does not count as another commutation.   *)
(***************************************************************************)
AcceptedHolds ==
    [][phase = "search" /\ phase' = "dispatch" => ~Negative("circuit", now)']_vars

(***************************************************************************)
(* Every run ends: at its horizon or with an error.                        *)
(***************************************************************************)
EndsOrFails == <>(phase = "failed" \/ (phase = "call" /\ now >= Horizon))

============================================================================
