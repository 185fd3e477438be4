--------------------------- MODULE UnitLifecycle ---------------------------
(***************************************************************************)
(* Connection, protection and gates of one converter unit                  *)
(* (assembly/unit.py, Unit; assembly/protection.py; the start-up command   *)
(* of control/controller.py; DCLink of components/converter.py).           *)
(*                                                                         *)
(* The event loop visits the unit at instants.  An instant applies the     *)
(* connection event scheduled there, then runs protect, sense and actuate  *)
(* in that order.  Output rows are written between instants, and a new run *)
(* may continue from any of them.                                          *)
(*                                                                         *)
(* A sampled unit drives its gates from the enable bit of the PWM word     *)
(* (PwmRegisters); only that bit and whether the latest computation has    *)
(* completed are kept here.  A continuous unit drives them directly.       *)
(***************************************************************************)
EXTENDS Naturals

CONSTANT Forms  \* the kinds of unit checked

Form == [filtered    : BOOLEAN,  \* has a series filter branch (branch_f)
         continuous  : BOOLEAN,  \* ideal averaging, no PWM registers
         computation : BOOLEAN]  \* the computation takes time

ASSUME FormAssumption == Forms \subseteq Form

\* Every kind there is: a continuous unit waits for no computation.
AllForms == {f \in Form : f.continuous => ~f.computation}

VARIABLES
    form,     \* kind of unit, fixed for the run
    pc,       \* next step of the current instant; "idle" between instants
    due,      \* what is due at this instant
    command,  \* connection command in force on the event timeline
    u,        \* the unit: latches, breaker, gates and power stage
    word,     \* enable bits of the three PWM registers
    pending,  \* _write_due: the enable computed at this instant
    aligned,  \* history: the running controller was tracked to the plant
    reports   \* history: trips reported to the event loop by this run

vars == <<form, pc, due, command, u, word, pending, aligned, reports>>

Causes == {"overcurrent", "sampled", "restored"}

Unit == [trip        : Causes \cup {"none"},  \* the latched trip
         fault       : BOOLEAN,
         breaker     : BOOLEAN,
         gates       : BOOLEAN,
         branch      : BOOLEAN,  \* the filter branch is closed
         source      : BOOLEAN,  \* the DC source is commanded on
         linkTripped : BOOLEAN,  \* the breaker of the DC source is open
         run         : BOOLEAN,  \* the start-up command of the controller
         driven      : BOOLEAN,  \* the bridge input follows the active word
         tripDue     : BOOLEAN,
         trackDue    : BOOLEAN]

\* Enable bits, and whether no load has yet seen the latest one completed.
Registers == [active : BOOLEAN, shadow : BOOLEAN, completed : BOOLEAN,
              computing : BOOLEAN]

Due == [edge : BOOLEAN, control : BOOLEAN, load : BOOLEAN]
NothingDue == [edge |-> FALSE, control |-> FALSE, load |-> FALSE]

Tripped(s) == s.trip # "none"

\* The source supplies the DC link.
SourceOn(s) == s.source /\ ~s.linkTripped

----------------------------------------------------------------------------
(***************************************************************************)
(* Lifecycle helpers, as functions from one unit to the next.              *)
(***************************************************************************)
UpdateTerminal(s) ==
    [s EXCEPT !.branch = form.filtered /\ s.breaker /\ s.gates /\ ~Tripped(s)]

\* Unit._set_gates, with _held_bridge_command for an unfiltered sampled bridge.
SetGates(s, on) ==
    LET g == on /\ ~Tripped(s) /\ (form.filtered \/ s.breaker)
    IN  UpdateTerminal(
            [s EXCEPT !.gates = g,
                      !.driven = @ /\ (form.filtered \/ form.continuous \/ g)])

\* Unit._shutdown and the two flags Unit.trip clears.
Shutdown(s) ==
    SetGates([s EXCEPT !.run = FALSE, !.breaker = FALSE, !.linkTripped = TRUE,
                       !.tripDue = FALSE, !.trackDue = FALSE], FALSE)

\* Mutant of ConnectUnit: a connect command closes a tripped unit.
ConnectTripped(s, on) ==
    LET wasActive == s.breaker /\ s.gates /\ ~Tripped(s)
        c == UpdateTerminal([s EXCEPT !.breaker = on, !.source = on, !.run = on])
    IN  IF form.continuous
        THEN SetGates([c EXCEPT !.trackDue = on /\ ~wasActive], on)
        ELSE IF form.filtered THEN c ELSE SetGates(c, on /\ word.active)

\* Mutant of ConnectUnit: only a unit already active is tracked.
ConnectUntracked(s, on) ==
    LET wasActive == s.breaker /\ s.gates /\ ~Tripped(s)
        effective == on /\ ~Tripped(s)
        c == UpdateTerminal([s EXCEPT !.breaker = effective, !.source = effective,
                                      !.run = effective])
    IN  IF form.continuous
        THEN SetGates([c EXCEPT !.trackDue = effective /\ wasActive], effective)
        ELSE IF form.filtered THEN c ELSE SetGates(c, effective /\ word.active)

\* Mutant of ConnectUnit: the controller is not told.
ConnectSilently(s, on) ==
    LET effective == on /\ ~Tripped(s)
        c == UpdateTerminal([s EXCEPT !.breaker = effective, !.source = effective])
    IN  IF form.continuous THEN SetGates(c, effective)
        ELSE IF form.filtered THEN c ELSE SetGates(c, effective /\ word.active)

\* Unit.connect.
ConnectUnit(s, on) ==
    LET wasActive == s.breaker /\ s.gates /\ ~Tripped(s)
        effective == on /\ ~Tripped(s)
        c == UpdateTerminal([s EXCEPT !.breaker = effective, !.source = effective,
                                      !.run = effective])
    IN  IF form.continuous
        THEN SetGates([c EXCEPT !.trackDue = effective /\ ~wasActive], effective)
        ELSE IF form.filtered THEN c ELSE SetGates(c, effective /\ word.active)

\* Mutant of Assembled: the breaker follows the timeline whatever the latch.
AssembledClosed(latched, fault, running, active) ==
    LET s == [trip |-> IF latched THEN "restored" ELSE "none",
              fault |-> fault, breaker |-> command, gates |-> FALSE, branch |-> FALSE,
              source |-> command, linkTripped |-> latched,
              run |-> running /\ ~latched, driven |-> TRUE,
              tripDue |-> FALSE, trackDue |-> FALSE]
    IN  SetGates(s, IF form.continuous THEN s.run ELSE active)

(***************************************************************************)
(* The lifecycle part of assembling a run: start, the states given for the *)
(* controller and the registers, states_loaded and begin_timing.  `latched'*)
(* and `fault' are the two latches loaded, `running' the start-up command  *)
(* loaded, `active' the enable of the active word.                         *)
(***************************************************************************)
Assembled(latched, fault, running, active) ==
    LET on == command /\ ~latched
        s == [trip |-> IF latched THEN "restored" ELSE "none",
              fault |-> fault, breaker |-> on, gates |-> FALSE, branch |-> FALSE,
              source |-> command, linkTripped |-> latched,
              run |-> running /\ ~latched, driven |-> TRUE,
              tripDue |-> FALSE, trackDue |-> FALSE]
    IN  SetGates(s, IF form.continuous THEN s.run /\ on ELSE active)

----------------------------------------------------------------------------
\* A fresh run.  The command in force at the start and the two latches may be
\* given; the registers hold the blocked neutral word.
Init ==
    /\ form \in Forms
    /\ pc = "idle" /\ due = NothingDue
    /\ command \in BOOLEAN
    /\ \E latched, fault \in BOOLEAN : u = Assembled(latched, fault, command, FALSE)
    /\ word = [active |-> FALSE, shadow |-> FALSE, completed |-> FALSE,
               computing |-> FALSE]
    /\ pending = "none"
    /\ aligned = command
    /\ reports = 0

\* What may coincide: a load ends the bridge's interval, so it is an edge of
\* fast_edge; a continuous unit has one clock for both kinds of protection.
MayBeDue(d) ==
    /\ d.load => d.edge
    /\ form.continuous => ~d.load /\ d.edge = d.control

\* An instant at which the unit itself is due.
Instant(d) ==
    /\ pc = "idle" /\ MayBeDue(d) /\ (d.edge \/ d.control)
    /\ pc' = "protect" /\ due' = d
    /\ UNCHANGED <<form, command, u, word, pending, aligned, reports>>

\* An instant with a connection event; the unit may be due as well.
Event(on, d) ==
    /\ pc = "idle" /\ MayBeDue(d)
    /\ pc' = "protect" /\ due' = d
    /\ command' = on
    /\ u' = ConnectUnit(u, on)
    /\ aligned' = (aligned /\ u.breaker /\ u.gates)
    /\ UNCHANGED <<form, word, pending, reports>>

\* Unit.protect: the fast over-current path; `over' is the observed current.
Protect(over) ==
    /\ pc = "protect" /\ pc' = "sense"
    /\ IF due.edge /\ ~Tripped(u) /\ over
       THEN /\ u' = Shutdown([u EXCEPT !.trip = "overcurrent", !.fault = TRUE])
            /\ reports' = reports + 1
       ELSE UNCHANGED <<u, reports>>
    /\ UNCHANGED <<form, due, command, word, pending, aligned>>

\* Unit._check_sampled_protection: the sampled criteria, checked once start-up
\* is complete, latch the trip and leave the shutdown to actuate.
Observed(s, bad) ==
    LET trips == due.control /\ bad /\ ~Tripped(s) /\ s.run
    IN  [s EXCEPT !.trip = IF trips THEN "sampled" ELSE @,
                  !.tripDue = @ \/ trips,
                  !.trackDue = FALSE]

\* Unit.sense: track a continuous controller that was just connected, run a
\* sampled one, check the sampled protection.
Sense(bad) ==
    /\ pc = "sense" /\ pc' = "actuate"
    /\ u' = Observed(u, bad)
    /\ aligned' = (aligned \/ u.trackDue)
    /\ pending' = IF due.control /\ ~form.continuous
                  THEN IF u.run THEN "on" ELSE "off"
                  ELSE "none"
    /\ UNCHANGED <<form, due, command, word, reports>>

\* PWM.write: `on' is the enable bit of the word, the command's own and'ed
\* with whether the unit may be enabled at this instant.
Write(w, on) == [w EXCEPT !.shadow = on, !.completed = w.shadow,
                          !.computing = form.computation]

\* PWM.load: a load within the latest computation takes the replaced word.
Load(w, late) == [w EXCEPT !.active = IF late THEN w.completed ELSE w.shadow,
                           !.computing = late]

WriteIfPending(w, enabled) ==
    IF pending = "none" THEN w ELSE Write(w, pending = "on" /\ enabled)
LoadIfDue(w, late) == IF due.load THEN Load(w, late) ELSE w

\* _SampledModel.actuate: the computation time orders the write and the load.
ActuateRegisters(w, enabled, late) ==
    IF form.computation
    THEN WriteIfPending(LoadIfDue(w, late), enabled)
    ELSE LoadIfDue(WriteIfPending(w, enabled), late)

\* Unit._actuate_bridge and the final hold of Unit.actuate: the gates follow
\* the active word, a load or an edge refreshes the bridge input, a blocked
\* unfiltered bridge is held at zero.
Actuated(s, active, enabled) ==
    LET g == IF (active /\ enabled) # s.gates THEN SetGates(s, active /\ enabled) ELSE s
    IN  [g EXCEPT !.driven = (@ \/ due.edge) /\ (form.filtered \/ g.gates)]

\* Unit.actuate: a trip left by sense first, then the bridge.  The breaker is
\* read before the trip opens it.
Actuate(late) ==
    /\ pc = "actuate" /\ pc' = "idle"
    /\ due' = NothingDue /\ pending' = "none"
    /\ late => form.computation /\ due.load /\ word.computing
    /\ LET s == IF u.tripDue THEN Shutdown(u) ELSE u
           enabled == (form.filtered \/ u.breaker) /\ ~Tripped(s)
       IN  IF form.continuous
           THEN u' = s /\ UNCHANGED word
           ELSE /\ word' = ActuateRegisters(word, enabled, late)
                /\ u' = Actuated(s, word'.active, enabled)
    /\ reports' = IF u.tripDue THEN reports + 1 ELSE reports
    /\ UNCHANGED <<form, command, aligned>>

(***************************************************************************)
(* The run stops at an output row and a new one continues from its states. *)
(* The completed word is not among them; validate.py accepts the row when  *)
(* the next load comes after the computation, or else when the replaced    *)
(* word is the active one (ContinuesExactly of PwmRegisters).              *)
(***************************************************************************)
Continue ==
    /\ pc = "idle"
    /\ word' \in {[word EXCEPT !.completed = word.active, !.computing = c] :
                    c \in {FALSE, word.computing /\ word.completed = word.active}}
    /\ u' = Assembled(Tripped(u), u.fault, u.run, word.active)
    /\ reports' = 0
    /\ UNCHANGED <<form, pc, due, command, pending, aligned>>

Step ==
    \/ \E over \in BOOLEAN : Protect(over)
    \/ \E bad \in BOOLEAN : Sense(bad)
    \/ \E late \in BOOLEAN : Actuate(late)

Next ==
    \/ \E d \in Due : Instant(d) \/ \E on \in BOOLEAN : Event(on, d)
    \/ Step
    \/ Continue

Spec == Init /\ [][Next]_vars

(***************************************************************************)
(* Interrupts and loads are periodic, so each kind recurs; an instant that *)
(* has begun is completed.                                                 *)
(***************************************************************************)
InterruptInstant == \E d \in Due : d.control /\ Instant(d)
LoadInstant == \E d \in Due : d.load /\ Instant(d)

Fairness == WF_vars(Step) /\ SF_vars(InterruptInstant) /\ SF_vars(LoadInstant)
FairSpec == Spec /\ Fairness

----------------------------------------------------------------------------
(***************************************************************************)
(* Properties.                                                             *)
(***************************************************************************)
TypeOK ==
    /\ form \in Forms
    /\ pc \in {"idle", "protect", "sense", "actuate"}
    /\ due \in Due /\ command \in BOOLEAN
    /\ u \in Unit /\ word \in Registers
    /\ pending \in {"none", "off", "on"}
    /\ aligned \in BOOLEAN /\ reports \in Nat

Isolated ==
    /\ ~u.gates /\ ~u.breaker /\ ~u.branch
    /\ ~SourceOn(u) /\ ~u.run

\* A tripped unit is out of service as soon as the instant of its trip is over
\* and stays so: gates, breaker, filter branch, DC source and controller are
\* all off, whatever the timeline commands and the registers still hold
\* (Unit.trip, Unit.connect, Unit._actuate_bridge, Unit.states_loaded).
TrippedIsIsolated == Tripped(u) /\ ~u.tripDue => Isolated

\* A sampled trip is acted on within the instant that latched it.
TripPending == u.tripDue => pc = "actuate" /\ u.trip = "sampled"

\* The filter branch is closed exactly while breaker and gates are, and a
\* continuous unit is gated exactly while it runs connected, at every step of
\* an instant (Unit._update_terminal, Unit._set_gates).
StageConsistent ==
    /\ u.branch <=> form.filtered /\ u.breaker /\ u.gates
    /\ form.continuous => (u.gates <=> u.run /\ u.breaker)

\* Between instants the gates are where the active word, the breaker and the
\* latch put them: no stale gate persists, however the trip, the connection,
\* the load and the restart interleave (Unit._set_gates, Unit._actuate_bridge,
\* Unit._restore_bridge_state).
GatesFollowWord ==
    pc = "idle" =>
        (u.gates <=> /\ ~Tripped(u)
                     /\ IF form.continuous THEN u.run ELSE word.active
                     /\ form.filtered \/ u.breaker)

\* The bridge of a blocked unfiltered sampled unit is held at the zero state
\* between instants, whatever edges its schedule still had (Unit.actuate).
BlockedHoldsZero ==
    pc = "idle" /\ ~form.filtered /\ ~form.continuous /\ ~u.gates => ~u.driven

\* The breaker, the source command and the controller follow the timeline
\* until a trip.
CommandFollowed ==
    ~Tripped(u) => u.breaker = command /\ u.source = command /\ u.run = command

\* The event loop learns of a trip exactly once: stop_on_trip neither misses
\* one nor is told of one it already handled (Unit.protect, Unit.actuate).
TripReportedOnce ==
    reports = IF u.trip \in {"overcurrent", "sampled"} /\ ~u.tripDue THEN 1 ELSE 0

\* A continuous controller never runs on the state an earlier connection left:
\* it is tracked to the plant before the instant of its connection is over,
\* and a continued run takes over its tracked state (Unit.connect, Unit.sense).
RunsAligned ==
    /\ form.continuous /\ u.run /\ pc \in {"idle", "actuate"} => aligned
    /\ u.trackDue => pc \in {"protect", "sense"} /\ form.continuous

\* The source breaker opens with a trip only, at the latest with its shutdown.
LinkFollowsTrip == u.linkTripped <=> Tripped(u) /\ ~u.tripDue

\* The inductive invariant behind the properties above.
IndInv ==
    /\ TypeOK
    /\ TrippedIsIsolated
    /\ TripPending
    /\ StageConsistent
    /\ GatesFollowWord
    /\ BlockedHoldsZero
    /\ CommandFollowed
    /\ TripReportedOnce
    /\ LinkFollowsTrip

\* A latched trip is never lost, not even by continuing from a row, and its
\* cause is the first one (Protection.latch, Protection.restore_latches).
StaysTripped ==
    [][Tripped(u) => Tripped(u') /\ u'.trip \in {u.trip, "restored"}]_vars

\* Both units are in the same service.
SameService(s, r) ==
    /\ Tripped(r) <=> Tripped(s)
    /\ r.fault = s.fault
    /\ r.breaker = s.breaker /\ r.gates = s.gates /\ r.branch = s.branch
    /\ SourceOn(r) <=> SourceOn(s)
    /\ r.run = s.run

\* A continued run finds the unit as it was, from the saved latches, start-up
\* command and registers and the timeline alone (Unit.set_state, Unit.start,
\* Unit.states_loaded, Unit._restore_bridge_state).
ContinuesService == [][Continue => SameService(u, u')]_vars

\* A unit commanded on eventually comes into service unless it trips, and one
\* commanded off is eventually blocked (Unit.connect and the register path).
ServiceFollowsCommand ==
    /\ (command /\ ~Tripped(u)) ~> (u.gates \/ Tripped(u) \/ ~command)
    /\ ~command ~> (~u.gates \/ command)

=============================================================================
