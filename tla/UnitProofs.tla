----------------------------- MODULE UnitProofs -----------------------------
(***************************************************************************)
(* One converter unit, for every set of units and timelines.               *)
(*                                                                         *)
(* First its breakers and gates: IndInv is an invariant of UnitLifecycle.  *)
(* From it: a tripped unit is isolated, its latch survives restarts, and a *)
(* continued run finds the unit as it was.                                 *)
(*                                                                         *)
(* Then the numbers that decide when it trips: SupInv is an invariant of   *)
(* Supervision.  From it: the ramp stands where the timeline puts it, no   *)
(* criterion trips before the ramp is over, and one that is met for the    *)
(* hold time in service has tripped the unit.                              *)
(***************************************************************************)
EXTENDS UnitLifecycle, Supervision, SharedTheorems

\* What a gate command does: r is unit s after it.  The gates obey the latch
\* and, without a filter, the breaker; the branch closes with both.
Gated(s, on, r) ==
    /\ r \in Unit
    /\ r.gates <=> on /\ ~Tripped(s) /\ (form.filtered \/ s.breaker)
    /\ r.branch <=> form.filtered /\ s.breaker /\ r.gates
    /\ r.driven <=> s.driven /\ (form.filtered \/ form.continuous \/ r.gates)
    /\ r.trip = s.trip /\ r.fault = s.fault
    /\ r.breaker = s.breaker /\ r.source = s.source
    /\ r.linkTripped = s.linkTripped /\ r.run = s.run
    /\ r.tripDue = s.tripDue /\ r.trackDue = s.trackDue

\* Unit._set_gates.
LEMMA SetGatesResult ==
    ASSUME form \in Form, NEW s \in Unit, NEW on \in BOOLEAN
    PROVE  Gated(s, on, SetGates(s, on))
<1> DEFINE g == on /\ ~Tripped(s) /\ (form.filtered \/ s.breaker)
           d == s.driven /\ (form.filtered \/ form.continuous \/ g)
           m == [s EXCEPT !.gates = g, !.driven = d]
           b == form.filtered /\ m.breaker /\ m.gates /\ ~Tripped(m)
<1>1. g \in BOOLEAN /\ d \in BOOLEAN
  BY DEF Unit
<1>2. m \in Unit
  BY <1>1 DEF Unit
<1>3. /\ m.gates = g /\ m.driven = d /\ m.trip = s.trip /\ m.fault = s.fault
      /\ m.breaker = s.breaker /\ m.branch = s.branch /\ m.source = s.source
      /\ m.linkTripped = s.linkTripped /\ m.run = s.run /\ m.tripDue = s.tripDue
      /\ m.trackDue = s.trackDue
  BY <1>1 DEF Unit
<1>4. b \in BOOLEAN /\ (b <=> form.filtered /\ s.breaker /\ g)
  BY <1>2, <1>3 DEF Unit, Tripped
<1>5. SetGates(s, on) = [m EXCEPT !.branch = b]
  BY DEF SetGates, UpdateTerminal
<1> HIDE DEF g, d, m, b
<1>6. [m EXCEPT !.branch = b] \in Unit
  BY <1>2, <1>4 DEF Unit
<1>7. LET r == [m EXCEPT !.branch = b]
      IN  /\ r.gates = m.gates /\ r.driven = m.driven /\ r.branch = b
          /\ r.trip = m.trip /\ r.fault = m.fault
          /\ r.breaker = m.breaker /\ r.source = m.source
          /\ r.linkTripped = m.linkTripped /\ r.run = m.run /\ r.tripDue = m.tripDue
          /\ r.trackDue = m.trackDue
  BY <1>2, <1>4 DEF Unit
<1>8. (g <=> on /\ ~Tripped(s) /\ (form.filtered \/ s.breaker))
      /\ (d <=> s.driven /\ (form.filtered \/ form.continuous \/ g))
  BY DEF g, d
<1> QED
  BY <1>3, <1>4, <1>5, <1>6, <1>7, <1>8 DEF Gated

\* What shutting down does: r is unit s after it, isolated, its latches kept.
Shut(s, r) ==
    /\ r \in Unit
    /\ ~r.gates /\ ~r.breaker /\ ~r.branch /\ ~r.run /\ r.linkTripped
    /\ ~r.tripDue /\ ~r.trackDue
    /\ r.driven => form.filtered \/ form.continuous
    /\ r.trip = s.trip /\ r.fault = s.fault

\* Unit._shutdown.
LEMMA ShutdownResult ==
    ASSUME form \in Form, NEW s \in Unit
    PROVE  Shut(s, Shutdown(s))
<1> DEFINE m == [s EXCEPT !.run = FALSE, !.breaker = FALSE, !.linkTripped = TRUE,
                          !.tripDue = FALSE, !.trackDue = FALSE]
<1>1. m \in Unit
  BY DEF Unit
<1>2. /\ m.trip = s.trip /\ m.fault = s.fault /\ ~m.run /\ ~m.breaker
      /\ m.linkTripped /\ ~m.tripDue /\ ~m.trackDue
  BY DEF Unit
<1>3. Shutdown(s) = SetGates(m, FALSE)
  BY DEF Shutdown
<1> HIDE DEF m
<1>4. FALSE \in BOOLEAN
  OBVIOUS
<1>5. Gated(m, FALSE, SetGates(m, FALSE))
  BY <1>1, <1>4, SetGatesResult
<1> QED
  BY <1>2, <1>3, <1>5 DEF Gated, Shut

\* What a connection command does: r is unit s after it.  A tripped unit stays
\* off; the gates of a filtered sampled one wait for the registers.
Connected(s, on, r) ==
    LET e == on /\ ~Tripped(s)
    IN  /\ r \in Unit
        /\ r.trip = s.trip /\ r.fault = s.fault
        /\ r.linkTripped = s.linkTripped /\ r.tripDue = s.tripDue
        /\ r.breaker <=> e
        /\ r.source <=> e
        /\ r.run <=> e
        /\ r.gates <=> IF form.continuous THEN e
                       ELSE IF form.filtered THEN s.gates ELSE e /\ word.active
        /\ r.branch <=> form.filtered /\ r.breaker /\ r.gates
        /\ r.trackDue <=> IF form.continuous THEN e /\ ~(s.breaker /\ s.gates)
                          ELSE s.trackDue
        /\ ~form.filtered /\ ~form.continuous /\ ~r.gates => ~r.driven

\* Unit.connect.
LEMMA ConnectResult ==
    ASSUME form \in Form, word \in Registers, NEW s \in Unit, NEW on \in BOOLEAN
    PROVE  Connected(s, on, ConnectUnit(s, on))
<1> DEFINE e == on /\ ~Tripped(s)
           was == s.breaker /\ s.gates /\ ~Tripped(s)
           m == [s EXCEPT !.breaker = e, !.source = e, !.run = e]
           b == form.filtered /\ m.breaker /\ m.gates /\ ~Tripped(m)
           c == [m EXCEPT !.branch = b]
           k == [c EXCEPT !.trackDue = e /\ ~was]
<1>1. e \in BOOLEAN /\ was \in BOOLEAN /\ (e /\ ~was) \in BOOLEAN
  BY DEF Unit
<1>2. m \in Unit
  BY <1>1 DEF Unit
<1>3. /\ m.trip = s.trip /\ m.fault = s.fault /\ m.linkTripped = s.linkTripped
      /\ m.tripDue = s.tripDue /\ m.trackDue = s.trackDue /\ m.gates = s.gates
      /\ m.breaker = e /\ m.source = e /\ m.run = e
  BY <1>1 DEF Unit
<1>4. b \in BOOLEAN /\ (b <=> form.filtered /\ e /\ s.gates /\ ~Tripped(s))
  BY <1>2, <1>3 DEF Unit, Tripped
<1>5. ConnectUnit(s, on) =
        IF form.continuous THEN SetGates(k, e)
        ELSE IF form.filtered THEN c ELSE SetGates(c, e /\ word.active)
  BY DEF ConnectUnit, UpdateTerminal
<1>6. /\ e <=> on /\ ~Tripped(s)
      /\ e /\ ~was <=> e /\ ~(s.breaker /\ s.gates)
  OBVIOUS
<1> HIDE DEF e, was, m, b
<1>7. /\ c \in Unit /\ c.branch = b
      /\ c.trip = m.trip /\ c.fault = m.fault /\ c.linkTripped = m.linkTripped
      /\ c.tripDue = m.tripDue /\ c.trackDue = m.trackDue /\ c.gates = m.gates
      /\ c.breaker = m.breaker /\ c.source = m.source /\ c.run = m.run
  BY <1>2, <1>4 DEF Unit
<1> HIDE DEF c
<1>8. /\ k \in Unit
      /\ k.trip = c.trip /\ k.fault = c.fault /\ k.linkTripped = c.linkTripped
      /\ k.tripDue = c.tripDue /\ k.trackDue = (e /\ ~was)
      /\ k.breaker = c.breaker /\ k.source = c.source /\ k.run = c.run
  BY <1>1, <1>7 DEF Unit
<1> HIDE DEF k
<1>9. CASE form.continuous
  <2>1. ConnectUnit(s, on) = SetGates(k, e)
    BY <1>5, <1>9
  <2>2. Gated(k, e, SetGates(k, e))
    BY <1>1, <1>8, SetGatesResult
  <2> QED
    BY <2>1, <2>2, <1>3, <1>6, <1>7, <1>8, <1>9 DEF Tripped, Gated, Connected
<1>10. CASE ~form.continuous /\ form.filtered
  <2>1. ConnectUnit(s, on) = c
    BY <1>5, <1>10
  <2> QED
    BY <2>1, <1>3, <1>4, <1>6, <1>7, <1>10 DEF Tripped, Connected
<1>11. CASE ~form.continuous /\ ~form.filtered
  <2>1. ConnectUnit(s, on) = SetGates(c, e /\ word.active)
    BY <1>5, <1>11
  <2>2. (e /\ word.active) \in BOOLEAN
    BY <1>1 DEF Registers
  <2>3. Gated(c, e /\ word.active, SetGates(c, e /\ word.active))
    BY <1>7, <2>2, SetGatesResult
  <2> QED
    BY <2>1, <2>3, <1>3, <1>6, <1>7, <1>11 DEF Tripped, Gated, Connected
<1> QED
  BY <1>9, <1>10, <1>11

\* What assembling a run does: r is the unit it starts with.
AssembledFrom(latched, fault, running, active, r) ==
    /\ r \in Unit
    /\ r.trip = IF latched THEN "restored" ELSE "none"
    /\ r.fault = fault
    /\ r.breaker <=> command /\ ~latched
    /\ r.source <=> command
    /\ r.linkTripped <=> latched
    /\ r.run <=> running /\ ~latched
    /\ ~r.tripDue /\ ~r.trackDue
    /\ r.gates <=> /\ ~latched
                   /\ IF form.continuous THEN running /\ command ELSE active
                   /\ form.filtered \/ command
    /\ r.branch <=> form.filtered /\ r.breaker /\ r.gates
    /\ ~form.filtered /\ ~form.continuous /\ ~r.gates => ~r.driven

\* Unit.set_state, Unit.start, Unit.states_loaded, Unit.begin_timing.
LEMMA AssembledResult ==
    ASSUME form \in Form, command \in BOOLEAN, NEW latched \in BOOLEAN,
           NEW fault \in BOOLEAN, NEW running \in BOOLEAN, NEW active \in BOOLEAN
    PROVE  AssembledFrom(latched, fault, running, active,
                         Assembled(latched, fault, running, active))
<1> DEFINE on == command /\ ~latched
           t == IF latched THEN "restored" ELSE "none"
           n == running /\ ~latched
           s == [trip |-> t,
                 fault |-> fault, breaker |-> on, gates |-> FALSE, branch |-> FALSE,
                 source |-> command, linkTripped |-> latched,
                 run |-> n, driven |-> TRUE,
                 tripDue |-> FALSE, trackDue |-> FALSE]
           a == IF form.continuous THEN s.run /\ on ELSE active
<1>1. /\ on \in BOOLEAN /\ n \in BOOLEAN /\ t \in Causes \cup {"none"}
      /\ (t = "none" <=> ~latched)
  BY DEF Causes
<1>2. (on <=> command /\ ~latched) /\ (n <=> running /\ ~latched)
      /\ t = IF latched THEN "restored" ELSE "none"
  OBVIOUS
<1>3. Assembled(latched, fault, running, active) = SetGates(s, a)
  BY DEF Assembled
<1> HIDE DEF on, n, t
<1>4. s \in Unit
  BY <1>1 DEF Unit
<1>5. /\ s.trip = t /\ s.fault = fault /\ s.breaker = on /\ s.source = command
      /\ s.linkTripped = latched /\ s.run = n /\ ~s.tripDue /\ ~s.trackDue
  OBVIOUS
<1> HIDE DEF s
<1>6. a \in BOOLEAN /\ (a <=> IF form.continuous THEN n /\ on ELSE active)
  BY <1>1, <1>5
<1> HIDE DEF a
<1>7. Gated(s, a, SetGates(s, a))
  BY <1>4, <1>6, SetGatesResult
<1> QED
  BY <1>1, <1>2, <1>3, <1>5, <1>6, <1>7 DEF Gated, AssembledFrom, Tripped

\* What actuating the bridge does: r is unit s after it, the gates at `a'.
Driven(s, a, r) ==
    /\ r \in Unit
    /\ r.gates <=> IF a <=> s.gates THEN s.gates
                   ELSE a /\ ~Tripped(s) /\ (form.filtered \/ s.breaker)
    /\ r.branch <=> form.filtered /\ r.breaker /\ r.gates
    /\ r.trip = s.trip /\ r.fault = s.fault
    /\ r.breaker = s.breaker /\ r.source = s.source
    /\ r.linkTripped = s.linkTripped /\ r.run = s.run
    /\ r.tripDue = s.tripDue /\ r.trackDue = s.trackDue
    /\ r.driven => form.filtered \/ r.gates

\* Unit._actuate_bridge.
LEMMA ActuatedResult ==
    ASSUME form \in Form, due \in Due, NEW s \in Unit,
           NEW active \in BOOLEAN, NEW enabled \in BOOLEAN,
           s.branch <=> form.filtered /\ s.breaker /\ s.gates
    PROVE  Driven(s, active /\ enabled, Actuated(s, active, enabled))
<1> DEFINE a == active /\ enabled
           g == IF a # s.gates THEN SetGates(s, a) ELSE s
           d == (g.driven \/ due.edge) /\ (form.filtered \/ g.gates)
<1>1. a \in BOOLEAN /\ s.gates \in BOOLEAN
  BY DEF Unit
<1>2. Gated(s, a, SetGates(s, a))
  BY <1>1, SetGatesResult
<1>3. Actuated(s, active, enabled) = [g EXCEPT !.driven = d]
  BY DEF Actuated
<1> HIDE DEF a
<1>4. /\ g \in Unit
      /\ g.gates <=> IF a <=> s.gates THEN s.gates
                     ELSE a /\ ~Tripped(s) /\ (form.filtered \/ s.breaker)
      /\ g.branch <=> form.filtered /\ g.breaker /\ g.gates
      /\ g.trip = s.trip /\ g.fault = s.fault
      /\ g.breaker = s.breaker /\ g.source = s.source
      /\ g.linkTripped = s.linkTripped /\ g.run = s.run
      /\ g.tripDue = s.tripDue /\ g.trackDue = s.trackDue
  <2>1. CASE a = s.gates
    BY <2>1, <1>1
  <2>2. CASE a # s.gates
    <3>1. g = SetGates(s, a)
      BY <2>2
    <3>2. ~(a <=> s.gates)
      BY <2>2, <1>1
    <3> HIDE DEF g
    <3> QED
      BY <3>1, <3>2, <1>2 DEF Gated
  <2> QED
    BY <2>1, <2>2
<1> HIDE DEF g
<1>5. d \in BOOLEAN /\ (d => form.filtered \/ g.gates)
  BY <1>4 DEF Unit
<1> HIDE DEF d
<1> DEFINE r == [g EXCEPT !.driven = d]
<1>6. /\ r \in Unit /\ r.driven = d /\ r.gates = g.gates /\ r.branch = g.branch
      /\ r.trip = g.trip /\ r.fault = g.fault /\ r.breaker = g.breaker
      /\ r.source = g.source /\ r.linkTripped = g.linkTripped /\ r.run = g.run
      /\ r.tripDue = g.tripDue /\ r.trackDue = g.trackDue
  BY <1>4, <1>5 DEF Unit
<1>7. Actuated(s, active, enabled) = r
  BY <1>3
<1> HIDE DEF r
<1>8. Driven(s, a, r)
  BY <1>4, <1>5, <1>6 DEF Driven
<1> QED
  BY <1>7, <1>8 DEF a

\* Writing and loading keep the registers what they are (PWM.write, PWM.load).
LEMMA RegistersType ==
    ASSUME form \in Form, due \in Due, pending \in {"none", "off", "on"},
           NEW w \in Registers, NEW enabled \in BOOLEAN, NEW late \in BOOLEAN
    PROVE  ActuateRegisters(w, enabled, late) \in Registers
<1>1. ASSUME NEW v \in Registers, NEW b \in BOOLEAN
      PROVE  Write(v, b) \in Registers
  BY DEF Write, Registers, Form
<1>2. ASSUME NEW v \in Registers
      PROVE  Load(v, late) \in Registers
  <2>1. (IF late THEN v.completed ELSE v.shadow) \in BOOLEAN
    BY DEF Registers
  <2> QED
    BY <2>1 DEF Load, Registers
<1>3. ASSUME NEW v \in Registers
      PROVE  WriteIfPending(v, enabled) \in Registers
  <2>1. (pending = "on" /\ enabled) \in BOOLEAN
    OBVIOUS
  <2> QED
    BY <1>1, <2>1 DEF WriteIfPending
<1>4. ASSUME NEW v \in Registers
      PROVE  LoadIfDue(v, late) \in Registers
  BY <1>2 DEF LoadIfDue
<1> QED
  BY <1>3, <1>4 DEF ActuateRegisters

\* The names of the invariant's parts, type correctness apart.
Parts ==
    /\ TrippedIsIsolated /\ TripPending /\ StageConsistent /\ GatesFollowWord
    /\ BlockedHoldsZero /\ CommandFollowed /\ TripReportedOnce /\ LinkFollowsTrip

LEMMA InitInv ==
    Init => IndInv
<1> SUFFICES ASSUME Init PROVE IndInv
  OBVIOUS
<1>1. form \in Form /\ form \in Forms
  BY FormAssumption DEF Init
<1>2. PICK latched \in BOOLEAN, fault \in BOOLEAN :
        u = Assembled(latched, fault, command, FALSE)
  BY DEF Init
<1>3. AssembledFrom(latched, fault, command, FALSE, u)
  <2>1. command \in BOOLEAN /\ FALSE \in BOOLEAN
    BY DEF Init
  <2> QED
    BY <1>1, <1>2, <2>1, AssembledResult
<1>4. u \in Unit
  BY <1>3 DEF AssembledFrom
<1>5. TypeOK
  <2>1. word \in Registers /\ due \in Due
    BY DEF Init, Registers, Due, NothingDue
  <2> QED
    BY <1>1, <1>4, <2>1 DEF Init, TypeOK
<1>6. TrippedIsIsolated /\ TripPending /\ StageConsistent
  BY <1>3 DEF AssembledFrom, TrippedIsIsolated, TripPending, StageConsistent, Tripped,
              Isolated, SourceOn
<1>7. GatesFollowWord /\ BlockedHoldsZero
  BY <1>3 DEF AssembledFrom, GatesFollowWord, BlockedHoldsZero, Tripped, Init
<1>8. CommandFollowed
  BY <1>3, <1>4 DEF AssembledFrom, CommandFollowed, Tripped, Init, Unit
<1>9. TripReportedOnce /\ LinkFollowsTrip
  BY <1>3 DEF AssembledFrom, TripReportedOnce, LinkFollowsTrip, Tripped, Init
<1> QED
  BY <1>5, <1>6, <1>7, <1>8, <1>9 DEF IndInv

LEMMA InstantInv ==
    ASSUME IndInv, NEW d \in Due, Instant(d)
    PROVE  IndInv'
<1>1. TypeOK'
  BY DEF IndInv, TypeOK, Instant
<1>2. Parts'
  BY DEF IndInv, Parts, Instant, TrippedIsIsolated, TripPending, StageConsistent,
         GatesFollowWord, BlockedHoldsZero, CommandFollowed, TripReportedOnce, Isolated,
         LinkFollowsTrip, Tripped, SourceOn
<1> QED
  BY <1>1, <1>2 DEF IndInv, Parts

LEMMA EventInv ==
    ASSUME IndInv, NEW on \in BOOLEAN, NEW d \in Due, Event(on, d)
    PROVE  IndInv'
<1>1. form \in Form /\ word \in Registers /\ u \in Unit
  BY FormAssumption DEF IndInv, TypeOK
<1>2. Connected(u, on, u')
  BY <1>1, ConnectResult DEF Event
<1>3. TypeOK'
  <2>1. u' \in Unit
    BY <1>2 DEF Connected
  <2>2. aligned' \in BOOLEAN
    BY DEF Event, IndInv, TypeOK
  <2> QED
    BY <2>1, <2>2 DEF IndInv, TypeOK, Event
<1>4. ~u.tripDue
  BY DEF IndInv, TripPending, Event
<1>5. TrippedIsIsolated'
  BY <1>2, <1>4 DEF Connected, IndInv, TrippedIsIsolated, Isolated, Tripped, SourceOn, Event
<1>6. TripPending' /\ StageConsistent'
  BY <1>2, <1>4 DEF Connected, TripPending, StageConsistent, Event
<1>7. GatesFollowWord' /\ BlockedHoldsZero'
  BY DEF GatesFollowWord, BlockedHoldsZero, Event
<1>8. CommandFollowed'
  BY <1>2 DEF Connected, CommandFollowed, Tripped, Event, Unit
<1>9. TripReportedOnce' /\ LinkFollowsTrip'
  BY <1>2 DEF Connected, IndInv, TripReportedOnce, LinkFollowsTrip, Tripped, Event
<1> QED
  BY <1>3, <1>5, <1>6, <1>7, <1>8, <1>9 DEF IndInv

LEMMA ProtectInv ==
    ASSUME IndInv, NEW over \in BOOLEAN, Protect(over)
    PROVE  IndInv'
<1>1. form \in Form /\ u \in Unit /\ ~u.tripDue /\ reports \in Nat
  BY FormAssumption DEF IndInv, TypeOK, TripPending, Protect
<1>2. CASE due.edge /\ ~Tripped(u) /\ over
  <2> DEFINE s == [u EXCEPT !.trip = "overcurrent", !.fault = TRUE]
  <2>1. s \in Unit /\ s.trip = "overcurrent"
    BY <1>1 DEF Unit, Causes
  <2>2. u' = Shutdown(s) /\ reports' = reports + 1
    BY <1>2 DEF Protect
  <2> HIDE DEF s
  <2>3. Shut(s, u')
    BY <1>1, <2>1, <2>2, ShutdownResult
  <2>4. TypeOK'
    BY <2>2, <2>3, <1>1 DEF Shut, IndInv, TypeOK, Protect
  <2>5. TrippedIsIsolated' /\ TripPending' /\ StageConsistent'
    BY <2>3 DEF Shut, TrippedIsIsolated, TripPending, StageConsistent, Isolated, Tripped,
                SourceOn, Protect
  <2>6. GatesFollowWord' /\ BlockedHoldsZero'
    BY DEF GatesFollowWord, BlockedHoldsZero, Protect
  <2>7. CommandFollowed'
    BY <2>1, <2>3 DEF Shut, CommandFollowed, Tripped
  <2>8. TripReportedOnce'
    <3>1. reports = 0
      BY <1>2 DEF IndInv, TripReportedOnce, Tripped
    <3> QED
      BY <2>1, <2>2, <2>3, <3>1 DEF Shut, TripReportedOnce
  <2>9. LinkFollowsTrip'
    BY <2>1, <2>3 DEF Shut, LinkFollowsTrip, Tripped
  <2> QED
    BY <2>4, <2>5, <2>6, <2>7, <2>8, <2>9 DEF IndInv
<1>3. CASE ~(due.edge /\ ~Tripped(u) /\ over)
  <2>1. UNCHANGED <<u, reports>>
    BY <1>3 DEF Protect
  <2>2. TypeOK'
    BY <2>1 DEF IndInv, TypeOK, Protect
  <2>3. Parts'
    BY <1>1, <2>1 DEF IndInv, Parts, Protect, TrippedIsIsolated, TripPending,
       StageConsistent, GatesFollowWord, BlockedHoldsZero, CommandFollowed,
       TripReportedOnce, LinkFollowsTrip, Isolated, Tripped, SourceOn
  <2> QED
    BY <2>2, <2>3 DEF IndInv, Parts
<1> QED
  BY <1>2, <1>3

LEMMA SenseInv ==
    ASSUME IndInv, NEW bad \in BOOLEAN, Sense(bad)
    PROVE  IndInv'
<1> DEFINE trips == due.control /\ bad /\ ~Tripped(u) /\ u.run
           t == IF trips THEN "sampled" ELSE u.trip
           w == u.tripDue \/ trips
<1>1. form \in Form /\ u \in Unit /\ ~u.tripDue /\ reports \in Nat
  BY FormAssumption DEF IndInv, TypeOK, TripPending, Sense
<1>2. /\ w \in BOOLEAN /\ t \in Causes \cup {"none"} /\ (w <=> trips)
      /\ trips => t = "sampled" /\ ~Tripped(u)
      /\ ~trips => t = u.trip
  BY <1>1 DEF Unit, Causes
<1>3. u' = [u EXCEPT !.trip = t, !.tripDue = w, !.trackDue = FALSE]
  BY DEF Sense, Observed
<1> HIDE DEF trips, t, w
<1>4. /\ u' \in Unit /\ u'.trip = t /\ u'.tripDue = w /\ u'.fault = u.fault
      /\ u'.breaker = u.breaker /\ u'.gates = u.gates /\ u'.branch = u.branch
      /\ u'.source = u.source /\ u'.linkTripped = u.linkTripped /\ u'.run = u.run
  BY <1>1, <1>2, <1>3 DEF Unit
<1>5. TypeOK'
  <2>1. aligned' \in BOOLEAN
    BY <1>1 DEF Sense, IndInv, TypeOK, Unit
  <2>2. pending' \in {"none", "off", "on"}
    BY DEF Sense
  <2> QED
    BY <1>4, <2>1, <2>2 DEF IndInv, TypeOK, Sense
<1>6. TrippedIsIsolated'
  BY <1>1, <1>2, <1>4 DEF IndInv, TrippedIsIsolated, Isolated, Tripped, SourceOn, Sense
<1>7. TripPending' /\ StageConsistent'
  BY <1>2, <1>4 DEF IndInv, TripPending, StageConsistent, Sense
<1>8. GatesFollowWord' /\ BlockedHoldsZero'
  BY DEF GatesFollowWord, BlockedHoldsZero, Sense
<1>9. CommandFollowed'
  BY <1>2, <1>4 DEF IndInv, CommandFollowed, Tripped, Sense
<1>10. TripReportedOnce' /\ LinkFollowsTrip'
  BY <1>1, <1>2, <1>4 DEF IndInv, TripReportedOnce, LinkFollowsTrip, Tripped, Sense
<1> QED
  BY <1>5, <1>6, <1>7, <1>8, <1>9, <1>10 DEF IndInv

LEMMA ActuateInv ==
    ASSUME IndInv, NEW late \in BOOLEAN, Actuate(late)
    PROVE  IndInv' /\ u'.trip = u.trip
<1> DEFINE s == IF u.tripDue THEN Shutdown(u) ELSE u
           enabled == (form.filtered \/ u.breaker) /\ ~Tripped(u)
<1>1. /\ form \in Form /\ u \in Unit /\ word \in Registers /\ due \in Due
      /\ pending \in {"none", "off", "on"} /\ reports \in Nat
  BY FormAssumption DEF IndInv, TypeOK
<1>2. Shut(u, Shutdown(u))
  BY <1>1, ShutdownResult
<1>3. /\ s \in Unit /\ s.trip = u.trip /\ s.fault = u.fault /\ ~s.tripDue
      /\ s.branch <=> form.filtered /\ s.breaker /\ s.gates
      /\ form.continuous => (s.gates <=> s.run /\ s.breaker)
  <2>1. CASE u.tripDue
    BY <1>2, <2>1 DEF Shut
  <2>2. CASE ~u.tripDue
    BY <1>1, <2>2 DEF IndInv, StageConsistent
  <2> QED
    BY <2>1, <2>2
<1>4. Tripped(u) => ~s.gates /\ ~s.breaker /\ ~s.run /\ ~(s.source /\ ~s.linkTripped)
  <2>1. CASE u.tripDue
    BY <1>2, <2>1 DEF Shut
  <2>2. CASE ~u.tripDue
    BY <2>2 DEF IndInv, TrippedIsIsolated, Isolated, SourceOn
  <2> QED
    BY <2>1, <2>2
<1>5. ~Tripped(u) => s = u
  BY DEF IndInv, TripPending, Tripped
<1>6. Tripped(s) <=> Tripped(u)
  BY <1>3 DEF Tripped
<1>7. enabled \in BOOLEAN
  BY <1>1 DEF Form, Unit
<1>8. reports' = IF u.trip \in {"overcurrent", "sampled"} THEN 1 ELSE 0
  BY <1>1 DEF Actuate, IndInv, TripReportedOnce, TripPending
<1>9. /\ form.continuous => u' = s /\ word' = word
      /\ ~form.continuous => /\ word' = ActuateRegisters(word, enabled, late)
                             /\ u' = Actuated(s, word'.active, enabled)
  BY <1>6 DEF Actuate
<1> HIDE DEF s, enabled
<1>10. /\ u' \in Unit /\ u'.trip = u.trip /\ u'.fault = u.fault /\ ~u'.tripDue
       /\ u'.breaker = s.breaker /\ u'.source = s.source
       /\ u'.linkTripped = s.linkTripped /\ u'.run = s.run
       /\ u'.branch <=> form.filtered /\ u'.breaker /\ u'.gates
       /\ form.continuous => (u'.gates <=> s.run /\ s.breaker)
       /\ ~form.continuous => (u'.gates <=> word'.active /\ enabled)
       /\ ~form.continuous => (u'.driven => form.filtered \/ u'.gates)
       /\ word' \in Registers
  <2>1. CASE form.continuous
    BY <1>1, <1>3, <1>9, <2>1
  <2>2. CASE ~form.continuous
    <3>1. word' \in Registers /\ word'.active \in BOOLEAN
      BY <1>1, <1>7, <1>9, <2>2, RegistersType DEF Registers
    <3>2. u' = Actuated(s, word'.active, enabled)
      BY <1>9, <2>2
    <3>3. Driven(s, word'.active /\ enabled, u')
      <4> DEFINE a == word'.active
      <4>1. u' = Actuated(s, a, enabled) /\ a \in BOOLEAN
        BY <3>1, <3>2
      <4> HIDE DEF a
      <4>2. Driven(s, a /\ enabled, u')
        BY <1>1, <1>3, <1>7, <4>1, ActuatedResult
      <4> QED
        BY <4>2 DEF a
    <3>4. word'.active /\ enabled /\ ~s.gates => ~Tripped(s) /\ (form.filtered \/ s.breaker)
      BY <1>5, <1>6 DEF enabled
    <3> QED
      BY <1>3, <2>2, <3>1, <3>3, <3>4 DEF Driven
  <2> QED
    BY <2>1, <2>2
<1>11. form' = form /\ command' = command /\ pc' = "idle"
  BY DEF Actuate
<1>12. TypeOK'
  BY <1>1, <1>8, <1>10, <1>11 DEF IndInv, TypeOK, Actuate, Due, NothingDue
<1>13. TrippedIsIsolated'
  <2>1. Tripped(u)' <=> Tripped(u)
    BY <1>10 DEF Tripped
  <2>2. Tripped(u) => ~u'.gates
    BY <1>4, <1>10 DEF enabled
  <2> QED
    BY <2>1, <2>2, <1>4, <1>10, <1>11 DEF TrippedIsIsolated, Isolated, SourceOn
<1>14. TripPending' /\ StageConsistent'
  BY <1>10, <1>11 DEF TripPending, StageConsistent
<1>15. GatesFollowWord' /\ BlockedHoldsZero'
  <2>1. Tripped(u)' <=> Tripped(u)
    BY <1>10 DEF Tripped
  <2>2. BlockedHoldsZero'
    BY <1>10, <1>11 DEF BlockedHoldsZero
  <2>3. CASE Tripped(u)
    BY <1>4, <1>10, <1>11, <2>1, <2>2, <2>3 DEF GatesFollowWord, enabled
  <2>4. CASE ~Tripped(u)
    <3>1. s = u /\ u.run = u.breaker
      BY <1>5, <2>4 DEF IndInv, CommandFollowed
    <3> QED
      BY <3>1, <1>10, <1>11, <2>1, <2>2, <2>4 DEF GatesFollowWord, enabled
  <2> QED
    BY <2>3, <2>4
<1>16. CommandFollowed'
  <2>1. Tripped(u)' <=> Tripped(u)
    BY <1>10 DEF Tripped
  <2> QED
    BY <1>5, <1>10, <1>11, <2>1 DEF IndInv, CommandFollowed
<1>17. TripReportedOnce' /\ LinkFollowsTrip'
  <2>1. s.linkTripped <=> Tripped(u)
    BY <1>2, <1>6 DEF s, Shut, IndInv, LinkFollowsTrip, TripPending, Tripped
  <2> QED
    BY <2>1, <1>8, <1>10 DEF TripReportedOnce, LinkFollowsTrip, Tripped
<1> QED
  BY <1>10, <1>12, <1>13, <1>14, <1>15, <1>16, <1>17 DEF IndInv

\* A run continued from a row starts with a unit in the same service.
LEMMA ContinueResult ==
    ASSUME IndInv, Continue
    PROVE  AssembledFrom(Tripped(u), u.fault, u.run, word.active, u') /\ SameService(u, u')
<1>1. form \in Form /\ u \in Unit /\ word \in Registers /\ command \in BOOLEAN
  BY FormAssumption DEF IndInv, TypeOK
<1>2. /\ Tripped(u) \in BOOLEAN /\ u.fault \in BOOLEAN /\ u.run \in BOOLEAN
      /\ word.active \in BOOLEAN /\ u.breaker \in BOOLEAN /\ u.gates \in BOOLEAN
      /\ u.branch \in BOOLEAN
  BY <1>1 DEF Unit, Registers, Tripped
<1>3. AssembledFrom(Tripped(u), u.fault, u.run, word.active, u')
  <2>1. u' = Assembled(Tripped(u), u.fault, u.run, word.active)
    BY DEF Continue
  <2> QED
    BY <1>1, <1>2, <2>1, AssembledResult
<1>4. u' \in Unit /\ (Tripped(u') <=> Tripped(u)) /\ u'.fault = u.fault
  BY <1>3 DEF AssembledFrom, Tripped
<1>5. pc = "idle" /\ ~u.tripDue
  BY DEF Continue, IndInv, TripPending
<1>6. /\ Tripped(u) => ~u.gates /\ ~u.breaker /\ ~u.branch /\ ~SourceOn(u) /\ ~u.run
      /\ ~Tripped(u) => u.breaker = command /\ u.source = command /\ u.run = command
  BY <1>5 DEF IndInv, TrippedIsIsolated, Isolated, CommandFollowed
<1>7. (u'.breaker <=> u.breaker) /\ (u'.run <=> u.run)
  BY <1>3, <1>6 DEF AssembledFrom
<1>8. u.gates <=> /\ ~Tripped(u)
                  /\ IF form.continuous THEN u.run ELSE word.active
                  /\ form.filtered \/ u.breaker
  BY <1>5 DEF IndInv, GatesFollowWord
<1>9. u'.gates <=> u.gates
  <2>1. CASE Tripped(u)
    BY <1>3, <1>8, <2>1 DEF AssembledFrom
  <2>2. CASE ~Tripped(u)
    <3>1. u.breaker = command /\ u.run = command
      BY <1>6, <2>2
    <3>2. CASE form.continuous
      BY <1>1, <1>3, <1>8, <2>2, <3>1, <3>2 DEF AssembledFrom
    <3>3. CASE ~form.continuous
      BY <1>1, <1>3, <1>8, <2>2, <3>1, <3>3 DEF AssembledFrom
    <3> QED
      BY <3>2, <3>3
  <2> QED
    BY <2>1, <2>2
<1>10. u'.branch <=> u.branch
  BY <1>3, <1>7, <1>9 DEF AssembledFrom, IndInv, StageConsistent
<1>11. SourceOn(u') <=> SourceOn(u)
  <2>1. CASE Tripped(u)
    BY <1>3, <1>6, <2>1 DEF AssembledFrom, SourceOn
  <2>2. CASE ~Tripped(u)
    <3>1. ~u.linkTripped
      BY <2>2 DEF IndInv, LinkFollowsTrip
    <3> QED
      BY <1>3, <1>6, <2>2, <3>1 DEF AssembledFrom, SourceOn
  <2> QED
    BY <2>1, <2>2
<1>12. /\ u'.breaker = u.breaker /\ u'.run = u.run /\ u'.gates = u.gates
       /\ u'.branch = u.branch
  BY <1>2, <1>4, <1>7, <1>9, <1>10 DEF Unit
<1> QED
  BY <1>3, <1>4, <1>11, <1>12 DEF SameService

LEMMA ContinueInv ==
    ASSUME IndInv, Continue
    PROVE  IndInv'
<1>1. AssembledFrom(Tripped(u), u.fault, u.run, word.active, u')
  BY ContinueResult
<1>2. UNCHANGED <<form, pc, due, command, pending, aligned>> /\ reports' = 0 /\ pc = "idle"
  BY DEF Continue
<1>3. word' \in Registers /\ word'.active = word.active
  <2>1. PICK c \in {FALSE, word.computing /\ word.completed = word.active} :
          word' = [word EXCEPT !.completed = word.active, !.computing = c]
    BY DEF Continue
  <2>2. c \in BOOLEAN /\ word \in Registers
    BY <2>1 DEF IndInv, TypeOK
  <2> QED
    BY <2>1, <2>2 DEF Registers
<1>4. Tripped(u') <=> Tripped(u)
  BY <1>1 DEF AssembledFrom, Tripped
<1>5. ~Tripped(u) => u.breaker = command /\ u.source = command /\ u.run = command
  BY DEF IndInv, CommandFollowed
<1>6. TypeOK'
  BY <1>1, <1>2, <1>3 DEF AssembledFrom, IndInv, TypeOK
<1>7. TrippedIsIsolated' /\ TripPending'
  BY <1>1, <1>2, <1>4 DEF AssembledFrom, TrippedIsIsolated, TripPending, Isolated, Tripped,
                          SourceOn
<1>8. StageConsistent'
  BY <1>1, <1>2 DEF AssembledFrom, StageConsistent
<1>9. GatesFollowWord' /\ BlockedHoldsZero'
  <2>1. BlockedHoldsZero'
    BY <1>1, <1>2 DEF AssembledFrom, BlockedHoldsZero
  <2>2. SameService(u, u')
    BY ContinueResult
  <2> QED
    BY <1>2, <1>3, <2>1, <2>2 DEF SameService, IndInv, GatesFollowWord, Tripped
<1>10. CommandFollowed'
  <2>1. SameService(u, u')
    BY ContinueResult
  <2>2. u'.source = command
    BY <1>1 DEF AssembledFrom, Unit, IndInv, TypeOK
  <2> QED
    BY <1>2, <1>4, <1>5, <2>1, <2>2 DEF SameService, CommandFollowed, Tripped
<1>11. TripReportedOnce' /\ LinkFollowsTrip'
  BY <1>1, <1>2 DEF AssembledFrom, TripReportedOnce, LinkFollowsTrip, Tripped
<1> QED
  BY <1>6, <1>7, <1>8, <1>9, <1>10, <1>11 DEF IndInv

LEMMA InvPreserved ==
    IndInv /\ [Next]_vars => IndInv'
<1> SUFFICES ASSUME IndInv, [Next]_vars PROVE IndInv'
  OBVIOUS
<1>1. ASSUME NEW d \in Due, Instant(d) PROVE IndInv'
  BY <1>1, InstantInv
<1>2. ASSUME NEW on \in BOOLEAN, NEW d \in Due, Event(on, d) PROVE IndInv'
  BY <1>2, EventInv
<1>3. ASSUME NEW over \in BOOLEAN, Protect(over) PROVE IndInv'
  BY <1>3, ProtectInv
<1>4. ASSUME NEW bad \in BOOLEAN, Sense(bad) PROVE IndInv'
  BY <1>4, SenseInv
<1>5. ASSUME NEW late \in BOOLEAN, Actuate(late) PROVE IndInv'
  BY <1>5, ActuateInv
<1>6. ASSUME Continue PROVE IndInv'
  BY <1>6, ContinueInv
<1>7. ASSUME UNCHANGED vars PROVE IndInv'
  BY <1>7 DEF vars, IndInv, TypeOK, TrippedIsIsolated, TripPending, StageConsistent,
     GatesFollowWord, BlockedHoldsZero, CommandFollowed, TripReportedOnce,
     LinkFollowsTrip, Isolated, Tripped, SourceOn
<1> QED
  BY <1>1, <1>2, <1>3, <1>4, <1>5, <1>6, <1>7 DEF Next, Step

\* Every reachable state satisfies the inductive invariant of the lifecycle.
THEOREM LifecycleInvariance == Spec => []IndInv
<1>1. Init => IndInv
  BY InitInv
<1>2. IndInv /\ [Next]_vars => IndInv'
  BY InvPreserved
<1> QED
  BY <1>1, <1>2, PTL DEF Spec

\* A tripped unit is off: gates, breaker, filter branch, source, controller.
THEOREM TripIsolates == Spec => []TrippedIsIsolated
<1>1. IndInv => TrippedIsIsolated
  BY DEF IndInv
<1> QED
  BY <1>1, LifecycleInvariance, PTL

\* The event loop learns of each trip exactly once.
THEOREM TripIsReportedOnce == Spec => []TripReportedOnce
<1>1. IndInv => TripReportedOnce
  BY DEF IndInv
<1> QED
  BY <1>1, LifecycleInvariance, PTL

\* Between instants the gates are where word, breaker and latch put them.
THEOREM GatesAreConsistent == Spec => []GatesFollowWord
<1>1. IndInv => GatesFollowWord
  BY DEF IndInv
<1> QED
  BY <1>1, LifecycleInvariance, PTL

\* A run continued from any row finds the unit in the same service.
THEOREM ContinuationKeepsService == Spec => ContinuesService
<1>1. IndInv /\ [Next]_vars => [Continue => SameService(u, u')]_vars
  BY ContinueResult
<1> QED
  BY <1>1, LifecycleInvariance, PTL DEF Spec, ContinuesService

\* No step loses a latched trip or replaces its cause.
THEOREM TripIsPermanent == Spec => StaysTripped
<1>1. IndInv /\ [Next]_vars
        => [Tripped(u) => Tripped(u') /\ u'.trip \in {u.trip, "restored"}]_vars
  <2> SUFFICES ASSUME IndInv, Next, Tripped(u)
               PROVE  Tripped(u') /\ u'.trip \in {u.trip, "restored"}
    OBVIOUS
  <2>1. form \in Form /\ word \in Registers /\ u \in Unit
    BY FormAssumption DEF IndInv, TypeOK
  <2>2. ASSUME NEW d \in Due, Instant(d) PROVE u'.trip = u.trip
    BY <2>2 DEF Instant
  <2>3. ASSUME NEW on \in BOOLEAN, NEW d \in Due, Event(on, d) PROVE u'.trip = u.trip
    <3>1. Connected(u, on, u')
      BY <2>1, <2>3, ConnectResult DEF Event
    <3> QED
      BY <3>1 DEF Connected
  <2>4. ASSUME NEW over \in BOOLEAN, Protect(over) PROVE u'.trip = u.trip
    BY <2>4 DEF Protect
  <2>5. ASSUME NEW bad \in BOOLEAN, Sense(bad) PROVE u'.trip = u.trip
    BY <2>1, <2>5 DEF Sense, Observed, Unit
  <2>6. ASSUME NEW late \in BOOLEAN, Actuate(late) PROVE u'.trip = u.trip
    BY <2>6, ActuateInv
  <2>7. ASSUME Continue PROVE u'.trip = "restored"
    BY <2>7, ContinueResult DEF AssembledFrom
  <2> QED
    BY <2>2, <2>3, <2>4, <2>5, <2>6, <2>7 DEF Next, Step, Tripped
<1> QED
  BY <1>1, LifecycleInvariance, PTL DEF Spec, StaysTripped

----------------------------------------------------------------------------
(***************************************************************************)
(* A running continuous controller has been tracked.                       *)
(***************************************************************************)
\* At every place of an instant: the controller has been tracked or is about
\* to be, and sense, which tracks it, is still to come.
AlignInv ==
    /\ form.continuous /\ u.run => aligned \/ u.trackDue
    /\ u.trackDue => pc \in {"protect", "sense"} /\ form.continuous

LEMMA AlignInit == Init => AlignInv
<1> SUFFICES ASSUME Init PROVE AlignInv
  OBVIOUS
<1>1. PICK latched \in BOOLEAN, fault \in BOOLEAN :
          u = Assembled(latched, fault, command, FALSE)
  BY DEF Init
<1>2. form \in Form /\ command \in BOOLEAN /\ aligned = command /\ FALSE \in BOOLEAN
  BY FormAssumption DEF Init
<1>3. AssembledFrom(latched, fault, command, FALSE, u)
  BY <1>1, <1>2, AssembledResult
<1> QED
  BY <1>2, <1>3 DEF AssembledFrom, AlignInv

LEMMA AlignEvent ==
    ASSUME IndInv, AlignInv, NEW on \in BOOLEAN, NEW d \in Due, Event(on, d)
    PROVE  AlignInv'
<1>1. /\ form \in Form /\ word \in Registers /\ u \in Unit /\ pc = "idle"
      /\ form' = form /\ pc' = "protect" /\ aligned' = (aligned /\ u.breaker /\ u.gates)
      /\ u' = ConnectUnit(u, on)
  BY FormAssumption DEF IndInv, TypeOK, Event
<1>2. Connected(u, on, u')
  BY <1>1, ConnectResult
<1>3. form.continuous /\ u.breaker /\ u.gates => aligned
  BY <1>1 DEF AlignInv, IndInv, StageConsistent
<1>4. ~u.trackDue
  BY <1>1 DEF AlignInv
<1> QED
  BY <1>1, <1>2, <1>3, <1>4 DEF Connected, AlignInv

LEMMA AlignActuate ==
    ASSUME IndInv, AlignInv, NEW late \in BOOLEAN, Actuate(late)
    PROVE  AlignInv'
<1> DEFINE s == IF u.tripDue THEN Shutdown(u) ELSE u
           enabled == (form.filtered \/ u.breaker) /\ ~Tripped(s)
<1>1. /\ form \in Form /\ u \in Unit /\ word \in Registers /\ due \in Due
      /\ pending \in {"none", "off", "on"} /\ pc = "actuate" /\ ~u.trackDue
      /\ UNCHANGED <<form, aligned>>
  BY FormAssumption DEF IndInv, TypeOK, Actuate, AlignInv
<1>2. /\ s \in Unit /\ ~s.trackDue /\ (s.run => u.run)
      /\ s.branch <=> form.filtered /\ s.breaker /\ s.gates
  <2>1. CASE u.tripDue
    BY <1>1, <2>1, ShutdownResult DEF Shut
  <2>2. CASE ~u.tripDue
    BY <1>1, <2>2 DEF IndInv, StageConsistent
  <2> QED
    BY <2>1, <2>2
<1>3. /\ form.continuous => u' = s
      /\ ~form.continuous => /\ word' = ActuateRegisters(word, enabled, late)
                             /\ u' = Actuated(s, word'.active, enabled)
  BY DEF Actuate
<1>4. enabled \in BOOLEAN
  BY <1>1 DEF Form, Unit
<1> HIDE DEF s, enabled
<1>5. u'.trackDue = s.trackDue /\ u'.run = s.run
  <2>1. CASE form.continuous
    BY <1>3, <2>1
  <2>2. CASE ~form.continuous
    <3>1. word'.active \in BOOLEAN
      BY <1>1, <1>3, <1>4, <2>2, RegistersType DEF Registers
    <3>2. Driven(s, word'.active /\ enabled, u')
      BY <1>1, <1>2, <1>3, <1>4, <2>2, <3>1, ActuatedResult
    <3> QED
      BY <3>2 DEF Driven
  <2> QED
    BY <2>1, <2>2
<1> QED
  BY <1>1, <1>2, <1>5 DEF AlignInv

LEMMA AlignStep == IndInv /\ AlignInv /\ [Next]_vars => AlignInv'
<1> SUFFICES ASSUME IndInv, AlignInv, [Next]_vars PROVE AlignInv'
  OBVIOUS
<1>1. form \in Form /\ u \in Unit
  BY FormAssumption DEF IndInv, TypeOK
<1>2. ASSUME NEW d \in Due, Instant(d) PROVE AlignInv'
  BY <1>2 DEF Instant, AlignInv
<1>3. ASSUME NEW on \in BOOLEAN, NEW d \in Due, Event(on, d) PROVE AlignInv'
  BY <1>3, AlignEvent
<1>4. ASSUME NEW over \in BOOLEAN, Protect(over) PROVE AlignInv'
  <2>1. CASE due.edge /\ ~Tripped(u) /\ over
    <3> DEFINE s == [u EXCEPT !.trip = "overcurrent", !.fault = TRUE]
    <3>1. s \in Unit /\ u' = Shutdown(s)
      BY <1>1, <1>4, <2>1 DEF Protect, Unit, Causes
    <3> HIDE DEF s
    <3>2. Shut(s, u')
      BY <1>1, <3>1, ShutdownResult
    <3> QED
      BY <3>2 DEF Shut, AlignInv
  <2>2. CASE ~(due.edge /\ ~Tripped(u) /\ over)
    BY <1>4, <2>2 DEF Protect, AlignInv
  <2> QED
    BY <2>1, <2>2
<1>5. ASSUME NEW bad \in BOOLEAN, Sense(bad) PROVE AlignInv'
  <2>1. ~u'.trackDue /\ u'.run = u.run
    BY <1>1, <1>5 DEF Sense, Observed, Unit
  <2>2. form' = form /\ aligned' = (aligned \/ u.trackDue)
    BY <1>5 DEF Sense
  <2> QED
    BY <2>1, <2>2 DEF AlignInv
<1>6. ASSUME NEW late \in BOOLEAN, Actuate(late) PROVE AlignInv'
  BY <1>6, AlignActuate
<1>7. ASSUME Continue PROVE AlignInv'
  <2>1. AssembledFrom(Tripped(u), u.fault, u.run, word.active, u')
    BY <1>7, ContinueResult
  <2>2. pc = "idle" /\ UNCHANGED <<form, aligned>>
    BY <1>7 DEF Continue
  <2> QED
    BY <2>1, <2>2 DEF AssembledFrom, AlignInv
<1>8. ASSUME UNCHANGED vars PROVE AlignInv'
  BY <1>8 DEF vars, AlignInv
<1> QED
  BY <1>2, <1>3, <1>4, <1>5, <1>6, <1>7, <1>8 DEF Next, Step

\* RunsAligned: a continuous controller never runs on the state an earlier
\* connection left; Unit.connect leaves a track that Unit.sense performs within
\* the same instant, and no trip, event or restart comes between.
THEOREM ControllerIsTracked == Spec => []RunsAligned
<1>1. Init => AlignInv
  BY AlignInit
<1>2. IndInv /\ AlignInv /\ [Next]_vars => AlignInv'
  BY AlignStep
<1>3. AlignInv => RunsAligned
  BY DEF AlignInv, RunsAligned
<1> QED
  BY <1>1, <1>2, <1>3, LifecycleInvariance, PTL DEF Spec

----------------------------------------------------------------------------
(***************************************************************************)
(* Supervision: its inductive invariant.                                   *)
(***************************************************************************)
\* The connections among the first events of a timeline.
ConnectionsOf(timeline, n) == {i \in 1 .. n : "on" \in DOMAIN timeline[i]}

\* The command of the events that were applied.
InPlace == CommandAfter(case.timeline, case.initial, ConnectionsOf(case.timeline, applied))

\* The events applied are those up to now, but for the ones of this instant that
\* are still due.
TimelineInv ==
    /\ \A i \in 1 .. applied : case.timeline[i].t <= now
    /\ \A i \in applied + 1 .. Len(case.timeline) :
           case.timeline[i].t >= now /\ (phase # "events" => case.timeline[i].t > now)

\* The next interrupt is the one of this instant, or the one after it.
IndexInv ==
    /\ phase = "events" => index = IndexAtOrAfter(case.clock, now)
    /\ phase = "done" => index = IndexAfter(case.clock, now)
    /\ index \in {IndexAtOrAfter(case.clock, now), IndexAfter(case.clock, now)}

\* A start-up s runs as command m says, unless the unit tripped.
Obeys(c, s, m, tripped) ==
    /\ s.run = (m.on /\ ~tripped)
    /\ s.complete => s.run
    /\ s.run => s.ramp = m.ramp
    /\ ~c.continuous => /\ s.steps <= EndStep(s, c.clock.period)
                        /\ s.complete => /\ s.steps = EndStep(s, c.clock.period)
                                         /\ s.value = Whole

\* The ramp of a continuous unit is measured from the connection.
Timed(s, m, t, done) ==
    s.start = m.since /\ (done => s.value = Progress(t - m.since, m.ramp))

\* Interrupts before index i since the connection.
ServedBefore(c, m, i) == Max({0, i - IndexAtOrAfter(c.clock, m.since)})

\* A ramp that is counted has the steps of the interrupts served, or of one more
\* if the start of the run counted one that it repeats.
Counted(c, s, m, i, again, read) ==
    LET end == EndStep(s, c.clock.period)
        served == ServedBefore(c, m, i)
    IN  /\ s.steps >= Min({served, end})
        /\ ~again => /\ s.steps = Min({served, end})
                     /\ read => s.value = Progress((served - 1) * c.clock.period, m.ramp)
                     /\ s.complete => served > end

\* The ramp of a start-up that runs since a connection.
Ramps(c, s, m, t, done, i, again, read) ==
    s.run /\ m.known => IF c.continuous THEN Timed(s, m, t, done)
                        ELSE Counted(c, s, m, i, again, read)

RampInv ==
    /\ Obeys(case, startup, InPlace, HasTripped(protection))
    /\ Ramps(case, startup, InPlace, now, phase = "done", index, recounted, sampled)

\* The hold timers have at least the time that a criterion was met in service.
HoldInv ==
    ~HasTripped(protection) =>
        \A c \in Checked : span[c] * case.clock.period <= protection.held[c]

SupInv == SupervisionTyped /\ TimelineInv /\ IndexInv /\ RampInv /\ HoldInv

----------------------------------------------------------------------------
(***************************************************************************)
(* Facts about numbers and sets of indices.                                *)
(***************************************************************************)
\* Max of a set that has a greatest element.
LEMMA MaxIs ==
    ASSUME NEW S \in SUBSET Int, NEW k \in S, \A j \in S : j <= k
    PROVE  Max(S) = k
<1>1. \E x \in S : \A y \in S : x >= y
  OBVIOUS
<1>2. Max(S) \in S /\ \A y \in S : Max(S) >= y
  BY <1>1 DEF Max
<1> DEFINE m == Max(S)
<1>3. m \in S /\ m >= k
  BY <1>2
<1> HIDE DEF m
<1>4. m = k
  BY <1>3
<1> QED
  BY <1>4 DEF m

\* The same for the least element.
LEMMA MinIs ==
    ASSUME NEW S \in SUBSET Int, NEW k \in S, \A j \in S : j >= k
    PROVE  Min(S) = k
<1>1. \E x \in S : \A y \in S : x <= y
  OBVIOUS
<1>2. Min(S) \in S /\ \A y \in S : Min(S) <= y
  BY <1>1 DEF Min
<1> DEFINE m == Min(S)
<1>3. m \in S /\ m <= k
  BY <1>2
<1> HIDE DEF m
<1>4. m = k
  BY <1>3
<1> QED
  BY <1>4 DEF m

\* The greater of two numbers.
LEMMA MaxOfTwo ==
    ASSUME NEW a \in Int, NEW b \in Int
    PROVE  Max({a, b}) = IF a <= b THEN b ELSE a
<1>1. CASE a <= b
  BY <1>1, MaxIs
<1>2. CASE ~(a <= b)
  BY <1>2, MaxIs
<1> QED
  BY <1>1, <1>2

\* The lesser of two numbers.
LEMMA MinOfTwo ==
    ASSUME NEW a \in Int, NEW b \in Int
    PROVE  Min({a, b}) = IF a <= b THEN a ELSE b
<1>1. CASE a <= b
  BY <1>1, MinIs
<1>2. CASE ~(a <= b)
  BY <1>2, MinIs
<1> QED
  BY <1>1, <1>2

----------------------------------------------------------------------------
(***************************************************************************)
(* The ramp.                                                               *)
(***************************************************************************)
\* EndStep is the first interrupt whose time reaches the ramp.
LEMMA EndStepReaches ==
    ASSUME NEW s, s.ramp \in Nat, NEW period \in Nat \ {0}, NEW k \in Nat
    PROVE  /\ EndStep(s, period) \in Nat
           /\ k * period \in Nat
           /\ k * period >= s.ramp <=> k >= EndStep(s, period)
<1> DEFINE r == s.ramp
           e == EndStep(s, period)
<1>1. r \in Nat
  OBVIOUS
<1>2. e \in Int /\ period * e <= r + period - 1 /\ r + period - 1 < period * (e + 1)
  <2> HIDE DEF r
  <2>1. e = (r + period - 1) \div period
    BY DEF EndStep, r
  <2> QED  BY <1>1, <2>1
<1> HIDE DEF r, e
<1>3. period * (e + 1) = period * e + period /\ period * e \in Int
  BY <1>2
<1>4. r - 1 < period * e
  BY <1>1, <1>2, <1>3
<1>5. e >= 0
  <2> SUFFICES ASSUME e <= -1 PROVE FALSE
    BY <1>2
  <2>1. period * e <= period * (-1)
    BY <1>2
  <2> QED
    BY <2>1, <1>1, <1>3, <1>4
<1>6. k * period \in Nat
  OBVIOUS
<1>7. ASSUME k >= e PROVE k * period >= r
  <2>1. k * period >= e * period
    BY <1>7, <1>2
  <2>2. e * period = period * e
    BY <1>2
  <2> QED
    BY <2>1, <2>2, <1>1, <1>3, <1>4, <1>6
<1>8. ASSUME k * period >= r PROVE k >= e
  <2> SUFFICES ASSUME k + 1 <= e PROVE FALSE
    BY <1>2
  <2>1. (k + 1) * period <= e * period
    BY <1>2
  <2>2. (k + 1) * period = k * period + period /\ e * period = period * e
    BY <1>2
  <2> QED
    BY <2>1, <2>2, <1>1, <1>2, <1>3, <1>6, <1>8
<1> QED
  BY <1>2, <1>5, <1>6, <1>7, <1>8 DEF r, e

\* Progress is a fraction, whole when the ramp is over and only then.
LEMMA ProgressIs ==
    ASSUME NEW elapsed \in Nat, NEW ramp \in Nat
    PROVE  /\ Progress(elapsed, ramp) \in Fraction
           /\ Progress(elapsed, ramp).num <= Progress(elapsed, ramp).den
           /\ Progress(elapsed, ramp) = Whole <=> elapsed >= ramp
<1>1. CASE elapsed >= ramp
  BY <1>1 DEF Progress, Whole, Fraction
<1>2. CASE elapsed < ramp
  <2>1. Progress(elapsed, ramp) = [num |-> elapsed, den |-> ramp]
    BY <1>2 DEF Progress
  <2>2. [num |-> elapsed, den |-> ramp] # Whole
    BY <1>2 DEF Whole
  <2> QED
    BY <1>2, <2>1, <2>2 DEF Fraction
<1> QED
  BY <1>1, <1>2

\* What a command leaves: r has not begun its ramp.
Commanded(r, continuous, run, ramp, t) ==
    /\ r \in Startup /\ r.run = run /\ r.steps = 0 /\ r.value = Zero
    /\ r.complete = FALSE
    /\ run => r.ramp = ramp
    /\ continuous => r.start = t

\* Startup.command and ContinuousStartup.command.
LEMMA CommandIs ==
    ASSUME NEW s \in Startup, NEW continuous \in BOOLEAN, NEW run \in BOOLEAN,
           NEW ramp \in Nat, NEW t \in Nat
    PROVE  Commanded(Command(s, continuous, run, ramp, t), continuous, run, ramp, t)
<1>1. Zero \in Fraction
  BY DEF Zero, Fraction
<1> QED
  BY <1>1 DEF Command, Commanded, Startup

\* What an interrupt makes of the ramp.
LEMMA AdvanceIs ==
    ASSUME NEW s \in Startup, NEW period \in Nat \ {0}
    PROVE  LET r == Advance(s, period)
           IN  /\ r \in Startup /\ r.run = s.run /\ r.ramp = s.ramp /\ r.start = s.start
               /\ r.value = Progress(s.steps * period, s.ramp)
               /\ r.complete <=> s.steps * period >= s.ramp
               /\ r.steps = IF s.steps * period >= s.ramp THEN s.steps ELSE s.steps + 1
<1> DEFINE v == Progress(s.steps * period, s.ramp)
<1>1. s.steps \in Nat /\ s.ramp \in Nat /\ s.steps * period \in Nat
  BY DEF Startup
<1>2. v \in Fraction /\ (v = Whole <=> s.steps * period >= s.ramp)
  BY <1>1, ProgressIs
<1> DEFINE c == (v = Whole)
           k == IF v = Whole THEN s.steps ELSE s.steps + 1
<1>3. Advance(s, period) = [s EXCEPT !.value = v, !.complete = c, !.steps = k]
  BY DEF Advance
<1>4. c \in BOOLEAN /\ k \in Nat
  BY <1>1
<1> HIDE DEF v, c, k
<1>6. LET r == Advance(s, period)
      IN  /\ r \in Startup /\ r.run = s.run /\ r.ramp = s.ramp /\ r.start = s.start
          /\ r.value = v /\ r.complete = c /\ r.steps = k
  BY <1>2, <1>3, <1>4 DEF Startup
<1>5. v = Progress(s.steps * period, s.ramp)
  BY DEF v
<1> QED
  BY <1>2, <1>5, <1>6 DEF c, k

\* What the time makes of the ramp of a continuous unit.
LEMMA AtTimeIs ==
    ASSUME NEW s \in Startup, NEW t \in Nat, s.run => s.start <= t \/ s.ramp = 0
    PROVE  LET r == AtTime(s, t)
           IN  /\ r \in Startup /\ r.run = s.run /\ r.ramp = s.ramp /\ r.start = s.start
               /\ r.steps = s.steps
               /\ r.value.num <= r.value.den
               /\ s.run => /\ r.value = Progress(t - s.start, s.ramp)
                           /\ r.complete <=> s.ramp = 0 \/ t - s.start >= s.ramp
               /\ r.complete => s.run
<1> DEFINE v == Progress(t - s.start, s.ramp)
           b == (v = Whole)
<1>1. s.start \in Nat /\ s.ramp \in Nat /\ s.run \in BOOLEAN
  BY DEF Startup
<1>2. CASE s.run
  <2>1. v \in Fraction /\ v.num <= v.den /\ (v = Whole <=> s.ramp = 0 \/ t - s.start >= s.ramp)
    <3>1. CASE s.ramp = 0
      BY <3>1 DEF Progress, Whole, Fraction
    <3>2. CASE s.ramp # 0
      <4>1. t - s.start \in Nat
        BY <1>1, <1>2, <3>2
      <4> QED
        BY <1>1, <3>2, <4>1, ProgressIs
    <3> QED
      BY <3>1, <3>2
  <2>2. AtTime(s, t) = [s EXCEPT !.value = v, !.complete = b]
    BY <1>2 DEF AtTime
  <2>3. b \in BOOLEAN
    OBVIOUS
  <2> HIDE DEF v, b
  <2>4. LET r == AtTime(s, t)
        IN  /\ r \in Startup /\ r.run = s.run /\ r.ramp = s.ramp /\ r.start = s.start
            /\ r.steps = s.steps /\ r.value = v /\ r.complete = b
    BY <2>1, <2>2, <2>3 DEF Startup
  <2>5. b <=> s.ramp = 0 \/ t - s.start >= s.ramp
    BY <2>1 DEF b
  <2> QED
    BY <1>2, <2>1, <2>4, <2>5 DEF v
<1>3. CASE ~s.run
  <2>1. AtTime(s, t) = [s EXCEPT !.value = Zero, !.complete = FALSE]
    BY <1>3 DEF AtTime
  <2>2. Zero \in Fraction /\ Zero.num <= Zero.den
    BY DEF Zero, Fraction
  <2> QED
    BY <1>3, <2>1, <2>2 DEF Startup
<1> QED
  BY <1>2, <1>3

----------------------------------------------------------------------------
(***************************************************************************)
(* The timeline and the clock.                                             *)
(***************************************************************************)
\* An event is a connection, with its field `on', or a change of settings.
LEMMA EventFields ==
    ASSUME NEW e \in Events
    PROVE  /\ e.t \in Nat
           /\ "on" \in DOMAIN e => e.on \in BOOLEAN /\ e.ramp \in Nat
           /\ "on" \notin DOMAIN e => e.settings \in Settings
<1>1. CASE e \in [t : Nat, on : BOOLEAN, ramp : Nat]
  <2>1. DOMAIN e = {"t", "on", "ramp"} /\ e.t \in Nat /\ e.on \in BOOLEAN /\ e.ramp \in Nat
    BY <1>1
  <2> QED
    BY <2>1
<1>2. CASE e \in [t : Nat, settings : Settings]
  <2>1. DOMAIN e = {"t", "settings"} /\ e.t \in Nat /\ e.settings \in Settings
    BY <1>2
  <2> QED
    BY <2>1
<1> QED
  BY <1>1, <1>2 DEF Events

\* The command after the first n events, field by field.
LEMMA CommandAfterIs ==
    ASSUME NEW c \in Case, NEW n \in 0 .. Len(c.timeline)
    PROVE  LET m == CommandAfter(c.timeline, c.initial, ConnectionsOf(c.timeline, n))
           IN  /\ m.on \in BOOLEAN /\ m.known \in BOOLEAN
               /\ m.since \in Nat /\ m.ramp \in Nat
               /\ m.known => \E i \in 1 .. n : m.since = c.timeline[i].t
               /\ ~m.known => m.ramp = 0
<1> DEFINE tl == c.timeline
           past == ConnectionsOf(tl, n)
           on == {i \in past : tl[i].on}
           m == CommandAfter(tl, c.initial, past)
<1>1. tl \in Seq(Events) /\ c.initial \in BOOLEAN /\ n \in Nat /\ n <= Len(tl)
  BY DEF Case
<1>2. \A i \in past : /\ i \in 1 .. n /\ i \in 1 .. Len(tl)
                      /\ tl[i] \in Events /\ "on" \in DOMAIN tl[i]
  BY <1>1 DEF ConnectionsOf
<1>3. \A i \in past : tl[i].on \in BOOLEAN /\ tl[i].ramp \in Nat /\ tl[i].t \in Nat
  BY <1>2, EventFields
<1>4. on \subseteq past /\ past \subseteq 1 .. n
  BY <1>2
<1>5. past # {} => Max(past) \in past
  <2> HIDE DEF past, on, m, tl
  <2>1. ASSUME past # {} PROVE \E k \in past : \A j \in past : j <= k
    BY <1>1, <1>4, <2>1, LastExists
  <2> QED
    BY <2>1, <1>1, <1>4, MaxIs
<1>6. on # {} => Max(on) \in on
  <2> HIDE DEF past, on, m, tl
  <2>0. on \in SUBSET (1 .. n)
    BY <1>4
  <2>1. ASSUME on # {} PROVE \E k \in on : \A j \in on : j <= k
    BY <1>1, <2>0, <2>1, LastExists
  <2> QED
    BY <2>1, <1>1, <2>0, MaxIs
<1>7. m = [on    |-> IF past = {} THEN c.initial ELSE tl[Max(past)].on,
           known |-> on # {},
           since |-> IF on = {} THEN 0 ELSE tl[Max(on)].t,
           ramp  |-> IF on = {} THEN 0 ELSE tl[Max(on)].ramp]
  BY DEF CommandAfter
<1> HIDE DEF past, on, m, tl
<1>8. m.on \in BOOLEAN
  BY <1>1, <1>3, <1>5, <1>7
<1>9. m.known = (on # {})
  BY <1>7
<1>10. CASE on = {}
  <2>1. ~m.known /\ m.known \in BOOLEAN
    BY <1>9, <1>10
  <2>2. m.since = 0 /\ m.ramp = 0
    BY <1>7, <1>10
  <2> QED
    BY <1>8, <2>1, <2>2 DEF m, past, tl
<1>11. CASE on # {}
  <2>1. Max(on) \in past
    BY <1>4, <1>6, <1>11
  <2>2. m.since = tl[Max(on)].t /\ m.ramp = tl[Max(on)].ramp
    BY <1>7, <1>11
  <2>3. m.since \in Nat /\ m.ramp \in Nat /\ \E i \in 1 .. n : m.since = tl[i].t
    BY <2>1, <2>2, <1>3, <1>4
  <2> QED
    BY <1>8, <1>9, <1>11, <2>3 DEF m, past, tl
<1> QED
  BY <1>10, <1>11

\* The command after one more event: the one of a connection, else the same.
LEMMA CommandNext ==
    ASSUME NEW c \in Case, NEW n \in Nat, n + 1 <= Len(c.timeline)
    PROVE  LET e == c.timeline[n + 1]
               m == CommandAfter(c.timeline, c.initial, ConnectionsOf(c.timeline, n))
               r == CommandAfter(c.timeline, c.initial, ConnectionsOf(c.timeline, n + 1))
           IN  /\ "on" \notin DOMAIN e => r = m
               /\ "on" \in DOMAIN e => r.on = e.on
               /\ "on" \in DOMAIN e /\ e.on => r.known /\ r.since = e.t /\ r.ramp = e.ramp
<1> DEFINE tl == c.timeline
           e == tl[n + 1]
           past == ConnectionsOf(tl, n)
           next == ConnectionsOf(tl, n + 1)
           on == {i \in next : tl[i].on}
           r == CommandAfter(tl, c.initial, next)
<1>1. 1 .. n + 1 = (1 .. n) \cup {n + 1}
  OBVIOUS
<1>2. "on" \notin DOMAIN e => next = past
  BY <1>1 DEF ConnectionsOf
<1>3. "on" \in DOMAIN e => next = past \cup {n + 1} /\ \A j \in next : j \in Int /\ j <= n + 1
  BY <1>1 DEF ConnectionsOf
<1>4. r = [on    |-> IF next = {} THEN c.initial ELSE tl[Max(next)].on,
           known |-> on # {},
           since |-> IF on = {} THEN 0 ELSE tl[Max(on)].t,
           ramp  |-> IF on = {} THEN 0 ELSE tl[Max(on)].ramp]
  BY DEF CommandAfter
<1>5. ASSUME "on" \in DOMAIN e PROVE r.on = e.on
  <2> HIDE DEF next, on, r
  <2>1. n + 1 \in next /\ next \subseteq Int /\ \A j \in next : j <= n + 1
    BY <1>3, <1>5
  <2>2. Max(next) = n + 1
    BY <2>1, MaxIs
  <2> QED
    BY <1>4, <2>1, <2>2
<1>6. ASSUME "on" \in DOMAIN e, e.on PROVE r.known /\ r.since = e.t /\ r.ramp = e.ramp
  <2>0. n + 1 \in on
    BY <1>3, <1>6
  <2>1. on \subseteq Int /\ \A j \in on : j <= n + 1
    BY <1>3, <1>6
  <2> HIDE DEF next, on, r
  <2>2. Max(on) = n + 1
    BY <2>0, <2>1, MaxIs
  <2> QED
    BY <1>4, <2>0, <2>2
<1> QED
  BY <1>2, <1>5, <1>6

\* The next interrupt at an instant, and what an interrupt or a tick makes of it.
LEMMA Grid ==
    ASSUME NEW clock \in Clock, NEW t \in Nat
    PROVE  LET a == IndexAtOrAfter(clock, t)
               b == IndexAfter(clock, t)
           IN  /\ a \in Int /\ b \in Int
               /\ ClockDue(clock, t, a) => b = a + 1
               /\ ~ClockDue(clock, t, a) => b = a
               /\ ~ClockDue(clock, t, b)
               /\ IndexAtOrAfter(clock, t + 1) = b
<1> DEFINE a == IndexAtOrAfter(clock, t)
           b == IndexAfter(clock, t)
           n == IndexAtOrAfter(clock, t + 1)
<1>0. clock.period \in Nat /\ clock.period >= 1 /\ t \in Int /\ t + 1 \in Int
  BY DEF Clock
<1>1. a \in Int /\ ClockAt(clock, a - 1) < t /\ t <= ClockAt(clock, a)
  BY <1>0, IndexAtOrAfterSpec
<1>2. b \in Int /\ t < ClockAt(clock, b)
  BY <1>0, IndexAfterSpec
<1>3. n \in Int /\ ClockAt(clock, n - 1) < t + 1 /\ t + 1 <= ClockAt(clock, n)
  BY <1>0, IndexAtOrAfterSpec
<1> HIDE DEF a, b, n
<1>4. /\ ClockAt(clock, a) \in Int /\ ClockAt(clock, a - 1) \in Int
      /\ ClockAt(clock, n) \in Int /\ ClockAt(clock, n - 1) \in Int
      /\ ClockAt(clock, b) \in Int
      /\ ClockAt(clock, a + 1) = ClockAt(clock, a) + clock.period
  BY <1>1, <1>2, <1>3, ClockStep
<1>5. ASSUME ClockDue(clock, t, a) PROVE b = a + 1
  <2> DEFINE k == a + 1
  <2>1. k \in Int /\ k - 1 = a
    BY <1>1
  <2>2. t < ClockAt(clock, k) /\ ClockAt(clock, a) <= t
    BY <1>0, <1>1, <1>4, <1>5 DEF ClockDue
  <2> HIDE DEF k
  <2>3. ClockAt(clock, k - 1) <= t
    BY <2>1, <2>2
  <2>4. b = k
    BY <1>0, <2>1, <2>2, <2>3, IndexAfterUnique DEF b
  <2> QED
    BY <2>4 DEF k
<1>6. ASSUME ~ClockDue(clock, t, a) PROVE b = a
  <2>1. ClockAt(clock, a - 1) <= t /\ t < ClockAt(clock, a)
    BY <1>0, <1>1, <1>4, <1>6 DEF ClockDue
  <2> QED
    BY <1>0, <1>1, <2>1, IndexAfterUnique DEF b
<1>7. ClockAt(clock, n - 1) <= t /\ t < ClockAt(clock, n)
  BY <1>0, <1>3, <1>4
<1>8. b = n
  BY <1>0, <1>3, <1>7, IndexAfterUnique DEF b
<1>9. ~ClockDue(clock, t, b)
  BY <1>0, <1>2, <1>4 DEF ClockDue
<1> QED
  BY <1>1, <1>2, <1>5, <1>6, <1>8, <1>9 DEF a, b, n

\* The grid index of a later instant is not less.
LEMMA GridMonotone ==
    ASSUME NEW clock \in Clock, NEW s \in Nat, NEW t \in Nat, s <= t
    PROVE  IndexAtOrAfter(clock, s) <= IndexAtOrAfter(clock, t)
<1> DEFINE a == IndexAtOrAfter(clock, s)
           b == IndexAtOrAfter(clock, t)
<1>1. s - 1 \in Int /\ t \in Int /\ s \in Int
  OBVIOUS
<1>2. a \in Int /\ ClockAt(clock, a - 1) < s /\ s <= ClockAt(clock, a)
  BY <1>1, IndexAtOrAfterSpec
<1>3. b \in Int /\ t <= ClockAt(clock, b)
  BY <1>1, IndexAtOrAfterSpec
<1> HIDE DEF a, b
<1>4. ClockAt(clock, a) \in Int /\ ClockAt(clock, a - 1) \in Int /\ ClockAt(clock, b) \in Int
  BY <1>2, <1>3, ClockStep
<1>5. ClockAt(clock, a - 1) <= s - 1 /\ s - 1 < ClockAt(clock, a)
  BY <1>1, <1>2, <1>4
<1>6. IndexAfter(clock, s - 1) = a
  BY <1>1, <1>2, <1>5, IndexAfterUnique
<1>7. s - 1 < ClockAt(clock, b)
  BY <1>1, <1>3, <1>4
<1>8. IndexAfter(clock, s - 1) <= b
  BY <1>1, <1>3, <1>7, IndexAfterBound
<1> QED
  BY <1>6, <1>8 DEF a, b

----------------------------------------------------------------------------
(***************************************************************************)
(* The protection.                                                         *)
(***************************************************************************)
\* A criterion is one of the causes, which differ from "none".
LEMMA CriteriaAreCauses ==
    /\ \A i \in DOMAIN Order : Order[i] \in TripCauses /\ Order[i] # "none"
    /\ \A c \in Criteria : \E i \in DOMAIN Order : c = Order[i]
    /\ DOMAIN Order = 1 .. 5
    /\ "restored" \in TripCauses /\ "overcurrent" \in TripCauses
<1>1. DOMAIN Order = 1 .. 5
  BY DEF Order
<1>2. \A i \in 1 .. 5 : Order[i] # "none"
  BY DEF Order
<1> QED
  BY <1>1, <1>2 DEF Criteria, TripCauses

\* Protection.check_fast trips, or leaves everything as it was.
LEMMA CheckFastIs ==
    ASSUME NEW p \in ProtectionState(Checked), NEW s
    PROVE  LET r == CheckFast(p, s)
           IN  /\ r \in ProtectionState(Checked)
               /\ r = p \/ (HasTripped(r) /\ r.trip = "overcurrent")
<1> DEFINE m == [p EXCEPT !.fault = TRUE]
<1>1. m \in ProtectionState(Checked) /\ m.trip = p.trip
  BY DEF ProtectionState
<1>2. CheckFast(p, s) = p \/ (~HasTripped(p) /\ CheckFast(p, s) = Latch(m, "overcurrent"))
  BY DEF CheckFast
<1> HIDE DEF m
<1>3. ASSUME ~HasTripped(p), CheckFast(p, s) = Latch(m, "overcurrent")
      PROVE  CheckFast(p, s) = [m EXCEPT !.trip = "overcurrent"]
  BY <1>1, <1>3 DEF Latch, HasTripped
<1>4. [m EXCEPT !.trip = "overcurrent"] \in ProtectionState(Checked)
      /\ [m EXCEPT !.trip = "overcurrent"].trip = "overcurrent"
  BY <1>1, CriteriaAreCauses DEF ProtectionState
<1> QED
  BY <1>2, <1>3, <1>4 DEF HasTripped

\* Protection.check_sampled: blind it does nothing; else it trips, or every
\* enabled criterion that is met has been held for one period more, and not for
\* the hold time.
LEMMA CheckSampledIs ==
    ASSUME Checked \subseteq Criteria,
           NEW p \in ProtectionState(Checked), NEW sample, NEW s \in Settings,
           NEW period \in Nat \ {0},
           sample.met \subseteq sample.available, sample.available \subseteq Checked
    PROVE  LET r == CheckSampled(p, sample, s, period)
           IN  /\ r \in ProtectionState(Checked)
               /\ Blind(p, sample) => r = p
               /\ HasTripped(p) => r = p
               /\ r.trip # p.trip => HasTripped(r) /\ ~Blind(p, sample)
               /\ ~Blind(p, sample) /\ ~HasTripped(r) =>
                      \A c \in sample.met \cap s.enabled :
                          r.held[c] = p.held[c] + period /\ r.held[c] < s.hold
<1> DEFINE looked == {i \in DOMAIN Order : Order[i] \in sample.available \cap s.enabled}
           expired == {i \in looked : Expired(p, Order[i], sample, s, period)}
           checked == {Order[i] : i \in {j \in looked : \A k \in expired : j <= k}}
           held == [c \in DOMAIN p.held |-> IF c \in checked
                                            THEN HeldAfter(p, c, sample, period)
                                            ELSE p.held[c]]
           met == p.met \cup (checked \cap sample.met)
           next == [p EXCEPT !.held = held, !.met = met]
           r == CheckSampled(p, sample, s, period)
<1>1. r = IF Blind(p, sample) THEN p
          ELSE IF expired = {} THEN next ELSE Latch(next, Order[Min(expired)])
  BY Zenon DEF CheckSampled
<1>2. p.held \in [Checked -> Nat] /\ p.met \subseteq Checked /\ DOMAIN p.held = Checked
  BY DEF ProtectionState
<1>3. checked \subseteq Checked /\ expired \subseteq 1 .. 5 /\ looked \subseteq 1 .. 5
  BY CriteriaAreCauses
<1>4. held \in [Checked -> Nat] /\ met \subseteq Checked
  <2>1. \A c \in Checked : HeldAfter(p, c, sample, period) \in Nat /\ p.held[c] \in Nat
    BY <1>2 DEF HeldAfter
  <2> QED
    BY <2>1, <1>2, <1>3
<1>5. ASSUME expired = {}, NEW c \in sample.met \cap s.enabled
      PROVE  held[c] = p.held[c] + period /\ held[c] < s.hold
  <2>1. c \in Checked /\ c \in sample.available /\ c \in sample.met
    BY <1>5
  <2>2. PICK i \in DOMAIN Order : c = Order[i]
    BY <2>1, CriteriaAreCauses
  <2>3. i \in looked
    BY <2>1, <2>2, <1>5
  <2>4. ~Expired(p, c, sample, s, period)
    BY <2>2, <2>3, <1>5
  <2>5. c \in checked
    BY <2>2, <2>3, <1>5
  <2>6. held[c] = HeldAfter(p, c, sample, period)
    BY <2>1, <2>5, <1>2
  <2>7. HeldAfter(p, c, sample, period) = p.held[c] + period /\ p.held[c] \in Nat
    BY <2>1, <1>2 DEF HeldAfter
  <2>8. s.hold \in Nat
    BY DEF Settings
  <2> QED
    BY <2>1, <2>4, <2>6, <2>7, <2>8 DEF Expired
<1> HIDE DEF looked, expired, checked, held, met, r
<1>6. next \in ProtectionState(Checked) /\ next.trip = p.trip /\ next.held = held
  BY <1>4 DEF ProtectionState
<1> HIDE DEF next
<1>7. ASSUME expired # {}, ~Blind(p, sample)
      PROVE  r \in ProtectionState(Checked) /\ HasTripped(r)
  <2> DEFINE cause == Order[Min(expired)]
  <2>1. Min(expired) \in expired
    <3>1. expired \subseteq Nat
      BY <1>3
    <3>2. PICK k \in expired : \A j \in expired : k <= j
      BY <3>1, <1>7, LeastNumber
    <3>3. \A j \in expired : j >= k
      BY <3>1, <3>2
    <3>4. expired \in SUBSET Int
      BY <3>1
    <3>5. Min(expired) = k
      BY <3>3, <3>4, MinIs
    <3> QED
      BY <3>5
  <2>2. cause \in TripCauses /\ cause # "none"
    BY <2>1, <1>3, CriteriaAreCauses
  <2>3. ~HasTripped(next)
    BY <1>6, <1>7 DEF Blind, HasTripped
  <2> HIDE DEF cause
  <2>4. r = [next EXCEPT !.trip = cause]
    BY <1>1, <1>7, <2>3 DEF Latch, cause
  <2>5. [next EXCEPT !.trip = cause] \in ProtectionState(Checked)
        /\ [next EXCEPT !.trip = cause].trip = cause
    BY <1>6, <2>2 DEF ProtectionState
  <2> QED
    BY <2>2, <2>4, <2>5 DEF HasTripped
<1>8. CASE Blind(p, sample)
  BY <1>1, <1>8 DEF r
<1>9. CASE ~Blind(p, sample) /\ expired = {}
  <2>1. r = next /\ ~HasTripped(p)
    BY <1>1, <1>9 DEF Blind
  <2> QED
    BY <2>1, <1>5, <1>6, <1>9 DEF r
<1>10. CASE ~Blind(p, sample) /\ expired # {}
  <2>1. r \in ProtectionState(Checked) /\ HasTripped(r) /\ ~HasTripped(p)
    BY <1>7, <1>10 DEF Blind
  <2> QED
    BY <2>1, <1>10 DEF r
<1> QED
  BY <1>8, <1>9, <1>10

\* A protection without a trip, and the one a saved row leaves.
LEMMA NewProtectionIs ==
    LET p == NewProtection(Checked)
    IN  /\ p \in ProtectionState(Checked) /\ ~HasTripped(p)
        /\ \A c \in Checked : p.held[c] = 0
BY DEF NewProtection, ProtectionState, HasTripped

\* The latch of a saved row is kept under another cause, and its timers are kept.
LEMMA LoadedProtectionIs ==
    ASSUME protection \in ProtectionState(Checked)
    PROVE  /\ LoadedProtection \in ProtectionState(Checked)
           /\ HasTripped(LoadedProtection) <=> HasTripped(protection)
           /\ LoadedProtection.held = protection.held
<1> DEFINE t == IF HasTripped(protection) THEN "restored" ELSE "none"
<1>1. t \in TripCauses \cup {"none"} /\ (t # "none" <=> HasTripped(protection))
  BY CriteriaAreCauses
<1>2. LoadedProtection = [NewProtection(Checked) EXCEPT !.trip = t, !.fault = protection.fault,
                                                        !.held = protection.held]
  BY DEF LoadedProtection
<1>3. protection.fault \in BOOLEAN /\ protection.held \in [Checked -> Nat]
  BY DEF ProtectionState
<1> HIDE DEF t
<1>4. /\ LoadedProtection \in ProtectionState(Checked) /\ LoadedProtection.trip = t
      /\ LoadedProtection.held = protection.held
  BY <1>1, <1>2, <1>3 DEF ProtectionState, NewProtection
<1> QED
  BY <1>1, <1>4 DEF HasTripped

----------------------------------------------------------------------------
(***************************************************************************)
(* What the steps make of a ramp.                                          *)
(***************************************************************************)
\* Startup.advance, while a start-up is in progress.
Stepped(s, period) == IF InProgress(s) THEN Advance(s, period) ELSE s

\* An interrupt keeps a start-up to its command, and completes it at the end of
\* the ramp.
LEMMA SteppedIs ==
    ASSUME NEW c \in Case, ~c.continuous, NEW s \in Startup, NEW m, NEW tripped,
           Obeys(c, s, m, tripped), s.value.num <= s.value.den
    PROVE  LET r == Stepped(s, c.clock.period)
           IN  /\ r \in Startup /\ r.value.num <= r.value.den
               /\ r.run = s.run /\ r.ramp = s.ramp
               /\ EndStep(r, c.clock.period) = EndStep(s, c.clock.period)
               /\ Obeys(c, r, m, tripped)
               /\ s.run /\ s.steps >= EndStep(s, c.clock.period) => r.complete
<1> DEFINE p == c.clock.period
           e == EndStep(s, p)
           r == Stepped(s, p)
<1>1. p \in Nat \ {0} /\ s.steps \in Nat /\ s.ramp \in Nat /\ s.run \in BOOLEAN
      /\ s.complete \in BOOLEAN
  BY DEF Case, Clock, Startup
<1>2. e \in Nat /\ s.steps * p \in Nat /\ (s.steps * p >= s.ramp <=> s.steps >= e)
  BY <1>1, EndStepReaches
<1>3. s.steps <= e /\ (s.complete => s.run /\ s.steps = e /\ s.value = Whole)
  BY DEF Obeys
<1>4. \A q : q.ramp = s.ramp => EndStep(q, p) = e
  BY DEF EndStep
<1>5. CASE ~InProgress(s)
  <2>1. r = s
    BY <1>5 DEF Stepped
  <2> QED
    BY <1>1, <1>5, <2>1 DEF InProgress
<1>6. CASE InProgress(s)
  <2>0. s.run /\ ~s.complete
    BY <1>6 DEF InProgress
  <2>1. /\ r \in Startup /\ r.run = s.run /\ r.ramp = s.ramp
        /\ r.value = Progress(s.steps * p, s.ramp)
        /\ r.complete <=> s.steps * p >= s.ramp
        /\ r.steps = IF s.steps * p >= s.ramp THEN s.steps ELSE s.steps + 1
    BY <1>1, <1>6, AdvanceIs DEF Stepped
  <2>2. r.value.num <= r.value.den /\ (r.value = Whole <=> s.steps * p >= s.ramp)
    BY <1>1, <1>2, <2>1, ProgressIs
  <2>3. EndStep(r, p) = e
    BY <1>4, <2>1
  <2> HIDE DEF r, e, p
  <2>4. r.steps <= e /\ (r.complete <=> s.steps >= e) /\ r.complete \in BOOLEAN
    BY <1>1, <1>2, <1>3, <2>1 DEF Startup
  <2>5. r.complete => r.steps = e /\ r.value = Whole
    BY <1>1, <1>2, <1>3, <2>1, <2>2
  <2>6. Obeys(c, r, m, tripped)
    BY <2>0, <2>1, <2>3, <2>4, <2>5 DEF Obeys, p
  <2> QED
    BY <2>0, <2>1, <2>2, <2>3, <2>4, <2>6 DEF r, e, p
<1> QED
  BY <1>5, <1>6

\* Interrupts before an index that is not before the connection.
LEMMA ServedIs ==
    ASSUME NEW c \in Case, NEW m, m.since \in Nat, NEW i \in Int
    PROVE  LET a == IndexAtOrAfter(c.clock, m.since)
           IN  /\ a \in Int /\ ServedBefore(c, m, i) \in Nat
               /\ i >= a => ServedBefore(c, m, i) = i - a
               /\ i <= a => ServedBefore(c, m, i) = 0
<1> DEFINE a == IndexAtOrAfter(c.clock, m.since)
<1>1. c.clock \in Clock /\ m.since \in Int
  BY DEF Case
<1>2. a \in Int
  BY <1>1, IndexAtOrAfterSpec
<1>3. ServedBefore(c, m, i) = Max({0, i - a})
  BY DEF ServedBefore
<1> HIDE DEF a
<1>4. i - a \in Int /\ 0 \in Int
  BY <1>2
<1>5. Max({0, i - a}) = IF 0 <= i - a THEN i - a ELSE 0
  BY <1>4, MaxOfTwo
<1> QED
  BY <1>2, <1>3, <1>4, <1>5 DEF a

\* An interrupt is counted in the ramp, up to its end.
LEMMA SteppedCounts ==
    ASSUME NEW c \in Case, ~c.continuous, NEW s \in Startup, s.run, NEW m, NEW tripped,
           Obeys(c, s, m, tripped), m.since \in Nat,
           NEW i \in Int, i >= IndexAtOrAfter(c.clock, m.since),
           NEW again \in BOOLEAN, NEW read \in BOOLEAN, Counted(c, s, m, i, again, read)
    PROVE  LET r == Stepped(s, c.clock.period)
           IN  /\ Counted(c, r, m, i + 1, again, TRUE)
               /\ ServedBefore(c, m, i) >= EndStep(s, c.clock.period) => r.complete
               /\ r.complete /\ ~again => ServedBefore(c, m, i) >= EndStep(s, c.clock.period)
<1> DEFINE p == c.clock.period
           e == EndStep(s, p)
           r == Stepped(s, p)
           k == ServedBefore(c, m, i)
           n == ServedBefore(c, m, i + 1)
<1>1. p \in Nat \ {0} /\ s.steps \in Nat /\ s.ramp \in Nat /\ s.complete \in BOOLEAN
  BY DEF Case, Clock, Startup
<1>2. k \in Nat /\ n = k + 1
  <2>0. i + 1 \in Int
    OBVIOUS
  <2>1. LET a == IndexAtOrAfter(c.clock, m.since)
        IN  a \in Int /\ n = i + 1 - a /\ k = i - a /\ k \in Nat
    BY <2>0, ServedIs
  <2> QED
    BY <2>1
<1>3. /\ e \in Nat /\ k * p \in Nat /\ s.steps * p \in Nat
      /\ s.steps * p >= s.ramp <=> s.steps >= e
      /\ k * p >= s.ramp <=> k >= e
  BY <1>1, <1>2, EndStepReaches
<1>4. /\ s.steps <= e /\ s.ramp = m.ramp
      /\ s.complete => s.steps = e /\ s.value = Whole
  BY DEF Obeys
<1>5. EndStep(r, p) = e
  <2>1. r.ramp = s.ramp
    BY <1>1, AdvanceIs DEF Stepped
  <2> QED
    BY <2>1 DEF EndStep
<1>6. /\ s.steps >= Min({k, e})
      /\ ~again => s.steps = Min({k, e}) /\ (s.complete => k > e)
  BY DEF Counted
<1>7. (n - 1) * p = k * p
  <2>1. n - 1 = k
    BY <1>2
  <2> QED
    BY <2>1
<1>8. k * p >= m.ramp <=> Progress(k * p, m.ramp) = Whole
  BY <1>1, <1>3, <1>4, ProgressIs
<1>9. InProgress(s) =>
        /\ r.value = Progress(s.steps * p, s.ramp)
        /\ r.complete <=> s.steps * p >= s.ramp
        /\ r.complete \in BOOLEAN
        /\ r.steps = IF s.steps * p >= s.ramp THEN s.steps ELSE s.steps + 1
  <2>1. InProgress(s) => r = Advance(s, p)
    BY DEF Stepped
  <2> QED
    BY <2>1, <1>1, AdvanceIs DEF Startup
<1>10. ~InProgress(s) => r = s /\ s.complete
  BY DEF Stepped, InProgress
<1>11. InProgress(s) => ~s.complete
  BY DEF InProgress
<1>12. s.complete = TRUE => r = s
  BY DEF Stepped, InProgress
<1>13. Min({k, e}) = (IF k <= e THEN k ELSE e) /\ Min({n, e}) = (IF n <= e THEN n ELSE e)
  <2>1. k \in Int /\ n \in Int /\ e \in Int
    BY <1>2, <1>3
  <2> QED
    BY <2>1, MinOfTwo
<1>14. Counted(c, r, m, i + 1, again, TRUE) <=>
         /\ r.steps >= Min({n, e})
         /\ ~again => /\ r.steps = Min({n, e})
                      /\ r.value = Progress((n - 1) * p, m.ramp)
                      /\ r.complete => n > e
  BY <1>5 DEF Counted
<1> DEFINE Goal == /\ Counted(c, r, m, i + 1, again, TRUE)
                   /\ k >= e => r.complete
                   /\ r.complete /\ ~again => k >= e
<1>15. ASSUME s.complete PROVE Goal
  <2>1. r = s /\ s.steps = e /\ s.value = Whole
    BY <1>4, <1>12, <1>15
  <2> HIDE DEF p, e, r, k, n
  <2>2. r.steps >= Min({n, e})
    BY <1>2, <1>3, <1>13, <2>1
  <2>3. ASSUME ~again
        PROVE  /\ r.steps = Min({n, e}) /\ k >= e
               /\ r.value = Progress((n - 1) * p, m.ramp) /\ n > e
    <3>1. k > e
      BY <1>6, <1>15, <2>3
    <3>2. Progress(k * p, m.ramp) = Whole
      BY <1>2, <1>3, <1>4, <1>8, <3>1
    <3> QED
      BY <1>2, <1>3, <1>7, <1>13, <2>1, <3>1, <3>2
  <2> QED
    BY <1>14, <1>15, <2>1, <2>2, <2>3
<1>16. ASSUME ~s.complete, s.steps >= e PROVE Goal
  <2> HIDE DEF p, e, r, k, n
  <2>1. r.steps = e /\ r.complete /\ r.value = Progress(s.steps * p, m.ramp) /\ s.steps = e
    BY <1>1, <1>3, <1>4, <1>9, <1>10, <1>16
  <2>2. r.steps >= Min({n, e})
    BY <1>2, <1>3, <1>13, <2>1
  <2>3. ASSUME ~again
        PROVE  /\ r.steps = Min({n, e}) /\ k >= e
               /\ r.value = Progress((n - 1) * p, m.ramp) /\ n > e
    <3>1. k >= e
      BY <1>2, <1>3, <1>6, <1>13, <2>1, <2>3
    <3>2. Progress(k * p, m.ramp) = Whole
      BY <1>2, <1>3, <1>4, <1>8, <3>1
    <3>3. Progress(s.steps * p, m.ramp) = Whole
      BY <1>1, <1>3, <1>4, <1>16, ProgressIs
    <3> QED
      BY <1>2, <1>3, <1>7, <1>13, <2>1, <3>1, <3>2, <3>3
  <2> QED
    BY <1>14, <2>1, <2>2, <2>3
<1>17. ASSUME ~s.complete, s.steps < e PROVE Goal
  <2> HIDE DEF p, e, r, k, n
  <2>1. r.steps = s.steps + 1 /\ ~r.complete /\ r.value = Progress(s.steps * p, m.ramp)
    BY <1>1, <1>3, <1>4, <1>9, <1>10, <1>17
  <2>2. s.steps >= k /\ k < e /\ (~again => s.steps = k)
    BY <1>1, <1>2, <1>3, <1>6, <1>13, <1>17
  <2>3. r.steps >= Min({n, e}) /\ (~again => r.steps = Min({n, e}))
    BY <1>1, <1>2, <1>3, <1>13, <2>1, <2>2
  <2>4. ~again => r.value = Progress((n - 1) * p, m.ramp)
    BY <1>7, <2>1, <2>2
  <2>5. ~(k >= e) /\ ~r.complete
    BY <1>2, <1>3, <2>1, <2>2
  <2>6. Counted(c, r, m, i + 1, again, TRUE)
    BY <1>14, <2>3, <2>4, <2>5
  <2> QED
    BY <2>5, <2>6
<1>18. Goal
  <2> HIDE DEF p, e, r, k, n, Goal
  <2>1. s.steps >= e \/ s.steps < e
    BY <1>1, <1>3
  <2> QED
    BY <1>15, <1>16, <1>17, <2>1
<1> QED
  BY <1>18

----------------------------------------------------------------------------
(***************************************************************************)
(* The start-up of a run.                                                  *)
(***************************************************************************)
\* The "steps" entry of Startup.set_state.
LEMMA RestoredIs ==
    ASSUME NEW s \in Startup, NEW n \in Nat, NEW period \in Nat \ {0}
    PROVE  LET r == Restored(s, n, period)
           IN  /\ r \in Startup /\ r.run = s.run /\ r.ramp = s.ramp /\ r.start = s.start
               /\ r.value = s.value /\ r.complete = s.complete
               /\ r.steps = Min({n, EndStep(s, period)})
               /\ EndStep(r, period) = EndStep(s, period)
               /\ r.steps <= EndStep(s, period)
<1> DEFINE e == EndStep(s, period)
           k == Min({n, e})
<1>1. e \in Nat
  BY EndStepReaches DEF Startup
<1>2. k \in Nat /\ k <= e
  <2> HIDE DEF e
  <2>1. k = IF n <= e THEN n ELSE e
    BY <1>1, MinOfTwo
  <2> QED
    BY <1>1, <2>1
<1>3. Restored(s, n, period) = [s EXCEPT !.steps = k]
  BY DEF Restored
<1> HIDE DEF k, e
<1>4. LET r == Restored(s, n, period)
      IN  /\ r \in Startup /\ r.run = s.run /\ r.ramp = s.ramp /\ r.start = s.start
          /\ r.value = s.value /\ r.complete = s.complete /\ r.steps = k
  BY <1>2, <1>3 DEF Startup
<1>5. EndStep(Restored(s, n, period), period) = EndStep(s, period)
  BY <1>4 DEF EndStep
<1> QED
  BY <1>2, <1>4, <1>5 DEF k, e

\* A command and its fields.
IsCommand(m, t) ==
    /\ m.on \in BOOLEAN /\ m.known \in BOOLEAN /\ m.since \in Nat /\ m.ramp \in Nat
    /\ m.known => m.since <= t
    /\ ~m.known => m.ramp = 0

\* Unit.start: the start-up of a run that begins at t follows the command in
\* force, and its ramp has the interrupts since the connection, one of which the
\* run may still repeat.
LEMMA StartedIs ==
    ASSUME case \in Case, NEW t \in Nat,
           NEW i \in {IndexAtOrAfter(case.clock, t), IndexAfter(case.clock, t)},
           IsCommand(InForce(t), t)
    PROVE  LET s == Started(t)
           IN  /\ s \in Startup /\ s.value.num <= s.value.den
               /\ Obeys(case, s, InForce(t), FALSE)
               /\ Ramps(case, s, InForce(t), t, FALSE, i, CountsItsStart(t, i), Continuous)
<1> DEFINE m == InForce(t)
           p == case.clock.period
           ramp == IF m.on THEN m.ramp ELSE 0
           from == IF m.on /\ m.known THEN m.since ELSE t
           s == Command(NewStartup, Continuous, m.on, ramp, from)
           r == Started(t)
<1>1. /\ m.on \in BOOLEAN /\ m.known \in BOOLEAN /\ m.since \in Nat /\ m.ramp \in Nat
      /\ m.known => m.since <= t
      /\ ~m.known => m.ramp = 0
  BY DEF IsCommand
<1>2. Continuous \in BOOLEAN /\ p \in Nat \ {0} /\ case.clock \in Clock
  BY DEF Continuous, Case, Clock
<1>3. r = IF Continuous THEN AtTime(s, t)
          ELSE IF m.on /\ m.known THEN Restored(s, Recount(m, t), p) ELSE s
  BY Zenon DEF Started
<1>4. NewStartup \in Startup /\ ramp \in Nat /\ from \in Nat /\ from <= t
  <2>1. Zero \in Fraction
    BY DEF Zero, Fraction
  <2> HIDE DEF m
  <2> QED
    BY <1>1, <2>1 DEF NewStartup, Startup
<1> HIDE DEF m, p, ramp, from, s, r
<1>5. /\ s \in Startup /\ s.run = m.on /\ s.steps = 0 /\ s.value = Zero
      /\ s.complete = FALSE
      /\ m.on => s.ramp = ramp
      /\ Continuous => s.start = from
  <2> DEFINE on == m.on
  <2>1. on \in BOOLEAN
    BY <1>1
  <2>2. s = Command(NewStartup, Continuous, on, ramp, from)
    BY DEF s
  <2> HIDE DEF on
  <2>3. Commanded(s, Continuous, on, ramp, from)
    BY <1>2, <1>4, <2>1, <2>2, CommandIs
  <2> QED
    BY <2>3 DEF Commanded, on
<1>6. Zero.num <= Zero.den
  BY DEF Zero
<1>7. m.on => s.ramp = m.ramp
  BY <1>5 DEF ramp
<1>8. m.on /\ m.known => from = m.since
  BY DEF from
<1>9. CASE Continuous
  <2>1. r = AtTime(s, t) /\ s.start <= t
    BY <1>3, <1>4, <1>5, <1>9
  <2>2. /\ r \in Startup /\ r.run = s.run /\ r.ramp = s.ramp /\ r.start = s.start
        /\ r.value.num <= r.value.den
        /\ r.complete => s.run
    BY <2>1, <1>5, AtTimeIs
  <2>3. Obeys(case, r, m, FALSE)
    BY <1>1, <1>5, <1>7, <1>9, <2>2 DEF Obeys, Continuous
  <2>4. Ramps(case, r, m, t, FALSE, i, CountsItsStart(t, i), Continuous)
    BY <1>5, <1>8, <1>9, <2>2 DEF Ramps, Timed, Continuous
  <2> QED
    BY <2>2, <2>3, <2>4 DEF r, m
<1>10. CASE ~Continuous /\ m.on /\ m.known
  <2> DEFINE b == IndexAfter(case.clock, t)
             a == IndexAtOrAfter(case.clock, t)
             k == ServedBefore(case, m, b)
             e == EndStep(s, p)
             n == ServedBefore(case, m, i)
  <2>1. r = Restored(s, Recount(m, t), p)
    BY <1>3, <1>10
  <2>2. Recount(m, t) = k
    BY DEF Recount, ControlCount, ServedBefore
  <2>3. /\ a \in Int /\ b \in Int
        /\ ClockDue(case.clock, t, a) => b = a + 1
        /\ ~ClockDue(case.clock, t, a) => b = a
        /\ ~ClockDue(case.clock, t, b)
    BY <1>2, Grid
  <2>4. i \in {a, b}
    OBVIOUS
  <2> HIDE DEF a, b
  <2> DEFINE o == IndexAtOrAfter(case.clock, m.since)
  <2>15. i \in Int /\ m.since \in Nat
    BY <1>1, <2>3, <2>4
  <2>16. o \in Int /\ k \in Nat /\ (b >= o => k = b - o) /\ (b <= o => k = 0)
    BY <2>3, <2>15, ServedIs
  <2>17. n \in Nat /\ (i >= o => n = i - o) /\ (i <= o => n = 0)
    BY <2>15, ServedIs
  <2> HIDE DEF o
  <2>5. /\ o \in Int
        /\ k \in Nat /\ (b >= o => k = b - o) /\ (b <= o => k = 0)
        /\ n \in Nat /\ (i >= o => n = i - o) /\ (i <= o => n = 0)
    BY <2>16, <2>17
  <2>6. e \in Nat
    BY <1>2, <1>5, EndStepReaches DEF Startup
  <2> HIDE DEF k, e, n
  <2>7. /\ r \in Startup /\ r.run = s.run /\ r.ramp = s.ramp
        /\ r.value = s.value /\ r.complete = s.complete
        /\ r.steps = Min({k, e}) /\ EndStep(r, p) = e /\ r.steps <= e
    <3> DEFINE q == Restored(s, k, p)
    <3>1. r = q
      BY <2>1, <2>2
    <3>2. /\ q \in Startup /\ q.run = s.run /\ q.ramp = s.ramp /\ q.start = s.start
          /\ q.value = s.value /\ q.complete = s.complete
          /\ q.steps = Min({k, EndStep(s, p)})
          /\ EndStep(q, p) = EndStep(s, p)
          /\ q.steps <= EndStep(s, p)
      BY <1>2, <1>5, <2>5, RestoredIs
    <3> HIDE DEF q
    <3> QED
      BY <3>1, <3>2 DEF e
  <2>8. n <= k /\ (~CountsItsStart(t, i) => n = k)
    <3>1. ~CountsItsStart(t, i) => ~ClockDue(case.clock, t, i)
      BY <1>10 DEF CountsItsStart, m
    <3>2. i <= b /\ (~CountsItsStart(t, i) => i = b)
      BY <2>3, <2>4, <3>1
    <3> QED
      BY <2>3, <2>4, <2>5, <2>15, <3>2 DEF n, k
  <2>9. Min({k, e}) = (IF k <= e THEN k ELSE e) /\ Min({n, e}) = (IF n <= e THEN n ELSE e)
    BY <2>5, <2>6, MinOfTwo
  <2>10. /\ r.steps >= Min({n, e})
         /\ ~CountsItsStart(t, i) => r.steps = Min({n, e})
    BY <2>5, <2>6, <2>7, <2>8, <2>9
  <2>11. Counted(case, r, m, i, CountsItsStart(t, i), FALSE)
    BY <1>5, <2>7, <2>10 DEF Counted, n, p
  <2>12. Obeys(case, r, m, FALSE)
    BY <1>1, <1>5, <1>7, <2>7 DEF Obeys, p
  <2>13. Continuous = FALSE
    BY <1>2, <1>10
  <2>14. Ramps(case, r, m, t, FALSE, i, CountsItsStart(t, i), Continuous)
    BY <1>10, <2>11, <2>13 DEF Ramps, Continuous
  <2> QED
    BY <1>5, <1>6, <2>7, <2>12, <2>14 DEF r, m
<1>11. CASE ~Continuous /\ ~(m.on /\ m.known)
  <2>1. r = s
    BY <1>3, <1>11
  <2>2. EndStep(s, p) \in Nat
    BY <1>2, <1>5, EndStepReaches DEF Startup
  <2>3. Obeys(case, r, m, FALSE)
    BY <1>1, <1>5, <1>7, <2>1, <2>2 DEF Obeys, p
  <2>4. Ramps(case, r, m, t, FALSE, i, CountsItsStart(t, i), Continuous)
    BY <1>5, <1>11, <2>1 DEF Ramps
  <2> QED
    BY <1>5, <1>6, <2>1, <2>3, <2>4 DEF r, m
<1> QED
  BY <1>2, <1>9, <1>10, <1>11

\* Facts of the unit and its timeline.
LEMMA CaseTyped ==
    ASSUME case \in Cases
    PROVE  /\ case \in Case /\ Continuous \in BOOLEAN /\ case.clock \in Clock
           /\ case.clock.period \in Nat \ {0} /\ case.initial \in BOOLEAN
           /\ case.timeline \in Seq(Events) /\ Len(case.timeline) \in Nat
           /\ \A i, j \in 1 .. Len(case.timeline) :
                  i < j => case.timeline[i].t <= case.timeline[j].t
           /\ \A i \in 1 .. Len(case.timeline) :
                  case.timeline[i] \in Events /\ case.timeline[i].t \in Nat
           /\ Checked \subseteq Criteria
<1>1. case \in Case /\ Checked \subseteq Criteria
  BY SupervisionAssumption
<1>2. case.timeline \in Seq(Events) /\ case.clock \in Clock /\ Continuous \in BOOLEAN
      /\ case.initial \in BOOLEAN
  BY <1>1 DEF Case, Continuous
<1>3. case.clock.period \in Nat \ {0}
  BY <1>2 DEF Clock
<1>4. DOMAIN case.timeline = 1 .. Len(case.timeline) /\ Len(case.timeline) \in Nat
  BY <1>2
<1>5. \A i, j \in 1 .. Len(case.timeline) :
          i < j => case.timeline[i].t <= case.timeline[j].t
  BY <1>4, SupervisionAssumption
<1>6. \A i \in 1 .. Len(case.timeline) : case.timeline[i] \in Events
  BY <1>2
<1>7. \A i \in 1 .. Len(case.timeline) : case.timeline[i].t \in Nat
  BY <1>6, EventFields
<1> QED
  BY <1>1, <1>2, <1>3, <1>4, <1>5, <1>6, <1>7

\* The command in place was given at a time that is over.
LEMMA InPlaceIs ==
    ASSUME SupervisionTyped, TimelineInv
    PROVE  IsCommand(InPlace, now)
<1>1. case \in Case /\ applied \in 0 .. Len(case.timeline)
  BY CaseTyped DEF SupervisionTyped
<1>2. /\ InPlace.on \in BOOLEAN /\ InPlace.known \in BOOLEAN
      /\ InPlace.since \in Nat /\ InPlace.ramp \in Nat
      /\ InPlace.known => \E i \in 1 .. applied : InPlace.since = case.timeline[i].t
      /\ ~InPlace.known => InPlace.ramp = 0
  BY <1>1, CommandAfterIs DEF InPlace
<1>3. InPlace.known => InPlace.since <= now
  BY <1>2 DEF TimelineInv
<1> QED
  BY <1>2, <1>3 DEF IsCommand

\* Once the events of an instant are applied, the command in place is the one in
\* force.
LEMMA InForceIs ==
    ASSUME SupervisionTyped, TimelineInv, phase # "events"
    PROVE  InForce(now) = InPlace
<1> DEFINE tl == case.timeline
<1>1. /\ tl \in Seq(Events) /\ applied \in Nat /\ applied <= Len(tl) /\ Len(tl) \in Nat
      /\ now \in Nat
      /\ \A i \in 1 .. Len(tl) : tl[i].t \in Nat
  BY CaseTyped, SupervisionAssumption DEF SupervisionTyped
<1>2. \A i \in 1 .. applied : tl[i].t <= now
  BY DEF TimelineInv
<1>3. \A i \in applied + 1 .. Len(tl) : tl[i].t > now
  BY DEF TimelineInv
<1> HIDE DEF tl
<1>4. \A i \in 1 .. Len(tl) : tl[i].t <= now <=> i \in 1 .. applied
  BY <1>1, <1>2, <1>3
<1>5. DOMAIN tl = 1 .. Len(tl)
  BY <1>1
<1>6. 1 .. applied \subseteq 1 .. Len(tl)
  BY <1>1
<1>7. ConnectionsUntil(tl, now) = ConnectionsOf(tl, applied)
  BY <1>4, <1>5, <1>6 DEF ConnectionsUntil, ConnectionsOf
<1> QED
  BY <1>7 DEF InForce, CommandAt, InPlace, tl

\* Loading a saved row: the start-up keeps to its command, and counts on.
LEMMA LoadedIs ==
    ASSUME SupInv
    PROVE  LET r == Loaded(now)
           IN  /\ r \in Startup /\ r.value.num <= r.value.den
               /\ Obeys(case, r, InPlace, HasTripped(protection))
               /\ Ramps(case, r, InPlace, now, FALSE, index, recounted, Continuous)
<1> DEFINE m == InPlace
           p == case.clock.period
           off == HasTripped(protection)
           saved == [startup EXCEPT !.value = Zero, !.complete = FALSE]
           s == IF off THEN Command(saved, Continuous, FALSE, 0, 0)
                ELSE IF Continuous THEN saved
                ELSE Restored(saved, saved.steps, p)
           r == Loaded(now)
<1>0. SupervisionTyped /\ TimelineInv /\ RampInv
  BY DEF SupInv
<1>1. Continuous \in BOOLEAN /\ p \in Nat \ {0} /\ case \in Case /\ now \in Nat
  BY <1>0, CaseTyped, SupervisionAssumption DEF SupervisionTyped
<1>2. IsCommand(m, now)
  BY <1>0, InPlaceIs
<1>3. startup \in Startup
  BY <1>0 DEF SupervisionTyped
<1>4. Zero \in Fraction /\ Zero.num <= Zero.den
  BY DEF Zero, Fraction
<1>5. /\ saved \in Startup /\ saved.run = startup.run /\ saved.ramp = startup.ramp
      /\ saved.start = startup.start /\ saved.steps = startup.steps
      /\ saved.value = Zero /\ saved.complete = FALSE
  BY <1>3, <1>4 DEF Startup
<1>6. r = IF Continuous THEN AtTime(s, now) ELSE s
  BY Zenon DEF Loaded
<1>7. /\ startup.run = (m.on /\ ~off)
      /\ startup.run => startup.ramp = m.ramp
      /\ ~Continuous => startup.steps <= EndStep(startup, p)
  BY <1>0 DEF RampInv, Obeys, Continuous
<1>8. startup.run /\ m.known =>
          IF Continuous THEN startup.start = m.since
          ELSE Counted(case, startup, m, index, recounted, sampled)
  BY <1>0 DEF RampInv, Ramps, Timed, Continuous
<1>9. off \in BOOLEAN /\ startup.run \in BOOLEAN
  BY <1>3 DEF Startup, HasTripped
<1> HIDE DEF m, p, off, saved, s, r
<1>10. CASE off
  <2>1. Commanded(s, Continuous, FALSE, 0, 0)
    BY <1>1, <1>5, <1>10, CommandIs DEF s
  <2>2. s \in Startup /\ s.run = FALSE /\ s.steps = 0 /\ s.value = Zero /\ s.complete = FALSE
    BY <2>1 DEF Commanded
  <2>3. EndStep(s, p) \in Nat
    BY <1>1, <2>2, EndStepReaches DEF Startup
  <2>4. Continuous =>
          /\ r \in Startup /\ r.value.num <= r.value.den
          /\ r.run = FALSE /\ r.complete = FALSE
    <3>1. AtTime(s, now) = [s EXCEPT !.value = Zero, !.complete = FALSE]
      BY <2>2 DEF AtTime
    <3> QED
      BY <1>4, <1>6, <2>2, <3>1 DEF Startup
  <2>5. ~Continuous => r = s
    BY <1>1, <1>6
  <2>6. r \in Startup /\ r.value.num <= r.value.den /\ r.run = FALSE /\ r.complete = FALSE
        /\ (~Continuous => r.steps <= EndStep(r, p))
    BY <1>1, <1>4, <2>2, <2>3, <2>4, <2>5
  <2>7. Obeys(case, r, m, off)
    BY <1>10, <2>6 DEF Obeys, Continuous, p
  <2>8. Ramps(case, r, m, now, FALSE, index, recounted, Continuous)
    BY <2>6 DEF Ramps
  <2> QED
    BY <2>6, <2>7, <2>8 DEF r, m, off
<1>11. CASE ~off /\ Continuous
  <2>1. s = saved /\ r = AtTime(s, now)
    BY <1>6, <1>11 DEF s
  <2>2. s.run => s.start <= now \/ s.ramp = 0
    BY <1>2, <1>5, <1>7, <1>8, <1>11, <2>1 DEF IsCommand
  <2>3. /\ r \in Startup /\ r.run = s.run /\ r.ramp = s.ramp /\ r.start = s.start
        /\ r.value.num <= r.value.den /\ (r.complete => s.run)
    BY <1>1, <1>5, <2>1, <2>2, AtTimeIs
  <2>4. Obeys(case, r, m, off)
    BY <1>5, <1>7, <1>11, <2>1, <2>3 DEF Obeys, Continuous
  <2>5. Ramps(case, r, m, now, FALSE, index, recounted, Continuous)
    BY <1>5, <1>8, <1>11, <2>1, <2>3 DEF Ramps, Timed, Continuous
  <2> QED
    BY <2>3, <2>4, <2>5 DEF r, m, off
<1>12. CASE ~off /\ ~Continuous
  <2>1. r = Restored(saved, saved.steps, p)
    BY <1>6, <1>12 DEF s
  <2> DEFINE k == saved.steps
  <2>2. k \in Nat
    BY <1>5 DEF Startup
  <2>3. LET q == Restored(saved, k, p)
        IN  /\ q \in Startup /\ q.run = saved.run /\ q.ramp = saved.ramp
            /\ q.value = saved.value /\ q.complete = saved.complete
            /\ q.steps = Min({k, EndStep(saved, p)})
            /\ EndStep(q, p) = EndStep(saved, p)
    BY <1>1, <1>5, <2>2, RestoredIs
  <2>4. EndStep(saved, p) = EndStep(startup, p)
    BY <1>5 DEF EndStep
  <2>5. EndStep(startup, p) \in Nat
    BY <1>1, <1>3, EndStepReaches DEF Startup
  <2>6. Min({k, EndStep(startup, p)}) = k
    <3>1. k <= EndStep(startup, p)
      BY <1>5, <1>7, <1>12
    <3> HIDE DEF k
    <3> QED
      BY <2>2, <2>5, <3>1, MinOfTwo
  <2>7. /\ r \in Startup /\ r.run = startup.run /\ r.ramp = startup.ramp
        /\ r.value = Zero /\ r.complete = FALSE
        /\ r.steps = startup.steps
        /\ EndStep(r, p) = EndStep(startup, p)
    <3> HIDE DEF k
    <3>1. k = startup.steps
      BY <1>5 DEF k
    <3>2. r = Restored(saved, k, p)
      BY <2>1 DEF k
    <3> QED
      BY <1>5, <2>3, <2>4, <2>6, <3>1, <3>2
  <2>8. Obeys(case, r, m, off)
    BY <1>7, <1>12, <2>7 DEF Obeys, Continuous, p
  <2>9. ASSUME Counted(case, startup, m, index, recounted, sampled)
        PROVE  Counted(case, r, m, index, recounted, FALSE)
    BY <2>7, <2>9 DEF Counted, p
  <2>10. Continuous = FALSE
    BY <1>1, <1>12
  <2>11. Ramps(case, r, m, now, FALSE, index, recounted, Continuous)
    BY <1>8, <1>12, <2>7, <2>9, <2>10 DEF Ramps, Continuous
  <2> QED
    BY <1>4, <2>7, <2>8, <2>11 DEF r, m, off
<1> QED
  BY <1>1, <1>9, <1>10, <1>11, <1>12

----------------------------------------------------------------------------
(***************************************************************************)
(* Every action preserves the invariant.                                   *)
(***************************************************************************)
\* What the actions have in common: constants of a behaviour and its types.
LEMMA SupTyped ==
    ASSUME SupInv
    PROVE  /\ case \in Cases /\ settings \in Settings /\ now \in Nat /\ now \in 0 .. Horizon
           /\ applied \in Nat /\ applied <= Len(case.timeline)
           /\ phase \in {"events", "protect", "sense", "done"} /\ index \in Int
           /\ startup \in Startup /\ startup.value.num <= startup.value.den
           /\ protection \in ProtectionState(Checked)
           /\ ready \in BOOLEAN /\ sampled \in BOOLEAN /\ recounted \in BOOLEAN
           /\ span \in [Checked -> Nat]
           /\ case \in Case /\ Continuous \in BOOLEAN /\ case.clock \in Clock
           /\ case.clock.period \in Nat \ {0}
           /\ Len(case.timeline) \in Nat
           /\ HasTripped(protection) \in BOOLEAN
<1>1. SupervisionTyped
  BY DEF SupInv
<1>2. case \in Cases /\ now \in 0 .. Horizon /\ Horizon \in Nat
  BY <1>1, SupervisionAssumption DEF SupervisionTyped
<1>3. case \in Case /\ Continuous \in BOOLEAN /\ case.clock \in Clock
      /\ case.clock.period \in Nat \ {0} /\ Len(case.timeline) \in Nat
  BY <1>2, CaseTyped
<1>4. applied \in Nat /\ applied <= Len(case.timeline) /\ now \in Nat
  BY <1>1, <1>2, <1>3 DEF SupervisionTyped
<1>5. HasTripped(protection) \in BOOLEAN
  BY DEF HasTripped
<1> QED
  BY <1>1, <1>2, <1>3, <1>4, <1>5 DEF SupervisionTyped

\* The next event is applied: a connection begins its ramp.
LEMMA ApplyEventKeeps ==
    ASSUME SupInv, ApplyEvent
    PROVE  SupInv'
<1> DEFINE event == case.timeline[applied + 1]
           p == case.clock.period
           m == InPlace'
           on == event.on /\ ~HasTripped(protection)
<1>1. /\ phase = "events" /\ applied < Len(case.timeline) /\ event.t <= now
      /\ applied' = applied + 1
      /\ UNCHANGED <<case, now, phase, index, protection, ready, span>>
  BY DEF ApplyEvent, EventDue
<1>2. /\ "on" \in DOMAIN event =>
            /\ startup' = Command(startup, Continuous, on, event.ramp, now)
            /\ sampled' = Continuous /\ recounted' = FALSE /\ settings' = settings
      /\ "on" \notin DOMAIN event =>
            /\ settings' = event.settings
            /\ UNCHANGED <<startup, sampled, recounted>>
  BY DEF ApplyEvent
<1>3. TimelineInv /\ IndexInv /\ RampInv /\ HoldInv
  BY DEF SupInv
<1>4. applied + 1 \in 1 .. Len(case.timeline) /\ applied \in Nat /\ Len(case.timeline) \in Nat
  BY <1>1, SupTyped
<1>5. event \in Events /\ event.t \in Nat
  BY <1>4, SupTyped, CaseTyped
<1>6. /\ "on" \in DOMAIN event => event.on \in BOOLEAN /\ event.ramp \in Nat
      /\ "on" \notin DOMAIN event => event.settings \in Settings
  BY <1>5, EventFields
<1>7. event.t = now
  <2>1. event.t >= now
    BY <1>3, <1>4 DEF TimelineInv
  <2> QED
    BY <2>1, <1>1, <1>5, SupTyped
<1>8. TimelineInv'
  <2>1. \A i \in 1 .. applied + 1 : case.timeline[i].t <= now
    <3>1. \A i \in 1 .. applied + 1 : i \in 1 .. applied \/ i = applied + 1
      BY <1>4
    <3> QED
      BY <3>1, <1>1, <1>3 DEF TimelineInv
  <2>2. \A i \in applied + 1 + 1 .. Len(case.timeline) :
            case.timeline[i].t >= now
    <3>1. \A i \in applied + 1 + 1 .. Len(case.timeline) : i \in applied + 1 .. Len(case.timeline)
      BY <1>4
    <3> QED
      BY <3>1, <1>3 DEF TimelineInv
  <2> QED
    BY <2>1, <2>2, <1>1 DEF TimelineInv
<1>9. IndexInv' /\ HoldInv'
  BY <1>1, <1>3 DEF IndexInv, HoldInv
<1>10. /\ "on" \notin DOMAIN event => m = InPlace
       /\ "on" \in DOMAIN event => m.on = event.on
       /\ "on" \in DOMAIN event /\ event.on =>
              m.known /\ m.since = now /\ m.ramp = event.ramp
  <2>1. case \in Case /\ applied + 1 <= Len(case.timeline)
    BY <1>4, SupTyped
  <2> HIDE DEF event
  <2>2. InPlace' = CommandAfter(case.timeline, case.initial,
                                ConnectionsOf(case.timeline, applied + 1))
    BY <1>1 DEF InPlace
  <2> QED
    BY <1>4, <1>7, <2>1, <2>2, CommandNext DEF InPlace, event
<1>11. Obeys(case, startup', m, HasTripped(protection))
       /\ Ramps(case, startup', m, now, FALSE, index, recounted', sampled')
       /\ startup' \in Startup /\ startup'.value.num <= startup'.value.den
  <2>1. CASE "on" \notin DOMAIN event
    <3>1. m = InPlace /\ startup' = startup /\ sampled' = sampled /\ recounted' = recounted
      BY <1>2, <1>10, <2>1
    <3> HIDE DEF m
    <3>2. Ramps(case, startup, InPlace, now, FALSE, index, recounted, sampled)
      BY <1>3 DEF RampInv, Ramps, Timed
    <3> QED
      BY <3>1, <3>2, <1>3, SupTyped DEF RampInv
  <2>2. CASE "on" \in DOMAIN event
    <3>1. on \in BOOLEAN /\ event.ramp \in Nat
      BY <1>6, <2>2, SupTyped
    <3>2. startup' = Command(startup, Continuous, on, event.ramp, now)
          /\ sampled' = Continuous /\ recounted' = FALSE
      BY <1>2, <2>2
    <3> DEFINE s == startup'
               k == ServedBefore(case, m, index)
    <3> HIDE DEF on
    <3>3. Commanded(s, Continuous, on, event.ramp, now)
      BY <3>1, <3>2, SupTyped, CommandIs
    <3>4. m.on = event.on /\ (event.on => m.known /\ m.since = now /\ m.ramp = event.ramp)
      BY <1>10, <2>2
    <3>5. on = (event.on /\ ~HasTripped(protection))
      BY DEF on
    <3> HIDE DEF event, m, s
    <3>6. /\ s \in Startup /\ s.run = on /\ s.steps = 0 /\ s.value = Zero /\ s.complete = FALSE
          /\ on => s.ramp = event.ramp
          /\ Continuous => s.start = now
      BY <3>3 DEF Commanded
    <3>7. EndStep(s, p) \in Nat
      BY <3>6, SupTyped, EndStepReaches DEF Startup
    <3>8. Zero.num <= Zero.den
      BY DEF Zero
    <3>9. Obeys(case, s, m, HasTripped(protection))
      <4>1. s.run = (m.on /\ ~HasTripped(protection))
        BY <3>4, <3>5, <3>6
      <4>2. s.run => s.ramp = m.ramp
        BY <3>1, <3>4, <3>5, <3>6
      <4>3. s.steps <= EndStep(s, p) /\ s.complete = FALSE
        BY <3>6, <3>7
      <4> QED
        BY <4>1, <4>2, <4>3 DEF Obeys
    <3>10. ASSUME s.run PROVE k = 0
      <4>1. m.since = now /\ now \in Nat
        BY <3>4, <3>5, <3>6, <3>10, SupTyped
      <4>2. index = IndexAtOrAfter(case.clock, m.since)
        BY <1>1, <1>3, <4>1 DEF IndexInv
      <4>3. index <= IndexAtOrAfter(case.clock, m.since)
        BY <4>2, SupTyped
      <4>4. index \in Int /\ case \in Case /\ m.since \in Nat
        BY <4>1, SupTyped
      <4>5. index <= IndexAtOrAfter(case.clock, m.since) => ServedBefore(case, m, index) = 0
        BY <4>4, ServedIs
      <4> QED
        BY <4>3, <4>5 DEF k
    <3>11. ASSUME s.run PROVE Counted(case, s, m, index, FALSE, FALSE)
      <4>1. Min({0, EndStep(s, p)}) = 0
        BY <3>7, MinOfTwo
      <4>2. k = 0
        BY <3>10, <3>11
      <4> QED
        BY <3>6, <4>1, <4>2 DEF Counted
    <3>12. ASSUME s.run, Continuous PROVE s.start = m.since
      BY <3>4, <3>5, <3>6, <3>12
    <3>13. Ramps(case, s, m, now, FALSE, index, FALSE, Continuous)
      <4>1. CASE Continuous
        BY <3>12, <4>1 DEF Ramps, Timed, Continuous
      <4>2. CASE ~Continuous
        <5>1. Continuous = FALSE
          BY <4>2, SupTyped
        <5> QED
          BY <3>11, <4>2, <5>1 DEF Ramps, Continuous
      <4> QED
        BY <4>1, <4>2
    <3> QED
      BY <3>2, <3>6, <3>8, <3>9, <3>13 DEF s
  <2> QED
    BY <2>1, <2>2
<1>12. RampInv'
  <2> HIDE DEF m
  <2>1. Ramps(case, startup', m, now, phase' = "done", index, recounted', sampled')
    BY <1>1, <1>11 DEF Ramps, Timed
  <2> QED
    BY <1>1, <1>11, <2>1 DEF RampInv, m
<1>13. SupervisionTyped'
  <2>1. settings' \in Settings /\ sampled' \in BOOLEAN /\ recounted' \in BOOLEAN
    BY <1>2, <1>6, SupTyped
  <2>2. applied' \in 0 .. Len(case.timeline)
    BY <1>1, <1>4
  <2>3. ~Continuous => startup'.steps <= EndStep(startup', p)
    BY <1>11 DEF Obeys, Continuous
  <2> QED
    BY <1>1, <1>11, <2>1, <2>2, <2>3, SupTyped DEF SupervisionTyped, Continuous
<1> QED
  BY <1>8, <1>9, <1>12, <1>13 DEF SupInv

\* The events of an instant are over: the later ones are of later instants.
LEMMA EventsAppliedKeeps ==
    ASSUME SupInv, EventsApplied
    PROVE  SupInv'
<1>1. phase = "events" /\ ~EventDue /\ phase' = "protect"
      /\ UNCHANGED <<case, settings, now, applied, index, startup, protection, ready, sampled,
                     recounted, span>>
  BY DEF EventsApplied
<1>2. SupervisionTyped /\ TimelineInv /\ IndexInv /\ RampInv /\ HoldInv
  BY DEF SupInv
<1> DEFINE tl == case.timeline
<1>3. /\ applied \in Nat /\ Len(tl) \in Nat /\ now \in Nat
      /\ \A i \in 1 .. Len(tl) : tl[i].t \in Nat
      /\ \A i, j \in 1 .. Len(tl) : i < j => tl[i].t <= tl[j].t
  BY SupTyped, CaseTyped
<1>4. \A i \in applied + 1 .. Len(tl) : tl[i].t > now
  <2> SUFFICES ASSUME NEW i \in applied + 1 .. Len(tl) PROVE tl[i].t > now
    OBVIOUS
  <2>1. applied < Len(tl) /\ i \in 1 .. Len(tl) /\ applied + 1 \in 1 .. Len(tl)
    BY <1>3
  <2>2. ~(tl[applied + 1].t <= now)
    BY <1>1, <2>1 DEF EventDue
  <2> HIDE DEF tl
  <2>3. tl[applied + 1].t <= tl[i].t
    <3>1. applied + 1 < i \/ applied + 1 = i
      BY <1>3, <2>1
    <3> QED
      BY <3>1, <1>3, <2>1
  <2> QED
    BY <1>3, <2>1, <2>2, <2>3
<1>5. TimelineInv'
  BY <1>1, <1>2, <1>3, <1>4 DEF TimelineInv
<1>6. IndexInv' /\ HoldInv'
  BY <1>1, <1>2 DEF IndexInv, HoldInv
<1>7. InPlace' = InPlace
  BY <1>1 DEF InPlace
<1>8. RampInv'
  BY <1>1, <1>2, <1>7 DEF RampInv, Ramps, Timed
<1>9. SupervisionTyped'
  BY <1>1, <1>2 DEF SupervisionTyped, Continuous
<1> QED
  BY <1>5, <1>6, <1>8, <1>9 DEF SupInv

\* A start-up that was commanded to stop, of a unit that tripped.
LEMMA StoppedIs ==
    ASSUME case \in Case, NEW s \in Startup, NEW t \in Nat, NEW m, NEW x, NEW done, NEW i,
           NEW again, NEW read
    PROVE  LET r == Command(s, Continuous, FALSE, 0, t)
           IN  /\ r \in Startup /\ r.value.num <= r.value.den
               /\ Obeys(case, r, m, TRUE)
               /\ Ramps(case, r, m, x, done, i, again, read)
               /\ ~Continuous => r.steps <= EndStep(r, case.clock.period)
<1> DEFINE r == Command(s, Continuous, FALSE, 0, t)
<1>1. Continuous \in BOOLEAN /\ case.clock.period \in Nat \ {0}
  BY DEF Case, Clock, Continuous
<1>2. Commanded(r, Continuous, FALSE, 0, t)
  BY <1>1, CommandIs
<1> HIDE DEF r
<1>3. r \in Startup /\ r.run = FALSE /\ r.steps = 0 /\ r.value = Zero /\ r.complete = FALSE
  BY <1>2 DEF Commanded
<1>4. EndStep(r, case.clock.period) \in Nat
  BY <1>1, <1>3, EndStepReaches DEF Startup
<1>5. Zero.num <= Zero.den
  BY DEF Zero
<1>6. Obeys(case, r, m, TRUE)
  <2>1. r.run = (m.on /\ ~TRUE)
    BY <1>3, Zenon
  <2>2. r.steps <= EndStep(r, case.clock.period)
    BY <1>3, <1>4
  <2> QED
    BY <1>3, <2>1, <2>2 DEF Obeys
<1>7. Ramps(case, r, m, x, done, i, again, read)
  BY <1>3 DEF Ramps
<1>8. r.steps <= EndStep(r, case.clock.period)
  BY <1>3, <1>4
<1> QED
  BY <1>3, <1>5, <1>6, <1>7, <1>8 DEF r

\* The fast criterion trips and stops the ramp, or leaves both as they were.
LEMMA ProtectKeeps ==
    ASSUME SupInv, NEW over \in BOOLEAN, ProtectUnit(over)
    PROVE  SupInv'
<1>1. /\ phase = "protect" /\ phase' = "sense"
      /\ protection' = IF over THEN CheckFast(protection, settings) ELSE protection
      /\ startup' = IF protection' = protection THEN startup
                    ELSE Command(startup, Continuous, FALSE, 0, now)
      /\ UNCHANGED <<case, settings, now, applied, index, ready, sampled, recounted, span>>
  BY DEF ProtectUnit
<1>2. SupervisionTyped /\ TimelineInv /\ IndexInv /\ RampInv /\ HoldInv
  BY DEF SupInv
<1>3. protection' = protection
      \/ (protection' \in ProtectionState(Checked) /\ HasTripped(protection'))
  BY <1>1, SupTyped, CheckFastIs
<1>4. InPlace' = InPlace
  BY <1>1 DEF InPlace
<1>5. TimelineInv' /\ IndexInv'
  BY <1>1, <1>2 DEF TimelineInv, IndexInv
<1>6. CASE protection' = protection
  <2>1. startup' = startup
    BY <1>1, <1>6
  <2>2. HoldInv'
    BY <1>1, <1>2, <1>6 DEF HoldInv
  <2>3. RampInv'
    BY <1>1, <1>2, <1>4, <1>6, <2>1 DEF RampInv, Ramps, Timed
  <2>4. SupervisionTyped'
    BY <1>1, <1>2, <1>6, <2>1 DEF SupervisionTyped, Continuous
  <2> QED
    BY <1>5, <2>2, <2>3, <2>4 DEF SupInv
<1>7. CASE protection' # protection
  <2>1. protection' \in ProtectionState(Checked) /\ HasTripped(protection')
        /\ startup' = Command(startup, Continuous, FALSE, 0, now)
    BY <1>1, <1>3, <1>7
  <2> DEFINE m == InPlace
             done == phase' = "done"
  <2>2. /\ startup' \in Startup /\ startup'.value.num <= startup'.value.den
        /\ Obeys(case, startup', m, TRUE)
        /\ Ramps(case, startup', m, now, done, index, recounted, sampled)
        /\ ~Continuous => startup'.steps <= EndStep(startup', case.clock.period)
    <3> HIDE DEF m, done
    <3> QED
      BY <2>1, SupTyped, StoppedIs
  <2>3. HoldInv'
    BY <2>1 DEF HoldInv
  <2>4. RampInv'
    <3>1. HasTripped(protection') = TRUE
      BY <2>1 DEF HasTripped
    <3> QED
      BY <1>1, <1>4, <2>2, <3>1 DEF RampInv
  <2>5. SupervisionTyped'
    BY <1>1, <1>2, <2>1, <2>2 DEF SupervisionTyped, Continuous
  <2> QED
    BY <1>5, <2>3, <2>4, <2>5 DEF SupInv
<1> QED
  BY <1>6, <1>7

\* The next instant.
LEMMA TickKeeps ==
    ASSUME SupInv, Tick
    PROVE  SupInv'
<1>1. /\ phase = "done" /\ now < Horizon /\ now' = now + 1 /\ phase' = "events"
      /\ UNCHANGED <<case, settings, applied, index, startup, protection, ready, sampled,
                     recounted, span>>
  BY DEF Tick
<1>2. SupervisionTyped /\ TimelineInv /\ IndexInv /\ RampInv /\ HoldInv
  BY DEF SupInv
<1>3. now \in Nat /\ now' \in 0 .. Horizon
  BY <1>1, SupTyped, SupervisionAssumption
<1>4. TimelineInv'
  <2>1. \A i \in 1 .. Len(case.timeline) : case.timeline[i].t \in Nat
    BY SupTyped, CaseTyped
  <2>2. \A i \in 1 .. applied : i \in 1 .. Len(case.timeline)
    BY SupTyped
  <2>3. \A i \in applied + 1 .. Len(case.timeline) : i \in 1 .. Len(case.timeline)
    BY SupTyped
  <2>4. \A i \in 1 .. applied : case.timeline[i].t <= now + 1
    BY <1>2, <1>3, <2>1, <2>2 DEF TimelineInv
  <2>5. \A i \in applied + 1 .. Len(case.timeline) : case.timeline[i].t >= now + 1
    BY <1>1, <1>2, <1>3, <2>1, <2>3 DEF TimelineInv
  <2> QED
    BY <1>1, <2>4, <2>5 DEF TimelineInv
<1>5. IndexInv'
  <2>1. index = IndexAfter(case.clock, now)
    BY <1>1, <1>2 DEF IndexInv
  <2>2. IndexAtOrAfter(case.clock, now + 1) = IndexAfter(case.clock, now)
    BY <1>3, SupTyped, Grid
  <2> QED
    BY <1>1, <2>1, <2>2 DEF IndexInv
<1>6. HoldInv'
  BY <1>1, <1>2 DEF HoldInv
<1>7. InPlace' = InPlace
  BY <1>1 DEF InPlace
<1>8. RampInv'
  BY <1>1, <1>2, <1>7 DEF RampInv, Ramps, Timed
<1>9. SupervisionTyped'
  BY <1>1, <1>2, <1>3 DEF SupervisionTyped, Continuous
<1> QED
  BY <1>4, <1>5, <1>6, <1>8, <1>9 DEF SupInv

\* A run from a saved row counts on where the row left.
LEMMA ContinueRowKeeps ==
    ASSUME SupInv, ContinueRow
    PROVE  SupInv'
<1>1. /\ phase = "done" /\ phase' = "protect"
      /\ index' = StartIndex(case.clock, now, TRUE)
      /\ startup' = Loaded(now) /\ protection' = LoadedProtection
      /\ sampled' = Continuous
      /\ UNCHANGED <<case, settings, now, applied, ready, recounted, span>>
  BY DEF ContinueRow
<1>2. SupervisionTyped /\ TimelineInv /\ IndexInv /\ RampInv /\ HoldInv
  BY DEF SupInv
<1>3. index' = index
  BY <1>1, <1>2 DEF StartIndex, IndexInv
<1>4. InPlace' = InPlace
  BY <1>1 DEF InPlace
<1>5. TimelineInv' /\ IndexInv'
  BY <1>1, <1>2, <1>3 DEF TimelineInv, IndexInv
<1>6. /\ protection' \in ProtectionState(Checked)
      /\ HasTripped(protection') <=> HasTripped(protection)
      /\ protection'.held = protection.held
  BY <1>1, SupTyped, LoadedProtectionIs
<1>7. HoldInv'
  BY <1>1, <1>2, <1>6 DEF HoldInv
<1>8. /\ startup' \in Startup /\ startup'.value.num <= startup'.value.den
      /\ Obeys(case, startup', InPlace, HasTripped(protection))
      /\ Ramps(case, startup', InPlace, now, FALSE, index, recounted, Continuous)
  BY <1>1, LoadedIs
<1>9. RampInv'
  <2>1. HasTripped(protection') = HasTripped(protection)
    BY <1>6 DEF HasTripped
  <2>2. Ramps(case, startup', InPlace, now, phase' = "done", index, recounted, Continuous)
    BY <1>1, <1>8 DEF Ramps, Timed
  <2> QED
    BY <1>1, <1>3, <1>4, <1>8, <2>1, <2>2 DEF RampInv
<1>10. SupervisionTyped'
  <2>1. ~Continuous => startup'.steps <= EndStep(startup', case.clock.period)
    BY <1>8 DEF Obeys, Continuous
  <2>2. sampled' \in BOOLEAN
    BY <1>1, SupTyped
  <2> QED
    BY <1>1, <1>2, <1>3, <1>6, <1>8, <2>1, <2>2 DEF SupervisionTyped, Continuous
<1> QED
  BY <1>5, <1>7, <1>9, <1>10 DEF SupInv

\* A run that computes its start-up from the timeline.
LEMMA RerunKeeps ==
    ASSUME SupInv, NEW continued \in BOOLEAN, Rerun(continued)
    PROVE  SupInv'
<1>1. /\ phase = "done" /\ phase' = "protect"
      /\ index' = StartIndex(case.clock, now, continued)
      /\ startup' = Started(now) /\ protection' = NewProtection(Checked)
      /\ ready' = FALSE /\ sampled' = Continuous
      /\ recounted' = CountsItsStart(now, index')
      /\ span' = NoCount
      /\ UNCHANGED <<case, settings, now, applied>>
  BY DEF Rerun
<1>2. SupervisionTyped /\ TimelineInv /\ IndexInv /\ RampInv /\ HoldInv
  BY DEF SupInv
<1>3. index' \in {IndexAtOrAfter(case.clock, now), IndexAfter(case.clock, now)}
  BY <1>1 DEF StartIndex
<1>4. InPlace' = InPlace /\ InForce(now) = InPlace
  BY <1>1, <1>2, InForceIs DEF InPlace
<1>5. TimelineInv' /\ IndexInv'
  BY <1>1, <1>2, <1>3 DEF TimelineInv, IndexInv
<1>6. /\ protection' \in ProtectionState(Checked) /\ HasTripped(protection') = FALSE
      /\ \A c \in Checked : protection'.held[c] = 0
  BY <1>1, NewProtectionIs DEF HasTripped
<1>7. span' \in [Checked -> Nat] /\ \A c \in Checked : span'[c] = 0
  BY <1>1 DEF NoCount
<1>8. HoldInv'
  <2>1. case.clock.period \in Nat
    BY SupTyped
  <2> QED
    BY <1>1, <1>6, <1>7, <2>1 DEF HoldInv
<1>9. /\ startup' \in Startup /\ startup'.value.num <= startup'.value.den
      /\ Obeys(case, startup', InPlace, FALSE)
      /\ Ramps(case, startup', InPlace, now, FALSE, index', recounted', Continuous)
  <2>1. IsCommand(InForce(now), now)
    BY <1>2, <1>4, InPlaceIs
  <2> DEFINE i == index'
  <2>2. i \in {IndexAtOrAfter(case.clock, now), IndexAfter(case.clock, now)}
    BY <1>3
  <2> HIDE DEF i
  <2>3. LET s == Started(now)
        IN  /\ s \in Startup /\ s.value.num <= s.value.den
            /\ Obeys(case, s, InForce(now), FALSE)
            /\ Ramps(case, s, InForce(now), now, FALSE, i, CountsItsStart(now, i), Continuous)
    BY <2>1, <2>2, SupTyped, StartedIs
  <2> QED
    BY <1>1, <1>4, <2>3 DEF i
<1>10. RampInv'
  <2>1. Ramps(case, startup', InPlace, now, phase' = "done", index', recounted', Continuous)
    BY <1>1, <1>9 DEF Ramps, Timed
  <2> QED
    BY <1>1, <1>4, <1>6, <1>9, <2>1 DEF RampInv
<1>11. SupervisionTyped'
  <2>1. ~Continuous => startup'.steps <= EndStep(startup', case.clock.period)
    BY <1>9 DEF Obeys, Continuous
  <2>2. index' \in Int
    BY <1>3, SupTyped, Grid
  <2>3. sampled' \in BOOLEAN /\ recounted' \in BOOLEAN /\ ready' \in BOOLEAN
    BY <1>1, SupTyped DEF CountsItsStart
  <2> QED
    BY <1>1, <1>2, <1>6, <1>7, <1>9, <2>1, <2>2, <2>3 DEF SupervisionTyped, Continuous
<1> QED
  BY <1>5, <1>8, <1>10, <1>11 DEF SupInv

\* What an interrupt, or the evaluation of a continuous controller, makes of the
\* start-up.
Sensed == IF Continuous THEN AtTime(startup, now) ELSE Stepped(startup, case.clock.period)

\* A continuous start-up stands where the time since the connection puts it.
LEMMA TimedIs ==
    ASSUME SupInv, Continuous, NEW i, NEW again, NEW read
    PROVE  LET s == AtTime(startup, now)
           IN  /\ s \in Startup /\ s.value.num <= s.value.den
               /\ Obeys(case, s, InPlace, HasTripped(protection))
               /\ Ramps(case, s, InPlace, now, TRUE, i, again, read)
               /\ s.complete => startup.run
               /\ startup.run => (s.complete <=>
                                  (InPlace.known => now >= InPlace.ramp + InPlace.since))
<1> DEFINE m == InPlace
           off == HasTripped(protection)
           s == AtTime(startup, now)
<1>0. SupervisionTyped /\ TimelineInv /\ RampInv
  BY DEF SupInv
<1>1. now \in Nat /\ startup \in Startup
  BY SupTyped
<1>2. IsCommand(m, now)
  BY <1>0, InPlaceIs
<1>3. /\ startup.run = (m.on /\ ~off)
      /\ startup.run => startup.ramp = m.ramp
  BY <1>0 DEF RampInv, Obeys
<1>4. startup.run /\ m.known => startup.start = m.since
  BY <1>0 DEF RampInv, Ramps, Timed, Continuous
<1> HIDE DEF m, off, s
<1>5. /\ m.since \in Nat /\ m.ramp \in Nat /\ m.known \in BOOLEAN
      /\ m.known => m.since <= now
      /\ ~m.known => m.ramp = 0
  BY <1>2 DEF IsCommand
<1>6. startup.run => startup.start <= now \/ startup.ramp = 0
  BY <1>3, <1>4, <1>5
<1>7. /\ s \in Startup /\ s.run = startup.run /\ s.ramp = startup.ramp
      /\ s.start = startup.start
      /\ s.value.num <= s.value.den
      /\ startup.run =>
           /\ s.value = Progress(now - startup.start, startup.ramp)
           /\ s.complete <=> startup.ramp = 0 \/ now - startup.start >= startup.ramp
      /\ s.complete => startup.run
  BY <1>1, <1>6, AtTimeIs DEF s
<1>8. Obeys(case, s, m, off)
  BY <1>3, <1>7 DEF Obeys, Continuous
<1>9. Ramps(case, s, m, now, TRUE, i, again, read)
  BY <1>3, <1>4, <1>7 DEF Ramps, Timed, Continuous
<1>10. ASSUME startup.run
       PROVE  s.complete <=> (m.known => now >= m.ramp + m.since)
  <2>1. s.complete <=> startup.ramp = 0 \/ now - startup.start >= startup.ramp
    BY <1>7, <1>10
  <2>2. startup.ramp = m.ramp
    BY <1>3, <1>10
  <2>3. CASE m.known
    <3>1. startup.start = m.since /\ m.since <= now
      BY <1>4, <1>5, <1>10, <2>3
    <3>2. now - m.since >= m.ramp <=> now >= m.ramp + m.since
      BY <1>1, <1>5
    <3>3. m.ramp = 0 => now >= m.ramp + m.since
      BY <1>1, <1>5, <3>1
    <3> QED
      BY <2>1, <2>2, <2>3, <3>1, <3>2, <3>3
  <2>4. CASE ~m.known
    BY <1>5, <2>1, <2>2, <2>4
  <2> QED
    BY <2>3, <2>4
<1> QED
  BY <1>7, <1>8, <1>9, <1>10 DEF m, off, s

\* A sampled start-up: the interrupts that completed the ramp reach to its end.
LEMMA StepsIs ==
    ASSUME SupInv, ~Continuous, ClockDue(case.clock, now, index)
    PROVE  LET s == Stepped(startup, case.clock.period)
               a == IndexAtOrAfter(case.clock, InPlace.since)
           IN  /\ s \in Startup /\ s.value.num <= s.value.den
               /\ Obeys(case, s, InPlace, HasTripped(protection))
               /\ Ramps(case, s, InPlace, now, TRUE, index + 1, recounted, TRUE)
               /\ s.complete => startup.run
               /\ startup.run => ((InPlace.known =>
                                     now >= InPlace.ramp + ClockAt(case.clock, a))
                                  => s.complete)
               /\ startup.run /\ ~recounted /\ s.complete =>
                     (InPlace.known => now >= InPlace.ramp + ClockAt(case.clock, a))
<1> DEFINE m == InPlace
           p == case.clock.period
           off == HasTripped(protection)
           s == Stepped(startup, p)
           a == IndexAtOrAfter(case.clock, m.since)
           k == ServedBefore(case, m, index)
           e == EndStep(startup, p)
<1>0. SupervisionTyped /\ TimelineInv /\ RampInv /\ IndexInv
  BY DEF SupInv
<1>1. /\ now \in Nat /\ startup \in Startup /\ p \in Nat \ {0} /\ case \in Case
      /\ case.clock \in Clock /\ index \in Int /\ startup.value.num <= startup.value.den
      /\ sampled \in BOOLEAN /\ recounted \in BOOLEAN
  BY SupTyped
<1>2. IsCommand(m, now)
  BY <1>0, InPlaceIs
<1>3. /\ m.since \in Nat /\ m.ramp \in Nat /\ m.known \in BOOLEAN
      /\ m.known => m.since <= now
      /\ ~m.known => m.ramp = 0
  BY <1>2 DEF IsCommand
<1>4. Obeys(case, startup, m, off)
  BY <1>0 DEF RampInv
<1>5. startup.run => startup.ramp = m.ramp
  BY <1>4 DEF Obeys
<1>6. startup.run /\ m.known => Counted(case, startup, m, index, recounted, sampled)
  BY <1>0 DEF RampInv, Ramps, Continuous
<1>7. ~case.continuous
  BY DEF Continuous
<1> HIDE DEF m, off, a
<1>8. /\ s \in Startup /\ s.value.num <= s.value.den
      /\ s.run = startup.run /\ s.ramp = startup.ramp
      /\ Obeys(case, s, m, off)
      /\ startup.run /\ startup.steps >= e => s.complete
  BY <1>1, <1>4, <1>7, SteppedIs
<1>9. s.complete => startup.run
  BY <1>8 DEF Obeys
<1>10. a \in Int /\ (m.known => index >= a)
  <2>1. a <= IndexAtOrAfter(case.clock, now) \/ ~m.known
    BY <1>1, <1>3, GridMonotone DEF a
  <2>2. LET x == IndexAtOrAfter(case.clock, now)
            v == IndexAfter(case.clock, now)
        IN  x \in Int /\ v \in Int /\ (v = x \/ v = x + 1) /\ index \in {x, v}
    BY <1>0, <1>1, Grid DEF IndexInv
  <2>3. a \in Int
    BY <1>1, <1>3, Grid DEF a
  <2> QED
    BY <2>1, <2>2, <2>3
<1>11. k * p \in Nat /\ startup.steps \in Nat /\ e \in Nat /\ k \in Nat
       /\ (k * p >= startup.ramp <=> k >= e)
  <2>1. k \in Nat
    BY <1>1, <1>3, ServedIs
  <2> HIDE DEF k, p
  <2> QED
    BY <1>1, <2>1, EndStepReaches DEF Startup
<1>12. ASSUME m.known PROVE now = ClockAt(case.clock, a) + k * p /\ ClockAt(case.clock, a) \in Int
  <2>1. k = index - a
    BY <1>1, <1>3, <1>10, <1>12, ServedIs DEF a
  <2>2. now = case.clock.offset + index * p /\ case.clock.offset \in Nat
    BY <1>1 DEF ClockDue, ClockAt, Clock
  <2>3. ClockAt(case.clock, a) = case.clock.offset + a * p
    BY DEF ClockAt
  <2> HIDE DEF k, p
  <2>4. (index - a) * p = index * p - a * p /\ a * p \in Int /\ index * p \in Int
    BY <1>1, <1>10
  <2> QED
    BY <2>1, <2>2, <2>3, <2>4
<1>13. ASSUME startup.run, m.known
       PROVE  /\ Counted(case, s, m, index + 1, recounted, TRUE)
              /\ k >= e => s.complete
              /\ s.complete /\ ~recounted => k >= e
  BY <1>1, <1>3, <1>4, <1>6, <1>7, <1>10, <1>13, SteppedCounts DEF a
<1>14. Ramps(case, s, m, now, TRUE, index + 1, recounted, TRUE)
  <2> HIDE DEF s, k, e, p
  <2> QED
    BY <1>7, <1>8, <1>13 DEF Ramps
<1> HIDE DEF s, k, e, p
<1>15. ASSUME startup.run, m.known
       PROVE  k >= e <=> now >= m.ramp + ClockAt(case.clock, a)
  <2>1. k * p >= m.ramp <=> k >= e
    BY <1>5, <1>11, <1>15
  <2> QED
    BY <1>1, <1>3, <1>11, <1>12, <1>15, <2>1
<1>16. ASSUME startup.run, ~m.known PROVE s.complete
  <2>1. startup.ramp = 0
    BY <1>3, <1>5, <1>16
  <2>2. 0 * p >= startup.ramp <=> 0 >= e
    BY <1>1, <2>1, EndStepReaches DEF e
  <2>3. 0 * p = 0
    BY <1>1
  <2>4. startup.steps >= e
    BY <1>11, <2>1, <2>2, <2>3
  <2> QED
    BY <1>8, <1>16, <2>4
<1> QED
  BY <1>3, <1>8, <1>9, <1>13, <1>14, <1>15, <1>16 DEF m, off, a, s, p

\* The start-up an interrupt leaves is complete when the unit is in service, and
\* only then.
LEMMA SensedIs ==
    ASSUME SupInv, phase # "events", ClockDue(case.clock, now, index)
    PROVE  /\ Sensed \in Startup /\ Sensed.value.num <= Sensed.value.den
           /\ Obeys(case, Sensed, InPlace, HasTripped(protection))
           /\ Ramps(case, Sensed, InPlace, now, TRUE, index + 1, recounted, TRUE)
           /\ InService(now) /\ ~HasTripped(protection) => Sensed.complete
           /\ Sensed.complete /\ ~recounted => InService(now)
<1> DEFINE m == InPlace
           off == HasTripped(protection)
           s == Sensed
           armed == Armed(InPlace)
           a == IndexAtOrAfter(case.clock, InPlace.since)
<1>0. SupervisionTyped /\ TimelineInv /\ RampInv
  BY DEF SupInv
<1>1. InForce(now) = m
  BY <1>0, InForceIs
<1>2. InService(now) <=> m.on /\ (m.known => now >= armed)
  BY <1>1 DEF InService
<1>3. startup.run = (m.on /\ ~off) /\ startup.run \in BOOLEAN
  BY <1>0, SupTyped DEF RampInv, Obeys, Startup
<1>4. startup.run => m.on /\ ~off
  BY <1>3
<1>5. m.on /\ ~off => startup.run
  BY <1>3
<1>6. /\ s \in Startup /\ s.value.num <= s.value.den
      /\ Obeys(case, s, m, off)
      /\ Ramps(case, s, m, now, TRUE, index + 1, recounted, TRUE)
      /\ s.complete => startup.run
      /\ startup.run /\ (m.known => now >= armed) => s.complete
      /\ startup.run /\ s.complete /\ ~recounted => (m.known => now >= armed)
  <2>1. CASE Continuous
    <3>1. s = AtTime(startup, now) /\ armed = m.ramp + m.since
      BY <2>1 DEF Sensed, Armed
    <3> HIDE DEF m, s, off, armed
    <3> QED
      BY <2>1, <3>1, TimedIs DEF m, off
  <2>2. CASE ~Continuous
    <3>1. s = Stepped(startup, case.clock.period) /\ armed = m.ramp + ClockAt(case.clock, a)
      BY <2>2 DEF Sensed, Armed
    <3> HIDE DEF m, s, off, armed, a
    <3> QED
      BY <2>2, <3>1, StepsIs DEF m, off, a
  <2> QED
    BY <2>1, <2>2
<1> HIDE DEF m, off, s, armed
<1>7. InService(now) /\ ~off => s.complete
  BY <1>2, <1>5, <1>6
<1>8. s.complete /\ ~recounted => InService(now)
  BY <1>2, <1>4, <1>6
<1> QED
  BY <1>6, <1>7, <1>8 DEF m, off, s

\* No interrupt at this instant.
LEMMA PassKeeps ==
    ASSUME SupInv, Pass
    PROVE  SupInv'
<1>1. /\ phase = "sense" /\ ~ClockDue(case.clock, now, index) /\ phase' = "done"
      /\ startup' = IF Continuous THEN AtTime(startup, now) ELSE startup
      /\ UNCHANGED <<case, settings, now, applied, index, protection, ready, sampled, recounted,
                     span>>
  BY DEF Pass
<1>2. SupervisionTyped /\ TimelineInv /\ IndexInv /\ RampInv /\ HoldInv
  BY DEF SupInv
<1>3. TimelineInv' /\ HoldInv'
  BY <1>1, <1>2 DEF TimelineInv, HoldInv
<1>4. IndexInv'
  <2>1. LET x == IndexAtOrAfter(case.clock, now)
            v == IndexAfter(case.clock, now)
        IN  (~ClockDue(case.clock, now, x) => v = x) /\ index \in {x, v}
    BY <1>2, SupTyped, Grid DEF IndexInv
  <2>2. index = IndexAfter(case.clock, now)
    BY <1>1, <2>1
  <2> QED
    BY <1>1, <1>2, <2>2 DEF IndexInv
<1>5. InPlace' = InPlace
  BY <1>1 DEF InPlace
<1>6. /\ startup' \in Startup /\ startup'.value.num <= startup'.value.den
      /\ Obeys(case, startup', InPlace, HasTripped(protection))
      /\ Ramps(case, startup', InPlace, now, TRUE, index, recounted, sampled)
  <2>1. CASE Continuous
    <3>1. startup' = AtTime(startup, now)
      BY <1>1, <2>1
    <3> QED
      BY <2>1, <3>1, TimedIs
  <2>2. CASE ~Continuous
    <3>1. startup' = startup
      BY <1>1, <2>2
    <3>2. Ramps(case, startup, InPlace, now, TRUE, index, recounted, sampled)
      BY <1>2, <2>2 DEF RampInv, Ramps, Continuous
    <3> QED
      BY <1>2, <3>1, <3>2, SupTyped DEF RampInv
  <2> QED
    BY <2>1, <2>2
<1>7. RampInv'
  <2>1. (phase' = "done") = TRUE
    BY <1>1
  <2>2. Ramps(case, startup', InPlace, now, phase' = "done", index, recounted, sampled)
    BY <1>6, <2>1 DEF Ramps, Timed
  <2> QED
    BY <1>1, <1>5, <1>6, <2>2 DEF RampInv
<1>8. SupervisionTyped'
  <2>1. ~Continuous => startup'.steps <= EndStep(startup', case.clock.period)
    BY <1>6 DEF Obeys, Continuous
  <2> QED
    BY <1>1, <1>2, <1>6, <2>1 DEF SupervisionTyped, Continuous
<1> QED
  BY <1>3, <1>4, <1>7, <1>8 DEF SupInv

\* The sample an interrupt hands to the protection, and what comes of it.
Sample(met, full) ==
    [met |-> met, available |-> IF full THEN Checked ELSE Checked \ {"rms_current"},
     complete |-> Sensed.complete]
Verdict(met, full) ==
    CheckSampled(protection, Sample(met, full), settings, case.clock.period)

\* What an interrupt changes.
LEMMA InterruptIs ==
    ASSUME SupInv, NEW met \in SUBSET Checked, NEW full \in BOOLEAN, Interrupt(met, full)
    PROVE  /\ phase = "sense" /\ ClockDue(case.clock, now, index)
           /\ protection' = Verdict(met, full)
           /\ startup' = IF protection'.trip = protection.trip THEN Sensed
                         ELSE Command(Sensed, Continuous, FALSE, 0, now)
           /\ index' = index + 1 /\ phase' = "done" /\ sampled' = TRUE /\ ready' = full
           /\ span' = [c \in Checked |->
                  IF HasTripped(protection) \/ c \notin met \cap settings.enabled
                     \/ ~InService(now)
                  THEN 0 ELSE span[c] + 1]
           /\ UNCHANGED <<case, settings, now, applied, recounted>>
           /\ protection' \in ProtectionState(Checked)
           /\ HasTripped(protection) \/ ~Sensed.complete => protection' = protection
           /\ protection'.trip # protection.trip =>
                  HasTripped(protection') /\ ~HasTripped(protection) /\ Sensed.complete
           /\ ~HasTripped(protection') /\ Sensed.complete =>
                  \A c \in met \cap settings.enabled :
                      /\ protection'.held[c] = protection.held[c] + case.clock.period
                      /\ protection'.held[c] < settings.hold
<1>1. /\ phase = "sense" /\ ClockDue(case.clock, now, index)
      /\ protection' = Verdict(met, full)
      /\ met \subseteq Sample(met, full).available
      /\ startup' = IF Verdict(met, full).trip = protection.trip THEN Sensed
                    ELSE Command(Sensed, Continuous, FALSE, 0, now)
      /\ index' = index + 1 /\ phase' = "done" /\ sampled' = TRUE /\ ready' = full
      /\ span' = [c \in Checked |->
             IF HasTripped(protection) \/ c \notin met \cap settings.enabled
                \/ ~InService(now)
             THEN 0 ELSE span[c] + 1]
      /\ UNCHANGED <<case, settings, now, applied, recounted>>
  BY DEF Interrupt, Verdict, Sample, Sensed, Stepped
<1> DEFINE sample == Sample(met, full)
           p == case.clock.period
<1>2. sample.met = met /\ sample.complete = Sensed.complete /\ sample.available \subseteq Checked
  BY DEF Sample
<1>3. Blind(protection, sample) <=> HasTripped(protection) \/ ~Sensed.complete
  BY <1>2 DEF Blind
<1>4. protection \in ProtectionState(Checked) /\ settings \in Settings /\ p \in Nat \ {0}
      /\ Checked \subseteq Criteria
  BY SupTyped, CaseTyped
<1>5. sample.met \subseteq sample.available
  BY <1>1, <1>2
<1> HIDE DEF sample, p
<1>6. LET r == CheckSampled(protection, sample, settings, p)
      IN  /\ r \in ProtectionState(Checked)
          /\ Blind(protection, sample) => r = protection
          /\ r.trip # protection.trip => HasTripped(r) /\ ~Blind(protection, sample)
          /\ ~Blind(protection, sample) /\ ~HasTripped(r) =>
                 \A c \in sample.met \cap settings.enabled :
                     r.held[c] = protection.held[c] + p /\ r.held[c] < settings.hold
  BY <1>2, <1>4, <1>5, CheckSampledIs
<1>7. protection' = CheckSampled(protection, sample, settings, p)
  BY <1>1 DEF Verdict, sample, p
<1>8. /\ protection' \in ProtectionState(Checked)
      /\ Blind(protection, sample) => protection' = protection
      /\ protection'.trip # protection.trip => HasTripped(protection') /\ ~Blind(protection, sample)
      /\ ~Blind(protection, sample) /\ ~HasTripped(protection') =>
             \A c \in met \cap settings.enabled :
                 protection'.held[c] = protection.held[c] + p /\ protection'.held[c] < settings.hold
  BY <1>2, <1>6, <1>7
<1>9. ~HasTripped(protection') => ~HasTripped(protection)
  BY <1>8 DEF HasTripped, Blind
<1>10. /\ HasTripped(protection) \/ ~Sensed.complete => protection' = protection
       /\ protection'.trip # protection.trip =>
              HasTripped(protection') /\ ~HasTripped(protection) /\ Sensed.complete
       /\ ~HasTripped(protection') /\ Sensed.complete =>
              \A c \in met \cap settings.enabled :
                  /\ protection'.held[c] = protection.held[c] + p
                  /\ protection'.held[c] < settings.hold
  BY <1>3, <1>8, <1>9
<1> QED
  BY <1>1, <1>8, <1>10 DEF p

\* A criterion met in service has been held for one period more, and not for the
\* hold time.
LEMMA HeldIs ==
    ASSUME SupInv, NEW met \in SUBSET Checked, NEW full \in BOOLEAN, Interrupt(met, full),
           ~HasTripped(protection'), NEW c \in Checked
    PROVE  /\ span'[c] * case.clock.period <= protection'.held[c]
           /\ span'[c] > 0 => span'[c] * case.clock.period < settings.hold
<1> DEFINE p == case.clock.period
           n == span[c]
           h == protection.held[c]
<1>1. p \in Nat \ {0} /\ n \in Nat /\ h \in Nat /\ settings.hold \in Nat
  BY SupTyped DEF ProtectionState, Settings
<1>2. protection'.held[c] \in Nat
  BY InterruptIs DEF ProtectionState
<1>3. ~HasTripped(protection)
  BY InterruptIs
<1>4. n * p <= h
  BY <1>3 DEF SupInv, HoldInv
<1>5. span'[c] = IF HasTripped(protection) \/ c \notin met \cap settings.enabled
                    \/ ~InService(now)
                 THEN 0 ELSE n + 1
  BY InterruptIs
<1>6. CASE c \notin met \cap settings.enabled \/ ~InService(now)
  <2>1. span'[c] = 0
    BY <1>5, <1>6
  <2> QED
    BY <1>1, <1>2, <2>1
<1>7. CASE c \in met \cap settings.enabled /\ InService(now)
  <2>1. span'[c] = n + 1
    BY <1>3, <1>5, <1>7
  <2>2. phase # "events" /\ ClockDue(case.clock, now, index)
    BY InterruptIs
  <2>3. Sensed.complete
    BY <1>3, <1>7, <2>2, SensedIs
  <2>4. protection'.held[c] = h + p /\ protection'.held[c] < settings.hold
    BY <1>7, <2>3, InterruptIs
  <2> HIDE DEF n, h, p
  <2>5. (n + 1) * p = n * p + p /\ n * p \in Nat
    BY <1>1
  <2>6. span'[c] * p <= protection'.held[c]
    BY <1>1, <1>4, <2>1, <2>4, <2>5
  <2>7. span'[c] * p < settings.hold
    BY <1>1, <1>2, <1>4, <2>1, <2>4, <2>5
  <2> QED
    BY <2>6, <2>7 DEF p
<1> QED
  BY <1>6, <1>7

\* An interrupt advances the ramp, and trips the unit or counts the hold timers on.
LEMMA InterruptKeeps ==
    ASSUME SupInv, NEW met \in SUBSET Checked, NEW full \in BOOLEAN, Interrupt(met, full)
    PROVE  SupInv'
<1>1. /\ phase = "sense" /\ ClockDue(case.clock, now, index)
      /\ startup' = IF protection'.trip = protection.trip THEN Sensed
                    ELSE Command(Sensed, Continuous, FALSE, 0, now)
      /\ index' = index + 1 /\ phase' = "done" /\ sampled' = TRUE /\ ready' = full
      /\ UNCHANGED <<case, settings, now, applied, recounted>>
      /\ protection' \in ProtectionState(Checked)
      /\ protection'.trip # protection.trip => HasTripped(protection')
  BY InterruptIs
<1>2. SupervisionTyped /\ TimelineInv /\ IndexInv /\ RampInv /\ HoldInv
  BY DEF SupInv
<1>3. TimelineInv'
  BY <1>1, <1>2 DEF TimelineInv
<1>4. IndexInv'
  <2>1. LET x == IndexAtOrAfter(case.clock, now)
            v == IndexAfter(case.clock, now)
        IN  (ClockDue(case.clock, now, x) => v = x + 1) /\ ~ClockDue(case.clock, now, v)
            /\ index \in {x, v}
    BY <1>2, SupTyped, Grid DEF IndexInv
  <2>2. index + 1 = IndexAfter(case.clock, now)
    BY <1>1, <2>1
  <2> QED
    BY <1>1, <2>2 DEF IndexInv
<1>5. InPlace' = InPlace
  BY <1>1 DEF InPlace
<1>6. /\ Sensed \in Startup /\ Sensed.value.num <= Sensed.value.den
      /\ Obeys(case, Sensed, InPlace, HasTripped(protection))
      /\ Ramps(case, Sensed, InPlace, now, TRUE, index + 1, recounted, TRUE)
  BY <1>1, SensedIs
<1>7. /\ startup' \in Startup /\ startup'.value.num <= startup'.value.den
      /\ Obeys(case, startup', InPlace, HasTripped(protection'))
      /\ Ramps(case, startup', InPlace, now, TRUE, index + 1, recounted, TRUE)
  <2>1. CASE protection'.trip = protection.trip
    <3>1. HasTripped(protection') = HasTripped(protection) /\ startup' = Sensed
      BY <1>1, <2>1 DEF HasTripped
    <3> QED
      BY <1>6, <3>1
  <2>2. CASE protection'.trip # protection.trip
    <3>1. HasTripped(protection') = TRUE
      BY <1>1, <2>2 DEF HasTripped
    <3> DEFINE s == Sensed
               m == InPlace
               i == index + 1
    <3>2. startup' = Command(s, Continuous, FALSE, 0, now) /\ s \in Startup
      BY <1>1, <1>6, <2>2
    <3> HIDE DEF s, m, i
    <3>3. /\ startup' \in Startup /\ startup'.value.num <= startup'.value.den
          /\ Obeys(case, startup', m, TRUE)
          /\ Ramps(case, startup', m, now, TRUE, i, recounted, TRUE)
      BY <3>2, SupTyped, StoppedIs
    <3> QED
      BY <3>1, <3>3 DEF m, i
  <2> QED
    BY <2>1, <2>2
<1>8. RampInv'
  <2>1. (phase' = "done") = TRUE
    BY <1>1
  <2>2. Ramps(case, startup', InPlace, now, phase' = "done", index + 1, recounted, TRUE)
    BY <1>7, <2>1 DEF Ramps, Timed
  <2> QED
    BY <1>1, <1>5, <1>7, <2>2 DEF RampInv
<1>9. HoldInv'
  <2>1. ASSUME ~HasTripped(protection'), NEW c \in Checked
        PROVE  span'[c] * case.clock.period <= protection'.held[c]
    BY <2>1, HeldIs
  <2> QED
    BY <1>1, <2>1 DEF HoldInv
<1>10. SupervisionTyped'
  <2>1. ~Continuous => startup'.steps <= EndStep(startup', case.clock.period)
    BY <1>7 DEF Obeys, Continuous
  <2>2. index + 1 \in Int
    BY SupTyped
  <2>3. span' \in [Checked -> Nat]
    <3> DEFINE F(c) == IF HasTripped(protection) \/ c \notin met \cap settings.enabled
                          \/ ~InService(now)
                       THEN 0 ELSE span[c] + 1
    <3>1. \A c \in Checked : F(c) \in Nat
      BY SupTyped
    <3>2. span' = [c \in Checked |-> F(c)]
      BY InterruptIs
    <3> HIDE DEF F
    <3> QED
      BY <3>1, <3>2
  <2> QED
    BY <1>1, <1>2, <1>7, <2>1, <2>2, <2>3 DEF SupervisionTyped, Continuous
<1> QED
  BY <1>3, <1>4, <1>8, <1>9, <1>10 DEF SupInv

\* The events of time 0 are the first ones of the timeline.
LEMMA FirstEvents ==
    ASSUME case \in Cases
    PROVE  LET tl == case.timeline
               n == Cardinality({i \in DOMAIN tl : tl[i].t <= 0})
           IN  /\ n \in 0 .. Len(tl)
               /\ \A i \in 1 .. n : tl[i].t <= 0
               /\ \A i \in n + 1 .. Len(tl) : tl[i].t > 0
<1> DEFINE tl == case.timeline
           S == {i \in DOMAIN tl : tl[i].t <= 0}
           n == Cardinality(S)
<1>1. /\ DOMAIN tl = 1 .. Len(tl) /\ Len(tl) \in Nat
      /\ \A i \in 1 .. Len(tl) : tl[i].t \in Nat
      /\ \A i, j \in 1 .. Len(tl) : i < j => tl[i].t <= tl[j].t
  <2>1. tl \in Seq(Events)
    BY CaseTyped
  <2> QED
    BY <2>1, CaseTyped
<1> HIDE DEF tl
<1>2. \E k \in 0 .. Len(tl) : S = 1 .. k
  <2>1. CASE S = {}
    BY <1>1, <2>1
  <2>2. CASE S # {}
    <3>1. S \in SUBSET (1 .. Len(tl))
      BY <1>1
    <3> DEFINE l == Len(tl)
               T == S
    <3>2. PICK k \in T : \A j \in T : j <= k
      <4> HIDE DEF l, T
      <4>1. l \in Nat /\ T \in SUBSET (1 .. l) /\ T # {}
        BY <1>1, <2>2, <3>1 DEF l, T
      <4> QED
        BY <4>1, LastExists
    <3>3. k \in 1 .. Len(tl) /\ tl[k].t <= 0
      BY <1>1, <3>2
    <3>4. \A i \in 1 .. k : i \in 1 .. Len(tl) /\ tl[i].t <= 0
      <4> SUFFICES ASSUME NEW i \in 1 .. k PROVE i \in 1 .. Len(tl) /\ tl[i].t <= 0
        OBVIOUS
      <4>1. i \in 1 .. Len(tl) /\ k \in 1 .. Len(tl)
        BY <1>1, <3>3
      <4>2. i < k \/ i = k
        BY <4>1
      <4> QED
        BY <1>1, <3>3, <4>1, <4>2
    <3>5. S = 1 .. k
      <4>1. \A j \in S : j \in 1 .. Len(tl) /\ j <= k
        BY <1>1, <3>2
      <4>2. \A j \in S : j \in 1 .. k
        BY <3>3, <4>1
      <4>3. \A i \in 1 .. k : i \in S
        BY <1>1, <3>4
      <4> HIDE DEF S
      <4> QED
        BY <4>2, <4>3
    <3> QED
      BY <1>1, <3>3, <3>5
  <2> QED
    BY <2>1, <2>2
<1>3. PICK k \in 0 .. Len(tl) : S = 1 .. k
  BY <1>2
<1>4. n = k
  <2>1. 1 \in Int /\ k \in Int /\ k \in Nat
    BY <1>1, <1>3
  <2>2. Cardinality(1 .. k) = IF 1 > k THEN 0 ELSE k - 1 + 1
    BY <2>1, FS_Interval
  <2>3. Cardinality(1 .. k) = k
    BY <2>1, <2>2
  <2> QED
    BY <1>3, <2>3
<1>5. \A i \in 1 .. k : tl[i].t <= 0
  BY <1>3
<1>6. \A i \in k + 1 .. Len(tl) : tl[i].t > 0
  <2> SUFFICES ASSUME NEW i \in k + 1 .. Len(tl) PROVE tl[i].t > 0
    OBVIOUS
  <2>1. i \in 1 .. Len(tl) /\ i \notin 1 .. k
    BY <1>1
  <2>2. i \notin S /\ i \in DOMAIN tl
    BY <1>1, <1>3, <2>1
  <2> QED
    BY <1>1, <2>1, <2>2
<1> QED
  BY <1>4, <1>5, <1>6 DEF tl

\* The invariant holds initially.
LEMMA SupInvInit ==
    ASSUME SupervisionInit
    PROVE  SupInv
<1> DEFINE tl == case.timeline
           m == InForce(0)
<1>1. /\ case \in Cases /\ settings = Configured /\ now = 0 /\ phase = "protect"
      /\ applied = Cardinality({i \in DOMAIN tl : tl[i].t <= 0})
      /\ index = StartIndex(case.clock, 0, FALSE)
      /\ startup = Started(0)
      /\ protection = NewProtection(Checked)
      /\ ready = FALSE /\ sampled = Continuous
      /\ recounted = CountsItsStart(0, index)
      /\ span = NoCount
  BY DEF SupervisionInit
<1>2. /\ case \in Case /\ Continuous \in BOOLEAN /\ case.clock \in Clock
      /\ case.clock.period \in Nat \ {0}
      /\ tl \in Seq(Events)
  BY <1>1, CaseTyped
<1>3. Configured \in Settings /\ Horizon \in Nat
  BY SupervisionAssumption
<1>4. /\ applied \in 0 .. Len(tl)
      /\ \A i \in 1 .. applied : tl[i].t <= 0
      /\ \A i \in applied + 1 .. Len(tl) : tl[i].t > 0
  BY <1>1, FirstEvents
<1>5. TimelineInv
  <2>1. \A i \in applied + 1 .. Len(tl) : tl[i].t >= 0
    <3>1. \A i \in applied + 1 .. Len(tl) : i \in 1 .. Len(tl)
      BY <1>2, <1>4
    <3>2. \A i \in 1 .. Len(tl) : tl[i].t \in Nat
      BY <1>1, CaseTyped
    <3> QED
      BY <3>1, <3>2
  <2> QED
    BY <1>1, <1>4, <2>1 DEF TimelineInv
<1>6. index = IndexAtOrAfter(case.clock, now) /\ index \in Int
  <2>1. IndexAtOrAfter(case.clock, 0) \in Int
    BY <1>2, Grid
  <2> QED
    BY <1>1, <2>1 DEF StartIndex
<1>7. IndexInv
  BY <1>1, <1>6 DEF IndexInv
<1>8. IsCommand(InPlace, 0)
  <2>1. /\ InPlace.on \in BOOLEAN /\ InPlace.known \in BOOLEAN
        /\ InPlace.since \in Nat /\ InPlace.ramp \in Nat
        /\ InPlace.known => \E i \in 1 .. applied : InPlace.since = tl[i].t
        /\ ~InPlace.known => InPlace.ramp = 0
    BY <1>2, <1>4, CommandAfterIs DEF InPlace
  <2> QED
    BY <1>4, <2>1 DEF IsCommand
<1>9. InForce(0) = InPlace
  <2>1. /\ applied \in Nat /\ Len(tl) \in Nat /\ applied <= Len(tl)
        /\ DOMAIN tl = 1 .. Len(tl)
        /\ \A i \in 1 .. Len(tl) : tl[i].t \in Nat
    BY <1>1, <1>2, <1>4, CaseTyped
  <2> HIDE DEF tl
  <2>2. \A i \in 1 .. Len(tl) : tl[i].t <= 0 <=> i \in 1 .. applied
    <3> SUFFICES ASSUME NEW i \in 1 .. Len(tl) PROVE tl[i].t <= 0 <=> i \in 1 .. applied
      OBVIOUS
    <3>1. i \in 1 .. applied \/ i \in applied + 1 .. Len(tl)
      BY <2>1
    <3>2. i \in applied + 1 .. Len(tl) => i \notin 1 .. applied
      BY <2>1
    <3> QED
      BY <1>4, <2>1, <3>1, <3>2
  <2>3. ConnectionsUntil(tl, 0) = ConnectionsOf(tl, applied)
    <3>1. 1 .. applied \subseteq 1 .. Len(tl)
      BY <2>1
    <3> QED
      BY <2>1, <2>2, <3>1 DEF ConnectionsUntil, ConnectionsOf
  <2> QED
    BY <2>3 DEF InForce, CommandAt, InPlace, tl
<1>10. /\ protection \in ProtectionState(Checked) /\ HasTripped(protection) = FALSE
       /\ \A c \in Checked : protection.held[c] = 0
  BY <1>1, NewProtectionIs DEF HasTripped
<1>11. span \in [Checked -> Nat] /\ \A c \in Checked : span[c] = 0
  BY <1>1 DEF NoCount
<1>12. HoldInv
  BY <1>2, <1>10, <1>11 DEF HoldInv
<1>13. /\ startup \in Startup /\ startup.value.num <= startup.value.den
       /\ Obeys(case, startup, InPlace, FALSE)
       /\ Ramps(case, startup, InPlace, 0, FALSE, index, recounted, Continuous)
  <2>1. index \in {IndexAtOrAfter(case.clock, 0), IndexAfter(case.clock, 0)}
    BY <1>1, <1>6
  <2>2. IsCommand(InForce(0), 0)
    BY <1>8, <1>9
  <2>3. 0 \in Nat
    OBVIOUS
  <2>4. LET s == Started(0)
        IN  /\ s \in Startup /\ s.value.num <= s.value.den
            /\ Obeys(case, s, InForce(0), FALSE)
            /\ Ramps(case, s, InForce(0), 0, FALSE, index, CountsItsStart(0, index), Continuous)
    BY <1>2, <2>1, <2>2, <2>3, StartedIs
  <2> QED
    BY <1>1, <1>9, <2>4
<1>14. RampInv
  <2>1. Ramps(case, startup, InPlace, now, phase = "done", index, recounted, sampled)
    BY <1>1, <1>13 DEF Ramps, Timed
  <2> QED
    BY <1>10, <1>13, <2>1 DEF RampInv
<1>15. SupervisionTyped
  <2>1. ~Continuous => startup.steps <= EndStep(startup, case.clock.period)
    BY <1>13 DEF Obeys, Continuous
  <2>2. sampled \in BOOLEAN /\ recounted \in BOOLEAN /\ ready \in BOOLEAN
    BY <1>1, <1>2 DEF CountsItsStart
  <2>3. now \in 0 .. Horizon
    BY <1>1, <1>3
  <2> QED
    BY <1>1, <1>3, <1>4, <1>6, <1>10, <1>11, <1>13, <2>1, <2>2, <2>3 DEF SupervisionTyped
<1> QED
  BY <1>5, <1>7, <1>12, <1>14, <1>15 DEF SupInv

\* A step preserves it, and so does stuttering.
LEMMA SupInvStep ==
    ASSUME SupInv, [SupervisionNext]_supervisionVars
    PROVE  SupInv'
<1>1. CASE UNCHANGED supervisionVars
  <2>1. UNCHANGED <<case, settings, now, applied, phase, index, startup, protection, ready,
                    sampled, recounted, span>>
    BY <1>1 DEF supervisionVars
  <2>2. InPlace' = InPlace
    BY <2>1 DEF InPlace
  <2>3. TimelineInv' /\ IndexInv' /\ HoldInv'
    BY <2>1 DEF SupInv, TimelineInv, IndexInv, HoldInv
  <2>4. RampInv'
    BY <2>1, <2>2 DEF SupInv, RampInv, Continuous
  <2>5. SupervisionTyped'
    BY <2>1 DEF SupInv, SupervisionTyped, Continuous
  <2> QED
    BY <2>3, <2>4, <2>5 DEF SupInv
<1>2. CASE ApplyEvent
  BY <1>2, ApplyEventKeeps
<1>3. CASE EventsApplied
  BY <1>3, EventsAppliedKeeps
<1>4. ASSUME NEW over \in BOOLEAN, ProtectUnit(over) PROVE SupInv'
  BY <1>4, ProtectKeeps
<1>5. ASSUME NEW met \in SUBSET Checked, NEW full \in {ready, TRUE}, Interrupt(met, full)
      PROVE  SupInv'
  <2>1. full \in BOOLEAN
    BY SupTyped
  <2> QED
    BY <1>5, <2>1, InterruptKeeps
<1>6. CASE Pass
  BY <1>6, PassKeeps
<1>7. CASE Tick
  BY <1>7, TickKeeps
<1>8. CASE ContinueRow
  BY <1>8, ContinueRowKeeps
<1>9. ASSUME NEW continued \in BOOLEAN, Rerun(continued) PROVE SupInv'
  BY <1>9, RerunKeeps
<1> QED
  BY <1>1, <1>2, <1>3, <1>4, <1>5, <1>6, <1>7, <1>8, <1>9 DEF SupervisionNext

\* The inductive invariant of a unit under supervision.
THEOREM SupervisionIsInductive == SupervisionSpec => []SupInv
<1>1. SupervisionInit => SupInv
  BY SupInvInit
<1>2. SupInv /\ [SupervisionNext]_supervisionVars => SupInv'
  BY SupInvStep
<1> QED
  BY <1>1, <1>2, PTL DEF SupervisionSpec

----------------------------------------------------------------------------
(***************************************************************************)
(* The properties.                                                         *)
(***************************************************************************)
\* The ramp stands where the timeline puts it.
LEMMA RampIsAsCommanded ==
    ASSUME SupInv
    PROVE  RampFollowsTimeline
<1> SUFFICES ASSUME phase = "done", ~recounted PROVE RampAsCommanded
  BY DEF RampFollowsTimeline
<1> DEFINE m == InPlace
<1>1. SupervisionTyped /\ TimelineInv /\ RampInv
  BY DEF SupInv
<1>2. InForce(now) = m
  BY <1>1, InForceIs
<1>3. startup.run = (m.on /\ ~HasTripped(protection))
      /\ (startup.run => startup.ramp = m.ramp)
  BY <1>1 DEF RampInv, Obeys
<1>4. startup.run /\ m.known =>
          IF Continuous THEN Timed(startup, m, now, TRUE)
          ELSE Counted(case, startup, m, index, recounted, sampled)
  BY <1>1 DEF RampInv, Ramps, Continuous
<1> HIDE DEF m
<1>5. Served(m) = ServedBefore(case, m, index)
  BY DEF Served, ServedBefore
<1>6. ASSUME startup.run, m.known, Continuous PROVE MeasuresTime(m)
  BY <1>4, <1>6 DEF Timed, MeasuresTime
<1>7. ASSUME startup.run, m.known, ~Continuous PROVE CountsInterrupts(m)
  BY <1>4, <1>5, <1>7 DEF Counted, CountsInterrupts
<1> QED
  BY <1>2, <1>3, <1>6, <1>7 DEF RampAsCommanded

\* Wherever on the timeline a run starts, its ramp stands where the interrupts,
\* or the time, since the connection put it.
THEOREM RampIsOfTimeline == SupervisionSpec => []RampFollowsTimeline
BY SupervisionIsInductive, RampIsAsCommanded, PTL

\* A sampled criterion trips the unit at an interrupt, once its ramp is complete.
LEMMA TripsInService ==
    ASSUME SupInv, SupervisionNext, Trips, ~recounted
    PROVE  InService(now)
<1>1. protection'.trip # protection.trip /\ protection'.trip \in Criteria
  BY DEF Trips
<1>2. \A c \in Criteria : c # "overcurrent" /\ c # "restored" /\ c # "none"
  BY DEF Criteria, Order
<1>3. ~ApplyEvent /\ ~EventsApplied /\ ~Pass /\ ~Tick
  BY <1>1 DEF ApplyEvent, EventsApplied, Pass, Tick
<1>4. ASSUME NEW over \in BOOLEAN, ProtectUnit(over) PROVE FALSE
  <2>1. protection' = protection \/ protection'.trip = "overcurrent"
    BY <1>4, SupTyped, CheckFastIs DEF ProtectUnit
  <2> QED
    BY <1>1, <1>2, <2>1
<1>5. ~ContinueRow
  <2>1. ContinueRow => protection' = LoadedProtection
    BY DEF ContinueRow
  <2>2. LoadedProtection.trip \in {"restored", "none"}
    BY DEF LoadedProtection, NewProtection
  <2> QED
    BY <1>1, <1>2, <2>1, <2>2
<1>6. ASSUME NEW continued \in BOOLEAN, Rerun(continued) PROVE FALSE
  <2>1. protection'.trip = "none"
    BY <1>6 DEF Rerun, NewProtection
  <2> QED
    BY <1>1, <1>2, <2>1
<1>7. ASSUME NEW met \in SUBSET Checked, NEW full \in {ready, TRUE}, Interrupt(met, full)
      PROVE  InService(now)
  <2>1. full \in BOOLEAN
    BY SupTyped
  <2>2. phase # "events" /\ ClockDue(case.clock, now, index) /\ Sensed.complete
    BY <1>1, <1>7, <2>1, InterruptIs
  <2> QED
    BY <2>2, SensedIs
<1> QED
  BY <1>3, <1>4, <1>5, <1>6, <1>7 DEF SupervisionNext

\* RampGovernsTrips: no sampled criterion trips before the ramp of the
\* connection in force is over, after any events and restarts.
THEOREM TripsAwaitTheRamp == SupervisionSpec => RampGovernsTrips
<1>1. SupInv /\ [SupervisionNext]_supervisionVars /\ RampFollowsTimeline' =>
          [RampFollowsTimeline' /\ (Trips /\ ~recounted => InService(now))]_supervisionVars
  BY TripsInService
<1> QED
  BY <1>1, SupervisionIsInductive, RampIsOfTimeline, PTL DEF SupervisionSpec, RampGovernsTrips

\* HoldTrips: a criterion that is met for the hold time by a unit in service has
\* tripped it.
THEOREM HeldCriteriaTrip == SupervisionSpec => HoldTrips
<1>1. SupInv /\ [SupervisionNext]_supervisionVars =>
          [index' = index + 1 /\ phase = "sense" /\ ~HasTripped(protection') =>
              \A c \in Checked : span'[c] > 0 =>
                  span'[c] * case.clock.period < settings.hold]_supervisionVars
  <2> SUFFICES ASSUME SupInv, SupervisionNext, index' = index + 1, phase = "sense",
                      ~HasTripped(protection'), NEW c \in Checked, span'[c] > 0
               PROVE  span'[c] * case.clock.period < settings.hold
    OBVIOUS
  <2>1. \E met \in SUBSET Checked, full \in {ready, TRUE} : Interrupt(met, full)
    <3>1. index + 1 # index
      BY SupTyped
    <3> QED
      BY <3>1 DEF SupervisionNext, ApplyEvent, EventsApplied, ProtectUnit, Pass, Tick,
                  ContinueRow, Rerun
  <2>2. PICK met \in SUBSET Checked, full \in {ready, TRUE} : Interrupt(met, full)
    BY <2>1
  <2>3. full \in BOOLEAN
    BY SupTyped
  <2> QED
    BY <2>2, <2>3, HeldIs
<1> QED
  BY <1>1, SupervisionIsInductive, PTL DEF SupervisionSpec, HoldTrips

============================================================================
