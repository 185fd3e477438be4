----------------------- MODULE GeneratedProgramProofs -----------------------
(***************************************************************************)
(* The exported program follows its plant, samples it as it is, and serves *)
(* its clocks, events and rows as the simulation does, for any units, black*)
(* boxes, clocks, events and output grid, any order of the turns and any   *)
(* trips.                                                                  *)
(***************************************************************************)
EXTENDS GeneratedProgram, SharedTheorems

----------------------------------------------------------------------------
(***************************************************************************)
(* The inductive invariant.                                                *)
(***************************************************************************)
Modes == [Units -> BOOLEAN \X BOOLEAN]
Touches == [Owners -> Int]
PlantValue == [applied : Nat, tripped : SUBSET Units, mode : Modes, touched : Touches]
Window == [anchor : PlantValue, closed : PlantValue, upto : Int]
Plant == [touched : Touches, mode : Modes, obs : PlantValue,
          windows : [Windowed -> Window]]
Word == [on : BOOLEAN, stamp : Int]
Registered == [active : Word, shadow : Word, completed : Word]

\* The types that TypeOK does not mention.
RestOK ==
    /\ order \in Orders /\ stop \in BOOLEAN
    /\ words \in [Sampled -> Registered] /\ plant \in Plant
    /\ sampled \in [Owners -> [at : Int, saw : PlantValue]] /\ arrival \in PlantValue

Phases == {"protect", "sense", "actuate"}
Instant == {"actions"} \cup Phases

\* The owners that have had their turn in the present phase.
Had(o) == \E i \in 1 .. (turn - 1) : order[i] = o

TurnsInOrder ==
    /\ pc = "protect" => turn <= Cardinality(Units)
    /\ pc \notin Phases => turn = 1

\* Nothing of the run has happened.
Fresh == pc = "boundary" /\ t = Start /\ arrival = Present /\ ~flags.trip

\* A clock may be due at the present instant, its owner has not served it yet.
ClockOpen(o) ==
    \/ Fresh
    \/ pc \in {"actions", "protect"}
    \/ pc = "sense" /\ (o \in Continuous => ~Had(o))
    \/ pc = "actuate" /\ o \notin Continuous /\ ~Had(o)
LoadOpen(u) ==
    \/ Fresh
    \/ pc \in {"actions", "protect", "sense"}
    \/ pc = "actuate" /\ ~Had(u)

ClocksAhead ==
    pc # "done" => \A o \in Owners : /\ t <= NextTime(o)
                                     /\ t = NextTime(o) => ClockOpen(o)
LoadsAhead ==
    pc # "done" => \A u \in Sampled : /\ t <= LoadTime(u)
                                      /\ t = LoadTime(u) => LoadOpen(u)
RowsAhead ==
    /\ pc # "done" => t <= OutputTime /\ (t = OutputTime => Fresh \/ pc # "boundary")
    /\ pc = "boundary" => t < End

EventsAhead ==
    /\ pc # "done" /\ action <= Len(Events) =>
           /\ t <= Events[action].t
           /\ t = Events[action].t => pc = "actions"
    /\ pc = "actions" =>
           /\ action <= Len(Events) /\ Events[action].t = t
           /\ flags.circuit

\* The black boxes whose state is computed are those whose clock is due and
\* whose turn to sense has passed.
WaitingInv ==
    /\ pc \notin {"sense", "actuate", "done"} => waiting = {}
    /\ pc # "done" => \A o \in waiting : NextTime(o) = t
    /\ \A o \in BlackBoxes :
           /\ pc = "sense" /\ Had(o) /\ NextTime(o) = t => o \in waiting
           /\ pc = "actuate" /\ NextTime(o) = t => o \in waiting

\* An instant that is no circuit instant has no event of the circuits left.
CircuitInv == pc \in Instant /\ ~flags.circuit => t \notin CircuitTimes

\* What a unit may still owe.
UnitsInv ==
    \A u \in Units :
        /\ units[u].linkTripped \/ units[u].tripDue => Tripped(units[u])
        /\ units[u].trackDue => u \in Continuous
        /\ units[u].trackDue /\ pc # "done" =>
               flags.circuit /\ (\/ pc \in {"actions", "protect"}
                                 \/ pc = "sense" /\ ~Had(u))

\* The stores are those of the present plant where they are read.
StoresInv ==
    pc = "sense" \/ (pc = "protect" /\ ~flags.trip) => plant.obs = Present

\* Only a circuit instant or a trip leaves something to follow.
FollowInv ==
    \/ pc \in {"boundary", "log"}
    \/ pc \in Phases /\ ~flags.circuit /\ ~flags.trip
    => /\ plant.mode = Flags(units)
       /\ \A w \in Windowed : plant.windows[w].anchor = Present

\* The windows are closed up to the present at a circuit instant.
CloseInv ==
    /\ WindowsCloseFirst
    /\ \A w \in Windowed : /\ plant.windows[w].upto <= t
                           /\ pc \in Instant /\ flags.circuit => plant.windows[w].upto = t

\* The last service of every clock and load is past; it is before the present
\* instant while its file events are applied.
LastServed ==
    /\ \A o \in Owners : /\ ClockAt(Clocks[o], clock[o] - 1) <= t
                         /\ pc = "actions" => ClockAt(Clocks[o], clock[o] - 1) < t
    /\ \A u \in Sampled : /\ ClockAt(Loads[u], load[u] - 1) <= t
                          /\ pc = "actions" => ClockAt(Loads[u], load[u] - 1) < t

Timely == ClocksAhead /\ LoadsAhead /\ RowsAhead /\ EventsAhead /\ WaitingInv /\ LastServed
Kept == CircuitInv /\ UnitsInv /\ StoresInv /\ FollowInv /\ CloseInv
IndInv == TypeOK /\ RestOK /\ TurnsInOrder /\ Timely /\ Kept

----------------------------------------------------------------------------
(***************************************************************************)
(* The constants, the events and the orders of turns.                      *)
(***************************************************************************)
\* The constants, without the sequence of events and the orders.
LEMMA Constants ==
    /\ Start \in Nat /\ End \in Nat /\ Start < End
    /\ OutputPeriod \in Nat /\ OutputPeriod > 0 /\ StopChoices \subseteq BOOLEAN
    /\ Owners = Units \cup BlackBoxes /\ Units \cap BlackBoxes = {}
    /\ Continuous \subseteq Units /\ Windowed \subseteq Units
    /\ Sampled = Units \ Continuous
    /\ \A o \in Owners : Clocks[o] \in Clock
    /\ \A u \in Sampled : Loads[u] \in Clock /\ Computation[u] \in Nat
    /\ \A o \in Owners : Clocks[o].period \in Nat /\ Clocks[o].period > 0
    /\ \A u \in Sampled : Loads[u].period \in Nat /\ Loads[u].period > 0
BY ProgramAssumption DEF Owners, Sampled, Clock

\* The file events are after the start and in order.
LEMMA EventsOrdered ==
    /\ Len(Events) \in Nat
    /\ \A i \in 1..Len(Events) :
           Events[i] \in Event /\ Events[i].t \in Nat /\ Start < Events[i].t
    /\ \A i, j \in 1..Len(Events) : i < j => Events[i].t <= Events[j].t
<1>1. Len(Events) \in Nat /\ \A i \in 1..Len(Events) : Events[i] \in Event
  BY ProgramAssumption
<1>2. \A e \in Event : e.t \in Nat
  BY DEF Event
<1> QED
  BY <1>1, <1>2, ProgramAssumption

\* In every order the units come first, and everyone has a turn.
LEMMA OrderFacts ==
    ASSUME order \in Orders
    PROVE  /\ Len(order) \in Nat /\ Cardinality(Units) \in Nat
           /\ 1 <= Cardinality(Units) /\ Cardinality(Units) <= Len(order)
           /\ \A i \in 1..Len(order) : order[i] \in Owners
           /\ \A i \in 1..Cardinality(Units) : order[i] \in Units
           /\ \A o \in Owners : \E i \in 1..Len(order) : order[i] = o
           /\ \A u \in Units : \E i \in 1..Cardinality(Units) : order[i] = u
<1>1. /\ order \in Seq(Owners) /\ Len(order) = Cardinality(Owners)
      /\ Units = {order[i] : i \in 1 .. Cardinality(Units)}
      /\ Owners = {order[i] : i \in 1 .. Len(order)}
  BY ProgramAssumption
<1>2. IsFiniteSet(Owners) /\ IsFiniteSet(Units) /\ Units \subseteq Owners
  BY ProgramAssumption, FS_Union DEF Owners
<1>3. Cardinality(Units) <= Cardinality(Owners) /\ Cardinality(Units) \in Nat
  BY <1>2, FS_Subset, FS_CardinalityType
<1>4. Cardinality(Units) # 0
  BY <1>2, ProgramAssumption, FS_EmptySet
<1>5. /\ Len(order) \in Nat
      /\ \A i \in 1..Len(order) : order[i] \in Owners
      /\ \A i \in 1..Cardinality(Units) : order[i] \in Units
      /\ \A o \in Owners : \E i \in 1..Len(order) : order[i] = o
      /\ \A u \in Units : \E i \in 1..Cardinality(Units) : order[i] = u
  <2> DEFINE n == Cardinality(Units)
  <2>0. order \in Seq(Owners)
    BY <1>1
  <2>1. Len(order) \in Nat
    BY <2>0
  <2> HIDE DEF n
  <2>2. /\ \A i \in 1..Len(order) : order[i] \in Owners
        /\ \A o \in Owners : \E i \in 1..Len(order) : order[i] = o
    BY <1>1, Zenon
  <2>3. /\ \A i \in 1..n : order[i] \in Units
        /\ \A u \in Units : \E i \in 1..n : order[i] = u
    BY <1>1, Zenon DEF n
  <2> QED
    BY <2>1, <2>2, <2>3 DEF n
<1>6. Len(order) = Cardinality(Owners)
  BY <1>1
<1>7. 1 <= Cardinality(Units) /\ Cardinality(Units) <= Len(order)
  <2> DEFINE n == Cardinality(Units)
             m == Cardinality(Owners)
  <2>1. n \in Nat /\ n # 0 /\ n <= m
    BY <1>3, <1>4
  <2> HIDE DEF n, m
  <2>2. 1 <= n
    BY <2>1
  <2> QED
    BY <2>1, <2>2, <1>6 DEF n, m
<1> QED
  BY <1>3, <1>5, <1>7

----------------------------------------------------------------------------
(***************************************************************************)
(* The plant.                                                              *)
(***************************************************************************)
\* Two plants have the same value where their circuits, outputs and tripped
\* units are the same.
LEMMA ValueSame ==
    ASSUME NEW p, NEW q, NEW us, NEW vs, NEW n,
           p.mode = q.mode, p.touched = q.touched,
           \A u \in Units : Tripped(us[u]) /\ us[u].linkTripped
                            <=> Tripped(vs[u]) /\ vs[u].linkTripped
    PROVE  Value(p, us, n) = Value(q, vs, n)
BY DEF Value

LEMMA ValueType ==
    ASSUME NEW p, p.mode \in Modes, p.touched \in Touches, NEW us, NEW n \in Nat, n >= 1
    PROVE  Value(p, us, n) \in PlantValue
BY DEF Value, PlantValue

LEMMA FlagsType ==
    ASSUME NEW us \in [Units -> Unit]
    PROVE  Flags(us) \in Modes
BY DEF Flags, Modes, Unit

\* The commands of the circuits depend on the branches and the links only.
LEMMA FlagsSame ==
    ASSUME NEW us, NEW vs,
           \A u \in Units : us[u].branch = vs[u].branch
                            /\ us[u].linkTripped = vs[u].linkTripped
    PROVE  Flags(us) = Flags(vs)
BY DEF Flags

LEMMA SyncFacts ==
    ASSUME NEW p \in Plant, NEW us, NEW n \in Nat, n >= 1
    PROVE  /\ Sync(p, us, n) \in Plant
           /\ Sync(p, us, n).obs = Value(p, us, n)
           /\ Sync(p, us, n).mode = p.mode /\ Sync(p, us, n).touched = p.touched
           /\ Sync(p, us, n).windows = p.windows
<1>1. Value(p, us, n) \in PlantValue
  BY ValueType DEF Plant
<1> QED
  BY <1>1 DEF Sync, Plant

LEMMA ReconcileFacts ==
    ASSUME NEW p \in Plant, NEW us \in [Units -> Unit], NEW n \in Nat, n >= 1
    PROVE  /\ Reconcile(p, us, n) \in Plant
           /\ Reconcile(p, us, n).mode = Flags(us)
           /\ Reconcile(p, us, n).touched = p.touched
           /\ Reconcile(p, us, n).windows = p.windows
<1> DEFINE q == [p EXCEPT !.mode = Flags(us)]
<1>1. /\ q \in Plant /\ q.mode = Flags(us) /\ q.touched = p.touched
      /\ q.windows = p.windows
  BY FlagsType DEF Plant
<1> HIDE DEF q
<1>2. /\ Sync(q, us, n) \in Plant /\ Sync(q, us, n).mode = q.mode
      /\ Sync(q, us, n).touched = q.touched /\ Sync(q, us, n).windows = q.windows
  BY <1>1, SyncFacts
<1>3. Reconcile(p, us, n) = IF p.mode = Flags(us) THEN p ELSE Sync(q, us, n)
  BY DEF Reconcile, q
<1> QED
  BY <1>1, <1>2, <1>3

LEMMA AccumulateFacts ==
    ASSUME NEW p \in Plant, NEW those, NEW at \in Int
    PROVE  /\ Accumulate(p, those, at) \in Plant
           /\ Accumulate(p, those, at).obs = p.obs
           /\ Accumulate(p, those, at).mode = p.mode
           /\ Accumulate(p, those, at).touched = p.touched
           /\ \A w \in Windowed :
                  Accumulate(p, those, at).windows[w] =
                      IF w \in those /\ at > p.windows[w].upto
                      THEN [anchor |-> p.obs, closed |-> p.obs, upto |-> at]
                      ELSE p.windows[w]
<1> DEFINE ws == [w \in Windowed |->
                     IF w \in those /\ at > p.windows[w].upto
                     THEN [anchor |-> p.obs, closed |-> p.obs, upto |-> at]
                     ELSE p.windows[w]]
<1>1. ws \in [Windowed -> Window]
  BY DEF Plant, Window
<1>2. Accumulate(p, those, at) = [p EXCEPT !.windows = ws]
  BY DEF Accumulate
<1>3. \A w \in Windowed : ws[w] = IF w \in those /\ at > p.windows[w].upto
                      THEN [anchor |-> p.obs, closed |-> p.obs, upto |-> at]
                      ELSE p.windows[w]
  OBVIOUS
<1> HIDE DEF ws
<1> QED
  BY <1>1, <1>2, <1>3 DEF Plant

LEMMA ReseedFacts ==
    ASSUME NEW p \in Plant, NEW us, NEW n \in Nat, n >= 1
    PROVE  /\ Reseed(p, us, n) \in Plant
           /\ Reseed(p, us, n).obs = p.obs
           /\ Reseed(p, us, n).mode = p.mode /\ Reseed(p, us, n).touched = p.touched
           /\ \A w \in Windowed :
                  /\ Reseed(p, us, n).windows[w].anchor = Value(p, us, n)
                  /\ Reseed(p, us, n).windows[w].closed = p.windows[w].closed
                  /\ Reseed(p, us, n).windows[w].upto = p.windows[w].upto
<1> DEFINE v == Value(p, us, n)
           ws == [w \in Windowed |-> [p.windows[w] EXCEPT !.anchor = v]]
<1>1. v \in PlantValue
  BY ValueType DEF Plant
<1>2. Reseed(p, us, n) = [p EXCEPT !.windows = ws]
  BY DEF Reseed
<1> HIDE DEF v
<1>3. /\ ws \in [Windowed -> Window]
      /\ \A w \in Windowed : /\ ws[w].anchor = v /\ ws[w].closed = p.windows[w].closed
                             /\ ws[w].upto = p.windows[w].upto
  BY <1>1 DEF Plant, Window
<1> HIDE DEF ws
<1> QED
  BY <1>1, <1>2, <1>3 DEF Plant, v

LEMMA TouchFacts ==
    ASSUME NEW p \in Plant, NEW o \in Owners, t \in Int
    PROVE  /\ Touch(p, o) \in Plant
           /\ Touch(p, o).mode = p.mode /\ Touch(p, o).windows = p.windows
           /\ Touch(p, o).obs = p.obs
BY DEF Touch, Plant, Touches

----------------------------------------------------------------------------
(***************************************************************************)
(* The members of a unit.                                                  *)
(***************************************************************************)
\* The line of the branch follows the others, which it leaves alone.
LEMMA TerminalKeeps ==
    ASSUME NEW u, NEW s \in Unit
    PROVE  /\ Terminal(u, s) \in Unit
           /\ Terminal(u, s).trip = s.trip /\ Terminal(u, s).tripDue = s.tripDue
           /\ Terminal(u, s).linkTripped = s.linkTripped
           /\ Terminal(u, s).trackDue = s.trackDue
<1> DEFINE b == u \notin Unfiltered /\ s.breaker /\ s.gates /\ ~Tripped(s)
<1>1. b \in BOOLEAN
  BY DEF Unit
<1>2. Terminal(u, s) = [s EXCEPT !.branch = b]
  BY DEF Terminal
<1> HIDE DEF b
<1> QED
  BY <1>1, <1>2 DEF Unit

LEMMA LatchResult ==
    ASSUME NEW s \in Unit, NEW cause \in {"overcurrent", "sampled"}
    PROVE  /\ Latch(s, cause) \in Unit /\ Tripped(Latch(s, cause))
           /\ Tripped(s) => Latch(s, cause).trip = s.trip
           /\ Latch(s, cause).linkTripped = s.linkTripped
           /\ Latch(s, cause).branch = s.branch
           /\ Latch(s, cause).tripDue = s.tripDue
           /\ Latch(s, cause).trackDue = s.trackDue
BY DEF Latch, Tripped, Unit

LEMMA TripBodyResult ==
    ASSUME NEW u, NEW s \in Unit
    PROVE  /\ TripBody(u, s) \in Unit /\ TripBody(u, s).trip = s.trip
           /\ TripBody(u, s).linkTripped
           /\ TripBody(u, s).tripDue = s.tripDue /\ TripBody(u, s).trackDue = s.trackDue
<1> DEFINE d == s.driven /\ u \notin Unfiltered
           r == [s EXCEPT !.run = FALSE, !.gates = FALSE, !.breaker = FALSE,
                          !.driven = d, !.linkTripped = TRUE]
<1>1. d \in BOOLEAN
  BY DEF Unit
<1>2. TripBody(u, s) = Terminal(u, r)
  BY DEF TripBody
<1> HIDE DEF d
<1>3. /\ r \in Unit /\ r.trip = s.trip /\ r.linkTripped /\ r.tripDue = s.tripDue
      /\ r.trackDue = s.trackDue
  BY <1>1 DEF Unit
<1> HIDE DEF r
<1> QED
  BY <1>2, <1>3, TerminalKeeps

LEMMA CommandResult ==
    ASSUME NEW u \in Units, NEW s \in Unit, NEW on \in BOOLEAN,
           words \in [Sampled -> Registered]
    PROVE  /\ Command(u, s, on) \in Unit /\ Command(u, s, on).trip = s.trip
           /\ Command(u, s, on).linkTripped = s.linkTripped
           /\ Command(u, s, on).tripDue = s.tripDue
           /\ u \notin Continuous => Command(u, s, on).trackDue = s.trackDue
<1> DEFINE effective == on /\ ~Tripped(s)
<1>1. effective \in BOOLEAN
  OBVIOUS
<1>2. CASE u \in Continuous
  <2> DEFINE due == effective /\ ~(s.breaker /\ s.gates /\ ~Tripped(s))
             r == [s EXCEPT !.trackDue = due, !.run = effective,
                            !.breaker = effective, !.gates = effective]
  <2>1. due \in BOOLEAN
    BY <1>1
  <2>2. Command(u, s, on) = Terminal(u, r)
    BY <1>2 DEF Command, CommandContinuous
  <2> HIDE DEF due, effective
  <2>3. r \in Unit /\ r.trip = s.trip /\ r.linkTripped = s.linkTripped
        /\ r.tripDue = s.tripDue
    BY <1>1, <2>1 DEF Unit
  <2> HIDE DEF r
  <2> QED
    BY <1>2, <2>2, <2>3, TerminalKeeps
<1>3. CASE u \notin Continuous
  <2> DEFINE commanded == [s EXCEPT !.breaker = effective, !.run = effective]
             gates == IF u \in Unfiltered THEN Stage(u, commanded, words[u].active.on)
                      ELSE s.gates
             driven == s.driven /\ (u \in Unfiltered => gates)
             r == [commanded EXCEPT !.gates = gates, !.driven = driven]
  <2>1. Command(u, s, on) = Terminal(u, [commanded EXCEPT !.gates = gates,
                    !.driven = commanded.driven /\ (u \in Unfiltered => gates)])
    BY <1>3 DEF Command, CommandSampled
  <2> HIDE DEF effective
  <2>2. /\ commanded \in Unit /\ commanded.driven = s.driven
        /\ commanded.trip = s.trip /\ commanded.linkTripped = s.linkTripped
        /\ commanded.tripDue = s.tripDue /\ commanded.trackDue = s.trackDue
    BY <1>1 DEF Unit
  <2> HIDE DEF commanded
  <2>3. gates \in BOOLEAN /\ driven \in BOOLEAN
    BY <2>2 DEF Stage, Unit
  <2>4. Command(u, s, on) = Terminal(u, r)
    BY <2>1, <2>2
  <2> HIDE DEF gates, driven
  <2>5. r \in Unit /\ r.trip = s.trip /\ r.linkTripped = s.linkTripped
        /\ r.tripDue = s.tripDue /\ r.trackDue = s.trackDue
    BY <2>2, <2>3 DEF Unit
  <2> HIDE DEF r
  <2> QED
    BY <2>4, <2>5, TerminalKeeps
<1> QED
  BY <1>2, <1>3

LEMMA CheckedResult ==
    ASSUME NEW s \in Unit, NEW due \in BOOLEAN, NEW bad \in BOOLEAN
    PROVE  /\ Checked(s, due, bad) \in Unit
           /\ Tripped(s) => Checked(s, due, bad) = s
           /\ Checked(s, due, bad).linkTripped = s.linkTripped
           /\ Checked(s, due, bad).branch = s.branch
           /\ Checked(s, due, bad).tripDue = s.tripDue \/ Tripped(Checked(s, due, bad))
<1> DEFINE l == Latch(s, "sampled")
           r == [l EXCEPT !.tripDue = TRUE]
<1>1. /\ l \in Unit /\ Tripped(l) /\ l.linkTripped = s.linkTripped
      /\ l.branch = s.branch
  BY LatchResult
<1>2. Checked(s, due, bad) = IF due /\ bad /\ ~Tripped(s) /\ s.run THEN r ELSE s
  BY DEF Checked
<1> HIDE DEF l
<1>3. r \in Unit /\ Tripped(r) /\ r.linkTripped = s.linkTripped /\ r.branch = s.branch
  BY <1>1 DEF Unit, Tripped
<1> HIDE DEF r
<1> QED
  BY <1>2, <1>3

LEMMA DrivenResult ==
    ASSUME NEW u \in Sampled, NEW s \in Unit, NEW w \in Registered
    PROVE  /\ Driven(u, s, w) \in Unit /\ Driven(u, s, w).trip = s.trip
           /\ Driven(u, s, w).linkTripped = s.linkTripped
           /\ Driven(u, s, w).tripDue = s.tripDue
           /\ Driven(u, s, w).trackDue = s.trackDue
           /\ t # LoadTime(u) => Driven(u, s, w) = s
<1> DEFINE gates == Stage(u, s, w.active.on)
           driven == u \in Unfiltered => gates
           r == [s EXCEPT !.gates = gates, !.driven = driven]
<1>1. gates \in BOOLEAN /\ driven \in BOOLEAN
  BY DEF Stage, Unit, Registered, Word
<1>2. Driven(u, s, w) = IF t # LoadTime(u) THEN s ELSE Terminal(u, r)
  BY DEF Driven
<1> HIDE DEF gates, driven
<1>3. r \in Unit /\ r.trip = s.trip /\ r.linkTripped = s.linkTripped
      /\ r.tripDue = s.tripDue /\ r.trackDue = s.trackDue
  BY <1>1 DEF Unit
<1> HIDE DEF r
<1> QED
  BY <1>2, <1>3, TerminalKeeps

LEMMA RegistersType ==
    ASSUME NEW u \in Sampled, NEW w \in Registered, NEW on \in BOOLEAN,
           clock[u] \in Int
    PROVE  Registers(u, w, on) \in Registered
<1>1. ASSUME NEW v \in Registered, NEW k \in Int
      PROVE  Write(v, on, k) \in Registered
  BY DEF Write, Registered, Word
<1>2. ASSUME NEW v \in Registered, NEW k \in Int
      PROVE  LoadWord(u, v, k) \in Registered
  BY DEF LoadWord, Registered
<1> DEFINE k == clock[u]
           loads(v, n) == IF t = LoadTime(u) THEN LoadWord(u, v, n) ELSE v
           written(v) == IF t = NextTime(u) THEN Write(v, on, k) ELSE v
<1>3. CASE Computation[u] = 0
  <2> DEFINE n == IF t = NextTime(u) THEN k + 1 ELSE k
  <2>1. n \in Int /\ written(w) \in Registered
    BY <1>1
  <2>2. Registers(u, w, on) = loads(written(w), n)
    BY <1>3 DEF Registers
  <2> HIDE DEF n
  <2>3. loads(written(w), n) \in Registered
    <3> DEFINE z == written(w)
    <3>1. z \in Registered
      BY <2>1
    <3> HIDE DEF z
    <3> QED
      BY <2>1, <3>1, <1>2
  <2> QED
    BY <2>2, <2>3
<1>4. CASE Computation[u] # 0
  <2> DEFINE z == loads(w, k)
  <2>1. z \in Registered
    BY <1>2
  <2>2. Registers(u, w, on) = written(z)
    BY <1>4 DEF Registers
  <2> HIDE DEF z
  <2> QED
    BY <2>1, <2>2, <1>1
<1> QED
  BY <1>3, <1>4

----------------------------------------------------------------------------
(***************************************************************************)
(* Turns and times.                                                        *)
(***************************************************************************)
\* The instants of the clocks, loads and rows are integers, one period apart.
LEMMA Times ==
    ASSUME TypeOK
    PROVE  /\ t \in Nat /\ t <= End /\ Start <= t
           /\ \A o \in Owners :
                  /\ clock[o] \in Int /\ NextTime(o) \in Int
                  /\ ClockAt(Clocks[o], clock[o] - 1) \in Int
                  /\ NextTime(o) < ClockAt(Clocks[o], clock[o] + 1)
           /\ \A u \in Sampled :
                  /\ load[u] \in Int /\ LoadTime(u) \in Int
                  /\ ClockAt(Loads[u], load[u] - 1) \in Int
                  /\ LoadTime(u) < ClockAt(Loads[u], load[u] + 1)
           /\ OutputTime \in Int /\ OutputTime < (output + 1) * OutputPeriod
<1>1. t \in Nat /\ t <= End /\ Start <= t
  BY Constants DEF TypeOK
<1>2. ASSUME NEW o \in Owners
      PROVE  /\ clock[o] \in Int /\ NextTime(o) \in Int
             /\ ClockAt(Clocks[o], clock[o] - 1) \in Int
             /\ NextTime(o) < ClockAt(Clocks[o], clock[o] + 1)
  <2>1. clock[o] \in Int /\ Clocks[o] \in Clock /\ clock[o] + 1 \in Int
        /\ clock[o] - 1 \in Int
        /\ Clocks[o].period \in Nat /\ Clocks[o].period > 0
    BY Constants DEF TypeOK
  <2>2. /\ ClockAt(Clocks[o], clock[o]) \in Int
        /\ ClockAt(Clocks[o], clock[o] - 1) \in Int
        /\ ClockAt(Clocks[o], clock[o] + 1)
               = ClockAt(Clocks[o], clock[o]) + Clocks[o].period
    BY <2>1, ClockStep
  <2> QED
    BY <2>1, <2>2 DEF NextTime
<1>3. ASSUME NEW u \in Sampled
      PROVE  /\ load[u] \in Int /\ LoadTime(u) \in Int
             /\ ClockAt(Loads[u], load[u] - 1) \in Int
             /\ LoadTime(u) < ClockAt(Loads[u], load[u] + 1)
  <2>1. load[u] \in Int /\ Loads[u] \in Clock /\ load[u] + 1 \in Int
        /\ load[u] - 1 \in Int
        /\ Loads[u].period \in Nat /\ Loads[u].period > 0
    BY Constants DEF TypeOK
  <2>2. /\ ClockAt(Loads[u], load[u]) \in Int
        /\ ClockAt(Loads[u], load[u] - 1) \in Int
        /\ ClockAt(Loads[u], load[u] + 1)
               = ClockAt(Loads[u], load[u]) + Loads[u].period
    BY <2>1, ClockStep
  <2> QED
    BY <2>1, <2>2 DEF LoadTime
<1>4. OutputTime \in Int /\ OutputTime < (output + 1) * OutputPeriod
  <2>1. output \in Nat /\ OutputPeriod \in Nat /\ OutputPeriod > 0
    BY Constants DEF TypeOK
  <2>2. (output + 1) * OutputPeriod = output * OutputPeriod + OutputPeriod
        /\ output * OutputPeriod \in Int
    BY <2>1
  <2> QED
    BY <2>1, <2>2 DEF OutputTime
<1> QED
  BY <1>1, <1>2, <1>3, <1>4

\* What a turn does with the phases, and who has had theirs.
LEMMA TurnFacts ==
    ASSUME TypeOK, RestOK, TurnsInOrder, NEW phase \in Phases, NEW to,
           Turn(phase, to), UNCHANGED order
    PROVE  /\ pc = phase /\ Owner \in Owners /\ turn' \in 1 .. Len(order)
           /\ phase = "protect" => Owner \in Units
           /\ Ends(phase) => /\ pc' = to /\ turn' = 1
                             /\ \A o \in Owners : ~Had(o)'
                             /\ phase # "protect" =>
                                    \A o \in Owners : Had(o) \/ o = Owner
                             /\ phase = "protect" =>
                                    \A o \in Units : Had(o) \/ o = Owner
           /\ ~Ends(phase) => /\ pc' = phase
                              /\ phase = "protect" => turn' <= Cardinality(Units)
                              /\ \A o : Had(o)' <=> Had(o) \/ o = Owner
<1> DEFINE last == IF phase = "protect" THEN Cardinality(Units) ELSE Len(order)
<1>1. /\ pc = phase /\ turn \in Int /\ 1 <= turn /\ turn <= last
      /\ last \in Nat /\ last <= Len(order) /\ 1 <= Len(order) /\ Len(order) \in Nat
      /\ phase = "protect" => last = Cardinality(Units)
      /\ \A i \in 1..Len(order) : order[i] \in Owners
      /\ \A i \in 1..Cardinality(Units) : order[i] \in Units
  BY OrderFacts DEF TypeOK, RestOK, TurnsInOrder, Turn, Phases
<1>2. Ends(phase) <=> turn = last
  BY DEF Ends
<1>3. Owner \in Owners /\ (phase = "protect" => Owner \in Units)
  BY <1>1 DEF Owner
<1>4. CASE turn = last
  <2>1. pc' = to /\ turn' = 1
    BY <1>2, <1>4 DEF Turn
  <2>2. \A o \in Owners : ~Had(o)'
    BY <2>1 DEF Had
  <2>3. \A i \in 1..last : order[i] = Owner \/ i \in 1..(turn - 1)
    BY <1>1, <1>4 DEF Owner
  <2>4. phase # "protect" => \A o \in Owners : Had(o) \/ o = Owner
    <3>1. \A o \in Owners : \E i \in 1..Len(order) : order[i] = o
      BY OrderFacts DEF RestOK
    <3> QED
      BY <3>1, <2>3 DEF Had
  <2>5. phase = "protect" => \A o \in Units : Had(o) \/ o = Owner
    <3>1. \A o \in Units : \E i \in 1..Cardinality(Units) : order[i] = o
      BY OrderFacts DEF RestOK
    <3> QED
      BY <3>1, <2>3 DEF Had
  <2> QED
    BY <1>1, <1>2, <1>3, <1>4, <2>1, <2>2, <2>4, <2>5
<1>5. CASE turn # last
  <2>1. pc' = phase /\ turn' = turn + 1
    BY <1>1, <1>2, <1>5 DEF Turn
  <2>2. turn' \in 1..Len(order) /\ turn' <= last
    BY <1>1, <1>5, <2>1
  <2>3. \A o : Had(o)' <=> Had(o) \/ o = Owner
    <3>1. \A i : i \in 1..(turn' - 1) <=> i \in 1..(turn - 1) \/ i = turn
      BY <1>1, <2>1
    <3> QED
      BY <3>1 DEF Had, Owner
  <2> QED
    BY <1>1, <1>2, <1>3, <1>5, <2>1, <2>2, <2>3
<1> QED
  BY <1>4, <1>5

\* No one has had a turn where no phase is on.
LEMMA NoTurn ==
    ASSUME turn = 1
    PROVE  \A o : ~Had(o)
BY DEF Had

\* The first output row is not before the start.
LEMMA FirstRow ==
    LET row == IndexAtOrAfter([period |-> OutputPeriod, offset |-> 0], Start)
    IN  row \in Nat /\ Start <= row * OutputPeriod
<1> DEFINE grid == [period |-> OutputPeriod, offset |-> 0]
           row == IndexAtOrAfter(grid, Start)
<1>1. grid \in Clock
  BY Constants DEF Clock
<1>2. row \in Int /\ Start <= ClockAt(grid, row) /\ ClockAt(grid, row) = row * OutputPeriod
  <2>1. row \in Int /\ Start <= ClockAt(grid, row)
    BY <1>1, IndexAtOrAfterSpec, Constants
  <2> HIDE DEF row
  <2>2. ClockAt(grid, row) = 0 + row * OutputPeriod
    BY DEF ClockAt
  <2> QED
    BY <2>1, <2>2, Constants
<1>3. row >= 0
  <2> HIDE DEF row, grid
  <2> SUFFICES ASSUME row < 0 PROVE FALSE
    BY <1>2
  <2>1. row <= 0 - 1
    BY <1>2
  <2>2. row * OutputPeriod <= (0 - 1) * OutputPeriod
    BY <2>1, <1>2, Constants
  <2> QED
    BY <2>2, <1>2, Constants
<1> QED
  BY <1>2, <1>3

\* The first event of a clock is the first one not before the start.
LEMMA FirstService ==
    ASSUME NEW c \in Clock
    PROVE  /\ StartIndex(c, Start, FALSE) \in Int
           /\ ClockAt(c, StartIndex(c, Start, FALSE)) \in Int
           /\ ClockAt(c, StartIndex(c, Start, FALSE) - 1) \in Int
           /\ Start <= ClockAt(c, StartIndex(c, Start, FALSE))
           /\ ClockAt(c, StartIndex(c, Start, FALSE) - 1) < Start
<1> DEFINE i == IndexAtOrAfter(c, Start)
<1>1. i \in Int /\ ClockAt(c, i - 1) < Start /\ Start <= ClockAt(c, i)
  BY IndexAtOrAfterSpec, Constants
<1>2. StartIndex(c, Start, FALSE) = i
  BY DEF StartIndex
<1> HIDE DEF i
<1>3. ClockAt(c, i) \in Int /\ i - 1 \in Int
  BY <1>1, ClockStep
<1>4. ClockAt(c, i - 1) \in Int
  BY <1>3, ClockStep
<1> QED
  BY <1>1, <1>2, <1>3, <1>4

----------------------------------------------------------------------------
(***************************************************************************)
(* The start.                                                              *)
(***************************************************************************)
LEMMA InitialUnit ==
    ASSUME NEW u \in Units, NEW latched \in BOOLEAN
    PROVE  /\ Initial(u, latched) \in Unit
           /\ Initial(u, latched).linkTripped => Tripped(Initial(u, latched))
           /\ ~Initial(u, latched).tripDue /\ ~Initial(u, latched).trackDue
<1> DEFINE on == u \in Connected /\ ~latched
           s == [trip |-> IF latched THEN "restored" ELSE "none", fault |-> FALSE,
                 breaker |-> on, gates |-> on /\ u \in Continuous, run |-> on,
                 branch |-> FALSE, linkTripped |-> latched,
                 driven |-> u \notin Unfiltered, tripDue |-> FALSE,
                 trackDue |-> FALSE, pending |-> "none"]
<1>1. s \in Unit /\ (s.linkTripped => s.trip # "none") /\ ~s.tripDue /\ ~s.trackDue
  BY DEF Unit
<1>2. Initial(u, latched) = Terminal(u, s)
  BY DEF Initial
<1> HIDE DEF s
<1> QED
  BY <1>1, <1>2, TerminalKeeps DEF Tripped

LEMMA InitUnits ==
    ASSUME Init
    PROVE  units \in [Units -> Unit] /\ UnitsInv
<1>1. PICK latched \in SUBSET Units : units = [u \in Units |-> Initial(u, u \in latched)]
  BY DEF Init
<1>2. \A u \in Units : units[u] = Initial(u, u \in latched)
  BY <1>1
<1>3. ASSUME NEW u \in Units
      PROVE  /\ Initial(u, u \in latched) \in Unit
             /\ units[u].linkTripped => Tripped(units[u])
             /\ ~units[u].tripDue /\ ~units[u].trackDue
  <2> DEFINE b == u \in latched
  <2>1. b \in BOOLEAN /\ units[u] = Initial(u, b)
    BY <1>2
  <2> HIDE DEF b
  <2>2. /\ Initial(u, b) \in Unit
        /\ Initial(u, b).linkTripped => Tripped(Initial(u, b))
        /\ ~Initial(u, b).tripDue /\ ~Initial(u, b).trackDue
    BY <2>1, InitialUnit
  <2> QED
    BY <2>1, <2>2 DEF b
<1>4. units \in [Units -> Unit]
  BY <1>1, <1>3
<1>5. UnitsInv
  BY <1>3 DEF UnitsInv
<1> QED
  BY <1>4, <1>5

LEMMA InitPlant ==
    ASSUME Init
    PROVE  /\ plant \in Plant /\ arrival \in PlantValue /\ arrival = Present
           /\ sampled \in [Owners -> [at : Int, saw : PlantValue]]
           /\ plant.mode = Flags(units)
           /\ \A w \in Windowed : /\ plant.windows[w].anchor = Present
                                  /\ plant.windows[w].closed = arrival
                                  /\ plant.windows[w].upto = t
<1> DEFINE own == [o \in Owners |-> IF o \in Connected \cap Continuous THEN Start
                                    ELSE Start - 1]
           value == Value([touched |-> own, mode |-> Flags(units)], units, 1)
           windows == [w \in Windowed |-> [anchor |-> value, closed |-> value,
                                           upto |-> Start]]
<1>1. /\ plant = [touched |-> own, mode |-> Flags(units), obs |-> value,
                  windows |-> windows]
      /\ arrival = value /\ t = Start /\ action = 1
      /\ sampled = [o \in Owners |-> [at |-> Start - 1, saw |-> value]]
  BY DEF Init
<1>2. own \in Touches /\ Start \in Int /\ Start - 1 \in Int
  BY Constants DEF Touches
<1>3. Flags(units) \in Modes
  BY InitUnits, FlagsType
<1> HIDE DEF own
<1>4. value \in PlantValue
  BY <1>2, <1>3, ValueType
<1>5. value = Present
  <2>1. plant.mode = Flags(units) /\ plant.touched = own
    BY <1>1
  <2> QED
    BY <1>1, <2>1, ValueSame DEF Present
<1> HIDE DEF value
<1>6. windows \in [Windowed -> Window]
  BY <1>2, <1>4 DEF Window
<1>7. \A w \in Windowed : /\ windows[w].anchor = value
                          /\ windows[w].closed = value /\ windows[w].upto = Start
  OBVIOUS
<1> HIDE DEF windows
<1>8. plant \in Plant /\ plant.mode = Flags(units) /\ plant.windows = windows
  BY <1>1, <1>2, <1>3, <1>4, <1>6 DEF Plant
<1> QED
  BY <1>1, <1>2, <1>4, <1>5, <1>7, <1>8

LEMMA InitTypes == Init => TypeOK /\ RestOK /\ TurnsInOrder
<1> SUFFICES ASSUME Init PROVE TypeOK /\ RestOK /\ TurnsInOrder
  OBVIOUS
<1>1. /\ pc = "boundary" /\ turn = 1 /\ order \in Orders /\ stop \in BOOLEAN
      /\ t = Start /\ action = 1 /\ waiting = {}
      /\ flags = [circuit |-> FALSE, trip |-> FALSE]
  BY Constants DEF Init
<1>2. output \in Nat
  BY FirstRow DEF Init
<1>3. clock \in [Owners -> Int]
  <2>1. clock = [o \in Owners |-> StartIndex(Clocks[o], Start, FALSE)]
    BY DEF Init
  <2>2. \A o \in Owners : StartIndex(Clocks[o], Start, FALSE) \in Int
    BY FirstService, Constants
  <2> QED
    BY <2>1, <2>2
<1>4. load \in [Sampled -> Int]
  <2>1. load = [u \in Sampled |-> StartIndex(Loads[u], Start, FALSE)]
    BY DEF Init
  <2>2. \A u \in Sampled : StartIndex(Loads[u], Start, FALSE) \in Int
    BY FirstService, Constants
  <2> QED
    BY <2>1, <2>2
<1>5. words \in [Sampled -> Registered]
  <2> DEFINE word(u) == [on |-> FALSE, stamp |-> clock[u] - 1]
  <2>1. words = [u \in Sampled |-> [active |-> word(u), shadow |-> word(u),
                                    completed |-> word(u)]]
    BY DEF Init
  <2>2. \A u \in Sampled : word(u) \in Word
    BY <1>3, Constants DEF Word
  <2> HIDE DEF word
  <2> QED
    BY <2>1, <2>2 DEF Registered
<1>6. /\ 1 \in 1..Len(order) /\ Start \in Start..End
      /\ 1 \in 1..(Len(Events) + 1)
  BY <1>1, OrderFacts, EventsOrdered, Constants
<1>7. TypeOK
  BY <1>1, <1>2, <1>3, <1>4, <1>6, InitUnits DEF TypeOK
<1>8. RestOK
  BY <1>1, <1>5, InitPlant DEF RestOK
<1>9. TurnsInOrder
  BY <1>1 DEF TurnsInOrder
<1> QED
  BY <1>7, <1>8, <1>9

LEMMA InitTimely == Init => Timely
<1> SUFFICES ASSUME Init PROVE Timely
  OBVIOUS
<1>1. /\ pc = "boundary" /\ t = Start /\ action = 1 /\ waiting = {} /\ ~flags.trip
      /\ arrival = Present
  BY InitPlant DEF Init
<1>2. Fresh
  BY <1>1 DEF Fresh
<1>3. \A o \in Owners : t <= NextTime(o) /\ ClockAt(Clocks[o], clock[o] - 1) < t
                        /\ NextTime(o) \in Int
  <2>1. clock = [o \in Owners |-> StartIndex(Clocks[o], Start, FALSE)]
    BY DEF Init
  <2> QED
    BY <1>1, <2>1, FirstService, Constants DEF NextTime
<1>4. \A u \in Sampled : t <= LoadTime(u) /\ ClockAt(Loads[u], load[u] - 1) < t
                         /\ LoadTime(u) \in Int
  <2>1. load = [u \in Sampled |-> StartIndex(Loads[u], Start, FALSE)]
    BY DEF Init
  <2> QED
    BY <1>1, <2>1, FirstService, Constants DEF LoadTime
<1>5. LastServed
  <2>1. /\ \A o \in Owners : ClockAt(Clocks[o], clock[o] - 1) <= t
        /\ \A u \in Sampled : ClockAt(Loads[u], load[u] - 1) <= t
    BY <1>1, <1>3, <1>4, InitTypes, Times
  <2> QED
    BY <1>1, <2>1 DEF LastServed
<1>6. ClocksAhead /\ LoadsAhead
  BY <1>2, <1>3, <1>4 DEF ClocksAhead, LoadsAhead, ClockOpen, LoadOpen
<1>7. RowsAhead
  <2>1. t <= OutputTime
    BY <1>1, FirstRow DEF Init, OutputTime
  <2> QED
    BY <1>1, <1>2, <2>1, Constants DEF RowsAhead
<1>8. EventsAhead
  BY <1>1, EventsOrdered, Constants DEF EventsAhead
<1>9. WaitingInv
  BY <1>1 DEF WaitingInv
<1> QED
  BY <1>5, <1>6, <1>7, <1>8, <1>9 DEF Timely

LEMMA InitKept == Init => Kept
<1> SUFFICES ASSUME Init PROVE Kept
  OBVIOUS
<1>1. pc = "boundary"
  BY DEF Init
<1>2. CircuitInv /\ StoresInv
  BY <1>1 DEF CircuitInv, StoresInv, Instant, Phases
<1>3. UnitsInv
  BY InitUnits
<1>4. FollowInv
  BY InitPlant DEF FollowInv
<1>5. CloseInv
  <2>1. t \in Nat
    BY Constants DEF Init
  <2> QED
    BY <1>1, <2>1, InitPlant DEF CloseInv, WindowsCloseFirst, Instant, Phases
<1> QED
  BY <1>2, <1>3, <1>4, <1>5 DEF Kept

----------------------------------------------------------------------------
(***************************************************************************)
(* The next instant.                                                       *)
(***************************************************************************)
\* What is due at the next instant, and where the loop goes.
LEMMA BoundaryFacts ==
    ASSUME TypeOK, Boundary
    PROVE  /\ pc = "boundary" /\ t' \in Nat /\ t <= t' /\ t' <= End
           /\ pc' \in {"log", "actions", "protect"}
           /\ t' <= OutputTime
           /\ \A o \in Owners : t' <= NextTime(o) /\ (t' = NextTime(o) => pc' # "log")
           /\ \A u \in Sampled : t' <= LoadTime(u) /\ (t' = LoadTime(u) => pc' # "log")
           /\ \A i \in action .. Len(Events) :
                  t' <= Events[i].t /\ (t' = Events[i].t => pc' = "actions")
           /\ pc' = "actions" => t' \in ActionTimes
           /\ flags' \in [circuit : BOOLEAN, trip : BOOLEAN]
           /\ (flags'.circuit <=> t' \in CircuitTimes) /\ ~flags'.trip
           /\ \/ t' = End \/ t' = OutputTime \/ t' \in ActionTimes
              \/ \E o \in Owners : t' = NextTime(o)
              \/ \E u \in Sampled : t' = LoadTime(u)
<1>1. /\ pc = "boundary" /\ t' \in t .. End /\ IsBoundary(t')
      /\ flags' = [circuit |-> t' \in CircuitTimes, trip |-> FALSE]
      /\ pc' = CASE t' \notin PhysicalTimes -> "log"
                 [] t' \in ActionTimes -> "actions"
                 [] OTHER -> "protect"
  BY DEF Boundary
<1>2. t' \in Nat /\ t <= t' /\ t' <= End
  BY <1>1, Times, Constants
<1>3. t' \in ActionTimes => t' \in PhysicalTimes
  BY DEF PhysicalTimes, CircuitTimes
<1>4. /\ pc' \in {"log", "actions", "protect"}
      /\ pc' = "log" => t' \notin PhysicalTimes
      /\ pc' = "actions" <=> t' \in ActionTimes
  BY <1>1, <1>3
<1>5. /\ \A o \in Owners : NextTime(o) \in PhysicalTimes
      /\ \A u \in Sampled : LoadTime(u) \in PhysicalTimes
      /\ ActionTimes \subseteq PhysicalTimes
      /\ \A x \in PhysicalTimes : \/ x \in ActionTimes \/ \E o \in Owners : x = NextTime(o)
                                  \/ \E u \in Sampled : x = LoadTime(u)
  BY Constants DEF PhysicalTimes, CircuitTimes
<1>6. /\ t' \in {End, OutputTime} \cup PhysicalTimes
      /\ \A x \in {End, OutputTime} \cup PhysicalTimes : t' <= x
  BY <1>1 DEF IsBoundary
<1>7. \A i \in action .. Len(Events) : Events[i].t \in ActionTimes
  BY DEF ActionTimes
<1>8. /\ flags' \in [circuit : BOOLEAN, trip : BOOLEAN]
      /\ (flags'.circuit <=> t' \in CircuitTimes) /\ ~flags'.trip
  <2> DEFINE b == t' \in CircuitTimes
  <2>1. b \in BOOLEAN /\ flags' = [circuit |-> b, trip |-> FALSE]
    BY <1>1
  <2> HIDE DEF b
  <2>2. /\ flags' \in [circuit : BOOLEAN, trip : BOOLEAN]
        /\ (flags'.circuit <=> b) /\ ~flags'.trip
    BY <2>1
  <2> QED
    BY <2>2 DEF b
<1> QED
  BY <1>1, <1>2, <1>4, <1>5, <1>6, <1>7, <1>8

\* What happens to the plant meanwhile.
LEMMA BoundaryPlant ==
    ASSUME TypeOK, RestOK, Boundary
    PROVE  /\ plant' \in Plant /\ plant'.mode = plant.mode /\ plant'.obs = Present
           /\ arrival' = Present /\ arrival' \in PlantValue /\ Present' = Present
           /\ \A w \in Windowed :
                  plant'.windows[w] =
                      IF w \in Closing(t') /\ t' > plant.windows[w].upto
                      THEN [anchor |-> Present, closed |-> Present, upto |-> t']
                      ELSE plant.windows[w]
<1> DEFINE p == Sync(plant, units, action)
<1>1. /\ arrival' = Value(plant, units, action) /\ units' = units /\ action' = action
      /\ plant' = Accumulate(p, Closing(t'), t') /\ t' \in t .. End
  BY DEF Boundary
<1>2. plant \in Plant /\ action \in Nat /\ action >= 1 /\ t' \in Int
  BY <1>1, Times, Constants, EventsOrdered DEF TypeOK, RestOK
<1>3. /\ p \in Plant /\ p.obs = Present /\ p.mode = plant.mode
      /\ p.touched = plant.touched /\ p.windows = plant.windows
  BY <1>2, SyncFacts DEF Present
<1> HIDE DEF p
<1>4. /\ plant' \in Plant /\ plant'.obs = p.obs /\ plant'.mode = p.mode
      /\ plant'.touched = p.touched
      /\ \A w \in Windowed :
             plant'.windows[w] = IF w \in Closing(t') /\ t' > p.windows[w].upto
                      THEN [anchor |-> p.obs, closed |-> p.obs, upto |-> t']
                      ELSE p.windows[w]
  BY <1>1, <1>2, <1>3, AccumulateFacts
<1>5. Value(plant', units, action) = Present
  BY <1>3, <1>4, ValueSame DEF Present
<1>6. Present' = Present
  BY <1>1, <1>5 DEF Present
<1>7. Present \in PlantValue
  BY <1>2, ValueType DEF Present, Plant
<1> QED
  BY <1>1, <1>3, <1>4, <1>6, <1>7 DEF Present

LEMMA TypesBoundary ==
    ASSUME IndInv, Boundary
    PROVE  TypeOK' /\ RestOK' /\ TurnsInOrder'
<1> USE DEF IndInv
<1>1. /\ pc = "boundary" /\ t' \in Start .. End /\ pc' \in {"log", "actions", "protect"}
      /\ flags' \in [circuit : BOOLEAN, trip : BOOLEAN]
  BY BoundaryFacts, Times, Constants
<1>2. UNCHANGED <<order, stop, turn, action, output, clock, load, units, words, waiting,
                  sampled>>
  BY DEF Boundary
<1>3. TypeOK'
  BY <1>1, <1>2 DEF TypeOK
<1>4. RestOK'
  BY <1>2, BoundaryPlant DEF RestOK
<1>5. turn = 1 /\ 1 <= Cardinality(Units)
  BY <1>1, OrderFacts DEF TurnsInOrder, RestOK, Phases
<1>6. TurnsInOrder'
  BY <1>2, <1>5 DEF TurnsInOrder
<1> QED
  BY <1>3, <1>4, <1>6

LEMMA TimelyBoundary ==
    ASSUME IndInv, Boundary
    PROVE  Timely'
<1> USE DEF IndInv, Timely
<1>1. UNCHANGED <<action, output, clock, load, waiting>> /\ waiting = {}
  BY DEF Boundary, WaitingInv
<1>2. /\ \A o \in Owners : NextTime(o)' = NextTime(o)
      /\ \A u \in Sampled : LoadTime(u)' = LoadTime(u)
      /\ OutputTime' = OutputTime
  BY <1>1 DEF NextTime, LoadTime, OutputTime
<1>3. ClocksAhead' /\ LoadsAhead'
  BY <1>2, BoundaryFacts DEF ClocksAhead, LoadsAhead, ClockOpen, LoadOpen
<1>4. RowsAhead'
  BY <1>2, BoundaryFacts DEF RowsAhead
<1>5. action \in Nat /\ Len(Events) \in Nat
  BY EventsOrdered DEF TypeOK
<1>6. pc' = "actions" => action <= Len(Events) /\ Events[action].t = t'
  <2> SUFFICES ASSUME pc' = "actions"
               PROVE  action <= Len(Events) /\ Events[action].t = t'
    OBVIOUS
  <2>1. PICK i \in action .. Len(Events) : Events[i].t = t'
    BY BoundaryFacts DEF ActionTimes
  <2>2. action <= Len(Events) /\ t' <= Events[action].t
    BY <1>5, <2>1, BoundaryFacts
  <2>3. /\ action \in 1..Len(Events) /\ i \in 1..Len(Events)
        /\ Events[action].t \in Nat /\ Events[i].t \in Nat
        /\ action < i => Events[action].t <= Events[i].t
    BY <1>5, <2>1, <2>2, EventsOrdered DEF TypeOK
  <2>4. Events[action].t <= Events[i].t
    BY <1>5, <2>1, <2>3
  <2> QED
    BY <2>1, <2>2, <2>3, <2>4
<1>7. EventsAhead'
  <2>1. action <= Len(Events) => action \in action .. Len(Events)
    BY <1>5
  <2>2. pc' = "actions" => flags'.circuit
    BY BoundaryFacts DEF CircuitTimes
  <2> QED
    BY <1>1, <1>6, <2>1, <2>2, BoundaryFacts DEF EventsAhead
<1>8. WaitingInv'
  BY <1>1, BoundaryFacts DEF WaitingInv
<1>9. LastServed'
  <2>1. pc' = "actions" => t < t'
    <3> SUFFICES ASSUME pc' = "actions", t' = t PROVE FALSE
      BY Times, BoundaryFacts
    <3>1. action <= Len(Events) /\ t = Events[action].t /\ pc = "boundary"
      BY <1>6, BoundaryFacts
    <3> QED
      BY <3>1 DEF EventsAhead
  <2>2. t <= t' /\ t \in Nat /\ t' \in Nat
    BY Times, BoundaryFacts
  <2>3. /\ \A o \in Owners : ClockAt(Clocks[o], clock'[o] - 1)
                                 = ClockAt(Clocks[o], clock[o] - 1)
        /\ \A u \in Sampled : ClockAt(Loads[u], load'[u] - 1)
                                 = ClockAt(Loads[u], load[u] - 1)
    BY <1>1
  <2> QED
    BY <2>1, <2>2, <2>3, Times DEF LastServed
<1> QED
  BY <1>3, <1>4, <1>7, <1>8, <1>9

LEMMA KeptBoundary ==
    ASSUME IndInv, Boundary
    PROVE  Kept'
<1> USE DEF IndInv, Timely, Kept
<1>1. UNCHANGED <<action, clock, load, units>> /\ pc = "boundary"
  BY DEF Boundary
<1>2. CircuitInv'
  <2>1. CircuitTimes' = CircuitTimes
    BY <1>1 DEF CircuitTimes, ActionTimes, NextTime, LoadTime
  <2> QED
    BY <2>1, BoundaryFacts DEF CircuitInv
<1>3. UnitsInv'
  BY <1>1 DEF UnitsInv
<1>4. StoresInv'
  BY BoundaryPlant DEF StoresInv
<1>5. plant.mode = Flags(units) /\ \A w \in Windowed : plant.windows[w].anchor = Present
  BY <1>1 DEF FollowInv
<1>6. FollowInv'
  BY <1>1, <1>5, BoundaryPlant DEF FollowInv
<1>7. t \in Nat /\ t' \in Nat /\ t <= t'
  BY Times, BoundaryFacts
<1>8. t' = t => Fresh
  <2> SUFFICES ASSUME t' = t PROVE Fresh
    OBVIOUS
  <2>1. CASE t' = End
    BY <1>1, <1>7, <2>1, Constants DEF RowsAhead
  <2>2. CASE t' = OutputTime
    BY <1>1, <2>2 DEF RowsAhead
  <2>3. CASE t' \in ActionTimes
    <3>1. pc' = "actions"
      BY <2>3, BoundaryFacts DEF ActionTimes
    <3> HIDE DEF IndInv, Timely, Kept
    <3>2. EventsAhead' /\ EventsAhead /\ action' = action
      BY <1>1, TimelyBoundary DEF Timely, IndInv
    <3> QED
      BY <1>1, <3>1, <3>2 DEF EventsAhead
  <2>4. CASE \E o \in Owners : t' = NextTime(o)
    BY <1>1, <2>4 DEF ClocksAhead, ClockOpen
  <2>5. CASE \E u \in Sampled : t' = LoadTime(u)
    BY <1>1, <2>5 DEF LoadsAhead, LoadOpen
  <2> QED
    BY <2>1, <2>2, <2>3, <2>4, <2>5, BoundaryFacts
<1>9. CloseInv'
  <2>1. ASSUME NEW w \in Windowed
        PROVE  plant.windows[w].upto \in Int /\ plant.windows[w].upto <= t
    BY DEF CloseInv, RestOK, Plant, Window
  <2>2. ASSUME NEW w \in Windowed
        PROVE  plant'.windows[w].upto <= t'
    BY <1>7, <2>1, BoundaryPlant
  <2>3. ASSUME NEW w \in Windowed, flags'.circuit
        PROVE  plant'.windows[w].upto = t'
    <3>1. Closing(t') = Windowed
      BY <2>3, BoundaryFacts DEF Closing
    <3> QED
      BY <1>7, <2>1, <3>1, BoundaryPlant
  <2>4. ASSUME NEW w \in Windowed, plant'.windows[w].upto = t'
        PROVE  plant'.windows[w].closed = arrival'
    <3>1. CASE w \in Closing(t') /\ t' > plant.windows[w].upto
      BY <3>1, BoundaryPlant
    <3>2. CASE ~(w \in Closing(t') /\ t' > plant.windows[w].upto)
      <4>1. plant'.windows[w] = plant.windows[w]
        BY <3>2, BoundaryPlant
      <4>2. plant.windows[w].upto = t /\ t' = t
        BY <4>1, <2>4, <2>1, <1>7
      <4>3. arrival = Present /\ ~flags.trip
        BY <4>2, <1>8 DEF Fresh
      <4>4. plant.windows[w].closed = arrival
        BY <4>2, <4>3 DEF CloseInv, WindowsCloseFirst
      <4> QED
        BY <4>1, <4>3, <4>4, BoundaryPlant
    <3> QED
      BY <3>1, <3>2
  <2> QED
    BY <2>2, <2>3, <2>4 DEF CloseInv, WindowsCloseFirst
<1> QED
  BY <1>2, <1>3, <1>4, <1>6, <1>9

----------------------------------------------------------------------------
(***************************************************************************)
(* File events.                                                            *)
(***************************************************************************)
\* A file event commands at most one unit, and trips none.
LEMMA ActionUnits ==
    ASSUME TypeOK, RestOK, EventsAhead, ApplyAction
    PROVE  /\ units' \in [Units -> Unit]
           /\ \A u \in Units :
                  /\ units'[u].trip = units[u].trip
                  /\ units'[u].linkTripped = units[u].linkTripped
                  /\ units'[u].tripDue = units[u].tripDue
                  /\ u \notin Continuous => units'[u].trackDue = units[u].trackDue
<1> DEFINE event == Events[action]
<1>1. /\ units \in [Units -> Unit] /\ words \in [Sampled -> Registered]
      /\ units' = IF "unit" \in DOMAIN event
                  THEN [units EXCEPT ![event.unit] = Command(event.unit, @, event.on)]
                  ELSE units
  BY DEF TypeOK, RestOK, ApplyAction
<1>2. event \in Event
  BY EventsOrdered DEF TypeOK, EventsAhead, ApplyAction
<1> HIDE DEF event
<1>3. CASE event \in [t : Nat, parameters : {TRUE}]
  <2>1. "unit" \notin DOMAIN event
    BY <1>3
  <2> QED
    BY <1>1, <2>1
<1>4. CASE event \in [t : Nat, unit : Units, on : BOOLEAN]
  <2> DEFINE v == event.unit
             s == Command(v, units[v], event.on)
  <2>1. "unit" \in DOMAIN event /\ v \in Units /\ event.on \in BOOLEAN
    BY <1>4
  <2>2. units' = [units EXCEPT ![v] = s]
    BY <1>1, <2>1
  <2>3. /\ s \in Unit /\ s.trip = units[v].trip /\ s.linkTripped = units[v].linkTripped
        /\ s.tripDue = units[v].tripDue
        /\ v \notin Continuous => s.trackDue = units[v].trackDue
    BY <1>1, <2>1, CommandResult
  <2> HIDE DEF v, s
  <2> QED
    BY <1>1, <2>1, <2>2, <2>3
<1> QED
  BY <1>2, <1>3, <1>4 DEF Event

\* After the last one of an instant the circuits and the stores have followed.
LEMMA ActionFacts ==
    ASSUME TypeOK, RestOK, EventsAhead, ApplyAction
    PROVE  /\ pc = "actions" /\ pc' \in {"actions", "protect"}
           /\ action \in 1..Len(Events) /\ action' = action + 1
           /\ action' <= Len(Events) =>
                  t <= Events[action'].t /\ (t = Events[action'].t <=> pc' = "actions")
           /\ pc' = "actions" => action' <= Len(Events)
           /\ plant' \in Plant /\ plant'.windows = plant.windows
           /\ pc' = "protect" => plant'.obs = Present'
<1> DEFINE n == action + 1
           more == action < Len(Events) /\ Events[n].t <= t
           r == Reconcile(plant, units', n)
<1>1. /\ pc = "actions" /\ action' = n
      /\ plant' = IF more THEN plant ELSE Sync(r, units', n)
      /\ pc' = IF more THEN "actions" ELSE "protect"
  BY DEF ApplyAction
<1>2. action \in 1..Len(Events) /\ Events[action].t = t
  BY <1>1, EventsOrdered DEF TypeOK, EventsAhead
<1>3. n \in Nat /\ n >= 1 /\ Len(Events) \in Nat /\ action < n /\ t \in Nat
      /\ (action < Len(Events) <=> n <= Len(Events))
  BY <1>2, EventsOrdered, Times
<1>4. n <= Len(Events) => t <= Events[n].t /\ Events[n].t \in Nat
  <2> SUFFICES ASSUME n <= Len(Events)
               PROVE  t <= Events[n].t /\ Events[n].t \in Nat
    OBVIOUS
  <2>1. n \in 1..Len(Events)
    BY <1>3
  <2> QED
    BY <1>2, <1>3, <2>1, EventsOrdered
<1>5. plant \in Plant /\ units' \in [Units -> Unit]
  BY ActionUnits DEF RestOK
<1>6. /\ r \in Plant /\ r.windows = plant.windows
  BY <1>3, <1>5, ReconcileFacts
<1> HIDE DEF r
<1>7. /\ Sync(r, units', n) \in Plant /\ Sync(r, units', n).windows = plant.windows
      /\ Sync(r, units', n).obs = Value(r, units', n)
      /\ Value(Sync(r, units', n), units', n) = Value(r, units', n)
  <2>1. /\ Sync(r, units', n) \in Plant /\ Sync(r, units', n).windows = r.windows
        /\ Sync(r, units', n).obs = Value(r, units', n)
        /\ Sync(r, units', n).mode = r.mode /\ Sync(r, units', n).touched = r.touched
    BY <1>3, <1>6, SyncFacts
  <2> QED
    BY <1>6, <2>1, ValueSame
<1>8. pc' = "protect" => plant'.obs = Present'
  BY <1>1, <1>7 DEF Present
<1>9. plant' \in Plant /\ plant'.windows = plant.windows
  BY <1>1, <1>5, <1>7
<1>10. /\ more <=> pc' = "actions"
       /\ pc' \in {"actions", "protect"}
  BY <1>1
<1>11. action' = action + 1
  BY <1>1
<1> HIDE DEF n
<1>12. /\ pc' = "actions" => n <= Len(Events)
       /\ n <= Len(Events) => (t = Events[n].t <=> pc' = "actions")
  BY <1>3, <1>4, <1>10
<1>13. /\ pc' = "actions" => action' <= Len(Events)
       /\ action' <= Len(Events) =>
              t <= Events[action'].t /\ (t = Events[action'].t <=> pc' = "actions")
  BY <1>1, <1>4, <1>12
<1> HIDE DEF more
<1> QED
  BY <1>1, <1>2, <1>8, <1>9, <1>10, <1>11, <1>13

LEMMA TypesAction ==
    ASSUME IndInv, ApplyAction
    PROVE  TypeOK' /\ RestOK' /\ TurnsInOrder'
<1> USE DEF IndInv, Timely
<1>1. UNCHANGED <<order, stop, turn, t, output, clock, load, words, waiting, flags,
                  sampled, arrival>>
  BY DEF ApplyAction
<1>2. /\ pc = "actions" /\ pc' \in {"actions", "protect"}
      /\ action' \in 1..(Len(Events) + 1)
  BY ActionFacts, EventsOrdered
<1>3. TypeOK'
  BY <1>1, <1>2, ActionUnits DEF TypeOK
<1>4. RestOK'
  BY <1>1, ActionFacts DEF RestOK
<1>5. turn = 1 /\ 1 <= Cardinality(Units)
  BY <1>2, OrderFacts DEF TurnsInOrder, RestOK, Phases
<1>6. TurnsInOrder'
  BY <1>1, <1>5 DEF TurnsInOrder
<1> QED
  BY <1>3, <1>4, <1>6

LEMMA TimelyAction ==
    ASSUME IndInv, ApplyAction
    PROVE  Timely'
<1> USE DEF IndInv, Timely
<1>1. /\ UNCHANGED <<t, output, clock, load, waiting, flags>>
      /\ pc = "actions" /\ pc' \in {"actions", "protect"}
  BY ActionFacts DEF ApplyAction
<1>2. /\ \A o \in Owners : NextTime(o)' = NextTime(o)
      /\ \A u \in Sampled : LoadTime(u)' = LoadTime(u)
      /\ OutputTime' = OutputTime
  BY <1>1 DEF NextTime, LoadTime, OutputTime
<1>3. ClocksAhead' /\ LoadsAhead' /\ RowsAhead'
  BY <1>1, <1>2 DEF ClocksAhead, LoadsAhead, ClockOpen, LoadOpen, RowsAhead
<1>4. EventsAhead'
  BY <1>1, ActionFacts DEF EventsAhead
<1>5. WaitingInv'
  BY <1>1 DEF WaitingInv
<1>6. LastServed'
  BY <1>1 DEF LastServed
<1> QED
  BY <1>3, <1>4, <1>5, <1>6

LEMMA KeptAction ==
    ASSUME IndInv, ApplyAction
    PROVE  Kept'
<1> USE DEF IndInv, Timely, Kept
<1>1. /\ UNCHANGED <<t, flags, arrival>> /\ flags.circuit
      /\ pc = "actions" /\ pc' \in {"actions", "protect"}
  BY ActionFacts DEF ApplyAction, EventsAhead
<1>2. CircuitInv' /\ FollowInv'
  BY <1>1 DEF CircuitInv, FollowInv
<1>3. UnitsInv'
  BY <1>1, ActionUnits DEF UnitsInv, Tripped
<1>4. StoresInv'
  BY <1>1, ActionFacts DEF StoresInv
<1>5. CloseInv'
  BY <1>1, ActionFacts DEF CloseInv, WindowsCloseFirst, Instant
<1> QED
  BY <1>2, <1>3, <1>4, <1>5

----------------------------------------------------------------------------
(***************************************************************************)
(* The fast checks.                                                        *)
(***************************************************************************)
\* Nothing of the grid moves without an event, a clock or a load.
LEMMA GridKept ==
    ASSUME UNCHANGED <<action, clock, load>>
    PROVE  /\ CircuitTimes' = CircuitTimes
           /\ \A o \in Owners : NextTime(o)' = NextTime(o)
           /\ \A u \in Sampled : LoadTime(u)' = LoadTime(u)
BY DEF CircuitTimes, ActionTimes, NextTime, LoadTime

\* The present plant depends on what the stores are evaluated from.
LEMMA PresentKept ==
    ASSUME UNCHANGED action,
           plant'.mode = plant.mode, plant'.touched = plant.touched,
           \A u \in Units : Tripped(units'[u]) /\ units'[u].linkTripped
                            <=> Tripped(units[u]) /\ units[u].linkTripped
    PROVE  Present' = Present
BY ValueSame DEF Present

LEMMA AfterTripsFacts ==
    ASSUME TypeOK, RestOK, NEW us \in [Units -> Unit]
    PROVE  /\ AfterTrips(us) \in Plant
           /\ AfterTrips(us).obs = Value(AfterTrips(us), us, action)
           /\ \A w \in Windowed :
                  \/ AfterTrips(us).windows[w] = plant.windows[w]
                  \/ /\ AfterTrips(us).windows[w].upto = t
                     /\ plant.windows[w].upto < t
<1> DEFINE r == Reconcile(plant, us, action)
           s == Accumulate(r, Windowed, t)
           q == Sync(s, us, action)
<1>1. plant \in Plant /\ action \in Nat /\ action >= 1 /\ t \in Int
  BY Times, EventsOrdered DEF TypeOK, RestOK
<1>2. r \in Plant /\ r.windows = plant.windows
  BY <1>1, ReconcileFacts
<1> HIDE DEF r
<1>3. /\ s \in Plant
      /\ \A w \in Windowed :
             s.windows[w] = IF w \in Windowed /\ t > r.windows[w].upto
                            THEN [anchor |-> r.obs, closed |-> r.obs, upto |-> t]
                            ELSE r.windows[w]
  BY <1>1, <1>2, AccumulateFacts
<1> HIDE DEF s
<1>4. /\ q \in Plant /\ q.windows = s.windows /\ q.obs = Value(s, us, action)
      /\ q.mode = s.mode /\ q.touched = s.touched
  BY <1>1, <1>3, SyncFacts
<1>5. AfterTrips(us) = q
  BY DEF AfterTrips, r, s
<1> HIDE DEF q
<1>6. Value(q, us, action) = Value(s, us, action)
  BY <1>4, ValueSame
<1>7. \A w \in Windowed : plant.windows[w].upto \in Int
  BY <1>1 DEF Plant, Window
<1>8. ASSUME NEW w \in Windowed
      PROVE  \/ q.windows[w] = plant.windows[w]
             \/ q.windows[w].upto = t /\ plant.windows[w].upto < t
  BY <1>1, <1>2, <1>3, <1>4, <1>7
<1> QED
  BY <1>4, <1>5, <1>6, <1>8

\* A unit that trips latches its cause and opens its link.
LEMMA ProtectFacts ==
    ASSUME TypeOK, RestOK, TurnsInOrder, Protect
    PROVE  \E over \in BOOLEAN :
              /\ units' \in [Units -> Unit]
              /\ \A u \in Units : u # Owner \/ ~over => units'[u] = units[u]
              /\ over => /\ Tripped(units'[Owner])
                         /\ units'[Owner].trackDue = units[Owner].trackDue
              /\ flags' \in [circuit : BOOLEAN, trip : BOOLEAN]
              /\ flags'.circuit = flags.circuit /\ (flags'.trip <=> flags.trip \/ over)
              /\ plant' = IF Ends("protect") /\ flags'.trip THEN AfterTrips(units')
                          ELSE plant
              /\ Owner \in Units
              /\ Turn("protect", IF flags'.trip /\ stop THEN "done" ELSE "sense")
<1>1. PICK over \in BOOLEAN :
          /\ units' = IF over THEN [units EXCEPT ![Owner] =
                                        TripBody(Owner, Latch(@, "overcurrent"))]
                      ELSE units
          /\ flags' = [flags EXCEPT !.trip = flags.trip \/ over]
          /\ plant' = IF Ends("protect") /\ (flags.trip \/ over) THEN AfterTrips(units')
                      ELSE plant
          /\ Turn("protect", IF (flags.trip \/ over) /\ stop THEN "done" ELSE "sense")
          /\ UNCHANGED order
  <2>1. ASSUME NEW A, NEW B \in BOOLEAN,
               \E over \in IF B THEN BOOLEAN ELSE {FALSE} : over \in A
        PROVE  \E over \in BOOLEAN : over \in A
    BY <2>1
  <2> QED
    BY DEF Protect
<1>2. Owner \in Units
  <2>1. "protect" \in Phases
    BY DEF Phases
  <2> QED
    BY <1>1, <2>1, TurnFacts
<1>3. /\ flags' \in [circuit : BOOLEAN, trip : BOOLEAN]
      /\ flags'.circuit = flags.circuit /\ flags'.trip = (flags.trip \/ over)
  <2> DEFINE b == flags.trip \/ over
  <2>1. b \in BOOLEAN /\ flags' = [flags EXCEPT !.trip = b]
    BY <1>1 DEF TypeOK
  <2> HIDE DEF b
  <2>2. /\ flags' \in [circuit : BOOLEAN, trip : BOOLEAN]
        /\ flags'.circuit = flags.circuit /\ flags'.trip = b
    BY <2>1 DEF TypeOK
  <2> QED
    BY <2>2 DEF b
<1>4. /\ units' \in [Units -> Unit]
      /\ \A u \in Units : u # Owner \/ ~over => units'[u] = units[u]
      /\ over => /\ Tripped(units'[Owner])
                 /\ units'[Owner].trackDue = units[Owner].trackDue
  <2> DEFINE l == Latch(units[Owner], "overcurrent")
             s == TripBody(Owner, l)
  <2>1. units \in [Units -> Unit] /\ units[Owner] \in Unit
    BY <1>2 DEF TypeOK
  <2>2. l \in Unit /\ Tripped(l) /\ l.trackDue = units[Owner].trackDue
    BY <2>1, LatchResult
  <2>3. units' = IF over THEN [units EXCEPT ![Owner] = s] ELSE units
    BY <1>1
  <2> HIDE DEF l
  <2>4. s \in Unit /\ s.trip = l.trip /\ s.trackDue = l.trackDue
    BY <2>2, TripBodyResult
  <2> HIDE DEF s
  <2> QED
    BY <1>2, <2>1, <2>2, <2>3, <2>4 DEF Tripped
<1>5. /\ plant' = IF Ends("protect") /\ flags'.trip THEN AfterTrips(units') ELSE plant
      /\ Turn("protect", IF flags'.trip /\ stop THEN "done" ELSE "sense")
      /\ flags'.trip <=> flags.trip \/ over
  BY <1>1, <1>3
<1> QED
  BY <1>2, <1>3, <1>4, <1>5

LEMMA ProtectTurn ==
    ASSUME TypeOK, RestOK, TurnsInOrder, Protect
    PROVE  /\ pc = "protect" /\ turn' \in 1 .. Len(order)
           /\ pc' \in {"protect", "sense", "done"}
           /\ pc' = "protect" => ~Ends("protect") /\ turn' <= Cardinality(Units)
           /\ pc' = "sense" => Ends("protect")
           /\ pc' # "protect" => turn' = 1 /\ \A o \in Owners : ~Had(o)'
<1>1. "protect" \in Phases /\ UNCHANGED order
  BY DEF Phases, Protect
<1>2. PICK to \in {"sense", "done"} : Turn("protect", to)
  BY ProtectFacts
<1>3. turn' = 1 => \A o \in Owners : ~Had(o)'
  BY DEF Had
<1> QED
  BY <1>1, <1>2, <1>3, TurnFacts

LEMMA TypesProtect ==
    ASSUME IndInv, Protect
    PROVE  TypeOK' /\ RestOK' /\ TurnsInOrder'
<1> USE DEF IndInv
<1>1. UNCHANGED <<order, stop, t, action, output, clock, load, words, waiting, sampled,
                  arrival>>
  BY DEF Protect
<1>2. /\ units' \in [Units -> Unit] /\ flags' \in [circuit : BOOLEAN, trip : BOOLEAN]
      /\ plant' = plant \/ plant' = AfterTrips(units')
  BY ProtectFacts
<1>3. plant' \in Plant
  BY <1>2, AfterTripsFacts DEF RestOK
<1>4. TypeOK'
  BY <1>1, <1>2, ProtectTurn DEF TypeOK
<1>5. RestOK'
  BY <1>1, <1>3 DEF RestOK
<1>6. TurnsInOrder'
  BY ProtectTurn DEF TurnsInOrder, Phases
<1> QED
  BY <1>4, <1>5, <1>6

LEMMA TimelyProtect ==
    ASSUME IndInv, Protect
    PROVE  Timely'
<1> USE DEF IndInv, Timely
<1>1. UNCHANGED <<t, action, output, clock, load, waiting>>
  BY DEF Protect
<1>2. /\ pc = "protect" /\ pc' \in {"protect", "sense", "done"}
      /\ pc' = "sense" => \A o \in Owners : ~Had(o)'
  BY ProtectTurn
<1>3. /\ \A o \in Owners : NextTime(o)' = NextTime(o)
      /\ \A u \in Sampled : LoadTime(u)' = LoadTime(u)
      /\ OutputTime' = OutputTime
  BY <1>1, GridKept DEF OutputTime
<1>4. ClocksAhead' /\ LoadsAhead' /\ RowsAhead'
  BY <1>1, <1>2, <1>3 DEF ClocksAhead, LoadsAhead, ClockOpen, LoadOpen, RowsAhead
<1>5. EventsAhead'
  BY <1>1, <1>2 DEF EventsAhead
<1>6. WaitingInv'
  <2>1. waiting = {} /\ waiting' = {} /\ BlackBoxes \subseteq Owners
    BY <1>1, <1>2, Constants DEF WaitingInv
  <2> QED
    BY <1>2, <2>1 DEF WaitingInv
<1>7. LastServed'
  BY <1>1, <1>2 DEF LastServed
<1> QED
  BY <1>4, <1>5, <1>6, <1>7

LEMMA KeptProtect ==
    ASSUME IndInv, Protect
    PROVE  Kept'
<1> USE DEF IndInv, Kept
<1>1. UNCHANGED <<t, action, clock, load, arrival>>
  BY DEF Protect
<1>2. /\ pc = "protect" /\ pc' \in {"protect", "sense", "done"}
      /\ pc' = "protect" => ~Ends("protect")
      /\ pc' = "sense" => Ends("protect") /\ \A o \in Owners : ~Had(o)'
  BY ProtectTurn
<1>3. PICK over \in BOOLEAN :
          /\ units' \in [Units -> Unit]
          /\ \A u \in Units : u # Owner \/ ~over => units'[u] = units[u]
          /\ over => /\ Tripped(units'[Owner])
                     /\ units'[Owner].trackDue = units[Owner].trackDue
          /\ flags'.circuit = flags.circuit /\ (flags'.trip <=> flags.trip \/ over)
          /\ plant' = IF Ends("protect") /\ flags'.trip THEN AfterTrips(units') ELSE plant
          /\ Owner \in Units
  BY ProtectFacts
<1>4. CircuitInv'
  BY <1>1, <1>2, <1>3, GridKept DEF CircuitInv, Instant, Phases
<1>5. UnitsInv'
  <2> SUFFICES ASSUME NEW u \in Units
               PROVE  /\ units'[u].linkTripped \/ units'[u].tripDue => Tripped(units'[u])
                      /\ units'[u].trackDue => u \in Continuous
                      /\ units'[u].trackDue /\ pc' # "done" =>
                             flags'.circuit /\ (\/ pc' \in {"actions", "protect"}
                                                \/ pc' = "sense" /\ ~Had(u)')
    BY DEF UnitsInv, Tripped
  <2>1. units'[u].trackDue = units[u].trackDue
    BY <1>3
  <2>2. units'[u].linkTripped \/ units'[u].tripDue => Tripped(units'[u])
    BY <1>3 DEF UnitsInv
  <2>3. u \in Owners
    BY Constants
  <2> QED
    BY <1>2, <1>3, <2>1, <2>2, <2>3 DEF UnitsInv
<1>6. ~flags'.trip => /\ plant' = plant /\ ~flags.trip /\ Present' = Present
                      /\ Flags(units') = Flags(units)
  <2> SUFFICES ASSUME ~flags'.trip
               PROVE  /\ plant' = plant /\ ~flags.trip /\ Present' = Present
                      /\ Flags(units') = Flags(units)
    OBVIOUS
  <2>1. plant' = plant /\ ~flags.trip /\ \A u \in Units : units'[u] = units[u]
    BY <1>3
  <2> QED
    BY <1>1, <2>1, PresentKept, FlagsSame
<1>7. StoresInv'
  <2>1. CASE flags'.trip
    <3> SUFFICES ASSUME pc' = "sense" PROVE plant'.obs = Present'
      BY <1>2, <2>1 DEF StoresInv
    <3>1. plant' = AfterTrips(units')
      BY <1>2, <1>3, <2>1
    <3>2. plant'.obs = Value(plant', units', action)
      BY <1>3, <3>1, AfterTripsFacts
    <3> QED
      BY <1>1, <3>2 DEF Present
  <2>2. CASE ~flags'.trip
    BY <1>2, <1>6, <2>2 DEF StoresInv
  <2> QED
    BY <2>1, <2>2
<1>8. FollowInv'
  BY <1>2, <1>3, <1>6 DEF FollowInv, Phases
<1>9. CloseInv'
  <2>1. CASE plant' = plant
    BY <1>1, <1>2, <1>3, <2>1 DEF CloseInv, WindowsCloseFirst, Instant, Phases
  <2>2. CASE plant' # plant
    <3>1. /\ flags'.trip
          /\ \A w \in Windowed : \/ plant'.windows[w] = plant.windows[w]
                                 \/ /\ plant'.windows[w].upto = t
                                    /\ plant.windows[w].upto < t
      BY <1>3, <2>2, AfterTripsFacts
    <3>2. pc \in Instant /\ t \in Int
      BY <1>2, Times DEF Instant, Phases
    <3>3. flags.circuit => \A w \in Windowed : plant.windows[w].upto = t
      BY <3>2 DEF CloseInv
    <3>4. flags.circuit => \A w \in Windowed : plant'.windows[w] = plant.windows[w]
      BY <3>1, <3>2, <3>3
    <3>5. \A w \in Windowed : plant'.windows[w].upto <= t'
      BY <1>1, <3>1, <3>2 DEF CloseInv
    <3>6. WindowsCloseFirst'
      BY <1>1, <1>3, <3>1, <3>4 DEF CloseInv, WindowsCloseFirst
    <3>7. flags'.circuit => \A w \in Windowed : plant'.windows[w].upto = t'
      BY <1>1, <1>3, <3>3, <3>4
    <3> QED
      BY <3>5, <3>6, <3>7 DEF CloseInv
  <2> QED
    BY <2>1, <2>2
<1> QED
  BY <1>4, <1>5, <1>7, <1>8, <1>9

----------------------------------------------------------------------------
(***************************************************************************)
(* Sampling.                                                               *)
(***************************************************************************)
\* A sampled criterion latches a trip that it leaves to the actuation.
LEMMA SenseUnits ==
    ASSUME TypeOK, RestOK, UnitsInv, Owner \in Owners, Sense
    PROVE  /\ units' \in [Units -> Unit]
           /\ \A u \in Units :
                  /\ u # Owner => units'[u] = units[u]
                  /\ u = Owner => ~units'[u].trackDue
                  /\ units'[u].branch = units[u].branch
                  /\ units'[u].linkTripped = units[u].linkTripped
                  /\ units'[u].linkTripped \/ units'[u].tripDue => Tripped(units'[u])
                  /\ Tripped(units'[u]) /\ units'[u].linkTripped
                     <=> Tripped(units[u]) /\ units[u].linkTripped
<1> DEFINE o == Owner
<1>1. CASE o \in BlackBoxes
  <2>1. units' = units /\ \A u \in Units : u # o
    BY <1>1, Constants DEF Sense
  <2> QED
    BY <2>1 DEF UnitsInv, TypeOK
<1>2. CASE o \notin BlackBoxes
  <2> DEFINE due == t = NextTime(o)
             p == IF ~due \/ o \in Continuous THEN units[o].pending
                  ELSE IF units[o].run THEN "on" ELSE "off"
  <2>1. PICK bad \in BOOLEAN :
            units' = [units EXCEPT ![o] = [Checked(@, due, bad) EXCEPT
                                              !.trackDue = FALSE, !.pending = p]]
    BY <1>2 DEF Sense
  <2> DEFINE s == Checked(units[o], due, bad)
             r == [s EXCEPT !.trackDue = FALSE, !.pending = p]
  <2>2. o \in Units /\ units \in [Units -> Unit] /\ units[o] \in Unit /\ due \in BOOLEAN
    BY <1>2, Constants DEF TypeOK
  <2>3. units' = [units EXCEPT ![o] = r]
    BY <2>1
  <2> HIDE DEF due
  <2>4. /\ s \in Unit /\ (Tripped(units[o]) => s = units[o])
        /\ s.linkTripped = units[o].linkTripped /\ s.branch = units[o].branch
        /\ s.tripDue = units[o].tripDue \/ Tripped(s)
    BY <2>2, CheckedResult
  <2> HIDE DEF s
  <2>5. p \in {"none", "off", "on"}
    BY <2>2 DEF Unit
  <2> HIDE DEF p
  <2>6. /\ r \in Unit /\ r.trip = s.trip /\ r.linkTripped = s.linkTripped
        /\ r.branch = s.branch /\ r.tripDue = s.tripDue /\ ~r.trackDue
    BY <2>4, <2>5 DEF Unit
  <2> HIDE DEF r
  <2>7. units[o].linkTripped \/ units[o].tripDue => Tripped(units[o])
    BY <2>2 DEF UnitsInv
  <2>8. /\ r.linkTripped \/ r.tripDue => Tripped(r)
        /\ Tripped(r) /\ r.linkTripped <=> Tripped(units[o]) /\ units[o].linkTripped
    BY <2>4, <2>6, <2>7 DEF Tripped
  <2>9. units' \in [Units -> Unit] /\ units'[o] = r
        /\ \A u \in Units : u # o => units'[u] = units[u]
    BY <2>2, <2>3, <2>6
  <2> HIDE DEF o
  <2>10. ASSUME NEW u \in Units
         PROVE  /\ u # o => units'[u] = units[u]
                /\ u = o => ~units'[u].trackDue
                /\ units'[u].branch = units[u].branch
                /\ units'[u].linkTripped = units[u].linkTripped
                /\ units'[u].linkTripped \/ units'[u].tripDue => Tripped(units'[u])
                /\ Tripped(units'[u]) /\ units'[u].linkTripped
                   <=> Tripped(units[u]) /\ units[u].linkTripped
    <3>1. CASE u = o
      BY <3>1, <2>4, <2>6, <2>8, <2>9
    <3>2. CASE u # o
      BY <3>2, <2>9 DEF UnitsInv
    <3> QED
      BY <3>1, <3>2
  <2> QED
    BY <2>9, <2>10 DEF o
<1> QED
  BY <1>1, <1>2

\* A controller that is tracked renews the stores.
LEMMA SensePlant ==
    ASSUME TypeOK, RestOK, UnitsInv, Owner \in Owners, Sense
    PROVE  /\ plant' \in Plant /\ plant'.windows = plant.windows
           /\ IF Owner \in Units /\ units[Owner].trackDue
              THEN plant'.obs = Present'
              ELSE plant' = plant /\ Present' = Present
<1> DEFINE o == Owner
           q == Touch(plant, o)
           s == Sync(q, units, action)
           tracks == o \in Units /\ units[o].trackDue
<1>1. plant' = IF tracks THEN s ELSE plant
  BY Constants DEF Sense, Track
<1>2. plant \in Plant /\ action \in Nat /\ action >= 1 /\ t \in Int /\ action' = action
  <2>1. action' = action
    BY DEF Sense
  <2> QED
    BY <2>1, Times, EventsOrdered DEF TypeOK, RestOK
<1>3. q \in Plant /\ q.windows = plant.windows
  BY <1>2, TouchFacts
<1> HIDE DEF q
<1>4. /\ s \in Plant /\ s.obs = Value(q, units, action) /\ s.windows = q.windows
      /\ s.mode = q.mode /\ s.touched = q.touched
  BY <1>2, <1>3, SyncFacts
<1> HIDE DEF s
<1>5. \A u \in Units : Tripped(units[u]) /\ units[u].linkTripped
                       <=> Tripped(units'[u]) /\ units'[u].linkTripped
  BY SenseUnits
<1>6. Value(q, units, action) = Value(s, units', action)
  BY <1>4, <1>5, ValueSame
<1>7. tracks => plant'.obs = Present'
  BY <1>1, <1>2, <1>4, <1>6 DEF Present
<1>8. ~tracks => plant' = plant /\ Present' = Present
  BY <1>1, <1>2, <1>5, PresentKept
<1>9. plant' \in Plant /\ plant'.windows = plant.windows
  BY <1>1, <1>2, <1>3, <1>4
<1> QED
  BY <1>7, <1>8, <1>9

\* Who samples, and what that does to the clocks.
LEMMA SenseTurn ==
    ASSUME TypeOK, RestOK, TurnsInOrder, Sense
    PROVE  /\ pc = "sense" /\ Owner \in Owners /\ turn' \in 1 .. Len(order)
           /\ \/ /\ pc' = "sense"
                 /\ \A o : Had(o)' <=> Had(o) \/ o = Owner
              \/ /\ pc' = "actuate" /\ turn' = 1
                 /\ \A o \in Owners : ~Had(o)' /\ (Had(o) \/ o = Owner)
           /\ sampled' \in [Owners -> [at : Int, saw : PlantValue]]
<1>1. "sense" \in Phases /\ UNCHANGED order /\ Turn("sense", "actuate")
      /\ "sense" # "protect"
  BY DEF Phases, Sense
<1>2. sampled' \in [Owners -> [at : Int, saw : PlantValue]]
  <2>1. /\ sampled \in [Owners -> [at : Int, saw : PlantValue]]
        /\ [at |-> t, saw |-> plant.obs] \in [at : Int, saw : PlantValue]
    BY Times DEF RestOK, Plant
  <2>2. sampled' = [sampled EXCEPT ![Owner] =
            IF t = NextTime(Owner) THEN [at |-> t, saw |-> plant.obs] ELSE @]
    BY DEF Sense
  <2> QED
    BY <2>1, <2>2
<1> QED
  BY <1>1, <1>2, TurnFacts

LEMMA SenseClocks ==
    ASSUME TypeOK, RestOK, Owner \in Owners, Sense
    PROVE  /\ clock' \in [Owners -> Int]
           /\ \A o \in Owners :
                  clock'[o] = IF o = Owner /\ t = NextTime(o) /\ o \in Continuous
                              THEN clock[o] + 1 ELSE clock[o]
           /\ waiting' = IF Owner \in BlackBoxes /\ t = NextTime(Owner)
                         THEN waiting \cup {Owner} ELSE waiting
<1>1. clock' = [clock EXCEPT ![Owner] =
          IF t = NextTime(Owner) /\ Owner \in Continuous THEN clock[Owner] + 1
          ELSE clock[Owner]]
  BY DEF Sense
<1>2. clock \in [Owners -> Int]
  BY DEF TypeOK
<1>3. waiting' = IF Owner \in BlackBoxes /\ t = NextTime(Owner)
                 THEN waiting \cup {Owner} ELSE waiting
  BY DEF Sense
<1> QED
  BY <1>1, <1>2, <1>3

LEMMA TypesSense ==
    ASSUME IndInv, Sense
    PROVE  TypeOK' /\ RestOK' /\ TurnsInOrder'
<1> USE DEF IndInv, Kept
<1>1. UNCHANGED <<order, stop, t, action, output, load, words, flags, arrival>>
  BY DEF Sense
<1>2. /\ pc = "sense" /\ pc' \in {"sense", "actuate"} /\ Owner \in Owners
      /\ turn' \in 1 .. Len(order)
      /\ sampled' \in [Owners -> [at : Int, saw : PlantValue]]
  BY SenseTurn
<1>3. clock' \in [Owners -> Int] /\ waiting' \subseteq BlackBoxes
  BY <1>2, SenseClocks DEF TypeOK
<1>4. TypeOK'
  BY <1>1, <1>2, <1>3, SenseUnits DEF TypeOK
<1>5. RestOK'
  BY <1>1, <1>2, SensePlant DEF RestOK
<1>6. TurnsInOrder'
  BY <1>2 DEF TurnsInOrder, Phases
<1> QED
  BY <1>4, <1>5, <1>6

LEMMA TimelySense ==
    ASSUME IndInv, Sense
    PROVE  Timely'
<1> USE DEF IndInv, Timely
<1>1. UNCHANGED <<t, action, output, load>>
  BY DEF Sense
<1>2. /\ pc = "sense" /\ Owner \in Owners
      /\ \/ /\ pc' = "sense"
            /\ \A o : Had(o)' <=> Had(o) \/ o = Owner
         \/ /\ pc' = "actuate"
            /\ \A o \in Owners : ~Had(o)' /\ (Had(o) \/ o = Owner)
  BY SenseTurn
<1>3. \A o \in Owners :
          IF o = Owner /\ t = NextTime(o) /\ o \in Continuous
          THEN clock'[o] = clock[o] + 1 /\ t < NextTime(o)'
          ELSE clock'[o] = clock[o] /\ NextTime(o)' = NextTime(o)
  BY <1>2, SenseClocks, Times DEF NextTime
<1>4. /\ \A u \in Sampled : LoadTime(u)' = LoadTime(u)
      /\ OutputTime' = OutputTime /\ t \in Nat
  BY <1>1, Times DEF LoadTime, OutputTime
<1>5. ClocksAhead'
  <2> SUFFICES ASSUME NEW o \in Owners
               PROVE  t <= NextTime(o)' /\ (t = NextTime(o)' => ClockOpen(o)')
    BY <1>1 DEF ClocksAhead, ClockOpen, Fresh, Had, NextTime
  <2>1. CASE o = Owner /\ t = NextTime(o) /\ o \in Continuous
    <3>1. NextTime(o)' \in Int
      BY TypesSense, SenseClocks, <1>2, <2>1, <1>3, ClockStep, Times, Constants DEF NextTime
    <3> QED
      BY <1>3, <1>4, <2>1, <3>1
  <2>2. CASE ~(o = Owner /\ t = NextTime(o) /\ o \in Continuous)
    <3>1. NextTime(o)' = NextTime(o) /\ t <= NextTime(o)
      BY <1>2, <1>3, <2>2 DEF ClocksAhead
    <3>2. t = NextTime(o) => (o \in Continuous => ~Had(o) /\ o # Owner)
      BY <1>2, <2>2 DEF ClocksAhead, ClockOpen, Fresh
    <3> QED
      BY <1>2, <3>1, <3>2 DEF ClockOpen
  <2> QED
    BY <2>1, <2>2
<1>6. LoadsAhead'
  <2>1. \A u \in Sampled : u \in Owners
    BY Constants
  <2> QED
    BY <1>1, <1>2, <1>4, <2>1 DEF LoadsAhead, LoadOpen
<1>7. RowsAhead' /\ EventsAhead'
  BY <1>1, <1>2, <1>4 DEF RowsAhead, EventsAhead
<1>8. WaitingInv'
  <2>1. \A o \in BlackBoxes : o \in Owners /\ o \notin Continuous
    BY Constants
  <2>2. \A o \in BlackBoxes : NextTime(o)' = NextTime(o)
    BY <1>3, <2>1
  <2>3. waiting \subseteq BlackBoxes /\ waiting' \subseteq BlackBoxes
    BY <1>2, SenseClocks DEF TypeOK
  <2>4. \A o \in waiting' : NextTime(o)' = t'
    <3> SUFFICES ASSUME NEW o \in waiting' PROVE NextTime(o) = t
      BY <1>1, <2>2, <2>3
    <3> QED
      BY <1>2, SenseClocks DEF WaitingInv
  <2>5. \A o \in BlackBoxes : (Had(o) \/ o = Owner) /\ NextTime(o) = t => o \in waiting'
    BY <1>2, SenseClocks DEF WaitingInv
  <2>6. ASSUME NEW o \in BlackBoxes
        PROVE  /\ pc' = "sense" /\ Had(o)' /\ NextTime(o)' = t' => o \in waiting'
               /\ pc' = "actuate" /\ NextTime(o)' = t' => o \in waiting'
    BY <1>1, <1>2, <2>1, <2>2, <2>5
  <2> QED
    BY <1>2, <2>4, <2>6 DEF WaitingInv
<1>9. LastServed'
  <2>1. \A o \in Owners : ClockAt(Clocks[o], clock'[o] - 1) <= t
    <3> SUFFICES ASSUME NEW o \in Owners
                 PROVE  ClockAt(Clocks[o], clock'[o] - 1) <= t
      OBVIOUS
    <3>1. CASE o = Owner /\ t = NextTime(o) /\ o \in Continuous
      <4>1. clock'[o] - 1 = clock[o]
        BY <1>3, <3>1, Times
      <4> QED
        BY <1>4, <3>1, <4>1 DEF NextTime
    <3>2. CASE ~(o = Owner /\ t = NextTime(o) /\ o \in Continuous)
      BY <1>3, <3>2 DEF LastServed
    <3> QED
      BY <3>1, <3>2
  <2> QED
    BY <1>1, <1>2, <2>1 DEF LastServed
<1> QED
  BY <1>5, <1>6, <1>7, <1>8, <1>9

LEMMA KeptSense ==
    ASSUME IndInv, Sense
    PROVE  Kept'
<1> USE DEF IndInv, Kept
<1>1. UNCHANGED <<t, action, load, flags, arrival>>
  BY DEF Sense
<1>2. /\ pc = "sense" /\ Owner \in Owners
      /\ \/ /\ pc' = "sense"
            /\ \A o : Had(o)' <=> Had(o) \/ o = Owner
         \/ /\ pc' = "actuate"
            /\ \A o \in Owners : ~Had(o)' /\ (Had(o) \/ o = Owner)
  BY SenseTurn
<1>3. CircuitInv'
  <2>1. \A o \in Sampled \cup BlackBoxes : clock'[o] = clock[o]
    BY <1>2, SenseClocks, Constants
  <2>2. CircuitTimes' = CircuitTimes
    BY <1>1, <2>1 DEF CircuitTimes, ActionTimes, NextTime, LoadTime
  <2> QED
    BY <1>1, <1>2, <2>2 DEF CircuitInv, Instant, Phases
<1>4. UnitsInv'
  <2> SUFFICES ASSUME NEW u \in Units
               PROVE  /\ units'[u].linkTripped \/ units'[u].tripDue => Tripped(units'[u])
                      /\ units'[u].trackDue =>
                             u \in Continuous /\ flags.circuit /\ pc' = "sense" /\ ~Had(u)'
    BY <1>1 DEF UnitsInv, Tripped
  <2>1. u \in Owners
    BY Constants
  <2>2. units'[u].trackDue => u # Owner /\ units[u].trackDue
    BY <1>2, SenseUnits
  <2>3. units[u].trackDue => u \in Continuous /\ flags.circuit /\ ~Had(u)
    BY <1>2 DEF UnitsInv
  <2> QED
    BY <1>2, <2>1, <2>2, <2>3, SenseUnits
<1>5. StoresInv'
  <2> SUFFICES plant'.obs = Present'
    BY DEF StoresInv
  <2>1. plant.obs = Present
    BY <1>2 DEF StoresInv
  <2> QED
    BY <1>2, <2>1, SensePlant
<1>6. FollowInv'
  <2> SUFFICES ASSUME ~flags.circuit, ~flags.trip
               PROVE  /\ plant'.mode = Flags(units')
                      /\ \A w \in Windowed : plant'.windows[w].anchor = Present'
    BY <1>1, <1>2 DEF FollowInv
  <2>1. Owner \in Units => ~units[Owner].trackDue
    BY <1>2 DEF UnitsInv
  <2>2. plant' = plant /\ Present' = Present
    BY <1>2, <2>1, SensePlant
  <2>3. Flags(units') = Flags(units)
    BY <1>2, SenseUnits, FlagsSame
  <2>4. "sense" \in Phases
    BY DEF Phases
  <2> QED
    BY <1>2, <2>2, <2>3, <2>4 DEF FollowInv
<1>7. CloseInv'
  BY <1>1, <1>2, SensePlant DEF CloseInv, WindowsCloseFirst, Instant, Phases
<1> QED
  BY <1>3, <1>4, <1>5, <1>6, <1>7

----------------------------------------------------------------------------
(***************************************************************************)
(* Actuation.                                                              *)
(***************************************************************************)
Trips == Owner \in Units /\ units[Owner].tripDue
Drives == Owner \in waiting \/ (Owner \in Sampled /\ t = LoadTime(Owner))

\* A unit changes the circuits by a trip or at a load.
LEMMA ActuateUnits ==
    ASSUME TypeOK, RestOK, UnitsInv, Owner \in Owners, Actuate
    PROVE  /\ units' \in [Units -> Unit] /\ words' \in [Sampled -> Registered]
           /\ \A u \in Units :
                  /\ units'[u].linkTripped \/ units'[u].tripDue => Tripped(units'[u])
                  /\ units'[u].trackDue = units[u].trackDue
           /\ ~Trips /\ ~Drives =>
                  \A u \in Units : /\ units'[u].branch = units[u].branch
                                   /\ units'[u].linkTripped = units[u].linkTripped
                                   /\ units'[u].trip = units[u].trip
<1> DEFINE o == Owner
           s == IF Trips THEN [TripBody(o, units[o]) EXCEPT !.tripDue = FALSE]
                ELSE units[o]
           w == Registers(o, words[o], Stage(o, s, s.pending = "on"))
           r == [Driven(o, s, w) EXCEPT
                    !.pending = IF t = NextTime(o) THEN "none" ELSE @]
<1>1. /\ units \in [Units -> Unit] /\ words \in [Sampled -> Registered]
      /\ clock \in [Owners -> Int]
      /\ o \in Owners /\ Sampled = Units \ Continuous /\ Owners = Units \cup BlackBoxes
      /\ Units \cap BlackBoxes = {} /\ Continuous \subseteq Units
  BY Constants DEF TypeOK, RestOK
<1>2. /\ words' = IF o \in Sampled THEN [words EXCEPT ![o] = w] ELSE words
      /\ units' = CASE o \in Sampled -> [units EXCEPT ![o] = r]
                    [] o \in Continuous -> [units EXCEPT ![o] = s]
                    [] o \in BlackBoxes -> units
  BY DEF Actuate, Trips
<1>3. \A u \in Units : units[u].linkTripped \/ units[u].tripDue => Tripped(units[u])
  BY DEF UnitsInv
<1>4. ASSUME o \in Units
      PROVE  /\ s \in Unit /\ (s.linkTripped \/ s.tripDue => Tripped(s))
             /\ s.trackDue = units[o].trackDue
             /\ ~Trips => s = units[o]
  <2>1. units[o] \in Unit
    BY <1>1, <1>4
  <2>2. CASE Trips
    <3> DEFINE b == TripBody(o, units[o])
    <3>1. b \in Unit /\ b.trip = units[o].trip /\ b.trackDue = units[o].trackDue
      BY <2>1, TripBodyResult
    <3>2. s = [b EXCEPT !.tripDue = FALSE]
      BY <2>2
    <3> HIDE DEF b, s
    <3>3. s \in Unit /\ s.trip = b.trip /\ s.trackDue = b.trackDue
      BY <3>1, <3>2 DEF Unit
    <3>4. Tripped(units[o])
      BY <1>3, <2>2 DEF Trips
    <3> QED
      BY <2>2, <3>1, <3>3, <3>4 DEF Tripped
  <2>3. CASE ~Trips
    BY <1>3, <1>4, <2>1, <2>3
  <2> QED
    BY <2>2, <2>3
<1> HIDE DEF s
<1>5. ASSUME o \in Sampled
      PROVE  /\ w \in Registered
             /\ r \in Unit /\ (r.linkTripped \/ r.tripDue => Tripped(r))
             /\ r.trackDue = s.trackDue /\ r.linkTripped = s.linkTripped /\ r.trip = s.trip
             /\ t # LoadTime(o) => r.branch = s.branch
  <2>1. s \in Unit /\ words[o] \in Registered /\ clock[o] \in Int
    BY <1>1, <1>4, <1>5
  <2>2. Stage(o, s, s.pending = "on") \in BOOLEAN
    BY DEF Stage
  <2>3. w \in Registered
    <3> DEFINE on == Stage(o, s, s.pending = "on")
    <3> HIDE DEF on
    <3>1. on \in BOOLEAN
      BY <2>2 DEF on
    <3>2. Registers(o, words[o], on) \in Registered
      BY <1>5, <2>1, <3>1, RegistersType
    <3> QED
      BY <3>2 DEF on
  <2> HIDE DEF w
  <2> DEFINE d == Driven(o, s, w)
  <2>4. /\ d \in Unit /\ d.trip = s.trip /\ d.linkTripped = s.linkTripped
        /\ d.tripDue = s.tripDue /\ d.trackDue = s.trackDue
        /\ t # LoadTime(o) => d = s
    BY <1>5, <2>1, <2>3, DrivenResult
  <2> HIDE DEF d
  <2>5. r = [d EXCEPT !.pending = IF t = NextTime(o) THEN "none" ELSE @]
    BY DEF d
  <2> HIDE DEF r
  <2>6. /\ r \in Unit /\ r.trip = d.trip /\ r.linkTripped = d.linkTripped
        /\ r.tripDue = d.tripDue /\ r.trackDue = d.trackDue /\ r.branch = d.branch
    BY <2>4, <2>5 DEF Unit
  <2> QED
    BY <1>1, <1>4, <1>5, <2>3, <2>4, <2>6 DEF Tripped
<1> HIDE DEF r, w, o
<1>6. CASE o \in Sampled
  <2>1. o \in Units /\ words' = [words EXCEPT ![o] = w] /\ units' = [units EXCEPT ![o] = r]
    BY <1>1, <1>2, <1>6
  <2>2. /\ units' \in [Units -> Unit] /\ words' \in [Sampled -> Registered]
        /\ units'[o] = r /\ \A u \in Units : u # o => units'[u] = units[u]
    BY <1>1, <1>5, <1>6, <2>1
  <2>3. ~Drives => t # LoadTime(o)
    BY <1>6 DEF Drives, o
  <2> QED
    BY <1>3, <1>4, <1>5, <1>6, <2>1, <2>2, <2>3
<1>7. CASE o \in Continuous
  <2>1. o \in Units /\ words' = words /\ units' = [units EXCEPT ![o] = s]
    BY <1>1, <1>2, <1>7
  <2>2. /\ units' \in [Units -> Unit]
        /\ units'[o] = s /\ \A u \in Units : u # o => units'[u] = units[u]
    BY <1>1, <1>4, <2>1
  <2> QED
    BY <1>1, <1>3, <1>4, <2>1, <2>2
<1>8. CASE o \in BlackBoxes
  <2>1. words' = words /\ units' = units
    BY <1>1, <1>2, <1>8
  <2> QED
    BY <1>1, <1>3, <2>1
<1> QED
  BY <1>1, <1>6, <1>7, <1>8

LEMMA ActuateFlags ==
    ASSUME TypeOK, Actuate
    PROVE  /\ flags' \in [circuit : BOOLEAN, trip : BOOLEAN]
           /\ flags'.circuit = flags.circuit /\ (flags'.trip <=> flags.trip \/ Trips)
<1> DEFINE b == flags.trip \/ Trips
<1>1. b \in BOOLEAN /\ flags' = [flags EXCEPT !.trip = b]
  BY DEF Actuate, Trips
<1> HIDE DEF b
<1>2. /\ flags' \in [circuit : BOOLEAN, trip : BOOLEAN]
      /\ flags'.circuit = flags.circuit /\ flags'.trip = b
  BY <1>1 DEF TypeOK
<1> QED
  BY <1>2 DEF b

\* At the end of a circuit instant, or after a trip, the circuits have
\* followed and the windows start again.
LEMMA AfterActuationFacts ==
    ASSUME TypeOK, NEW us \in [Units -> Unit], NEW p \in Plant, NEW trip \in BOOLEAN
    PROVE  LET q == AfterActuation(us, p, trip)
           IN  /\ q \in Plant
               /\ \A w \in Windowed :
                      \/ /\ q.windows[w].upto = p.windows[w].upto
                         /\ q.windows[w].closed = p.windows[w].closed
                      \/ trip /\ q.windows[w].upto = t /\ p.windows[w].upto < t
               /\ ~(trip /\ stop) /\ (flags.circuit \/ trip) =>
                      /\ q.mode = Flags(us)
                      /\ \A w \in Windowed : q.windows[w].anchor = Value(q, us, action)
               /\ ~trip /\ ~flags.circuit /\ p.mode = Flags(us) => q = p
<1> DEFINE switched == Reconcile(p, us, action)
           closed == Accumulate(switched, Windowed, t)
           settled == IF trip THEN closed ELSE switched
           synced == Sync(settled, us, action)
           seeded == Reseed(settled, us, action)
           q == AfterActuation(us, p, trip)
<1>1. action \in Nat /\ action >= 1 /\ t \in Int
  BY Times, EventsOrdered DEF TypeOK
<1>2. /\ switched \in Plant /\ switched.mode = Flags(us) /\ switched.windows = p.windows
      /\ p.mode = Flags(us) => switched = p
  BY <1>1, ReconcileFacts DEF Reconcile
<1> HIDE DEF switched
<1>3. /\ closed \in Plant /\ closed.mode = switched.mode
      /\ \A w \in Windowed :
             closed.windows[w] = IF w \in Windowed /\ t > switched.windows[w].upto
                      THEN [anchor |-> switched.obs, closed |-> switched.obs, upto |-> t]
                      ELSE switched.windows[w]
  BY <1>1, <1>2, AccumulateFacts
<1> HIDE DEF closed
<1>4. \A w \in Windowed : p.windows[w].upto \in Int
  BY DEF Plant, Window
<1>5. /\ settled \in Plant /\ settled.mode = Flags(us)
      /\ \A w \in Windowed :
             \/ /\ settled.windows[w].upto = p.windows[w].upto
                /\ settled.windows[w].closed = p.windows[w].closed
             \/ trip /\ settled.windows[w].upto = t /\ p.windows[w].upto < t
      /\ ~trip => settled = switched
  BY <1>1, <1>2, <1>3, <1>4
<1> HIDE DEF settled
<1>6. /\ synced \in Plant /\ synced.windows = settled.windows
  BY <1>1, <1>5, SyncFacts
<1>7. /\ seeded \in Plant /\ seeded.mode = Flags(us)
      /\ seeded.touched = settled.touched
      /\ \A w \in Windowed :
             /\ seeded.windows[w].anchor = Value(settled, us, action)
             /\ seeded.windows[w].closed = settled.windows[w].closed
             /\ seeded.windows[w].upto = settled.windows[w].upto
  BY <1>1, <1>5, ReseedFacts
<1>8. q = IF trip /\ stop THEN synced
          ELSE IF flags.circuit \/ trip THEN seeded ELSE settled
  BY DEF AfterActuation, NewWindows, settled, closed, switched
<1> HIDE DEF synced, seeded, q
<1>9. Value(seeded, us, action) = Value(settled, us, action)
  BY <1>5, <1>7, ValueSame
<1>10. q \in Plant
  BY <1>5, <1>6, <1>7, <1>8
<1>11. ASSUME NEW w \in Windowed
       PROVE  \/ /\ q.windows[w].upto = p.windows[w].upto
                 /\ q.windows[w].closed = p.windows[w].closed
              \/ trip /\ q.windows[w].upto = t /\ p.windows[w].upto < t
  <2>1. /\ q.windows[w].upto = settled.windows[w].upto
        /\ q.windows[w].closed = settled.windows[w].closed
    BY <1>6, <1>7, <1>8
  <2> QED
    BY <1>5, <2>1
<1>12. ~(trip /\ stop) /\ (flags.circuit \/ trip) =>
           /\ q.mode = Flags(us)
           /\ \A w \in Windowed : q.windows[w].anchor = Value(q, us, action)
  BY <1>7, <1>8, <1>9
<1>13. ~trip /\ ~flags.circuit /\ p.mode = Flags(us) => q = p
  BY <1>2, <1>5, <1>8
<1> QED
  BY <1>10, <1>11, <1>12, <1>13 DEF q

LEMMA ActuatePlant ==
    ASSUME TypeOK, RestOK, UnitsInv, Owner \in Owners, Actuate
    PROVE  /\ plant' \in Plant
           /\ \A w \in Windowed :
                  \/ /\ plant'.windows[w].upto = plant.windows[w].upto
                     /\ plant'.windows[w].closed = plant.windows[w].closed
                  \/ /\ flags'.trip
                     /\ plant'.windows[w].upto = t /\ plant.windows[w].upto < t
           /\ Ends("actuate") /\ ~(flags'.trip /\ stop) /\ (flags.circuit \/ flags'.trip) =>
                  /\ plant'.mode = Flags(units')
                  /\ \A w \in Windowed : plant'.windows[w].anchor = Present'
           /\ ~Drives /\ ~flags'.trip /\ ~flags.circuit /\ plant.mode = Flags(units') =>
                  plant' = plant
<1> DEFINE p == IF Drives THEN Touch(plant, Owner) ELSE plant
           q == AfterActuation(units', p, flags'.trip)
<1>1. plant \in Plant /\ t \in Int
  BY Times DEF RestOK
<1>2. /\ p \in Plant /\ p.windows = plant.windows /\ p.mode = plant.mode
      /\ ~Drives => p = plant
  BY <1>1, TouchFacts
<1>3. units' \in [Units -> Unit] /\ flags'.trip \in BOOLEAN /\ action' = action
  <2>1. action' = action
    BY DEF Actuate
  <2> QED
    BY <2>1, ActuateUnits, ActuateFlags
<1>4. plant' = IF Ends("actuate") THEN q ELSE p
  <2>1. flags'.trip = (flags.trip \/ Trips)
    <3>1. flags.trip \in BOOLEAN /\ Trips \in BOOLEAN
      <4>1. units \in [Units -> Unit] /\ flags \in [circuit : BOOLEAN, trip : BOOLEAN]
        BY DEF TypeOK
      <4> QED
        BY <4>1 DEF Trips, Unit
    <3> QED
      BY <3>1, <1>3, ActuateFlags
  <2>2. plant' = IF Ends("actuate")
                 THEN AfterActuation(units', p, flags.trip \/ Trips) ELSE p
    BY DEF Actuate, Drives, Trips
  <2> QED
    BY <2>1, <2>2
<1> HIDE DEF p
<1>5. /\ q \in Plant
      /\ \A w \in Windowed :
             \/ /\ q.windows[w].upto = p.windows[w].upto
                /\ q.windows[w].closed = p.windows[w].closed
             \/ flags'.trip /\ q.windows[w].upto = t /\ p.windows[w].upto < t
      /\ ~(flags'.trip /\ stop) /\ (flags.circuit \/ flags'.trip) =>
             /\ q.mode = Flags(units')
             /\ \A w \in Windowed : q.windows[w].anchor = Value(q, units', action)
      /\ ~flags'.trip /\ ~flags.circuit /\ p.mode = Flags(units') => q = p
  BY <1>2, <1>3, AfterActuationFacts
<1> HIDE DEF q
<1>6. plant' = q => Present' = Value(q, units', action)
  BY <1>3 DEF Present
<1>7. plant' \in Plant
  BY <1>2, <1>4, <1>5
<1>8. ASSUME NEW w \in Windowed
      PROVE  \/ /\ plant'.windows[w].upto = plant.windows[w].upto
                /\ plant'.windows[w].closed = plant.windows[w].closed
             \/ /\ flags'.trip
                /\ plant'.windows[w].upto = t /\ plant.windows[w].upto < t
  BY <1>2, <1>4, <1>5
<1>9. Ends("actuate") /\ ~(flags'.trip /\ stop) /\ (flags.circuit \/ flags'.trip) =>
          /\ plant'.mode = Flags(units')
          /\ \A w \in Windowed : plant'.windows[w].anchor = Present'
  BY <1>4, <1>5, <1>6
<1>10. ~Drives /\ ~flags'.trip /\ ~flags.circuit /\ plant.mode = Flags(units') =>
           plant' = plant
  BY <1>2, <1>4, <1>5
<1> QED
  BY <1>7, <1>8, <1>9, <1>10

\* Who actuates, and what that does to the clocks and loads.
LEMMA ActuateTurn ==
    ASSUME TypeOK, RestOK, TurnsInOrder, Actuate
    PROVE  /\ pc = "actuate" /\ Owner \in Owners /\ turn' \in 1 .. Len(order)
           /\ \/ /\ pc' = "actuate"
                 /\ \A o : Had(o)' <=> Had(o) \/ o = Owner
              \/ /\ pc' = IF flags'.trip /\ stop THEN "done" ELSE "log"
                 /\ turn' = 1 /\ Ends("actuate")
                 /\ \A o \in Owners : Had(o) \/ o = Owner
<1> DEFINE to == IF flags'.trip /\ stop THEN "done" ELSE "log"
<1>1. "actuate" \in Phases /\ UNCHANGED order /\ "actuate" # "protect"
  BY DEF Phases, Actuate
<1>2. Turn("actuate", to)
  <2>1. Turn("actuate", IF (flags.trip \/ Trips) /\ stop THEN "done" ELSE "log")
    BY DEF Actuate, Trips
  <2>2. flags'.trip <=> flags.trip \/ Trips
    BY ActuateFlags
  <2> QED
    BY <2>1, <2>2
<1> HIDE DEF to
<1>3. /\ pc = "actuate" /\ Owner \in Owners /\ turn' \in 1 .. Len(order)
      /\ Ends("actuate") => /\ pc' = to /\ turn' = 1
                            /\ \A o \in Owners : Had(o) \/ o = Owner
      /\ ~Ends("actuate") => /\ pc' = "actuate"
                             /\ \A o : Had(o)' <=> Had(o) \/ o = Owner
  BY <1>1, <1>2, TurnFacts
<1> QED
  BY <1>3 DEF to

LEMMA ActuateClocks ==
    ASSUME TypeOK, Owner \in Owners, Actuate
    PROVE  /\ clock' \in [Owners -> Int] /\ load' \in [Sampled -> Int]
           /\ \A o \in Owners :
                  clock'[o] = IF o = Owner /\ (o \in waiting
                                               \/ (o \in Sampled /\ t = NextTime(o)))
                              THEN clock[o] + 1 ELSE clock[o]
           /\ \A u \in Sampled :
                  load'[u] = IF u = Owner /\ t = LoadTime(u)
                             THEN load[u] + 1 ELSE load[u]
           /\ waiting' = waiting \ {Owner}
<1>1. clock' = [clock EXCEPT ![Owner] =
          IF Owner \in waiting \/ (Owner \in Sampled /\ t = NextTime(Owner))
          THEN clock[Owner] + 1 ELSE clock[Owner]]
  BY DEF Actuate
<1>2. load' = IF Owner \in Sampled /\ t = LoadTime(Owner)
              THEN [load EXCEPT ![Owner] = load[Owner] + 1] ELSE load
  BY DEF Actuate
<1>3. waiting' = waiting \ {Owner}
  BY DEF Actuate
<1>4. clock \in [Owners -> Int] /\ load \in [Sampled -> Int]
  BY DEF TypeOK
<1>5. clock' \in [Owners -> Int] /\ load' \in [Sampled -> Int]
  BY <1>1, <1>2, <1>4
<1> QED
  BY <1>1, <1>2, <1>3, <1>4, <1>5

LEMMA TypesActuate ==
    ASSUME IndInv, Actuate
    PROVE  TypeOK' /\ RestOK' /\ TurnsInOrder'
<1> USE DEF IndInv, Kept
<1>1. UNCHANGED <<order, stop, t, action, output, sampled, arrival>>
  BY DEF Actuate
<1>2. /\ pc = "actuate" /\ pc' \in {"actuate", "done", "log"} /\ Owner \in Owners
      /\ turn' \in 1 .. Len(order) /\ (pc' # "actuate" => turn' = 1)
  BY ActuateTurn
<1>3. /\ clock' \in [Owners -> Int] /\ load' \in [Sampled -> Int]
      /\ waiting' \subseteq BlackBoxes
  BY <1>2, ActuateClocks DEF TypeOK
<1>4. TypeOK'
  BY <1>1, <1>2, <1>3, ActuateUnits, ActuateFlags DEF TypeOK
<1>5. RestOK'
  BY <1>1, <1>2, ActuateUnits, ActuatePlant DEF RestOK
<1>6. TurnsInOrder'
  BY <1>2 DEF TurnsInOrder, Phases
<1> QED
  BY <1>4, <1>5, <1>6

\* What is due is served: an owner whose turn it is has no clock or load left
\* at the present instant, the others keep theirs.
LEMMA ActuateServes ==
    ASSUME IndInv, Actuate
    PROVE  /\ \A o \in Owners :
                  IF o = Owner /\ (o \in waiting \/ (o \in Sampled /\ t = NextTime(o)))
                  THEN clock'[o] = clock[o] + 1 /\ t = NextTime(o)
                  ELSE clock'[o] = clock[o] /\ NextTime(o)' = NextTime(o)
           /\ \A u \in Sampled :
                  IF u = Owner /\ t = LoadTime(u)
                  THEN load'[u] = load[u] + 1
                  ELSE load'[u] = load[u] /\ LoadTime(u)' = LoadTime(u)
           /\ \A o \in Owners :
                  /\ t <= NextTime(o)'
                  /\ t = NextTime(o)' => o # Owner /\ o \notin Continuous /\ ~Had(o)
           /\ \A u \in Sampled :
                  /\ t <= LoadTime(u)'
                  /\ t = LoadTime(u)' => u # Owner /\ ~Had(u)
<1> USE DEF IndInv, Timely
<1>1. pc = "actuate" /\ Owner \in Owners
  BY ActuateTurn
<1>2. \A o \in Owners :
          IF o = Owner /\ (o \in waiting \/ (o \in Sampled /\ t = NextTime(o)))
          THEN clock'[o] = clock[o] + 1 /\ t = NextTime(o) /\ t < NextTime(o)'
          ELSE clock'[o] = clock[o] /\ NextTime(o)' = NextTime(o)
  <2> SUFFICES ASSUME NEW o \in Owners
               PROVE  IF o = Owner /\ (o \in waiting \/ (o \in Sampled /\ t = NextTime(o)))
                      THEN clock'[o] = clock[o] + 1 /\ t = NextTime(o) /\ t < NextTime(o)'
                      ELSE clock'[o] = clock[o] /\ NextTime(o)' = NextTime(o)
    OBVIOUS
  <2>1. o \in waiting => t = NextTime(o)
    BY <1>1 DEF WaitingInv
  <2>2. NextTime(o) < ClockAt(Clocks[o], clock[o] + 1)
    BY Times
  <2> QED
    BY <1>1, <2>1, <2>2, ActuateClocks DEF NextTime
<1>3. \A u \in Sampled :
          IF u = Owner /\ t = LoadTime(u)
          THEN load'[u] = load[u] + 1 /\ t < LoadTime(u)'
          ELSE load'[u] = load[u] /\ LoadTime(u)' = LoadTime(u)
  BY <1>1, ActuateClocks, Times DEF LoadTime
<1>4. /\ \A o \in Owners : NextTime(o)' \in Int
      /\ \A u \in Sampled : LoadTime(u)' \in Int
      /\ t \in Int
  <2>1. /\ \A o \in Owners : clock'[o] \in Int /\ Clocks[o] \in Clock
        /\ \A u \in Sampled : load'[u] \in Int /\ Loads[u] \in Clock
    BY <1>1, ActuateClocks, Constants
  <2> QED
    BY <2>1, ClockStep, Times DEF NextTime, LoadTime
<1>5. ASSUME NEW o \in Owners
      PROVE  /\ t <= NextTime(o)'
             /\ t = NextTime(o)' => o # Owner /\ o \notin Continuous /\ ~Had(o)
  <2>1. CASE o = Owner /\ (o \in waiting \/ (o \in Sampled /\ t = NextTime(o)))
    BY <1>2, <1>4, <2>1
  <2>2. CASE ~(o = Owner /\ (o \in waiting \/ (o \in Sampled /\ t = NextTime(o))))
    <3>1. NextTime(o)' = NextTime(o) /\ t <= NextTime(o)
      BY <1>1, <1>2, <2>2 DEF ClocksAhead
    <3>2. t = NextTime(o) => o \notin Continuous /\ ~Had(o)
      BY <1>1 DEF ClocksAhead, ClockOpen, Fresh
    <3>3. o = Owner => t # NextTime(o)
      <4>1. o \in Sampled \/ o \in Continuous \/ o \in BlackBoxes
        BY Constants
      <4> QED
        BY <1>1, <2>2, <3>2, <4>1 DEF WaitingInv
    <3> QED
      BY <3>1, <3>2, <3>3
  <2> QED
    BY <2>1, <2>2
<1>6. ASSUME NEW u \in Sampled
      PROVE  /\ t <= LoadTime(u)'
             /\ t = LoadTime(u)' => u # Owner /\ ~Had(u)
  <2>1. CASE u = Owner /\ t = LoadTime(u)
    BY <1>3, <1>4, <2>1
  <2>2. CASE ~(u = Owner /\ t = LoadTime(u))
    <3>1. LoadTime(u)' = LoadTime(u) /\ t <= LoadTime(u)
      BY <1>1, <1>3, <2>2 DEF LoadsAhead
    <3>2. t = LoadTime(u) => ~Had(u)
      BY <1>1 DEF LoadsAhead, LoadOpen, Fresh
    <3> QED
      BY <2>2, <3>1, <3>2
  <2> QED
    BY <2>1, <2>2
<1> QED
  BY <1>2, <1>3, <1>5, <1>6

LEMMA TimelyActuate ==
    ASSUME IndInv, Actuate
    PROVE  Timely'
<1> USE DEF IndInv, Timely
<1>1. UNCHANGED <<t, action, output>>
  BY DEF Actuate
<1>2. /\ pc = "actuate" /\ Owner \in Owners
      /\ \/ /\ pc' = "actuate"
            /\ \A o : Had(o)' <=> Had(o) \/ o = Owner
         \/ /\ pc' \in {"done", "log"}
            /\ \A o \in Owners : Had(o) \/ o = Owner
  BY ActuateTurn
<1>3. \A u \in Sampled : u \in Owners
  BY Constants
<1>4. ClocksAhead'
  <2> SUFFICES ASSUME NEW o \in Owners
               PROVE  t <= NextTime(o)' /\ (t = NextTime(o)' => ClockOpen(o)' \/ pc' = "done")
    BY <1>1 DEF ClocksAhead, ClockOpen, Fresh, Had, NextTime
  <2> QED
    BY <1>2, ActuateServes DEF ClockOpen
<1>5. LoadsAhead'
  <2> SUFFICES ASSUME NEW u \in Sampled
               PROVE  t <= LoadTime(u)' /\ (t = LoadTime(u)' => LoadOpen(u)' \/ pc' = "done")
    BY <1>1 DEF LoadsAhead, LoadOpen, Fresh, Had, LoadTime
  <2> QED
    BY <1>2, <1>3, ActuateServes DEF LoadOpen
<1>6. RowsAhead' /\ EventsAhead'
  BY <1>1, <1>2 DEF RowsAhead, EventsAhead, OutputTime
<1>7. WaitingInv'
  <2>1. waiting' = waiting \ {Owner} /\ waiting \subseteq BlackBoxes
        /\ BlackBoxes \subseteq Owners
    BY <1>2, ActuateClocks, Constants DEF TypeOK
  <2>2. \A o \in waiting' : NextTime(o)' = t /\ ~Had(o) /\ o # Owner
    <3> SUFFICES ASSUME NEW o \in waiting'
                 PROVE  NextTime(o)' = t /\ ~Had(o) /\ o # Owner
      OBVIOUS
    <3>1. o \in waiting /\ o # Owner /\ o \in Owners
      BY <2>1
    <3>2. NextTime(o)' = NextTime(o) /\ NextTime(o) = t
      BY <1>2, <3>1, ActuateServes DEF WaitingInv
    <3> QED
      BY <3>1, <3>2, ActuateServes
  <2>3. pc' = "log" => waiting' = {}
    BY <1>2, <2>1, <2>2
  <2>4. ASSUME NEW o \in BlackBoxes, pc' = "actuate", NextTime(o)' = t
        PROVE  o \in waiting'
    <3>1. o \in Owners /\ o # Owner
      BY <2>1, <2>4, ActuateServes
    <3>2. NextTime(o) = t
      BY <2>4, <3>1, ActuateServes
    <3> QED
      BY <1>2, <2>1, <3>1, <3>2 DEF WaitingInv
  <2> QED
    BY <1>1, <1>2, <2>2, <2>3, <2>4 DEF WaitingInv
<1>8. LastServed'
  <2>1. /\ \A o \in Owners : clock[o] \in Int
        /\ \A u \in Sampled : load[u] \in Int
        /\ t \in Int
    BY Times
  <2>2. \A o \in Owners : ClockAt(Clocks[o], clock'[o] - 1) <= t
    <3> SUFFICES ASSUME NEW o \in Owners
                 PROVE  ClockAt(Clocks[o], clock'[o] - 1) <= t
      OBVIOUS
    <3>1. CASE clock'[o] = clock[o] + 1 /\ t = NextTime(o)
      <4>1. clock'[o] - 1 = clock[o]
        BY <2>1, <3>1
      <4> QED
        BY <2>1, <3>1, <4>1 DEF NextTime
    <3>2. CASE clock'[o] = clock[o]
      BY <3>2 DEF LastServed
    <3> QED
      BY <3>1, <3>2, ActuateServes
  <2>3. \A u \in Sampled : ClockAt(Loads[u], load'[u] - 1) <= t
    <3> SUFFICES ASSUME NEW u \in Sampled
                 PROVE  ClockAt(Loads[u], load'[u] - 1) <= t
      OBVIOUS
    <3>1. CASE load'[u] = load[u] + 1 /\ t = LoadTime(u)
      <4>1. load'[u] - 1 = load[u]
        BY <2>1, <3>1
      <4> QED
        BY <2>1, <3>1, <4>1 DEF LoadTime
    <3>2. CASE load'[u] = load[u]
      BY <3>2 DEF LastServed
    <3> QED
      BY <3>1, <3>2, ActuateServes
  <2> QED
    BY <1>1, <1>2, <2>2, <2>3 DEF LastServed
<1> QED
  BY <1>4, <1>5, <1>6, <1>7, <1>8

LEMMA KeptActuate ==
    ASSUME IndInv, Actuate
    PROVE  Kept'
<1> USE DEF IndInv, Timely, Kept
<1>1. UNCHANGED <<t, action, arrival>>
  BY DEF Actuate
<1>2. /\ pc = "actuate" /\ Owner \in Owners
      /\ \/ pc' = "actuate"
         \/ /\ pc' = IF flags'.trip /\ stop THEN "done" ELSE "log"
            /\ Ends("actuate")
  BY ActuateTurn
<1>3. flags'.circuit = flags.circuit /\ (flags'.trip <=> flags.trip \/ Trips)
  BY ActuateFlags
<1>4. ~flags.circuit => ~Drives /\ CircuitTimes' = CircuitTimes
  <2> SUFFICES ASSUME ~flags.circuit
               PROVE  ~Drives /\ CircuitTimes' = CircuitTimes
    OBVIOUS
  <2>1. t \notin CircuitTimes
    BY <1>2 DEF CircuitInv, Instant, Phases
  <2>2. /\ \A o \in Sampled \cup BlackBoxes : t # NextTime(o)
        /\ \A u \in Sampled : t # LoadTime(u)
    BY <2>1 DEF CircuitTimes
  <2>3. Owner \notin waiting
    BY <1>2, <2>2 DEF WaitingInv, TypeOK
  <2>4. /\ \A o \in Sampled \cup BlackBoxes : clock'[o] = clock[o]
        /\ \A u \in Sampled : load'[u] = load[u]
    BY <1>2, <2>2, <2>3, ActuateClocks, Constants
  <2>5. CircuitTimes' = CircuitTimes
    BY <1>1, <2>4 DEF CircuitTimes, ActionTimes, NextTime, LoadTime
  <2> QED
    BY <2>2, <2>3, <2>5 DEF Drives
<1>5. CircuitInv'
  BY <1>1, <1>2, <1>3, <1>4 DEF CircuitInv, Instant, Phases
<1>6. UnitsInv'
  BY <1>2, ActuateUnits DEF UnitsInv, Tripped
<1>7. StoresInv'
  BY <1>2 DEF StoresInv
<1>8. FollowInv'
  <2>1. CASE ~flags.circuit /\ ~flags'.trip
    <3>1. /\ plant.mode = Flags(units)
          /\ \A w \in Windowed : plant.windows[w].anchor = Present
      BY <1>2, <1>3, <2>1 DEF FollowInv, Phases
    <3>2. \A u \in Units : /\ units'[u].branch = units[u].branch
                           /\ units'[u].linkTripped = units[u].linkTripped
                           /\ units'[u].trip = units[u].trip
      BY <1>2, <1>3, <1>4, <2>1, ActuateUnits
    <3>3. Flags(units') = Flags(units)
      BY <3>2, FlagsSame
    <3>4. plant' = plant
      BY <1>2, <1>4, <2>1, <3>1, <3>3, ActuatePlant
    <3>5. Present' = Present
      BY <1>1, <3>2, <3>4, PresentKept DEF Tripped
    <3> QED
      BY <3>1, <3>3, <3>4, <3>5 DEF FollowInv
  <2>2. CASE flags.circuit \/ flags'.trip
    BY <1>2, <1>3, <2>2, ActuatePlant DEF FollowInv, Phases
  <2> QED
    BY <2>1, <2>2
<1>9. CloseInv'
  <2>1. \A w \in Windowed :
            \/ /\ plant'.windows[w].upto = plant.windows[w].upto
               /\ plant'.windows[w].closed = plant.windows[w].closed
            \/ /\ flags'.trip
               /\ plant'.windows[w].upto = t /\ plant.windows[w].upto < t
    BY <1>2, ActuatePlant
  <2>2. flags.circuit => \A w \in Windowed : plant.windows[w].upto = t
    BY <1>2 DEF CloseInv, Instant, Phases
  <2>3. t \in Int
    BY Times
  <2>4. \A w \in Windowed : plant'.windows[w].upto <= t
    BY <2>1, <2>3 DEF CloseInv
  <2>5. flags.circuit => \A w \in Windowed : plant'.windows[w].upto = t
    BY <2>1, <2>2
  <2>6. WindowsCloseFirst'
    <3> SUFFICES ASSUME NEW w \in Windowed, plant'.windows[w].upto = t
                 PROVE  plant'.windows[w].closed = arrival
                        \/ (flags'.trip /\ ~flags'.circuit)
      BY <1>1 DEF WindowsCloseFirst
    <3>1. CASE /\ plant'.windows[w].upto = plant.windows[w].upto
               /\ plant'.windows[w].closed = plant.windows[w].closed
      BY <1>3, <3>1 DEF CloseInv, WindowsCloseFirst
    <3>2. CASE flags'.trip /\ plant.windows[w].upto < t
      BY <1>3, <2>2, <2>3, <3>2
    <3> QED
      BY <2>1, <3>1, <3>2
  <2> QED
    BY <1>1, <1>3, <2>4, <2>5, <2>6 DEF CloseInv
<1> QED
  BY <1>5, <1>6, <1>7, <1>8, <1>9

----------------------------------------------------------------------------
(***************************************************************************)
(* The end of an iteration, and the invariant.                             *)
(***************************************************************************)
\* A row of the output renews the stores, and nothing else.
LEMMA LogPlant ==
    ASSUME TypeOK, RestOK, Log
    PROVE  /\ plant' \in Plant /\ plant'.windows = plant.windows
           /\ plant'.mode = plant.mode /\ Present' = Present
<1>1. plant' = Sync(plant, units, action) \/ plant' = plant
  BY DEF Log
<1>2. plant \in Plant /\ action \in Nat /\ action >= 1
  BY EventsOrdered DEF TypeOK, RestOK
<1>3. /\ plant' \in Plant /\ plant'.windows = plant.windows
      /\ plant'.mode = plant.mode /\ plant'.touched = plant.touched
  BY <1>1, <1>2, SyncFacts
<1>4. units' = units /\ action' = action
  BY DEF Log
<1> QED
  BY <1>3, <1>4, PresentKept

LEMMA TypesLog ==
    ASSUME IndInv, Log
    PROVE  TypeOK' /\ RestOK' /\ TurnsInOrder'
<1> USE DEF IndInv
<1>1. /\ UNCHANGED <<order, stop, turn, t, action, clock, load, units, words, waiting,
                     flags, sampled, arrival>>
      /\ pc = "log" /\ pc' \in {"done", "boundary"}
      /\ output' \in {output, output + 1}
  BY DEF Log
<1>2. TypeOK'
  BY <1>1 DEF TypeOK
<1>3. RestOK'
  BY <1>1, LogPlant DEF RestOK
<1>4. TurnsInOrder'
  BY <1>1 DEF TurnsInOrder, Phases
<1> QED
  BY <1>2, <1>3, <1>4

LEMMA TimelyLog ==
    ASSUME IndInv, Log
    PROVE  Timely'
<1> USE DEF IndInv, Timely
<1>1. /\ UNCHANGED <<t, action, clock, load, waiting, flags>>
      /\ pc = "log" /\ pc' \in {"done", "boundary"}
      /\ pc' = "boundary" => /\ t # End
                             /\ output' = IF t = OutputTime THEN output + 1 ELSE output
  BY DEF Log
<1>2. /\ \A o \in Owners : NextTime(o)' = NextTime(o)
      /\ \A u \in Sampled : LoadTime(u)' = LoadTime(u)
  BY <1>1, GridKept
<1>3. ClocksAhead' /\ LoadsAhead'
  <2>1. /\ \A o \in Owners : t <= NextTime(o) /\ t # NextTime(o)
        /\ \A u \in Sampled : t <= LoadTime(u) /\ t # LoadTime(u)
    BY <1>1 DEF ClocksAhead, LoadsAhead, ClockOpen, LoadOpen, Fresh
  <2> QED
    BY <1>1, <1>2, <2>1 DEF ClocksAhead, LoadsAhead
<1>4. RowsAhead'
  <2>1. /\ t \in Nat /\ t <= End /\ End \in Nat /\ OutputTime \in Int
        /\ OutputTime < (output + 1) * OutputPeriod /\ t <= OutputTime
        /\ (output + 1) * OutputPeriod \in Int
    BY <1>1, Times, Constants DEF RowsAhead, TypeOK
  <2>2. pc' = "boundary" => t < OutputTime'
    BY <1>1, <2>1 DEF OutputTime
  <2>3. pc' = "boundary" => t' < End
    BY <1>1, <2>1
  <2>4. pc' = "boundary" => OutputTime' \in Int
    BY <1>1, <2>1 DEF OutputTime
  <2> QED
    BY <1>1, <2>1, <2>2, <2>3, <2>4 DEF RowsAhead
<1>5. EventsAhead'
  BY <1>1 DEF EventsAhead
<1>6. WaitingInv'
  BY <1>1 DEF WaitingInv
<1>7. LastServed'
  BY <1>1 DEF LastServed
<1> QED
  BY <1>3, <1>4, <1>5, <1>6, <1>7

LEMMA KeptLog ==
    ASSUME IndInv, Log
    PROVE  Kept'
<1> USE DEF IndInv, Kept
<1>1. /\ UNCHANGED <<t, units, flags, arrival>>
      /\ pc = "log" /\ pc' \in {"done", "boundary"}
  BY DEF Log
<1>2. CircuitInv' /\ StoresInv'
  BY <1>1 DEF CircuitInv, StoresInv, Instant, Phases
<1>3. UnitsInv'
  BY <1>1 DEF UnitsInv
<1>4. FollowInv'
  BY <1>1, LogPlant DEF FollowInv
<1>5. CloseInv'
  BY <1>1, LogPlant DEF CloseInv, WindowsCloseFirst, Instant, Phases
<1> QED
  BY <1>2, <1>3, <1>4, <1>5

LEMMA Stutter == IndInv /\ UNCHANGED vars => IndInv'
<1> SUFFICES ASSUME IndInv, UNCHANGED vars PROVE IndInv'
  OBVIOUS
<1> USE DEF vars
<1>1. TypeOK' /\ RestOK' /\ TurnsInOrder'
  BY DEF IndInv, TypeOK, RestOK, TurnsInOrder
<1>2. Present' = Present /\ CircuitTimes' = CircuitTimes /\ OutputTime' = OutputTime
  BY DEF Present, CircuitTimes, ActionTimes, NextTime, LoadTime, OutputTime
<1>3. \A o : /\ Had(o)' <=> Had(o)
             /\ ClockOpen(o)' <=> ClockOpen(o)
             /\ LoadOpen(o)' <=> LoadOpen(o)
             /\ NextTime(o)' = NextTime(o) /\ LoadTime(o)' = LoadTime(o)
  BY <1>2 DEF Had, ClockOpen, LoadOpen, Fresh, NextTime, LoadTime
<1>4. Fresh' <=> Fresh
  BY <1>2 DEF Fresh
<1>5. ClocksAhead' /\ LoadsAhead' /\ WaitingInv'
  BY <1>3 DEF IndInv, Timely, ClocksAhead, LoadsAhead, WaitingInv
<1>6. RowsAhead' /\ EventsAhead' /\ LastServed'
  BY <1>2, <1>4 DEF IndInv, Timely, RowsAhead, EventsAhead, LastServed
<1>7. CircuitInv' /\ StoresInv' /\ FollowInv'
  BY <1>2 DEF IndInv, Kept, CircuitInv, StoresInv, FollowInv
<1>8. UnitsInv' /\ CloseInv'
  BY <1>3 DEF IndInv, Kept, UnitsInv, CloseInv, WindowsCloseFirst, Tripped
<1> QED
  BY <1>1, <1>5, <1>6, <1>7, <1>8 DEF IndInv, Timely, Kept

\* Every step of the program keeps the invariant.
LEMMA Inductive == IndInv /\ [Next]_vars => IndInv'
<1> SUFFICES ASSUME IndInv, [Next]_vars PROVE IndInv'
  OBVIOUS
<1>1. CASE Boundary
  BY <1>1, TypesBoundary, TimelyBoundary, KeptBoundary DEF IndInv
<1>2. CASE ApplyAction
  BY <1>2, TypesAction, TimelyAction, KeptAction DEF IndInv
<1>3. CASE Protect
  BY <1>3, TypesProtect, TimelyProtect, KeptProtect DEF IndInv
<1>4. CASE Sense
  BY <1>4, TypesSense, TimelySense, KeptSense DEF IndInv
<1>5. CASE Actuate
  BY <1>5, TypesActuate, TimelyActuate, KeptActuate DEF IndInv
<1>6. CASE Log
  BY <1>6, TypesLog, TimelyLog, KeptLog DEF IndInv
<1>7. CASE UNCHANGED vars
  BY <1>7, Stutter
<1> QED
  BY <1>1, <1>2, <1>3, <1>4, <1>5, <1>6, <1>7 DEF Next

\* In every state of every run of the program: the types, the turns, what is
\* still due, and what the stores and windows hold.
THEOREM ProgramInvariance == Spec => []IndInv
<1>1. Init => IndInv
  BY InitTypes, InitTimely, InitKept DEF IndInv
<1> QED
  BY <1>1, Inductive, PTL DEF Spec

\* Where an integration begins, the circuits are in the modes that their
\* switches command and the windows start from the present outputs; a window
\* closes on the plant found on arrival (cpp.py, run, reconcile_circuits and
\* adc_accumulate).
THEOREM CircuitsAndWindowsFollow == Spec => []PlantIsFollowed
<1>1. IndInv => PlantIsFollowed
  BY DEF IndInv, Kept, FollowInv, CloseInv, PlantIsFollowed, BoundaryIsSettled
<1> QED
  BY <1>1, ProgramInvariance, PTL

\* Every owner samples the stores of the present plant, in whatever order the
\* turns are taken (cpp.py, sense methods).
THEOREM SamplesReadThePresent == Spec => SamplesArePresent
<1> DEFINE Renewed == \A o \in Owners : sampled'[o] # sampled[o] =>
                          \/ sampled'[o].saw = Present'
                          \/ o \in Continuous /\ units[o].trackDue
<1>1. IndInv /\ [Next]_vars => [Renewed]_vars
  <2> SUFFICES ASSUME IndInv, Next PROVE Renewed
    OBVIOUS
  <2>1. CASE Sense
    <3> SUFFICES ASSUME NEW o \in Owners, sampled'[o] # sampled[o]
                 PROVE  \/ sampled'[o].saw = Present'
                        \/ o \in Continuous /\ units[o].trackDue
      OBVIOUS
    <3>1. Owner \in Owners /\ pc = "sense"
      BY <2>1, SenseTurn DEF IndInv
    <3>2. o = Owner /\ sampled'[o] = [at |-> t, saw |-> plant.obs]
      <4>1. sampled' = [sampled EXCEPT ![Owner] =
                IF t = NextTime(Owner) THEN [at |-> t, saw |-> plant.obs] ELSE @]
        BY <2>1 DEF Sense
      <4>2. sampled \in [Owners -> [at : Int, saw : PlantValue]]
        BY DEF IndInv, RestOK
      <4> QED
        BY <3>1, <4>1, <4>2
    <3>3. plant.obs = Present
      BY <3>1 DEF IndInv, Kept, StoresInv
    <3>4. CASE Owner \in Units /\ units[Owner].trackDue
      BY <3>2, <3>4 DEF IndInv, Kept, UnitsInv
    <3>5. CASE ~(Owner \in Units /\ units[Owner].trackDue)
      <4>1. Present' = Present
        BY <2>1, <3>1, <3>5, SensePlant DEF IndInv, Kept
      <4> QED
        BY <3>2, <3>3, <4>1
    <3> QED
      BY <3>4, <3>5
  <2>2. CASE Boundary \/ ApplyAction \/ Protect \/ Actuate \/ Log
    <3>1. sampled' = sampled
      BY <2>2 DEF Boundary, ApplyAction, Protect, Actuate, Log
    <3> QED
      BY <3>1
  <2> QED
    BY <2>1, <2>2 DEF Next
<1> QED
  BY <1>1, ProgramInvariance, PTL DEF Spec, SamplesArePresent, Renewed

----------------------------------------------------------------------------
(***************************************************************************)
(* The program implements the service of its instants.                     *)
(***************************************************************************)
ClockOf(o) == <<o, "clock">>
LoadOf(u) == <<u, "load">>
LastTime(o) == ClockAt(Clocks[o], clock[o] - 1)
LastLoad(u) == ClockAt(Loads[u], load[u] - 1)

\* What is served are the clocks of the owners and the loads of the sampled units.
LEMMA ServedClocks ==
    /\ Instants!Served = {ClockOf(o) : o \in Owners} \cup {LoadOf(u) : u \in Sampled}
    /\ \A o \in Owners : AllClocks[ClockOf(o)] = Clocks[o]
    /\ \A u \in Sampled : AllClocks[LoadOf(u)] = Loads[u]
    /\ \A c \in Instants!Served : \/ \E o \in Owners : c = ClockOf(o)
                                  \/ \E u \in Sampled : c = LoadOf(u)
    /\ \A c, n : Instants!ClockAt(c, n) = ClockAt(c, n)
    /\ DOMAIN AllClocks = Instants!Served
BY DEF Instants!Served, AllClocks, ClockOf, LoadOf, Instants!ClockAt, ClockAt

\* Their indices are those of the program.
LEMMA ServedIndices ==
    /\ \A o \in Owners : AllIndices[ClockOf(o)] = clock[o]
    /\ \A u \in Sampled : AllIndices[LoadOf(u)] = load[u]
    /\ AllIndices = [c \in Instants!Served |-> AllIndices[c]]
<1>1. AllIndices = [c \in Instants!Served |->
                       IF c[2] = "clock" THEN clock[c[1]] ELSE load[c[1]]]
  BY ServedClocks DEF AllIndices
<1>2. ASSUME NEW o \in Owners
      PROVE  AllIndices[ClockOf(o)] = clock[o]
  BY <1>1, ServedClocks DEF ClockOf
<1>3. ASSUME NEW u \in Sampled
      PROVE  AllIndices[LoadOf(u)] = load[u]
  BY <1>1, ServedClocks DEF LoadOf
<1> QED
  BY <1>1, <1>2, <1>3

LEMMA ServiceTimes ==
    /\ \A o \in Owners : /\ Instants!ServiceTime(ClockOf(o)) = NextTime(o)
                         /\ Instants!LastService(ClockOf(o)) = LastTime(o)
    /\ \A u \in Sampled : /\ Instants!ServiceTime(LoadOf(u)) = LoadTime(u)
                          /\ Instants!LastService(LoadOf(u)) = LastLoad(u)
    /\ Instants!RowTime = OutputTime
BY ServedClocks, ServedIndices DEF Instants!ServiceTime, Instants!LastService, NextTime,
   LoadTime, LastTime, LastLoad, Instants!RowTime, OutputTime

\* The indices stay where they are when no clock or load moves.
LEMMA IndicesKept ==
    ASSUME UNCHANGED <<clock, load>>
    PROVE  AllIndices' = AllIndices
BY DEF AllIndices

\* The file events of the instance are those of the program.
LEMMA EventTimesAre ==
    LET times == [i \in 1..Len(Events) |-> Events[i].t]
    IN  Len(times) = Len(Events) /\ \A i \in 1..Len(Events) : times[i] = Events[i].t
BY EventsOrdered

\* After the file events of an instant none is left at it.
LEMMA EventsAreDone ==
    ASSUME TypeOK, EventsAhead, pc \notin {"actions", "done"}
    PROVE  Instants!EventsDone(t)
<1> SUFFICES ASSUME action <= Len(Events) PROVE Events[action].t > t
  BY EventTimesAre, EventsOrdered DEF Instants!EventsDone, TypeOK
<1>1. action \in 1..Len(Events) /\ t \in Nat
  BY EventsOrdered, Times DEF TypeOK
<1> QED
  BY <1>1, EventsOrdered DEF EventsAhead

\* A turn serves the clocks S and the loads L that are due.
LEMMA TurnServes ==
    ASSUME TypeOK, EventsAhead, pc \in {"sense", "actuate"}, UNCHANGED <<t, action, output>>,
           NEW S \in SUBSET Owners, NEW L \in SUBSET Sampled,
           \A o \in S : NextTime(o) = t, \A u \in L : LoadTime(u) = t,
           \A o \in Owners : clock'[o] = IF o \in S THEN clock[o] + 1 ELSE clock[o],
           \A u \in Sampled : load'[u] = IF u \in L THEN load[u] + 1 ELSE load[u]
    PROVE  Instants!Next
<1> DEFINE clocks == {ClockOf(o) : o \in S} \cup {LoadOf(u) : u \in L}
<1>1. clocks \in SUBSET Instants!Served
  BY ServedClocks
<1>2. \A c \in clocks : Instants!ServiceTime(c) = t
  BY ServiceTimes
<1>3. /\ \A o \in Owners : ClockOf(o) \in clocks <=> o \in S
      /\ \A u \in Sampled : LoadOf(u) \in clocks <=> u \in L
  BY DEF ClockOf, LoadOf
<1>4. /\ \A o \in Owners : AllIndices'[ClockOf(o)] = clock'[o]
      /\ \A u \in Sampled : AllIndices'[LoadOf(u)] = load'[u]
      /\ AllIndices' = [c \in Instants!Served |-> AllIndices'[c]]
  <2>1. AllIndices' = [c \in Instants!Served |->
                          IF c[2] = "clock" THEN clock'[c[1]] ELSE load'[c[1]]]
    BY ServedClocks DEF AllIndices
  <2>2. ASSUME NEW o \in Owners
        PROVE  AllIndices'[ClockOf(o)] = clock'[o]
    BY <2>1, ServedClocks DEF ClockOf
  <2>3. ASSUME NEW u \in Sampled
        PROVE  AllIndices'[LoadOf(u)] = load'[u]
    BY <2>1, ServedClocks DEF LoadOf
  <2> QED
    BY <2>1, <2>2, <2>3
<1> HIDE DEF clocks
<1>5. ASSUME NEW c \in Instants!Served
      PROVE  AllIndices'[c] = IF c \in clocks THEN AllIndices[c] + 1 ELSE AllIndices[c]
  <2>1. CASE \E o \in Owners : c = ClockOf(o)
    BY <2>1, <1>3, <1>4, ServedIndices
  <2>2. CASE \E u \in Sampled : c = LoadOf(u)
    BY <2>2, <1>3, <1>4, ServedIndices
  <2> QED
    BY <2>1, <2>2, ServedClocks
<1>6. AllIndices' = [c \in Instants!Served |->
                        IF c \in clocks THEN AllIndices[c] + 1 ELSE AllIndices[c]]
  BY <1>4, <1>5
<1>7. Instants!Serve(clocks)
  BY <1>2, <1>6, EventsAreDone DEF Instants!Serve
<1> QED
  BY <1>1, <1>7 DEF Instants!Next

\* When time moves on, nothing at the old instant is left and nothing before the
\* new one is passed.
LEMMA BoundaryPasses ==
    ASSUME IndInv, Boundary
    PROVE  Instants!Next \/ UNCHANGED Instants!vars
<1>1. UNCHANGED <<action, output, clock, load>>
  BY DEF Boundary
<1>2. AllIndices' = AllIndices
  BY <1>1, IndicesKept
<1>3. CASE t' = t
  BY <1>1, <1>2, <1>3 DEF Instants!vars
<1>4. CASE t' # t
  <2> DEFINE s == t'
  <2>1. /\ TypeOK /\ t \in Nat /\ s \in Nat /\ t < s /\ s <= End /\ End \in Nat
        /\ s <= OutputTime /\ OutputTime \in Int
        /\ \A o \in Owners : s <= NextTime(o) /\ NextTime(o) \in Int
        /\ \A u \in Sampled : s <= LoadTime(u) /\ LoadTime(u) \in Int
        /\ \A i \in action .. Len(Events) : s <= Events[i].t
    BY <1>4, BoundaryFacts, Times, Constants DEF IndInv
  <2>2. t' = s
    OBVIOUS
  <2> HIDE DEF s
  <2>3. \A c \in Instants!Served :
            t < Instants!ServiceTime(c) /\ s <= Instants!ServiceTime(c)
    <3> SUFFICES ASSUME NEW c \in Instants!Served
                 PROVE  t < Instants!ServiceTime(c) /\ s <= Instants!ServiceTime(c)
      OBVIOUS
    <3>1. CASE \E o \in Owners : c = ClockOf(o)
      BY <2>1, <3>1, ServiceTimes
    <3>2. CASE \E u \in Sampled : c = LoadOf(u)
      BY <2>1, <3>2, ServiceTimes
    <3> QED
      BY <3>1, <3>2, ServedClocks
  <2>4. action <= Len(Events) => t < Events[action].t /\ s <= Events[action].t
    <3> SUFFICES ASSUME action <= Len(Events)
                 PROVE  t < Events[action].t /\ s <= Events[action].t
      OBVIOUS
    <3>1. action \in 1..Len(Events) /\ action \in action .. Len(Events)
      BY <2>1, EventsOrdered DEF TypeOK
    <3>2. Events[action].t \in Nat /\ s <= Events[action].t
      BY <2>1, <3>1, EventsOrdered
    <3> QED
      BY <2>1, <3>2
  <2>5. t < Instants!RowTime /\ s <= Instants!RowTime
    BY <2>1, ServiceTimes
  <2>6. action \in Nat /\ action >= 1
    BY <2>1, EventsOrdered DEF TypeOK
  <2>7. Instants!Pass(s)
    BY <1>1, <1>2, <2>1, <2>2, <2>3, <2>4, <2>5, <2>6, EventTimesAre, EventsOrdered
       DEF Instants!Pass
  <2>8. s \in t .. End
    BY <2>1
  <2> QED
    BY <2>7, <2>8 DEF Instants!Next
<1> QED
  BY <1>3, <1>4

\* A file event comes before the clocks of its instant: LastServed.
LEMMA ActionApplies ==
    ASSUME IndInv, ApplyAction
    PROVE  Instants!Next
<1>1. /\ UNCHANGED <<t, output, clock, load>> /\ pc = "actions"
      /\ action \in 1..Len(Events) /\ action' = action + 1 /\ Events[action].t = t
  BY ActionFacts DEF IndInv, Timely, ApplyAction, EventsAhead
<1>2. AllIndices' = AllIndices
  BY <1>1, IndicesKept
<1>3. \A c \in Instants!Served : Instants!LastService(c) < t
  <2> SUFFICES ASSUME NEW c \in Instants!Served PROVE Instants!LastService(c) < t
    OBVIOUS
  <2>1. CASE \E o \in Owners : c = ClockOf(o)
    BY <1>1, <2>1, ServiceTimes DEF IndInv, Timely, LastServed, LastTime
  <2>2. CASE \E u \in Sampled : c = LoadOf(u)
    BY <1>1, <2>2, ServiceTimes DEF IndInv, Timely, LastServed, LastLoad
  <2> QED
    BY <2>1, <2>2, ServedClocks
<1>4. Instants!Apply
  BY <1>1, <1>2, <1>3, EventTimesAre, EventsOrdered DEF Instants!Apply
<1> QED
  BY <1>4 DEF Instants!Next

\* The row of an instant comes last.
LEMMA LogRows ==
    ASSUME IndInv, Log
    PROVE  Instants!Next \/ UNCHANGED Instants!vars
<1>1. UNCHANGED <<t, action, clock, load>> /\ pc = "log"
  BY DEF Log
<1>2. AllIndices' = AllIndices
  BY <1>1, IndicesKept
<1>3. CASE output' = output
  BY <1>1, <1>2, <1>3 DEF Instants!vars
<1>4. CASE output' # output
  <2>1. t # End /\ t = OutputTime /\ output' = output + 1
    BY <1>4 DEF Log
  <2>2. t < End
    BY <2>1, Times, Constants DEF IndInv
  <2>3. \A c \in Instants!Served : t < Instants!ServiceTime(c)
    <3> SUFFICES ASSUME NEW c \in Instants!Served PROVE t < Instants!ServiceTime(c)
      OBVIOUS
    <3>1. ~Fresh
      BY <1>1 DEF Fresh
    <3>2. CASE \E o \in Owners : c = ClockOf(o)
      BY <1>1, <3>1, <3>2, ServiceTimes, Times DEF IndInv, Timely, ClocksAhead, ClockOpen
    <3>3. CASE \E u \in Sampled : c = LoadOf(u)
      BY <1>1, <3>1, <3>3, ServiceTimes, Times DEF IndInv, Timely, LoadsAhead, LoadOpen
    <3> QED
      BY <3>2, <3>3, ServedClocks
  <2>4. Instants!EventsDone(t)
    BY <1>1, EventsAreDone DEF IndInv, Timely
  <2>5. Instants!Row
    BY <1>1, <1>2, <2>1, <2>2, <2>3, <2>4, ServiceTimes DEF Instants!Row
  <2> QED
    BY <2>5 DEF Instants!Next
<1> QED
  BY <1>3, <1>4

\* Every step of the exported run loop is a step of the service of its instants
\* or leaves it alone, like those of the simulation (cpp.py, run).
THEOREM ProgramImplementsInstants == Spec => ImplementsInstants
<1>1. Init => Instants!Init
  <2> SUFFICES ASSUME Init PROVE Instants!Init
    OBVIOUS
  <2>1. \A c, x, r : /\ Instants!StartIndex(c, x, r) = StartIndex(c, x, r)
                     /\ Instants!IndexAtOrAfter(c, x) = IndexAtOrAfter(c, x)
    BY DEF Instants!StartIndex, StartIndex, Instants!IndexAfter, IndexAfter,
       Instants!IndexAtOrAfter, IndexAtOrAfter
  <2>2. /\ \A o \in Owners : clock[o] = StartIndex(Clocks[o], Start, FALSE)
        /\ \A u \in Sampled : load[u] = StartIndex(Loads[u], Start, FALSE)
    BY DEF Init
  <2>3. \A c \in Instants!Served : AllIndices[c] = StartIndex(AllClocks[c], Start, FALSE)
    <3> SUFFICES ASSUME NEW c \in Instants!Served
                 PROVE  AllIndices[c] = StartIndex(AllClocks[c], Start, FALSE)
      OBVIOUS
    <3>1. CASE \E o \in Owners : c = ClockOf(o)
      <4>1. PICK o \in Owners : c = ClockOf(o)
        BY <3>1
      <4>2. AllIndices[c] = clock[o] /\ AllClocks[c] = Clocks[o]
        BY <4>1, ServedClocks, ServedIndices
      <4> QED
        BY <2>2, <4>2
    <3>2. CASE \E u \in Sampled : c = LoadOf(u)
      <4>1. PICK u \in Sampled : c = LoadOf(u)
        BY <3>2
      <4>2. AllIndices[c] = load[u] /\ AllClocks[c] = Loads[u]
        BY <4>1, ServedClocks, ServedIndices
      <4> QED
        BY <2>2, <4>2
    <3> QED
      BY <3>1, <3>2, ServedClocks
  <2>4. AllIndices = [c \in Instants!Served |-> StartIndex(AllClocks[c], Start, FALSE)]
    BY <2>3, ServedIndices
  <2>5. AllIndices = [c \in Instants!Served |->
                         Instants!StartIndex(AllClocks[c], Start, FALSE)]
    BY <2>1, <2>4
  <2> QED
    BY <2>1, <2>5 DEF Init, Instants!Init
<1>2. IndInv /\ [Next]_vars => [Instants!Next]_(Instants!vars)
  <2> SUFFICES ASSUME IndInv, [Next]_vars
               PROVE  Instants!Next \/ UNCHANGED Instants!vars
    OBVIOUS
  <2>1. CASE Protect \/ UNCHANGED vars
    <3>1. UNCHANGED <<t, action, output, clock, load>>
      BY <2>1 DEF Protect, vars
    <3> QED
      BY <3>1, IndicesKept DEF Instants!vars
  <2>2. CASE Sense
    <3> DEFINE S == {o \in Owners : o = Owner /\ t = NextTime(o) /\ o \in Continuous}
    <3>1. /\ UNCHANGED <<t, action, output, load>> /\ pc = "sense" /\ Owner \in Owners
      BY <2>2, SenseTurn DEF Sense, IndInv
    <3>2. \A o \in Owners : clock'[o] = IF o \in S THEN clock[o] + 1 ELSE clock[o]
      BY <2>2, <3>1, SenseClocks DEF IndInv
    <3>3. S \in SUBSET Owners /\ \A o \in S : NextTime(o) = t
      OBVIOUS
    <3> DEFINE L == {}
    <3>4. /\ L \in SUBSET Sampled /\ \A u \in L : LoadTime(u) = t
          /\ \A u \in Sampled : load'[u] = IF u \in L THEN load[u] + 1 ELSE load[u]
      BY <3>1
    <3> HIDE DEF S, L
    <3> QED
      BY <3>1, <3>2, <3>3, <3>4, TurnServes DEF IndInv, Timely
  <2>3. CASE Actuate
    <3> DEFINE S == {o \in Owners : o = Owner /\ (o \in waiting
                                        \/ (o \in Sampled /\ t = NextTime(o)))}
               L == {u \in Sampled : u = Owner /\ t = LoadTime(u)}
    <3>1. UNCHANGED <<t, action, output>> /\ pc = "actuate"
      BY <2>3 DEF Actuate
    <3>2. \A o \in Owners : /\ clock'[o] = IF o \in S THEN clock[o] + 1 ELSE clock[o]
                            /\ o \in S => NextTime(o) = t
      BY <2>3, ActuateServes
    <3>3. \A u \in Sampled : /\ load'[u] = IF u \in L THEN load[u] + 1 ELSE load[u]
                             /\ u \in L => LoadTime(u) = t
      BY <2>3, ActuateServes
    <3>4. S \in SUBSET Owners /\ L \in SUBSET Sampled
      OBVIOUS
    <3>5. (\A o \in S : NextTime(o) = t) /\ (\A u \in L : LoadTime(u) = t)
      BY <3>2, <3>3, <3>4
    <3> HIDE DEF S, L
    <3> QED
      BY <3>1, <3>2, <3>3, <3>4, <3>5, TurnServes DEF IndInv, Timely
  <2> QED
    BY <2>1, <2>2, <2>3, BoundaryPasses, ActionApplies, LogRows DEF Next
<1> QED
  BY <1>1, <1>2, ProgramInvariance, PTL DEF Spec, ImplementsInstants, Instants!Spec

----------------------------------------------------------------------------
(***************************************************************************)
(* The units of the program go through their lifecycle.                    *)
(***************************************************************************)
Due == [edge : BOOLEAN, control : BOOLEAN, load : BOOLEAN]
History == [stage : {"idle", "protect", "sense", "actuate"}, due : Due,
            command : BOOLEAN, source : BOOLEAN, aligned : BOOLEAN, reports : Nat]

\* The switch of the filter branch that the other members ask for.
BranchOf(u, s) == u \notin Unfiltered /\ s.breaker /\ s.gates /\ ~Tripped(s)

\* The step of its lifecycle that comes next for a unit with something to do.
Place(u) == CASE pc = "actions" -> "protect"
              [] pc \in Phases /\ ~Had(u) -> pc
              [] pc = "protect" /\ Had(u) -> "sense"
              [] pc = "sense" /\ Had(u) -> "actuate"
              [] OTHER -> "idle"

\* The clocks of a unit still show what is due for it at this instant.
Undone(u) == \/ pc = "protect"
             \/ pc = "sense" /\ (u \in Continuous => ~Had(u))
             \/ pc = "actuate" /\ u \notin Continuous /\ ~Had(u)

StageOK(u) ==
    /\ history[u].stage \in {"idle", Place(u)}
    /\ history[u].stage = "idle" => history[u].due = NothingDue
    /\ Undone(u) => history[u].due = DueAt(u, t)
    /\ pc = "actions" /\ history[u].stage # "idle" =>
           /\ history[u].due = DueAt(u, t)
           /\ \A i \in action .. Len(Events) : u \in Names(Events[i]) => t < Events[i].t

\* What a unit has and owes, by the stage it is in.
ServiceOK(u) ==
    /\ units[u].trackDue => history[u].stage # "idle"
    /\ units[u].tripDue => history[u].stage = "actuate"
    /\ ~units[u].tripDue =>
           /\ units[u].branch <=> BranchOf(u, units[u])
           /\ u \in Sampled => (units[u].gates <=> Stage(u, units[u], words[u].active.on))
    /\ u \in Unfiltered /\ units[u].driven => units[u].gates
    /\ units[u].pending # "none" <=>
           /\ u \in Sampled /\ history[u].stage = "actuate" /\ history[u].due.control

\* Which commands the registers of a unit hold.
FirstOf(u) == StartIndex(Clocks[u], Start, FALSE)
WordsOK(u) ==
    /\ FirstOf(u) <= clock[u] /\ words[u].shadow.stamp = clock[u] - 1
    /\ words[u].active.stamp <= clock[u] - 1
    /\ clock[u] = FirstOf(u) => /\ words[u].active = words[u].shadow
                                /\ words[u].completed = words[u].shadow
    /\ clock[u] > FirstOf(u) =>
           /\ words[u].completed.stamp = clock[u] - 2
           /\ words[u].active.stamp = clock[u] - 1 =>
                  ClockAt(Clocks[u], clock[u] - 1) + Computation[u] <= t

LifeInv ==
    /\ history \in [Units -> History]
    /\ pc # "done" => \A u \in Units : StageOK(u) /\ ServiceOK(u)
    /\ \A u \in Sampled : WordsOK(u)

LEMMA UpTo ==
    ASSUME NEW n \in Nat
    PROVE  IsFiniteSet(1..n) /\ Cardinality(1..n) = n
<1>1. Cardinality(1..n) = IF 1 > n THEN 0 ELSE n - 1 + 1
  BY FS_Interval
<1> QED
  BY <1>1, FS_Interval

\* No owner has two turns in a phase.
LEMMA OneTurn ==
    ASSUME RestOK, NEW i \in 1 .. Len(order), NEW j \in 1 .. Len(order), order[i] = order[j]
    PROVE  i = j
<1>1. order \in Seq(Owners) /\ Len(order) = Cardinality(Owners)
  BY ProgramAssumption DEF RestOK
<1>2. /\ Len(order) \in Nat /\ \A k \in 1..Len(order) : order[k] \in Owners
      /\ \A o \in Owners : \E k \in 1..Len(order) : order[k] = o
  BY OrderFacts DEF RestOK
<1>3. order \in [1..Len(order) -> Owners]
  BY <1>1
<1>4. order \in Surjection(1..Len(order), Owners)
  BY <1>2, <1>3 DEF Surjection
<1>5. IsFiniteSet(1..Len(order)) /\ Cardinality(1..Len(order)) = Len(order)
  BY <1>2, UpTo
<1>6. order \in Injection(1..Len(order), Owners)
  BY <1>1, <1>4, <1>5, FS_SurjSameCardinalityImpliesInj
<1> QED
  BY <1>6 DEF Injection, IsInjective

LEMMA OwnersTurn ==
    ASSUME TypeOK, RestOK
    PROVE  ~Had(Owner)
<1> SUFFICES ASSUME NEW i \in 1 .. (turn - 1), order[i] = order[turn] PROVE FALSE
  BY DEF Had, Owner
<1>1. turn \in 1..Len(order) /\ Len(order) \in Nat
  BY OrderFacts DEF TypeOK, RestOK
<1>2. i \in 1..Len(order)
  BY <1>1
<1> QED
  BY <1>1, <1>2, OneTurn

----------------------------------------------------------------------------
(***************************************************************************)
(* The members of a unit after each method.                                *)
(***************************************************************************)
LEMMA TerminalResult ==
    ASSUME NEW u, NEW s \in Unit
    PROVE  Terminal(u, s) = [trip |-> s.trip, fault |-> s.fault, breaker |-> s.breaker,
               gates |-> s.gates, run |-> s.run, branch |-> BranchOf(u, s),
               linkTripped |-> s.linkTripped, driven |-> s.driven,
               tripDue |-> s.tripDue, trackDue |-> s.trackDue, pending |-> s.pending]
<1> DEFINE b == BranchOf(u, s)
<1>1. Terminal(u, s) = [s EXCEPT !.branch = b]
  BY DEF Terminal, BranchOf
<1> HIDE DEF b
<1> QED
  BY <1>1 DEF Unit, b

LEMMA TripBodyMembers ==
    ASSUME NEW u, NEW s \in Unit, Tripped(s)
    PROVE  TripBody(u, s) = [trip |-> s.trip, fault |-> s.fault, breaker |-> FALSE,
               gates |-> FALSE, run |-> FALSE, branch |-> FALSE,
               linkTripped |-> TRUE, driven |-> s.driven /\ u \notin Unfiltered,
               tripDue |-> s.tripDue, trackDue |-> s.trackDue, pending |-> s.pending]
<1> DEFINE d == s.driven /\ u \notin Unfiltered
           r == [s EXCEPT !.run = FALSE, !.gates = FALSE, !.breaker = FALSE,
                          !.driven = d, !.linkTripped = TRUE]
<1>1. d \in BOOLEAN
  BY DEF Unit
<1>2. TripBody(u, s) = Terminal(u, r)
  BY DEF TripBody
<1> HIDE DEF d
<1>3. /\ r \in Unit /\ r.trip = s.trip /\ r.fault = s.fault /\ ~r.breaker /\ ~r.gates
      /\ r.breaker = FALSE /\ r.gates = FALSE /\ r.run = FALSE /\ r.linkTripped = TRUE
      /\ r.driven = d /\ r.tripDue = s.tripDue /\ r.trackDue = s.trackDue
      /\ r.pending = s.pending
  BY <1>1 DEF Unit
<1> HIDE DEF r
<1>4. BranchOf(u, r) = FALSE
  BY <1>3 DEF BranchOf
<1> QED
  BY <1>2, <1>3, <1>4, TerminalResult DEF d

LEMMA UnitRecord ==
    ASSUME NEW s \in Unit
    PROVE  s = [trip |-> s.trip, fault |-> s.fault, breaker |-> s.breaker,
                gates |-> s.gates, run |-> s.run, branch |-> s.branch,
                linkTripped |-> s.linkTripped, driven |-> s.driven,
                tripDue |-> s.tripDue, trackDue |-> s.trackDue, pending |-> s.pending]
BY DEF Unit

LEMMA LatchMembers ==
    ASSUME NEW s \in Unit, ~Tripped(s), NEW cause \in {"overcurrent", "sampled"}
    PROVE  Latch(s, cause) = [trip |-> cause, fault |-> s.fault \/ cause = "overcurrent",
               breaker |-> s.breaker, gates |-> s.gates, run |-> s.run,
               branch |-> s.branch, linkTripped |-> s.linkTripped, driven |-> s.driven,
               tripDue |-> s.tripDue, trackDue |-> s.trackDue, pending |-> s.pending]
<1> DEFINE f == s.fault \/ cause = "overcurrent"
           r == [s EXCEPT !.trip = cause, !.fault = f]
<1>1. f \in BOOLEAN
  BY DEF Unit
<1>2. Latch(s, cause) = r
  BY DEF Latch, Tripped
<1> HIDE DEF f
<1>3. /\ r \in Unit /\ r.trip = cause /\ r.fault = f /\ r.breaker = s.breaker
      /\ r.gates = s.gates /\ r.run = s.run /\ r.branch = s.branch
      /\ r.linkTripped = s.linkTripped /\ r.driven = s.driven /\ r.tripDue = s.tripDue
      /\ r.trackDue = s.trackDue /\ r.pending = s.pending
  BY <1>1 DEF Unit
<1> HIDE DEF r
<1> QED
  BY <1>2, <1>3, UnitRecord DEF f

LEMMA CheckedMembers ==
    ASSUME NEW s \in Unit, NEW due \in BOOLEAN, NEW bad \in BOOLEAN
    PROVE  IF due /\ bad /\ ~Tripped(s) /\ s.run
           THEN Checked(s, due, bad) = [trip |-> "sampled", fault |-> s.fault,
                   breaker |-> s.breaker, gates |-> s.gates, run |-> s.run,
                   branch |-> s.branch, linkTripped |-> s.linkTripped,
                   driven |-> s.driven, tripDue |-> TRUE, trackDue |-> s.trackDue,
                   pending |-> s.pending]
           ELSE Checked(s, due, bad) = s
<1> DEFINE l == Latch(s, "sampled")
<1>1. ASSUME due /\ bad /\ ~Tripped(s) /\ s.run
      PROVE  Checked(s, due, bad) = [trip |-> "sampled", fault |-> s.fault,
                   breaker |-> s.breaker, gates |-> s.gates, run |-> s.run,
                   branch |-> s.branch, linkTripped |-> s.linkTripped,
                   driven |-> s.driven, tripDue |-> TRUE, trackDue |-> s.trackDue,
                   pending |-> s.pending]
  <2>1. l = [trip |-> "sampled", fault |-> s.fault \/ "sampled" = "overcurrent",
             breaker |-> s.breaker, gates |-> s.gates, run |-> s.run,
             branch |-> s.branch, linkTripped |-> s.linkTripped, driven |-> s.driven,
             tripDue |-> s.tripDue, trackDue |-> s.trackDue, pending |-> s.pending]
    BY <1>1, LatchMembers
  <2>2. (s.fault \/ "sampled" = "overcurrent") = s.fault
    BY DEF Unit
  <2>3. Checked(s, due, bad) = [l EXCEPT !.tripDue = TRUE]
    BY <1>1 DEF Checked
  <2> HIDE DEF l
  <2> QED
    BY <2>1, <2>2, <2>3
<1> QED
  BY <1>1 DEF Checked

\* A command to a continuous unit, to a sampled one with a filter, and to one
\* without.
LEMMA CommandMembers ==
    ASSUME NEW u \in Units, NEW s \in Unit, NEW on \in BOOLEAN,
           words \in [Sampled -> Registered]
    PROVE  LET effective == on /\ ~Tripped(s)
               gates == IF u \in Continuous THEN effective
                        ELSE IF u \in Unfiltered THEN words[u].active.on /\ effective
                        ELSE s.gates
           IN  Command(u, s, on) =
                   [trip |-> s.trip, fault |-> s.fault, breaker |-> effective,
                    gates |-> gates, run |-> effective,
                    branch |-> u \notin Unfiltered /\ effective /\ gates /\ ~Tripped(s),
                    linkTripped |-> s.linkTripped,
                    driven |-> s.driven /\ (u \in Unfiltered => gates),
                    tripDue |-> s.tripDue,
                    trackDue |-> IF u \in Continuous
                                 THEN effective /\ ~(s.breaker /\ s.gates /\ ~Tripped(s))
                                 ELSE s.trackDue,
                    pending |-> s.pending]
<1> DEFINE effective == on /\ ~Tripped(s)
<1>0. effective \in BOOLEAN
  OBVIOUS
<1>1. CASE u \in Continuous
  <2> DEFINE due == effective /\ ~(s.breaker /\ s.gates /\ ~Tripped(s))
             r == [s EXCEPT !.trackDue = due, !.run = effective,
                            !.breaker = effective, !.gates = effective]
  <2>1. due \in BOOLEAN /\ Command(u, s, on) = Terminal(u, r) /\ u \notin Unfiltered
    BY <1>0, <1>1, ProgramAssumption DEF Command, CommandContinuous, Sampled
  <2>2. (effective => ~Tripped(s)) /\ effective \in BOOLEAN
    OBVIOUS
  <2> HIDE DEF due, effective
  <2>3. /\ r \in Unit /\ r.trip = s.trip /\ r.fault = s.fault /\ r.breaker = effective
        /\ r.gates = effective /\ r.run = effective /\ r.linkTripped = s.linkTripped
        /\ r.driven = s.driven /\ r.tripDue = s.tripDue /\ r.trackDue = due
        /\ r.pending = s.pending
    BY <2>1, <2>2 DEF Unit
  <2> HIDE DEF r
  <2>4. BranchOf(u, r) = (u \notin Unfiltered /\ effective /\ effective /\ ~Tripped(s))
    BY <2>1, <2>2, <2>3 DEF BranchOf, Tripped
  <2>5. (s.driven /\ (u \in Unfiltered => effective)) = s.driven
    BY <2>1 DEF Unit
  <2>6. Terminal(u, r) = [trip |-> s.trip, fault |-> s.fault, breaker |-> effective,
             gates |-> effective, run |-> effective, branch |-> BranchOf(u, r),
             linkTripped |-> s.linkTripped, driven |-> s.driven,
             tripDue |-> s.tripDue, trackDue |-> due, pending |-> s.pending]
    BY <2>3, TerminalResult
  <2> QED
    BY <1>1, <2>1, <2>4, <2>5, <2>6 DEF due, effective
<1>2. CASE u \notin Continuous
  <2> DEFINE commanded == [s EXCEPT !.breaker = effective, !.run = effective]
             gates == IF u \in Unfiltered THEN Stage(u, commanded, words[u].active.on)
                      ELSE s.gates
             shown == IF u \in Unfiltered THEN words[u].active.on /\ effective ELSE s.gates
             driven == s.driven /\ (u \in Unfiltered => gates)
             r == [commanded EXCEPT !.gates = gates, !.driven = driven]
  <2>1. Command(u, s, on) = Terminal(u, [commanded EXCEPT !.gates = gates,
                    !.driven = commanded.driven /\ (u \in Unfiltered => gates)])
    BY <1>2 DEF Command, CommandSampled
  <2>0. words[u].active.on \in BOOLEAN /\ (effective => ~Tripped(s))
    BY <1>2 DEF Sampled, Registered, Word
  <2> HIDE DEF effective
  <2>2. /\ commanded \in Unit /\ commanded.driven = s.driven
        /\ commanded.trip = s.trip /\ commanded.linkTripped = s.linkTripped
        /\ commanded.tripDue = s.tripDue /\ commanded.trackDue = s.trackDue
        /\ commanded.breaker = effective /\ commanded.run = effective
        /\ commanded.fault = s.fault /\ commanded.pending = s.pending
    BY <1>0 DEF Unit
  <2> HIDE DEF commanded
  <2>3. gates = shown /\ gates \in BOOLEAN
    BY <1>0, <2>0, <2>2 DEF Stage, Tripped, Unit
  <2>4. driven \in BOOLEAN /\ Command(u, s, on) = Terminal(u, r)
    BY <2>1, <2>2
  <2> HIDE DEF gates, driven
  <2>5. /\ r \in Unit /\ r.trip = s.trip /\ r.fault = s.fault /\ r.breaker = effective
        /\ r.gates = gates /\ r.run = effective /\ r.linkTripped = s.linkTripped
        /\ r.driven = driven /\ r.tripDue = s.tripDue /\ r.trackDue = s.trackDue
        /\ r.pending = s.pending
    BY <2>2, <2>3, <2>4 DEF Unit
  <2> HIDE DEF r
  <2>6. BranchOf(u, r) = (u \notin Unfiltered /\ effective /\ shown /\ ~Tripped(s))
    BY <2>3, <2>5 DEF BranchOf, Tripped
  <2>7. Terminal(u, r) = [trip |-> s.trip, fault |-> s.fault, breaker |-> effective,
             gates |-> shown, run |-> effective, branch |-> BranchOf(u, r),
             linkTripped |-> s.linkTripped, driven |-> driven,
             tripDue |-> s.tripDue, trackDue |-> s.trackDue, pending |-> s.pending]
    BY <2>3, <2>5, TerminalResult
  <2> HIDE DEF shown
  <2>8. Command(u, s, on) = [trip |-> s.trip, fault |-> s.fault, breaker |-> effective,
             gates |-> shown, run |-> effective,
             branch |-> u \notin Unfiltered /\ effective /\ shown /\ ~Tripped(s),
             linkTripped |-> s.linkTripped,
             driven |-> s.driven /\ (u \in Unfiltered => shown),
             tripDue |-> s.tripDue, trackDue |-> s.trackDue, pending |-> s.pending]
    BY <2>3, <2>4, <2>6, <2>7 DEF driven
  <2> QED
    BY <1>2, <2>8 DEF shown, effective
<1> QED
  BY <1>1, <1>2

LEMMA DrivenMembers ==
    ASSUME NEW u \in Sampled, NEW s \in Unit, NEW w \in Registered
    PROVE  LET gates == Stage(u, s, w.active.on)
           IN  Driven(u, s, w) =
                   IF t # LoadTime(u) THEN s
                   ELSE [trip |-> s.trip, fault |-> s.fault, breaker |-> s.breaker,
                         gates |-> gates, run |-> s.run,
                         branch |-> u \notin Unfiltered /\ s.breaker /\ gates /\ ~Tripped(s),
                         linkTripped |-> s.linkTripped,
                         driven |-> u \in Unfiltered => gates, tripDue |-> s.tripDue,
                         trackDue |-> s.trackDue, pending |-> s.pending]
<1> DEFINE gates == Stage(u, s, w.active.on)
           driven == u \in Unfiltered => gates
           r == [s EXCEPT !.gates = gates, !.driven = driven]
<1>1. gates \in BOOLEAN /\ driven \in BOOLEAN
  BY DEF Stage, Unit, Registered, Word
<1>2. Driven(u, s, w) = IF t # LoadTime(u) THEN s ELSE Terminal(u, r)
  BY DEF Driven
<1> HIDE DEF gates, driven
<1>3. /\ r \in Unit /\ r.trip = s.trip /\ r.fault = s.fault /\ r.breaker = s.breaker
      /\ r.gates = gates /\ r.run = s.run /\ r.linkTripped = s.linkTripped
      /\ r.driven = driven /\ r.tripDue = s.tripDue /\ r.trackDue = s.trackDue
      /\ r.pending = s.pending
  BY <1>1 DEF Unit
<1> HIDE DEF r
<1>4. BranchOf(u, r) = (u \notin Unfiltered /\ s.breaker /\ gates /\ ~Tripped(s))
  BY <1>3 DEF BranchOf, Tripped
<1> QED
  BY <1>2, <1>3, <1>4, TerminalResult DEF gates, driven

LEMMA InitialMembers ==
    ASSUME NEW u \in Units, NEW latched \in BOOLEAN
    PROVE  LET on == u \in Connected /\ ~latched
               gates == on /\ u \in Continuous
           IN  Initial(u, latched) =
                   [trip |-> IF latched THEN "restored" ELSE "none", fault |-> FALSE,
                    breaker |-> on, gates |-> gates, run |-> on,
                    branch |-> u \notin Unfiltered /\ on /\ gates /\ ~latched,
                    linkTripped |-> latched, driven |-> u \notin Unfiltered,
                    tripDue |-> FALSE, trackDue |-> FALSE, pending |-> "none"]
<1> DEFINE on == u \in Connected /\ ~latched
           gates == on /\ u \in Continuous
           trip == IF latched THEN "restored" ELSE "none"
           driven == u \notin Unfiltered
           r == [trip |-> trip, fault |-> FALSE, breaker |-> on, gates |-> gates,
                 run |-> on, branch |-> FALSE, linkTripped |-> latched, driven |-> driven,
                 tripDue |-> FALSE, trackDue |-> FALSE, pending |-> "none"]
<1>1. Initial(u, latched) = Terminal(u, r)
  BY DEF Initial
<1>2. /\ on \in BOOLEAN /\ gates \in BOOLEAN /\ driven \in BOOLEAN
      /\ trip \in {"none", "restored"} /\ (trip # "none" <=> latched)
  OBVIOUS
<1> HIDE DEF on, gates, trip, driven
<1>3. /\ r \in Unit /\ r.trip = trip /\ r.fault = FALSE /\ r.breaker = on
      /\ r.gates = gates /\ r.run = on /\ r.linkTripped = latched /\ r.driven = driven
      /\ r.tripDue = FALSE /\ r.trackDue = FALSE /\ r.pending = "none"
  BY <1>2 DEF Unit
<1> HIDE DEF r
<1>4. BranchOf(u, r) = (u \notin Unfiltered /\ on /\ gates /\ ~latched)
  BY <1>2, <1>3 DEF BranchOf, Tripped
<1> QED
  BY <1>1, <1>3, <1>4, TerminalResult DEF on, gates, trip, driven

----------------------------------------------------------------------------
(***************************************************************************)
(* The stages, services and words at the start.                            *)
(***************************************************************************)
LEMMA LifeInit ==
    ASSUME Init
    PROVE  LifeInv
<1>1. TypeOK /\ RestOK /\ TurnsInOrder
  BY InitTypes
<1>2. pc = "boundary" /\ turn = 1
  BY DEF Init
<1>3. \A o : ~Had(o)
  BY <1>2, NoTurn
<1>4. NothingDue \in Due
  BY DEF NothingDue, Due
<1>5. ASSUME NEW u \in Units
      PROVE  /\ history[u] \in History /\ history[u].stage = "idle"
             /\ history[u].due = NothingDue
  BY <1>4 DEF Init, History
<1>6. history \in [Units -> History]
  BY <1>5 DEF Init
<1>7. ASSUME NEW u \in Units PROVE StageOK(u)
  BY <1>2, <1>5 DEF StageOK, Undone
<1>8. ASSUME NEW u \in Sampled PROVE WordsOK(u)
  <2>1. FirstOf(u) \in Int /\ clock[u] = FirstOf(u)
    BY Constants, FirstService DEF Init, FirstOf, Sampled
  <2>2. words[u] = [active |-> [on |-> FALSE, stamp |-> clock[u] - 1],
                    shadow |-> [on |-> FALSE, stamp |-> clock[u] - 1],
                    completed |-> [on |-> FALSE, stamp |-> clock[u] - 1]]
    BY DEF Init
  <2> QED
    BY <2>1, <2>2 DEF WordsOK
<1>9. ASSUME NEW u \in Units PROVE ServiceOK(u)
  <2>1. PICK latched \in SUBSET Units : units = [v \in Units |-> Initial(v, v \in latched)]
    BY DEF Init
  <2> DEFINE l == u \in latched
             on == u \in Connected /\ ~l
             gates == on /\ u \in Continuous
             f == u \notin Unfiltered
             trip == IF l THEN "restored" ELSE "none"
  <2>2. units[u] = Initial(u, l) /\ l \in BOOLEAN
    BY <2>1
  <2>3. units[u] = [trip |-> trip, fault |-> FALSE, breaker |-> on, gates |-> gates,
                    run |-> on, branch |-> f /\ on /\ gates /\ ~l, linkTripped |-> l,
                    driven |-> f, tripDue |-> FALSE, trackDue |-> FALSE,
                    pending |-> "none"]
    BY <2>2, InitialMembers
  <2>4. u \in Sampled => ~words[u].active.on
    BY DEF Init
  <2>5. /\ gates \in BOOLEAN /\ on \in BOOLEAN /\ (u \in Sampled => ~gates)
        /\ f \in BOOLEAN /\ (f <=> u \notin Unfiltered) /\ (trip # "none" <=> l)
    BY DEF Sampled
  <2> HIDE DEF l, on, gates, f, trip
  <2>6. /\ ~units[u].tripDue /\ ~units[u].trackDue /\ units[u].pending = "none"
        /\ units[u].driven = f /\ units[u].breaker = on /\ units[u].gates = gates
        /\ units[u].trip = trip /\ units[u].branch = (f /\ on /\ gates /\ ~l)
    BY <2>3
  <2>7. units[u].branch <=> u \notin Unfiltered /\ units[u].breaker /\ units[u].gates
                            /\ ~Tripped(units[u])
    BY <2>5, <2>6 DEF Tripped
  <2>8. u \in Sampled => (units[u].gates <=> Stage(u, units[u], words[u].active.on))
    BY <2>4, <2>5, <2>6 DEF Stage
  <2> QED
    BY <1>5, <2>5, <2>6, <2>7, <2>8 DEF ServiceOK, BranchOf
<1> QED
  BY <1>6, <1>7, <1>8, <1>9 DEF LifeInv

----------------------------------------------------------------------------
(***************************************************************************)
(* What is due for a unit, and the steps that leave its members alone.     *)
(***************************************************************************)
LEMMA DueFacts ==
    ASSUME NEW u \in Units, NEW at
    PROVE  /\ DueAt(u, at) \in Due /\ NothingDue \in Due
           /\ DueAt(u, at).control <=> at = NextTime(u)
           /\ u \in Sampled => (DueAt(u, at).load <=> at = LoadTime(u))
           /\ DueAt(u, at).load => DueAt(u, at).edge /\ u \in Sampled
           /\ u \in Sampled => (DueAt(u, at).edge <=> DueAt(u, at).load)
           /\ u \in Continuous => DueAt(u, at).edge = DueAt(u, at).control
           /\ DueAt(u, at) # NothingDue <=>
                  at = NextTime(u) \/ (u \in Sampled /\ at = LoadTime(u))
           /\ DueAt(u, at) # NothingDue =>
                  DueAt(u, at).edge \/ DueAt(u, at).control
<1> DEFINE c == at = NextTime(u)
           l == at = LoadTime(u)
<1>1. DueAt(u, at) = IF u \in Continuous
                     THEN [edge |-> c, control |-> c, load |-> FALSE]
                     ELSE [edge |-> l, control |-> c, load |-> l]
  BY DEF DueAt
<1>2. c \in BOOLEAN /\ l \in BOOLEAN
  OBVIOUS
<1>3. u \in Sampled <=> u \notin Continuous
  BY DEF Sampled
<1>4. NothingDue = [edge |-> FALSE, control |-> FALSE, load |-> FALSE]
  BY DEF NothingDue
<1> HIDE DEF c, l
<1>5. CASE u \in Continuous
  <2>1. DueAt(u, at) = [edge |-> c, control |-> c, load |-> FALSE]
    BY <1>1, <1>5
  <2>2. /\ DueAt(u, at) \in Due /\ NothingDue \in Due
        /\ DueAt(u, at).control = c /\ DueAt(u, at).load = FALSE /\ DueAt(u, at).edge = c
    BY <1>2, <1>4, <2>1 DEF Due
  <2>3. CASE c = TRUE
    <3>1. DueAt(u, at).control = TRUE /\ NothingDue.control = FALSE
      BY <1>4, <2>2, <2>3
    <3>2. DueAt(u, at) # NothingDue
      BY <3>1
    <3>3. at = NextTime(u) /\ u \notin Sampled
      BY <1>3, <1>5, <2>3 DEF c
    <3> QED
      BY <1>5, <2>2, <2>3, <3>2, <3>3
  <2>4. CASE c = FALSE
    BY <1>3, <1>4, <1>5, <2>1, <2>2, <2>4 DEF c
  <2> QED
    BY <1>2, <2>3, <2>4
<1>6. CASE u \notin Continuous
  <2>1. DueAt(u, at) = [edge |-> l, control |-> c, load |-> l]
    BY <1>1, <1>6
  <2>2. /\ DueAt(u, at) \in Due /\ NothingDue \in Due
        /\ DueAt(u, at).control = c /\ DueAt(u, at).load = l /\ DueAt(u, at).edge = l
    BY <1>2, <1>4, <2>1 DEF Due
  <2>3. CASE c = TRUE \/ l = TRUE
    <3>1. DueAt(u, at) # NothingDue
      BY <1>4, <2>2, <2>3
    <3> QED
      BY <1>2, <1>3, <1>6, <2>2, <2>3, <3>1 DEF c, l
  <2>4. CASE c = FALSE /\ l = FALSE
    BY <1>3, <1>4, <1>6, <2>1, <2>2, <2>4 DEF c, l
  <2> QED
    BY <1>2, <2>3, <2>4
<1> QED
  BY <1>5, <1>6

\* What of the history of a unit a new instant leaves alone.
SameRecord(r, h) == /\ r.command = h.command /\ r.source = h.source
                    /\ r.aligned = h.aligned /\ r.reports = h.reports

LEMMA EnteredFacts ==
    ASSUME NEW h \in [Units -> History], NEW at
    PROVE  /\ Entered(h, at) \in [Units -> History]
           /\ \A u \in Units :
                  IF h[u].stage = "idle" /\ DueAt(u, at) # NothingDue
                  THEN /\ Entered(h, at)[u].stage = "protect"
                       /\ Entered(h, at)[u].due = DueAt(u, at)
                       /\ SameRecord(Entered(h, at)[u], h[u])
                  ELSE Entered(h, at)[u] = h[u]
<1>1. ASSUME NEW u \in Units
      PROVE  LET r == [h[u] EXCEPT !.stage = "protect", !.due = DueAt(u, at)]
             IN  /\ r \in History /\ r.stage = "protect" /\ r.due = DueAt(u, at)
                 /\ SameRecord(r, h[u])
  BY DueFacts DEF History, SameRecord
<1> QED
  BY <1>1 DEF Entered

\* The instants of the clocks of a unit.
LEMMA DueKept ==
    ASSUME UNCHANGED t, NEW u \in Units, clock'[u] = clock[u],
           u \in Sampled => load'[u] = load[u]
    PROVE  DueAt(u, t)' = DueAt(u, t)
BY DEF DueAt, NextTime, LoadTime, Sampled

LEMMA WordsKept ==
    ASSUME TypeOK, TypeOK', NEW u \in Sampled, WordsOK(u), t <= t',
           clock'[u] = clock[u], words'[u] = words[u]
    PROVE  WordsOK(u)'
<1>0. u \in Owners
  BY DEF Sampled, Owners
<1>1. t \in Int /\ ClockAt(Clocks[u], clock[u] - 1) \in Int /\ Computation[u] \in Int
  BY <1>0, Constants, Times
<1>3. t' \in Int
  BY Constants DEF TypeOK
<1>2. FirstOf(u)' = FirstOf(u)
  BY DEF FirstOf
<1> QED
  BY <1>1, <1>2, <1>3 DEF WordsOK

LEMMA ServiceKept ==
    ASSUME NEW u \in Units, ServiceOK(u), units'[u] = units[u],
           u \in Sampled => words'[u] = words[u],
           \/ history'[u] = history[u]
           \/ /\ {history[u].stage, history'[u].stage} \cap {"idle", "actuate"} = {}
           \/ history[u].stage = "idle" /\ history'[u].stage = "protect"
    PROVE  ServiceOK(u)'
BY DEF ServiceOK, Stage, BranchOf, Tripped

LEMMA LifeBoundary ==
    ASSUME IndInv, LifeInv, Boundary
    PROVE  LifeInv'
<1>1. TypeOK /\ RestOK /\ TypeOK' /\ RestOK' /\ TurnsInOrder'
  BY TypesBoundary DEF IndInv
<1>2. /\ pc = "boundary" /\ t <= t' /\ t' \in Nat /\ pc' \in {"log", "actions", "protect"}
      /\ \A o \in Owners : t' = NextTime(o) => pc' # "log"
      /\ \A u \in Sampled : t' = LoadTime(u) => pc' # "log"
      /\ pc' = "actions" => t' \in ActionTimes
  BY <1>1, BoundaryFacts
<1>3. /\ UNCHANGED <<order, turn, action, clock, load, units, words>>
      /\ history' = IF t' \in ActionTimes THEN history ELSE Entered(history, t')
      /\ t' \in ActionTimes => pc' \in {"log", "actions"}
  BY DEF Boundary
<1>4. turn = 1 /\ turn' = 1
  BY <1>1, <1>2, <1>3 DEF IndInv, TurnsInOrder, Phases
<1>5. \A o : ~Had(o)' /\ ~Had(o)
  BY <1>4, NoTurn DEF Had
<1>6. history \in [Units -> History] /\ history' \in [Units -> History]
  BY <1>3, EnteredFacts DEF LifeInv
<1>7. ASSUME NEW u \in Units
      PROVE  StageOK(u)' /\ ServiceOK(u)'
  <2>1. StageOK(u) /\ ServiceOK(u)
    BY <1>2, <1>7 DEF LifeInv
  <2>2. Place(u) = "idle" /\ ~Undone(u)
    BY <1>2 DEF Place, Phases, Undone
  <2>3. history[u].stage = "idle" /\ history[u].due = NothingDue
    BY <2>1, <2>2 DEF StageOK
  <2>4. DueAt(u, t)' = DueAt(u, t')
    BY <1>3 DEF DueAt, NextTime, LoadTime
  <2>5. pc' = "protect" => Place(u)' = "protect"
    BY <1>5 DEF Place, Phases
  <2>6. CASE t' \in ActionTimes \/ DueAt(u, t') = NothingDue
    <3>1. history'[u] = history[u]
      BY <1>3, <1>6, <2>3, <2>6, EnteredFacts DEF LifeInv
    <3>2. Undone(u)' => DueAt(u, t)' = NothingDue
      BY <1>2, <1>3, <2>4, <2>6 DEF Undone
    <3>3. StageOK(u)'
      BY <2>3, <3>1, <3>2 DEF StageOK
    <3> QED
      BY <1>3, <2>1, <3>1, <3>3, ServiceKept
  <2>7. CASE t' \notin ActionTimes /\ DueAt(u, t') # NothingDue
    <3>1. history'[u].stage = "protect" /\ history'[u].due = DueAt(u, t')
      <4>1. history' = Entered(history, t') /\ history \in [Units -> History]
        BY <1>3, <2>7 DEF LifeInv
      <4> QED
        BY <2>3, <2>7, <4>1, EnteredFacts
    <3>2. pc' = "protect"
      <4>1. pc' # "log"
        BY <1>2, <2>7, DueFacts DEF Owners
      <4> QED
        BY <1>2, <2>7, <4>1
    <3>3. StageOK(u)'
      BY <2>4, <2>5, <3>1, <3>2 DEF StageOK
    <3> QED
      BY <1>3, <2>1, <2>3, <3>1, <3>3, ServiceKept
  <2> QED
    BY <2>6, <2>7
<1>8. ASSUME NEW u \in Sampled
      PROVE  WordsOK(u)'
  BY <1>1, <1>2, <1>3, <1>8, WordsKept DEF LifeInv
<1> QED
  BY <1>6, <1>7, <1>8 DEF LifeInv

----------------------------------------------------------------------------
(***************************************************************************)
(* One file event, for each unit.                                          *)
(***************************************************************************)
\* What Commanded leaves of the history of a unit.
IsCommanded(r, u, on) ==
    /\ r.stage = "protect" /\ r.due = DueAt(u, t) /\ r.command = on
    /\ r.source = (on /\ ~Tripped(units[u]))
    /\ r.aligned = (history[u].aligned /\ units[u].breaker /\ units[u].gates)
    /\ r.reports = history[u].reports

LEMMA CommandedFacts ==
    ASSUME TypeOK, history \in [Units -> History], NEW u \in Units, NEW on \in BOOLEAN
    PROVE  Commanded(u, on) \in History /\ IsCommanded(Commanded(u, on), u, on)
<1> DEFINE source == on /\ ~Tripped(units[u])
           aligned == history[u].aligned /\ units[u].breaker /\ units[u].gates
           due == DueAt(u, t)
           h == history[u]
<1>1. source \in BOOLEAN /\ aligned \in BOOLEAN /\ due \in Due /\ h \in History
  BY DueFacts DEF History, TypeOK, Unit
<1>2. Commanded(u, on) = [h EXCEPT !.stage = "protect", !.due = due, !.command = on,
                                   !.source = source, !.aligned = aligned]
  BY DEF Commanded
<1> HIDE DEF source, aligned, due, h
<1>3. /\ Commanded(u, on) \in History /\ Commanded(u, on).stage = "protect"
      /\ Commanded(u, on).due = due /\ Commanded(u, on).command = on
      /\ Commanded(u, on).source = source /\ Commanded(u, on).aligned = aligned
      /\ Commanded(u, on).reports = h.reports
  BY <1>1, <1>2 DEF History
<1> QED
  BY <1>3 DEF IsCommanded, source, aligned, due, h

\* A unit entered this instant: it is in its lifecycle if something is due.
Entering(u) ==
    IF history[u].stage = "idle" /\ DueAt(u, t) # NothingDue
    THEN /\ history'[u].stage = "protect" /\ history'[u].due = DueAt(u, t)
         /\ SameRecord(history'[u], history[u])
    ELSE history'[u] = history[u]

LEMMA ActionOnUnit ==
    ASSUME TypeOK, RestOK, EventsAhead, LifeInv, ApplyAction, NEW u \in Units
    PROVE  /\ pc = "actions" /\ action \in 1 .. Len(Events) /\ Events[action].t = t
           /\ UNCHANGED <<t, turn, clock, load, words, order>>
           /\ history' \in [Units -> History]
           /\ IF u \in Names(Events[action])
              THEN /\ Events[action].on \in BOOLEAN /\ history[u].stage = "idle"
                   /\ units'[u] = Command(u, units[u], Events[action].on)
                   /\ IsCommanded(history'[u], u, Events[action].on)
              ELSE /\ units'[u] = units[u]
                   /\ IF pc' = "protect" THEN Entering(u) ELSE history'[u] = history[u]
<1> DEFINE event == Events[action]
           reaches == "unit" \in DOMAIN event
           us == IF reaches
                 THEN [units EXCEPT ![event.unit] = Command(event.unit, @, event.on)]
                 ELSE units
           told == IF reaches
                   THEN [history EXCEPT ![event.unit] = Commanded(event.unit, event.on)]
                   ELSE history
           more == action < Len(Events) /\ Events[action + 1].t <= t
<1>1. /\ pc = "actions" /\ units' = us
      /\ history' = IF more THEN told ELSE Entered(told, t)
      /\ pc' = IF more THEN "actions" ELSE "protect"
      /\ UNCHANGED <<t, turn, clock, load, words, order>>
  BY DEF ApplyAction
<1>2. action \in 1 .. Len(Events) /\ event.t = t
  BY <1>1, EventsOrdered DEF TypeOK, EventsAhead
<1>3. event \in Event
  BY <1>2, EventsOrdered
<1>4. /\ units \in [Units -> Unit] /\ history \in [Units -> History]
      /\ StageOK(u)
  BY <1>1 DEF TypeOK, LifeInv
<1>5. u \in Names(event) => history[u].stage = "idle"
  <2> SUFFICES ASSUME u \in Names(event), history[u].stage # "idle" PROVE FALSE
    OBVIOUS
  <2>1. \A i \in action .. Len(Events) : u \in Names(Events[i]) => t < Events[i].t
    BY <1>1, <1>4 DEF StageOK
  <2>2. action \in action .. Len(Events) /\ t \in Nat
    BY <1>2, EventsOrdered, Times
  <2>3. t < event.t
    BY <2>1, <2>2
  <2> QED
    BY <1>2, <2>2, <2>3
<1> DEFINE on == event.on
<1>6. /\ told \in [Units -> History]
      /\ IF u \in Names(event)
         THEN on \in BOOLEAN /\ us[u] = Command(u, units[u], on)
              /\ IsCommanded(told[u], u, on)
         ELSE us[u] = units[u] /\ told[u] = history[u]
  <2> HIDE DEF event, on
  <2>1. CASE event \in [t : Nat, parameters : {TRUE}]
    <3>1. ~reaches /\ Names(event) = {}
      BY <2>1 DEF Names
    <3> QED
      BY <1>4, <3>1
  <2>2. CASE event \in [t : Nat, unit : Units, on : BOOLEAN]
    <3> DEFINE v == event.unit
    <3>1. /\ reaches /\ Names(event) = {v} /\ v \in Units /\ on \in BOOLEAN
          /\ event.on = on
      BY <2>2 DEF Names, on
    <3> HIDE DEF v
    <3>2. /\ us = [units EXCEPT ![v] = Command(v, units[v], on)]
          /\ told = [history EXCEPT ![v] = Commanded(v, on)]
      BY <3>1 DEF v
    <3>3. Commanded(v, on) \in History /\ IsCommanded(Commanded(v, on), v, on)
      BY <1>4, <3>1, CommandedFacts
    <3> HIDE DEF us, told
    <3>4. CASE u = v
      BY <1>4, <3>1, <3>2, <3>3, <3>4
    <3>5. CASE u # v
      BY <1>4, <3>1, <3>2, <3>3, <3>5
    <3> QED
      BY <3>4, <3>5
  <2> QED
    BY <1>3, <2>1, <2>2 DEF Event
<1> HIDE DEF told, us, event, on
<1>7. /\ Entered(told, t) \in [Units -> History]
      /\ IF told[u].stage = "idle" /\ DueAt(u, t) # NothingDue
         THEN /\ Entered(told, t)[u].stage = "protect"
              /\ Entered(told, t)[u].due = DueAt(u, t)
              /\ SameRecord(Entered(told, t)[u], told[u])
         ELSE Entered(told, t)[u] = told[u]
  BY <1>6, EnteredFacts
<1>8. CASE u \in Names(event)
  <2>1. told[u].stage # "idle"
    BY <1>6, <1>8 DEF IsCommanded
  <2>2. history'[u] = told[u]
    BY <1>1, <1>7, <2>1
  <2> QED
    BY <1>1, <1>2, <1>5, <1>6, <1>7, <1>8, <2>2 DEF event, on
<1>9. CASE u \notin Names(event)
  <2>1. us[u] = units[u] /\ told[u] = history[u]
    BY <1>6, <1>9
  <2>2. IF pc' = "protect" THEN Entering(u) ELSE history'[u] = history[u]
    BY <1>1, <1>7, <2>1 DEF Entering
  <2> QED
    BY <1>1, <1>2, <1>6, <1>7, <1>9, <2>1, <2>2 DEF event
<1> QED
  BY <1>8, <1>9

LEMMA LifeAction ==
    ASSUME IndInv, LifeInv, ApplyAction
    PROVE  LifeInv'
<1>1. TypeOK /\ RestOK /\ TypeOK' /\ RestOK' /\ EventsAhead
  BY TypesAction DEF IndInv, Timely
<1>2. /\ pc = "actions" /\ pc' \in {"actions", "protect"} /\ action' = action + 1
      /\ action \in 1 .. Len(Events) /\ Events[action].t = t
      /\ UNCHANGED <<t, turn, clock, load, words, order>>
      /\ history' \in [Units -> History]
  BY <1>1, ActionFacts, ActionOnUnit, ProgramAssumption
<1>3. turn = 1 /\ turn' = 1
  BY <1>2 DEF IndInv, TurnsInOrder, Phases
<1>4. \A o : ~Had(o)' /\ ~Had(o)
  BY <1>3, NoTurn DEF Had
<1>5. ASSUME NEW u \in Units
      PROVE  StageOK(u)' /\ ServiceOK(u)'
  <2>1. StageOK(u) /\ ServiceOK(u)
    BY <1>2, <1>5 DEF LifeInv
  <2>2. DueAt(u, t)' = DueAt(u, t)
    BY <1>2, DueKept
  <2>3. Place(u) = "protect" /\ Place(u)' = "protect"
    BY <1>2, <1>4 DEF Place, Phases
  <2>4. history[u].stage \in {"idle", "protect"}
    BY <2>1, <2>3 DEF StageOK
  <2>5. CASE u \in Names(Events[action])
    <3> DEFINE on == Events[action].on
    <3>1. /\ on \in BOOLEAN /\ history[u].stage = "idle"
          /\ units'[u] = Command(u, units[u], on)
          /\ history'[u].stage = "protect" /\ history'[u].due = DueAt(u, t)
      BY <1>1, <2>5, ActionOnUnit DEF IsCommanded
    <3>2. \A i \in action' .. Len(Events) : u \in Names(Events[i]) => t < Events[i].t
      <4> SUFFICES ASSUME NEW i \in action' .. Len(Events), u \in Names(Events[i])
                   PROVE  t < Events[i].t
        OBVIOUS
      <4>1. i \in 1 .. Len(Events) /\ action < i
        BY <1>2, EventsOrdered
      <4>2. Names(Events[action]) \cap Names(Events[i]) # {}
        BY <2>5
      <4> QED
        BY <1>2, <4>1, <4>2, ProgramAssumption
    <3>3. StageOK(u)'
      BY <1>2, <2>2, <2>3, <3>1, <3>2 DEF StageOK
    <3>4. ServiceOK(u)'
      <4> DEFINE s == units[u]
                 r == units'[u]
                 effective == on /\ ~Tripped(s)
      <4>1. s \in Unit /\ words \in [Sampled -> Registered] /\ ~s.tripDue /\ s.pending = "none"
        BY <1>1, <2>1, <3>1 DEF TypeOK, RestOK, ServiceOK
      <4>2. /\ r.trip = s.trip /\ r.breaker = effective /\ r.tripDue = s.tripDue
            /\ r.pending = s.pending
            /\ r.gates = IF u \in Continuous THEN effective
                         ELSE IF u \in Unfiltered THEN words[u].active.on /\ effective
                         ELSE s.gates
            /\ r.branch = (u \notin Unfiltered /\ effective /\ r.gates /\ ~Tripped(s))
            /\ r.driven = (s.driven /\ (u \in Unfiltered => r.gates))
        <5> HIDE DEF on, s
        <5> DEFINE g == IF u \in Continuous THEN effective
                        ELSE IF u \in Unfiltered THEN words[u].active.on /\ effective
                        ELSE s.gates
                   b == u \notin Unfiltered /\ effective /\ g /\ ~Tripped(s)
                   d == s.driven /\ (u \in Unfiltered => g)
                   k == IF u \in Continuous
                        THEN effective /\ ~(s.breaker /\ s.gates /\ ~Tripped(s))
                        ELSE s.trackDue
        <5>1. Command(u, s, on) =
                 [trip |-> s.trip, fault |-> s.fault, breaker |-> effective, gates |-> g,
                  run |-> effective, branch |-> b, linkTripped |-> s.linkTripped,
                  driven |-> d, tripDue |-> s.tripDue, trackDue |-> k,
                  pending |-> s.pending]
          BY <3>1, <4>1, CommandMembers
        <5>2. r = Command(u, s, on)
          BY <3>1 DEF s
        <5> HIDE DEF g, b, d, k, effective, r
        <5>3. /\ r.trip = s.trip /\ r.breaker = effective /\ r.tripDue = s.tripDue
              /\ r.pending = s.pending /\ r.gates = g /\ r.branch = b /\ r.driven = d
          BY <5>1, <5>2
        <5>4. /\ g = IF u \in Continuous THEN effective
                     ELSE IF u \in Unfiltered THEN words[u].active.on /\ effective
                     ELSE s.gates
              /\ b = (u \notin Unfiltered /\ effective /\ g /\ ~Tripped(s))
              /\ d = (s.driven /\ (u \in Unfiltered => g))
          BY DEF g, b, d
        <5> QED
          BY <5>3, <5>4
      <4>3. Tripped(r) <=> Tripped(s)
        BY <4>2 DEF Tripped
      <4>4. u \in Sampled => (s.gates <=> Stage(u, s, words[u].active.on))
        BY <2>1, <4>1 DEF ServiceOK
      <4>5. u \in Sampled => /\ words'[u] = words[u] /\ words[u].active.on \in BOOLEAN
                             /\ u \notin Continuous
        BY <1>2, <4>1 DEF Sampled, Registered, Word
      <4>6. r \in Unit
        BY <1>1 DEF TypeOK
      <4>7. u \in Sampled => (r.gates <=> Stage(u, r, words[u].active.on))
        <5> HIDE DEF s, r, on
        <5> QED
          BY <4>1, <4>2, <4>3, <4>4, <4>5, <4>6 DEF Stage, Unit
      <4>8. r.branch <=> BranchOf(u, r)
        BY <4>2, <4>3 DEF BranchOf
      <4> HIDE DEF s, effective
      <4>9. ~r.tripDue /\ r.pending = "none" /\ (u \in Unfiltered /\ r.driven => r.gates)
        BY <4>1, <4>2
      <4>10. UNCHANGED words
        BY <1>2
      <4> QED
        BY <3>1, <4>7, <4>8, <4>9, <4>10 DEF ServiceOK, Stage, BranchOf, Tripped
    <3> QED
      BY <3>3, <3>4
  <2>6. CASE u \notin Names(Events[action])
    <3>1. /\ units'[u] = units[u]
          /\ IF pc' = "protect" THEN Entering(u) ELSE history'[u] = history[u]
      BY <1>1, <2>6, ActionOnUnit
    <3>2. \A i \in action' .. Len(Events) : i \in action .. Len(Events)
      BY <1>2, EventsOrdered
    <3>3. StageOK(u)'
      BY <1>2, <1>4, <2>1, <2>2, <2>3, <2>4, <3>1, <3>2 DEF StageOK, Undone, Entering
    <3>4. ServiceOK(u)'
      BY <1>2, <2>1, <3>1, ServiceKept DEF Entering
    <3> QED
      BY <3>3, <3>4
  <2> QED
    BY <2>5, <2>6
<1>6. ASSUME NEW u \in Sampled
      PROVE  WordsOK(u)'
  BY <1>1, <1>2, <1>6, WordsKept, Times DEF LifeInv
<1> QED
  BY <1>2, <1>5, <1>6 DEF LifeInv

----------------------------------------------------------------------------
(***************************************************************************)
(* The fast check, for each unit.                                          *)
(***************************************************************************)
\* The history of a unit that had its turn in a phase.
Moved(r, h, stage) ==
    /\ r.stage = stage /\ r.due = IF stage = "idle" THEN NothingDue ELSE h.due
    /\ r.command = h.command /\ r.source = h.source

LEMMA PastFacts ==
    ASSUME NEW h \in [Units -> History], NEW u \in Units,
           NEW stage \in {"idle", "protect", "sense", "actuate"}
    PROVE  /\ Past(h, u, stage) \in [Units -> History]
           /\ \A v \in Units : v # u => Past(h, u, stage)[v] = h[v]
           /\ IF h[u].stage = "idle" THEN Past(h, u, stage) = h
              ELSE /\ Moved(Past(h, u, stage)[u], h[u], stage)
                   /\ Past(h, u, stage)[u].aligned = h[u].aligned
                   /\ Past(h, u, stage)[u].reports = h[u].reports
<1>1. CASE h[u].stage = "idle"
  BY <1>1 DEF Past
<1>2. CASE h[u].stage # "idle"
  <2> DEFINE d == IF stage = "idle" THEN NothingDue ELSE h[u].due
             r == [h[u] EXCEPT !.stage = stage, !.due = d]
  <2>1. d \in Due
    BY DueFacts DEF History
  <2>2. Past(h, u, stage) = [h EXCEPT ![u] = r]
    BY <1>2 DEF Past
  <2> HIDE DEF d
  <2>3. /\ r \in History /\ r.stage = stage /\ r.due = d /\ r.command = h[u].command
        /\ r.source = h[u].source /\ r.aligned = h[u].aligned
        /\ r.reports = h[u].reports
    BY <2>1 DEF History
  <2> HIDE DEF r
  <2> QED
    BY <1>2, <2>2, <2>3 DEF Moved, d
<1> QED
  BY <1>1, <1>2

LEMMA ReportedFacts ==
    ASSUME NEW h \in [Units -> History], NEW u \in Units, NEW trips \in BOOLEAN
    PROVE  /\ Reported(h, u, trips) \in [Units -> History]
           /\ \A v \in Units : v # u => Reported(h, u, trips)[v] = h[v]
           /\ ~trips => Reported(h, u, trips) = h
           /\ LET r == Reported(h, u, trips)[u]
              IN  /\ r.stage = h[u].stage /\ r.due = h[u].due
                  /\ r.command = h[u].command /\ r.source = h[u].source
                  /\ r.aligned = h[u].aligned
                  /\ r.reports = IF trips THEN h[u].reports + 1 ELSE h[u].reports
<1>1. CASE trips
  <2> DEFINE r == [h[u] EXCEPT !.reports = h[u].reports + 1]
  <2>1. Reported(h, u, trips) = [h EXCEPT ![u] = r]
    BY <1>1 DEF Reported
  <2>2. /\ r \in History /\ r.stage = h[u].stage /\ r.due = h[u].due
        /\ r.command = h[u].command /\ r.source = h[u].source
        /\ r.aligned = h[u].aligned /\ r.reports = h[u].reports + 1
    BY DEF History
  <2> HIDE DEF r
  <2> QED
    BY <1>1, <2>1, <2>2
<1>2. CASE ~trips
  BY <1>2 DEF Reported
<1> QED
  BY <1>1, <1>2

LEMMA ProtectOnUnit ==
    ASSUME TypeOK, RestOK, TurnsInOrder, LifeInv, Protect, NEW u \in Units
    PROVE  /\ pc = "protect" /\ UNCHANGED <<t, clock, load, words, order>>
           /\ history' \in [Units -> History]
           /\ IF u # Owner \/ history[u].stage = "idle"
              THEN units'[u] = units[u] /\ history'[u] = history[u]
              ELSE /\ history[u].stage = "protect" /\ history[u].due = DueAt(u, t)
                   /\ \E over \in BOOLEAN :
                         /\ over => history[u].due.edge /\ ~Tripped(units[u])
                         /\ units'[u] = IF over
                                        THEN TripBody(u, Latch(units[u], "overcurrent"))
                                        ELSE units[u]
                         /\ Moved(history'[u], history[u], "sense")
                         /\ history'[u].aligned = history[u].aligned
                         /\ history'[u].reports = IF over THEN history[u].reports + 1
                                                  ELSE history[u].reports
<1>1. pc = "protect" /\ UNCHANGED <<t, clock, load, words, order>>
  BY DEF Protect
<1>2. PICK over \in BOOLEAN :
         /\ over => DueAt(Owner, t).edge /\ ~Tripped(units[Owner])
         /\ units' = IF over THEN [units EXCEPT ![Owner] =
                                      TripBody(Owner, Latch(units[Owner], "overcurrent"))]
                     ELSE units
         /\ history' = Reported(Past(history, Owner, "sense"), Owner, over)
  BY Zenon DEF Protect
<1>3. Owner \in Units /\ ~Had(Owner)
  BY ProtectFacts, OwnersTurn
<1>4. /\ history \in [Units -> History] /\ units \in [Units -> Unit]
      /\ StageOK(u) /\ StageOK(Owner)
  BY <1>1, <1>3 DEF LifeInv, TypeOK
<1> DEFINE past == Past(history, Owner, "sense")
<1>5. /\ past \in [Units -> History]
      /\ u # Owner => past[u] = history[u]
      /\ IF history[Owner].stage = "idle" THEN past = history
         ELSE /\ Moved(past[Owner], history[Owner], "sense")
              /\ past[Owner].aligned = history[Owner].aligned
              /\ past[Owner].reports = history[Owner].reports
  BY <1>3, <1>4, PastFacts
<1> HIDE DEF past
<1>6. /\ Reported(past, Owner, over) \in [Units -> History]
      /\ u # Owner => Reported(past, Owner, over)[u] = past[u]
      /\ ~over => Reported(past, Owner, over) = past
      /\ LET r == Reported(past, Owner, over)[Owner]
         IN  /\ r.stage = past[Owner].stage /\ r.due = past[Owner].due
             /\ r.command = past[Owner].command /\ r.source = past[Owner].source
             /\ r.aligned = past[Owner].aligned
             /\ r.reports = IF over THEN past[Owner].reports + 1 ELSE past[Owner].reports
  BY <1>3, <1>5, ReportedFacts
<1>7. history' = Reported(past, Owner, over)
  BY <1>2 DEF past
<1>8. history[Owner].due = DueAt(Owner, t) /\ history[Owner].stage \in {"idle", "protect"}
  BY <1>1, <1>3, <1>4 DEF StageOK, Undone, Place, Phases
<1>9. CASE u # Owner
  BY <1>1, <1>2, <1>4, <1>5, <1>6, <1>7, <1>9
<1>10. CASE u = Owner /\ history[u].stage = "idle"
  <2>1. history[u].due = NothingDue /\ ~NothingDue.edge
    BY <1>4, <1>10 DEF StageOK, NothingDue
  <2>2. ~over
    BY <1>2, <1>8, <1>10, <2>1
  <2> QED
    BY <1>1, <1>2, <1>5, <1>6, <1>7, <1>10, <2>2
<1>11. CASE u = Owner /\ history[u].stage # "idle"
  <2>1. /\ Moved(history'[u], history[u], "sense")
        /\ history'[u].aligned = history[u].aligned
        /\ history'[u].reports = IF over THEN history[u].reports + 1
                                 ELSE history[u].reports
    BY <1>5, <1>6, <1>7, <1>11 DEF Moved
  <2>2. units'[u] = IF over THEN TripBody(u, Latch(units[u], "overcurrent")) ELSE units[u]
    BY <1>2, <1>4, <1>11
  <2>3. over => history[u].due.edge /\ ~Tripped(units[u])
    BY <1>2, <1>8, <1>11
  <2>4. history' \in [Units -> History]
    BY <1>6, <1>7
  <2> QED
    BY <1>1, <1>8, <1>11, <2>1, <2>2, <2>3, <2>4
<1> QED
  BY <1>9, <1>10, <1>11

\* The members of a unit that trips in its fast check.
LEMMA OvercurrentMembers ==
    ASSUME NEW u, NEW s \in Unit, ~Tripped(s)
    PROVE  TripBody(u, Latch(s, "overcurrent")) =
               [trip |-> "overcurrent", fault |-> TRUE, breaker |-> FALSE,
                gates |-> FALSE, run |-> FALSE, branch |-> FALSE, linkTripped |-> TRUE,
                driven |-> s.driven /\ u \notin Unfiltered, tripDue |-> s.tripDue,
                trackDue |-> s.trackDue, pending |-> s.pending]
<1> DEFINE l == Latch(s, "overcurrent")
<1>1. l = [trip |-> "overcurrent", fault |-> s.fault \/ "overcurrent" = "overcurrent",
           breaker |-> s.breaker, gates |-> s.gates, run |-> s.run, branch |-> s.branch,
           linkTripped |-> s.linkTripped, driven |-> s.driven, tripDue |-> s.tripDue,
           trackDue |-> s.trackDue, pending |-> s.pending]
  BY LatchMembers
<1>2. (s.fault \/ "overcurrent" = "overcurrent") = TRUE
  OBVIOUS
<1>3. l \in Unit /\ Tripped(l)
  BY LatchResult
<1> HIDE DEF l
<1>4. /\ l.trip = "overcurrent" /\ l.fault = TRUE /\ l.driven = s.driven
      /\ l.tripDue = s.tripDue /\ l.trackDue = s.trackDue /\ l.pending = s.pending
  BY <1>1, <1>2
<1>5. TripBody(u, l) = [trip |-> l.trip, fault |-> l.fault, breaker |-> FALSE,
               gates |-> FALSE, run |-> FALSE, branch |-> FALSE,
               linkTripped |-> TRUE, driven |-> l.driven /\ u \notin Unfiltered,
               tripDue |-> l.tripDue, trackDue |-> l.trackDue, pending |-> l.pending]
  BY <1>3, TripBodyMembers
<1> QED
  BY <1>4, <1>5 DEF l

\* What a unit out of service owes.
LEMMA ServiceOfTripped ==
    ASSUME NEW u \in Units, Tripped(units'[u]), ~units'[u].branch, ~units'[u].gates,
           u \in Unfiltered => ~units'[u].driven, ~units'[u].tripDue,
           units'[u].trackDue => history'[u].stage # "idle",
           history'[u].stage # "actuate", units'[u].pending = "none"
    PROVE  ServiceOK(u)'
BY DEF ServiceOK, Stage, BranchOf, Tripped

LEMMA LifeProtect ==
    ASSUME IndInv, LifeInv, Protect
    PROVE  LifeInv'
<1>1. TypeOK /\ RestOK /\ TurnsInOrder /\ TypeOK' /\ RestOK'
  BY TypesProtect DEF IndInv
<1>2. /\ pc = "protect" /\ UNCHANGED <<t, clock, load, words, order>>
      /\ history' \in [Units -> History]
  BY <1>1, ProtectOnUnit, ProgramAssumption
<1>3. /\ pc' \in {"protect", "sense", "done"}
      /\ pc' = "protect" => ~Ends("protect")
      /\ pc' = "sense" => Ends("protect") /\ \A o \in Units : ~Had(o)' /\ (Had(o) \/ o = Owner)
      /\ pc' = "protect" => \A o \in Units : Had(o)' <=> Had(o) \/ o = Owner
  <2>1. \E to : Turn("protect", to)
    BY <1>1, ProtectFacts
  <2>2. "protect" \in Phases /\ UNCHANGED order
    BY <1>2 DEF Phases
  <2>3. Units \subseteq Owners
    BY DEF Owners
  <2> QED
    BY <1>1, <2>1, <2>2, <2>3, ProtectTurn, TurnFacts
<1>4. Owner \in Units /\ ~Had(Owner)
  BY <1>1, ProtectFacts, OwnersTurn
<1>5. ASSUME NEW u \in Units, pc' # "done"
      PROVE  StageOK(u)' /\ ServiceOK(u)'
  <2>1. StageOK(u) /\ ServiceOK(u)
    BY <1>2, <1>5 DEF LifeInv
  <2>2. DueAt(u, t)' = DueAt(u, t) /\ history[u].due = DueAt(u, t)
    BY <1>2, <2>1, DueKept DEF StageOK, Undone
  <2>3. CASE u # Owner \/ history[u].stage = "idle"
    <3>1. units'[u] = units[u] /\ history'[u] = history[u]
      BY <1>1, <2>3, ProtectOnUnit
    <3>2. history'[u].stage \in {"idle", Place(u)'}
      BY <1>2, <1>3, <1>5, <2>1, <2>3, <3>1 DEF StageOK, Place, Phases
    <3>3. StageOK(u)'
      BY <1>3, <1>5, <2>1, <2>2, <3>1, <3>2 DEF StageOK
    <3>4. ServiceOK(u)'
      BY <1>2, <2>1, <3>1, ServiceKept
    <3> QED
      BY <3>3, <3>4
  <2>4. CASE u = Owner /\ history[u].stage # "idle"
    <3>1. PICK over \in BOOLEAN :
             /\ history[u].stage = "protect"
             /\ over => ~Tripped(units[u])
             /\ units'[u] = IF over THEN TripBody(u, Latch(units[u], "overcurrent"))
                            ELSE units[u]
             /\ Moved(history'[u], history[u], "sense")
      BY <1>1, <2>4, ProtectOnUnit, Zenon
    <3>2. history'[u].stage = "sense" /\ history'[u].due = history[u].due
      BY <3>1 DEF Moved
    <3>3. StageOK(u)'
      BY <1>3, <1>5, <2>2, <2>4, <3>2 DEF StageOK, Place, Phases
    <3>4. CASE over
      <4> DEFINE r == units'[u]
                 d == units[u].driven /\ u \notin Unfiltered
      <4>1. units[u] \in Unit /\ ~units[u].tripDue /\ units[u].pending = "none"
        BY <1>1, <2>1, <3>1 DEF TypeOK, ServiceOK
      <4>2. r = [trip |-> "overcurrent", fault |-> TRUE, breaker |-> FALSE,
                gates |-> FALSE, run |-> FALSE, branch |-> FALSE, linkTripped |-> TRUE,
                driven |-> d, tripDue |-> units[u].tripDue,
                trackDue |-> units[u].trackDue, pending |-> units[u].pending]
        BY <3>1, <3>4, <4>1, OvercurrentMembers
      <4>3. u \in Unfiltered => ~d
        OBVIOUS
      <4> HIDE DEF d, r
      <4>4. /\ r.trip = "overcurrent" /\ ~r.branch /\ ~r.gates /\ r.driven = d
            /\ ~r.tripDue /\ r.pending = "none"
        BY <4>1, <4>2
      <4> QED
        BY <3>2, <3>3, <4>3, <4>4, ServiceOfTripped DEF r, Tripped
    <3>5. CASE ~over
      BY <1>2, <2>1, <3>1, <3>2, <3>3, <3>5, ServiceKept
    <3> QED
      BY <3>4, <3>5
  <2> QED
    BY <2>3, <2>4
<1>6. ASSUME NEW u \in Sampled
      PROVE  WordsOK(u)'
  BY <1>1, <1>2, <1>6, WordsKept, Times DEF LifeInv
<1> QED
  BY <1>2, <1>5, <1>6 DEF LifeInv

----------------------------------------------------------------------------
(***************************************************************************)
(* Sampling, for each unit.                                                *)
(***************************************************************************)
\* The members of a unit that has sampled.
Sensed(u, s, due, bad) ==
    [Checked(s, due, bad) EXCEPT
        !.trackDue = FALSE,
        !.pending = IF ~due \/ u \in Continuous THEN s.pending
                    ELSE IF s.run THEN "on" ELSE "off"]

LEMMA SensedMembers ==
    ASSUME NEW u, NEW s \in Unit, NEW due \in BOOLEAN, NEW bad \in BOOLEAN
    PROVE  LET trips == due /\ bad /\ ~Tripped(s) /\ s.run
           IN  Sensed(u, s, due, bad) =
                   [trip |-> IF trips THEN "sampled" ELSE s.trip, fault |-> s.fault,
                    breaker |-> s.breaker, gates |-> s.gates, run |-> s.run,
                    branch |-> s.branch, linkTripped |-> s.linkTripped,
                    driven |-> s.driven, tripDue |-> s.tripDue \/ trips,
                    trackDue |-> FALSE,
                    pending |-> IF ~due \/ u \in Continuous THEN s.pending
                                ELSE IF s.run THEN "on" ELSE "off"]
<1> DEFINE trips == due /\ bad /\ ~Tripped(s) /\ s.run
           p == IF ~due \/ u \in Continuous THEN s.pending ELSE IF s.run THEN "on" ELSE "off"
           c == Checked(s, due, bad)
           d == s.tripDue \/ trips
           r == [c EXCEPT !.trackDue = FALSE, !.pending = p]
<1>1. trips \in BOOLEAN /\ d \in BOOLEAN /\ p \in {"none", "off", "on"}
  BY DEF Unit
<1>2. Sensed(u, s, due, bad) = r
  BY DEF Sensed
<1>3. IF trips
      THEN c = [trip |-> "sampled", fault |-> s.fault,
                   breaker |-> s.breaker, gates |-> s.gates, run |-> s.run,
                   branch |-> s.branch, linkTripped |-> s.linkTripped,
                   driven |-> s.driven, tripDue |-> TRUE, trackDue |-> s.trackDue,
                   pending |-> s.pending]
      ELSE c = s
  BY CheckedMembers
<1>4. c \in Unit
  BY CheckedResult
<1>5. IF trips THEN d = TRUE ELSE d = s.tripDue
  BY DEF Unit
<1> HIDE DEF trips, p, d
<1>6. /\ c.trip = IF trips THEN "sampled" ELSE s.trip
      /\ c.tripDue = d
      /\ c.fault = s.fault /\ c.breaker = s.breaker /\ c.gates = s.gates
      /\ c.run = s.run /\ c.branch = s.branch /\ c.linkTripped = s.linkTripped
      /\ c.driven = s.driven
  <2> HIDE DEF c
  <2>1. CASE trips
    <3>1. /\ c.trip = "sampled" /\ c.tripDue = TRUE
          /\ c.fault = s.fault /\ c.breaker = s.breaker /\ c.gates = s.gates
          /\ c.run = s.run /\ c.branch = s.branch /\ c.linkTripped = s.linkTripped
          /\ c.driven = s.driven
      BY <1>3, <2>1
    <3>2. d = TRUE
      BY <1>5, <2>1
    <3> QED
      BY <2>1, <3>1, <3>2, Zenon
  <2>2. CASE ~trips
    BY <1>3, <1>5, <2>2
  <2>3. trips \/ ~trips
    OBVIOUS
  <2> QED
    BY <2>1, <2>2, <2>3, Zenon
<1> HIDE DEF c
<1>7. /\ r \in Unit /\ r.trip = c.trip /\ r.fault = c.fault /\ r.breaker = c.breaker
      /\ r.gates = c.gates /\ r.run = c.run /\ r.branch = c.branch
      /\ r.linkTripped = c.linkTripped /\ r.driven = c.driven /\ r.tripDue = c.tripDue
      /\ r.trackDue = FALSE /\ r.pending = p
  BY <1>1, <1>4 DEF Unit
<1> HIDE DEF r
<1>8. r = [trip |-> IF trips THEN "sampled" ELSE s.trip, fault |-> s.fault,
                    breaker |-> s.breaker, gates |-> s.gates, run |-> s.run,
                    branch |-> s.branch, linkTripped |-> s.linkTripped,
                    driven |-> s.driven, tripDue |-> d, trackDue |-> FALSE, pending |-> p]
  BY <1>6, <1>7, UnitRecord
<1> QED
  BY <1>2, <1>8 DEF trips, p, d

LEMMA SenseOnUnit ==
    ASSUME TypeOK, RestOK, TurnsInOrder, LifeInv, Sense, NEW u \in Units
    PROVE  /\ pc = "sense" /\ UNCHANGED <<t, load, words, order>>
           /\ history' \in [Units -> History]
           /\ IF u # Owner \/ history[u].stage = "idle"
              THEN units'[u] = units[u] /\ history'[u] = history[u]
              ELSE /\ history[u].stage = "sense" /\ history[u].due = DueAt(u, t)
                   /\ \E bad \in BOOLEAN :
                         units'[u] = Sensed(u, units[u], history[u].due.control, bad)
                   /\ Moved(history'[u], history[u], "actuate")
                   /\ history'[u].aligned =
                          (history[u].aligned \/ (units[u].trackDue /\ ~Tripped(units[u])))
                   /\ history'[u].reports = history[u].reports
<1>1. /\ pc = "sense" /\ UNCHANGED <<t, load, words, order>>
      /\ history \in [Units -> History] /\ units \in [Units -> Unit]
  BY DEF Sense, LifeInv, TypeOK
<1>2. Owner \in Owners /\ ~Had(Owner)
  BY SenseTurn, OwnersTurn
<1>3. CASE Owner \notin Units
  <2>1. Owner \in BlackBoxes
    BY <1>2, <1>3 DEF Owners
  <2>2. units' = units /\ history' = history
    BY <2>1 DEF Sense
  <2> QED
    BY <1>1, <1>3, <2>2
<1>4. CASE Owner \in Units
  <2> DEFINE due == t = NextTime(Owner)
             x == units[Owner].trackDue /\ ~Tripped(units[Owner])
             past == Past(history, Owner, "actuate")
  <2>1. Owner \notin BlackBoxes
    BY <1>4, ProgramAssumption
  <2>2. PICK bad \in BOOLEAN :
          units' = [units EXCEPT ![Owner] = Sensed(Owner, units[Owner], due, bad)]
    <3>1. \E bad \in IF due THEN BOOLEAN ELSE {FALSE} :
            units' = [units EXCEPT ![Owner] =
                             [Checked(units[Owner], due, bad) EXCEPT
                                 !.trackDue = FALSE,
                                 !.pending = IF ~due \/ Owner \in Continuous
                                             THEN units[Owner].pending
                                             ELSE IF units[Owner].run THEN "on" ELSE "off"]]
      BY <2>1, Zenon DEF Sense
    <3> QED
      BY <3>1, Zenon DEF Sensed
  <2>3. history' = [past EXCEPT ![Owner].aligned = past[Owner].aligned \/ x]
    BY <2>1 DEF Sense
  <2>4. x \in BOOLEAN /\ due \in BOOLEAN
    BY <1>1, <1>4 DEF Unit
  <2>5. /\ past \in [Units -> History]
        /\ u # Owner => past[u] = history[u]
        /\ IF history[Owner].stage = "idle" THEN past = history
           ELSE /\ Moved(past[Owner], history[Owner], "actuate")
                /\ past[Owner].aligned = history[Owner].aligned
                /\ past[Owner].reports = history[Owner].reports
    BY <1>1, <1>4, PastFacts
  <2> HIDE DEF past, x
  <2> DEFINE a == past[Owner].aligned \/ x
             r == [past[Owner] EXCEPT !.aligned = a]
  <2>6. a \in BOOLEAN
    BY <1>4, <2>4, <2>5 DEF History
  <2>7. history' = [past EXCEPT ![Owner] = r]
    BY <2>3
  <2> HIDE DEF a
  <2>8. /\ r \in History /\ r.stage = past[Owner].stage /\ r.due = past[Owner].due
        /\ r.command = past[Owner].command /\ r.source = past[Owner].source
        /\ r.aligned = a /\ r.reports = past[Owner].reports
        /\ (a = past[Owner].aligned => r = past[Owner])
    BY <1>4, <2>5, <2>6 DEF History
  <2> HIDE DEF r
  <2>9. /\ history' \in [Units -> History] /\ history'[Owner] = r
        /\ u # Owner => history'[u] = past[u]
    BY <1>4, <2>5, <2>7, <2>8
  <2>10. /\ units'[Owner] = Sensed(Owner, units[Owner], due, bad)
         /\ u # Owner => units'[u] = units[u]
    BY <1>1, <1>4, <2>2
  <2>11. /\ history[Owner].due = DueAt(Owner, t) /\ history[Owner].stage \in {"idle", "sense"}
         /\ due = history[Owner].due.control
         /\ history[Owner].stage = "idle" => ~due /\ ~units[Owner].trackDue
    <3>1. StageOK(Owner) /\ ServiceOK(Owner)
      BY <1>1, <1>4 DEF LifeInv
    <3>2. history[Owner].due = DueAt(Owner, t) /\ history[Owner].stage \in {"idle", "sense"}
      BY <1>1, <1>2, <3>1 DEF StageOK, Undone, Place, Phases
    <3>3. DueAt(Owner, t) \in Due /\ (DueAt(Owner, t).control <=> due)
      BY <1>4, DueFacts
    <3>4. due = history[Owner].due.control
      BY <2>4, <3>2, <3>3 DEF Due
    <3>5. history[Owner].stage = "idle" => ~history[Owner].due.control /\ ~units[Owner].trackDue
      BY <3>1 DEF StageOK, ServiceOK, NothingDue
    <3> QED
      BY <3>2, <3>4, <3>5
  <2>12. CASE u # Owner
    BY <1>1, <2>5, <2>9, <2>10, <2>12
  <2>13. CASE u = Owner /\ history[u].stage = "idle"
    <3> DEFINE s == units[u]
    <3>1. ~due /\ ~s.trackDue /\ s \in Unit
      BY <1>1, <2>11, <2>13
    <3>2. units'[u] = s
      <4> DEFINE trips == due /\ bad /\ ~Tripped(s) /\ s.run
                 p == IF ~due \/ u \in Continuous THEN s.pending
                      ELSE IF s.run THEN "on" ELSE "off"
                 cause == IF trips THEN "sampled" ELSE s.trip
                 d == s.tripDue \/ trips
      <4>1. units'[u] = [trip |-> cause, fault |-> s.fault,
                    breaker |-> s.breaker, gates |-> s.gates, run |-> s.run,
                    branch |-> s.branch, linkTripped |-> s.linkTripped,
                    driven |-> s.driven, tripDue |-> d,
                    trackDue |-> FALSE, pending |-> p]
        <5>1. s \in Unit /\ due \in BOOLEAN /\ bad \in BOOLEAN
          BY <2>4, <3>1
        <5>2. units'[u] = Sensed(u, s, due, bad)
          BY <2>10, <2>13
        <5> HIDE DEF s, due
        <5>3. Sensed(u, s, due, bad) = [trip |-> cause, fault |-> s.fault,
                    breaker |-> s.breaker, gates |-> s.gates, run |-> s.run,
                    branch |-> s.branch, linkTripped |-> s.linkTripped,
                    driven |-> s.driven, tripDue |-> d,
                    trackDue |-> FALSE, pending |-> p]
          BY <5>1, SensedMembers
        <5> QED
          BY <5>2, <5>3, Zenon
      <4>2. cause = s.trip /\ d = s.tripDue /\ p = s.pending /\ s.trackDue = FALSE
        BY <3>1 DEF Unit
      <4>3. s = [trip |-> s.trip, fault |-> s.fault,
                    breaker |-> s.breaker, gates |-> s.gates, run |-> s.run,
                    branch |-> s.branch, linkTripped |-> s.linkTripped,
                    driven |-> s.driven, tripDue |-> s.tripDue,
                    trackDue |-> s.trackDue, pending |-> s.pending]
        BY <3>1, UnitRecord
      <4> HIDE DEF cause, d, p, s
      <4> QED
        BY <4>1, <4>2, <4>3
    <3>3. history'[u] = history[u]
      <4>1. past[Owner] = history[Owner] /\ ~x
        BY <2>5, <2>13, <3>1 DEF x
      <4>2. a = past[Owner].aligned
        BY <1>4, <2>5, <4>1 DEF a, History
      <4> QED
        BY <2>8, <2>9, <2>13, <4>1, <4>2
    <3> QED
      BY <1>1, <2>9, <2>13, <3>2, <3>3
  <2>14. CASE u = Owner /\ history[u].stage # "idle"
    <3>1. Moved(history'[u], history[u], "actuate") /\ history'[u].reports = history[u].reports
      BY <2>5, <2>8, <2>9, <2>14 DEF Moved
    <3>2. history'[u].aligned =
                (history[u].aligned \/ (units[u].trackDue /\ ~Tripped(units[u])))
      BY <2>5, <2>8, <2>9, <2>14 DEF a, x
    <3>3. units'[u] = Sensed(u, units[u], history[u].due.control, bad)
      BY <2>10, <2>11, <2>14
    <3> QED
      BY <1>1, <2>9, <2>11, <2>14, <3>1, <3>2, <3>3
  <2> QED
    BY <2>12, <2>13, <2>14
<1> QED
  BY <1>3, <1>4

LEMMA LifeSense ==
    ASSUME IndInv, LifeInv, Sense
    PROVE  LifeInv'
<1>1. TypeOK /\ RestOK /\ TurnsInOrder /\ UnitsInv /\ TypeOK' /\ RestOK'
  BY TypesSense DEF IndInv, Kept
<1>2. /\ pc = "sense" /\ UNCHANGED <<t, load, words, order>>
      /\ history' \in [Units -> History]
  BY <1>1, SenseOnUnit, ProgramAssumption
<1>3. /\ Owner \in Owners /\ pc' \in {"sense", "actuate"}
      /\ pc' = "sense" => \A o \in Units : Had(o)' <=> Had(o) \/ o = Owner
      /\ pc' = "actuate" => \A o \in Units : ~Had(o)' /\ (Had(o) \/ o = Owner)
  <2>1. Units \subseteq Owners
    BY DEF Owners
  <2> QED
    BY <1>1, <2>1, SenseTurn
<1>4. ~Had(Owner)
  BY <1>1, OwnersTurn
<1>5. \A o \in Owners :
         clock'[o] = IF o = Owner /\ t = NextTime(o) /\ o \in Continuous
                     THEN clock[o] + 1 ELSE clock[o]
  BY <1>1, <1>3, SenseClocks
<1>6. ASSUME NEW u \in Units
      PROVE  StageOK(u)' /\ ServiceOK(u)'
  <2>1. StageOK(u) /\ ServiceOK(u) /\ u \in Owners /\ (u \in Sampled <=> u \notin Continuous)
    BY <1>2, <1>6 DEF LifeInv, Owners, Sampled
  <2>2. u # Owner \/ u \in Sampled => clock'[u] = clock[u] /\ DueAt(u, t)' = DueAt(u, t)
    BY <1>2, <1>5, <2>1, DueKept
  <2>3. CASE u # Owner \/ history[u].stage = "idle"
    <3>1. units'[u] = units[u] /\ history'[u] = history[u]
      BY <1>1, <2>3, SenseOnUnit
    <3>2. history'[u].stage \in {"idle", Place(u)'}
      BY <1>2, <1>3, <2>1, <2>3, <3>1 DEF StageOK, Place, Phases
    <3>3. Undone(u)' => Undone(u) /\ (u # Owner \/ u \in Sampled)
      BY <1>2, <1>3, <1>4, <2>1 DEF Undone
    <3>4. StageOK(u)'
      BY <1>3, <2>1, <2>2, <3>1, <3>2, <3>3 DEF StageOK
    <3>5. ServiceOK(u)'
      BY <1>2, <2>1, <3>1, ServiceKept
    <3> QED
      BY <3>4, <3>5
  <2>4. CASE u = Owner /\ history[u].stage # "idle"
    <3>1. /\ history[u].stage = "sense" /\ history[u].due = DueAt(u, t)
          /\ history'[u].stage = "actuate" /\ history'[u].due = history[u].due
      BY <1>1, <2>4, SenseOnUnit DEF Moved
    <3>2. PICK bad \in BOOLEAN :
            units'[u] = Sensed(u, units[u], history[u].due.control, bad)
      BY <1>1, <2>4, SenseOnUnit, Zenon
    <3>3. Undone(u)' => u \in Sampled
      BY <1>2, <1>3, <2>1, <2>4 DEF Undone
    <3>4. StageOK(u)'
      BY <1>3, <2>2, <2>4, <3>1, <3>3 DEF StageOK, Place, Phases
    <3>5. ServiceOK(u)'
      <4> DEFINE s == units[u]
                 r == units'[u]
                 due == history[u].due.control
                 trips == due /\ bad /\ ~Tripped(s) /\ s.run
                 p == IF ~due \/ u \in Continuous THEN s.pending
                      ELSE IF s.run THEN "on" ELSE "off"
                 cause == IF trips THEN "sampled" ELSE s.trip
                 d == s.tripDue \/ trips
      <4>1. s \in Unit /\ due \in BOOLEAN /\ bad \in BOOLEAN
        <5>1. DueAt(u, t) \in Due
          BY DueFacts
        <5> QED
          BY <1>1, <3>1, <5>1 DEF TypeOK, Due
      <4>2. ~s.tripDue /\ s.pending = "none"
        BY <2>1, <3>1 DEF ServiceOK
      <4>3. r = [trip |-> cause, fault |-> s.fault,
                 breaker |-> s.breaker, gates |-> s.gates, run |-> s.run,
                 branch |-> s.branch, linkTripped |-> s.linkTripped,
                 driven |-> s.driven, tripDue |-> d, trackDue |-> FALSE, pending |-> p]
        <5>1. r = Sensed(u, s, due, bad)
          BY <3>2
        <5> HIDE DEF s, due, r
        <5>2. Sensed(u, s, due, bad) = [trip |-> cause, fault |-> s.fault,
                 breaker |-> s.breaker, gates |-> s.gates, run |-> s.run,
                 branch |-> s.branch, linkTripped |-> s.linkTripped,
                 driven |-> s.driven, tripDue |-> d, trackDue |-> FALSE, pending |-> p]
          BY <4>1, SensedMembers
        <5> QED
          BY <5>1, <5>2, Zenon
      <4>4. /\ ~d => cause = s.trip
            /\ p # "none" <=> due /\ u \in Sampled
        BY <2>1, <4>2
      <4> HIDE DEF s, r, due, p, cause, d
      <4>5. /\ r.trip = cause /\ r.breaker = s.breaker /\ r.gates = s.gates
            /\ r.branch = s.branch /\ r.driven = s.driven /\ r.tripDue = d
            /\ ~r.trackDue /\ r.pending = p
        BY <4>3
      <4>6. /\ ~r.tripDue => r.branch <=> BranchOf(u, r)
            /\ ~r.tripDue /\ u \in Sampled => (r.gates <=> Stage(u, r, words[u].active.on))
            /\ u \in Unfiltered /\ r.driven => r.gates
        <5>1. /\ s.branch <=> BranchOf(u, s)
              /\ u \in Sampled => (s.gates <=> Stage(u, s, words[u].active.on))
              /\ u \in Unfiltered /\ s.driven => s.gates
          BY <2>1, <4>2 DEF ServiceOK, s
        <5> QED
          BY <4>4, <4>5, <5>1 DEF BranchOf, Stage, Tripped
      <4>7. UNCHANGED words /\ history'[u].stage = "actuate" /\ history'[u].due.control = due
        BY <1>2, <3>1 DEF due
      <4> QED
        BY <4>4, <4>5, <4>6, <4>7 DEF ServiceOK, r, BranchOf, Stage, Tripped
    <3> QED
      BY <3>4, <3>5
  <2> QED
    BY <2>3, <2>4
<1>7. ASSUME NEW u \in Sampled
      PROVE  WordsOK(u)'
  <2>1. u \in Owners /\ u \notin Continuous
    BY DEF Sampled, Owners
  <2> QED
    BY <1>1, <1>2, <1>5, <1>7, <2>1, WordsKept, Times DEF LifeInv
<1> QED
  BY <1>2, <1>6, <1>7 DEF LifeInv

----------------------------------------------------------------------------
(***************************************************************************)
(* The registers of a unit at one instant.                                 *)
(***************************************************************************)
\* The interrupt before the next one has completed its computation.
Completed(u) == ClockAt(Clocks[u], clock[u] - 1) + Computation[u] <= t

LEMMA WriteFacts ==
    ASSUME NEW w \in Registered, NEW on \in BOOLEAN, NEW k \in Int
    PROVE  /\ Write(w, on, k) \in Registered
           /\ Write(w, on, k).active = w.active
           /\ Write(w, on, k).completed = w.shadow
           /\ Write(w, on, k).shadow = [on |-> on, stamp |-> k]
<1> DEFINE word == [on |-> on, stamp |-> k]
<1>1. word \in Word
  BY DEF Word
<1>2. Write(w, on, k) = [w EXCEPT !.completed = w.shadow, !.shadow = word]
  BY DEF Write
<1> HIDE DEF word
<1>3. /\ Write(w, on, k) \in Registered
      /\ Write(w, on, k).active = w.active
      /\ Write(w, on, k).completed = w.shadow
      /\ Write(w, on, k).shadow = word
  BY <1>1, <1>2 DEF Registered
<1> QED
  BY <1>3 DEF word

LEMMA LoadWordFacts ==
    ASSUME NEW u, NEW w \in Registered, NEW k
    PROVE  /\ LoadWord(u, w, k) \in Registered
           /\ LoadWord(u, w, k).shadow = w.shadow
           /\ LoadWord(u, w, k).completed = w.completed
           /\ LoadWord(u, w, k).active =
                 IF ClockAt(Clocks[u], k - 1) + Computation[u] <= t
                 THEN w.shadow ELSE w.completed
<1> DEFINE a == IF ClockAt(Clocks[u], k - 1) + Computation[u] <= t
                THEN w.shadow ELSE w.completed
<1>1. a \in Word
  BY DEF Registered
<1>2. LoadWord(u, w, k) = [w EXCEPT !.active = a]
  BY DEF LoadWord
<1> HIDE DEF a
<1>3. /\ LoadWord(u, w, k) \in Registered
      /\ LoadWord(u, w, k).shadow = w.shadow
      /\ LoadWord(u, w, k).completed = w.completed
      /\ LoadWord(u, w, k).active = a
  BY <1>1, <1>2 DEF Registered
<1> QED
  BY <1>3 DEF a

\* Without a computation time a load takes the word written last.
LEMMA RegistersFacts ==
    ASSUME TypeOK, LastServed, NEW u \in Sampled, NEW w \in Registered, NEW on \in BOOLEAN
    PROVE  LET r == Registers(u, w, on)
               c == t = NextTime(u)
               l == t = LoadTime(u)
           IN  /\ r \in Registered
               /\ r.shadow = IF c THEN [on |-> on, stamp |-> clock[u]] ELSE w.shadow
               /\ r.completed = IF c THEN w.shadow ELSE w.completed
               /\ r.active = IF ~l THEN w.active
                             ELSE IF Computation[u] = 0 THEN r.shadow
                             ELSE IF Completed(u) THEN w.shadow ELSE w.completed
               /\ ~c /\ ~l => r = w
<1> DEFINE k == clock[u]
           c == t = NextTime(u)
           l == t = LoadTime(u)
           r == Registers(u, w, on)
           wr(v) == IF c THEN Write(v, on, k) ELSE v
           ld(v, n) == IF l THEN LoadWord(u, v, n) ELSE v
           word == [on |-> on, stamp |-> k]
<1>1. /\ u \in Owners /\ k \in Int /\ t \in Int /\ ClockAt(Clocks[u], k - 1) \in Int
      /\ ClockAt(Clocks[u], k - 1) <= t /\ Computation[u] \in Nat
      /\ Clocks[u] \in Clock
  <2>1. u \in Owners
    BY DEF Sampled, Owners
  <2> QED
    BY <2>1, Constants, Times DEF LastServed
<1>2. r = IF Computation[u] = 0 THEN ld(wr(w), IF c THEN k + 1 ELSE k)
          ELSE wr(ld(w, k))
  BY DEF Registers
<1>3. \A v \in Registered :
         /\ wr(v) \in Registered /\ wr(v).active = v.active
         /\ wr(v).shadow = IF c THEN word ELSE v.shadow
         /\ wr(v).completed = IF c THEN v.shadow ELSE v.completed
         /\ ~c => wr(v) = v
  BY <1>1, WriteFacts
<1>4. \A v \in Registered : \A n :
         /\ ld(v, n) \in Registered /\ ld(v, n).shadow = v.shadow
         /\ ld(v, n).completed = v.completed
         /\ ld(v, n).active = IF ~l THEN v.active
                              ELSE IF ClockAt(Clocks[u], n - 1) + Computation[u] <= t
                              THEN v.shadow ELSE v.completed
         /\ ~l => ld(v, n) = v
  BY LoadWordFacts
<1> HIDE DEF wr, ld, word, r
<1>5. CASE Computation[u] = 0
  <2> DEFINE n == IF c THEN k + 1 ELSE k
  <2>1. ClockAt(Clocks[u], n - 1) + Computation[u] <= t
    <3>1. CASE c
      <4>1. n - 1 = k /\ ClockAt(Clocks[u], k) = t
        BY <1>1, <3>1 DEF NextTime
      <4> QED
        BY <1>1, <1>5, <4>1
    <3>2. CASE ~c
      BY <1>1, <1>5, <3>2
    <3> QED
      BY <3>1, <3>2
  <2> HIDE DEF n, c, l
  <2>2. r = ld(wr(w), n)
    BY <1>2, <1>5 DEF n
  <2>3. /\ r \in Registered /\ r.shadow = wr(w).shadow /\ r.completed = wr(w).completed
        /\ r.active = IF ~l THEN wr(w).active ELSE wr(w).shadow
        /\ ~l => r = wr(w)
    BY <1>3, <1>4, <2>1, <2>2
  <2>4. /\ r \in Registered
        /\ r.shadow = IF c THEN word ELSE w.shadow
        /\ r.completed = IF c THEN w.shadow ELSE w.completed
        /\ r.active = IF ~l THEN w.active ELSE r.shadow
        /\ ~c /\ ~l => r = w
    BY <1>3, <2>3
  <2> QED
    BY <1>5, <2>4 DEF c, l, r, word
<1>6. CASE Computation[u] # 0
  <2> HIDE DEF c, l
  <2>1. r = wr(ld(w, k))
    BY <1>2, <1>6
  <2>2. /\ r \in Registered
        /\ r.shadow = IF c THEN word ELSE w.shadow
        /\ r.completed = IF c THEN w.shadow ELSE w.completed
        /\ r.active = IF ~l THEN w.active
                      ELSE IF Completed(u) THEN w.shadow ELSE w.completed
        /\ ~c /\ ~l => r = w
    BY <1>3, <1>4, <2>1 DEF Completed
  <2> QED
    BY <1>6, <2>2 DEF c, l, r, word
<1> QED
  BY <1>5, <1>6

LEMMA WordsServed ==
    ASSUME TypeOK, LastServed, NEW u \in Sampled, words[u] \in Registered, WordsOK(u),
           NEW on \in BOOLEAN, words'[u] = Registers(u, words[u], on),
           clock'[u] = IF t = NextTime(u) THEN clock[u] + 1 ELSE clock[u], UNCHANGED t
    PROVE  WordsOK(u)'
<1> DEFINE k == clock[u]
           w == words[u]
           r == Registers(u, w, on)
           c == t = NextTime(u)
           l == t = LoadTime(u)
           first == FirstOf(u)
<1>1. /\ k \in Int /\ t \in Int /\ Computation[u] \in Nat /\ Clocks[u] \in Clock
      /\ ClockAt(Clocks[u], k - 1) \in Int /\ ClockAt(Clocks[u], k - 1) <= t
      /\ ClockAt(Clocks[u], k) \in Int /\ (c => ClockAt(Clocks[u], k) = t)
      /\ first \in Int
  <2>1. u \in Owners
    BY DEF Sampled, Owners
  <2>2. NextTime(u) = ClockAt(Clocks[u], k)
    BY DEF NextTime
  <2>3. first \in Int /\ Clocks[u] \in Clock
    BY <2>1, Constants, FirstService DEF FirstOf
  <2>4. /\ k \in Int /\ t \in Int /\ Computation[u] \in Nat
        /\ ClockAt(Clocks[u], k - 1) \in Int /\ ClockAt(Clocks[u], k - 1) <= t
        /\ NextTime(u) \in Int
    BY <2>1, Constants, Times DEF LastServed
  <2> QED
    BY <2>1, <2>2, <2>3, <2>4, Zenon
<1>2. /\ r \in Registered
      /\ r.shadow = IF c THEN [on |-> on, stamp |-> k] ELSE w.shadow
      /\ r.completed = IF c THEN w.shadow ELSE w.completed
      /\ r.active = IF ~l THEN w.active
                    ELSE IF Computation[u] = 0 THEN r.shadow
                    ELSE IF Completed(u) THEN w.shadow ELSE w.completed
  BY RegistersFacts
<1>3. /\ first <= k /\ w.shadow.stamp = k - 1 /\ w.active.stamp <= k - 1
      /\ k = first => w.active = w.shadow /\ w.completed = w.shadow
      /\ k > first => /\ w.completed.stamp = k - 2
                      /\ w.active.stamp = k - 1 => Completed(u)
      /\ w.active.stamp \in Int
  BY DEF WordsOK, Completed, Registered, Word
<1>4. /\ words'[u] = r /\ clock'[u] = IF c THEN k + 1 ELSE k
      /\ t' = t /\ FirstOf(u)' = first
  BY DEF FirstOf
<1>5. Completed(u) <=> ClockAt(Clocks[u], k - 1) + Computation[u] <= t
  BY DEF Completed
<1> HIDE DEF k, w, r, c, l, first
<1>6. CASE c
  <2>1. /\ r.shadow.stamp = k /\ r.completed.stamp = k - 1 /\ clock'[u] = k + 1
        /\ k + 1 - 1 = k /\ k + 1 - 2 = k - 1
    BY <1>1, <1>2, <1>3, <1>4, <1>6
  <2>2. r.active.stamp <= k /\ (r.active.stamp = k => ClockAt(Clocks[u], k) + Computation[u] <= t)
    <3>1. CASE Computation[u] = 0
      BY <1>1, <1>2, <1>3, <1>6, <2>1, <3>1
    <3>2. CASE Computation[u] # 0
      <4>1. w.completed.stamp <= k - 1
        BY <1>1, <1>3
      <4>2. r.active.stamp <= k - 1 /\ r.active.stamp \in Int
        BY <1>1, <1>2, <1>3, <3>2, <4>1 DEF Registered, Word
      <4> QED
        BY <1>1, <4>2
    <3> QED
      BY <3>1, <3>2
  <2>3. first <= k + 1 /\ k + 1 # first
    BY <1>1, <1>3
  <2>4. clock'[u] - 1 = k /\ clock'[u] - 2 = k - 1
    BY <1>1, <2>1
  <2> QED
    BY <1>4, <2>1, <2>2, <2>3, <2>4 DEF WordsOK
<1>7. CASE ~c
  <2>1. r.shadow = w.shadow /\ r.completed = w.completed /\ clock'[u] = k
    BY <1>2, <1>4, <1>7
  <2>2. r.active \in {w.active, w.shadow, w.completed}
    BY <1>2, <2>1
  <2>3. w.completed.stamp <= k - 1
    BY <1>1, <1>3
  <2>4. r.active.stamp <= k - 1
    BY <1>1, <1>3, <2>2, <2>3
  <2>5. k = first => r.active = r.shadow /\ r.completed = r.shadow
    BY <1>3, <2>1, <2>2
  <2>6. k > first /\ r.active.stamp = k - 1 => Completed(u)
    <3> SUFFICES ASSUME k > first, r.active.stamp = k - 1 PROVE Completed(u)
      OBVIOUS
    <3>1. r.active # w.completed
      BY <1>1, <1>3
    <3>2. CASE Computation[u] = 0
      BY <1>1, <1>5, <3>2
    <3>3. CASE Computation[u] # 0 /\ r.active = w.active
      BY <1>3, <3>3
    <3>4. CASE Computation[u] # 0 /\ r.active # w.active
      BY <1>2, <3>1, <3>4
    <3> QED
      BY <3>2, <3>3, <3>4
  <2> QED
    BY <1>3, <1>4, <1>5, <2>1, <2>4, <2>5, <2>6 DEF WordsOK
<1> QED
  BY <1>6, <1>7

\* A load takes the word of the newest interrupt that has completed.
LEMMA LoadTakesLatest ==
    ASSUME TypeOK, LastServed, NEW u \in Sampled, words[u] \in Registered, WordsOK(u),
           NEW on \in BOOLEAN, t <= NextTime(u), t = LoadTime(u)
    PROVE  LET n == IndexAfter(Clocks[u], t - Computation[u]) - 1
           IN  Registers(u, words[u], on).active.stamp =
                   IF n < FirstOf(u) THEN FirstOf(u) - 1 ELSE n
<1> DEFINE k == clock[u]
           w == words[u]
           r == Registers(u, w, on)
           c == t = NextTime(u)
           C == Clocks[u]
           d == Computation[u]
           first == FirstOf(u)
<1>1. /\ k \in Int /\ t \in Int /\ d \in Nat /\ C \in Clock /\ d < C.period
      /\ ClockAt(C, k - 1) \in Int /\ ClockAt(C, k - 1) <= t
      /\ ClockAt(C, k) \in Int /\ NextTime(u) = ClockAt(C, k)
      /\ t < ClockAt(C, k + 1) /\ ClockAt(C, k + 1) \in Int
      /\ first \in Int /\ C.period \in Nat /\ t <= ClockAt(C, k)
  <2>1. u \in Owners
    BY DEF Sampled, Owners
  <2>2. d < C.period /\ NextTime(u) = ClockAt(C, k)
    BY ProgramAssumption DEF NextTime
  <2>3. first \in Int /\ C \in Clock /\ C.period \in Nat
    BY <2>1, Constants, FirstService DEF FirstOf
  <2>4. /\ k \in Int /\ t \in Int /\ d \in Nat
        /\ ClockAt(C, k - 1) \in Int /\ ClockAt(C, k - 1) <= t
        /\ NextTime(u) \in Int /\ NextTime(u) < ClockAt(C, k + 1)
    BY <2>1, Constants, Times DEF LastServed
  <2>5. ClockAt(C, k + 1) \in Int
    BY <2>3, <2>4, ClockStep
  <2> HIDE DEF C, d, k, first
  <2>6. t < ClockAt(C, k + 1) /\ t <= ClockAt(C, k)
    BY <2>2, <2>4, <2>5
  <2> QED
    BY <2>2, <2>3, <2>4, <2>5, <2>6, Zenon
<1>2. /\ r.shadow = IF c THEN [on |-> on, stamp |-> k] ELSE w.shadow
      /\ r.active = IF d = 0 THEN r.shadow
                    ELSE IF Completed(u) THEN w.shadow ELSE w.completed
  BY RegistersFacts
<1>3. /\ first <= k /\ w.shadow.stamp = k - 1
      /\ k = first => w.completed = w.shadow
      /\ k > first => w.completed.stamp = k - 2
  BY DEF WordsOK
<1>4. Completed(u) <=> ClockAt(C, k - 1) + d <= t
  BY DEF Completed
<1> HIDE DEF k, w, r, c, C, d, first
<1>5. CASE d = 0 /\ t = ClockAt(C, k)
  <2>1. c /\ k + 1 - 1 = k /\ t - d = t /\ k + 1 \in Int
    BY <1>1, <1>5 DEF c
  <2>2. IndexAfter(C, t - d) = k + 1
    <3>1. ClockAt(C, (k + 1) - 1) <= t
      BY <1>1, <1>5, <2>1
    <3> QED
      BY <1>1, <1>5, <2>1, <3>1, IndexAfterUnique
  <2>3. r.active.stamp = k
    BY <1>2, <1>5, <2>1
  <2> QED
    BY <1>1, <1>3, <2>2, <2>3 DEF r, w, first, C, d
<1>6. CASE ~(d = 0 /\ t = ClockAt(C, k)) /\ ClockAt(C, k - 1) + d <= t
  <2>1. t - d \in Int /\ ClockAt(C, k - 1) <= t - d /\ t - d < ClockAt(C, k)
    BY <1>1, <1>6
  <2>2. IndexAfter(C, t - d) = k
    BY <1>1, <2>1, IndexAfterUnique
  <2>3. r.active.stamp = k - 1
    BY <1>1, <1>2, <1>3, <1>4, <1>6 DEF c
  <2>4. IF k - 1 < first THEN first - 1 = k - 1 ELSE TRUE
    BY <1>1, <1>3
  <2> QED
    BY <2>2, <2>3, <2>4 DEF r, w, first, C, d
<1>7. CASE ~(ClockAt(C, k - 1) + d <= t)
  <2>1. /\ d # 0 /\ ClockAt(C, (k - 1) - 1) = ClockAt(C, k - 1) - C.period
        /\ k - 1 \in Int /\ t - d \in Int
    BY <1>1, <1>7, ClockStep
  <2>2. ClockAt(C, (k - 1) - 1) <= t - d /\ t - d < ClockAt(C, k - 1)
    BY <1>1, <1>7, <2>1
  <2>3. IndexAfter(C, t - d) = k - 1
    BY <1>1, <2>1, <2>2, IndexAfterUnique
  <2>4. r.active.stamp = IF k = first THEN k - 1 ELSE k - 2
    BY <1>1, <1>2, <1>3, <1>4, <1>7, <2>1
  <2>5. (IF k - 2 < first THEN first - 1 ELSE k - 2) = (IF k = first THEN k - 1 ELSE k - 2)
    BY <1>1, <1>3
  <2>6. k - 1 - 1 = k - 2
    BY <1>1
  <2> QED
    BY <2>3, <2>4, <2>5, <2>6 DEF r, w, first, C, d
<1> QED
  BY <1>1, <1>5, <1>6, <1>7

----------------------------------------------------------------------------
(***************************************************************************)
(* Actuation, for each unit.                                               *)
(***************************************************************************)
\* A unit after the trip that its sense left, its registers, and all of it.
Settled(u) == IF units[u].tripDue THEN [TripBody(u, units[u]) EXCEPT !.tripDue = FALSE]
              ELSE units[u]
Loaded(u) == Registers(u, words[u], Stage(u, Settled(u), Settled(u).pending = "on"))
Acted(u) ==
    IF u \in Continuous THEN Settled(u)
    ELSE [Driven(u, Settled(u), Loaded(u)) EXCEPT
             !.pending = IF t = NextTime(u) THEN "none" ELSE @]

LEMMA SettledMembers ==
    ASSUME NEW u, units[u] \in Unit, units[u].tripDue => Tripped(units[u])
    PROVE  LET s == units[u]
           IN  Settled(u) =
                   [trip |-> s.trip, fault |-> s.fault, breaker |-> s.breaker /\ ~s.tripDue,
                    gates |-> s.gates /\ ~s.tripDue, run |-> s.run /\ ~s.tripDue,
                    branch |-> s.branch /\ ~s.tripDue,
                    linkTripped |-> s.linkTripped \/ s.tripDue,
                    driven |-> s.driven /\ (s.tripDue => u \notin Unfiltered),
                    tripDue |-> FALSE, trackDue |-> s.trackDue, pending |-> s.pending]
<1> DEFINE s == units[u]
           breaker == s.breaker /\ ~s.tripDue
           gates == s.gates /\ ~s.tripDue
           run == s.run /\ ~s.tripDue
           branch == s.branch /\ ~s.tripDue
           link == s.linkTripped \/ s.tripDue
           driven == s.driven /\ (s.tripDue => u \notin Unfiltered)
           goal == [trip |-> s.trip, fault |-> s.fault, breaker |-> breaker,
                    gates |-> gates, run |-> run, branch |-> branch,
                    linkTripped |-> link, driven |-> driven,
                    tripDue |-> FALSE, trackDue |-> s.trackDue, pending |-> s.pending]
<1>1. CASE s.tripDue
  <2> DEFINE b == TripBody(u, s)
             d == s.driven /\ u \notin Unfiltered
  <2>1. b = [trip |-> s.trip, fault |-> s.fault, breaker |-> FALSE,
               gates |-> FALSE, run |-> FALSE, branch |-> FALSE,
               linkTripped |-> TRUE, driven |-> d,
               tripDue |-> s.tripDue, trackDue |-> s.trackDue, pending |-> s.pending]
    BY <1>1, TripBodyMembers
  <2>2. Settled(u) = [b EXCEPT !.tripDue = FALSE]
    BY <1>1 DEF Settled
  <2>3. /\ breaker = FALSE /\ gates = FALSE /\ run = FALSE /\ branch = FALSE
        /\ link = TRUE /\ driven = d
    BY <1>1
  <2> HIDE DEF b, d, breaker, gates, run, branch, link, driven, s
  <2>4. Settled(u) = goal
    BY <2>1, <2>2, <2>3
  <2> QED
    BY <2>4 DEF breaker, gates, run, branch, link, driven, s
<1>2. CASE ~s.tripDue
  <2>1. Settled(u) = s
    BY <1>2 DEF Settled
  <2>2. /\ breaker = s.breaker /\ gates = s.gates /\ run = s.run /\ branch = s.branch
        /\ link = s.linkTripped /\ driven = s.driven /\ s.tripDue = FALSE
    BY <1>2 DEF Unit
  <2>3. s = [trip |-> s.trip, fault |-> s.fault, breaker |-> s.breaker,
                gates |-> s.gates, run |-> s.run, branch |-> s.branch,
                linkTripped |-> s.linkTripped, driven |-> s.driven,
                tripDue |-> s.tripDue, trackDue |-> s.trackDue, pending |-> s.pending]
    BY UnitRecord
  <2> HIDE DEF breaker, gates, run, branch, link, driven, s
  <2>4. Settled(u) = goal
    BY <2>1, <2>2, <2>3
  <2> QED
    BY <2>4 DEF breaker, gates, run, branch, link, driven, s
<1> QED
  BY <1>1, <1>2

\* Only these members matter to what is done with the unit.
LEMMA SettledFacts ==
    ASSUME NEW u, units[u] \in Unit, units[u].tripDue => Tripped(units[u])
    PROVE  LET s == units[u]
               r == Settled(u)
           IN  /\ r \in Unit /\ r.trip = s.trip /\ r.fault = s.fault
               /\ r.breaker = (s.breaker /\ ~s.tripDue)
               /\ r.gates = (s.gates /\ ~s.tripDue)
               /\ r.run = (s.run /\ ~s.tripDue)
               /\ r.branch = (s.branch /\ ~s.tripDue)
               /\ r.linkTripped = (s.linkTripped \/ s.tripDue)
               /\ r.driven = (s.driven /\ (s.tripDue => u \notin Unfiltered))
               /\ r.tripDue = FALSE /\ r.trackDue = s.trackDue /\ r.pending = s.pending
               /\ ~s.tripDue => r = s
<1> DEFINE s == units[u]
           r == Settled(u)
           breaker == s.breaker /\ ~s.tripDue
           gates == s.gates /\ ~s.tripDue
           run == s.run /\ ~s.tripDue
           branch == s.branch /\ ~s.tripDue
           link == s.linkTripped \/ s.tripDue
           driven == s.driven /\ (s.tripDue => u \notin Unfiltered)
<1>1. r = [trip |-> s.trip, fault |-> s.fault, breaker |-> breaker,
                    gates |-> gates, run |-> run, branch |-> branch,
                    linkTripped |-> link, driven |-> driven,
                    tripDue |-> FALSE, trackDue |-> s.trackDue, pending |-> s.pending]
  BY SettledMembers
<1>2. /\ breaker \in BOOLEAN /\ gates \in BOOLEAN /\ run \in BOOLEAN
      /\ branch \in BOOLEAN /\ link \in BOOLEAN /\ driven \in BOOLEAN
      /\ s.trip \in {"none", "restored", "overcurrent", "sampled"}
      /\ s.fault \in BOOLEAN /\ s.trackDue \in BOOLEAN /\ s.pending \in {"none", "off", "on"}
  BY DEF Unit
<1>3. ~s.tripDue => r = s
  BY DEF Settled
<1> HIDE DEF breaker, gates, run, branch, link, driven, s, r
<1>4. /\ r \in Unit /\ r.trip = s.trip /\ r.fault = s.fault /\ r.breaker = breaker
      /\ r.gates = gates /\ r.run = run /\ r.branch = branch /\ r.linkTripped = link
      /\ r.driven = driven /\ r.tripDue = FALSE /\ r.trackDue = s.trackDue
      /\ r.pending = s.pending
  BY <1>1, <1>2 DEF Unit
<1> QED
  BY <1>3, <1>4 DEF breaker, gates, run, branch, link, driven, s, r

LEMMA ActedFacts ==
    ASSUME TypeOK, RestOK, LastServed, UnitsInv, NEW u \in Sampled
    PROVE  LET s == Settled(u)
               r == Acted(u)
               l == t = LoadTime(u)
               gates == Stage(u, s, Loaded(u).active.on)
           IN  /\ r \in Unit /\ r.trip = s.trip /\ r.fault = s.fault
               /\ r.breaker = s.breaker /\ r.run = s.run
               /\ r.linkTripped = s.linkTripped /\ r.tripDue = FALSE
               /\ r.trackDue = s.trackDue
               /\ r.pending = IF t = NextTime(u) THEN "none" ELSE s.pending
               /\ r.gates = IF l THEN gates ELSE s.gates
               /\ r.branch = IF l
                             THEN u \notin Unfiltered /\ s.breaker /\ gates /\ ~Tripped(s)
                             ELSE s.branch
               /\ r.driven = IF l THEN u \in Unfiltered => gates ELSE s.driven
               /\ ~l /\ t # NextTime(u) => r = s
<1> DEFINE s == Settled(u)
           r == Acted(u)
           l == t = LoadTime(u)
           w == Loaded(u)
           g == Stage(u, s, w.active.on)
           b == u \notin Unfiltered /\ s.breaker /\ g /\ ~Tripped(s)
           d == u \in Unfiltered => g
           p == IF t = NextTime(u) THEN "none" ELSE s.pending
           v == Driven(u, s, w)
<1>1. u \in Units /\ u \notin Continuous
  BY DEF Sampled
<1>2. s \in Unit /\ s.tripDue = FALSE
  BY <1>1, SettledFacts DEF TypeOK, UnitsInv
<1>3. w \in Registered
  <2> DEFINE on == Stage(u, s, s.pending = "on")
  <2>1. on \in BOOLEAN /\ words[u] \in Registered
    BY DEF Stage, RestOK
  <2>2. w = Registers(u, words[u], on)
    BY DEF Loaded
  <2> HIDE DEF on, w
  <2> QED
    BY <2>1, <2>2, RegistersFacts
<1>4. r = [v EXCEPT !.pending = IF t = NextTime(u) THEN "none" ELSE v.pending]
  BY <1>1 DEF Acted
<1> HIDE DEF s, r, w
<1>5. v = IF ~l THEN s
          ELSE [trip |-> s.trip, fault |-> s.fault, breaker |-> s.breaker,
                         gates |-> g, run |-> s.run, branch |-> b,
                         linkTripped |-> s.linkTripped, driven |-> d, tripDue |-> s.tripDue,
                         trackDue |-> s.trackDue, pending |-> s.pending]
  BY <1>2, <1>3, DrivenMembers
<1>6. g \in BOOLEAN /\ b \in BOOLEAN /\ d \in BOOLEAN /\ p \in {"none", "off", "on"}
  BY <1>2, <1>3 DEF Stage, Unit, Registered, Word
<1>7. v \in Unit
  BY <1>2, <1>3, DrivenResult
<1> HIDE DEF g, b, d, v, l
<1>8. /\ v.trip = s.trip /\ v.fault = s.fault /\ v.breaker = s.breaker /\ v.run = s.run
      /\ v.linkTripped = s.linkTripped /\ v.tripDue = s.tripDue
      /\ v.trackDue = s.trackDue /\ v.pending = s.pending
      /\ v.gates = IF l THEN g ELSE s.gates
      /\ v.branch = IF l THEN b ELSE s.branch
      /\ v.driven = IF l THEN d ELSE s.driven
      /\ ~l => v = s
  <2>1. CASE l
    <3>1. v = [trip |-> s.trip, fault |-> s.fault, breaker |-> s.breaker,
                         gates |-> g, run |-> s.run, branch |-> b,
                         linkTripped |-> s.linkTripped, driven |-> d, tripDue |-> s.tripDue,
                         trackDue |-> s.trackDue, pending |-> s.pending]
      BY <1>5, <2>1
    <3>2. /\ v.trip = s.trip /\ v.fault = s.fault /\ v.breaker = s.breaker /\ v.run = s.run
          /\ v.linkTripped = s.linkTripped /\ v.tripDue = s.tripDue
          /\ v.trackDue = s.trackDue /\ v.pending = s.pending
          /\ v.gates = g /\ v.branch = b /\ v.driven = d
      BY <3>1
    <3> QED
      BY <2>1, <3>2, Zenon
  <2>2. CASE ~l
    BY <1>5, <2>2
  <2> QED
    BY <2>1, <2>2
<1>9. r = [v EXCEPT !.pending = p]
  BY <1>4, <1>8
<1> HIDE DEF p
<1>10. /\ r \in Unit /\ r.trip = v.trip /\ r.fault = v.fault /\ r.breaker = v.breaker
       /\ r.run = v.run /\ r.linkTripped = v.linkTripped /\ r.tripDue = v.tripDue
       /\ r.trackDue = v.trackDue /\ r.gates = v.gates /\ r.branch = v.branch
       /\ r.driven = v.driven /\ r.pending = p /\ (p = v.pending => r = v)
  BY <1>6, <1>7, <1>9 DEF Unit
<1>11. ~l /\ t # NextTime(u) => r = s
  BY <1>8, <1>10 DEF p
<1>12. /\ r \in Unit /\ r.trip = s.trip /\ r.fault = s.fault
       /\ r.breaker = s.breaker /\ r.run = s.run
       /\ r.linkTripped = s.linkTripped /\ r.tripDue = FALSE
       /\ r.trackDue = s.trackDue /\ r.pending = p
       /\ r.gates = IF l THEN g ELSE s.gates
       /\ r.branch = IF l THEN b ELSE s.branch
       /\ r.driven = IF l THEN d ELSE s.driven
  BY <1>2, <1>8, <1>10
<1> QED
  BY <1>11, <1>12 DEF r, s, l, g, b, d, p, w

LEMMA ActuateOnUnit ==
    ASSUME IndInv, LifeInv, Actuate, NEW u \in Units
    PROVE  /\ pc = "actuate" /\ UNCHANGED <<t, order>>
           /\ history' \in [Units -> History]
           /\ clock'[u] = IF u = Owner /\ u \in Sampled /\ t = NextTime(u)
                          THEN clock[u] + 1 ELSE clock[u]
           /\ u \in Sampled => load'[u] = IF u = Owner /\ t = LoadTime(u)
                                          THEN load[u] + 1 ELSE load[u]
           /\ u \in Sampled => words'[u] = IF u = Owner THEN Loaded(u) ELSE words[u]
           /\ IF u # Owner \/ history[u].stage = "idle"
              THEN /\ units'[u] = units[u] /\ history'[u] = history[u]
                   /\ u \in Sampled => words'[u] = words[u]
              ELSE /\ history[u].stage = "actuate"
                   /\ u \in Sampled => history[u].due = DueAt(u, t)
                   /\ units'[u] = Acted(u)
                   /\ Moved(history'[u], history[u], "idle")
                   /\ history'[u].aligned = history[u].aligned
                   /\ history'[u].reports = IF units[u].tripDue THEN history[u].reports + 1
                                            ELSE history[u].reports
<1>1. /\ TypeOK /\ RestOK /\ TurnsInOrder /\ UnitsInv /\ LastServed
      /\ pc = "actuate" /\ UNCHANGED <<t, order>>
      /\ history \in [Units -> History] /\ units \in [Units -> Unit]
      /\ words \in [Sampled -> Registered] /\ waiting \subseteq BlackBoxes
  BY DEF IndInv, Kept, Timely, Actuate, LifeInv, TypeOK, RestOK
<1>2. /\ Owner \in Owners /\ ~Had(Owner) /\ u \in Owners /\ u \notin BlackBoxes
      /\ (u \in Sampled <=> u \notin Continuous)
  BY <1>1, ActuateTurn, OwnersTurn, Constants DEF Owners, Sampled
<1>3. /\ clock'[u] = IF u = Owner /\ u \in Sampled /\ t = NextTime(u)
                     THEN clock[u] + 1 ELSE clock[u]
      /\ u \in Sampled => load'[u] = IF u = Owner /\ t = LoadTime(u)
                                     THEN load[u] + 1 ELSE load[u]
  BY <1>1, <1>2, ActuateClocks
<1>4. CASE Owner \notin Units
  <2>1. Owner \in BlackBoxes /\ Owner \notin Sampled /\ Owner \notin Continuous
    BY <1>2, <1>4, Constants
  <2>2. units' = units /\ words' = words /\ history' = history
    BY <2>1 DEF Actuate
  <2> QED
    BY <1>1, <1>3, <1>4, <2>2
<1>5. CASE Owner \in Units
  <2> DEFINE o == Owner
             trips == units[o].tripDue
             past == Past(history, o, "idle")
  <2>1. /\ o \notin BlackBoxes /\ (o \in Sampled <=> o \notin Continuous)
        /\ trips \in BOOLEAN
    BY <1>1, <1>5, Constants DEF Unit
  <2>2. /\ units' = [units EXCEPT ![o] = Acted(o)]
        /\ words' = IF o \in Sampled THEN [words EXCEPT ![o] = Loaded(o)] ELSE words
        /\ history' = Reported(past, o, trips)
    BY <1>5, <2>1 DEF Actuate, Acted, Loaded, Settled
  <2>3. /\ past \in [Units -> History]
        /\ u # o => past[u] = history[u]
        /\ IF history[o].stage = "idle" THEN past = history
           ELSE /\ Moved(past[o], history[o], "idle")
                /\ past[o].aligned = history[o].aligned
                /\ past[o].reports = history[o].reports
    BY <1>1, <1>5, PastFacts
  <2> HIDE DEF past, trips
  <2>4. /\ Reported(past, o, trips) \in [Units -> History]
        /\ u # o => Reported(past, o, trips)[u] = past[u]
        /\ ~trips => Reported(past, o, trips) = past
        /\ LET r == Reported(past, o, trips)[o]
           IN  /\ r.stage = past[o].stage /\ r.due = past[o].due
               /\ r.command = past[o].command /\ r.source = past[o].source
               /\ r.aligned = past[o].aligned
               /\ r.reports = IF trips THEN past[o].reports + 1 ELSE past[o].reports
    BY <1>5, <2>1, <2>3, ReportedFacts
  <2>5. StageOK(o) /\ ServiceOK(o)
    BY <1>1, <1>5 DEF LifeInv
  <2>6. /\ history[o].stage \in {"idle", "actuate"}
        /\ o \in Sampled => history[o].due = DueAt(o, t)
    BY <1>1, <1>2, <2>1, <2>5 DEF StageOK, Undone, Place, Phases
  <2> HIDE DEF o
  <2>7. CASE u # o
    BY <1>1, <1>3, <2>2, <2>3, <2>4, <2>7 DEF o
  <2>8. CASE u = o /\ history[u].stage = "idle"
    <3>1. ~trips /\ Settled(u) = units[u]
      BY <2>5, <2>8 DEF ServiceOK, trips, Settled
    <3>2. history' = history
      BY <2>2, <2>3, <2>4, <2>8, <3>1
    <3>3. CASE u \in Continuous
      <4>1. Acted(u) = units[u] /\ words' = words
        BY <2>1, <2>2, <2>8, <3>1, <3>3 DEF Acted
      <4> QED
        BY <1>1, <1>2, <1>3, <2>2, <2>8, <3>2, <3>3, <4>1 DEF o
    <3>4. CASE u \in Sampled
      <4>1. t # NextTime(u) /\ t # LoadTime(u)
        BY <2>5, <2>6, <2>8, <3>4, DueFacts DEF StageOK
      <4>2. Acted(u) = units[u]
        BY <1>1, <3>1, <3>4, <4>1, ActedFacts
      <4>3. Loaded(u) = words[u]
        <5> DEFINE on == Stage(u, Settled(u), Settled(u).pending = "on")
        <5>1. on \in BOOLEAN /\ words[u] \in Registered
          BY <1>1, <3>4 DEF Stage
        <5>2. Loaded(u) = Registers(u, words[u], on)
          BY DEF Loaded
        <5> HIDE DEF on
        <5> QED
          BY <1>1, <3>4, <4>1, <5>1, <5>2, RegistersFacts
      <4>4. units' = units /\ words' = words
        BY <1>1, <2>2, <2>8, <4>2, <4>3
      <4> QED
        BY <1>1, <1>3, <2>8, <3>2, <4>3, <4>4 DEF o
    <3> QED
      BY <1>2, <3>3, <3>4
  <2>9. CASE u = o /\ history[u].stage # "idle"
    <3>1. /\ Moved(history'[u], history[u], "idle")
          /\ history'[u].aligned = history[u].aligned
          /\ history'[u].reports = IF units[u].tripDue THEN history[u].reports + 1
                                   ELSE history[u].reports
      BY <2>2, <2>3, <2>4, <2>9 DEF Moved, trips
    <3>2. /\ units'[u] = Acted(u)
          /\ u \in Sampled => words'[u] = Loaded(u)
      BY <1>1, <2>2, <2>9
    <3>3. history' \in [Units -> History]
      BY <2>2, <2>4
    <3> QED
      BY <1>1, <1>3, <2>6, <2>9, <3>1, <3>2, <3>3 DEF o
  <2> QED
    BY <2>7, <2>8, <2>9
<1> QED
  BY <1>4, <1>5

LEMMA LifeActuate ==
    ASSUME IndInv, LifeInv, Actuate
    PROVE  LifeInv'
<1>1. /\ TypeOK /\ RestOK /\ TurnsInOrder /\ UnitsInv /\ LastServed /\ ClocksAhead
      /\ TypeOK' /\ RestOK'
  BY TypesActuate DEF IndInv, Kept, Timely
<1>2. /\ pc = "actuate" /\ UNCHANGED <<t, order>> /\ history' \in [Units -> History]
  BY ActuateOnUnit, ProgramAssumption
<1>3. /\ Owner \in Owners /\ pc' \in {"actuate", "log", "done"}
      /\ pc' = "actuate" => \A o \in Units : Had(o)' <=> Had(o) \/ o = Owner
      /\ pc' = "log" => \A o \in Units : Had(o) \/ o = Owner
  <2>1. Units \subseteq Owners
    BY DEF Owners
  <2> QED
    BY <1>1, <2>1, ActuateTurn
<1>4. ~Had(Owner)
  BY <1>1, OwnersTurn
<1>5. ASSUME NEW u \in Units, pc' # "done"
      PROVE  StageOK(u)' /\ ServiceOK(u)'
  <2>1. /\ StageOK(u) /\ ServiceOK(u) /\ u \in Owners
        /\ (u \in Sampled <=> u \notin Continuous)
    BY <1>2, <1>5 DEF LifeInv, Owners, Sampled
  <2>2. CASE u # Owner \/ history[u].stage = "idle"
    <3>1. /\ units'[u] = units[u] /\ history'[u] = history[u]
          /\ u \in Sampled => words'[u] = words[u]
      BY <2>2, ActuateOnUnit
    <3>2. history'[u].stage \in {"idle", Place(u)'}
      BY <1>2, <1>3, <1>5, <2>1, <2>2, <3>1 DEF StageOK, Place, Phases
    <3>3. Undone(u)' => Undone(u) /\ u # Owner
      BY <1>2, <1>3, <1>4, <1>5 DEF Undone
    <3>4. u # Owner => DueAt(u, t)' = DueAt(u, t)
      BY <1>2, ActuateOnUnit, DueKept
    <3>5. StageOK(u)'
      BY <1>3, <1>5, <2>1, <3>1, <3>2, <3>3, <3>4 DEF StageOK
    <3>6. ServiceOK(u)'
      BY <1>2, <2>1, <3>1, ServiceKept
    <3> QED
      BY <3>5, <3>6
  <2>3. CASE u = Owner /\ history[u].stage # "idle"
    <3>1. /\ history[u].stage = "actuate" /\ units'[u] = Acted(u)
          /\ history'[u].stage = "idle" /\ history'[u].due = NothingDue
          /\ u \in Sampled => words'[u] = Loaded(u) /\ history[u].due = DueAt(u, t)
      BY <2>3, ActuateOnUnit DEF Moved
    <3>2. ~Undone(u)'
      BY <1>2, <1>3, <1>5, <2>3 DEF Undone
    <3>3. StageOK(u)'
      BY <1>3, <1>5, <3>1, <3>2 DEF StageOK
    <3>4. /\ units[u] \in Unit /\ (units[u].tripDue => Tripped(units[u]))
          /\ ~units[u].trackDue
      BY <1>1, <1>2 DEF TypeOK, UnitsInv
    <3> DEFINE s == Settled(u)
               r == units'[u]
               a == units[u]
    <3>5. /\ s \in Unit /\ s.trip = a.trip /\ s.breaker = (a.breaker /\ ~a.tripDue)
          /\ s.gates = (a.gates /\ ~a.tripDue) /\ s.branch = (a.branch /\ ~a.tripDue)
          /\ s.driven = (a.driven /\ (a.tripDue => u \notin Unfiltered))
          /\ s.tripDue = FALSE /\ s.trackDue = a.trackDue /\ s.pending = a.pending
      BY <3>4, SettledFacts
    <3>6. /\ ~a.tripDue => /\ a.branch <=> BranchOf(u, a)
                           /\ u \in Sampled => (a.gates <=> Stage(u, a, words[u].active.on))
          /\ u \in Unfiltered /\ a.driven => a.gates
          /\ a.pending # "none" <=> u \in Sampled /\ history[u].due.control
      BY <2>1, <3>1 DEF ServiceOK
    <3> HIDE DEF s, a
    <3>7. /\ s.branch <=> BranchOf(u, s)
          /\ u \in Sampled => (s.gates <=> Stage(u, s, words[u].active.on))
          /\ u \in Unfiltered /\ s.driven => s.gates
      <4>1. CASE a.tripDue
        <5>1. Tripped(s)
          BY <3>4, <3>5, <4>1 DEF Tripped, a
        <5> QED
          BY <3>5, <4>1, <5>1 DEF BranchOf, Stage
      <4>2. CASE ~a.tripDue
        <5>1. s = a
          BY <3>4, <4>2, SettledFacts DEF s, a
        <5> QED
          BY <3>6, <4>2, <5>1
      <4> QED
        BY <4>1, <4>2
    <3>8. CASE u \in Continuous
      <4>1. r = s
        BY <3>1, <3>8 DEF Acted, s
      <4>2. u \notin Sampled
        BY <2>1, <3>8
      <4> QED
        BY <3>1, <3>3, <3>4, <3>5, <3>6, <3>7, <4>1, <4>2
           DEF ServiceOK, BranchOf, Tripped, a
    <3>9. CASE u \in Sampled
      <4> DEFINE l == t = LoadTime(u)
                 g == Stage(u, s, Loaded(u).active.on)
      <4>1. /\ r.trip = s.trip /\ r.breaker = s.breaker /\ r.tripDue = FALSE
            /\ r.trackDue = s.trackDue
            /\ r.pending = IF t = NextTime(u) THEN "none" ELSE s.pending
            /\ r.gates = IF l THEN g ELSE s.gates
            /\ r.branch = IF l
                          THEN u \notin Unfiltered /\ s.breaker /\ g /\ ~Tripped(s)
                          ELSE s.branch
            /\ r.driven = IF l THEN u \in Unfiltered => g ELSE s.driven
        <5> HIDE DEF r
        <5>1. r = Acted(u)
          BY <3>1 DEF r
        <5> QED
          BY <1>1, <3>9, <5>1, ActedFacts DEF s
      <4>2. ~l => Loaded(u).active = words[u].active
        <5> DEFINE on == Stage(u, Settled(u), Settled(u).pending = "on")
        <5>1. on \in BOOLEAN /\ words[u] \in Registered
          BY <1>1, <3>9 DEF Stage, RestOK
        <5>2. Loaded(u) = Registers(u, words[u], on)
          BY DEF Loaded
        <5> HIDE DEF on
        <5>3. t # LoadTime(u) => Registers(u, words[u], on).active = words[u].active
          BY <1>1, <3>9, <5>1, RegistersFacts
        <5> QED
          BY <5>2, <5>3
      <4>3. r.pending = "none"
        <5>1. history[u].due.control <=> t = NextTime(u)
          BY <3>1, <3>9, DueFacts
        <5> QED
          BY <3>5, <3>6, <4>1, <5>1
      <4>4. words'[u].active.on = Loaded(u).active.on
        BY <3>1, <3>9
      <4>5. r.gates <=> Stage(u, r, words'[u].active.on)
        <5>1. CASE l
          BY <4>1, <4>4, <5>1 DEF Stage, Tripped
        <5>2. CASE ~l
          BY <3>7, <3>9, <4>1, <4>2, <4>4, <5>2 DEF Stage, Tripped
        <5> QED
          BY <5>1, <5>2
      <4>6. r.branch <=> BranchOf(u, r)
        BY <3>7, <4>1 DEF BranchOf, Tripped
      <4>7. u \in Unfiltered /\ r.driven => r.gates
        BY <3>7, <4>1
      <4>8. ~r.trackDue /\ ~r.tripDue
        BY <3>4, <3>5, <4>1 DEF a
      <4> HIDE DEF l, g
      <4> QED
        BY <3>1, <3>3, <4>3, <4>5, <4>6, <4>7, <4>8
           DEF ServiceOK, Stage, BranchOf, Tripped
    <3>10. u \in Continuous \/ u \in Sampled
      BY <2>1
    <3> QED
      BY <3>8, <3>9, <3>10
  <2> QED
    BY <2>2, <2>3
<1>6. ASSUME NEW u \in Sampled
      PROVE  WordsOK(u)'
  <2>1. u \in Units /\ WordsOK(u) /\ words[u] \in Registered
    BY <1>1 DEF Sampled, LifeInv, RestOK
  <2>2. CASE u = Owner
    <3> DEFINE on == Stage(u, Settled(u), Settled(u).pending = "on")
    <3>1. on \in BOOLEAN
      BY DEF Stage
    <3>2. words'[u] = Registers(u, words[u], on)
      BY <2>1, <2>2, ActuateOnUnit DEF Loaded
    <3>3. clock'[u] = IF t = NextTime(u) THEN clock[u] + 1 ELSE clock[u]
      BY <2>1, <2>2, ActuateOnUnit
    <3> HIDE DEF on
    <3> QED
      BY <1>1, <1>2, <2>1, <3>1, <3>2, <3>3, WordsServed
  <2>3. CASE u # Owner
    <3>1. words'[u] = words[u] /\ clock'[u] = clock[u]
      BY <2>1, <2>3, ActuateOnUnit
    <3> QED
      BY <1>1, <1>2, <2>1, <3>1, WordsKept, Times
  <2> QED
    BY <2>2, <2>3
<1> QED
  BY <1>2, <1>5, <1>6 DEF LifeInv

LEMMA LifeLog ==
    ASSUME IndInv, LifeInv, Log
    PROVE  LifeInv'
<1>1. TypeOK /\ TypeOK' /\ pc = "log" /\ pc' \in {"done", "boundary"}
  BY TypesLog DEF IndInv, Log
<1>2. UNCHANGED <<order, turn, t, action, clock, load, units, words, history>>
  BY DEF Log
<1>3. ASSUME NEW u \in Units
      PROVE  StageOK(u)' /\ ServiceOK(u)'
  <2>1. StageOK(u) /\ ServiceOK(u)
    BY <1>1, <1>3 DEF LifeInv
  <2>2. Place(u) = "idle" /\ Place(u)' = "idle" /\ ~Undone(u)'
    BY <1>1 DEF Place, Phases, Undone
  <2>3. StageOK(u)'
    BY <1>1, <1>2, <2>1, <2>2 DEF StageOK
  <2> QED
    BY <1>2, <2>1, <2>3, ServiceKept
<1>4. ASSUME NEW u \in Sampled
      PROVE  WordsOK(u)'
  BY <1>1, <1>2, <1>4, WordsKept, Times DEF LifeInv
<1> QED
  BY <1>2, <1>3, <1>4 DEF LifeInv

LEMMA LifeStutter ==
    ASSUME LifeInv, UNCHANGED vars
    PROVE  LifeInv'
<1>1. UNCHANGED <<pc, turn, order, t, action, clock, load, units, words, history>>
  BY DEF vars
<1>2. ASSUME NEW u \in Units, pc # "done"
      PROVE  StageOK(u)' /\ ServiceOK(u)'
  <2>1. StageOK(u) /\ ServiceOK(u)
    BY <1>2 DEF LifeInv
  <2>2. DueAt(u, t)' = DueAt(u, t)
    BY <1>1, DueKept
  <2>3. (Place(u)' = Place(u)) /\ (Undone(u)' <=> Undone(u))
    BY <1>1 DEF Place, Undone, Had
  <2>4. StageOK(u)'
    BY <1>1, <2>1, <2>2, <2>3 DEF StageOK
  <2> QED
    BY <1>1, <2>1, <2>4, ServiceKept
<1>3. ASSUME NEW u \in Sampled
      PROVE  WordsOK(u)'
  BY <1>1 DEF LifeInv, WordsOK, FirstOf
<1> QED
  BY <1>1, <1>2, <1>3 DEF LifeInv

LEMMA LifeStep == IndInv /\ LifeInv /\ [Next]_vars => LifeInv'
BY LifeBoundary, LifeAction, LifeProtect, LifeSense, LifeActuate, LifeLog, LifeStutter
   DEF Next

----------------------------------------------------------------------------
(***************************************************************************)
(* The lifecycle of UnitLifecycle, for a unit of this program.             *)
(***************************************************************************)
LifeUnit == [trip : {"none", "restored", "overcurrent", "sampled"}, fault : BOOLEAN,
             breaker : BOOLEAN, gates : BOOLEAN, branch : BOOLEAN, source : BOOLEAN,
             linkTripped : BOOLEAN, run : BOOLEAN, driven : BOOLEAN, tripDue : BOOLEAN,
             trackDue : BOOLEAN]

LEMMA LifeUnitRecord ==
    ASSUME NEW s \in LifeUnit
    PROVE  s = [trip |-> s.trip, fault |-> s.fault, breaker |-> s.breaker,
                gates |-> s.gates, branch |-> s.branch, source |-> s.source,
                linkTripped |-> s.linkTripped, run |-> s.run, driven |-> s.driven,
                tripDue |-> s.tripDue, trackDue |-> s.trackDue]
BY DEF LifeUnit

LEMMA FormFacts ==
    ASSUME NEW v
    PROVE  /\ FormOf(v).filtered <=> v \notin Unfiltered
           /\ FormOf(v).continuous <=> v \in Continuous
           /\ FormOf(v).computation <=> v \in Sampled /\ Computation[v] > 0
BY DEF FormOf

LEMMA SetGatesMembers ==
    ASSUME NEW v, NEW s \in LifeUnit, NEW on \in BOOLEAN
    PROVE  LET g == on /\ ~Tripped(s) /\ (v \notin Unfiltered \/ s.breaker)
           IN  Lifecycle(v)!SetGates(s, on) =
                   [trip |-> s.trip, fault |-> s.fault, breaker |-> s.breaker,
                    gates |-> g,
                    branch |-> v \notin Unfiltered /\ s.breaker /\ g /\ ~Tripped(s),
                    source |-> s.source, linkTripped |-> s.linkTripped, run |-> s.run,
                    driven |-> s.driven /\ (v \notin Unfiltered \/ v \in Continuous \/ g),
                    tripDue |-> s.tripDue, trackDue |-> s.trackDue]
<1> DEFINE f == FormOf(v).filtered
           n == FormOf(v).continuous
           ga == on /\ ~Tripped(s) /\ (f \/ s.breaker)
           da == s.driven /\ (f \/ n \/ ga)
           r == [s EXCEPT !.gates = ga, !.driven = da]
           ba == f /\ r.breaker /\ r.gates /\ ~Tripped(r)
           g == on /\ ~Tripped(s) /\ (v \notin Unfiltered \/ s.breaker)
           b == v \notin Unfiltered /\ s.breaker /\ g /\ ~Tripped(s)
           d == s.driven /\ (v \notin Unfiltered \/ v \in Continuous \/ g)
<1>1. Lifecycle(v)!SetGates(s, on) = [r EXCEPT !.branch = ba]
  BY DEF Lifecycle!SetGates, Lifecycle!UpdateTerminal, Lifecycle!Tripped, Tripped
<1>2. f = (v \notin Unfiltered) /\ n = (v \in Continuous)
  BY DEF FormOf
<1>3. ga = g /\ da = d
  BY <1>2
<1>4. /\ ga \in BOOLEAN /\ da \in BOOLEAN /\ ba \in BOOLEAN
  BY <1>2 DEF LifeUnit
<1> HIDE DEF ga, da
<1>5. /\ r \in LifeUnit /\ r.trip = s.trip /\ r.fault = s.fault /\ r.breaker = s.breaker
      /\ r.gates = ga /\ r.branch = s.branch /\ r.source = s.source
      /\ r.linkTripped = s.linkTripped /\ r.run = s.run /\ r.driven = da
      /\ r.tripDue = s.tripDue /\ r.trackDue = s.trackDue
  BY <1>4 DEF LifeUnit
<1>6. ba = b
  BY <1>2, <1>3, <1>5 DEF Tripped
<1> HIDE DEF r, ba, b, g, d
<1>7. [r EXCEPT !.branch = ba] =
          [trip |-> r.trip, fault |-> r.fault, breaker |-> r.breaker,
                    gates |-> r.gates, branch |-> ba,
                    source |-> r.source, linkTripped |-> r.linkTripped, run |-> r.run,
                    driven |-> r.driven, tripDue |-> r.tripDue, trackDue |-> r.trackDue]
  BY <1>5 DEF LifeUnit
<1>8. Lifecycle(v)!SetGates(s, on) =
          [trip |-> s.trip, fault |-> s.fault, breaker |-> s.breaker,
                    gates |-> g, branch |-> b,
                    source |-> s.source, linkTripped |-> s.linkTripped, run |-> s.run,
                    driven |-> d, tripDue |-> s.tripDue, trackDue |-> s.trackDue]
  BY <1>1, <1>3, <1>5, <1>6, <1>7
<1> QED
  BY <1>8 DEF g, b, d

LEMMA ShutdownMembers ==
    ASSUME NEW v, NEW s \in LifeUnit
    PROVE  Lifecycle(v)!Shutdown(s) =
               [trip |-> s.trip, fault |-> s.fault, breaker |-> FALSE, gates |-> FALSE,
                branch |-> FALSE, source |-> s.source, linkTripped |-> TRUE, run |-> FALSE,
                driven |-> s.driven /\ (v \notin Unfiltered \/ v \in Continuous),
                tripDue |-> FALSE, trackDue |-> FALSE]
<1> DEFINE r == [s EXCEPT !.run = FALSE, !.breaker = FALSE, !.linkTripped = TRUE,
                          !.tripDue = FALSE, !.trackDue = FALSE]
           g == FALSE /\ ~Tripped(r) /\ (v \notin Unfiltered \/ r.breaker)
           b == v \notin Unfiltered /\ r.breaker /\ g /\ ~Tripped(r)
           d == r.driven /\ (v \notin Unfiltered \/ v \in Continuous \/ g)
           e == s.driven /\ (v \notin Unfiltered \/ v \in Continuous)
<1>1. /\ r \in LifeUnit /\ r.trip = s.trip /\ r.fault = s.fault /\ r.breaker = FALSE
      /\ r.source = s.source /\ r.linkTripped = TRUE /\ r.run = FALSE
      /\ r.driven = s.driven /\ r.tripDue = FALSE /\ r.trackDue = FALSE
  BY DEF LifeUnit
<1>2. Lifecycle(v)!Shutdown(s) = Lifecycle(v)!SetGates(r, FALSE)
  BY DEF Lifecycle!Shutdown
<1> HIDE DEF r
<1>3. Lifecycle(v)!SetGates(r, FALSE) =
          [trip |-> r.trip, fault |-> r.fault, breaker |-> r.breaker, gates |-> g,
           branch |-> b, source |-> r.source, linkTripped |-> r.linkTripped,
           run |-> r.run, driven |-> d, tripDue |-> r.tripDue, trackDue |-> r.trackDue]
  BY <1>1, SetGatesMembers
<1>4. g = FALSE /\ b = FALSE /\ d = e
  BY <1>1
<1> HIDE DEF g, b, d, e
<1> QED
  BY <1>1, <1>2, <1>3, <1>4 DEF e

\* The unit of the lifecycle from its members here and their history.
UnitFrom(s, h) ==
    [trip |-> s.trip, fault |-> s.fault, breaker |-> s.breaker, gates |-> s.gates,
     branch |-> s.branch, source |-> h.source, linkTripped |-> s.linkTripped,
     run |-> s.run, driven |-> s.driven, tripDue |-> s.tripDue,
     trackDue |-> s.trackDue /\ ~Tripped(s)]

LEMMA UnitFromFacts ==
    ASSUME NEW s \in Unit, NEW h \in History
    PROVE  LET r == UnitFrom(s, h)
           IN  /\ r \in LifeUnit /\ r.trip = s.trip /\ r.fault = s.fault
               /\ r.breaker = s.breaker /\ r.gates = s.gates /\ r.branch = s.branch
               /\ r.source = h.source /\ r.linkTripped = s.linkTripped /\ r.run = s.run
               /\ r.driven = s.driven /\ r.tripDue = s.tripDue
               /\ r.trackDue = (s.trackDue /\ ~Tripped(s))
               /\ Tripped(r) <=> Tripped(s)
<1> DEFINE k == s.trackDue /\ ~Tripped(s)
           r == UnitFrom(s, h)
<1>1. k \in BOOLEAN
  BY DEF Unit
<1>2. r = [trip |-> s.trip, fault |-> s.fault, breaker |-> s.breaker, gates |-> s.gates,
           branch |-> s.branch, source |-> h.source, linkTripped |-> s.linkTripped,
           run |-> s.run, driven |-> s.driven, tripDue |-> s.tripDue, trackDue |-> k]
  BY DEF UnitFrom
<1> HIDE DEF k, r
<1>3. /\ r \in LifeUnit /\ r.trip = s.trip /\ r.fault = s.fault
      /\ r.breaker = s.breaker /\ r.gates = s.gates /\ r.branch = s.branch
      /\ r.source = h.source /\ r.linkTripped = s.linkTripped /\ r.run = s.run
      /\ r.driven = s.driven /\ r.tripDue = s.tripDue /\ r.trackDue = k
  BY <1>1, <1>2 DEF LifeUnit, Unit, History
<1> QED
  BY <1>3 DEF k, r, Tripped

LEMMA UnitOfIs ==
    ASSUME NEW v
    PROVE  /\ UnitOf(v) = UnitFrom(units[v], history[v])
           /\ UnitOf(v)' = UnitFrom(units'[v], history'[v])
BY DEF UnitOf, UnitFrom, Tripped

LEMMA WordsOfSame ==
    ASSUME NEW v \in Units, v \in Sampled => words'[v] = words[v]
    PROVE  WordsOf(v)' = WordsOf(v)
BY DEF WordsOf, Sampled

LEMMA NothingMoves ==
    ASSUME NEW v \in Units, units'[v] = units[v], history'[v] = history[v],
           v \in Sampled => words'[v] = words[v]
    PROVE  UNCHANGED Lifecycle(v)!vars
<1>1. WordsOf(v)' = WordsOf(v)
  BY WordsOfSame
<1>2. UnitOf(v)' = UnitOf(v) /\ FormOf(v)' = FormOf(v)
  BY UnitOfIs DEF FormOf
<1> QED
  BY <1>1, <1>2 DEF Lifecycle!vars

LEMMA DueInLife ==
    ASSUME NEW v \in Units, NEW at
    PROVE  /\ Lifecycle(v)!MayBeDue(DueAt(v, at)) /\ DueAt(v, at) \in Lifecycle(v)!Due
           /\ Lifecycle(v)!NothingDue = NothingDue
BY DueFacts DEF Lifecycle!MayBeDue, Lifecycle!Due, Lifecycle!NothingDue, NothingDue, Due,
                FormOf, Sampled

LEMMA InstantBegins ==
    ASSUME NEW v \in Units, units'[v] = units[v], v \in Sampled => words'[v] = words[v],
           NEW at, history[v].stage = "idle", DueAt(v, at) # NothingDue,
           history'[v].stage = "protect", history'[v].due = DueAt(v, at),
           SameRecord(history'[v], history[v])
    PROVE  Lifecycle(v)!Next
<1>1. WordsOf(v)' = WordsOf(v) /\ FormOf(v)' = FormOf(v)
  BY WordsOfSame DEF FormOf
<1>2. UnitOf(v)' = UnitOf(v)
  BY DEF UnitOf, SameRecord
<1>3. DueAt(v, at).edge \/ DueAt(v, at).control
  BY DueFacts
<1>4. Lifecycle(v)!Instant(DueAt(v, at))
  BY <1>1, <1>2, <1>3, DueInLife DEF Lifecycle!Instant, SameRecord
<1> QED
  BY <1>4, DueInLife DEF Lifecycle!Next

LEMMA ConnectMembers ==
    ASSUME NEW v \in Units, NEW s \in LifeUnit, NEW on \in BOOLEAN,
           words \in [Sampled -> Registered]
    PROVE  LET effective == on /\ ~Tripped(s)
               gates == IF v \in Continuous THEN effective
                        ELSE IF v \in Unfiltered THEN words[v].active.on /\ effective
                        ELSE s.gates
           IN  Lifecycle(v)!ConnectUnit(s, on) =
                   [trip |-> s.trip, fault |-> s.fault, breaker |-> effective,
                    gates |-> gates,
                    branch |-> v \notin Unfiltered /\ effective /\ gates /\ ~Tripped(s),
                    source |-> effective, linkTripped |-> s.linkTripped,
                    run |-> effective,
                    driven |-> s.driven /\ (v \in Unfiltered => gates),
                    tripDue |-> s.tripDue,
                    trackDue |-> IF v \in Continuous
                                 THEN effective /\ ~(s.breaker /\ s.gates /\ ~Tripped(s))
                                 ELSE s.trackDue]
<1> DEFINE effective == on /\ ~Tripped(s)
           active == IF v \in Continuous THEN FALSE ELSE words[v].active.on
           was == s.breaker /\ s.gates /\ ~Tripped(s)
           due == effective /\ ~was
           gates == IF v \in Continuous THEN effective
                    ELSE IF v \in Unfiltered THEN words[v].active.on /\ effective
                    ELSE s.gates
           branch == v \notin Unfiltered /\ effective /\ gates /\ ~Tripped(s)
           driven == s.driven /\ (v \in Unfiltered => gates)
           track == IF v \in Continuous THEN due ELSE s.trackDue
           r == [s EXCEPT !.breaker = effective, !.source = effective, !.run = effective]
           b == FormOf(v).filtered /\ r.breaker /\ r.gates /\ ~Tripped(r)
           c == [r EXCEPT !.branch = b]
           goal == [trip |-> s.trip, fault |-> s.fault, breaker |-> effective,
                    gates |-> gates, branch |-> branch,
                    source |-> effective, linkTripped |-> s.linkTripped,
                    run |-> effective, driven |-> driven, tripDue |-> s.tripDue,
                    trackDue |-> track]
<1>1. Lifecycle(v)!ConnectUnit(s, on) =
          IF FormOf(v).continuous
          THEN Lifecycle(v)!SetGates([c EXCEPT !.trackDue = due], effective)
          ELSE IF FormOf(v).filtered THEN c
          ELSE Lifecycle(v)!SetGates(c, effective /\ active)
  <2>1. WordsOf(v).active = active
    BY DEF WordsOf
  <2> QED
    BY <2>1 DEF Lifecycle!ConnectUnit, Lifecycle!UpdateTerminal, Lifecycle!Tripped, Tripped
<1>2. /\ effective \in BOOLEAN /\ was \in BOOLEAN /\ due \in BOOLEAN
      /\ (effective => ~Tripped(s)) /\ active \in BOOLEAN
      /\ (v \in Continuous => v \notin Unfiltered)
  BY ProgramAssumption DEF Registered, Word, Sampled
<1>3. /\ FormOf(v).continuous <=> v \in Continuous
      /\ FormOf(v).filtered <=> v \notin Unfiltered
  BY FormFacts
<1> HIDE DEF effective, was, due, active
<1>4. /\ r \in LifeUnit /\ r.trip = s.trip /\ r.fault = s.fault /\ r.breaker = effective
      /\ r.gates = s.gates /\ r.source = effective /\ r.linkTripped = s.linkTripped
      /\ r.run = effective /\ r.driven = s.driven /\ r.tripDue = s.tripDue
      /\ r.trackDue = s.trackDue
  BY <1>2 DEF LifeUnit
<1> HIDE DEF r
<1>5. b \in BOOLEAN /\ (b <=> v \notin Unfiltered /\ effective /\ s.gates /\ ~Tripped(s))
  BY <1>2, <1>3, <1>4 DEF Tripped, FormOf, LifeUnit
<1> HIDE DEF b
<1>6. /\ c \in LifeUnit /\ c.trip = s.trip /\ c.fault = s.fault /\ c.breaker = effective
      /\ c.gates = s.gates /\ c.branch = b /\ c.source = effective
      /\ c.linkTripped = s.linkTripped /\ c.run = effective /\ c.driven = s.driven
      /\ c.tripDue = s.tripDue /\ c.trackDue = s.trackDue
  BY <1>4, <1>5 DEF LifeUnit
<1> HIDE DEF c
<1>7. Lifecycle(v)!ConnectUnit(s, on) = goal
  <2>1. CASE v \in Continuous
    <3> DEFINE e == [c EXCEPT !.trackDue = due]
               g == effective /\ ~Tripped(e) /\ (v \notin Unfiltered \/ e.breaker)
               gb == v \notin Unfiltered /\ e.breaker /\ g /\ ~Tripped(e)
               gd == e.driven /\ (v \notin Unfiltered \/ v \in Continuous \/ g)
    <3>1. /\ e \in LifeUnit /\ e.trip = s.trip /\ e.fault = s.fault /\ e.breaker = effective
          /\ e.source = effective /\ e.linkTripped = s.linkTripped /\ e.run = effective
          /\ e.driven = s.driven /\ e.tripDue = s.tripDue /\ e.trackDue = due
      BY <1>2, <1>6 DEF LifeUnit
    <3>2. Lifecycle(v)!ConnectUnit(s, on) = Lifecycle(v)!SetGates(e, effective)
      BY <1>1, <1>3, <2>1
    <3> HIDE DEF e
    <3>3. Lifecycle(v)!SetGates(e, effective) =
              [trip |-> e.trip, fault |-> e.fault, breaker |-> e.breaker, gates |-> g,
               branch |-> gb, source |-> e.source, linkTripped |-> e.linkTripped,
               run |-> e.run, driven |-> gd, tripDue |-> e.tripDue,
               trackDue |-> e.trackDue]
      BY <1>2, <3>1, SetGatesMembers
    <3>4. gates = effective /\ track = due
      BY <2>1
    <3>5. g = effective
      BY <1>2, <2>1, <3>1 DEF Tripped
    <3>6. gb = branch
      <4> HIDE DEF g, gates
      <4> QED
        BY <1>2, <2>1, <3>1, <3>4, <3>5 DEF Tripped
    <3>7. gd = driven
      <4> HIDE DEF g, gates
      <4> QED
        BY <1>2, <2>1, <3>1
    <3> HIDE DEF g, gb, gd, gates, branch, driven, track
    <3> QED
      BY <3>1, <3>2, <3>3, <3>4, <3>5, <3>6, <3>7
  <2>2. CASE v \notin Continuous /\ v \notin Unfiltered
    <3>1. Lifecycle(v)!ConnectUnit(s, on) = c
      BY <1>1, <1>3, <2>2
    <3>2. gates = s.gates /\ track = s.trackDue
      BY <2>2
    <3>3. driven = s.driven
      BY <2>2 DEF LifeUnit
    <3>4. b = branch
      <4> HIDE DEF gates
      <4> QED
        BY <1>5, <2>2, <3>2
    <3>5. c = [trip |-> c.trip, fault |-> c.fault, breaker |-> c.breaker,
               gates |-> c.gates, branch |-> c.branch, source |-> c.source,
               linkTripped |-> c.linkTripped, run |-> c.run, driven |-> c.driven,
               tripDue |-> c.tripDue, trackDue |-> c.trackDue]
      BY <1>6, LifeUnitRecord
    <3> HIDE DEF gates, branch, driven, track
    <3> QED
      BY <1>6, <3>1, <3>2, <3>3, <3>4, <3>5
  <2>3. CASE v \notin Continuous /\ v \in Unfiltered
    <3> DEFINE o == effective /\ active
               g == o /\ ~Tripped(c) /\ (v \notin Unfiltered \/ c.breaker)
               gb == v \notin Unfiltered /\ c.breaker /\ g /\ ~Tripped(c)
               gd == c.driven /\ (v \notin Unfiltered \/ v \in Continuous \/ g)
    <3>1. Lifecycle(v)!ConnectUnit(s, on) = Lifecycle(v)!SetGates(c, o) /\ o \in BOOLEAN
      BY <1>1, <1>2, <1>3, <2>3
    <3>2. gates = o /\ track = s.trackDue
      BY <1>2, <2>3 DEF active
    <3> HIDE DEF o
    <3>3. Lifecycle(v)!SetGates(c, o) =
              [trip |-> c.trip, fault |-> c.fault, breaker |-> c.breaker, gates |-> g,
               branch |-> gb, source |-> c.source, linkTripped |-> c.linkTripped,
               run |-> c.run, driven |-> gd, tripDue |-> c.tripDue,
               trackDue |-> c.trackDue]
      BY <1>6, <3>1, SetGatesMembers
    <3>4. g = o
      BY <1>2, <1>6, <2>3, <3>1 DEF Tripped, o
    <3>5. gb = branch
      BY <2>3
    <3>6. gd = driven
      <4> HIDE DEF g, gates
      <4> QED
        BY <1>6, <2>3, <3>2, <3>4
    <3> HIDE DEF g, gb, gd, gates, branch, driven, track
    <3> QED
      BY <1>6, <3>1, <3>2, <3>3, <3>4, <3>5, <3>6
  <2> QED
    BY <2>1, <2>2, <2>3
<1> QED
  BY <1>7 DEF effective, was, due

LEMMA EventBegins ==
    ASSUME NEW v \in Units, units[v] \in Unit, units'[v] \in Unit,
           history[v] \in History, history'[v] \in History,
           words \in [Sampled -> Registered], UNCHANGED words,
           NEW on \in BOOLEAN, history[v].stage = "idle",
           units'[v] = Command(v, units[v], on), IsCommanded(history'[v], v, on)
    PROVE  Lifecycle(v)!Next
<1> DEFINE s == units[v]
           h == history[v]
           effective == on /\ ~Tripped(s)
           gates == IF v \in Continuous THEN effective
                    ELSE IF v \in Unfiltered THEN words[v].active.on /\ effective
                    ELSE s.gates
           branch == v \notin Unfiltered /\ effective /\ gates /\ ~Tripped(s)
           driven == s.driven /\ (v \in Unfiltered => gates)
           was == s.breaker /\ s.gates /\ ~Tripped(s)
           track == IF v \in Continuous THEN effective /\ ~was ELSE s.trackDue
           r == units'[v]
           l == UnitFrom(s, h)
           m == UnitFrom(r, history'[v])
           ltrack == IF v \in Continuous THEN effective /\ ~was
                     ELSE l.trackDue
<1>1. r = [trip |-> s.trip, fault |-> s.fault, breaker |-> effective,
           gates |-> gates, run |-> effective, branch |-> branch,
           linkTripped |-> s.linkTripped, driven |-> driven, tripDue |-> s.tripDue,
           trackDue |-> track, pending |-> s.pending]
  <2> HIDE DEF s, r
  <2>1. s \in Unit /\ r = Command(v, s, on)
    BY DEF s, r
  <2>2. Command(v, s, on) =
          [trip |-> s.trip, fault |-> s.fault, breaker |-> effective,
           gates |-> gates, run |-> effective, branch |-> branch,
           linkTripped |-> s.linkTripped, driven |-> driven, tripDue |-> s.tripDue,
           trackDue |-> track, pending |-> s.pending]
    BY <2>1, CommandMembers
  <2> QED
    BY <2>1, <2>2, Zenon
<1>2. /\ l \in LifeUnit /\ l.trip = s.trip /\ l.fault = s.fault
      /\ l.breaker = s.breaker /\ l.gates = s.gates /\ l.branch = s.branch
      /\ l.source = h.source /\ l.linkTripped = s.linkTripped /\ l.run = s.run
      /\ l.driven = s.driven /\ l.tripDue = s.tripDue
      /\ l.trackDue = (s.trackDue /\ ~Tripped(s))
      /\ Tripped(l) <=> Tripped(s)
  BY UnitFromFacts
<1>3. Lifecycle(v)!ConnectUnit(l, on) =
          [trip |-> s.trip, fault |-> s.fault, breaker |-> effective,
           gates |-> gates, branch |-> branch, source |-> effective,
           linkTripped |-> s.linkTripped, run |-> effective, driven |-> driven,
           tripDue |-> s.tripDue, trackDue |-> ltrack]
  <2> DEFINE leffective == on /\ ~Tripped(l)
             lgates == IF v \in Continuous THEN leffective
                       ELSE IF v \in Unfiltered THEN words[v].active.on /\ leffective
                       ELSE l.gates
             lbranch == v \notin Unfiltered /\ leffective /\ lgates /\ ~Tripped(l)
             ldriven == l.driven /\ (v \in Unfiltered => lgates)
             lwas == l.breaker /\ l.gates /\ ~Tripped(l)
             mtrack == IF v \in Continuous THEN leffective /\ ~lwas ELSE l.trackDue
  <2> HIDE DEF l, s
  <2>1. Lifecycle(v)!ConnectUnit(l, on) =
          [trip |-> l.trip, fault |-> l.fault, breaker |-> leffective,
           gates |-> lgates, branch |-> lbranch, source |-> leffective,
           linkTripped |-> l.linkTripped, run |-> leffective, driven |-> ldriven,
           tripDue |-> l.tripDue, trackDue |-> mtrack]
    BY <1>2, ConnectMembers
  <2>2. leffective = effective /\ lwas = was
    BY <1>2
  <2> HIDE DEF leffective, effective, lwas, was
  <2>3. lgates = gates /\ mtrack = ltrack
    BY <1>2, <2>2
  <2> HIDE DEF lgates, gates, mtrack, ltrack
  <2>4. lbranch = branch /\ ldriven = driven
    BY <1>2, <2>2, <2>3
  <2> HIDE DEF lbranch, branch, ldriven, driven
  <2> QED
    BY <1>2, <2>1, <2>2, <2>3, <2>4
<1>4. m = Lifecycle(v)!ConnectUnit(l, on)
  <2> DEFINE k == r.trackDue /\ ~Tripped(r)
  <2>1. m = [trip |-> r.trip, fault |-> r.fault, breaker |-> r.breaker,
             gates |-> r.gates, branch |-> r.branch, source |-> history'[v].source,
             linkTripped |-> r.linkTripped, run |-> r.run, driven |-> r.driven,
             tripDue |-> r.tripDue, trackDue |-> k]
    BY DEF UnitFrom
  <2>2. history'[v].source = effective
    BY DEF IsCommanded
  <2>3. effective => ~Tripped(s)
    OBVIOUS
  <2> HIDE DEF s, r, m, effective, gates, branch, driven, was, track, ltrack, k, l
  <2>4. /\ r.trip = s.trip /\ r.fault = s.fault /\ r.breaker = effective
        /\ r.gates = gates /\ r.run = effective /\ r.branch = branch
        /\ r.linkTripped = s.linkTripped /\ r.driven = driven /\ r.tripDue = s.tripDue
        /\ r.trackDue = track
    BY <1>1
  <2>5. k = ltrack
    BY <1>2, <2>3, <2>4 DEF k, track, ltrack, Tripped
  <2> QED
    BY <1>3, <2>1, <2>2, <2>4, <2>5
<1>5. r.pending = s.pending
  <2> HIDE DEF r, s, effective, gates, branch, driven, track
  <2> QED
    BY <1>1
<1>6. /\ UnitOf(v) = l /\ UnitOf(v)' = m
      /\ WordsOf(v)' = WordsOf(v) /\ FormOf(v)' = FormOf(v)
  BY UnitOfIs, WordsOfSame DEF FormOf
<1>7. /\ history'[v].aligned = (h.aligned /\ l.breaker /\ l.gates)
      /\ history'[v].stage = "protect" /\ history'[v].due = DueAt(v, t)
      /\ history'[v].command = on /\ history'[v].reports = h.reports
  BY <1>2 DEF IsCommanded
<1> HIDE DEF l, m, r, s
<1>8. Lifecycle(v)!Event(on, DueAt(v, t))
  BY <1>4, <1>5, <1>6, <1>7, DueInLife DEF Lifecycle!Event, r, s
<1> QED
  BY <1>8, DueInLife DEF Lifecycle!Next

\* What a step does for one unit.
Follows(v) == [Lifecycle(v)!Next]_(Lifecycle(v)!vars)

LEMMA BoundaryFollows ==
    ASSUME IndInv, LifeInv, Boundary, NEW v \in Units
    PROVE  Follows(v)
<1>1. /\ UNCHANGED <<units, words>> /\ history \in [Units -> History]
      /\ history' = IF t' \in ActionTimes THEN history ELSE Entered(history, t')
  BY DEF Boundary, LifeInv
<1>2. CASE t' \in ActionTimes \/ history[v].stage # "idle" \/ DueAt(v, t') = NothingDue
  BY <1>1, <1>2, EnteredFacts, NothingMoves DEF Follows
<1>3. CASE t' \notin ActionTimes /\ history[v].stage = "idle" /\ DueAt(v, t') # NothingDue
  BY <1>1, <1>3, EnteredFacts, InstantBegins DEF Follows
<1> QED
  BY <1>2, <1>3

LEMMA ActionFollows ==
    ASSUME IndInv, LifeInv, ApplyAction, NEW v \in Units
    PROVE  Follows(v)
<1>1. /\ TypeOK /\ RestOK /\ EventsAhead /\ TypeOK'
      /\ history \in [Units -> History]
  BY TypesAction DEF IndInv, Timely, LifeInv
<1>2. UNCHANGED words /\ history' \in [Units -> History]
  BY <1>1, ActionOnUnit
<1>3. CASE v \in Names(Events[action])
  <2> DEFINE on == Events[action].on
  <2>1. /\ on \in BOOLEAN /\ history[v].stage = "idle"
        /\ units'[v] = Command(v, units[v], on) /\ IsCommanded(history'[v], v, on)
    BY <1>1, <1>3, ActionOnUnit
  <2>2. /\ units[v] \in Unit /\ units'[v] \in Unit /\ words \in [Sampled -> Registered]
    BY <1>1 DEF TypeOK, RestOK
  <2> HIDE DEF on
  <2> QED
    BY <1>1, <1>2, <2>1, <2>2, EventBegins DEF Follows
<1>4. CASE v \notin Names(Events[action])
  <2>1. /\ units'[v] = units[v]
        /\ IF pc' = "protect" THEN Entering(v) ELSE history'[v] = history[v]
    BY <1>1, <1>4, ActionOnUnit
  <2>2. CASE history'[v] = history[v]
    BY <1>2, <2>1, <2>2, NothingMoves DEF Follows
  <2>3. CASE history'[v] # history[v]
    BY <1>2, <2>1, <2>3, InstantBegins DEF Follows, Entering
  <2> QED
    BY <2>2, <2>3
<1> QED
  BY <1>3, <1>4

LEMMA ProtectFollows ==
    ASSUME IndInv, LifeInv, Protect, NEW v \in Units
    PROVE  Follows(v)
<1>1. /\ TypeOK /\ RestOK /\ TurnsInOrder /\ TypeOK' /\ history \in [Units -> History]
      /\ pc = "protect" /\ ServiceOK(v)
  BY TypesProtect DEF IndInv, LifeInv, Protect
<1>2. UNCHANGED words /\ history' \in [Units -> History]
  BY <1>1, ProtectOnUnit
<1>3. CASE v # Owner \/ history[v].stage = "idle"
  BY <1>1, <1>2, <1>3, ProtectOnUnit, NothingMoves DEF Follows
<1>4. CASE v = Owner /\ history[v].stage # "idle"
  <2>1. PICK over \in BOOLEAN :
           /\ history[v].stage = "protect"
           /\ over => history[v].due.edge /\ ~Tripped(units[v])
           /\ units'[v] = IF over THEN TripBody(v, Latch(units[v], "overcurrent"))
                          ELSE units[v]
           /\ Moved(history'[v], history[v], "sense")
           /\ history'[v].aligned = history[v].aligned
           /\ history'[v].reports = IF over THEN history[v].reports + 1
                                    ELSE history[v].reports
    BY <1>1, <1>4, ProtectOnUnit, Zenon
  <2> DEFINE s == units[v]
             h == history[v]
             r == units'[v]
             l == UnitFrom(s, h)
             m == UnitFrom(r, history'[v])
  <2>2. s \in Unit /\ r \in Unit /\ h \in History /\ history'[v] \in History
    BY <1>1, <1>2 DEF TypeOK
  <2>3. /\ l \in LifeUnit /\ l.trip = s.trip /\ l.fault = s.fault
        /\ l.breaker = s.breaker /\ l.gates = s.gates /\ l.branch = s.branch
        /\ l.source = h.source /\ l.linkTripped = s.linkTripped /\ l.run = s.run
        /\ l.driven = s.driven /\ l.tripDue = s.tripDue
        /\ l.trackDue = (s.trackDue /\ ~Tripped(s))
        /\ Tripped(l) <=> Tripped(s)
    BY <2>2, UnitFromFacts
  <2>4. /\ UnitOf(v) = l /\ UnitOf(v)' = m
        /\ WordsOf(v)' = WordsOf(v) /\ FormOf(v)' = FormOf(v)
    BY <1>2, UnitOfIs, WordsOfSame DEF FormOf
  <2>5. /\ history'[v].stage = "sense" /\ history'[v].due = h.due
        /\ history'[v].command = h.command /\ history'[v].source = h.source
    BY <2>1 DEF Moved
  <2>6. CASE over
    <3> DEFINE e == [l EXCEPT !.trip = "overcurrent", !.fault = TRUE]
               d == s.driven /\ v \notin Unfiltered
               f == e.driven /\ (v \notin Unfiltered \/ v \in Continuous)
               k == r.trackDue /\ ~Tripped(r)
    <3>1. /\ e \in LifeUnit /\ e.trip = "overcurrent" /\ e.fault = TRUE
          /\ e.source = h.source /\ e.driven = s.driven
      BY <2>3 DEF LifeUnit
    <3>2. r = [trip |-> "overcurrent", fault |-> TRUE, breaker |-> FALSE,
               gates |-> FALSE, run |-> FALSE, branch |-> FALSE, linkTripped |-> TRUE,
               driven |-> d, tripDue |-> s.tripDue,
               trackDue |-> s.trackDue, pending |-> s.pending]
      BY <2>1, <2>2, <2>6, OvercurrentMembers
    <3>3. s.tripDue = FALSE
      BY <1>1, <2>1, <2>2 DEF ServiceOK, Unit
    <3>4. m = [trip |-> r.trip, fault |-> r.fault, breaker |-> r.breaker,
               gates |-> r.gates, branch |-> r.branch, source |-> history'[v].source,
               linkTripped |-> r.linkTripped, run |-> r.run, driven |-> r.driven,
               tripDue |-> r.tripDue, trackDue |-> k]
      BY DEF UnitFrom
    <3> HIDE DEF e, l, m
    <3>5. Lifecycle(v)!Shutdown(e) =
               [trip |-> e.trip, fault |-> e.fault, breaker |-> FALSE, gates |-> FALSE,
                branch |-> FALSE, source |-> e.source, linkTripped |-> TRUE, run |-> FALSE,
                driven |-> f, tripDue |-> FALSE, trackDue |-> FALSE]
      BY <3>1, ShutdownMembers
    <3>6. d = f
      BY <3>1, ProgramAssumption DEF Sampled
    <3> HIDE DEF d, f, s, r, k
    <3>7. /\ r.trip = "overcurrent" /\ r.fault = TRUE /\ r.breaker = FALSE
          /\ r.gates = FALSE /\ r.run = FALSE /\ r.branch = FALSE /\ r.linkTripped = TRUE
          /\ r.driven = d /\ r.tripDue = FALSE /\ r.pending = s.pending
      BY <3>2, <3>3
    <3>8. k = FALSE
      BY <3>7 DEF k, Tripped
    <3>9. m = Lifecycle(v)!Shutdown(e)
      BY <2>5, <3>1, <3>4, <3>5, <3>6, <3>7, <3>8
    <3>10. h.due.edge /\ l.trip = "none" /\ history'[v].reports = h.reports + 1
      BY <2>1, <2>3, <2>6 DEF Tripped, s
    <3>11. Lifecycle(v)!Protect(TRUE)
      BY <2>1, <2>4, <2>5, <3>7, <3>9, <3>10
         DEF Lifecycle!Protect, Lifecycle!Tripped, e, r, s
    <3> QED
      BY <3>11 DEF Lifecycle!Next, Lifecycle!Step, Follows
  <2>7. CASE ~over
    <3>1. m = l /\ r = s /\ history'[v].reports = h.reports
      BY <2>1, <2>5, <2>7 DEF UnitFrom
    <3>2. Lifecycle(v)!Protect(FALSE)
      <4> HIDE DEF m, l
      <4> QED
        BY <2>1, <2>4, <2>5, <3>1 DEF Lifecycle!Protect
    <3> QED
      BY <3>2 DEF Lifecycle!Next, Lifecycle!Step, Follows
  <2> QED
    BY <2>6, <2>7
<1> QED
  BY <1>3, <1>4

LEMMA ObservedMembers ==
    ASSUME NEW v, NEW s \in LifeUnit, NEW bad \in BOOLEAN, history[v].due \in Due
    PROVE  LET trips == history[v].due.control /\ bad /\ ~Tripped(s) /\ s.run
           IN  Lifecycle(v)!Observed(s, bad) =
                   [trip |-> IF trips THEN "sampled" ELSE s.trip, fault |-> s.fault,
                    breaker |-> s.breaker, gates |-> s.gates, branch |-> s.branch,
                    source |-> s.source, linkTripped |-> s.linkTripped, run |-> s.run,
                    driven |-> s.driven, tripDue |-> s.tripDue \/ trips,
                    trackDue |-> FALSE]
<1> DEFINE trips == history[v].due.control /\ bad /\ ~Tripped(s) /\ s.run
           cause == IF trips THEN "sampled" ELSE s.trip
           d == s.tripDue \/ trips
           r == [s EXCEPT !.trip = cause, !.tripDue = d, !.trackDue = FALSE]
<1>1. Lifecycle(v)!Observed(s, bad) = r
  BY DEF Lifecycle!Observed, Lifecycle!Tripped, Tripped
<1>2. /\ cause \in {"none", "restored", "overcurrent", "sampled"} /\ d \in BOOLEAN
  BY DEF LifeUnit
<1> HIDE DEF cause, d
<1>3. /\ r \in LifeUnit /\ r.trip = cause /\ r.fault = s.fault /\ r.breaker = s.breaker
      /\ r.gates = s.gates /\ r.branch = s.branch /\ r.source = s.source
      /\ r.linkTripped = s.linkTripped /\ r.run = s.run /\ r.driven = s.driven
      /\ r.tripDue = d /\ r.trackDue = FALSE
  BY <1>2 DEF LifeUnit
<1> HIDE DEF r
<1>4. r = [trip |-> cause, fault |-> s.fault,
           breaker |-> s.breaker, gates |-> s.gates, branch |-> s.branch,
           source |-> s.source, linkTripped |-> s.linkTripped, run |-> s.run,
           driven |-> s.driven, tripDue |-> d, trackDue |-> FALSE]
  BY <1>3, LifeUnitRecord
<1> QED
  BY <1>1, <1>4 DEF cause, d

LEMMA SenseFollows ==
    ASSUME IndInv, LifeInv, Sense, NEW v \in Units
    PROVE  Follows(v)
<1>1. /\ TypeOK /\ RestOK /\ TurnsInOrder /\ TypeOK' /\ history \in [Units -> History]
      /\ pc = "sense" /\ ServiceOK(v)
  BY TypesSense DEF IndInv, LifeInv, Sense
<1>2. UNCHANGED words /\ history' \in [Units -> History]
  BY <1>1, SenseOnUnit
<1>3. CASE v # Owner \/ history[v].stage = "idle"
  BY <1>1, <1>2, <1>3, SenseOnUnit, NothingMoves DEF Follows
<1>4. CASE v = Owner /\ history[v].stage # "idle"
  <2> DEFINE s == units[v]
             h == history[v]
             r == units'[v]
             l == UnitFrom(s, h)
             m == UnitFrom(r, history'[v])
             due == h.due.control
  <2>1. /\ h.stage = "sense" /\ Moved(history'[v], h, "actuate")
        /\ history'[v].aligned = (h.aligned \/ (s.trackDue /\ ~Tripped(s)))
        /\ history'[v].reports = h.reports
    BY <1>1, <1>4, SenseOnUnit
  <2>2. PICK bad \in BOOLEAN : r = Sensed(v, s, due, bad)
    BY <1>1, <1>4, SenseOnUnit, Zenon
  <2>3. /\ s \in Unit /\ r \in Unit /\ h \in History /\ history'[v] \in History
        /\ due \in BOOLEAN /\ h.due \in Due
    BY <1>1, <1>2 DEF TypeOK, History, Due
  <2>4. /\ l \in LifeUnit /\ l.trip = s.trip /\ l.fault = s.fault
        /\ l.breaker = s.breaker /\ l.gates = s.gates /\ l.branch = s.branch
        /\ l.source = h.source /\ l.linkTripped = s.linkTripped /\ l.run = s.run
        /\ l.driven = s.driven /\ l.tripDue = s.tripDue
        /\ l.trackDue = (s.trackDue /\ ~Tripped(s))
        /\ Tripped(l) <=> Tripped(s)
    BY <2>3, UnitFromFacts
  <2>5. /\ UnitOf(v) = l /\ UnitOf(v)' = m
        /\ WordsOf(v)' = WordsOf(v) /\ FormOf(v)' = FormOf(v)
    BY <1>2, UnitOfIs, WordsOfSame DEF FormOf
  <2>6. /\ history'[v].stage = "actuate" /\ history'[v].due = h.due
        /\ history'[v].command = h.command /\ history'[v].source = h.source
    BY <2>1 DEF Moved
  <2> DEFINE trips == due /\ bad /\ ~Tripped(s) /\ s.run
             ltrips == h.due.control /\ bad /\ ~Tripped(l) /\ l.run
             cause == IF trips THEN "sampled" ELSE s.trip
             lcause == IF ltrips THEN "sampled" ELSE l.trip
             d == s.tripDue \/ trips
             ld == l.tripDue \/ ltrips
             p == IF ~due \/ v \in Continuous THEN s.pending
                  ELSE IF s.run THEN "on" ELSE "off"
             k == r.trackDue /\ ~Tripped(r)
  <2>7. r = [trip |-> cause, fault |-> s.fault, breaker |-> s.breaker,
             gates |-> s.gates, run |-> s.run, branch |-> s.branch,
             linkTripped |-> s.linkTripped, driven |-> s.driven, tripDue |-> d,
             trackDue |-> FALSE, pending |-> p]
    <3> HIDE DEF s, due, r
    <3>1. Sensed(v, s, due, bad) =
            [trip |-> cause, fault |-> s.fault, breaker |-> s.breaker,
             gates |-> s.gates, run |-> s.run, branch |-> s.branch,
             linkTripped |-> s.linkTripped, driven |-> s.driven, tripDue |-> d,
             trackDue |-> FALSE, pending |-> p]
      BY <2>3, SensedMembers
    <3> QED
      BY <2>2, <3>1, Zenon
  <2>8. Lifecycle(v)!Observed(l, bad) =
            [trip |-> lcause, fault |-> l.fault, breaker |-> l.breaker,
             gates |-> l.gates, branch |-> l.branch, source |-> l.source,
             linkTripped |-> l.linkTripped, run |-> l.run, driven |-> l.driven,
             tripDue |-> ld, trackDue |-> FALSE]
    <3> HIDE DEF l
    <3> QED
      BY <2>3, <2>4, ObservedMembers
  <2>9. ltrips = trips
    <3> HIDE DEF l, s, due
    <3> QED
      BY <2>4 DEF due
  <2>10. lcause = cause /\ ld = d
    <3> HIDE DEF l, s, due, trips, ltrips
    <3> QED
      BY <2>4, <2>9
  <2>11. m = [trip |-> r.trip, fault |-> r.fault, breaker |-> r.breaker,
              gates |-> r.gates, branch |-> r.branch, source |-> history'[v].source,
              linkTripped |-> r.linkTripped, run |-> r.run, driven |-> r.driven,
              tripDue |-> r.tripDue, trackDue |-> k]
    BY DEF UnitFrom
  <2>12. p = IF due /\ v \notin Continuous THEN IF s.run THEN "on" ELSE "off" ELSE "none"
    <3>1. s.pending = "none"
      BY <1>1, <2>1 DEF ServiceOK
    <3> QED
      BY <3>1
  <2> HIDE DEF cause, lcause, d, ld, p, trips, ltrips, l, m, r, s, k, due
  <2>13. /\ r.trip = cause /\ r.fault = s.fault /\ r.breaker = s.breaker
         /\ r.gates = s.gates /\ r.run = s.run /\ r.branch = s.branch
         /\ r.linkTripped = s.linkTripped /\ r.driven = s.driven /\ r.tripDue = d
         /\ r.trackDue = FALSE /\ r.pending = p
    BY <2>7
  <2>14. k = FALSE
    BY <2>13 DEF k
  <2>15. m = Lifecycle(v)!Observed(l, bad)
    BY <2>4, <2>6, <2>8, <2>10, <2>11, <2>13, <2>14
  <2>16. history'[v].aligned = (h.aligned \/ l.trackDue)
    BY <2>1, <2>4
  <2>17. Lifecycle(v)!Sense(bad)
    <3>1. r.pending = IF h.due.control /\ ~FormOf(v).continuous
                      THEN IF l.run THEN "on" ELSE "off" ELSE "none"
      BY <2>4, <2>12, <2>13, FormFacts DEF due
    <3> QED
      BY <2>1, <2>5, <2>6, <2>15, <2>16, <3>1 DEF Lifecycle!Sense, r
  <2> QED
    BY <2>17 DEF Lifecycle!Next, Lifecycle!Step, Follows
<1> QED
  BY <1>3, <1>4

----------------------------------------------------------------------------
(***************************************************************************)
(* Actuation, as the lifecycle describes it.                               *)
(***************************************************************************)
LifeWord == [active : BOOLEAN, shadow : BOOLEAN, completed : BOOLEAN, computing : BOOLEAN]

LEMMA ActuateRegistersMembers ==
    ASSUME NEW v, NEW w \in LifeWord, NEW enabled \in BOOLEAN, NEW late \in BOOLEAN,
           late => FormOf(v).computation
    PROVE  LET c == units[v].pending # "none"
               x == units[v].pending = "on" /\ enabled
               l == history[v].due.load
               p == FormOf(v).computation
           IN  Lifecycle(v)!ActuateRegisters(w, enabled, late) =
                   [active |-> IF ~l THEN w.active
                               ELSE IF late THEN w.completed
                               ELSE IF c /\ ~p THEN x ELSE w.shadow,
                    shadow |-> IF c THEN x ELSE w.shadow,
                    completed |-> IF c THEN w.shadow ELSE w.completed,
                    computing |-> IF c /\ p THEN TRUE
                                  ELSE IF l THEN late
                                  ELSE IF c THEN FALSE ELSE w.computing]
<1> DEFINE c == units[v].pending # "none"
           x == units[v].pending = "on" /\ enabled
           l == history[v].due.load
           p == FormOf(v).computation
           W(r) == Lifecycle(v)!WriteIfPending(r, enabled)
           L(r) == Lifecycle(v)!LoadIfDue(r, late)
           goal == [active |-> IF ~l THEN w.active
                               ELSE IF late THEN w.completed
                               ELSE IF c /\ ~p THEN x ELSE w.shadow,
                    shadow |-> IF c THEN x ELSE w.shadow,
                    completed |-> IF c THEN w.shadow ELSE w.completed,
                    computing |-> IF c /\ p THEN TRUE
                                  ELSE IF l THEN late
                                  ELSE IF c THEN FALSE ELSE w.computing]
<1>1. x \in BOOLEAN /\ p \in BOOLEAN
  BY DEF FormOf
<1>2. /\ \A r : W(r) = IF c THEN [r EXCEPT !.shadow = x, !.completed = r.shadow,
                                           !.computing = p]
                       ELSE r
      /\ \A r : L(r) = IF l THEN [r EXCEPT !.active = IF late THEN r.completed ELSE r.shadow,
                                           !.computing = late]
                       ELSE r
  BY DEF Lifecycle!WriteIfPending, Lifecycle!Write, Lifecycle!LoadIfDue, Lifecycle!Load
<1>3. Lifecycle(v)!ActuateRegisters(w, enabled, late) = IF p THEN W(L(w)) ELSE L(W(w))
  BY DEF Lifecycle!ActuateRegisters
<1> HIDE DEF x, p, c, l, W, L
<1>4. \A r \in LifeWord :
         /\ W(r) = [active |-> r.active, shadow |-> IF c THEN x ELSE r.shadow,
                    completed |-> IF c THEN r.shadow ELSE r.completed,
                    computing |-> IF c THEN p ELSE r.computing]
         /\ L(r) = [active |-> IF ~l THEN r.active
                               ELSE IF late THEN r.completed ELSE r.shadow,
                    shadow |-> r.shadow, completed |-> r.completed,
                    computing |-> IF l THEN late ELSE r.computing]
  BY <1>1, <1>2 DEF LifeWord
<1>5. \A r \in LifeWord :
         /\ W(r) \in LifeWord /\ L(r) \in LifeWord
         /\ W(r).active = r.active
         /\ W(r).shadow = IF c THEN x ELSE r.shadow
         /\ W(r).completed = IF c THEN r.shadow ELSE r.completed
         /\ W(r).computing = IF c THEN p ELSE r.computing
         /\ L(r).active = IF ~l THEN r.active ELSE IF late THEN r.completed ELSE r.shadow
         /\ L(r).shadow = r.shadow /\ L(r).completed = r.completed
         /\ L(r).computing = IF l THEN late ELSE r.computing
  BY <1>1, <1>4 DEF LifeWord
<1>6. CASE p
  <2>1. W(L(w)) = [active |-> L(w).active, shadow |-> IF c THEN x ELSE L(w).shadow,
                   completed |-> IF c THEN L(w).shadow ELSE L(w).completed,
                   computing |-> IF c THEN p ELSE L(w).computing]
    BY <1>4, <1>5
  <2>2. W(L(w)) = goal
    BY <1>1, <1>5, <1>6, <2>1
  <2> QED
    BY <1>3, <1>6, <2>2 DEF p, l, x, c
<1>7. CASE ~p
  <2>1. L(W(w)) = [active |-> IF ~l THEN W(w).active
                               ELSE IF late THEN W(w).completed ELSE W(w).shadow,
                    shadow |-> W(w).shadow, completed |-> W(w).completed,
                    computing |-> IF l THEN late ELSE W(w).computing]
    BY <1>4, <1>5
  <2>2. ~late /\ p = FALSE
    BY <1>1, <1>7 DEF p
  <2>3. L(W(w)) = goal
    BY <1>1, <1>5, <1>7, <2>1, <2>2
  <2> QED
    BY <1>3, <1>7, <2>3 DEF p, l, x, c
<1> QED
  BY <1>6, <1>7

\* The load of this instant finds the latest computation still running.
Late(v) == /\ Computation[v] > 0 /\ t = LoadTime(v) /\ ~Completed(v)
           /\ words[v].active.stamp # words[v].shadow.stamp

LEMMA RegistersFollow ==
    ASSUME TypeOK, LastServed, NEW v \in Sampled, words[v] \in Registered, WordsOK(v),
           NEW enabled \in BOOLEAN,
           Stage(v, Settled(v), Settled(v).pending = "on") <=>
               units[v].pending = "on" /\ enabled,
           units[v].pending # "none" <=> t = NextTime(v),
           history[v].due.load <=> t = LoadTime(v),
           words'[v] = Loaded(v)
    PROVE  /\ WordsOf(v)' = Lifecycle(v)!ActuateRegisters(WordsOf(v), enabled, Late(v))
           /\ Late(v) => FormOf(v).computation /\ WordsOf(v).computing
<1> DEFINE w == words[v]
           r == Loaded(v)
           k == clock[v]
           c == t = NextTime(v)
           l == t = LoadTime(v)
           x == units[v].pending = "on" /\ enabled
           on == Stage(v, Settled(v), Settled(v).pending = "on")
           p == Computation[v] > 0
           late == Late(v)
           first == FirstOf(v)
           W == WordsOf(v)
<1>1. /\ k \in Int /\ first \in Int /\ Computation[v] \in Nat
      /\ (Computation[v] = 0 <=> ~p)
  <2>1. v \in Owners
    BY DEF Sampled, Owners
  <2>2. first \in Int
    BY <2>1, Constants, FirstService DEF FirstOf
  <2> QED
    BY <2>1, <2>2, Constants, Times
<1>2. on \in BOOLEAN /\ on = x
  BY DEF Stage
<1>3. /\ r \in Registered
      /\ r.shadow = IF c THEN [on |-> on, stamp |-> k] ELSE w.shadow
      /\ r.completed = IF c THEN w.shadow ELSE w.completed
      /\ r.active = IF ~l THEN w.active
                    ELSE IF Computation[v] = 0 THEN r.shadow
                    ELSE IF Completed(v) THEN w.shadow ELSE w.completed
  <2> HIDE DEF on, r
  <2>1. r = Registers(v, words[v], on)
    BY DEF r, on, Loaded
  <2> QED
    BY <1>2, <2>1, RegistersFacts
<1>4. /\ first <= k /\ w.shadow.stamp = k - 1 /\ w.active.stamp <= k - 1
      /\ k = first => w.active = w.shadow /\ w.completed = w.shadow
      /\ k > first => /\ w.completed.stamp = k - 2
                      /\ w.active.stamp = k - 1 => Completed(v)
      /\ w \in Registered /\ w.active.stamp \in Int /\ w.completed.stamp \in Int
  BY DEF WordsOK, Completed, Registered, Word
<1>5. v \notin Continuous /\ (FormOf(v).computation <=> p) /\ FormOf(v).computation \in BOOLEAN
  BY DEF Sampled, FormOf
<1>6. /\ W = [active |-> w.active.on, shadow |-> w.shadow.on, completed |-> w.completed.on,
              computing |-> p /\ w.active.stamp # w.shadow.stamp]
      /\ W' = [active |-> r.active.on, shadow |-> r.shadow.on, completed |-> r.completed.on,
               computing |-> p /\ r.active.stamp # r.shadow.stamp]
  BY <1>5 DEF WordsOf
<1>7. late <=> p /\ l /\ ~Completed(v) /\ w.active.stamp # w.shadow.stamp
  BY DEF Late
<1>8. late \in BOOLEAN
  BY DEF Late
<1> DEFINE q == p /\ w.active.stamp # w.shadow.stamp
           q2 == p /\ r.active.stamp # r.shadow.stamp
<1> HIDE DEF w, r, k, c, l, x, on, p, late, first, W
<1>9. /\ W \in LifeWord /\ W.active = w.active.on /\ W.shadow = w.shadow.on
      /\ W.completed = w.completed.on /\ W.computing = q
  <2>1. /\ w.active.on \in BOOLEAN /\ w.shadow.on \in BOOLEAN /\ w.completed.on \in BOOLEAN
        /\ q \in BOOLEAN
    BY <1>4 DEF Registered, Word
  <2>2. W = [active |-> w.active.on, shadow |-> w.shadow.on, completed |-> w.completed.on,
              computing |-> q]
    BY <1>6
  <2> HIDE DEF q
  <2> QED
    BY <2>1, <2>2 DEF LifeWord
<1>10. Lifecycle(v)!ActuateRegisters(W, enabled, late) =
          [active |-> IF ~l THEN W.active
                      ELSE IF late THEN W.completed
                      ELSE IF c /\ ~p THEN x ELSE W.shadow,
           shadow |-> IF c THEN x ELSE W.shadow,
           completed |-> IF c THEN W.shadow ELSE W.completed,
           computing |-> IF c /\ p THEN TRUE
                         ELSE IF l THEN late
                         ELSE IF c THEN FALSE ELSE W.computing]
  <2>1. late => FormOf(v).computation
    BY <1>5, <1>7
  <2>2. Lifecycle(v)!ActuateRegisters(W, enabled, late) =
          [active |-> IF ~(history[v].due.load) THEN W.active
                      ELSE IF late THEN W.completed
                      ELSE IF (units[v].pending # "none") /\ ~FormOf(v).computation
                           THEN units[v].pending = "on" /\ enabled ELSE W.shadow,
           shadow |-> IF (units[v].pending # "none")
                      THEN units[v].pending = "on" /\ enabled ELSE W.shadow,
           completed |-> IF (units[v].pending # "none") THEN W.shadow ELSE W.completed,
           computing |-> IF (units[v].pending # "none") /\ FormOf(v).computation THEN TRUE
                         ELSE IF history[v].due.load THEN late
                         ELSE IF (units[v].pending # "none") THEN FALSE ELSE W.computing]
    BY <1>8, <1>9, <2>1, ActuateRegistersMembers
  <2> QED
    BY <1>5, <2>2 DEF c, l, x
<1>11. w.active.stamp = w.shadow.stamp /\ ~Completed(v) => w.completed = w.shadow
  BY <1>1, <1>4
<1>12. w.active.stamp # w.shadow.stamp => w.completed.stamp # w.shadow.stamp
  BY <1>1, <1>4
<1>13. c => r.shadow.on = x /\ r.shadow.stamp = k
  BY <1>2, <1>3
<1>14. w.completed.stamp <= k - 1
  BY <1>1, <1>4
<1>15. r.active.on = IF ~l THEN W.active
                     ELSE IF late THEN W.completed
                     ELSE IF c /\ ~p THEN x ELSE W.shadow
  BY <1>1, <1>3, <1>7, <1>9, <1>11, <1>13
<1>16. /\ r.shadow.on = IF c THEN x ELSE W.shadow
       /\ r.completed.on = IF c THEN W.shadow ELSE W.completed
  BY <1>3, <1>9, <1>13
<1>17. q2 = IF c /\ p THEN TRUE ELSE IF l THEN late ELSE IF c THEN FALSE ELSE W.computing
  <2>1. CASE ~p
    <3>1. ~q2 /\ ~q /\ ~late
      BY <1>7, <2>1
    <3> HIDE DEF q2, q
    <3> QED
      BY <1>8, <1>9, <2>1, <3>1 DEF q2, q
  <2>2. CASE p /\ c
    <3>1. r.active.stamp <= k - 1
      BY <1>1, <1>3, <1>4, <1>14, <2>2
    <3>2. r.active.stamp # k
      BY <1>1, <3>1
    <3> QED
      BY <1>13, <2>2, <3>2
  <2>3. CASE p /\ ~c /\ l
    <3>1. r.shadow = w.shadow
      BY <1>3, <2>3
    <3>2. r.active = IF Completed(v) THEN w.shadow ELSE w.completed
      BY <1>1, <1>3, <2>3
    <3>3. q2 <=> late
      BY <1>7, <1>11, <1>12, <2>3, <3>1, <3>2
    <3> QED
      BY <1>8, <2>3, <3>3
  <2>4. CASE p /\ ~c /\ ~l
    BY <1>3, <1>9, <2>4
  <2> QED
    BY <2>1, <2>2, <2>3, <2>4
<1>18. W' = Lifecycle(v)!ActuateRegisters(W, enabled, late)
  <2>1. W' = [active |-> r.active.on, shadow |-> r.shadow.on, completed |-> r.completed.on,
               computing |-> q2]
    BY <1>6
  <2> HIDE DEF q2
  <2> QED
    BY <1>10, <1>15, <1>16, <1>17, <2>1
<1> QED
  BY <1>5, <1>7, <1>9, <1>18 DEF W, late

LEMMA SettledIs ==
    ASSUME NEW v \in Units, units[v] \in Unit, units[v].tripDue => Tripped(units[v]),
           ~units[v].trackDue, NEW h \in History, NEW h2 \in History, h2.source = h.source
    PROVE  LET l == UnitFrom(units[v], h)
           IN  UnitFrom(Settled(v), h2) =
                   IF l.tripDue THEN Lifecycle(v)!Shutdown(l) ELSE l
<1> DEFINE a == units[v]
           s == Settled(v)
           l == UnitFrom(a, h)
           m == UnitFrom(s, h2)
           e == l.driven /\ (v \notin Unfiltered \/ v \in Continuous)
<1>1. /\ a \in Unit /\ s \in Unit /\ s.trip = a.trip /\ s.fault = a.fault
      /\ s.breaker = (a.breaker /\ ~a.tripDue) /\ s.gates = (a.gates /\ ~a.tripDue)
      /\ s.run = (a.run /\ ~a.tripDue) /\ s.branch = (a.branch /\ ~a.tripDue)
      /\ s.linkTripped = (a.linkTripped \/ a.tripDue)
      /\ s.driven = (a.driven /\ (a.tripDue => v \notin Unfiltered))
      /\ s.tripDue = FALSE /\ s.trackDue = a.trackDue
      /\ ~a.tripDue => s = a
  BY SettledFacts
<1>2. a.trackDue = FALSE /\ (v \in Continuous => v \notin Unfiltered)
  BY <1>1, ProgramAssumption DEF Unit, Sampled
<1> HIDE DEF a, s
<1>3. /\ l \in LifeUnit /\ l.trip = a.trip /\ l.fault = a.fault
      /\ l.source = h.source /\ l.driven = a.driven /\ l.tripDue = a.tripDue
      /\ l.breaker = a.breaker /\ l.gates = a.gates /\ l.branch = a.branch
      /\ l.linkTripped = a.linkTripped /\ l.run = a.run
      /\ l.trackDue = (a.trackDue /\ ~Tripped(a))
  BY <1>1, UnitFromFacts
<1>4. /\ m \in LifeUnit /\ m.trip = s.trip /\ m.fault = s.fault
      /\ m.breaker = s.breaker /\ m.gates = s.gates /\ m.branch = s.branch
      /\ m.source = h2.source /\ m.linkTripped = s.linkTripped /\ m.run = s.run
      /\ m.driven = s.driven /\ m.tripDue = s.tripDue
      /\ m.trackDue = (s.trackDue /\ ~Tripped(s))
  BY <1>1, UnitFromFacts
<1> HIDE DEF l, m
<1>5. CASE a.tripDue
  <2>1. Lifecycle(v)!Shutdown(l) =
            [trip |-> l.trip, fault |-> l.fault, breaker |-> FALSE, gates |-> FALSE,
             branch |-> FALSE, source |-> l.source, linkTripped |-> TRUE, run |-> FALSE,
             driven |-> e, tripDue |-> FALSE, trackDue |-> FALSE]
    BY <1>3, ShutdownMembers
  <2>2. m = [trip |-> m.trip, fault |-> m.fault, breaker |-> m.breaker,
             gates |-> m.gates, branch |-> m.branch, source |-> m.source,
             linkTripped |-> m.linkTripped, run |-> m.run, driven |-> m.driven,
             tripDue |-> m.tripDue, trackDue |-> m.trackDue]
    BY <1>4, LifeUnitRecord
  <2>3. m.driven = e
    BY <1>1, <1>2, <1>3, <1>4, <1>5
  <2>4. /\ m.trip = l.trip /\ m.fault = l.fault /\ m.breaker = FALSE /\ m.gates = FALSE
        /\ m.branch = FALSE /\ m.source = l.source /\ m.linkTripped = TRUE
        /\ m.run = FALSE /\ m.tripDue = FALSE /\ m.trackDue = FALSE
    BY <1>1, <1>2, <1>3, <1>4, <1>5
  <2> HIDE DEF e
  <2>5. m = Lifecycle(v)!Shutdown(l)
    BY <2>1, <2>2, <2>3, <2>4
  <2> QED
    BY <1>3, <1>5, <2>5 DEF m, l, a, s
<1>6. CASE ~a.tripDue
  <2>1. s = a
    BY <1>1, <1>6
  <2>2. m = l
    BY <2>1 DEF m, l, UnitFrom
  <2> QED
    BY <1>3, <1>6, <2>2 DEF m, l, a, s
<1> QED
  BY <1>5, <1>6

LEMMA ActuatedMembers ==
    ASSUME NEW v \in Units, NEW s \in LifeUnit, NEW active \in BOOLEAN, NEW enabled \in BOOLEAN,
           enabled => ~Tripped(s) /\ (v \notin Unfiltered \/ s.breaker),
           s.branch <=> v \notin Unfiltered /\ s.breaker /\ s.gates /\ ~Tripped(s),
           history[v].due.edge \in BOOLEAN
    PROVE  LET on == active /\ enabled
           IN  Lifecycle(v)!Actuated(s, active, enabled) =
                   [trip |-> s.trip, fault |-> s.fault, breaker |-> s.breaker, gates |-> on,
                    branch |-> v \notin Unfiltered /\ s.breaker /\ on /\ ~Tripped(s),
                    source |-> s.source, linkTripped |-> s.linkTripped, run |-> s.run,
                    driven |-> (s.driven \/ history[v].due.edge)
                               /\ (v \notin Unfiltered \/ on),
                    tripDue |-> s.tripDue, trackDue |-> s.trackDue]
<1> DEFINE on == active /\ enabled
           edge == history[v].due.edge
           f == FormOf(v).filtered
           branch == v \notin Unfiltered /\ s.breaker /\ on /\ ~Tripped(s)
           driven == (s.driven \/ edge) /\ (v \notin Unfiltered \/ on)
           g == IF on # s.gates THEN Lifecycle(v)!SetGates(s, on) ELSE s
           gon == on /\ ~Tripped(s) /\ (v \notin Unfiltered \/ s.breaker)
           gbranch == v \notin Unfiltered /\ s.breaker /\ gon /\ ~Tripped(s)
           gdriven == s.driven /\ (v \notin Unfiltered \/ v \in Continuous \/ gon)
           d == (g.driven \/ edge) /\ (f \/ g.gates)
<1>1. Lifecycle(v)!Actuated(s, active, enabled) = [g EXCEPT !.driven = d]
  BY DEF Lifecycle!Actuated
<1>2. on \in BOOLEAN /\ gon = on /\ gbranch = branch /\ f = (v \notin Unfiltered)
      /\ s.driven \in BOOLEAN /\ edge \in BOOLEAN /\ s.gates \in BOOLEAN
      /\ gdriven \in BOOLEAN /\ branch \in BOOLEAN /\ (s.gates = on => s.branch = branch)
  BY DEF FormOf, LifeUnit
<1>3. Lifecycle(v)!SetGates(s, on) =
                   [trip |-> s.trip, fault |-> s.fault, breaker |-> s.breaker,
                    gates |-> gon, branch |-> gbranch, source |-> s.source,
                    linkTripped |-> s.linkTripped, run |-> s.run, driven |-> gdriven,
                    tripDue |-> s.tripDue, trackDue |-> s.trackDue]
  BY <1>2, SetGatesMembers
<1>4. (gdriven \/ edge) /\ (f \/ on) <=> driven
  BY <1>2
<1>5. (s.driven \/ edge) /\ (f \/ on) <=> driven
  BY <1>2
<1>6. driven \in BOOLEAN
  BY <1>2
<1> HIDE DEF on, edge, f, branch, driven, gon, gbranch, gdriven
<1>7. /\ g \in LifeUnit /\ g.trip = s.trip /\ g.fault = s.fault /\ g.breaker = s.breaker
      /\ g.gates = on /\ g.branch = branch /\ g.source = s.source
      /\ g.linkTripped = s.linkTripped /\ g.run = s.run
      /\ g.driven \in {gdriven, s.driven}
      /\ g.tripDue = s.tripDue /\ g.trackDue = s.trackDue
  <2>1. CASE on # s.gates
    BY <1>2, <1>3, <2>1 DEF LifeUnit
  <2>2. CASE on = s.gates
    BY <1>2, <2>2
  <2> QED
    BY <2>1, <2>2
<1> HIDE DEF g
<1>8. d = driven
  BY <1>2, <1>4, <1>5, <1>6, <1>7
<1> HIDE DEF d
<1>9. [g EXCEPT !.driven = d] =
          [trip |-> g.trip, fault |-> g.fault, breaker |-> g.breaker, gates |-> g.gates,
           branch |-> g.branch, source |-> g.source, linkTripped |-> g.linkTripped,
           run |-> g.run, driven |-> d, tripDue |-> g.tripDue, trackDue |-> g.trackDue]
  BY <1>7 DEF LifeUnit
<1>10. Lifecycle(v)!Actuated(s, active, enabled) =
          [trip |-> s.trip, fault |-> s.fault, breaker |-> s.breaker, gates |-> on,
           branch |-> branch, source |-> s.source, linkTripped |-> s.linkTripped,
           run |-> s.run, driven |-> driven, tripDue |-> s.tripDue, trackDue |-> s.trackDue]
  BY <1>1, <1>7, <1>8, <1>9
<1> QED
  BY <1>10 DEF on, branch, driven, edge

\* The service of a unit after the trip that its sense left.
LEMMA SettledServed ==
    ASSUME NEW v \in Units, units[v] \in Unit, units[v].tripDue => Tripped(units[v]),
           ServiceOK(v)
    PROVE  LET s == Settled(v)
           IN  /\ s.branch <=> BranchOf(v, s)
               /\ v \in Sampled => (s.gates <=> Stage(v, s, words[v].active.on))
               /\ v \in Unfiltered /\ s.driven => s.gates
<1> DEFINE s == Settled(v)
           a == units[v]
<1>1. /\ s.trip = a.trip /\ s.gates = (a.gates /\ ~a.tripDue)
      /\ s.branch = (a.branch /\ ~a.tripDue)
      /\ s.driven = (a.driven /\ (a.tripDue => v \notin Unfiltered))
      /\ ~a.tripDue => s = a
  BY SettledFacts
<1>2. /\ ~a.tripDue => /\ a.branch <=> BranchOf(v, a)
                       /\ v \in Sampled => (a.gates <=> Stage(v, a, words[v].active.on))
      /\ v \in Unfiltered /\ a.driven => a.gates
      /\ a.tripDue => Tripped(a)
  BY DEF ServiceOK
<1> HIDE DEF s, a
<1>3. CASE a.tripDue
  <2>1. Tripped(s)
    BY <1>1, <1>2, <1>3 DEF Tripped
  <2> QED
    BY <1>1, <1>3, <2>1 DEF BranchOf, Stage, s
<1>4. CASE ~a.tripDue
  BY <1>1, <1>2, <1>4 DEF s
<1> QED
  BY <1>3, <1>4

\* The bridge of a sampled unit after its registers.
LEMMA BridgeFollows ==
    ASSUME TypeOK, RestOK, LastServed, UnitsInv, NEW v \in Sampled, ServiceOK(v),
           NEW h \in History, NEW enabled \in BOOLEAN,
           enabled <=> (v \notin Unfiltered \/ units[v].breaker) /\ ~Tripped(Settled(v)),
           history[v].due = DueAt(v, t),
           Loaded(v) \in Registered,
           t # LoadTime(v) => Loaded(v).active = words[v].active,
           ~units[v].trackDue
    PROVE  UnitFrom(Acted(v), h) =
               Lifecycle(v)!Actuated(UnitFrom(Settled(v), h), Loaded(v).active.on, enabled)
<1> DEFINE a == units[v]
           s == Settled(v)
           r == Acted(v)
           l == UnitFrom(s, h)
           m == UnitFrom(r, h)
           loads == t = LoadTime(v)
           bit == Loaded(v).active.on
           on == bit /\ enabled
           edge == history[v].due.edge
           gates == Stage(v, s, bit)
           branch == v \notin Unfiltered /\ l.breaker /\ on /\ ~Tripped(l)
           driven == (l.driven \/ edge) /\ (v \notin Unfiltered \/ on)
<1>1. /\ v \in Units /\ a \in Unit /\ (a.tripDue => Tripped(a)) /\ bit \in BOOLEAN
      /\ words[v] \in Registered /\ words[v].active.on \in BOOLEAN
  BY DEF Sampled, TypeOK, UnitsInv, Registered, Word, RestOK
<1>2. /\ s \in Unit /\ s.trip = a.trip /\ s.breaker = (a.breaker /\ ~a.tripDue)
      /\ s.tripDue = FALSE /\ s.trackDue = FALSE
  BY <1>1, SettledFacts DEF Unit
<1>3. /\ s.branch <=> BranchOf(v, s)
      /\ s.gates <=> Stage(v, s, words[v].active.on)
      /\ v \in Unfiltered /\ s.driven => s.gates
  BY <1>1, SettledServed
<1>4. /\ edge \in BOOLEAN /\ (edge <=> loads)
  BY <1>1, DueFacts DEF Due
<1>5. enabled => ~Tripped(s) /\ (v \notin Unfiltered \/ s.breaker)
  BY <1>1, <1>2 DEF Tripped
<1>6. \A x \in BOOLEAN : Stage(v, s, x) <=> x /\ enabled
  BY <1>1, <1>2 DEF Stage, Tripped
<1>7. ~loads => bit = words[v].active.on
  OBVIOUS
<1>8. /\ r \in Unit /\ r.trip = s.trip /\ r.fault = s.fault
      /\ r.breaker = s.breaker /\ r.run = s.run
      /\ r.linkTripped = s.linkTripped /\ r.tripDue = FALSE
      /\ r.trackDue = s.trackDue
      /\ r.gates = IF loads THEN gates ELSE s.gates
      /\ r.branch = IF loads
                    THEN v \notin Unfiltered /\ s.breaker /\ gates /\ ~Tripped(s)
                    ELSE s.branch
      /\ r.driven = IF loads THEN v \in Unfiltered => gates ELSE s.driven
  BY ActedFacts
<1>9. gates \in BOOLEAN
  BY DEF Stage
<1>10. gates = on
  BY <1>1, <1>6, <1>9
<1>11. ~loads => s.gates = on
  BY <1>1, <1>2, <1>3, <1>6, <1>7 DEF Unit
<1> HIDE DEF a, s, r, loads, bit, edge, gates
<1>12. /\ l \in LifeUnit /\ l.trip = s.trip /\ l.fault = s.fault
       /\ l.breaker = s.breaker /\ l.gates = s.gates /\ l.branch = s.branch
       /\ l.source = h.source /\ l.linkTripped = s.linkTripped /\ l.run = s.run
       /\ l.driven = s.driven /\ l.tripDue = s.tripDue
       /\ l.trackDue = (s.trackDue /\ ~Tripped(s)) /\ (Tripped(l) <=> Tripped(s))
  BY <1>2, UnitFromFacts
<1>13. /\ m \in LifeUnit /\ m.trip = r.trip /\ m.fault = r.fault
       /\ m.breaker = r.breaker /\ m.gates = r.gates /\ m.branch = r.branch
       /\ m.source = h.source /\ m.linkTripped = r.linkTripped /\ m.run = r.run
       /\ m.driven = r.driven /\ m.tripDue = r.tripDue
       /\ m.trackDue = (r.trackDue /\ ~Tripped(r))
  BY <1>8, UnitFromFacts
<1>14. m = [trip |-> m.trip, fault |-> m.fault, breaker |-> m.breaker,
                gates |-> m.gates, branch |-> m.branch, source |-> m.source,
                linkTripped |-> m.linkTripped, run |-> m.run, driven |-> m.driven,
                tripDue |-> m.tripDue, trackDue |-> m.trackDue]
  BY <1>13, LifeUnitRecord
<1> HIDE DEF l, m
<1>15. Lifecycle(v)!Actuated(l, bit, enabled) =
           [trip |-> l.trip, fault |-> l.fault, breaker |-> l.breaker, gates |-> on,
            branch |-> branch, source |-> l.source, linkTripped |-> l.linkTripped,
            run |-> l.run, driven |-> driven, tripDue |-> l.tripDue,
            trackDue |-> l.trackDue]
  <2>1. l.branch <=> v \notin Unfiltered /\ l.breaker /\ l.gates /\ ~Tripped(l)
    BY <1>3, <1>12 DEF BranchOf
  <2>2. history[v].due.edge \in BOOLEAN
    BY <1>4 DEF edge
  <2>3. enabled => ~Tripped(l) /\ (v \notin Unfiltered \/ l.breaker)
    BY <1>5, <1>12
  <2>4. Lifecycle(v)!Actuated(l, bit, enabled) =
           [trip |-> l.trip, fault |-> l.fault, breaker |-> l.breaker, gates |-> on,
            branch |-> v \notin Unfiltered /\ l.breaker /\ on /\ ~Tripped(l),
            source |-> l.source, linkTripped |-> l.linkTripped, run |-> l.run,
            driven |-> (l.driven \/ history[v].due.edge) /\ (v \notin Unfiltered \/ on),
            tripDue |-> l.tripDue, trackDue |-> l.trackDue]
    BY <1>1, <1>12, <2>1, <2>2, <2>3, ActuatedMembers
  <2> QED
    BY <2>4 DEF edge
<1>16. m.gates = on
  BY <1>8, <1>10, <1>11, <1>13
<1>17. m.branch = branch
  <2>1. m.branch <=> v \notin Unfiltered /\ s.breaker /\ on /\ ~Tripped(s)
    BY <1>3, <1>8, <1>10, <1>11, <1>13 DEF BranchOf
  <2> HIDE DEF on
  <2> QED
    BY <1>12, <1>13, <2>1 DEF LifeUnit
<1>18. m.driven = driven
  <2>1. m.driven <=> driven
    <3> HIDE DEF on
    <3>1. CASE loads
      BY <1>4, <1>8, <1>10, <1>13, <3>1
    <3>2. CASE ~loads
      BY <1>3, <1>4, <1>8, <1>11, <1>12, <1>13, <3>2
    <3> QED
      BY <3>1, <3>2
  <2>2. m.driven \in BOOLEAN /\ driven \in BOOLEAN
    BY <1>13 DEF LifeUnit
  <2> HIDE DEF driven
  <2> QED
    BY <2>1, <2>2
<1> HIDE DEF on, branch, driven
<1>19. /\ m.trip = l.trip /\ m.fault = l.fault /\ m.breaker = l.breaker
       /\ m.source = l.source /\ m.linkTripped = l.linkTripped /\ m.run = l.run
       /\ m.tripDue = l.tripDue /\ m.trackDue = l.trackDue
  BY <1>2, <1>8, <1>12, <1>13
<1>20. m = Lifecycle(v)!Actuated(l, bit, enabled)
  BY <1>14, <1>15, <1>16, <1>17, <1>18, <1>19
<1> QED
  BY <1>20 DEF m, l, r, s, bit

LEMMA ActuateFollows ==
    ASSUME IndInv, LifeInv, Actuate, NEW v \in Units
    PROVE  Follows(v)
<1>1. /\ TypeOK /\ RestOK /\ UnitsInv /\ LastServed /\ pc = "actuate"
      /\ history \in [Units -> History]
      /\ ServiceOK(v) /\ (v \in Sampled => WordsOK(v) /\ words[v] \in Registered)
  BY DEF IndInv, Kept, Timely, Actuate, LifeInv, RestOK
<1>2. history' \in [Units -> History]
  BY ActuateOnUnit
<1>3. CASE v # Owner \/ history[v].stage = "idle"
  BY <1>3, ActuateOnUnit, NothingMoves DEF Follows
<1>4. CASE v = Owner /\ history[v].stage # "idle"
  <2> DEFINE a == units[v]
             s == Settled(v)
             h == history[v]
             h2 == history'[v]
             l == UnitOf(v)
             S == IF l.tripDue THEN Lifecycle(v)!Shutdown(l) ELSE l
             enabled == (FormOf(v).filtered \/ l.breaker) /\ ~Lifecycle(v)!Tripped(S)
  <2>1. /\ h.stage = "actuate" /\ units'[v] = Acted(v)
        /\ v \in Sampled => words'[v] = Loaded(v) /\ h.due = DueAt(v, t)
        /\ h2.stage = "idle" /\ h2.due = NothingDue
        /\ h2.command = h.command /\ h2.source = h.source /\ h2.aligned = h.aligned
        /\ h2.reports = IF a.tripDue THEN h.reports + 1 ELSE h.reports
    BY <1>4, ActuateOnUnit DEF Moved
  <2>2. /\ a \in Unit /\ (a.tripDue => Tripped(a)) /\ ~a.trackDue
        /\ h \in History /\ h2 \in History
    BY <1>1, <1>2 DEF TypeOK, UnitsInv
  <2>3. /\ s \in Unit /\ s.trip = a.trip /\ s.pending = a.pending
        /\ s.breaker = (a.breaker /\ ~a.tripDue)
    BY <2>2, SettledFacts
  <2>4. l = UnitFrom(a, h) /\ l.tripDue = a.tripDue /\ l.breaker = a.breaker
    <3>1. l = UnitFrom(a, h)
      BY UnitOfIs
    <3> QED
      BY <2>2, <3>1, UnitFromFacts
  <2>5. UnitFrom(s, h2) = S
    <3>1. UnitFrom(s, h2) = IF UnitFrom(a, h).tripDue
                            THEN Lifecycle(v)!Shutdown(UnitFrom(a, h))
                            ELSE UnitFrom(a, h)
      BY <2>1, <2>2, SettledIs
    <3> QED
      BY <2>4, <3>1
  <2>6. Lifecycle(v)!Tripped(S) <=> Tripped(s)
    <3>1. Tripped(UnitFrom(s, h2)) <=> Tripped(s)
      BY <2>2, <2>3, UnitFromFacts
    <3> QED
      BY <2>5, <3>1 DEF Lifecycle!Tripped, Tripped
  <2>7. UnitOf(v)' = UnitFrom(Acted(v), h2)
    BY <2>1, UnitOfIs
  <2>8. FormOf(v)' = FormOf(v) /\ NothingDue = Lifecycle(v)!NothingDue
    BY DueInLife DEF FormOf
  <2>9. CASE v \in Continuous
    <3>1. v \notin Sampled /\ Acted(v) = s
      BY <2>9 DEF Sampled, Acted
    <3>2. units'[v].pending = "none"
      BY <1>1, <2>1, <2>3, <3>1 DEF ServiceOK
    <3>3. WordsOf(v)' = WordsOf(v)
      BY <3>1, WordsOfSame
    <3>4. UnitOf(v)' = S
      BY <2>5, <2>7, <3>1
    <3> HIDE DEF l, h, h2, s, a
    <3>5. Lifecycle(v)!Actuate(FALSE)
      BY <2>1, <2>4, <2>8, <2>9, <3>2, <3>3, <3>4, FormFacts
         DEF Lifecycle!Actuate, l, h, h2
    <3> QED
      BY <3>5 DEF Follows, Lifecycle!Next, Lifecycle!Step
  <2>10. CASE v \in Sampled
    <3> DEFINE on == Stage(v, s, s.pending = "on")
    <3>1. enabled \in BOOLEAN
          /\ (enabled <=> (v \notin Unfiltered \/ a.breaker) /\ ~Tripped(s))
      BY <2>4, <2>6, FormFacts DEF FormOf
    <3>2. on <=> a.pending = "on" /\ enabled
      BY <2>2, <2>3, <3>1 DEF Stage, Tripped
    <3>3. /\ a.pending # "none" <=> t = NextTime(v)
          /\ h.due.load <=> t = LoadTime(v)
      BY <1>1, <2>1, <2>10, DueFacts DEF ServiceOK
    <3> HIDE DEF enabled
    <3>4. /\ WordsOf(v)' = Lifecycle(v)!ActuateRegisters(WordsOf(v), enabled, Late(v))
          /\ Late(v) => FormOf(v).computation /\ WordsOf(v).computing
      BY <1>1, <2>1, <2>10, <3>1, <3>2, <3>3, RegistersFollow
    <3>5. /\ Loaded(v) \in Registered
          /\ t # LoadTime(v) => Loaded(v).active = words[v].active
      <4>1. on \in BOOLEAN /\ Loaded(v) = Registers(v, words[v], on)
        BY DEF Stage, Loaded
      <4> HIDE DEF on, s, a, h, h2, l, enabled
      <4>2. /\ Registers(v, words[v], on) \in Registered
            /\ t # LoadTime(v) => Registers(v, words[v], on).active = words[v].active
        BY <1>1, <2>10, <4>1, RegistersFacts
      <4> QED
        BY <4>1, <4>2
    <3>6. WordsOf(v)'.active = Loaded(v).active.on
      <4>1. v \notin Continuous
        BY <2>10 DEF Sampled
      <4> QED
        BY <2>1, <2>10, <4>1 DEF WordsOf
    <3>7. UnitOf(v)' = Lifecycle(v)!Actuated(S, WordsOf(v)'.active, enabled)
      <4>1. UnitFrom(Acted(v), h2) =
               Lifecycle(v)!Actuated(UnitFrom(s, h2), Loaded(v).active.on, enabled)
        BY <1>1, <2>1, <2>2, <2>10, <3>1, <3>5, BridgeFollows
      <4> QED
        BY <2>5, <2>7, <3>6, <4>1
    <3>8. units'[v].pending = "none"
      <4>1. Acted(v).pending = IF t = NextTime(v) THEN "none" ELSE s.pending
        BY <1>1, <2>10, ActedFacts
      <4> QED
        BY <2>1, <2>3, <3>3, <4>1
    <3>9. ~FormOf(v).continuous
      BY <2>10, FormFacts DEF Sampled
    <3>10. Late(v) \in BOOLEAN /\ (Late(v) => h.due.load)
      BY <3>3 DEF Late
    <3> HIDE DEF l, h, h2, s, a
    <3>11. Lifecycle(v)!Actuate(Late(v))
      BY <2>1, <2>4, <2>8, <3>4, <3>7, <3>8, <3>9, <3>10
         DEF Lifecycle!Actuate, l, h, h2, enabled
    <3> QED
      BY <3>10, <3>11 DEF Follows, Lifecycle!Next, Lifecycle!Step
  <2> QED
    BY <2>9, <2>10 DEF Sampled
<1> QED
  BY <1>3, <1>4

LEMMA LogFollows ==
    ASSUME Log \/ UNCHANGED vars, NEW v \in Units
    PROVE  Follows(v)
BY NothingMoves DEF Log, vars, Follows

----------------------------------------------------------------------------
(***************************************************************************)
(* The registers of a sampled unit are a delay line.                       *)
(***************************************************************************)
DelayFollows(v) == [Delay(v)!Load]_(Delay(v)!vars)

LEMMA DelayRests ==
    ASSUME NEW v, load'[v] = load[v], words'[v].active = words[v].active
    PROVE  DelayFollows(v)
BY DEF DelayFollows, Delay!vars, TimingOf

LEMMA LoadFollows ==
    ASSUME IndInv, LifeInv, Actuate, NEW v \in Sampled
    PROVE  DelayFollows(v)
<1> DEFINE on == Stage(v, Settled(v), Settled(v).pending = "on")
<1>1. /\ TypeOK /\ LastServed /\ ClocksAhead /\ pc = "actuate"
      /\ words[v] \in Registered /\ WordsOK(v) /\ v \in Units /\ v \in Owners
  BY DEF IndInv, Timely, Actuate, LifeInv, RestOK, Sampled, Owners
<1>2. /\ load'[v] = IF v = Owner /\ t = LoadTime(v) THEN load[v] + 1 ELSE load[v]
      /\ words'[v] = IF v = Owner THEN Loaded(v) ELSE words[v]
  BY <1>1, ActuateOnUnit
<1>3. on \in BOOLEAN /\ Loaded(v) = Registers(v, words[v], on)
  BY DEF Stage, Loaded
<1> HIDE DEF on
<1>4. CASE v = Owner /\ t = LoadTime(v)
  <2> DEFINE n == IndexAfter(Clocks[v], t - Computation[v]) - 1
             first == FirstOf(v)
  <2>1. t <= NextTime(v)
    BY <1>1 DEF ClocksAhead
  <2>2. Registers(v, words[v], on).active.stamp = IF n < first THEN first - 1 ELSE n
    BY <1>1, <1>3, <1>4, <2>1, LoadTakesLatest
  <2>3. words'[v].active.stamp = IF n < first THEN first - 1 ELSE n
    BY <1>2, <1>3, <1>4, <2>2
  <2>4. Delay(v)!LatestComplete(Delay(v)!ClockAt(Loads[v], load[v])) =
            IF n < first THEN first - 1 ELSE n
    <3>1. Delay(v)!ClockAt(Loads[v], load[v]) = t
      BY <1>4 DEF Delay!ClockAt, LoadTime, ClockAt
    <3>2. \A x : Delay(v)!IndexAfter(Clocks[v], x) = IndexAfter(Clocks[v], x)
      BY DEF Delay!IndexAfter, IndexAfter
    <3> QED
      BY <3>1, <3>2 DEF Delay!LatestComplete, TimingOf, FirstOf
  <2> HIDE DEF n, first
  <2>5. Delay(v)!Load
    BY <1>2, <1>4, <2>3, <2>4 DEF Delay!Load, TimingOf
  <2> QED
    BY <2>5 DEF DelayFollows
<1>5. CASE ~(v = Owner /\ t = LoadTime(v))
  <2>1. words'[v].active = words[v].active
    <3>1. CASE v = Owner
      <4>1. t # LoadTime(v) => Registers(v, words[v], on).active = words[v].active
        BY <1>1, <1>3, RegistersFacts
      <4> QED
        BY <1>2, <1>3, <1>5, <3>1, <4>1
    <3>2. CASE v # Owner
      BY <1>2, <3>2
    <3> QED
      BY <3>1, <3>2
  <2> QED
    BY <1>2, <1>5, <2>1, DelayRests
<1> QED
  BY <1>4, <1>5

LEMMA InitFollows ==
    ASSUME Init
    PROVE  /\ \A v \in Units : Lifecycle(v)!Init
           /\ \A v \in Sampled : Delay(v)!Init
<1>1. ASSUME NEW v \in Units
      PROVE  Lifecycle(v)!Init
  <2> DEFINE h == history[v]
             command == v \in Connected
  <2>1. /\ h = [stage |-> "idle", due |-> NothingDue, command |-> command,
                source |-> command, aligned |-> command, reports |-> 0]
        /\ \E latched \in SUBSET Units : units[v] = Initial(v, v \in latched)
        /\ v \in Sampled => words[v] =
               [active |-> [on |-> FALSE, stamp |-> clock[v] - 1],
                shadow |-> [on |-> FALSE, stamp |-> clock[v] - 1],
                completed |-> [on |-> FALSE, stamp |-> clock[v] - 1]]
    BY DEF Init
  <2>2. PICK latched \in BOOLEAN : units[v] = Initial(v, latched)
    <3>1. PICK those \in SUBSET Units : units[v] = Initial(v, v \in those)
      BY <2>1
    <3> DEFINE latched == v \in those
    <3>2. latched \in BOOLEAN /\ units[v] = Initial(v, latched)
      BY <3>1
    <3> HIDE DEF latched
    <3> QED
      BY <3>2
  <2> DEFINE on == command /\ ~latched
             gates == on /\ v \in Continuous
             branch == v \notin Unfiltered /\ on /\ gates /\ ~latched
             driven == v \notin Unfiltered
             trip == IF latched THEN "restored" ELSE "none"
             track == FALSE /\ ~Tripped(units[v])
             s == [trip |-> trip, fault |-> FALSE, breaker |-> on, gates |-> FALSE,
                   branch |-> FALSE, source |-> command, linkTripped |-> latched,
                   run |-> on, driven |-> TRUE, tripDue |-> FALSE, trackDue |-> FALSE]
             run == IF v \in Continuous THEN on /\ on ELSE FALSE
             g == run /\ ~Tripped(s) /\ (v \notin Unfiltered \/ s.breaker)
             b == v \notin Unfiltered /\ s.breaker /\ g /\ ~Tripped(s)
             d == s.driven /\ (v \notin Unfiltered \/ v \in Continuous \/ g)
  <2>3. units[v] = [trip |-> trip, fault |-> FALSE, breaker |-> on, gates |-> gates,
                    run |-> on, branch |-> branch, linkTripped |-> latched,
                    driven |-> driven, tripDue |-> FALSE, trackDue |-> FALSE,
                    pending |-> "none"]
    BY <2>2, InitialMembers
  <2>4. /\ h.stage = "idle" /\ h.due = NothingDue /\ h.command = command
        /\ h.source = command /\ h.aligned = command /\ h.reports = 0
    BY <2>1
  <2>5. /\ command \in BOOLEAN /\ on \in BOOLEAN /\ gates \in BOOLEAN
        /\ branch \in BOOLEAN /\ driven \in BOOLEAN /\ run \in BOOLEAN
        /\ trip \in {"none", "restored"} /\ (trip # "none" <=> latched)
        /\ (v \in Continuous => v \notin Unfiltered)
    <3>1. v \in Continuous => v \notin Unfiltered
      BY ProgramAssumption DEF Sampled
    <3>2. trip \in {"none", "restored"} /\ (trip # "none" <=> latched)
      OBVIOUS
    <3>3. /\ command \in BOOLEAN /\ on \in BOOLEAN /\ gates \in BOOLEAN
          /\ branch \in BOOLEAN /\ driven \in BOOLEAN
      OBVIOUS
    <3>4. run \in BOOLEAN
      <4> HIDE DEF on
      <4> QED
        BY <3>3
    <3> QED
      BY <3>1, <3>2, <3>3, <3>4
  <2>6. UnitOf(v) =
          [trip |-> trip, fault |-> FALSE, breaker |-> on, gates |-> gates,
           branch |-> branch, source |-> command, linkTripped |-> latched,
           run |-> on, driven |-> driven, tripDue |-> FALSE, trackDue |-> FALSE]
    <3> HIDE DEF h, command, on, gates, branch, driven, trip
    <3>1. track = FALSE
      OBVIOUS
    <3>2. units[v].trackDue = FALSE
      BY <2>3
    <3>3. UnitOf(v) =
          [trip |-> trip, fault |-> FALSE, breaker |-> on, gates |-> gates,
           branch |-> branch, source |-> command, linkTripped |-> latched,
           run |-> on, driven |-> driven, tripDue |-> FALSE, trackDue |-> track]
      BY <2>3, <2>4, <3>2 DEF UnitOf, h
    <3> HIDE DEF track
    <3> QED
      BY <3>1, <3>3
  <2>7. Lifecycle(v)!Assembled(latched, FALSE, command, FALSE) =
          [trip |-> trip, fault |-> FALSE, breaker |-> on, gates |-> gates,
           branch |-> branch, source |-> command, linkTripped |-> latched,
           run |-> on, driven |-> driven, tripDue |-> FALSE, trackDue |-> FALSE]
    <3>1. /\ s \in LifeUnit /\ s.trip = trip /\ s.fault = FALSE /\ s.breaker = on
          /\ s.source = command /\ s.linkTripped = latched /\ s.run = on
          /\ s.driven = TRUE /\ s.tripDue = FALSE /\ s.trackDue = FALSE
      <4> HIDE DEF command, on, trip
      <4> QED
        BY <2>5 DEF LifeUnit
    <3>2. Lifecycle(v)!Assembled(latched, FALSE, command, FALSE) =
              Lifecycle(v)!SetGates(s, run)
      <4>1. h.command = command
        BY <2>4
      <4>2. FormOf(v).continuous = (v \in Continuous)
        BY DEF FormOf
      <4> HIDE DEF command
      <4> QED
        BY <4>1, <4>2 DEF Lifecycle!Assembled
    <3> HIDE DEF s, run
    <3>3. Lifecycle(v)!SetGates(s, run) =
              [trip |-> s.trip, fault |-> s.fault, breaker |-> s.breaker, gates |-> g,
               branch |-> b, source |-> s.source, linkTripped |-> s.linkTripped,
               run |-> s.run, driven |-> d, tripDue |-> s.tripDue,
               trackDue |-> s.trackDue]
      BY <2>5, <3>1, SetGatesMembers
    <3>4. g = gates /\ b = branch /\ d = driven
      <4> HIDE DEF command, trip
      <4>1. run <=> gates
        BY <2>5 DEF run
      <4>2. g = gates
        BY <2>5, <3>1, <4>1 DEF Tripped
      <4> HIDE DEF g
      <4>3. b = branch
        BY <2>5, <3>1, <4>2 DEF Tripped
      <4>4. d = driven
        BY <2>5, <3>1, <4>2
      <4> QED
        BY <4>2, <4>3, <4>4
    <3> HIDE DEF g, b, d, gates, branch, driven, on, trip, command
    <3> QED
      BY <3>1, <3>2, <3>3, <3>4
  <2>8. UnitOf(v) = Lifecycle(v)!Assembled(latched, FALSE, command, FALSE)
    <3> HIDE DEF command, on, gates, branch, driven, trip
    <3> QED
      BY <2>6, <2>7
  <2>9. WordsOf(v) = [active |-> FALSE, shadow |-> FALSE, completed |-> FALSE,
                      computing |-> FALSE]
    <3>1. CASE v \in Continuous
      BY <3>1 DEF WordsOf
    <3>2. CASE v \notin Continuous
      <4> DEFINE w == [on |-> FALSE, stamp |-> clock[v] - 1]
      <4>1. words[v] = [active |-> w, shadow |-> w, completed |-> w] /\ w.on = FALSE
        BY <2>1, <3>2 DEF Sampled
      <4> HIDE DEF w
      <4>2. /\ words[v].active.on = FALSE /\ words[v].shadow.on = FALSE
            /\ words[v].completed.on = FALSE
            /\ words[v].active.stamp = words[v].shadow.stamp
        BY <4>1
      <4>3. (Computation[v] > 0 /\ words[v].active.stamp # words[v].shadow.stamp) = FALSE
        BY <4>2
      <4> QED
        BY <3>2, <4>2, <4>3 DEF WordsOf
    <3> QED
      BY <3>1, <3>2
  <2>10. units[v].pending = "none"
    <3> HIDE DEF command, on, gates, branch, driven, trip
    <3> QED
      BY <2>3
  <2>11. FormOf(v) \in {FormOf(v)} /\ NothingDue = Lifecycle(v)!NothingDue
    BY DueInLife
  <2> HIDE DEF command
  <2> QED
    BY <2>4, <2>5, <2>8, <2>9, <2>10, <2>11 DEF Lifecycle!Init
<1>2. ASSUME NEW v \in Sampled
      PROVE  Delay(v)!Init
  <2>1. /\ load[v] = StartIndex(Loads[v], Start, FALSE)
        /\ words[v].active.stamp = StartIndex(Clocks[v], Start, FALSE) - 1
    BY DEF Init, Sampled, Owners
  <2>2. \A c, x : /\ Delay(v)!IndexAtOrAfter(c, x) = IndexAtOrAfter(c, x)
                  /\ StartIndex(c, x, FALSE) = IndexAtOrAfter(c, x)
    BY DEF Delay!IndexAtOrAfter, IndexAtOrAfter, StartIndex
  <2> QED
    BY <2>1, <2>2 DEF Delay!Init, TimingOf
<1> QED
  BY <1>1, <1>2

LEMMA LifeInvariance == Spec => [](IndInv /\ LifeInv)
<1>1. Init => IndInv /\ LifeInv
  BY InitTypes, InitTimely, InitKept, LifeInit DEF IndInv
<1>2. IndInv /\ LifeInv /\ [Next]_vars => IndInv' /\ LifeInv'
  BY Inductive, LifeStep
<1> QED
  BY <1>1, <1>2, PTL DEF Spec

\* Every step of the program is, for each unit, a step of the lifecycle of
\* UnitLifecycle or leaves the unit alone, and at each load its registers put
\* the newest completed command into effect (cpp.py, the methods of a unit).
THEOREM ProgramImplementsUnits == Spec => ImplementsUnits
<1> DEFINE Begins == /\ \A v \in Units : Lifecycle(v)!Init
                     /\ \A v \in Sampled : Delay(v)!Init
           Steps == /\ \A v \in Units : [Lifecycle(v)!Next]_(Lifecycle(v)!vars)
                    /\ \A v \in Sampled : [Delay(v)!Load]_(Delay(v)!vars)
<1>1. Init => Begins
  BY InitFollows
<1>2. IndInv /\ LifeInv /\ [Next]_vars => [Steps]_vars
  <2> SUFFICES ASSUME IndInv, LifeInv, [Next]_vars PROVE Steps
    OBVIOUS
  <2>1. ASSUME NEW v \in Units PROVE Follows(v)
    BY <2>1, BoundaryFollows, ActionFollows, ProtectFollows, SenseFollows,
       ActuateFollows, LogFollows DEF Next
  <2>2. ASSUME NEW v \in Sampled PROVE DelayFollows(v)
    <3>1. CASE Actuate
      BY <3>1, LoadFollows
    <3>2. CASE ~Actuate
      <4>1. UNCHANGED <<load, words>>
        BY <3>2 DEF Next, Boundary, ApplyAction, Protect, Sense, Log, vars
      <4> QED
        BY <4>1, DelayRests
    <3> QED
      BY <3>1, <3>2
  <2> QED
    BY <2>1, <2>2 DEF Follows, DelayFollows
<1> QED
  BY <1>1, <1>2, LifeInvariance, PTL DEF Spec, ImplementsUnits

----------------------------------------------------------------------------
(***************************************************************************)
(* What a trip does for good.                                              *)
(***************************************************************************)
\* Gates, breaker, filter branch, DC source and start-up command are off, and
\* the bridge of a unit without a filter is held.
OutOfService(u, s) == /\ ~s.gates /\ ~s.breaker /\ ~s.branch /\ ~s.run /\ s.linkTripped
                      /\ u \in Unfiltered => ~s.driven

Isolated(u) == Tripped(units[u]) /\ ~units[u].tripDue => OutOfService(u, units[u])

LatchStays(u) == Tripped(units[u]) => units'[u].trip = units[u].trip

\* Where a trip still waits for the turn of its unit.
LEMMA TripPending ==
    ASSUME LifeInv, NEW u \in Units, units[u].tripDue, pc # "done"
    PROVE  pc \in {"sense", "actuate"}
<1>1. history[u].stage = "actuate" /\ history[u].stage \in {"idle", Place(u)}
  BY DEF LifeInv, StageOK, ServiceOK
<1>2. Place(u) = "actuate"
  BY <1>1
<1> QED
  BY <1>2 DEF Place, Phases

LEMMA InitIsolated ==
    ASSUME Init, NEW u \in Units
    PROVE  Isolated(u)
<1>1. PICK those \in SUBSET Units : units[u] = Initial(u, u \in those)
  BY DEF Init
<1> DEFINE latched == u \in those
           on == u \in Connected /\ ~latched
           gates == on /\ u \in Continuous
           trip == IF latched THEN "restored" ELSE "none"
           branch == u \notin Unfiltered /\ on /\ gates /\ ~latched
           driven == u \notin Unfiltered
           s == units[u]
<1>2. latched \in BOOLEAN /\ s = Initial(u, latched)
  BY <1>1
<1>3. (latched => ~on) /\ (trip # "none" => latched) /\ (on \/ ~gates) /\ (on \/ ~branch)
  OBVIOUS
<1> HIDE DEF latched, s
<1>4. s = [trip |-> trip, fault |-> FALSE, breaker |-> on, gates |-> gates, run |-> on,
           branch |-> branch, linkTripped |-> latched, driven |-> driven,
           tripDue |-> FALSE, trackDue |-> FALSE, pending |-> "none"]
  BY <1>2, InitialMembers
<1>5. u \in Unfiltered => ~driven
  OBVIOUS
<1> HIDE DEF on, gates, trip, branch, driven
<1>6. /\ s.trip = trip /\ s.breaker = on /\ s.gates = gates /\ s.run = on
      /\ s.branch = branch /\ s.linkTripped = latched /\ s.driven = driven
  BY <1>4
<1> QED
  BY <1>3, <1>5, <1>6 DEF Isolated, OutOfService, Tripped, s

LEMMA IsolationStep ==
    ASSUME IndInv, LifeInv, [Next]_vars, NEW u \in Units, Isolated(u)
    PROVE  Isolated(u)' /\ LatchStays(u)
<1> DEFINE s == units[u]
           r == units'[u]
<1>1. /\ TypeOK /\ RestOK /\ TurnsInOrder /\ EventsAhead /\ UnitsInv /\ LastServed
      /\ s \in Unit /\ words \in [Sampled -> Registered]
      /\ (Tripped(s) /\ ~s.tripDue => OutOfService(u, s))
  BY DEF IndInv, Timely, Kept, TypeOK, RestOK, Isolated
<1>2. ASSUME r = s PROVE Isolated(u)' /\ LatchStays(u)
  BY <1>2 DEF Isolated, LatchStays, Tripped
<1>3. SUFFICES ASSUME r # s
               PROVE  /\ Tripped(r) /\ ~r.tripDue => OutOfService(u, r)
                      /\ Tripped(s) => r.trip = s.trip
  BY <1>2 DEF Isolated, LatchStays, Tripped
<1> HIDE DEF s, r
<1>4. CASE ApplyAction
  <2> DEFINE on == Events[action].on
             effective == on /\ ~Tripped(s)
             gates == IF u \in Continuous THEN effective
                      ELSE IF u \in Unfiltered THEN words[u].active.on /\ effective
                      ELSE s.gates
             branch == u \notin Unfiltered /\ effective /\ gates /\ ~Tripped(s)
             driven == s.driven /\ (u \in Unfiltered => gates)
             track == IF u \in Continuous
                      THEN effective /\ ~(s.breaker /\ s.gates /\ ~Tripped(s))
                      ELSE s.trackDue
  <2>1. on \in BOOLEAN /\ r = Command(u, s, on) /\ pc = "actions"
    BY <1>1, <1>3, <1>4, ActionOnUnit DEF r, s
  <2>2. ~s.tripDue
    BY <2>1, TripPending DEF s
  <2>3. Command(u, s, on) =
          [trip |-> s.trip, fault |-> s.fault, breaker |-> effective,
           gates |-> gates, run |-> effective, branch |-> branch,
           linkTripped |-> s.linkTripped, driven |-> driven, tripDue |-> s.tripDue,
           trackDue |-> track, pending |-> s.pending]
    <3> HIDE DEF on
    <3> QED
      BY <1>1, <2>1, CommandMembers
  <2>4. Tripped(s) => /\ ~effective /\ ~branch /\ (gates => s.gates)
                      /\ (u \in Unfiltered => ~driven)
    OBVIOUS
  <2> HIDE DEF on, effective, gates, branch, driven, track
  <2>5. /\ r.trip = s.trip /\ r.breaker = effective /\ r.gates = gates /\ r.run = effective
        /\ r.branch = branch /\ r.linkTripped = s.linkTripped /\ r.driven = driven
        /\ r.tripDue = s.tripDue
    BY <2>1, <2>3
  <2> QED
    BY <1>1, <2>2, <2>4, <2>5 DEF OutOfService, Tripped
<1>5. CASE Protect
  <2>1. PICK over \in BOOLEAN :
           /\ over => ~Tripped(s)
           /\ r = IF over THEN TripBody(u, Latch(s, "overcurrent")) ELSE s
    BY <1>1, <1>3, <1>5, ProtectOnUnit, Zenon DEF r, s
  <2>2. ~Tripped(s) /\ r = TripBody(u, Latch(s, "overcurrent"))
    BY <1>3, <2>1
  <2> DEFINE driven == s.driven /\ u \notin Unfiltered
  <2>3. r = [trip |-> "overcurrent", fault |-> TRUE, breaker |-> FALSE,
             gates |-> FALSE, run |-> FALSE, branch |-> FALSE, linkTripped |-> TRUE,
             driven |-> driven, tripDue |-> s.tripDue,
             trackDue |-> s.trackDue, pending |-> s.pending]
    BY <1>1, <2>2, OvercurrentMembers
  <2>4. u \in Unfiltered => ~driven
    OBVIOUS
  <2> HIDE DEF driven
  <2>5. ~r.gates /\ ~r.breaker /\ ~r.branch /\ ~r.run /\ r.linkTripped /\ r.driven = driven
    BY <2>3
  <2> QED
    BY <2>2, <2>4, <2>5 DEF OutOfService
<1>6. CASE Sense
  <2> DEFINE due == history[u].due.control
  <2>1. /\ history[u].due = DueAt(u, t)
        /\ \E bad \in BOOLEAN : r = Sensed(u, s, due, bad)
    BY <1>1, <1>3, <1>6, SenseOnUnit DEF r, s
  <2>2. PICK bad \in BOOLEAN : r = Sensed(u, s, due, bad)
    BY <2>1
  <2>3. due \in BOOLEAN
    <3>1. DueAt(u, t) \in Due
      BY DueFacts
    <3> QED
      BY <2>1, <3>1 DEF Due
  <2> DEFINE trips == due /\ bad /\ ~Tripped(s) /\ s.run
             cause == IF trips THEN "sampled" ELSE s.trip
             d == s.tripDue \/ trips
             p == IF ~due \/ u \in Continuous THEN s.pending
                  ELSE IF s.run THEN "on" ELSE "off"
  <2> HIDE DEF due
  <2>4. r = [trip |-> cause, fault |-> s.fault, breaker |-> s.breaker,
             gates |-> s.gates, run |-> s.run, branch |-> s.branch,
             linkTripped |-> s.linkTripped, driven |-> s.driven, tripDue |-> d,
             trackDue |-> FALSE, pending |-> p]
    <3>1. Sensed(u, s, due, bad) =
            [trip |-> cause, fault |-> s.fault, breaker |-> s.breaker,
             gates |-> s.gates, run |-> s.run, branch |-> s.branch,
             linkTripped |-> s.linkTripped, driven |-> s.driven, tripDue |-> d,
             trackDue |-> FALSE, pending |-> p]
      BY <1>1, <2>3, SensedMembers
    <3> QED
      BY <2>2, <3>1, Zenon
  <2>5. /\ (Tripped(s) => ~trips /\ cause = s.trip)
        /\ (~d => ~s.tripDue /\ cause = s.trip)
    OBVIOUS
  <2> HIDE DEF cause, d, p, trips
  <2>6. /\ r.trip = cause /\ r.breaker = s.breaker /\ r.gates = s.gates /\ r.run = s.run
        /\ r.branch = s.branch /\ r.linkTripped = s.linkTripped /\ r.driven = s.driven
        /\ r.tripDue = d
    BY <2>4
  <2> QED
    BY <1>1, <2>5, <2>6 DEF OutOfService, Tripped
<1>7. CASE Actuate
  <2> DEFINE b == Settled(u)
  <2>1. r = Acted(u)
    BY <1>3, <1>7, ActuateOnUnit DEF r, s
  <2>2. /\ b.trip = s.trip /\ b.breaker = (s.breaker /\ ~s.tripDue)
        /\ b.gates = (s.gates /\ ~s.tripDue) /\ b.run = (s.run /\ ~s.tripDue)
        /\ b.branch = (s.branch /\ ~s.tripDue)
        /\ b.linkTripped = (s.linkTripped \/ s.tripDue)
        /\ b.driven = (s.driven /\ (s.tripDue => u \notin Unfiltered))
    BY <1>1, SettledFacts DEF UnitsInv, s
  <2> HIDE DEF b
  <2>3. Tripped(b) => OutOfService(u, b)
    BY <1>1, <2>2 DEF OutOfService, Tripped
  <2>4. CASE u \in Continuous
    BY <2>1, <2>2, <2>3, <2>4 DEF Acted, b
  <2>5. CASE u \in Sampled
    <3> DEFINE l == t = LoadTime(u)
               gates == Stage(u, b, Loaded(u).active.on)
    <3>1. /\ r.trip = b.trip /\ r.breaker = b.breaker /\ r.run = b.run
          /\ r.linkTripped = b.linkTripped
          /\ r.gates = IF l THEN gates ELSE b.gates
          /\ r.branch = IF l
                        THEN u \notin Unfiltered /\ b.breaker /\ gates /\ ~Tripped(b)
                        ELSE b.branch
          /\ r.driven = IF l THEN u \in Unfiltered => gates ELSE b.driven
      BY <1>1, <2>1, <2>5, ActedFacts DEF b
    <3>2. Tripped(b) => ~gates
      BY DEF Stage
    <3> HIDE DEF l, gates
    <3> QED
      BY <2>2, <2>3, <3>1, <3>2 DEF OutOfService, Tripped
  <2> QED
    BY <2>4, <2>5 DEF Sampled
<1>8. CASE Boundary \/ Log \/ UNCHANGED vars
  BY <1>3, <1>8 DEF Boundary, Log, vars, r, s
<1> QED
  BY <1>4, <1>5, <1>6, <1>7, <1>8 DEF Next

\* Outside the turns of an instant a tripped unit of the program is out of
\* service, whatever latched the trip, whatever the file events command after
\* it and whatever its registers still load (cpp.py, _trip_body, command_lines
\* and _stage_condition).
THEOREM ProgramTripIsolates ==
    Spec => [](pc \notin {"sense", "actuate", "done"} =>
                   \A u \in Units : Tripped(units[u]) => OutOfService(u, units[u]))
<1> DEFINE I == \A u \in Units : Isolated(u)
           Goal == pc \notin {"sense", "actuate", "done"} =>
                       \A u \in Units : Tripped(units[u]) => OutOfService(u, units[u])
<1>1. Init => I
  BY InitIsolated
<1>2. IndInv /\ LifeInv /\ I /\ [Next]_vars => I'
  BY IsolationStep
<1>3. LifeInv /\ I => Goal
  BY TripPending DEF Isolated
<1> QED
  BY <1>1, <1>2, <1>3, LifeInvariance, PTL DEF Spec

\* A latched trip keeps its first cause to the end of the run: no file event
\* and no later criterion changes it (cpp.py, latch and command_lines).
THEOREM ProgramTripIsPermanent ==
    Spec => [][\A u \in Units : Tripped(units[u]) => units'[u].trip = units[u].trip]_vars
<1> DEFINE I == \A u \in Units : Isolated(u)
           A == \A u \in Units : Tripped(units[u]) => units'[u].trip = units[u].trip
<1>1. Init => I
  BY InitIsolated
<1>2. IndInv /\ LifeInv /\ I /\ [Next]_vars => I' /\ [A]_vars
  BY IsolationStep DEF LatchStays
<1> QED
  BY <1>1, <1>2, LifeInvariance, PTL DEF Spec

=============================================================================
