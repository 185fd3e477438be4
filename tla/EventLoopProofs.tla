-------------------------- MODULE EventLoopProofs --------------------------
(***************************************************************************)
(* The event loop serves every clock, event, row and observation once and  *)
(* on time, samples the present plant and writes every row, for any units, *)
(* clocks, events and output grid, any order of the owners and any trips   *)
(* and faults; its windows meet no jump, and its samples agree.            *)
(***************************************************************************)
EXTENDS EventLoop, SharedTheorems

----------------------------------------------------------------------------
(***************************************************************************)
(* Least elements, clocks and events.                                      *)
(***************************************************************************)
\* A nonempty set of natural numbers has a least element, which is its Min.
LEMMA MinNat ==
    ASSUME NEW S, S \subseteq Nat, S # {}
    PROVE  Min(S) \in S /\ \A y \in S : Min(S) <= y
<1>1. \E x \in S : \A y \in S : x <= y
  BY LeastNumber
<1> QED
  BY <1>1 DEF Min

\* The first event of a clock in a run is not before its start.
LEMMA StartIndexBound ==
    ASSUME NEW clock \in Clock, NEW t \in Int, NEW continued \in BOOLEAN
    PROVE  /\ StartIndex(clock, t, continued) \in Int
           /\ t <= ClockAt(clock, StartIndex(clock, t, continued))
<1>1. CASE continued
  <2>1. /\ IndexAfter(clock, t) \in Int
        /\ t < ClockAt(clock, IndexAfter(clock, t))
    BY IndexAfterSpec
  <2>2. ClockAt(clock, IndexAfter(clock, t)) \in Int
    BY <2>1, ClockStep
  <2> QED
    BY <1>1, <2>1, <2>2 DEF StartIndex
<1>2. CASE ~continued
  BY <1>2, IndexAtOrAfterSpec DEF StartIndex
<1> QED
  BY <1>1, <1>2

\* The file events are after the start and in order.
LEMMA EventsOrdered ==
    /\ Len(Events) \in Nat
    /\ \A i \in 1..Len(Events) :
           Events[i] \in Event /\ Events[i].t \in Nat /\ Start < Events[i].t
    /\ \A i, j \in 1..Len(Events) : i < j => Events[i].t <= Events[j].t
<1>1. Len(Events) \in Nat /\ \A i \in 1..Len(Events) : Events[i] \in Event
  BY LoopAssumption
<1>2. \A e \in Event : e.t \in Nat
  BY DEF Event
<1> QED
  BY <1>1, <1>2, LoopAssumption

\* The constants, without the sequence of events.
LEMMA Constants ==
    /\ Start \in Nat /\ Final \in Nat /\ Start < Final
    /\ LogPeriod \in Nat /\ LogPeriod > 0 /\ Resumed \in BOOLEAN
    /\ Units \subseteq Owners /\ BlackBoxes \subseteq Owners
    /\ Continuous \subseteq Units /\ Windowed \subseteq Units /\ Connected \subseteq Units
    /\ Sampled \subseteq Owners /\ Owners = Units \cup BlackBoxes
    /\ Units \cap BlackBoxes = {}
    /\ \A o \in Owners : Clocks[o] \in Clock
    /\ \A o \in Owners : Clocks[o].period \in Nat /\ Clocks[o].period > 0
BY LoopAssumption DEF Owners, Sampled, Clock

----------------------------------------------------------------------------
(***************************************************************************)
(* The operations on the plant.                                            *)
(***************************************************************************)
Coherent(s) == s.synced /\ ~s.zoh => s.view = s.plant

\* s may follow r when no file event is applied and no unit trips.
Follows(s, r) ==
    /\ s \in Sim /\ Coherent(s)
    /\ s.plant.applied = r.plant.applied /\ s.plant.tripped = r.plant.tripped

\* Outputs serves the present plant and changes nothing else.
LEMMA OutputsFollow ==
    ASSUME NEW s \in Sim, Coherent(s)
    PROVE  /\ Follows(Outputs(s), s) /\ Outputs(s).plant = s.plant
           /\ Outputs(s).view = s.plant
BY DEF Outputs, Follows, Coherent, Sim

\* Closing windows changes only the windows and the cache.
LEMMA AccumulateFollows ==
    ASSUME NEW s \in Sim, Coherent(s), NEW W, NEW t \in Nat
    PROVE  Follows(Accumulate(s, W, t), s) /\ Accumulate(s, W, t).plant = s.plant
<1>1. CASE W = {}
  BY <1>1 DEF Accumulate, Follows
<1>2. CASE W # {}
  <2> DEFINE read == Outputs(s)
             windows == [w \in Windowed |->
                            IF w \in W /\ t > read.windows[w].upto
                            THEN [anchor |-> read.view, upto |-> t] ELSE read.windows[w]]
  <2>1. read \in Sim /\ Coherent(read) /\ read.plant = s.plant
        /\ read.plant.applied = s.plant.applied /\ read.plant.tripped = s.plant.tripped
    BY OutputsFollow DEF Follows
  <2>2. windows \in [Windowed -> [anchor : Plant, upto : Nat]]
    BY <2>1 DEF Sim
  <2>3. Accumulate(s, W, t) = [read EXCEPT !.windows = windows]
    BY <1>2 DEF Accumulate
  <2> HIDE DEF read, windows
  <2> QED
    BY <2>1, <2>2, <2>3 DEF Follows, Coherent, Sim
<1> QED
  BY <1>1, <1>2

\* A change of the plant invalidates the cache.
LEMMA ChangeType ==
    ASSUME NEW s \in Sim, Coherent(s), NEW t \in Nat, NEW p \in Plant
    PROVE  Change(s, t, p) \in Sim /\ Coherent(Change(s, t, p))
           /\ Change(s, t, p).plant = p
<1>1. Accumulate(s, Windowed, t) \in Sim
  BY AccumulateFollows DEF Follows
<1> QED
  BY <1>1 DEF Change, Coherent, Sim

\* The same before the first iteration.
LEMMA ChangeUnsettledType ==
    ASSUME NEW s \in Sim, NEW p \in Plant
    PROVE  ChangeUnsettled(s, p) \in Sim /\ Coherent(ChangeUnsettled(s, p))
           /\ ChangeUnsettled(s, p).plant = p
BY DEF ChangeUnsettled, Coherent, Sim

\* An owner that changes its output applies no event and trips no unit.
LEMMA TouchedType ==
    ASSUME NEW p \in Plant, NEW o \in Owners, NEW t \in Int
    PROVE  /\ Touched(p, o, t) \in Plant
           /\ Touched(p, o, t).applied = p.applied /\ Touched(p, o, t).tripped = p.tripped
BY DEF Touched, Plant

\* A held input counts until the outputs are read again.
LEMMA HoldFollows ==
    ASSUME NEW s \in Sim, NEW o \in Owners, NEW t \in Int
    PROVE  Follows(Hold(s, o, t), s)
<1>1. s.plant \in Plant
  BY DEF Sim
<1>2. Touched(s.plant, o, t) \in Plant
      /\ Touched(s.plant, o, t).applied = s.plant.applied
      /\ Touched(s.plant, o, t).tripped = s.plant.tripped
  BY <1>1, TouchedType
<1> QED
  BY <1>2 DEF Hold, Follows, Coherent, Sim

\* An owner changes its output.
LEMMA TouchFollows ==
    ASSUME NEW s \in Sim, Coherent(s), NEW o \in Owners, NEW t \in Nat
    PROVE  Follows(Change(s, t, Touched(s.plant, o, t)), s)
<1>1. s.plant \in Plant /\ t \in Int
  BY DEF Sim
<1> QED
  BY <1>1, TouchedType, ChangeType DEF Follows

\* A trip.
LEMMA TripUnitType ==
    ASSUME NEW s \in Sim, Coherent(s), NEW u \in Units, NEW t \in Nat
    PROVE  /\ TripUnit(s, u, t) \in Sim /\ Coherent(TripUnit(s, u, t))
           /\ TripUnit(s, u, t).plant.applied = s.plant.applied
<1> DEFINE p == [s.plant EXCEPT !.tripped = @ \cup {u}, !.open = @ \cup {u}]
           c == Change(s, t, p)
<1>1. p \in Plant /\ p.applied = s.plant.applied
  BY DEF Sim, Plant
<1>2. c \in Sim /\ Coherent(c) /\ c.plant = p
  BY <1>1, ChangeType
<1>3. TripUnit(s, u, t) = [c EXCEPT !.trackDue = @ \ {u}, !.tripDue = @ \ {u}]
  BY DEF TripUnit
<1> HIDE DEF c, p
<1> QED
  BY <1>1, <1>2, <1>3 DEF Coherent, Sim

\* Seeding changes only the windows and the cache.
LEMMA SeedFollows ==
    ASSUME NEW s \in Sim, Coherent(s), NEW W
    PROVE  Follows(Seed(s, W), s)
<1> DEFINE read == Outputs(s)
           windows == [w \in Windowed |->
                          IF w \in W THEN [read.windows[w] EXCEPT !.anchor = read.view]
                          ELSE read.windows[w]]
<1>1. Follows(read, s)
  BY OutputsFollow
<1>2. windows \in [Windowed -> [anchor : Plant, upto : Nat]]
  BY <1>1 DEF Follows, Sim
<1>3. Seed(s, W) = [read EXCEPT !.windows = windows]
  BY DEF Seed
<1> HIDE DEF read, windows
<1> QED
  BY <1>1, <1>2, <1>3 DEF Follows, Coherent, Sim

\* A file event is counted, and trips no unit.
LEMMA ApplyType ==
    ASSUME NEW s \in Sim, NEW e \in Event
    PROVE  /\ Apply(s, e) \in Sim
           /\ Apply(s, e).plant.applied = s.plant.applied + 1
           /\ Apply(s, e).plant.tripped = s.plant.tripped
<1> DEFINE counted == [s.plant EXCEPT !.applied = @ + 1]
           r == Apply(s, e)
<1>1. counted \in Plant /\ counted.applied = s.plant.applied + 1
      /\ counted.tripped = s.plant.tripped /\ counted.open = s.plant.open
  <2> DEFINE p == s.plant
  <2>1. p \in Plant /\ p.applied \in Nat
    BY DEF Sim, Plant
  <2> HIDE DEF p
  <2>2. [p EXCEPT !.applied = p.applied + 1] \in Plant
    BY <2>1 DEF Plant
  <2> QED
    BY <2>1, <2>2 DEF p, Plant
<1>2. CASE e \in [t : Nat, parameters : {TRUE}]
  <2>1. "unit" \notin DOMAIN e
    BY <1>2
  <2>2. r = [s EXCEPT !.plant = counted]
    BY <2>1 DEF Apply
  <2> HIDE DEF counted, r
  <2>3. r \in Sim /\ r.plant = counted
    BY <1>1, <2>2 DEF Sim
  <2> QED
    BY <1>1, <2>3 DEF r
<1>3. CASE e \in [t : Nat, unit : Units, on : BOOLEAN]
  <2>1. "unit" \in DOMAIN e /\ e.unit \in Units
    BY <1>3
  <2>2. PICK O \in SUBSET Units, D \in SUBSET Units :
            r = [s EXCEPT !.plant = [counted EXCEPT !.open = O], !.trackDue = D]
    BY <2>1 DEF Apply, Sim, Plant
  <2> DEFINE p == [counted EXCEPT !.open = O]
  <2>3. p \in Plant /\ p.applied = counted.applied /\ p.tripped = counted.tripped
    BY <1>1 DEF Plant
  <2> HIDE DEF counted, r
  <2>4. r \in Sim /\ r.plant = p
    BY <2>2, <2>3 DEF Sim
  <2> QED
    BY <1>1, <2>3, <2>4 DEF r
<1> QED
  BY <1>2, <1>3 DEF Event

----------------------------------------------------------------------------
(***************************************************************************)
(* Turns, instants and the next stop.                                      *)
(***************************************************************************)
\* The instants of the clocks are integers, one period apart.
LEMMA Times ==
    ASSUME TypeOK, NEW o \in Owners
    PROVE  /\ index[o] \in Int /\ index[o] + 1 \in Int
           /\ NextTime(o) \in Int
           /\ ClockAt(Clocks[o], index[o] + 1) = NextTime(o) + Clocks[o].period
<1>1. index[o] \in Int /\ Clocks[o] \in Clock
  BY Constants DEF TypeOK
<1> QED
  BY <1>1, ClockStep DEF NextTime

\* While the clock of an owner may be due, it is due exactly at its time.
LEMMA DueNow ==
    ASSUME TypeOK, ClocksAhead, pc # "begin", NEW o \in Owners, Pending(o)
    PROVE  /\ now \in Nat /\ now <= NextTime(o)
           /\ IsDue(o) <=> NextTime(o) = now
<1>1. now \in Nat /\ now <= NextTime(o) /\ NextTime(o) \in Int
  BY Times DEF TypeOK, ClocksAhead
<1> QED
  BY <1>1 DEF IsDue, ClockDue, NextTime

\* What a turn does with the phases and the flags.
LEMMA TurnFacts ==
    ASSUME TypeOK, NEW o \in Owners,
           NEW phase \in {"begin", "protect", "sense", "actuate"},
           NEW tripped \in BOOLEAN, Turn(o, phase, tripped)
    PROVE  /\ pc = phase /\ o \in todo
           /\ due' \in Flags /\ due' = [due EXCEPT !.trip = due.trip \/ tripped]
           /\ due'.trip <=> due.trip \/ tripped
           /\ due'.log = due.log /\ due'.event = due.event
           /\ todo # {o} => pc' = phase /\ todo' = todo \ {o}
           /\ todo = {o} => /\ pc' = After(phase, due'.trip)
                            /\ todo' = IF pc' \in {"sense", "actuate"}
                                       THEN Owners ELSE {}
<1>1. /\ pc = phase /\ o \in todo
      /\ due' \in Flags /\ due' = [due EXCEPT !.trip = due.trip \/ tripped]
      /\ due'.log = due.log /\ due'.event = due.event
  BY DEF Turn, TypeOK, Flags
<1>2. due'.trip = (due.trip \/ tripped)
  BY DEF Turn, TypeOK, Flags
<1>3. todo # {o} => pc' = phase /\ todo' = todo \ {o}
  BY DEF Turn
<1>4. todo = {o} => pc' = After(phase, due'.trip)
  BY <1>2 DEF Turn
<1>5. todo = {o} => todo' = IF pc' \in {"sense", "actuate"} THEN Owners ELSE {}
  BY DEF Turn, Taking
<1> QED
  BY <1>1, <1>2, <1>3, <1>4, <1>5

\* The samples stay in order where none is taken and no clock moves.
LEMMA SamplesKept ==
    ASSUME SamplesSpaced, UNCHANGED <<sampled, index>>,
           pc \notin {"sense", "actuate"},
           pc' = "begin" => pc = "begin", pc' # "actuate",
           pc' = "sense" => todo' = Owners
    PROVE  SamplesSpaced'
<1> SUFFICES ASSUME NEW o \in Owners, sampled[o].at >= Start
             PROVE  /\ pc' # "begin"
                    /\ NextTime(o) = IF HalfDone(o)' THEN sampled[o].at
                                     ELSE sampled[o].at + Clocks[o].period
  BY DEF SamplesSpaced, NextTime
<1>1. ~HalfDone(o) /\ ~HalfDone(o)'
  BY DEF HalfDone
<1> QED
  BY <1>1 DEF SamplesSpaced

\* The first output row is not before the start.
LEMMA FirstRow ==
    LET nlog0 == IndexAtOrAfter([period |-> LogPeriod, offset |-> 0], Start)
    IN  nlog0 \in Nat /\ Start <= nlog0 * LogPeriod
<1> DEFINE clock == [period |-> LogPeriod, offset |-> 0]
           n == IndexAtOrAfter(clock, Start)
<1>1. clock \in Clock /\ Start \in Int /\ Start >= 0
  BY Constants DEF Clock
<1>2. n \in Int /\ Start <= ClockAt(clock, n)
  BY <1>1, IndexAtOrAfterSpec
<1>3. ClockAt(clock, n) = n * LogPeriod
  <2> HIDE DEF n
  <2> QED
    BY <1>2, Constants DEF ClockAt
<1> HIDE DEF n
<1>4. n >= 0
  BY <1>1, <1>2, <1>3, Constants
<1> QED
  BY <1>2, <1>3, <1>4 DEF n

\* The next stop is at most the time of everything still to come, and not in
\* the past.
LEMMA StopSpec ==
    ASSUME IndInv, pc = "head"
    PROVE  /\ Stop \in Nat /\ now <= Stop /\ Stop <= Final
           /\ NativeStop \in Nat /\ Stop <= NativeStop /\ NativeStop <= LogTime
           /\ NativeStop \in {Final, LogTime} \cup PhysicalTimes
           /\ \A o \in Owners : NextTime(o) \in PhysicalTimes /\ NativeStop <= NextTime(o)
           /\ ActionTimes \subseteq PhysicalTimes
           /\ \A t \in ActionTimes : NativeStop <= t
           /\ \A t \in observations : Stop <= t
           /\ Stop < NativeStop => Stop \notin PhysicalTimes
           /\ Stop \in {NativeStop} \cup observations
<1> DEFINE S == {Final, LogTime} \cup PhysicalTimes
           R == {NativeStop} \cup observations
<1>1. /\ now \in Nat /\ now <= Final /\ Final \in Nat /\ Start \in Nat
      /\ observations \subseteq Nat
  BY Constants DEF IndInv, TypeOK
<1>2. LogTime \in Nat /\ now <= LogTime
  <2>1. nlog \in Nat /\ LogPeriod \in Nat
    BY Constants DEF IndInv, TypeOK
  <2>2. LogTime \in Nat
    BY <2>1 DEF LogTime
  <2>3. now <= LogTime \/ now < LogTime
    BY DEF IndInv, RowsAhead, Ended
  <2> QED
    BY <2>2, <2>3, <1>1
<1>3. \A o \in Owners : NextTime(o) \in Nat /\ now <= NextTime(o)
  <2> SUFFICES ASSUME NEW o \in Owners PROVE NextTime(o) \in Nat /\ now <= NextTime(o)
    OBVIOUS
  <2>1. NextTime(o) \in Int
    BY Times DEF IndInv
  <2>2. now <= NextTime(o) \/ now < NextTime(o)
    BY DEF IndInv, ClocksAhead, Ended
  <2> QED
    BY <2>1, <2>2, <1>1
<1>4. \A t \in ActionTimes : t \in Nat /\ now <= t
  <2> SUFFICES ASSUME NEW i \in next..Len(Events)
               PROVE  Events[i].t \in Nat /\ now <= Events[i].t
    BY DEF ActionTimes
  <2>1. i \in 1..Len(Events) /\ ~(i < next)
    BY EventsOrdered DEF IndInv, TypeOK
  <2> QED
    BY <2>1, <1>1, EventsOrdered DEF IndInv, EventsAhead, Ended
<1>5. \A t \in observations : now <= t
  BY <1>1 DEF IndInv, ObservationsAhead, Ended
<1>6. /\ \A o \in Owners : NextTime(o) \in PhysicalTimes
      /\ ActionTimes \subseteq PhysicalTimes
      /\ \A t \in PhysicalTimes :
             t \in ActionTimes \/ \E o \in Owners : t = NextTime(o)
  <2>1. /\ Owners = (Sampled \cup BlackBoxes) \cup Continuous
        /\ Continuous \subseteq Owners
    BY LoopAssumption DEF Owners, Sampled
  <2>2. PhysicalTimes = ActionTimes \cup {NextTime(o) : o \in Sampled \cup BlackBoxes}
                                  \cup {NextTime(o) : o \in Continuous}
    BY DEF PhysicalTimes, CircuitTimes
  <2> QED
    BY <2>1, <2>2
<1>7. S \subseteq Nat /\ S # {} /\ \A t \in S : now <= t
  BY <1>1, <1>2, <1>3, <1>4, <1>6
<1>8. NativeStop \in S /\ \A t \in S : NativeStop <= t
  BY <1>7, MinNat DEF NativeStop
<1>9. R \subseteq Nat /\ R # {} /\ \A t \in R : now <= t
  BY <1>1, <1>5, <1>7, <1>8
<1>10. Stop \in R /\ \A t \in R : Stop <= t
  BY <1>9, MinNat DEF Stop
<1>11. NativeStop <= Final /\ NativeStop <= LogTime /\ NativeStop \in Nat
  BY <1>7, <1>8
<1>12. Stop <= NativeStop /\ Stop \in Nat /\ now <= Stop
  BY <1>9, <1>10
<1>13. /\ \A o \in Owners : NativeStop <= NextTime(o)
       /\ \A t \in ActionTimes : NativeStop <= t
  BY <1>6, <1>8
<1>14. Stop <= Final
  BY <1>1, <1>11, <1>12
<1>15. Stop < NativeStop => Stop \notin PhysicalTimes
  <2>1. \A t \in PhysicalTimes : NativeStop <= t
    BY <1>8
  <2> QED
    BY <2>1, <1>11, <1>12
<1> HIDE DEF S
<1> QED
  BY <1>6, <1>8, <1>10, <1>11, <1>12, <1>13, <1>14, <1>15 DEF S

----------------------------------------------------------------------------
(***************************************************************************)
(* One lemma for each action.                                              *)
(***************************************************************************)
\* A run begins with nothing due in the past.
LEMMA InitInv == Init => IndInv
<1> SUFFICES ASSUME Init PROVE IndInv
  OBVIOUS
<1>1. NoPlant \in Plant /\ NoPlant.applied = 0 /\ NoPlant.tripped = {}
  BY Constants DEF NoPlant, Plant
<1>2. sim \in Sim
  BY <1>1, Constants DEF Init, Sim
<1>3. nlog \in Nat /\ now <= LogTime
  BY FirstRow DEF Init, LogTime
<1>4. now \in 0..Final /\ next \in 1..(Len(Events) + 1) /\ index \in [Owners -> Int]
  BY Constants, EventsOrdered DEF Init
<1>5. observations \subseteq Nat /\ wanted \subseteq Nat
      /\ \A t \in observations : now <= t
  BY LoopAssumption, Constants DEF Init
<1>6. sampled \in [Owners -> [at : Int, saw : Plant]]
  BY <1>1, Constants DEF Init
<1>7. TypeOK
  <2>1. due \in Flags /\ rows \in Seq(Nat) /\ lost \subseteq Nat /\ told \subseteq Nat
        /\ pc = "begin" /\ todo = Owners
    BY DEF Init, Idle, Flags
  <2> QED
    BY <1>2, <1>3, <1>4, <1>5, <1>6, <2>1 DEF TypeOK
<1>8. CacheCoherent /\ TripEnds /\ AtStart
  BY <1>1 DEF Init, CacheCoherent, TripEnds, AtStart
<1>9. ClocksAhead /\ RowsAhead /\ ObservationsAhead
  BY <1>3, <1>5 DEF Init, ClocksAhead, RowsAhead, ObservationsAhead, Fresh, Phases
<1>10. EventsAhead
  <2>1. sim.plant = NoPlant /\ next = 1 /\ now = Start /\ pc = "begin"
    BY DEF Init
  <2> QED
    BY <1>1, <2>1, EventsOrdered DEF EventsAhead
<1>11. SamplesSpaced /\ SamplesSee
  <2>1. \A o \in Owners : sampled[o].at = Start - 1
    BY DEF Init
  <2> QED
    BY <2>1, Constants DEF SamplesSpaced, SamplesSee
<1> QED
  BY <1>7, <1>8, <1>9, <1>10, <1>11 DEF IndInv

\* Unit.begin: the clock of the owner is set to its first instant of the run.
LEMMA BeginInv ==
    ASSUME IndInv, NEW o \in Owners, Begin(o)
    PROVE  IndInv'
<1> DEFINE jump == IF o \in Continuous THEN Touched(sim.plant, o, Start) ELSE sim.plant
           tracked == IF o \in Connected /\ ~Resumed
                      THEN ChangeUnsettled(Outputs(sim), jump) ELSE sim
           held == IF o \in Sampled THEN [tracked EXCEPT !.zoh = TRUE] ELSE tracked
           seeded == Seed(held, IF Resumed THEN {} ELSE {o})
           base == IF o \in BlackBoxes THEN sim ELSE seeded
<1>1. /\ TypeOK /\ Coherent(sim) /\ pc = "begin" /\ o \in todo
      /\ now = Start /\ due = Idle /\ sim \in Sim
      /\ ClocksAhead /\ EventsAhead /\ RowsAhead /\ ObservationsAhead /\ SamplesSpaced
  BY DEF Begin, Turn, IndInv, AtStart, Ended, CacheCoherent, Coherent, TypeOK
<1>2. /\ due' = Idle
      /\ todo # {o} => pc' = "begin" /\ todo' = todo \ {o}
      /\ todo = {o} => pc' = "head" /\ todo' = {}
  BY <1>1, TurnFacts DEF Begin, After, Idle
<1>3. Follows(sim', sim)
  <2>1. Start \in Int /\ sim.plant \in Plant
    BY <1>1, Constants DEF Sim
  <2>2. /\ jump \in Plant
        /\ jump.applied = sim.plant.applied /\ jump.tripped = sim.plant.tripped
    BY <2>1, TouchedType
  <2>3. Outputs(sim) \in Sim
    BY <1>1, OutputsFollow DEF Follows
  <2>4. Follows(tracked, sim)
    <3> HIDE DEF jump
    <3> QED
      BY <1>1, <2>2, <2>3, ChangeUnsettledType DEF Follows
  <2>5. Follows(held, tracked)
    <3> HIDE DEF tracked
    <3> QED
      BY <2>4 DEF Follows, Coherent, Sim
  <2>6. Follows(seeded, held)
    <3> HIDE DEF held
    <3> QED
      BY <2>5, SeedFollows DEF Follows
  <2>7. Follows(base, sim)
    <3> HIDE DEF seeded, held, tracked
    <3> QED
      BY <1>1, <2>4, <2>5, <2>6 DEF Follows
  <2>8. sim' = IF o \in BlackBoxes THEN [base EXCEPT !.synced = @ /\ todo # {o}]
                                   ELSE [base EXCEPT !.synced = @ /\ todo # {o}]
    BY DEF Begin
  <2> HIDE DEF base
  <2> QED
    BY <2>7, <2>8 DEF Follows, Coherent, Sim
<1>4. index' = [index EXCEPT ![o] = StartIndex(Clocks[o], Start, Resumed)]
      /\ UNCHANGED <<now, next, nlog, observations, sampled, rows, lost, wanted, told>>
  BY DEF Begin
<1>5. /\ StartIndex(Clocks[o], Start, Resumed) \in Int
      /\ Start <= ClockAt(Clocks[o], StartIndex(Clocks[o], Start, Resumed))
  BY Constants, StartIndexBound
<1>6. TypeOK'
  BY <1>1, <1>2, <1>3, <1>4, <1>5 DEF TypeOK, Follows, Phases, Flags, Idle
<1>7. CacheCoherent' /\ SamplesSee' /\ TripEnds' /\ AtStart'
  BY <1>1, <1>2, <1>3, <1>4 DEF IndInv, CacheCoherent, SamplesSee, TripEnds, AtStart, Follows,
     Coherent, Ended
<1>8. ClocksAhead'
  <2> SUFFICES ASSUME NEW p \in Owners, pc' = "begin" => p \notin todo'
               PROVE  now' <= NextTime(p)'
    BY <1>2 DEF ClocksAhead, Pending, Fresh
  <2>1. CASE p = o
    BY <2>1, <1>1, <1>4, <1>5 DEF NextTime, TypeOK
  <2>2. CASE p # o
    <3>1. p \notin todo
      BY <2>2, <1>1, <1>2 DEF TypeOK
    <3>2. now <= NextTime(p)
      BY <3>1, <1>1 DEF ClocksAhead, Pending, Fresh
    <3> QED
      BY <2>2, <3>2, <1>1, <1>4 DEF NextTime, TypeOK
  <2> QED
    BY <2>1, <2>2
<1>9. EventsAhead' /\ RowsAhead' /\ ObservationsAhead'
  BY <1>1, <1>2, <1>3, <1>4 DEF EventsAhead, RowsAhead, ObservationsAhead, Follows,
     Fresh, Phases, LogTime
<1>10. SamplesSpaced'
  <2>1. ~(\E p \in Owners : sampled'[p].at >= Start)
    BY <1>1, <1>4 DEF SamplesSpaced
  <2> QED
    BY <2>1 DEF SamplesSpaced
<1> QED
  BY <1>6, <1>7, <1>8, <1>9, <1>10 DEF IndInv

\* A limit ends the run.
LEMMA LimitInv == IndInv /\ Limit => IndInv'
<1> SUFFICES ASSUME IndInv, Limit PROVE IndInv'
  OBVIOUS
<1>1. TypeOK'
  BY DEF IndInv, Limit, TypeOK
<1>2. CacheCoherent' /\ SamplesSee' /\ TripEnds' /\ AtStart' /\ Ended'
  BY DEF IndInv, Limit, CacheCoherent, SamplesSee, TripEnds, AtStart, Ended
<1> QED
  BY <1>1, <1>2 DEF IndInv

\* An integration that fails ends the run.
LEMMA DivergeInv == IndInv /\ Diverge => IndInv'
<1> SUFFICES ASSUME IndInv, Diverge PROVE IndInv'
  OBVIOUS
<1>1. now' \in 0..Final
  <2>1. Stop \in Nat /\ Stop <= Final /\ Final \in Nat
    BY StopSpec, Constants DEF Diverge
  <2> QED
    BY <2>1 DEF Diverge, IndInv, TypeOK
<1>2. TypeOK'
  BY <1>1 DEF IndInv, Diverge, TypeOK
<1>3. CacheCoherent' /\ SamplesSee' /\ TripEnds' /\ AtStart' /\ Ended'
  BY DEF IndInv, Diverge, CacheCoherent, SamplesSee, TripEnds, AtStart, Ended
<1> QED
  BY <1>2, <1>3 DEF IndInv

\* The integration reaches the next instant and passes none.
LEMMA AdvanceInv == IndInv /\ Advance => IndInv'
<1> SUFFICES ASSUME IndInv, Advance PROVE IndInv'
  OBVIOUS
<1>1. /\ TypeOK /\ pc = "head" /\ now \in Nat /\ CacheCoherent
      /\ ClocksAhead /\ EventsAhead /\ RowsAhead /\ ObservationsAhead /\ SamplesSpaced
  BY DEF Advance, IndInv, Ended, TypeOK
<1>2. /\ now' = Stop /\ due' = DueAt(Stop)
      /\ sim' = [sim EXCEPT !.changed = FALSE, !.synced = @ /\ Stop = now]
      /\ observations' = {t \in observations : t > Stop}
      /\ UNCHANGED <<todo, index, next, nlog, sampled, rows, lost, wanted, told>>
  BY DEF Advance
<1>3. /\ pc' \in {"observe", "windows", "log"}
      /\ pc' = "observe" <=> Stop < NativeStop
      /\ pc' = "log" => Stop \notin PhysicalTimes
  <2> DEFINE between == Stop < NativeStop
             physical == Stop \in PhysicalTimes
  <2>1. ~(between /\ physical)
    BY <1>1, StopSpec
  <2>2. pc' = CASE between -> "observe" [] physical -> "windows" [] OTHER -> "log"
    BY DEF Advance
  <2> HIDE DEF between, physical
  <2>3. CASE between
    BY <2>1, <2>2, <2>3 DEF between
  <2>4. CASE physical
    BY <2>1, <2>2, <2>4 DEF between
  <2>5. CASE ~between /\ ~physical
    BY <2>2, <2>5 DEF between, physical
  <2> QED
    BY <2>3, <2>4, <2>5
<1> DEFINE s == Stop
<1>4. /\ s \in Nat /\ now <= s /\ s <= Final
      /\ NativeStop \in Nat /\ s <= NativeStop /\ NativeStop <= LogTime
      /\ \A o \in Owners : NextTime(o) \in PhysicalTimes /\ NativeStop <= NextTime(o)
      /\ ActionTimes \subseteq PhysicalTimes
      /\ \A t \in ActionTimes : NativeStop <= t
  BY <1>1, StopSpec
<1>5. now' = s /\ s \in 0..Final
  BY <1>2, <1>4, Constants
<1>6. TypeOK'
  <2>1. DueAt(s) \in Flags
    BY DEF DueAt, Flags
  <2>2. sim' \in Sim
    BY <1>1, <1>2 DEF Sim, TypeOK
  <2> HIDE DEF s
  <2> QED
    BY <1>1, <1>2, <1>3, <1>5, <2>1, <2>2 DEF TypeOK, Phases, s
<1>7. CacheCoherent' /\ SamplesSee' /\ TripEnds' /\ AtStart'
  <2>1. sim \in Sim /\ sim'.plant = sim.plant /\ sim'.view = sim.view
        /\ sim'.zoh = sim.zoh /\ (sim'.synced => sim.synced)
    BY <1>1, <1>2 DEF TypeOK, Sim
  <2> QED
    BY <1>1, <1>2, <1>3, <2>1 DEF IndInv, CacheCoherent, SamplesSee, TripEnds, AtStart, Ended
<1>8. ClocksAhead'
  <2> SUFFICES ASSUME NEW o \in Owners
               PROVE  IF Pending(o)' THEN now' <= NextTime(o)' ELSE now' < NextTime(o)'
    BY <1>3 DEF ClocksAhead
  <2>1. NextTime(o)' = NextTime(o) /\ NextTime(o) \in Int
    BY <1>1, <1>2, Times DEF NextTime
  <2>2. s <= NextTime(o) /\ NextTime(o) \in PhysicalTimes
    BY <1>4, <2>1
  <2>3. pc' = "observe" \/ pc' = "log" => s < NextTime(o)
    <3> HIDE DEF s
    <3>1. CASE pc' = "observe"
      BY <3>1, <1>3, <1>4, <2>1 DEF s
    <3>2. CASE pc' = "log"
      BY <3>2, <1>3, <1>4, <2>1, <2>2 DEF s
    <3> QED
      BY <3>1, <3>2
  <2>4. pc' # "windows" => ~Pending(o)'
    BY <1>3 DEF Pending, Fresh
  <2> HIDE DEF s
  <2>5. CASE pc' = "windows"
    <3>1. Pending(o)'
      BY <2>5 DEF Pending
    <3> QED
      BY <3>1, <1>5, <2>1, <2>2
  <2>6. CASE pc' # "windows"
    BY <2>6, <1>3, <1>5, <2>1, <2>3, <2>4
  <2> QED
    BY <2>5, <2>6
<1>9. EventsAhead'
  <2>1. sim'.plant = sim.plant
    BY <1>1, <1>2 DEF TypeOK, Sim
  <2>2. \A i \in 1..Len(Events) : i < next => Events[i].t <= s
    BY <1>1, <1>4, EventsOrdered DEF EventsAhead
  <2>3. \A i \in 1..Len(Events) : ~(i < next) =>
            s <= Events[i].t /\ (pc' # "windows" => s < Events[i].t)
    <3> SUFFICES ASSUME NEW i \in 1..Len(Events), ~(i < next)
                 PROVE  s <= Events[i].t /\ (pc' # "windows" => s < Events[i].t)
      OBVIOUS
    <3>1. Events[i].t \in ActionTimes /\ Events[i].t \in Nat
      BY <1>1, EventsOrdered DEF ActionTimes, TypeOK
    <3>2. NativeStop <= Events[i].t /\ Events[i].t \in PhysicalTimes
      BY <3>1, <1>4
    <3> HIDE DEF s
    <3>3. s <= Events[i].t
      BY <3>1, <3>2, <1>4
    <3>4. pc' = "observe" => s < Events[i].t
      BY <3>1, <3>2, <1>3, <1>4 DEF s
    <3>5. pc' = "log" => s < Events[i].t
      BY <3>1, <3>2, <3>3, <1>3, <1>4 DEF s
    <3> QED
      BY <3>3, <3>4, <3>5, <1>3
  <2>4. pc' = "windows" => (due'.event <=> now' \in ActionTimes')
    BY <1>2 DEF DueAt, ActionTimes
  <2> HIDE DEF s
  <2> QED
    BY <1>1, <1>2, <1>3, <1>5, <2>1, <2>2, <2>3, <2>4 DEF EventsAhead
<1>10. RowsAhead'
  <2>1. LogTime' = LogTime /\ LogTime \in Nat
    BY <1>1, <1>2, Constants DEF LogTime, TypeOK
  <2>2. due'.log <=> s = LogTime
    BY <1>2 DEF DueAt
  <2>3. s <= LogTime
    <3> HIDE DEF s
    <3> QED
      BY <1>4, <2>1
  <2>4. pc' = "observe" => s < LogTime
    <3> HIDE DEF s
    <3> QED
      BY <1>3, <1>4, <2>1 DEF s
  <2>5. ~Fresh' /\ pc' # "head"
    BY <1>3 DEF Fresh
  <2> HIDE DEF s
  <2> QED
    BY <1>3, <1>5, <2>1, <2>2, <2>3, <2>4, <2>5 DEF RowsAhead, Phases
<1>11. ObservationsAhead'
  <2>1. ~Fresh'
    BY <1>3 DEF Fresh
  <2>2. \A t \in observations' : t \in Nat /\ s < t
    BY <1>1, <1>2, <1>4 DEF TypeOK
  <2> QED
    BY <1>5, <2>1, <2>2 DEF ObservationsAhead
<1>12. SamplesSpaced'
  BY <1>1, <1>2, <1>3, SamplesKept
<1> QED
  BY <1>6, <1>7, <1>8, <1>9, <1>10, <1>11, <1>12 DEF IndInv

\* Closing the windows changes nothing that the plant depends on.
LEMMA CloseWindowsInv == IndInv /\ CloseWindows => IndInv'
<1> SUFFICES ASSUME IndInv, CloseWindows PROVE IndInv'
  OBVIOUS
<1>1. /\ TypeOK /\ pc = "windows" /\ now \in Nat /\ sim \in Sim /\ Coherent(sim)
      /\ ClocksAhead /\ EventsAhead /\ RowsAhead /\ ObservationsAhead /\ SamplesSpaced
  BY DEF CloseWindows, IndInv, Ended, TypeOK, CacheCoherent, Coherent
<1>2. /\ pc' = (IF due.event THEN "events" ELSE "protect")
      /\ todo' = (IF due.event THEN {} ELSE Units)
      /\ UNCHANGED <<now, index, next, nlog, observations, due, sampled, rows, lost,
                     wanted, told>>
  BY DEF CloseWindows
<1>3. Follows(sim', sim) /\ sim'.plant = sim.plant
  BY <1>1, AccumulateFollows DEF CloseWindows
<1>4. TypeOK'
  BY <1>1, <1>2, <1>3, Constants DEF TypeOK, Follows, Phases
<1>5. CacheCoherent' /\ SamplesSee' /\ TripEnds' /\ AtStart'
  BY <1>1, <1>2, <1>3 DEF IndInv, CacheCoherent, SamplesSee, TripEnds, AtStart, Follows,
     Coherent, Ended
<1>6. ClocksAhead'
  BY <1>1, <1>2 DEF ClocksAhead, Pending, NextTime
<1>7. EventsAhead'
  <2>1. /\ next \in Nat /\ next >= 1 /\ Len(Events) \in Nat
        /\ \A i \in 1..Len(Events) : i < next => Events[i].t <= now
        /\ \A i \in 1..Len(Events) : ~(i < next) => now <= Events[i].t
        /\ sim.plant.applied = next - 1
        /\ due.event <=> now \in ActionTimes
    BY <1>1, EventsOrdered DEF EventsAhead, TypeOK
  <2>2. CASE due.event
    <3>1. PICK i \in next..Len(Events) : Events[i].t = now
      BY <2>1, <2>2 DEF ActionTimes
    <3>2. next <= Len(Events) /\ next \in 1..Len(Events)
          /\ Events[next].t \in Nat /\ now <= Events[next].t
      BY <2>1, <3>1, EventsOrdered
    <3>3. Events[next].t <= Events[i].t
      BY <2>1, <3>1, <3>2, EventsOrdered
    <3>4. Events[next].t = now
      BY <1>1, <3>1, <3>2, <3>3
    <3> QED
      BY <2>1, <2>2, <3>2, <3>4, <1>2, <1>3 DEF EventsAhead
  <2>3. CASE ~due.event
    <3>1. \A i \in 1..Len(Events) : ~(i < next) => now < Events[i].t
      <4> SUFFICES ASSUME NEW i \in 1..Len(Events), ~(i < next)
                   PROVE  now < Events[i].t
        OBVIOUS
      <4>1. Events[i].t # now
        BY <2>1, <2>3 DEF ActionTimes
      <4> QED
        BY <1>1, <2>1, <4>1, EventsOrdered
    <3> QED
      BY <2>1, <2>3, <3>1, <1>2, <1>3 DEF EventsAhead
  <2> QED
    BY <2>2, <2>3
<1>8. RowsAhead' /\ ObservationsAhead'
  BY <1>1, <1>2 DEF RowsAhead, ObservationsAhead, Fresh, Phases, LogTime
<1>9. SamplesSpaced'
  BY <1>1, <1>2, SamplesKept
<1> QED
  BY <1>4, <1>5, <1>6, <1>7, <1>8, <1>9 DEF IndInv

\* A file event is applied at its time, after every earlier one.
LEMMA ApplyEventInv == IndInv /\ ApplyEvent => IndInv'
<1> SUFFICES ASSUME IndInv, ApplyEvent PROVE IndInv'
  OBVIOUS
<1>1. /\ TypeOK /\ pc = "events" /\ now \in Nat /\ sim \in Sim
      /\ ClocksAhead /\ EventsAhead /\ RowsAhead /\ ObservationsAhead /\ SamplesSpaced
  BY DEF ApplyEvent, IndInv, Ended, TypeOK
<1>2. /\ pc' = (IF More THEN "events" ELSE "protect")
      /\ todo' = (IF More THEN {} ELSE Units)
      /\ next' = next + 1
      /\ UNCHANGED <<now, index, nlog, observations, due, sampled, rows, lost,
                     wanted, told>>
  BY DEF ApplyEvent
<1>3. /\ next \in 1..Len(Events) /\ Len(Events) \in Nat /\ Events[next].t = now
      /\ sim.plant.applied = next - 1
      /\ \A i \in 1..Len(Events) : i < next => Events[i].t <= now
      /\ \A i \in 1..Len(Events) : ~(i < next) => now <= Events[i].t
  BY <1>1, EventsOrdered DEF EventsAhead, TypeOK
<1>4. /\ sim' \in Sim /\ Coherent(sim') /\ sim'.plant.applied = next
      /\ sim'.plant.tripped = sim.plant.tripped
  <2> DEFINE s == Apply(sim, Events[next])
  <2>1. s \in Sim /\ s.plant.applied = sim.plant.applied + 1
        /\ s.plant.tripped = sim.plant.tripped
    BY <1>1, <1>3, EventsOrdered, ApplyType
  <2>2. sim' = [s EXCEPT !.synced = FALSE, !.changed = TRUE]
    BY DEF ApplyEvent
  <2> HIDE DEF s
  <2>3. sim' \in Sim /\ Coherent(sim') /\ sim'.plant = s.plant
    BY <2>1, <2>2 DEF Sim, Coherent
  <2> QED
    BY <2>1, <2>3, <1>3
<1>5. TypeOK'
  BY <1>1, <1>2, <1>3, <1>4, Constants DEF TypeOK, Phases
<1>6. CacheCoherent' /\ SamplesSee' /\ TripEnds' /\ AtStart'
  BY <1>1, <1>2, <1>4 DEF IndInv, CacheCoherent, SamplesSee, TripEnds, AtStart, Coherent, Ended
<1>7. ClocksAhead'
  BY <1>1, <1>2 DEF ClocksAhead, Pending, NextTime
<1>8. EventsAhead'
  <2>1. \A i \in 1..Len(Events) : i < next + 1 => Events[i].t <= now
    <3> SUFFICES ASSUME NEW i \in 1..Len(Events), i < next + 1
                 PROVE  Events[i].t <= now
      OBVIOUS
    <3>1. i < next \/ i = next
      BY <1>3
    <3> QED
      BY <1>1, <1>3, <3>1
  <2>2. \A i \in 1..Len(Events) : ~(i < next + 1) => now <= Events[i].t
    BY <1>3
  <2>3. CASE More
    <3>1. next + 1 \in 1..Len(Events) /\ Events[next + 1].t <= now
      BY <2>3, <1>3 DEF More
    <3>2. now <= Events[next + 1].t /\ Events[next + 1].t \in Nat
      BY <3>1, <2>2, <1>3, EventsOrdered
    <3>3. next + 1 <= Len(Events) /\ Events[next + 1].t = now
      BY <1>1, <3>1, <3>2
    <3> QED
      BY <1>2, <1>3, <1>4, <2>1, <2>2, <2>3, <3>3 DEF EventsAhead
  <2>4. CASE ~More
    <3>1. \A i \in 1..Len(Events) : ~(i < next + 1) => now < Events[i].t
      <4> SUFFICES ASSUME NEW i \in 1..Len(Events), ~(i < next + 1)
                   PROVE  now < Events[i].t
        OBVIOUS
      <4>1. next + 1 \in 1..Len(Events) /\ next < Len(Events)
        BY <1>3
      <4>2. /\ Events[next + 1].t \in Nat /\ Events[i].t \in Nat
            /\ ~(Events[next + 1].t <= now)
        BY <2>4, <4>1, EventsOrdered DEF More
      <4>3. Events[next + 1].t <= Events[i].t
        <5>1. next + 1 = i \/ next + 1 < i
          BY <1>3
        <5> QED
          BY <4>1, <4>2, <5>1, EventsOrdered
      <4> QED
        BY <1>1, <4>2, <4>3
    <3> QED
      BY <1>2, <1>3, <1>4, <2>1, <2>4, <3>1 DEF EventsAhead
  <2> QED
    BY <2>3, <2>4
<1>9. RowsAhead' /\ ObservationsAhead'
  BY <1>1, <1>2 DEF RowsAhead, ObservationsAhead, Fresh, Phases, LogTime
<1>10. SamplesSpaced'
  BY <1>1, <1>2, SamplesKept
<1> QED
  BY <1>5, <1>6, <1>7, <1>8, <1>9, <1>10 DEF IndInv

\* Unit.protect: nothing of the time changes, and a trip is noted.
LEMMA ProtectInv ==
    ASSUME IndInv, NEW u \in Units, Protect(u)
    PROVE  IndInv'
<1>1. /\ TypeOK /\ pc = "protect" /\ now \in Nat /\ sim \in Sim /\ Coherent(sim)
      /\ ClocksAhead /\ EventsAhead /\ RowsAhead /\ ObservationsAhead /\ SamplesSpaced
  BY DEF Protect, Turn, IndInv, Ended, TypeOK, CacheCoherent, Coherent
<1>2. u \in Owners
  BY Constants
<1>3. PICK fault \in BOOLEAN :
          /\ Turn(u, "protect", fault)
          /\ sim' = CASE fault -> TripUnit(Outputs(sim), u, now)
                      [] ~fault /\ IsDue(u) /\ u \notin sim.plant.tripped -> Outputs(sim)
                      [] OTHER -> sim
          /\ UNCHANGED <<now, index, next, nlog, observations, sampled, rows, lost,
                         wanted, told>>
  BY DEF Protect
<1>4. /\ due' \in Flags /\ (due'.trip <=> due.trip \/ fault)
      /\ due'.log = due.log
      /\ todo # {u} => pc' = "protect" /\ todo' = todo \ {u}
      /\ todo = {u} =>
             \/ due'.trip /\ StopOnTrip /\ pc' = "final" /\ todo' = {}
             \/ ~(due'.trip /\ StopOnTrip) /\ pc' = "sense" /\ todo' = Owners
  BY <1>1, <1>2, <1>3, TurnFacts DEF After
<1>5. /\ sim' \in Sim /\ Coherent(sim') /\ sim'.plant.applied = sim.plant.applied
      /\ ~fault => sim'.plant.tripped = sim.plant.tripped
  <2>1. Outputs(sim) \in Sim /\ Coherent(Outputs(sim)) /\ Outputs(sim).plant = sim.plant
    BY <1>1, OutputsFollow DEF Follows
  <2>2. CASE fault
    <3>1. sim' = TripUnit(Outputs(sim), u, now)
      BY <1>3, <2>2
    <3> QED
      BY <1>1, <2>1, <2>2, <3>1, TripUnitType
  <2>3. CASE ~fault
    <3>1. sim' = Outputs(sim) \/ sim' = sim
      BY <1>3, <2>3
    <3> QED
      BY <1>1, <2>1, <3>1
  <2> QED
    BY <2>2, <2>3
<1>6. TypeOK'
  BY <1>1, <1>3, <1>4, <1>5, Constants DEF TypeOK, Phases
<1>7. CacheCoherent' /\ SamplesSee' /\ AtStart'
  BY <1>3, <1>4, <1>5 DEF IndInv, CacheCoherent, SamplesSee, Coherent, AtStart
<1>8. TripEnds'
  <2>1. StopOnTrip /\ sim'.plant.tripped # {} => due'.trip
    BY <1>1, <1>4, <1>5 DEF IndInv, TripEnds, Ended
  <2> QED
    BY <1>4, <2>1 DEF TripEnds, Ended
<1>9. Ended' \/ (ClocksAhead' /\ EventsAhead' /\ RowsAhead' /\ ObservationsAhead')
  <2>1. CASE pc' = "final"
    BY <2>1 DEF Ended
  <2>2. CASE pc' # "final"
    <3>1. pc' = "protect" \/ (pc' = "sense" /\ todo' = Owners)
      BY <1>4, <2>2
    <3>2. ClocksAhead'
      BY <1>1, <1>3, <3>1 DEF ClocksAhead, Pending, NextTime
    <3>3. EventsAhead'
      BY <1>1, <1>3, <1>5, <3>1 DEF EventsAhead
    <3>4. RowsAhead' /\ ObservationsAhead'
      BY <1>1, <1>3, <1>4, <3>1 DEF RowsAhead, ObservationsAhead, Fresh, Phases, LogTime
    <3> QED
      BY <3>2, <3>3, <3>4
  <2> QED
    BY <2>1, <2>2
<1>10. SamplesSpaced'
  BY <1>1, <1>3, <1>4, SamplesKept
<1> QED
  BY <1>6, <1>7, <1>8, <1>9, <1>10 DEF IndInv

\* An owner samples the present plant.
LEMMA TrackedFollows ==
    ASSUME NEW s \in Sim, Coherent(s), NEW o \in Owners, now \in Nat
    PROVE  /\ Follows(Tracked(s, o), s)
           /\ IsDue(o) => Tracked(s, o).view = Tracked(s, o).plant
<1> DEFINE read == Outputs(s)
           change == Change(read, now, Touched(read.plant, o, now))
           track == [change EXCEPT !.trackDue = @ \ {o}]
<1>1. Follows(read, s) /\ read.plant = s.plant /\ read.view = s.plant
  BY OutputsFollow
<1>2. Follows(change, read)
  <2> HIDE DEF read
  <2> QED
    BY <1>1, TouchFollows DEF Follows
<1>3. Follows(track, change)
  <2> HIDE DEF change
  <2> QED
    BY <1>2 DEF Follows, Coherent, Sim
<1>4. Follows(Outputs(track), track) /\ Outputs(track).plant = track.plant
      /\ Outputs(track).view = track.plant
  <2> HIDE DEF track
  <2> QED
    BY <1>3, OutputsFollow DEF Follows
<1>5. Tracked(s, o) = IF o \in s.trackDue THEN Outputs(track)
                      ELSE IF IsDue(o) THEN read ELSE s
  BY <1>1 DEF Tracked
<1> HIDE DEF read, change, track
<1> QED
  BY <1>1, <1>2, <1>3, <1>4, <1>5 DEF Follows

\* What a turn of the sense phase does.
LEMMA SenseFacts ==
    ASSUME IndInv, NEW o \in Owners, Sense(o)
    PROVE  /\ pc = "sense" /\ o \in todo /\ now \in Nat /\ now <= NextTime(o)
           /\ IsDue(o) <=> NextTime(o) = now
           /\ Follows(sim', sim)
           /\ due' \in Flags /\ (due'.trip <=> due.trip) /\ due'.log = due.log
           /\ todo # {o} => pc' = "sense" /\ todo' = todo \ {o}
           /\ todo = {o} => pc' = "actuate" /\ todo' = Owners
           /\ index' = [index EXCEPT ![o] = IF o \in Continuous /\ IsDue(o)
                                            THEN @ + 1 ELSE @]
           /\ IsDue(o) => sampled' = [sampled EXCEPT ![o] = [at |-> now, saw |-> sim'.plant]]
           /\ ~IsDue(o) => sampled' = sampled
           /\ UNCHANGED <<now, next, nlog, observations, rows, lost, wanted, told>>
<1>1. /\ TypeOK /\ pc = "sense" /\ o \in todo /\ now \in Nat /\ sim \in Sim
      /\ Coherent(sim) /\ ClocksAhead /\ Turn(o, "sense", FALSE)
  BY DEF Sense, Turn, IndInv, Ended, TypeOK, CacheCoherent, Coherent
<1>2. now <= NextTime(o) /\ (IsDue(o) <=> NextTime(o) = now)
  BY <1>1, DueNow DEF Pending
<1>3. /\ due' \in Flags /\ (due'.trip <=> due.trip) /\ due'.log = due.log
      /\ todo # {o} => pc' = "sense" /\ todo' = todo \ {o}
      /\ todo = {o} => pc' = "actuate" /\ todo' = Owners
  BY <1>1, TurnFacts DEF After
<1> DEFINE read == Tracked(sim, o)
<1>4. Follows(read, sim) /\ (IsDue(o) => read.view = read.plant)
  BY <1>1, TrackedFollows
<1>5. PICK fault \in BOOLEAN :
          /\ fault => o \in Units
          /\ sim' = IF fault THEN [read EXCEPT !.tripDue = @ \cup {o}] ELSE read
  BY DEF Sense
<1>6. Follows(sim', sim) /\ sim'.plant = read.plant
  <2> HIDE DEF read
  <2> QED
    BY <1>4, <1>5 DEF Follows, Coherent, Sim
<1>7. /\ index' = [index EXCEPT ![o] = IF o \in Continuous /\ IsDue(o)
                                       THEN @ + 1 ELSE @]
      /\ sampled' = [sampled EXCEPT ![o] = IF IsDue(o)
                         THEN [at |-> now, saw |-> read.view] ELSE @]
      /\ UNCHANGED <<now, next, nlog, observations, rows, lost, wanted, told>>
  BY DEF Sense
<1>8. /\ IsDue(o) => sampled' = [sampled EXCEPT ![o] = [at |-> now, saw |-> sim'.plant]]
      /\ ~IsDue(o) => sampled' = sampled
  <2> HIDE DEF read
  <2> QED
    BY <1>1, <1>4, <1>6, <1>7 DEF TypeOK
<1> HIDE DEF read
<1> QED
  BY <1>1, <1>2, <1>3, <1>6, <1>7, <1>8

\* sense of an owner: a continuous unit moves its clock, the others keep
\* theirs until they actuate.
LEMMA SenseInv ==
    ASSUME IndInv, NEW o \in Owners, Sense(o)
    PROVE  IndInv'
<1>1. /\ TypeOK /\ pc = "sense" /\ o \in todo /\ now \in Nat /\ sim \in Sim
      /\ ClocksAhead /\ EventsAhead /\ RowsAhead /\ ObservationsAhead /\ SamplesSpaced
  BY SenseFacts DEF IndInv, Ended, TypeOK
<1>2. /\ now <= NextTime(o)
      /\ IsDue(o) <=> NextTime(o) = now
      /\ Follows(sim', sim)
      /\ due' \in Flags /\ (due'.trip <=> due.trip) /\ due'.log = due.log
      /\ todo # {o} => pc' = "sense" /\ todo' = todo \ {o}
      /\ todo = {o} => pc' = "actuate" /\ todo' = Owners
      /\ index' = [index EXCEPT ![o] = IF o \in Continuous /\ IsDue(o)
                                       THEN @ + 1 ELSE @]
      /\ IsDue(o) => sampled' = [sampled EXCEPT ![o] = [at |-> now, saw |-> sim'.plant]]
      /\ ~IsDue(o) => sampled' = sampled
      /\ UNCHANGED <<now, next, nlog, observations, rows, lost, wanted, told>>
  BY SenseFacts
<1>3. /\ \A p \in Owners \ {o} : NextTime(p)' = NextTime(p) /\ sampled'[p] = sampled[p]
      /\ o \in Continuous /\ IsDue(o) => NextTime(o)' = now + Clocks[o].period
      /\ ~(o \in Continuous /\ IsDue(o)) => NextTime(o)' = NextTime(o)
      /\ NextTime(o) \in Int /\ Clocks[o].period \in Nat /\ Clocks[o].period > 0
      /\ index' \in [Owners -> Int]
  <2>1. index[o] + 1 \in Int /\ NextTime(o) \in Int
        /\ ClockAt(Clocks[o], index[o] + 1) = NextTime(o) + Clocks[o].period
    BY <1>1, Times
  <2>2. index' \in [Owners -> Int]
    BY <1>1, <1>2, <2>1 DEF TypeOK
  <2>3. \A p \in Owners \ {o} : NextTime(p)' = NextTime(p) /\ sampled'[p] = sampled[p]
    BY <1>1, <1>2 DEF TypeOK, NextTime
  <2>4. o \in Continuous /\ IsDue(o) => NextTime(o)' = now + Clocks[o].period
    BY <1>1, <1>2, <2>1 DEF TypeOK, NextTime
  <2>5. ~(o \in Continuous /\ IsDue(o)) => NextTime(o)' = NextTime(o)
    BY <1>1, <1>2 DEF TypeOK, NextTime
  <2> QED
    BY <2>1, <2>2, <2>3, <2>4, <2>5, Constants
<1>4. TypeOK'
  <2>1. sampled' \in [Owners -> [at : Int, saw : Plant]]
    <3> DEFINE q == [at |-> now, saw |-> sim'.plant]
    <3>1. q \in [at : Int, saw : Plant]
      BY <1>1, <1>2 DEF Follows, Sim
    <3>2. sampled' = sampled \/ sampled' = [sampled EXCEPT ![o] = q]
      BY <1>2
    <3> HIDE DEF q
    <3> QED
      BY <1>1, <3>1, <3>2 DEF TypeOK
  <2>2. todo' \subseteq Owners /\ pc' \in {"sense", "actuate"} /\ sim' \in Sim
    BY <1>1, <1>2 DEF TypeOK, Follows
  <2> QED
    BY <1>1, <1>2, <1>3, <2>1, <2>2 DEF TypeOK, Phases
<1>5. CacheCoherent' /\ AtStart' /\ TripEnds'
  BY <1>1, <1>2 DEF IndInv, CacheCoherent, AtStart, TripEnds, Follows, Coherent, Ended
<1>6. ClocksAhead'
  <2> SUFFICES ASSUME NEW p \in Owners
               PROVE  IF Pending(p)' THEN now' <= NextTime(p)' ELSE now' < NextTime(p)'
    BY <1>1, <1>2 DEF ClocksAhead
  <2>1. CASE p = o
    <3>1. CASE o \in Continuous
      <4>1. ~Pending(p)'
        BY <1>1, <1>2, <2>1, <3>1 DEF Pending, Fresh
      <4>2. now < NextTime(o)'
        BY <1>1, <1>2, <1>3, <3>1
      <4> QED
        BY <1>2, <2>1, <4>1, <4>2
    <3>2. CASE o \notin Continuous
      <4>1. Pending(p)'
        BY <1>1, <1>2, <2>1, <3>2 DEF Pending
      <4>2. now <= NextTime(o)'
        BY <1>2, <1>3, <3>2
      <4> QED
        BY <1>2, <2>1, <4>1, <4>2
    <3> QED
      BY <3>1, <3>2
  <2>2. CASE p # o
    <3>1. Pending(p)' <=> Pending(p)
      BY <1>1, <1>2, <2>2 DEF Pending, Fresh
    <3>2. IF Pending(p) THEN now <= NextTime(p) ELSE now < NextTime(p)
      BY <1>1 DEF ClocksAhead
    <3> QED
      BY <1>2, <1>3, <2>2, <3>1, <3>2
  <2> QED
    BY <2>1, <2>2
<1>7. EventsAhead'
  BY <1>1, <1>2 DEF EventsAhead, Follows
<1>8. RowsAhead' /\ ObservationsAhead'
  BY <1>1, <1>2 DEF RowsAhead, ObservationsAhead, Fresh, Phases, LogTime
<1>9. ASSUME IsDue(o)
      PROVE  /\ sampled'[o].at = now /\ sampled'[o].saw = sim'.plant
             /\ {i \in 1..Len(Events) : Events[i].t <= now} = 1..sampled'[o].saw.applied
  <2>1. sampled'[o].at = now /\ sampled'[o].saw = sim'.plant
    BY <1>1, <1>2, <1>9 DEF TypeOK
  <2>2. sampled'[o].saw.applied = next - 1
    BY <1>1, <1>2, <2>1 DEF EventsAhead, Follows
  <2>3. \A i \in 1..Len(Events) :
            /\ i < next => Events[i].t <= now
            /\ ~(i < next) => now < Events[i].t
    BY <1>1 DEF EventsAhead
  <2>4. \A i \in 1..Len(Events) : Events[i].t <= now <=> i < next
    BY <1>1, <2>3, EventsOrdered
  <2>5. {i \in 1..Len(Events) : Events[i].t <= now} = 1..(next - 1)
    BY <1>1, <2>4, EventsOrdered DEF TypeOK
  <2> QED
    BY <2>1, <2>2, <2>5
<1>10. SamplesSee'
  <2> SUFFICES ASSUME NEW p \in Owners, sampled'[p].at >= Start
               PROVE  {i \in 1..Len(Events) : Events[i].t <= sampled'[p].at}
                          = 1..sampled'[p].saw.applied
    BY DEF SamplesSee
  <2>1. CASE p = o /\ IsDue(o)
    BY <1>9, <2>1
  <2>2. CASE ~(p = o /\ IsDue(o))
    <3>1. sampled'[p] = sampled[p]
      BY <1>2, <1>3, <2>2
    <3> QED
      BY <3>1 DEF IndInv, SamplesSee
  <2> QED
    BY <2>1, <2>2
<1>11. SamplesSpaced'
  <2> SUFFICES ASSUME NEW p \in Owners, sampled'[p].at >= Start
               PROVE  NextTime(p)' = IF HalfDone(p)' THEN sampled'[p].at
                                     ELSE sampled'[p].at + Clocks[p].period
    BY <1>1, <1>2 DEF SamplesSpaced
  <2>1. CASE p # o
    <3>1. HalfDone(p)' <=> HalfDone(p)
      BY <1>1, <1>2, <1>3, <2>1 DEF HalfDone
    <3> QED
      BY <1>1, <1>3, <2>1, <3>1 DEF SamplesSpaced
  <2>2. CASE p = o /\ IsDue(o)
    <3>1. HalfDone(o)' <=> o \notin Continuous
      BY <1>1, <1>2, <1>3, <2>2 DEF HalfDone
    <3>2. NextTime(o)' = IF HalfDone(o)' THEN now ELSE now + Clocks[o].period
      BY <1>2, <1>3, <2>2, <3>1
    <3> QED
      BY <1>9, <2>2, <3>2
  <2>3. CASE p = o /\ ~IsDue(o)
    <3>1. ~HalfDone(p)' /\ ~HalfDone(p)
      BY <1>1, <1>2, <1>3, <2>3 DEF HalfDone
    <3> QED
      BY <1>1, <1>2, <1>3, <2>3, <3>1 DEF SamplesSpaced
  <2> QED
    BY <2>1, <2>2, <2>3
<1> QED
  BY <1>4, <1>5, <1>6, <1>7, <1>8, <1>10, <1>11 DEF IndInv

\* The bridge of a sampled unit applies no event and trips nothing.
LEMMA DriveFollows ==
    ASSUME NEW s \in Sim, Coherent(s), NEW u \in Units, now \in Nat, NEW d \in Drive(s, u)
    PROVE  Follows(d, s)
<1> DEFINE change == Change(s, now, Touched(s.plant, u, now))
<1>1. u \in Owners /\ now \in Int
  BY Constants
<1>2. Follows(s, s) /\ Follows(change, s)
  BY <1>1, TouchFollows DEF Follows
<1>3. Follows(Hold(s, u, now), s) /\ Follows(Hold(change, u, now), change)
  <2> HIDE DEF change
  <2> QED
    BY <1>1, <1>2, HoldFollows DEF Follows
<1>4. Follows([s EXCEPT !.zoh = TRUE], s)
  BY DEF Follows, Coherent, Sim
<1>5. d \in {Hold(s, u, now), Hold(change, u, now), s, [s EXCEPT !.zoh = TRUE]}
  <2>1. d \in IF Enabled(s, u)
              THEN IF IsDue(u) THEN {Hold(s, u, now), Hold(change, u, now)} ELSE {s}
              ELSE {IF u \in Unfiltered THEN [s EXCEPT !.zoh = TRUE] ELSE s}
    BY DEF Drive
  <2> HIDE DEF change
  <2> QED
    BY <2>1
<1> HIDE DEF change
<1> QED
  BY <1>2, <1>3, <1>4, <1>5 DEF Follows

\* What a turn of the actuate phase does.
LEMMA ActuateFacts ==
    ASSUME IndInv, NEW o \in Owners, Actuate(o)
    PROVE  /\ pc = "actuate" /\ o \in todo /\ now \in Nat
           /\ o \notin Continuous => /\ now <= NextTime(o)
                                     /\ IsDue(o) <=> NextTime(o) = now
           /\ sim' \in Sim /\ Coherent(sim') /\ sim'.plant.applied = sim.plant.applied
           /\ due' \in Flags /\ due'.log = due.log
           /\ due'.trip \/ (sim'.plant.tripped = sim.plant.tripped /\ ~due.trip)
           /\ todo # {o} => pc' = "actuate" /\ todo' = todo \ {o}
           /\ todo = {o} => /\ todo' = {}
                            /\ pc' = IF due'.trip /\ StopOnTrip THEN "final" ELSE "edge"
           /\ index' = [index EXCEPT ![o] = IF o \notin Continuous /\ IsDue(o)
                                            THEN @ + 1 ELSE @]
           /\ UNCHANGED <<now, next, nlog, observations, sampled, rows, lost, wanted, told>>
<1> DEFINE trips == o \in sim.tripDue
           tripped == IF trips THEN TripUnit(sim, o, now) ELSE sim
<1>1. /\ TypeOK /\ pc = "actuate" /\ o \in todo /\ now \in Nat /\ sim \in Sim
      /\ Coherent(sim) /\ ClocksAhead /\ Turn(o, "actuate", trips)
      /\ trips \in BOOLEAN
  BY DEF Actuate, Turn, IndInv, Ended, TypeOK, CacheCoherent, Coherent
<1>2. o \notin Continuous => now <= NextTime(o) /\ (IsDue(o) <=> NextTime(o) = now)
  BY <1>1, DueNow DEF Pending
<1>3. /\ due' \in Flags /\ (due'.trip <=> due.trip \/ trips) /\ due'.log = due.log
      /\ todo # {o} => pc' = "actuate" /\ todo' = todo \ {o}
      /\ todo = {o} => /\ todo' = {}
                       /\ pc' = IF due'.trip /\ StopOnTrip THEN "final" ELSE "edge"
  <2> HIDE DEF trips
  <2> QED
    BY <1>1, TurnFacts DEF After
<1>4. /\ tripped \in Sim /\ Coherent(tripped)
      /\ tripped.plant.applied = sim.plant.applied
      /\ ~trips => tripped.plant.tripped = sim.plant.tripped
  <2>1. CASE trips
    <3>1. o \in Units
      BY <1>1, <2>1 DEF Sim
    <3> QED
      BY <1>1, <2>1, <3>1, TripUnitType
  <2>2. CASE ~trips
    BY <1>1, <2>2
  <2> QED
    BY <2>1, <2>2
<1>5. /\ sim' \in Sim /\ Coherent(sim') /\ sim'.plant.applied = sim.plant.applied
      /\ ~trips => sim'.plant.tripped = sim.plant.tripped
  <2>1. sim' \in CASE o \in Sampled -> Drive(tripped, o)
                   [] o \in BlackBoxes /\ IsDue(o) ->
                          {Change(sim, now, Touched(sim.plant, o, now))}
                   [] OTHER -> {tripped}
    BY DEF Actuate
  <2> HIDE DEF trips, tripped
  <2>2. CASE o \in Sampled
    <3>1. o \in Units /\ ~(o \in BlackBoxes)
      BY <2>2, Constants DEF Sampled
    <3>2. sim' \in Drive(tripped, o)
      BY <2>1, <2>2, <3>1
    <3> QED
      BY <1>1, <1>4, <3>1, <3>2, DriveFollows DEF Follows
  <2>3. CASE o \notin Sampled /\ o \in BlackBoxes /\ IsDue(o)
    <3>1. sim' = Change(sim, now, Touched(sim.plant, o, now))
      BY <2>1, <2>3
    <3> QED
      BY <1>1, <3>1, TouchFollows DEF Follows
  <2>4. CASE o \notin Sampled /\ ~(o \in BlackBoxes /\ IsDue(o))
    <3>1. sim' = tripped
      BY <2>1, <2>4
    <3> QED
      BY <1>4, <3>1
  <2> QED
    BY <2>2, <2>3, <2>4
<1>6. /\ index' = [index EXCEPT ![o] = IF o \notin Continuous /\ IsDue(o)
                                       THEN @ + 1 ELSE @]
      /\ UNCHANGED <<now, next, nlog, observations, sampled, rows, lost, wanted, told>>
  BY DEF Actuate
<1> HIDE DEF trips, tripped
<1> QED
  BY <1>1, <1>2, <1>3, <1>5, <1>6

\* actuate of an owner: the clocks that sampling left are moved.
LEMMA ActuateInv ==
    ASSUME IndInv, NEW o \in Owners, Actuate(o)
    PROVE  IndInv'
<1>1. /\ TypeOK /\ pc = "actuate" /\ o \in todo /\ now \in Nat /\ sim \in Sim
      /\ ClocksAhead /\ EventsAhead /\ RowsAhead /\ ObservationsAhead /\ SamplesSpaced
  BY ActuateFacts DEF IndInv, Ended, TypeOK
<1>2. /\ o \notin Continuous => /\ now <= NextTime(o)
                                /\ IsDue(o) <=> NextTime(o) = now
      /\ sim' \in Sim /\ Coherent(sim') /\ sim'.plant.applied = sim.plant.applied
      /\ due' \in Flags /\ due'.log = due.log
      /\ due'.trip \/ (sim'.plant.tripped = sim.plant.tripped /\ ~due.trip)
      /\ todo # {o} => pc' = "actuate" /\ todo' = todo \ {o}
      /\ todo = {o} => /\ todo' = {}
                       /\ pc' = IF due'.trip /\ StopOnTrip THEN "final" ELSE "edge"
      /\ index' = [index EXCEPT ![o] = IF o \notin Continuous /\ IsDue(o)
                                       THEN @ + 1 ELSE @]
      /\ UNCHANGED <<now, next, nlog, observations, sampled, rows, lost, wanted, told>>
  BY ActuateFacts
<1>3. /\ \A p \in Owners \ {o} : NextTime(p)' = NextTime(p)
      /\ o \notin Continuous /\ IsDue(o) => NextTime(o)' = now + Clocks[o].period
      /\ ~(o \notin Continuous /\ IsDue(o)) => NextTime(o)' = NextTime(o)
      /\ NextTime(o) \in Int /\ Clocks[o].period \in Nat /\ Clocks[o].period > 0
      /\ index' \in [Owners -> Int]
  <2>1. index[o] + 1 \in Int /\ NextTime(o) \in Int
        /\ ClockAt(Clocks[o], index[o] + 1) = NextTime(o) + Clocks[o].period
    BY <1>1, Times
  <2>2. index' \in [Owners -> Int]
    BY <1>1, <1>2, <2>1 DEF TypeOK
  <2>3. \A p \in Owners \ {o} : NextTime(p)' = NextTime(p)
    BY <1>1, <1>2 DEF TypeOK, NextTime
  <2>4. o \notin Continuous /\ IsDue(o) => NextTime(o)' = now + Clocks[o].period
    BY <1>1, <1>2, <2>1 DEF TypeOK, NextTime
  <2>5. ~(o \notin Continuous /\ IsDue(o)) => NextTime(o)' = NextTime(o)
    BY <1>1, <1>2 DEF TypeOK, NextTime
  <2> QED
    BY <2>1, <2>2, <2>3, <2>4, <2>5, Constants
<1>4. /\ pc' \in {"actuate", "edge", "final"} /\ todo' \subseteq Owners
      /\ pc' = "actuate" => todo' = todo \ {o}
      /\ pc' = "edge" => todo = {o}
      /\ pc' # "final" => \A p \in Owners \ {o} :
             pc' = "actuate" /\ p \in todo' <=> p \in todo
  BY <1>1, <1>2 DEF TypeOK
<1>5. TypeOK'
  BY <1>1, <1>2, <1>3, <1>4 DEF TypeOK, Phases
<1>6. CacheCoherent' /\ SamplesSee' /\ AtStart'
  BY <1>2, <1>4 DEF IndInv, CacheCoherent, SamplesSee, AtStart, Coherent
<1>7. TripEnds'
  <2>1. StopOnTrip /\ sim'.plant.tripped # {} => due'.trip
    BY <1>1, <1>2 DEF IndInv, TripEnds, Ended
  <2> QED
    BY <1>2, <1>4, <2>1 DEF TripEnds, Ended
<1>8. ASSUME pc' # "final" PROVE ClocksAhead'
  <2> SUFFICES ASSUME NEW p \in Owners
               PROVE  IF Pending(p)' THEN now' <= NextTime(p)' ELSE now' < NextTime(p)'
    BY <1>4 DEF ClocksAhead
  <2>1. CASE p = o
    <3>1. ~Pending(p)'
      BY <1>4, <2>1, <1>8 DEF Pending, Fresh
    <3>2. now < NextTime(o)'
      <4>1. CASE o \in Continuous
        BY <4>1, <1>1, <1>3 DEF ClocksAhead, Pending, Fresh
      <4>2. CASE o \notin Continuous
        BY <4>2, <1>1, <1>2, <1>3
      <4> QED
        BY <4>1, <4>2
    <3> QED
      BY <1>2, <2>1, <3>1, <3>2
  <2>2. CASE p # o
    <3>1. Pending(p)' <=> Pending(p)
      BY <1>1, <1>4, <1>8, <2>2 DEF Pending, Fresh
    <3>2. IF Pending(p) THEN now <= NextTime(p) ELSE now < NextTime(p)
      BY <1>1 DEF ClocksAhead
    <3> QED
      BY <1>2, <1>3, <2>2, <3>1, <3>2
  <2> QED
    BY <2>1, <2>2
<1>9. EventsAhead'
  BY <1>1, <1>2, <1>4 DEF EventsAhead
<1>10. RowsAhead' /\ ObservationsAhead'
  BY <1>1, <1>2, <1>4 DEF RowsAhead, ObservationsAhead, Fresh, Phases, LogTime
<1>11. ASSUME pc' # "final" PROVE SamplesSpaced'
  <2> SUFFICES ASSUME NEW p \in Owners, sampled[p].at >= Start
               PROVE  NextTime(p)' = IF HalfDone(p)' THEN sampled[p].at
                                     ELSE sampled[p].at + Clocks[p].period
    BY <1>1, <1>2, <1>4 DEF SamplesSpaced
  <2>1. CASE p # o
    <3>1. HalfDone(p)' <=> HalfDone(p)
      BY <1>1, <1>2, <1>3, <1>4, <1>11, <2>1 DEF HalfDone
    <3> QED
      BY <1>1, <1>3, <2>1, <3>1 DEF SamplesSpaced
  <2>2. CASE p = o
    <3>1. ~HalfDone(o)'
      BY <1>4, <1>11 DEF HalfDone
    <3>2. HalfDone(o) <=> o \notin Continuous /\ IsDue(o)
      BY <1>1, <1>2 DEF HalfDone
    <3> QED
      BY <1>1, <1>2, <1>3, <2>2, <3>1, <3>2 DEF SamplesSpaced
  <2> QED
    BY <2>1, <2>2
<1> QED
  BY <1>4, <1>5, <1>6, <1>7, <1>8, <1>9, <1>10, <1>11 DEF IndInv, Ended

\* window_edge changes only windows and the cache.
LEMMA WindowEdgeInv == IndInv /\ WindowEdge => IndInv'
<1> SUFFICES ASSUME IndInv, WindowEdge PROVE IndInv'
  OBVIOUS
<1>1. /\ TypeOK /\ pc = "edge" /\ sim \in Sim /\ Coherent(sim)
      /\ ClocksAhead /\ EventsAhead /\ RowsAhead /\ ObservationsAhead /\ SamplesSpaced
      /\ pc' = "log"
      /\ UNCHANGED <<todo, now, index, next, nlog, observations, due, sampled, rows,
                     lost, wanted, told>>
  BY DEF WindowEdge, IndInv, Ended, TypeOK, CacheCoherent, Coherent
<1>2. Follows(sim', sim)
  <2>1. Follows(Seed(sim, Windowed), sim) /\ Follows(sim, sim)
    BY <1>1, SeedFollows DEF Follows
  <2> QED
    BY <2>1 DEF WindowEdge
<1>3. TypeOK'
  BY <1>1, <1>2 DEF TypeOK, Follows, Phases
<1>4. CacheCoherent' /\ SamplesSee' /\ TripEnds' /\ AtStart'
  BY <1>1, <1>2 DEF IndInv, CacheCoherent, SamplesSee, TripEnds, AtStart, Follows, Coherent, Ended
<1>5. ClocksAhead'
  BY <1>1 DEF ClocksAhead, Pending, Fresh, NextTime
<1>6. EventsAhead' /\ RowsAhead' /\ ObservationsAhead'
  BY <1>1, <1>2 DEF EventsAhead, RowsAhead, ObservationsAhead, Follows, Fresh, Phases,
     LogTime
<1>7. SamplesSpaced'
  BY <1>1, SamplesKept
<1> QED
  BY <1>3, <1>4, <1>5, <1>6, <1>7 DEF IndInv

\* A snapshot adds a row or observations of the future, and applies nothing.
LEMMA SnapshotFacts ==
    ASSUME TypeOK, Coherent(sim), NEW record, NEW notify, Snapshot(record, notify)
    PROVE  /\ Follows(sim', sim) /\ sim'.plant = sim.plant
           /\ rows' \in Seq(Nat) /\ lost' \subseteq Nat /\ wanted' \subseteq Nat
           /\ told' \subseteq Nat
           /\ observations' \subseteq Nat
           /\ \A t \in observations' : t \in observations \/ now < t
<1>1. /\ sim \in Sim /\ now \in Nat /\ rows \in Seq(Nat) /\ lost \subseteq Nat
      /\ wanted \subseteq Nat /\ told \subseteq Nat /\ observations \subseteq Nat
  BY DEF TypeOK
<1>2. Follows(Outputs(sim), sim) /\ Outputs(sim).plant = sim.plant /\ Follows(sim, sim)
  BY <1>1, OutputsFollow DEF Follows
<1>3. ASSUME Call
      PROVE  /\ wanted' \subseteq Nat /\ told' \subseteq Nat /\ observations' \subseteq Nat
             /\ \A t \in observations' : t \in observations \/ now < t
  <2>1. PICK asked \in SUBSET ((now + 1)..Final) :
            observations' = observations \cup asked /\ wanted' = wanted \cup asked
    BY <1>3 DEF Call
  <2>2. \A t \in asked : t \in Nat /\ now < t
    BY <1>1, Constants
  <2> QED
    BY <1>1, <1>3, <2>1, <2>2 DEF Call
<1>4. CASE /\ rows' = IF record THEN Append(rows, now) ELSE rows
           /\ IF notify THEN Call ELSE UNCHANGED <<observations, wanted, told>>
           /\ sim' = Outputs(sim) /\ UNCHANGED lost
  <2>1. rows' \in Seq(Nat)
    BY <1>1, <1>4
  <2>2. CASE notify
    BY <1>1, <1>2, <1>3, <1>4, <2>1, <2>2
  <2>3. CASE ~notify
    BY <1>1, <1>2, <1>4, <2>1, <2>3
  <2> QED
    BY <2>2, <2>3
<1>5. CASE /\ lost' = lost \cup {now}
           /\ UNCHANGED <<sim, rows, observations, wanted, told>>
  BY <1>1, <1>2, <1>5
<1> QED
  BY <1>4, <1>5 DEF Snapshot

\* The end of an iteration: the row due here is no longer to come.
LEMMA LogInv == IndInv /\ Log => IndInv'
<1> SUFFICES ASSUME IndInv, Log PROVE IndInv'
  OBVIOUS
<1>1. /\ TypeOK /\ pc = "log" /\ sim \in Sim /\ Coherent(sim)
      /\ now \in Nat /\ nlog \in Nat /\ observations \subseteq Nat
      /\ ClocksAhead /\ EventsAhead /\ RowsAhead /\ ObservationsAhead /\ SamplesSpaced
  <2>1. pc = "log"
    BY Zenon DEF Log
  <2> QED
    BY <2>1 DEF IndInv, Ended, TypeOK, CacheCoherent, Coherent
<1>2. /\ UNCHANGED <<todo, now, index, next, due, sampled>>
      /\ \/ /\ now = Final /\ pc' = "final" /\ nlog' = nlog
            /\ UNCHANGED <<sim, rows, lost, observations, wanted, told>>
         \/ /\ now # Final /\ pc' = "head"
            /\ \/ Snapshot(due.log, Noticed)
               \/ UNCHANGED <<sim, rows, lost, observations, wanted, told>>
            /\ nlog' = IF due.log THEN nlog + 1 ELSE nlog
  BY Zenon DEF Log, Logged
<1>3. /\ Follows(sim', sim) /\ sim'.plant = sim.plant
      /\ rows' \in Seq(Nat) /\ lost' \subseteq Nat /\ wanted' \subseteq Nat
      /\ told' \subseteq Nat /\ observations' \subseteq Nat
      /\ \A t \in observations' : t \in observations \/ now < t
  <2>1. CASE UNCHANGED <<sim, rows, lost, observations, wanted, told>>
    BY <1>1, <2>1 DEF TypeOK, Follows
  <2>2. CASE Snapshot(due.log, Noticed)
    BY <1>1, <2>2, SnapshotFacts
  <2> QED
    BY <1>2, <2>1, <2>2
<1>4. /\ pc' \in {"head", "final"} /\ (pc' = "final" <=> now = Final)
      /\ nlog' \in Nat
      /\ now # Final => nlog' = IF due.log THEN nlog + 1 ELSE nlog
      /\ UNCHANGED <<todo, now, index, next, due, sampled>>
  BY <1>1, <1>2
<1>5. TypeOK'
  BY <1>1, <1>3, <1>4 DEF TypeOK, Follows
<1>6. CacheCoherent' /\ SamplesSee' /\ TripEnds' /\ AtStart'
  BY <1>1, <1>3, <1>4 DEF IndInv, CacheCoherent, SamplesSee, TripEnds, AtStart, Follows, Coherent,
     Ended
<1>7. ClocksAhead'
  <2> SUFFICES ASSUME NEW o \in Owners
               PROVE  now' < NextTime(o)' /\ now' <= NextTime(o)'
    BY <1>4 DEF ClocksAhead
  <2>1. now < NextTime(o) /\ NextTime(o) \in Int /\ NextTime(o)' = NextTime(o)
    BY <1>1, <1>4, Times DEF ClocksAhead, Pending, Fresh, NextTime
  <2> QED
    BY <1>1, <1>4, <2>1
<1>8. EventsAhead'
  BY <1>1, <1>3, <1>4 DEF EventsAhead
<1>9. RowsAhead' \/ Ended'
  <2>1. CASE now = Final
    BY <1>4, <2>1 DEF Ended
  <2>2. CASE now # Final
    <3>1. nlog * LogPeriod \in Nat
          /\ (nlog + 1) * LogPeriod = nlog * LogPeriod + LogPeriod
      BY <1>1, Constants
    <3>2. now <= nlog * LogPeriod /\ (due.log <=> now = nlog * LogPeriod)
      BY <1>1 DEF RowsAhead, Phases, LogTime
    <3>3. LogTime' = IF due.log THEN nlog * LogPeriod + LogPeriod ELSE nlog * LogPeriod
      BY <1>4, <2>2, <3>1 DEF LogTime
    <3>4. now < LogTime' /\ now <= LogTime'
      BY <1>1, <3>1, <3>2, <3>3, Constants
    <3> QED
      BY <1>4, <2>2, <3>4 DEF RowsAhead, Phases
  <2> QED
    BY <2>1, <2>2
<1>10. ObservationsAhead'
  <2> SUFFICES ASSUME NEW t \in observations' PROVE now' < t /\ now' <= t
    BY DEF ObservationsAhead
  <2>1. now < t /\ t \in Nat
    BY <1>1, <1>3 DEF ObservationsAhead, Fresh
  <2> QED
    BY <1>1, <1>4, <2>1
<1>11. SamplesSpaced'
  BY <1>1, <1>4, SamplesKept
<1> QED
  BY <1>5, <1>6, <1>7, <1>8, <1>9, <1>10, <1>11 DEF IndInv

\* An instant at which only an observation is due.
LEMMA ObserveInv == IndInv /\ Observe => IndInv'
<1> SUFFICES ASSUME IndInv, Observe PROVE IndInv'
  OBVIOUS
<1>1. /\ TypeOK /\ pc = "observe" /\ sim \in Sim /\ Coherent(sim)
      /\ now \in Nat /\ nlog \in Nat /\ observations \subseteq Nat
      /\ ClocksAhead /\ EventsAhead /\ RowsAhead /\ ObservationsAhead /\ SamplesSpaced
      /\ pc' = "head" /\ UNCHANGED <<todo, now, index, next, nlog, due, sampled>>
      /\ Snapshot(FALSE, TRUE)
  <2>1. /\ pc = "observe" /\ pc' = "head" /\ Snapshot(FALSE, TRUE)
        /\ UNCHANGED <<todo, now, index, next, nlog, due, sampled>>
    BY Zenon DEF Observe
  <2>2. /\ TypeOK /\ sim \in Sim /\ Coherent(sim)
        /\ now \in Nat /\ nlog \in Nat /\ observations \subseteq Nat
        /\ ClocksAhead /\ EventsAhead /\ RowsAhead /\ ObservationsAhead /\ SamplesSpaced
    BY <2>1 DEF IndInv, Ended, TypeOK, CacheCoherent, Coherent
  <2> QED
    BY Zenon, <2>1, <2>2
<1>2. /\ Follows(sim', sim) /\ sim'.plant = sim.plant
      /\ rows' \in Seq(Nat) /\ lost' \subseteq Nat /\ wanted' \subseteq Nat
      /\ told' \subseteq Nat /\ observations' \subseteq Nat
      /\ \A t \in observations' : t \in observations \/ now < t
  BY <1>1, SnapshotFacts
<1>3. TypeOK'
  BY <1>1, <1>2 DEF TypeOK, Follows
<1>4. CacheCoherent' /\ SamplesSee' /\ TripEnds' /\ AtStart'
  BY <1>1, <1>2 DEF IndInv, CacheCoherent, SamplesSee, TripEnds, AtStart, Follows, Coherent, Ended
<1>5. ClocksAhead'
  <2> SUFFICES ASSUME NEW o \in Owners
               PROVE  now' < NextTime(o)' /\ now' <= NextTime(o)'
    BY <1>1 DEF ClocksAhead
  <2>1. now < NextTime(o) /\ NextTime(o) \in Int /\ NextTime(o)' = NextTime(o)
    BY <1>1, Times DEF ClocksAhead, Pending, Fresh, NextTime
  <2> QED
    BY <1>1, <2>1
<1>6. EventsAhead'
  BY <1>1, <1>2 DEF EventsAhead
<1>7. RowsAhead'
  <2>1. now < LogTime /\ LogTime' = LogTime
    BY <1>1 DEF RowsAhead, Fresh, LogTime
  <2>2. LogTime \in Nat
    BY <1>1, Constants DEF LogTime
  <2>3. now' < LogTime' /\ now' <= LogTime'
    BY <1>1, <2>1, <2>2
  <2> QED
    BY <1>1, <2>3 DEF RowsAhead, Phases
<1>8. ObservationsAhead'
  <2> SUFFICES ASSUME NEW t \in observations' PROVE now' < t /\ now' <= t
    BY DEF ObservationsAhead
  <2>1. now < t /\ t \in Nat
    BY <1>1, <1>2 DEF ObservationsAhead, Fresh
  <2> QED
    BY <1>1, <2>1
<1>9. SamplesSpaced'
  BY <1>1, SamplesKept
<1> QED
  BY <1>3, <1>4, <1>5, <1>6, <1>7, <1>8, <1>9 DEF IndInv

\* The final snapshot.
LEMMA FinishInv == IndInv /\ Finish => IndInv'
<1> SUFFICES ASSUME IndInv, Finish PROVE IndInv'
  OBVIOUS
<1>1. /\ TypeOK /\ sim \in Sim /\ Coherent(sim) /\ now \in Nat /\ pc' = "done"
      /\ told' = told \cup {now}
      /\ UNCHANGED <<todo, now, index, next, nlog, observations, due, sampled, wanted>>
  BY DEF Finish, IndInv, TypeOK, CacheCoherent, Coherent
<1>2. /\ sim' \in Sim /\ Coherent(sim') /\ rows' \in Seq(Nat) /\ lost' \subseteq Nat
  <2>1. Outputs(sim) \in Sim /\ Coherent(Outputs(sim))
    BY <1>1, OutputsFollow DEF Follows
  <2>2. rows \in Seq(Nat) /\ Append(rows, now) \in Seq(Nat) /\ lost \subseteq Nat
    BY <1>1 DEF TypeOK
  <2> QED
    BY <1>1, <2>1, <2>2 DEF Finish
<1>3. TypeOK'
  BY <1>1, <1>2 DEF TypeOK, Finish
<1>4. CacheCoherent' /\ SamplesSee' /\ TripEnds' /\ AtStart' /\ Ended'
  BY <1>1, <1>2 DEF IndInv, CacheCoherent, SamplesSee, TripEnds, AtStart, Coherent, Ended
<1> QED
  BY <1>3, <1>4 DEF IndInv

\* A step that changes nothing.
LEMMA StutterInv == IndInv /\ UNCHANGED vars => IndInv'
<1> SUFFICES ASSUME IndInv, UNCHANGED vars PROVE IndInv'
  OBVIOUS
<1>1. UNCHANGED <<pc, todo, now, index, next, nlog, observations, due, sim, sampled,
                  rows, lost, wanted, told>>
  BY DEF vars
<1>2. TypeOK' /\ CacheCoherent' /\ SamplesSee' /\ TripEnds' /\ AtStart'
  BY <1>1 DEF IndInv, TypeOK, CacheCoherent, SamplesSee, TripEnds, AtStart, Ended
<1>3. \A o \in Owners : NextTime(o)' = NextTime(o) /\ (Pending(o)' <=> Pending(o))
                        /\ (HalfDone(o)' <=> HalfDone(o))
  BY <1>1 DEF NextTime, Pending, HalfDone, Fresh
<1>4. ~Ended' => /\ ClocksAhead' /\ EventsAhead' /\ RowsAhead' /\ ObservationsAhead'
                 /\ SamplesSpaced'
  <2> SUFFICES ASSUME ~Ended'
               PROVE  /\ ClocksAhead' /\ EventsAhead' /\ RowsAhead'
                      /\ ObservationsAhead' /\ SamplesSpaced'
    OBVIOUS
  <2>1. ClocksAhead /\ EventsAhead /\ RowsAhead /\ ObservationsAhead /\ SamplesSpaced
    BY <1>1 DEF IndInv, Ended
  <2>2. ClocksAhead'
    BY <1>1, <1>3, <2>1 DEF ClocksAhead
  <2>3. EventsAhead'
    BY <1>1, <2>1 DEF EventsAhead, ActionTimes
  <2>4. RowsAhead' /\ ObservationsAhead'
    BY <1>1, <2>1 DEF RowsAhead, ObservationsAhead, Fresh, LogTime
  <2>5. SamplesSpaced'
    BY <1>1, <1>3, <2>1 DEF SamplesSpaced
  <2> QED
    BY <2>2, <2>3, <2>4, <2>5
<1> QED
  BY <1>2, <1>4 DEF IndInv

----------------------------------------------------------------------------
(***************************************************************************)
(* The theorems.                                                           *)
(***************************************************************************)
\* Every step keeps the invariant.
LEMMA StepInv == IndInv /\ [Next]_vars => IndInv'
<1> SUFFICES ASSUME IndInv, [Next]_vars PROVE IndInv'
  OBVIOUS
<1>1. CASE Limit \/ Diverge \/ Advance \/ CloseWindows \/ ApplyEvent \/ WindowEdge
  BY <1>1, LimitInv, DivergeInv, AdvanceInv, CloseWindowsInv, ApplyEventInv, WindowEdgeInv
<1>2. CASE Log \/ Observe \/ Finish
  BY <1>2, LogInv, ObserveInv, FinishInv
<1>3. CASE \E o \in Owners : Begin(o) \/ Sense(o) \/ Actuate(o)
  BY <1>3, BeginInv, SenseInv, ActuateInv
<1>4. CASE \E u \in Units : Protect(u)
  BY <1>4, ProtectInv
<1>5. CASE UNCHANGED vars
  BY <1>5, StutterInv
<1> QED
  BY <1>1, <1>2, <1>3, <1>4, <1>5 DEF Next

\* The invariant of the loop holds: types, the cache of the plant's outputs, and
\* at every place of an iteration what is still to come.
THEOREM LoopInvariance == Spec => []IndInv
<1>1. Init => IndInv
  BY InitInv
<1>2. IndInv /\ [Next]_vars => IndInv'
  BY StepInv
<1> QED
  BY <1>1, <1>2, PTL DEF Spec

\* What is still to come lies in the future once the loop goes on.
LEMMA Overdue == IndInv => NothingOverdue
<1> SUFFICES ASSUME IndInv, Started PROVE NothingOverdue!2
  BY DEF NothingOverdue
<1>1. /\ pc = "head" /\ ~Fresh /\ TypeOK /\ now \in Nat
      /\ ClocksAhead /\ EventsAhead /\ RowsAhead /\ ObservationsAhead
  BY DEF Started, IndInv, Fresh, Ended, TypeOK
<1>2. \A o \in Owners : NextTime(o) > now
  <2> SUFFICES ASSUME NEW o \in Owners PROVE NextTime(o) > now
    OBVIOUS
  <2>1. NextTime(o) \in Int /\ now < NextTime(o)
    BY <1>1, Times DEF ClocksAhead, Pending
  <2> QED
    BY <1>1, <2>1
<1>3. \A t \in ActionTimes : t > now
  <2> SUFFICES ASSUME NEW i \in next..Len(Events) PROVE Events[i].t > now
    BY DEF ActionTimes
  <2>1. i \in 1..Len(Events) /\ ~(i < next)
    BY <1>1, EventsOrdered DEF TypeOK
  <2> QED
    BY <1>1, <2>1, EventsOrdered DEF EventsAhead
<1>4. \A t \in observations : t > now
  BY <1>1 DEF ObservationsAhead, TypeOK
<1>5. LogTime > now
  <2>1. LogTime \in Nat
    BY <1>1, Constants DEF LogTime, TypeOK
  <2> QED
    BY <1>1, <2>1 DEF RowsAhead
<1> QED
  BY <1>2, <1>3, <1>4, <1>5

\* NothingOverdue: the loop of Simulation.run leaves no clock, file event, output
\* row or observation of an instant behind when it goes on to the next.
THEOREM EverythingServed == Spec => []NothingOverdue
BY Overdue, LoopInvariance, PTL

\* EventsSeen: what an owner samples has all file events up to that instant
\* behind it and no later one, coincident events included.
THEOREM SamplesSeeEvents == Spec => []EventsSeen
<1>1. IndInv => EventsSeen
  <2> SUFFICES ASSUME IndInv, NEW o \in Owners, sampled[o].at >= Start
               PROVE  sampled[o].saw.applied = Cardinality({i \in 1..Len(Events) :
                                                   Events[i].t <= sampled[o].at})
    BY DEF EventsSeen
  <2> DEFINE n == sampled[o].saw.applied
  <2>1. n \in Nat
    BY DEF IndInv, TypeOK, Plant
  <2>2. Cardinality(1..n) = n
    BY <2>1, FS_Interval
  <2>3. {i \in 1..Len(Events) : Events[i].t <= sampled[o].at} = 1..n
    BY DEF IndInv, SamplesSee
  <2> QED
    BY <2>2, <2>3
<1> QED
  BY <1>1, LoopInvariance, PTL

\* A step that takes a sample is a turn of the sense phase of that owner.
LEMMA OnlySenseSamples ==
    ASSUME [Next]_vars, NEW p \in Owners, sampled'[p] # sampled[p]
    PROVE  \E o \in Owners : Sense(o)
BY DEF Next, vars, Limit, Diverge, Advance, CloseWindows, ApplyEvent, WindowEdge, Log,
   Observe, Finish, Begin, Actuate, Protect

\* NoSampleSkipped: Simulation.run lets no owner miss or repeat an update, because
\* successive samples of an owner are one period of its clock apart.
THEOREM NoneSkipped == Spec => NoSampleSkipped
<1> DEFINE Spaced == \A o \in Owners : sampled'[o] # sampled[o] =>
               sampled[o].at < Start \/ sampled'[o].at = sampled[o].at + Clocks[o].period
<1>1. IndInv /\ [Next]_vars => Spaced
  <2> SUFFICES ASSUME IndInv, [Next]_vars, NEW p \in Owners, sampled'[p] # sampled[p],
                      ~(sampled[p].at < Start)
               PROVE  sampled'[p].at = sampled[p].at + Clocks[p].period
    OBVIOUS
  <2>1. PICK o \in Owners : Sense(o)
    BY OnlySenseSamples
  <2>2. /\ pc = "sense" /\ o \in todo /\ (IsDue(o) <=> NextTime(o) = now)
        /\ IsDue(o) => sampled' = [sampled EXCEPT ![o] = [at |-> now, saw |-> sim'.plant]]
        /\ ~IsDue(o) => sampled' = sampled
    BY <2>1, SenseFacts
  <2>3. TypeOK /\ SamplesSpaced
    BY <2>2 DEF IndInv, Ended
  <2>4. p = o /\ IsDue(o) /\ sampled'[o].at = now
    BY <2>2, <2>3 DEF TypeOK
  <2>5. sampled[p].at >= Start
    BY <2>3, Constants DEF TypeOK
  <2>6. ~HalfDone(o)
    BY <2>2 DEF HalfDone
  <2>7. NextTime(o) = sampled[o].at + Clocks[o].period
    BY <2>3, <2>4, <2>5, <2>6 DEF SamplesSpaced
  <2> QED
    BY <2>2, <2>4, <2>7
<1> QED
  BY <1>1, LoopInvariance, PTL DEF Spec, NoSampleSkipped

\* ViewIsCurrent: the cached outputs of Plant.outputs that an owner samples are
\* those of the present plant.
THEOREM SamplesAreCurrent == Spec => ViewIsCurrent
<1>1. IndInv /\ [Next]_vars =>
          \A o \in Owners : sampled'[o] # sampled[o] => sampled'[o].saw = sim'.plant
  <2> SUFFICES ASSUME IndInv, [Next]_vars, NEW p \in Owners, sampled'[p] # sampled[p]
               PROVE  sampled'[p].saw = sim'.plant
    OBVIOUS
  <2>1. PICK o \in Owners : Sense(o)
    BY OnlySenseSamples
  <2>2. /\ IsDue(o) => sampled' = [sampled EXCEPT ![o] = [at |-> now, saw |-> sim'.plant]]
        /\ ~IsDue(o) => sampled' = sampled
    BY <2>1, SenseFacts
  <2> QED
    BY <2>2 DEF IndInv, TypeOK
<1> QED
  BY <1>1, LoopInvariance, PTL DEF Spec, ViewIsCurrent

\* StopsAtTrip: with stop_on_trip the run goes no further than the instant of a trip.
THEOREM TripStopsRun == Spec => []StopsAtTrip
<1>1. IndInv => StopsAtTrip
  BY DEF IndInv, TripEnds, StopsAtTrip, Ended
<1> QED
  BY <1>1, LoopInvariance, PTL

----------------------------------------------------------------------------
(***************************************************************************)
(* The output rows.                                                        *)
(***************************************************************************)
\* The rows written are points of the grid before the next one, in order, and
\* every such point of the run is a row or one that failed.
OnRowGrid(t) == \E k \in Int : t = k * LogPeriod
RowsInOrder(written, limit) ==
    \A i \in 1..Len(written) :
        /\ OnRowGrid(written[i]) /\ written[i] < limit
        /\ \A j \in 1..Len(written) : i < j => written[i] < written[j]
RowTimes == {rows[i] : i \in 1..Len(rows)}
RowInv ==
    ~Ended => /\ RowsInOrder(rows, LogTime)
              /\ \A k \in Int : Start <= k * LogPeriod /\ k < nlog =>
                     k * LogPeriod \in RowTimes \cup lost

\* The points of the grid are ordered like their indices.
LEMMA GridOrder ==
    ASSUME NEW k \in Int, NEW n \in Int
    PROVE  /\ k < n => k * LogPeriod + LogPeriod <= n * LogPeriod
           /\ k * LogPeriod < n * LogPeriod => k < n
           /\ k * LogPeriod \in Int
<1> DEFINE clock == [period |-> LogPeriod, offset |-> 0]
<1>1. clock \in Clock
  BY Constants DEF Clock
<1>2. ClockAt(clock, k) = k * LogPeriod /\ ClockAt(clock, n) = n * LogPeriod
  BY Constants DEF ClockAt
<1>3. k * LogPeriod \in Int /\ n * LogPeriod \in Int
  BY Constants
<1>4. k < n => k * LogPeriod + LogPeriod <= n * LogPeriod
  BY <1>1, <1>2, ClockMonotone
<1>5. n < k => n * LogPeriod + LogPeriod <= k * LogPeriod
  BY <1>1, <1>2, ClockMonotone
<1> QED
  BY <1>3, <1>4, <1>5, Constants

\* The points of the grid are the multiples of the output period.
LEMMA GridMultiples ==
    ASSUME NEW t \in Int
    PROVE  OnRowGrid(t) <=> t % LogPeriod = 0
<1> DEFINE d == t \div LogPeriod
           r == t % LogPeriod
<1>1. LogPeriod \in Nat /\ LogPeriod > 0
  BY Constants
<1>2. d \in Int /\ r \in Int /\ 0 <= r /\ r < LogPeriod /\ t = LogPeriod * d + r
  BY <1>1
<1>3. d * LogPeriod = LogPeriod * d
  BY <1>1, <1>2
<1> HIDE DEF d, r
<1>4. r = 0 => OnRowGrid(t)
  BY <1>1, <1>2, <1>3 DEF OnRowGrid
<1>5. ASSUME NEW k \in Int, t = k * LogPeriod PROVE r = 0
  <2>1. k < d => k * LogPeriod + LogPeriod <= d * LogPeriod
    BY <1>2, GridOrder
  <2>2. d < k => d * LogPeriod + LogPeriod <= k * LogPeriod
    BY <1>2, GridOrder
  <2>3. k * LogPeriod \in Int /\ d * LogPeriod \in Int
    BY <1>2, GridOrder
  <2>4. k = d
    BY <1>1, <1>2, <1>3, <1>5, <2>1, <2>2, <2>3
  <2> QED
    BY <1>2, <1>3, <1>5, <2>3, <2>4
<1> QED
  BY <1>4, <1>5 DEF OnRowGrid, r

\* Before the first row there is no point of the grid in the run.
LEMMA RowInit == Init => RowInv
<1> SUFFICES ASSUME Init PROVE RowInv
  OBVIOUS
<1> DEFINE clock == [period |-> LogPeriod, offset |-> 0]
           n == IndexAtOrAfter(clock, Start)
<1>1. clock \in Clock /\ Start \in Int
  BY Constants DEF Clock
<1>2. n \in Int /\ ClockAt(clock, n - 1) < Start
  BY <1>1, IndexAtOrAfterSpec
<1>3. nlog = n /\ rows = <<>>
  BY DEF Init
<1> HIDE DEF n
<1>4. ASSUME NEW k \in Int, Start <= k * LogPeriod, k < nlog PROVE FALSE
  <2>1. ClockAt(clock, n - 1) = (n - 1) * LogPeriod
    BY <1>2, Constants DEF ClockAt
  <2>2. (n - 1) * LogPeriod \in Int /\ k * LogPeriod \in Int
    BY <1>2, GridOrder
  <2>3. (n - 1) * LogPeriod < k * LogPeriod
    BY <1>1, <1>2, <1>4, <2>1, <2>2
  <2>4. n - 1 < k
    BY <1>2, <2>3, GridOrder
  <2> QED
    BY <1>2, <1>3, <1>4, <2>4
<1> QED
  BY <1>3, <1>4 DEF RowInv, RowsInOrder

\* A snapshot writes the row that is due or loses it.
LEMMA SnapshotRows ==
    ASSUME TypeOK, NEW record \in BOOLEAN, NEW notify, Snapshot(record, notify)
    PROVE  /\ rows' = rows \/ (record /\ rows' = Append(rows, now))
           /\ lost \subseteq lost'
           /\ record => rows' = Append(rows, now) \/ now \in lost'
BY DEF Snapshot

\* A row written at the next point of the grid keeps the order.
LEMMA RowAppended ==
    ASSUME NEW written \in Seq(Nat), NEW n \in Nat,
           RowsInOrder(written, n * LogPeriod)
    PROVE  /\ RowsInOrder(written, (n + 1) * LogPeriod)
           /\ RowsInOrder(Append(written, n * LogPeriod), (n + 1) * LogPeriod)
<1> DEFINE more == Append(written, n * LogPeriod)
<1>1. /\ n * LogPeriod \in Nat /\ (n + 1) * LogPeriod \in Nat
      /\ n * LogPeriod < (n + 1) * LogPeriod
  <2>1. n * LogPeriod \in Nat /\ (n + 1) * LogPeriod \in Nat
    BY Constants
  <2>2. n * LogPeriod + LogPeriod <= (n + 1) * LogPeriod
    BY GridOrder
  <2> QED
    BY <2>1, <2>2, Constants
<1>2. \A i \in 1..Len(written) : written[i] \in Nat
  OBVIOUS
<1>3. Len(written) \in Nat /\ Len(more) = Len(written) + 1
      /\ \A i \in 1..Len(more) :
             more[i] = IF i = Len(written) + 1 THEN n * LogPeriod ELSE written[i]
  BY <1>1
<1>4. OnRowGrid(n * LogPeriod)
  BY DEF OnRowGrid
<1>5. RowsInOrder(written, (n + 1) * LogPeriod)
  BY <1>1, <1>2 DEF RowsInOrder
<1>6. RowsInOrder(more, (n + 1) * LogPeriod)
  <2> SUFFICES ASSUME NEW i \in 1..Len(more)
               PROVE  /\ OnRowGrid(more[i]) /\ more[i] < (n + 1) * LogPeriod
                      /\ \A j \in 1..Len(more) : i < j => more[i] < more[j]
    BY DEF RowsInOrder
  <2> HIDE DEF more
  <2>1. CASE i = Len(written) + 1
    BY <1>1, <1>3, <1>4, <2>1
  <2>2. CASE i # Len(written) + 1
    <3>1. i \in 1..Len(written) /\ more[i] = written[i]
      BY <1>3, <2>2
    <3>2. OnRowGrid(written[i]) /\ written[i] < n * LogPeriod
      BY <3>1 DEF RowsInOrder
    <3>3. ASSUME NEW j \in 1..Len(more), i < j PROVE written[i] < more[j]
      <4>1. CASE j = Len(written) + 1
        BY <1>3, <3>2, <4>1
      <4>2. CASE j # Len(written) + 1
        <5>1. j \in 1..Len(written) /\ more[j] = written[j]
          BY <1>3, <4>2
        <5> QED
          BY <3>1, <3>3, <5>1 DEF RowsInOrder
      <4> QED
        BY <4>1, <4>2
    <3> QED
      BY <1>1, <1>2, <3>1, <3>2, <3>3
  <2> QED
    BY <2>1, <2>2
<1> QED
  BY <1>5, <1>6

\* The end of an iteration closes the point of the grid that is due.
LEMMA RowLogged ==
    ASSUME IndInv, RowInv, Log
    PROVE  RowInv'
<1>1. /\ TypeOK /\ pc = "log" /\ ~Ended /\ nlog \in Nat /\ now \in Nat /\ lost \subseteq Nat
      /\ rows \in Seq(Nat) /\ due.log \in BOOLEAN
  BY DEF Log, Ended, IndInv, TypeOK, Flags
<1>2. /\ due.log => now = nlog * LogPeriod
      /\ RowsInOrder(rows, nlog * LogPeriod)
      /\ \A k \in Int : Start <= k * LogPeriod /\ k < nlog =>
             k * LogPeriod \in RowTimes \cup lost
  BY <1>1 DEF IndInv, RowsAhead, Phases, LogTime, RowInv
<1>3. CASE now = Final /\ pc' = "final"
  BY <1>3 DEF RowInv, Ended
<1>4. CASE /\ now # Final
           /\ IF due.log \/ Noticed THEN Snapshot(due.log, Noticed)
              ELSE UNCHANGED <<sim, rows, lost, observations, wanted, told>>
           /\ nlog' = IF due.log THEN nlog + 1 ELSE nlog
  <2>1. /\ rows' = rows \/ (due.log /\ rows' = Append(rows, now))
        /\ lost \subseteq lost'
        /\ due.log => rows' = Append(rows, now) \/ now \in lost'
    <3>1. CASE due.log \/ Noticed
      BY <1>1, <1>4, <3>1, SnapshotRows
    <3>2. CASE ~(due.log \/ Noticed)
      BY <1>4, <3>2
    <3> QED
      BY <3>1, <3>2
  <2>2. RowTimes \subseteq RowTimes' /\ (rows' = Append(rows, now) => now \in RowTimes')
    <3>1. CASE rows' = rows
      <4>1. rows' = Append(rows, now) => FALSE
        BY <1>1, <3>1
      <4> QED
        BY <3>1, <4>1 DEF RowTimes
    <3>2. CASE rows' = Append(rows, now)
      <4>1. Len(rows) \in Nat /\ Len(rows') = Len(rows) + 1
            /\ \A i \in 1..Len(rows) : rows'[i] = rows[i]
            /\ rows'[Len(rows) + 1] = now
        BY <1>1, <3>2
      <4> QED
        BY <4>1 DEF RowTimes
    <3> QED
      BY <2>1, <3>1, <3>2
  <2>3. CASE ~due.log
    BY <1>1, <1>2, <1>4, <2>1, <2>2, <2>3 DEF RowInv, LogTime
  <2>4. CASE due.log
    <3>1. nlog' = nlog + 1 /\ LogTime' = (nlog + 1) * LogPeriod
      BY <1>4, <2>4 DEF LogTime
    <3>2. RowsInOrder(rows', (nlog + 1) * LogPeriod)
      BY <1>1, <1>2, <2>1, <2>4, RowAppended
    <3>3. \A k \in Int : Start <= k * LogPeriod /\ k < nlog + 1 =>
              k * LogPeriod \in RowTimes' \cup lost'
      <4> SUFFICES ASSUME NEW k \in Int, Start <= k * LogPeriod, k < nlog + 1
                   PROVE  k * LogPeriod \in RowTimes' \cup lost'
        OBVIOUS
      <4>1. k < nlog \/ k = nlog
        BY <1>1
      <4> QED
        BY <1>2, <2>1, <2>2, <2>4, <4>1
    <3> QED
      BY <3>1, <3>2, <3>3 DEF RowInv
  <2> QED
    BY <1>1, <2>3, <2>4
<1> QED
  BY <1>3, <1>4 DEF Log, Logged

\* No other action writes a row before the end.
LEMMA RowStep == IndInv /\ RowInv /\ [Next]_vars => RowInv'
<1> SUFFICES ASSUME IndInv, RowInv, [Next]_vars PROVE RowInv'
  OBVIOUS
<1>1. CASE Log
  BY <1>1, RowLogged
<1>2. CASE Observe
  <2>1. TypeOK /\ nlog' = nlog /\ ~Ended
    BY <1>2 DEF IndInv, Observe, Ended
  <2>2. rows' = rows /\ lost \subseteq lost'
    BY <1>2, <2>1, SnapshotRows DEF Observe
  <2> QED
    BY <2>1, <2>2 DEF RowInv, RowTimes, LogTime
<1>3. CASE Limit \/ Diverge \/ Finish
  BY <1>3 DEF RowInv, Ended, Limit, Diverge, Finish
<1>4. CASE UNCHANGED <<nlog, rows, lost>> /\ ~Ended
  BY <1>4 DEF RowInv, RowTimes, LogTime
<1>5. CASE UNCHANGED vars
  BY <1>5 DEF vars, RowInv, RowTimes, LogTime, Ended
<1> QED
  BY <1>1, <1>2, <1>3, <1>4, <1>5
     DEF Next, Advance, CloseWindows, ApplyEvent, WindowEdge, Begin, Sense, Actuate,
         Protect, Turn, Ended

\* RowsOnGrid: Simulation.run writes every row of the output grid once and in
\* order, whatever else stops the integration; only a failed snapshot is missing.
THEOREM RowsAreOnGrid == Spec => []RowsOnGrid
<1>1. Init => RowInv
  BY RowInit
<1>2. IndInv /\ RowInv /\ [Next]_vars => RowInv'
  BY RowStep
<1>3. IndInv /\ RowInv => RowsOnGrid
  <2> SUFFICES ASSUME IndInv, RowInv, Started PROVE RowsOnGrid!2
    BY DEF RowsOnGrid
  <2>1. /\ TypeOK /\ ~Ended /\ now \in Nat /\ nlog \in Nat /\ rows \in Seq(Nat)
        /\ now < LogTime /\ LogTime = nlog * LogPeriod
    BY DEF IndInv, Started, Ended, RowsAhead, Fresh, TypeOK, LogTime
  <2>2. RowsInOrder(rows, LogTime)
    BY <2>1 DEF RowInv
  <2>3. \A i \in 1..Len(rows) : rows[i] \in Int
    BY <2>1
  <2>4. \A i \in 1..Len(rows) : rows[i] % LogPeriod = 0
    BY <2>2, <2>3, GridMultiples DEF RowsInOrder
  <2>5. ASSUME NEW t \in Start..now, t % LogPeriod = 0 PROVE t \in RowTimes \cup lost
    <3>1. t \in Int /\ Start <= t /\ t <= now
      BY <2>1, Constants
    <3>2. PICK k \in Int : t = k * LogPeriod
      BY <2>5, <3>1, GridMultiples DEF OnRowGrid
    <3>3. k * LogPeriod < nlog * LogPeriod
      <4>1. nlog * LogPeriod \in Int
        BY <2>1, GridOrder
      <4> QED
        BY <2>1, <3>1, <3>2, <4>1
    <3>4. k < nlog
      BY <2>1, <3>3, GridOrder
    <3> QED
      BY <2>1, <3>1, <3>2, <3>4 DEF RowInv
  <2> QED
    BY <2>2, <2>4, <2>5 DEF RowsInOrder, RowTimes
<1> QED
  BY <1>1, <1>2, <1>3, LoopInvariance, PTL DEF Spec

----------------------------------------------------------------------------
(***************************************************************************)
(* The averaging windows.                                                  *)
(***************************************************************************)
\* All windows start from the present outputs, or will be seeded again at the
\* end of this instant.
Anchored(s) == \A w \in Windowed : s.windows[w].anchor = s.plant
Seeding(s) == s.changed \/ (due.circuit /\ s.zoh)

\* The clock of a sampled unit that is due changes the circuit.
CircuitDue ==
    \A o \in Sampled :
        /\ NextTime(o) = now
        /\ pc \in {"windows", "events", "protect", "sense"} \/ (pc = "actuate" /\ o \in todo)
        => due.circuit

WindowInv ==
    ~Ended => /\ CircuitDue
              /\ pc \in {"begin", "head", "observe", "log", "windows"} => Anchored(sim)
              /\ pc \in {"events", "protect", "sense"} => Anchored(sim) \/ sim.changed
              /\ pc \in {"actuate", "edge"} => Anchored(sim) \/ Seeding(sim)
              /\ pc = "begin" => sim.plant = NoPlant

\* Reading the outputs keeps plant and windows.
LEMMA OutputsWindows ==
    ASSUME NEW s \in Sim, Coherent(s)
    PROVE  /\ Outputs(s) \in Sim /\ Outputs(s).windows = s.windows
           /\ Outputs(s).plant = s.plant /\ Outputs(s).view = s.plant
           /\ Outputs(s).changed = s.changed
BY DEF Outputs, Coherent, Sim

\* Closing windows leaves them at the present outputs, where they are renewed.
LEMMA AccumulateWindows ==
    ASSUME NEW s \in Sim, Coherent(s), NEW W, NEW t \in Nat
    PROVE  /\ Accumulate(s, W, t).changed = s.changed
           /\ Anchored(s) => Anchored(Accumulate(s, W, t))
<1>1. CASE W = {}
  BY <1>1 DEF Accumulate
<1>2. CASE W # {}
  <2> DEFINE read == Outputs(s)
             windows == [w \in Windowed |->
                            IF w \in W /\ t > read.windows[w].upto
                            THEN [anchor |-> read.view, upto |-> t] ELSE read.windows[w]]
  <2>1. /\ read \in Sim /\ read.windows = s.windows /\ read.plant = s.plant
        /\ read.view = s.plant /\ read.changed = s.changed
    BY OutputsWindows
  <2>2. Accumulate(s, W, t) = [read EXCEPT !.windows = windows]
    BY <1>2 DEF Accumulate
  <2>3. Anchored(s) => \A w \in Windowed : windows[w].anchor = s.plant
    BY <2>1 DEF Anchored
  <2> HIDE DEF read, windows
  <2>4. /\ Accumulate(s, W, t).windows = windows /\ Accumulate(s, W, t).plant = s.plant
        /\ Accumulate(s, W, t).changed = s.changed
    BY <2>1, <2>2 DEF Sim
  <2> QED
    BY <2>3, <2>4 DEF Anchored
<1> QED
  BY <1>1, <1>2

\* Seeding all windows leaves them at the present outputs.
LEMMA SeedWindows ==
    ASSUME NEW s \in Sim, Coherent(s), NEW W
    PROVE  /\ Seed(s, W).plant = s.plant
           /\ Anchored(s) \/ Windowed \subseteq W => Anchored(Seed(s, W))
<1> DEFINE read == Outputs(s)
           windows == [w \in Windowed |->
                          IF w \in W THEN [read.windows[w] EXCEPT !.anchor = read.view]
                          ELSE read.windows[w]]
<1>1. /\ read \in Sim /\ read.windows = s.windows /\ read.plant = s.plant
      /\ read.view = s.plant
  BY OutputsWindows
<1>2. Seed(s, W) = [read EXCEPT !.windows = windows]
  BY DEF Seed
<1>3. \A w \in Windowed : w \in W \/ Anchored(s) => windows[w].anchor = s.plant
  BY <1>1 DEF Anchored, Sim
<1> HIDE DEF read, windows
<1>4. Seed(s, W).windows = windows /\ Seed(s, W).plant = s.plant
  BY <1>1, <1>2 DEF Sim
<1> QED
  BY <1>3, <1>4 DEF Anchored

\* Every change of the plant within an instant is noticed.
LEMMA ChangeNoticed ==
    ASSUME NEW s \in Sim, Coherent(s), NEW t \in Nat, NEW p \in Plant
    PROVE  Change(s, t, p).changed = TRUE
<1>1. Accumulate(s, Windowed, t) \in Sim
  BY AccumulateFollows DEF Follows
<1> QED
  BY <1>1 DEF Change, Sim

LEMMA TripNoticed ==
    ASSUME NEW s \in Sim, Coherent(s), NEW u \in Units, NEW t \in Nat
    PROVE  TripUnit(s, u, t).changed = TRUE
<1> DEFINE p == [s.plant EXCEPT !.tripped = @ \cup {u}, !.open = @ \cup {u}]
           c == Change(s, t, p)
<1>1. p \in Plant
  BY DEF Sim, Plant
<1>2. c \in Sim /\ c.changed = TRUE
  BY <1>1, ChangeType, ChangeNoticed
<1>3. TripUnit(s, u, t) = [c EXCEPT !.trackDue = @ \ {u}, !.tripDue = @ \ {u}]
  BY DEF TripUnit
<1> HIDE DEF c, p
<1> QED
  BY <1>2, <1>3 DEF Sim

\* A controller that tracks changes the plant; another owner only reads it.
LEMMA TrackedWindows ==
    ASSUME NEW s \in Sim, Coherent(s), NEW o \in Owners, now \in Nat
    PROVE  /\ Tracked(s, o).changed = TRUE \/ (Tracked(s, o).changed = s.changed
                                               /\ Tracked(s, o).plant = s.plant
                                               /\ Tracked(s, o).windows = s.windows)
<1> DEFINE read == Outputs(s)
           change == Change(read, now, Touched(read.plant, o, now))
           track == [change EXCEPT !.trackDue = @ \ {o}]
<1>1. /\ read \in Sim /\ Coherent(read) /\ read.plant = s.plant
      /\ read.windows = s.windows /\ read.changed = s.changed
  BY OutputsWindows, OutputsFollow DEF Follows
<1>2. change \in Sim /\ change.changed = TRUE
  <2>1. read.plant \in Plant /\ now \in Int
    BY <1>1 DEF Sim
  <2>2. Touched(read.plant, o, now) \in Plant
    BY <2>1, TouchedType
  <2> HIDE DEF read
  <2> QED
    BY <1>1, <2>2, ChangeType, ChangeNoticed
<1>3. track \in Sim /\ track.changed = TRUE
  <2> HIDE DEF change
  <2> QED
    BY <1>2 DEF Sim
<1>4. Outputs(track).changed = TRUE
  <2> HIDE DEF track
  <2> QED
    BY <1>3 DEF Outputs, Sim
<1>5. Tracked(s, o) = IF o \in s.trackDue THEN Outputs(track)
                      ELSE IF IsDue(o) THEN read ELSE s
  BY <1>1 DEF Tracked
<1> HIDE DEF read, change, track
<1> QED
  BY <1>1, <1>4, <1>5

\* What the bridge of a sampled unit does is noticed at the instants of its clock.
LEMMA DriveNoticed ==
    ASSUME NEW s \in Sim, Coherent(s), NEW u \in Units, now \in Nat, NEW d \in Drive(s, u)
    PROVE  \/ d.changed = TRUE
           \/ IsDue(u) /\ d.zoh = TRUE
           \/ /\ d.changed = s.changed /\ d.plant = s.plant /\ d.windows = s.windows
              /\ s.zoh => d.zoh
<1> DEFINE change == Change(s, now, Touched(s.plant, u, now))
<1>1. u \in Owners /\ now \in Int /\ s.plant \in Plant
  BY Constants DEF Sim
<1>2. change \in Sim /\ change.changed = TRUE
  <2>1. Touched(s.plant, u, now) \in Plant
    BY <1>1, TouchedType
  <2> QED
    BY <2>1, ChangeType, ChangeNoticed
<1>3. Hold(s, u, now).zoh = TRUE /\ Hold(change, u, now).changed = TRUE
  <2> HIDE DEF change
  <2> QED
    BY <1>2 DEF Hold, Sim
<1>4. \/ IsDue(u) /\ d \in {Hold(s, u, now), Hold(change, u, now)}
      \/ d \in {s, [s EXCEPT !.zoh = TRUE]}
  <2>1. d \in IF Enabled(s, u)
              THEN IF IsDue(u) THEN {Hold(s, u, now), Hold(change, u, now)} ELSE {s}
              ELSE {IF u \in Unfiltered THEN [s EXCEPT !.zoh = TRUE] ELSE s}
    BY DEF Drive
  <2> HIDE DEF change
  <2> QED
    BY <2>1
<1> HIDE DEF change
<1> QED
  BY <1>3, <1>4 DEF Sim

\* The plant of the beginning, with windows on it.
LEMMA BeginWindows ==
    ASSUME Resumed \/ Connected \cap Continuous = {}, IndInv, WindowInv,
           NEW o \in Owners, Begin(o)
    PROVE  Anchored(sim') /\ sim'.plant = NoPlant
<1> DEFINE track == o \in Connected /\ ~Resumed
           jump == IF o \in Continuous THEN Touched(sim.plant, o, Start) ELSE sim.plant
           tracked == IF track THEN ChangeUnsettled(Outputs(sim), jump) ELSE sim
           held == IF o \in Sampled THEN [tracked EXCEPT !.zoh = TRUE] ELSE tracked
           seeded == IF o \in BlackBoxes THEN sim
                     ELSE Seed(held, IF Resumed THEN {} ELSE {o})
<1>1. /\ pc = "begin" /\ ~Ended /\ sim \in Sim /\ Coherent(sim)
      /\ sim' = [seeded EXCEPT !.synced = @ /\ todo # {o}]
  BY DEF Begin, Turn, Ended, IndInv, TypeOK, CacheCoherent, Coherent
<1>2. Anchored(sim) /\ sim.plant = NoPlant
  BY <1>1 DEF WindowInv
<1>3. track => jump = sim.plant
  BY Constants
<1>4. tracked \in Sim /\ Coherent(tracked) /\ Anchored(tracked) /\ tracked.plant = sim.plant
  <2>1. CASE track
    <3> DEFINE read == Outputs(sim)
    <3>1. read \in Sim /\ read.windows = sim.windows /\ read.plant = sim.plant
      BY <1>1, OutputsWindows
    <3>2. tracked = ChangeUnsettled(read, read.plant)
      BY <1>3, <2>1, <3>1
    <3> HIDE DEF read
    <3>3. read.plant \in Plant /\ ChangeUnsettled(read, read.plant).windows = read.windows
      BY <3>1 DEF Sim, ChangeUnsettled
    <3>4. tracked \in Sim /\ Coherent(tracked) /\ tracked.plant = read.plant
      BY <3>1, <3>2, <3>3, ChangeUnsettledType
    <3>5. tracked.windows = sim.windows
      BY <3>1, <3>2, <3>3
    <3> HIDE DEF tracked
    <3> QED
      BY <1>2, <3>1, <3>4, <3>5 DEF Anchored
  <2>2. CASE ~track
    BY <1>1, <1>2, <2>2
  <2> QED
    BY <2>1, <2>2
<1> HIDE DEF tracked
<1>5. held \in Sim /\ Coherent(held) /\ Anchored(held) /\ held.plant = sim.plant
  BY <1>4 DEF Sim, Coherent, Anchored
<1> HIDE DEF held
<1>6. seeded \in Sim /\ Anchored(seeded) /\ seeded.plant = sim.plant
  BY <1>1, <1>2, <1>5, SeedWindows, SeedFollows DEF Follows
<1> HIDE DEF seeded
<1> QED
  BY <1>1, <1>2, <1>6 DEF Anchored, Sim

\* CircuitDue survives a step that moves no clock of a sampled unit.
LEMMA CircuitKept ==
    ASSUME CircuitDue, UNCHANGED <<now, index>>, due'.circuit = due.circuit,
           pc' \in {"windows", "events", "protect", "sense"} =>
               pc \in {"windows", "events", "protect", "sense"},
           pc' = "actuate" => pc = "sense" \/ (pc = "actuate" /\ todo' \subseteq todo)
    PROVE  CircuitDue'
BY DEF CircuitDue, NextTime

LEMMA WindowInit == Init => WindowInv
BY DEF Init, WindowInv, CircuitDue, Anchored

LEMMA WindowStep ==
    ASSUME Resumed \/ Connected \cap Continuous = {}, IndInv, WindowInv, [Next]_vars
    PROVE  WindowInv'
<1>1. /\ TypeOK /\ sim \in Sim /\ Coherent(sim) /\ now \in Nat /\ due \in Flags
  BY DEF IndInv, TypeOK, CacheCoherent, Coherent
<1>2. CASE Limit \/ Diverge \/ Finish
  BY <1>2 DEF Limit, Diverge, Finish, WindowInv, Ended
<1>3. CASE Advance
  <2>1. /\ pc = "head" /\ ~Ended /\ now' = Stop /\ due' = DueAt(Stop) /\ index' = index
        /\ pc' \in {"observe", "windows", "log"}
        /\ sim' = [sim EXCEPT !.changed = FALSE, !.synced = @ /\ Stop = now]
    BY <1>3 DEF Advance, Ended
  <2>2. Anchored(sim')
    BY <1>1, <2>1 DEF WindowInv, Anchored, Sim
  <2>3. CircuitDue'
    <3> SUFFICES ASSUME NEW o \in Sampled, NextTime(o)' = now' PROVE due'.circuit
      BY DEF CircuitDue
    <3>1. NextTime(o) = Stop /\ NextTime(o) \in CircuitTimes
      BY <2>1 DEF NextTime, CircuitTimes
    <3> QED
      BY <2>1, <3>1 DEF DueAt
  <2> QED
    BY <2>1, <2>2, <2>3 DEF WindowInv
<1>4. CASE CloseWindows
  <2>1. /\ pc = "windows" /\ ~Ended /\ sim' = Accumulate(sim, Closing, now)
        /\ UNCHANGED <<now, index, due>> /\ pc' \in {"events", "protect"}
    BY <1>4 DEF CloseWindows, Ended
  <2>2. Anchored(sim')
    BY <1>1, <2>1, AccumulateWindows DEF WindowInv
  <2>3. CircuitDue'
    BY <2>1, CircuitKept DEF WindowInv
  <2> QED
    BY <2>1, <2>2, <2>3 DEF WindowInv
<1>5. CASE ApplyEvent
  <2>1. /\ pc = "events" /\ ~Ended /\ UNCHANGED <<now, index, due>>
        /\ pc' \in {"events", "protect"}
        /\ sim' = [Apply(sim, Events[next]) EXCEPT !.synced = FALSE, !.changed = TRUE]
    BY <1>5 DEF ApplyEvent, Ended
  <2>2. sim'.changed = TRUE
    <3>1. next \in 1..Len(Events)
      BY <1>1, <2>1 DEF IndInv, EventsAhead, Ended, TypeOK
    <3>2. Apply(sim, Events[next]) \in Sim
      BY <1>1, <3>1, EventsOrdered, ApplyType
    <3> QED
      BY <2>1, <3>2 DEF Sim
  <2>3. CircuitDue'
    BY <2>1, CircuitKept DEF WindowInv
  <2> QED
    BY <2>1, <2>2, <2>3 DEF WindowInv
<1>6. CASE WindowEdge
  <2>1. /\ pc = "edge" /\ ~Ended /\ pc' = "log" /\ UNCHANGED <<now, index, due>>
        /\ sim' = IF Windowed # {} /\ Jumped THEN Seed(sim, Windowed) ELSE sim
    BY <1>6 DEF WindowEdge, Ended
  <2>2. Anchored(sim')
    <3>1. CASE Windowed = {}
      BY <3>1 DEF Anchored
    <3>2. CASE Windowed # {} /\ Jumped
      BY <1>1, <2>1, <3>2, SeedWindows
    <3>3. CASE Windowed # {} /\ ~Jumped
      BY <2>1, <3>3 DEF WindowInv, Seeding, Jumped
    <3> QED
      BY <3>1, <3>2, <3>3
  <2>3. CircuitDue'
    BY <2>1 DEF CircuitDue
  <2> QED
    BY <2>1, <2>2, <2>3 DEF WindowInv
<1>7. CASE Log \/ Observe
  <2>1. /\ ~Ended /\ pc \in {"log", "observe"} /\ pc' \in {"head", "final"}
        /\ sim' \in {sim, Outputs(sim)}
    BY <1>7 DEF Log, Observe, Snapshot, Ended
  <2>2. Anchored(sim')
    BY <1>1, <2>1, OutputsWindows DEF WindowInv, Anchored
  <2>3. CircuitDue'
    BY <2>1 DEF CircuitDue
  <2> QED
    BY <2>1, <2>2, <2>3 DEF WindowInv
<1>8. ASSUME NEW u \in Units, Protect(u) PROVE WindowInv'
  <2>1. PICK fault \in BOOLEAN :
            /\ Turn(u, "protect", fault)
            /\ sim' \in {TripUnit(Outputs(sim), u, now), Outputs(sim), sim}
    <3>1. PICK fault \in IF IsDue(u) /\ u \notin sim.plant.tripped THEN BOOLEAN ELSE {FALSE} :
              /\ Turn(u, "protect", fault)
              /\ sim' = CASE fault -> TripUnit(Outputs(sim), u, now)
                          [] ~fault /\ (IsDue(u) /\ u \notin sim.plant.tripped) -> Outputs(sim)
                          [] OTHER -> sim
      BY <1>8 DEF Protect
    <3>2. fault \in BOOLEAN
      OBVIOUS
    <3>3. sim' \in {TripUnit(Outputs(sim), u, now), Outputs(sim), sim}
      BY <3>1, <3>2
    <3> QED
      BY <3>1, <3>2, <3>3
  <2>2. /\ pc = "protect" /\ ~Ended /\ pc' \in {"protect", "sense", "final"}
        /\ due'.circuit = due.circuit /\ UNCHANGED <<now, index>>
    BY <1>1, <1>8, <2>1 DEF Protect, Turn, After, Ended, Flags
  <2>3. Anchored(sim') \/ sim'.changed
    <3>1. /\ Outputs(sim) \in Sim /\ Coherent(Outputs(sim))
          /\ Outputs(sim).changed = sim.changed
          /\ Anchored(sim) => Anchored(Outputs(sim))
      BY <1>1, OutputsWindows, OutputsFollow DEF Follows, Anchored
    <3>2. TripUnit(Outputs(sim), u, now).changed = TRUE
      BY <1>1, <3>1, TripNoticed
    <3> QED
      BY <2>1, <2>2, <3>1, <3>2 DEF WindowInv
  <2>4. CircuitDue'
    BY <2>2, CircuitKept DEF WindowInv
  <2> QED
    BY <2>2, <2>3, <2>4 DEF WindowInv, Ended
<1>9. ASSUME NEW o \in Owners, Begin(o) PROVE WindowInv'
  <2>1. Anchored(sim') /\ sim'.plant = NoPlant
    BY <1>9, BeginWindows
  <2>2. pc' \in {"begin", "head"}
    BY <1>9 DEF Begin, Turn, After
  <2>3. CircuitDue'
    BY <2>2 DEF CircuitDue
  <2> QED
    BY <2>1, <2>2, <2>3 DEF WindowInv
<1>10. ASSUME NEW o \in Owners, Sense(o) PROVE WindowInv'
  <2> DEFINE read == Tracked(sim, o)
  <2>1. /\ pc = "sense" /\ ~Ended /\ pc' \in {"sense", "actuate"} /\ now' = now
        /\ sim' \in {read, [read EXCEPT !.tripDue = @ \cup {o}]}
        /\ due'.circuit = due.circuit
        /\ index' = [index EXCEPT ![o] = IF o \in Continuous /\ IsDue(o) THEN @ + 1 ELSE @]
    BY <1>1, <1>10 DEF Sense, Turn, After, Ended, Flags
  <2>2. read \in Sim
    BY <1>1, TrackedFollows DEF Follows
  <2>3. \/ read.changed = TRUE
        \/ read.changed = sim.changed /\ read.plant = sim.plant /\ read.windows = sim.windows
    BY <1>1, TrackedWindows
  <2> HIDE DEF read
  <2>4. /\ sim'.changed = read.changed /\ sim'.plant = read.plant
        /\ sim'.windows = read.windows
    BY <2>1, <2>2 DEF Sim
  <2>5. Anchored(sim') \/ sim'.changed
    BY <2>1, <2>3, <2>4 DEF WindowInv, Anchored
  <2>6. CircuitDue'
    <3> SUFFICES ASSUME NEW p \in Sampled, NextTime(p)' = now' PROVE due'.circuit
      BY DEF CircuitDue
    <3>1. index'[p] = index[p]
      BY <1>1, <2>1, Constants DEF TypeOK, Sampled
    <3> QED
      BY <2>1, <3>1 DEF WindowInv, CircuitDue, NextTime
  <2> QED
    BY <2>1, <2>5, <2>6 DEF WindowInv, Seeding
<1>11. ASSUME NEW o \in Owners, Actuate(o) PROVE WindowInv'
  <2> DEFINE trips == o \in sim.tripDue
             tripped == IF trips THEN TripUnit(sim, o, now) ELSE sim
  <2>1. /\ pc = "actuate" /\ ~Ended /\ now' = now
        /\ o \notin Continuous => (IsDue(o) <=> NextTime(o) = now)
        /\ o \in todo
        /\ pc' = "actuate" => todo' = todo \ {o}
        /\ pc' \in {"actuate", "final", "edge"}
        /\ index' = [index EXCEPT ![o] = IF o \notin Continuous /\ IsDue(o)
                                         THEN @ + 1 ELSE @]
    BY <1>11, ActuateFacts DEF Ended
  <2>2. due'.circuit = due.circuit
        /\ sim' \in CASE o \in Sampled -> Drive(tripped, o)
                      [] o \in BlackBoxes /\ IsDue(o) ->
                             {Change(sim, now, Touched(sim.plant, o, now))}
                      [] OTHER -> {tripped}
    BY <1>1, <1>11 DEF Actuate, Turn, Flags
  <2>3. tripped \in Sim /\ Coherent(tripped) /\ (tripped = sim \/ tripped.changed = TRUE)
    <3>1. trips => o \in Units
      BY <1>1 DEF Sim
    <3> QED
      BY <1>1, <3>1, TripUnitType, TripNoticed
  <2>4. Change(sim, now, Touched(sim.plant, o, now)).changed = TRUE
    <3>1. sim.plant \in Plant /\ now \in Int
      BY <1>1 DEF Sim
    <3>2. Touched(sim.plant, o, now) \in Plant
      BY <3>1, TouchedType
    <3> QED
      BY <1>1, <3>2, ChangeNoticed
  <2> HIDE DEF tripped
  <2>5. \/ sim'.changed = TRUE
        \/ o \in Sampled /\ IsDue(o) /\ sim'.zoh = TRUE
        \/ /\ sim'.changed = sim.changed /\ sim'.plant = sim.plant
           /\ sim'.windows = sim.windows /\ (sim.zoh => sim'.zoh)
    <3>1. CASE o \in Sampled
      <4>1. o \in Units /\ sim' \in Drive(tripped, o)
        BY <2>2, <3>1, Constants DEF Sampled
      <4>2. \/ sim'.changed = TRUE
            \/ IsDue(o) /\ sim'.zoh = TRUE
            \/ /\ sim'.changed = tripped.changed /\ sim'.plant = tripped.plant
               /\ sim'.windows = tripped.windows /\ (tripped.zoh => sim'.zoh)
        BY <1>1, <2>3, <4>1, DriveNoticed
      <4> QED
        BY <2>3, <3>1, <4>2
    <3>2. CASE o \notin Sampled
      <4>1. sim' \in {Change(sim, now, Touched(sim.plant, o, now)), tripped}
        BY <2>2, <3>2
      <4> QED
        BY <2>3, <2>4, <4>1
    <3> QED
      BY <3>1, <3>2
  <2>6. o \in Sampled /\ IsDue(o) => due.circuit
    BY <2>1, Constants DEF WindowInv, CircuitDue, Sampled
  <2>7. Anchored(sim') \/ (Seeding(sim))'
    BY <2>1, <2>2, <2>5, <2>6 DEF WindowInv, Anchored, Seeding
  <2>8. CircuitDue'
    <3> SUFFICES ASSUME NEW p \in Sampled, NextTime(p)' = now', pc' = "actuate", p \in todo'
                 PROVE  due'.circuit
      BY <2>1 DEF CircuitDue
    <3>1. p # o /\ p \in todo /\ index'[p] = index[p]
      BY <1>1, <2>1, Constants DEF TypeOK, Sampled
    <3> QED
      BY <2>1, <2>2, <3>1 DEF WindowInv, CircuitDue, NextTime
  <2> QED
    BY <2>1, <2>7, <2>8 DEF WindowInv, Ended
<1>12. CASE UNCHANGED vars
  BY <1>12 DEF vars, WindowInv, CircuitDue, Anchored, Seeding, NextTime, Ended
<1> QED
  BY <1>2, <1>3, <1>4, <1>5, <1>6, <1>7, <1>8, <1>9, <1>10, <1>11, <1>12 DEF Next

\* WindowsMeetNoJump: no window of an ADC integrates across a jump of the plant, in
\* runs that are continued or begin with no continuous unit connected.  In the
\* others a unit that tracks in its turn of begin changes the plant after the
\* windows of those before it were seeded.
THEOREM WindowsStartFromPresent ==
    ASSUME Resumed \/ Connected \cap Continuous = {}
    PROVE  Spec => []WindowsMeetNoJump
<1>1. Init => WindowInv
  BY WindowInit
<1>2. IndInv /\ WindowInv /\ [Next]_vars => WindowInv'
  BY WindowStep
<1>3. WindowInv => WindowsMeetNoJump
  BY DEF WindowInv, WindowsMeetNoJump, Anchored, Ended
<1> QED
  BY <1>1, <1>2, <1>3, LoopInvariance, PTL DEF Spec

----------------------------------------------------------------------------
(***************************************************************************)
(* The owners of an instant sample the same plant.                         *)
(***************************************************************************)
\* Something was due where the loop is within an iteration.
SomethingDue ==
    /\ pc \in {"windows", "events", "protect", "sense", "actuate", "edge"} => due.physical
    /\ pc = "log" => due.physical \/ due.log \/ now = Final
    /\ pc = "observe" => due.observation
    /\ Fresh => \A o \in Owners : sampled[o].at < now

\* Samples of this instant are those of the present plant until it changes.
AgreeInv ==
    /\ SamplesAgree
    /\ \A o \in Owners : sampled[o].at <= now
    /\ ~Ended =>
        /\ SomethingDue
        /\ sim.trackDue \subseteq Continuous
        /\ pc \in {"windows", "events", "protect"} => \A o \in Owners : sampled[o].at < now
        /\ pc = "sense" => \A o \in Owners : sampled[o].at = now =>
               ExceptTracking(sampled[o].saw) = ExceptTracking(sim.plant)

\* Only a connection of a continuous unit makes it track.
LEMMA TrackKept ==
    ASSUME NEW s \in Sim, Coherent(s), NEW t \in Nat, NEW W
    PROVE  /\ Outputs(s).trackDue = s.trackDue
           /\ Accumulate(s, W, t).trackDue = s.trackDue
           /\ Seed(s, W).trackDue = s.trackDue
           /\ \A p \in Plant : Change(s, t, p).trackDue = s.trackDue
           /\ \A p \in Plant : ChangeUnsettled(s, p).trackDue = s.trackDue
           /\ \A o \in Owners : Hold(s, o, t).trackDue = s.trackDue
<1>1. Outputs(s) \in Sim /\ Outputs(s).trackDue = s.trackDue
  BY OutputsFollow DEF Follows, Outputs, Sim
<1>2. \A V : Accumulate(s, V, t) \in Sim /\ Accumulate(s, V, t).trackDue = s.trackDue
  <2> SUFFICES ASSUME NEW V
               PROVE  Accumulate(s, V, t) \in Sim /\ Accumulate(s, V, t).trackDue = s.trackDue
    OBVIOUS
  <2>1. Accumulate(s, V, t).trackDue = s.trackDue
    <3>1. CASE V = {}
      BY <3>1 DEF Accumulate
    <3>2. CASE V # {}
      BY <1>1, <3>2 DEF Accumulate, Sim
    <3> QED
      BY <3>1, <3>2
  <2> QED
    BY <2>1, AccumulateFollows DEF Follows
<1>3. Seed(s, W).trackDue = s.trackDue
  BY <1>1 DEF Seed, Sim
<1>4. \A p \in Plant : Change(s, t, p).trackDue = s.trackDue
  BY <1>2 DEF Change, Sim
<1>5. \A p \in Plant : ChangeUnsettled(s, p).trackDue = s.trackDue
  BY DEF ChangeUnsettled, Sim
<1>6. \A o \in Owners : Hold(s, o, t).trackDue = s.trackDue
  BY DEF Hold, Sim
<1> QED
  BY <1>1, <1>2, <1>3, <1>4, <1>5, <1>6

LEMMA TrackTripped ==
    ASSUME NEW s \in Sim, Coherent(s), NEW u \in Units, NEW t \in Nat
    PROVE  TripUnit(s, u, t).trackDue \subseteq s.trackDue
<1> DEFINE p == [s.plant EXCEPT !.tripped = @ \cup {u}, !.open = @ \cup {u}]
           c == Change(s, t, p)
<1>1. p \in Plant
  BY DEF Sim, Plant
<1>2. c \in Sim /\ c.trackDue = s.trackDue
  BY <1>1, ChangeType, TrackKept
<1>3. TripUnit(s, u, t) = [c EXCEPT !.trackDue = @ \ {u}, !.tripDue = @ \ {u}]
  BY DEF TripUnit
<1> HIDE DEF c, p
<1> QED
  BY <1>2, <1>3 DEF Sim

LEMMA TrackApplied ==
    ASSUME NEW s \in Sim, NEW e \in Event
    PROVE  Apply(s, e).trackDue \subseteq s.trackDue \cup Continuous
BY DEF Apply, Sim

LEMMA TrackDriven ==
    ASSUME NEW s \in Sim, Coherent(s), NEW u \in Units, now \in Nat, NEW d \in Drive(s, u)
    PROVE  d.trackDue = s.trackDue
<1> DEFINE change == Change(s, now, Touched(s.plant, u, now))
<1>1. u \in Owners /\ now \in Int /\ s.plant \in Plant
  BY Constants DEF Sim
<1>2. change \in Sim /\ Coherent(change) /\ change.trackDue = s.trackDue
  <2>1. Touched(s.plant, u, now) \in Plant
    BY <1>1, TouchedType
  <2> QED
    BY <2>1, ChangeType, TrackKept
<1>3. Hold(s, u, now).trackDue = s.trackDue /\ Hold(change, u, now).trackDue = s.trackDue
  <2> HIDE DEF change
  <2> QED
    BY <1>1, <1>2, TrackKept
<1>4. d \in {Hold(s, u, now), Hold(change, u, now), s, [s EXCEPT !.zoh = TRUE]}
  <2>1. d \in IF Enabled(s, u)
              THEN IF IsDue(u) THEN {Hold(s, u, now), Hold(change, u, now)} ELSE {s}
              ELSE {IF u \in Unfiltered THEN [s EXCEPT !.zoh = TRUE] ELSE s}
    BY DEF Drive
  <2> HIDE DEF change
  <2> QED
    BY <2>1
<1> HIDE DEF change
<1> QED
  BY <1>3, <1>4 DEF Sim

\* What a continuous unit changes when it tracks is excepted.
LEMMA TrackingExcepted ==
    ASSUME NEW s \in Sim, Coherent(s), NEW o \in Owners, now \in Nat,
           s.trackDue \subseteq Continuous
    PROVE  /\ ExceptTracking(Tracked(s, o).plant) = ExceptTracking(s.plant)
           /\ Tracked(s, o).trackDue \subseteq s.trackDue
<1> DEFINE read == Outputs(s)
           p == Touched(read.plant, o, now)
           change == Change(read, now, p)
           track == [change EXCEPT !.trackDue = @ \ {o}]
<1>1. /\ read \in Sim /\ Coherent(read) /\ read.plant = s.plant
      /\ read.trackDue = s.trackDue
  BY OutputsFollow, TrackKept DEF Follows
<1>2. p \in Plant /\ (o \in Continuous => ExceptTracking(p) = ExceptTracking(s.plant))
  <2>1. s.plant \in Plant /\ now \in Int
    BY DEF Sim
  <2>2. p \in Plant
    BY <1>1, <2>1, TouchedType
  <2>3. p = [s.plant EXCEPT !.touched[o] = now]
    BY <1>1 DEF Touched
  <2> HIDE DEF p
  <2>4. ASSUME o \in Continuous PROVE ExceptTracking(p) = ExceptTracking(s.plant)
    <3>1. [c \in Owners \ Continuous |-> p.touched[c]]
              = [c \in Owners \ Continuous |-> s.plant.touched[c]]
      BY <2>1, <2>3, <2>4 DEF Plant
    <3> QED
      BY <2>1, <2>2, <2>3, <3>1 DEF ExceptTracking, Plant
  <2> QED
    BY <2>2, <2>4
<1>3. change \in Sim /\ Coherent(change) /\ change.plant = p /\ change.trackDue = s.trackDue
  <2> HIDE DEF read, p
  <2> QED
    BY <1>1, <1>2, ChangeType, TrackKept
<1>4. track \in Sim /\ Coherent(track) /\ track.plant = p /\ track.trackDue = s.trackDue \ {o}
  <2> HIDE DEF change
  <2> QED
    BY <1>3 DEF Coherent, Sim
<1>5. Outputs(track).plant = p /\ Outputs(track).trackDue = s.trackDue \ {o}
  <2> HIDE DEF track
  <2> QED
    BY <1>4, OutputsFollow, TrackKept
<1>6. Tracked(s, o) = IF o \in s.trackDue THEN Outputs(track)
                      ELSE IF IsDue(o) THEN read ELSE s
  BY <1>1 DEF Tracked
<1> HIDE DEF read, p, change, track
<1> QED
  BY <1>1, <1>2, <1>5, <1>6

LEMMA AgreeInit == Init => AgreeInv
<1> SUFFICES ASSUME Init PROVE AgreeInv
  OBVIOUS
<1>1. \A o \in Owners : sampled[o] = [at |-> Start - 1, saw |-> NoPlant]
  BY DEF Init
<1>2. pc = "begin" /\ now = Start /\ Start \in Nat /\ sim.trackDue = {}
  BY Constants DEF Init
<1> QED
  BY <1>1, <1>2 DEF AgreeInv, SamplesAgree, SomethingDue, Ended

\* The agreement of the samples in terms of the next state.
LEMMA AgreeSame ==
    ASSUME SamplesAgree, UNCHANGED sampled
    PROVE  SamplesAgree'
<1> SUFFICES ASSUME NEW o \in Owners, NEW p \in Owners, sampled'[o].at = sampled'[p].at
             PROVE  ExceptTracking(sampled'[o].saw) = ExceptTracking(sampled'[p].saw)
  BY DEF SamplesAgree
<1> QED
  BY DEF SamplesAgree

\* The end of the run takes no sample.
LEMMA AgreeEnded ==
    ASSUME TypeOK, AgreeInv, UNCHANGED sampled, now' \in Nat, now <= now', Ended'
    PROVE  AgreeInv'
<1>1. SamplesAgree'
  BY AgreeSame DEF AgreeInv
<1>2. \A o \in Owners : sampled[o].at <= now'
  BY DEF AgreeInv, TypeOK
<1> QED
  BY <1>1, <1>2 DEF AgreeInv

\* A step without a sample or a change of time keeps the agreement.
LEMMA AgreeKept ==
    ASSUME TypeOK, AgreeInv, ~Ended, UNCHANGED <<now, sampled>>,
           SomethingDue', sim'.trackDue \subseteq Continuous,
           pc' \in {"windows", "events", "protect"} =>
               pc \in {"windows", "events", "protect"},
           pc' = "sense" => pc = "protect"
    PROVE  AgreeInv'
<1>1. SamplesAgree'
  BY AgreeSame DEF AgreeInv
<1>2. \A o \in Owners : sampled[o].at <= now
  BY DEF AgreeInv
<1>3. pc \in {"windows", "events", "protect"} => \A o \in Owners : sampled[o].at < now
  BY DEF AgreeInv
<1>4. pc' = "sense" => \A o \in Owners : sampled[o].at # now
  <2> SUFFICES ASSUME pc = "protect", NEW o \in Owners PROVE sampled[o].at # now
    OBVIOUS
  <2>1. sampled[o].at < now /\ sampled[o].at \in Int /\ now \in Int
    BY <1>3 DEF TypeOK
  <2> QED
    BY <2>1
<1> QED
  BY <1>1, <1>2, <1>3, <1>4 DEF AgreeInv

LEMMA AgreeAdvance == IndInv /\ AgreeInv /\ Advance => AgreeInv'
<1> SUFFICES ASSUME IndInv, AgreeInv, Advance PROVE AgreeInv'
  OBVIOUS
<1>1. /\ pc = "head" /\ now' = Stop /\ due' = DueAt(Stop) /\ sim' \in Sim
      /\ UNCHANGED sampled /\ sim'.trackDue = sim.trackDue /\ ~Ended /\ TypeOK
      /\ pc' = IF Stop < NativeStop THEN "observe"
               ELSE IF Stop \in PhysicalTimes THEN "windows" ELSE "log"
  <2>1. pc = "head" /\ now' = Stop /\ due' = DueAt(Stop) /\ UNCHANGED sampled
    BY DEF Advance
  <2>2. ~Ended /\ TypeOK /\ sim \in Sim
    BY <2>1 DEF IndInv, Ended, TypeOK
  <2>3. sim' \in Sim /\ sim'.trackDue = sim.trackDue
    BY <2>2 DEF Advance, Sim
  <2>4. pc' = IF Stop < NativeStop THEN "observe"
              ELSE IF Stop \in PhysicalTimes THEN "windows" ELSE "log"
    BY <2>1, StopSpec DEF Advance
  <2> QED
    BY <2>1, <2>2, <2>3, <2>4
<1>2. /\ Stop \in Nat /\ NativeStop \in Nat /\ now <= Stop /\ now \in Nat
      /\ Stop <= NativeStop
      /\ NativeStop \in {Final, LogTime} \cup PhysicalTimes
      /\ Stop \in {NativeStop} \cup observations
  BY <1>1, StopSpec DEF TypeOK
<1>3. SamplesAgree' /\ \A o \in Owners : sampled[o].at \in Int /\ sampled[o].at <= now
  BY <1>1, AgreeSame DEF AgreeInv, TypeOK
<1>4. Stop \in PhysicalTimes => \A o \in Owners : sampled[o].at < Stop
  <2>1. CASE Fresh
    BY <1>1, <1>2, <1>3, <2>1 DEF AgreeInv, SomethingDue
  <2>2. CASE ~Fresh
    <3>1. Started
      BY <1>1, <2>2 DEF Started, Fresh
    <3>2. \A t \in PhysicalTimes : t > now
      BY <3>1, Overdue, Constants DEF NothingOverdue, PhysicalTimes, CircuitTimes, Sampled, Owners
    <3> QED
      BY <1>2, <1>3, <3>2
  <2> QED
    BY <2>1, <2>2
<1>5. SomethingDue'
  <2>1. due'.physical = (Stop \in PhysicalTimes) /\ due'.log = (Stop = LogTime)
        /\ due'.observation = (Stop \in observations)
    BY <1>1 DEF DueAt
  <2>2. ~Fresh'
    BY <1>1 DEF Fresh
  <2>3. pc' = "observe" => Stop \in observations
    BY <1>1, <1>2
  <2>4. pc' = "log" => Stop = Final \/ Stop = LogTime
    BY <1>1, <1>2
  <2> QED
    BY <1>1, <2>1, <2>2, <2>3, <2>4 DEF SomethingDue
<1>6. \A o \in Owners : sampled[o].at <= Stop
  BY <1>2, <1>3
<1> QED
  BY <1>1, <1>3, <1>4, <1>5, <1>6 DEF AgreeInv

LEMMA AgreeSense ==
    ASSUME IndInv, AgreeInv, NEW o \in Owners, Sense(o)
    PROVE  AgreeInv'
<1>1. /\ pc = "sense" /\ now \in Nat /\ now' = now /\ pc' \in {"sense", "actuate"}
      /\ IsDue(o) => sampled' = [sampled EXCEPT ![o] = [at |-> now, saw |-> sim'.plant]]
      /\ ~IsDue(o) => sampled' = sampled
  BY SenseFacts
<1>2. /\ ~Ended /\ TypeOK /\ sim \in Sim /\ Coherent(sim) /\ sim.trackDue \subseteq Continuous
      /\ due.physical /\ sampled \in [Owners -> [at : Int, saw : Plant]]
      /\ \A p \in Owners : sampled[p].at = now =>
             ExceptTracking(sampled[p].saw) = ExceptTracking(sim.plant)
  BY <1>1 DEF IndInv, Ended, TypeOK, CacheCoherent, Coherent, AgreeInv, SomethingDue
<1>3. /\ ExceptTracking(sim'.plant) = ExceptTracking(sim.plant)
      /\ sim'.trackDue \subseteq Continuous
  <2> DEFINE read == Tracked(sim, o)
  <2>1. /\ ExceptTracking(read.plant) = ExceptTracking(sim.plant)
        /\ read.trackDue \subseteq Continuous /\ read \in Sim
    BY <1>1, <1>2, TrackingExcepted, TrackedFollows DEF Follows
  <2>2. PICK fault \in BOOLEAN :
            sim' = IF fault THEN [read EXCEPT !.tripDue = @ \cup {o}] ELSE read
    BY DEF Sense
  <2> HIDE DEF read
  <2> QED
    BY <2>1, <2>2 DEF Sim
<1>4. SomethingDue'
  <2>1. due'.physical = due.physical
    BY <1>2 DEF Sense, Turn, TypeOK, Flags
  <2> QED
    BY <1>1, <1>2, <2>1 DEF SomethingDue, Fresh
<1>5. \A p \in Owners : \/ sampled'[p] = sampled[p]
                        \/ p = o /\ sampled'[p].at = now /\ sampled'[p].saw = sim'.plant
  BY <1>1, <1>2
<1>6. \A p \in Owners : sampled'[p].at <= now
  BY <1>1, <1>2, <1>5 DEF AgreeInv
<1>7. \A p \in Owners : sampled'[p].at = now =>
          ExceptTracking(sampled'[p].saw) = ExceptTracking(sim'.plant)
  BY <1>2, <1>3, <1>5
<1>8. SamplesAgree'
  <2> SUFFICES ASSUME NEW p \in Owners, NEW q \in Owners, sampled'[p].at = sampled'[q].at
               PROVE  ExceptTracking(sampled'[p].saw) = ExceptTracking(sampled'[q].saw)
    BY DEF SamplesAgree
  <2>1. CASE sampled'[p] = sampled[p] /\ sampled'[q] = sampled[q]
    BY <2>1 DEF AgreeInv, SamplesAgree
  <2>2. CASE sampled'[p].at = now
    BY <1>7, <2>2
  <2> QED
    BY <1>5, <2>1, <2>2
<1> QED
  BY <1>1, <1>3, <1>4, <1>6, <1>7, <1>8 DEF AgreeInv, Ended

LEMMA AgreeActuate ==
    ASSUME IndInv, AgreeInv, NEW o \in Owners, Actuate(o)
    PROVE  AgreeInv'
<1>1. /\ pc = "actuate" /\ now \in Nat /\ UNCHANGED <<now, sampled>>
      /\ pc' \in {"actuate", "edge", "final"}
  <2>1. /\ todo # {o} => pc' = "actuate"
        /\ todo = {o} => pc' = IF due'.trip /\ StopOnTrip THEN "final" ELSE "edge"
    BY ActuateFacts
  <2> QED
    BY <2>1, ActuateFacts
<1>2. /\ ~Ended /\ TypeOK /\ sim \in Sim /\ Coherent(sim) /\ sim.trackDue \subseteq Continuous
      /\ due.physical
  BY <1>1 DEF IndInv, Ended, TypeOK, CacheCoherent, Coherent, AgreeInv, SomethingDue
<1>3. SomethingDue'
  <2>1. due'.physical = due.physical
    BY <1>2 DEF Actuate, Turn, TypeOK, Flags
  <2> QED
    BY <1>1, <1>2, <2>1 DEF SomethingDue, Fresh
<1>4. sim'.trackDue \subseteq Continuous
  <2> DEFINE tripped == IF o \in sim.tripDue THEN TripUnit(sim, o, now) ELSE sim
  <2>1. /\ tripped \in Sim /\ Coherent(tripped) /\ tripped.trackDue \subseteq Continuous
    <3>1. CASE o \in sim.tripDue
      <4>1. o \in Units
        BY <1>2, <3>1 DEF Sim
      <4> QED
        BY <1>1, <1>2, <3>1, <4>1, TripUnitType, TrackTripped
    <3> QED
      BY <1>2, <3>1
  <2>2. sim' \in CASE o \in Sampled -> Drive(tripped, o)
                   [] o \in BlackBoxes /\ IsDue(o) ->
                          {Change(sim, now, Touched(sim.plant, o, now))}
                   [] OTHER -> {tripped}
    BY DEF Actuate
  <2> HIDE DEF tripped
  <2>3. CASE o \in Sampled
    <3>1. o \in Units /\ ~(o \in BlackBoxes) /\ sim' \in Drive(tripped, o)
      BY <2>2, <2>3, Constants DEF Sampled
    <3> QED
      BY <1>1, <2>1, <3>1, TrackDriven
  <2>4. CASE o \notin Sampled /\ o \in BlackBoxes /\ IsDue(o)
    <3>1. sim' = Change(sim, now, Touched(sim.plant, o, now))
      BY <2>2, <2>4
    <3>2. Touched(sim.plant, o, now) \in Plant
      BY <1>1, <1>2, TouchedType DEF Sim
    <3> QED
      BY <1>1, <1>2, <3>1, <3>2, TrackKept
  <2>5. CASE o \notin Sampled /\ ~(o \in BlackBoxes /\ IsDue(o))
    BY <2>1, <2>2, <2>5
  <2> QED
    BY <2>3, <2>4, <2>5
<1>5. CASE pc' = "final"
  BY <1>1, <1>2, <1>5, AgreeEnded DEF Ended
<1>6. CASE pc' # "final"
  BY <1>1, <1>2, <1>3, <1>4, <1>6, AgreeKept
<1> QED
  BY <1>5, <1>6

LEMMA AgreeProtect ==
    ASSUME IndInv, AgreeInv, NEW u \in Units, Protect(u)
    PROVE  AgreeInv'
<1>1. /\ pc = "protect" /\ TypeOK /\ ~Ended /\ now \in Nat /\ UNCHANGED <<now, sampled>>
      /\ sim \in Sim /\ Coherent(sim) /\ sim.trackDue \subseteq Continuous /\ due.physical
  BY DEF Protect, Turn, IndInv, Ended, TypeOK, CacheCoherent, Coherent, AgreeInv, SomethingDue
<1>2. pc' \in {"protect", "sense", "final"} /\ due'.physical = due.physical
  BY <1>1 DEF Protect, Turn, After, TypeOK, Flags
<1>3. SomethingDue'
  BY <1>1, <1>2 DEF SomethingDue, Fresh
<1>4. sim'.trackDue \subseteq Continuous
  <2>1. Outputs(sim) \in Sim /\ Coherent(Outputs(sim)) /\ Outputs(sim).trackDue = sim.trackDue
    BY <1>1, OutputsFollow, TrackKept DEF Follows
  <2>2. PICK fault \in BOOLEAN, checked \in BOOLEAN :
            sim' = CASE fault -> TripUnit(Outputs(sim), u, now)
                     [] ~fault /\ checked -> Outputs(sim)
                     [] OTHER -> sim
    BY DEF Protect
  <2>3. CASE fault
    BY <1>1, <2>1, <2>2, <2>3, TrackTripped
  <2>4. CASE ~fault
    BY <1>1, <2>1, <2>2, <2>4
  <2> QED
    BY <2>3, <2>4
<1>5. CASE pc' = "final"
  BY <1>1, <1>5, AgreeEnded DEF Ended
<1>6. CASE pc' # "final"
  BY <1>1, <1>2, <1>3, <1>4, <1>6, AgreeKept
<1> QED
  BY <1>5, <1>6

LEMMA AgreeBegin ==
    ASSUME IndInv, AgreeInv, NEW o \in Owners, Begin(o)
    PROVE  AgreeInv'
<1>1. /\ pc = "begin" /\ TypeOK /\ ~Ended /\ now \in Nat /\ UNCHANGED <<now, sampled>>
      /\ sim \in Sim /\ Coherent(sim) /\ sim.trackDue \subseteq Continuous
      /\ now = Start /\ \A p \in Owners : sampled[p].at < now
  <2>1. pc = "begin" /\ UNCHANGED <<now, sampled>>
    BY DEF Begin, Turn
  <2> QED
    BY <2>1 DEF IndInv, Ended, TypeOK, CacheCoherent, Coherent, AgreeInv, SomethingDue,
                AtStart, Fresh
<1>2. pc' \in {"begin", "head"}
  BY <1>1 DEF Begin, Turn, After
<1>3. SomethingDue'
  BY <1>1, <1>2 DEF SomethingDue
<1>4. sim'.trackDue \subseteq Continuous
  <2> DEFINE jump == IF o \in Continuous THEN Touched(sim.plant, o, Start) ELSE sim.plant
             tracked == IF o \in Connected /\ ~Resumed
                        THEN ChangeUnsettled(Outputs(sim), jump) ELSE sim
             held == IF o \in Sampled THEN [tracked EXCEPT !.zoh = TRUE] ELSE tracked
             begun == IF o \in BlackBoxes THEN sim
                      ELSE Seed(held, IF Resumed THEN {} ELSE {o})
  <2>1. jump \in Plant
    BY <1>1, TouchedType, Constants DEF Sim
  <2>2. tracked \in Sim /\ Coherent(tracked) /\ tracked.trackDue = sim.trackDue
    <3>1. Follows(Outputs(sim), sim) /\ Outputs(sim).trackDue = sim.trackDue
      BY <1>1, OutputsFollow, TrackKept
    <3> HIDE DEF jump
    <3>2. CASE o \in Connected /\ ~Resumed
      <4>1. tracked = ChangeUnsettled(Outputs(sim), jump)
        BY <3>2
      <4> QED
        BY <1>1, <2>1, <3>1, <4>1, ChangeUnsettledType, TrackKept DEF Follows
    <3> QED
      BY <1>1, <3>2
  <2> HIDE DEF tracked
  <2>3. held \in Sim /\ Coherent(held) /\ held.trackDue = sim.trackDue
    BY <2>2 DEF Sim, Coherent
  <2> HIDE DEF held
  <2>4. begun \in Sim /\ begun.trackDue = sim.trackDue
    BY <1>1, <2>3, SeedFollows, TrackKept DEF Follows
  <2>5. sim' = [begun EXCEPT !.synced = @ /\ todo # {o}]
    BY DEF Begin, held, tracked
  <2> HIDE DEF begun
  <2> QED
    BY <1>1, <2>4, <2>5 DEF Sim
<1> QED
  BY <1>1, <1>2, <1>3, <1>4, AgreeKept

\* The phases of an iteration that only prepare or close it.
LEMMA AgreePhase ==
    IndInv /\ AgreeInv /\ (CloseWindows \/ ApplyEvent \/ WindowEdge) => AgreeInv'
<1> SUFFICES ASSUME IndInv, AgreeInv, CloseWindows \/ ApplyEvent \/ WindowEdge
             PROVE  AgreeInv'
  OBVIOUS
<1>1. /\ pc \in {"windows", "events", "edge"} /\ TypeOK /\ ~Ended /\ now \in Nat
      /\ UNCHANGED <<now, sampled, due>>
      /\ pc' \in IF pc = "edge" THEN {"log"} ELSE {"events", "protect"}
      /\ sim \in Sim /\ Coherent(sim) /\ sim.trackDue \subseteq Continuous /\ due.physical
  BY DEF CloseWindows, ApplyEvent, WindowEdge, IndInv, Ended, TypeOK, CacheCoherent,
         Coherent, AgreeInv, SomethingDue
<1>2. SomethingDue'
  BY <1>1 DEF SomethingDue, Fresh
<1>3. sim'.trackDue \subseteq Continuous
  <2>1. CASE CloseWindows
    BY <1>1, <2>1, TrackKept DEF CloseWindows
  <2>2. CASE WindowEdge
    BY <1>1, <2>2, TrackKept DEF WindowEdge
  <2>3. CASE ApplyEvent
    <3>1. next \in 1..Len(Events) /\ Events[next] \in Event
      BY <1>1, <2>3, EventsOrdered DEF ApplyEvent, TypeOK, IndInv, Ended, EventsAhead
    <3>2. sim' = [Apply(sim, Events[next]) EXCEPT !.synced = FALSE, !.changed = TRUE]
      BY <2>3 DEF ApplyEvent
    <3>3. Apply(sim, Events[next]) \in Sim
      BY <1>1, <3>1, ApplyType
    <3> QED
      BY <1>1, <3>1, <3>2, <3>3, TrackApplied DEF Sim
  <2> QED
    BY <2>1, <2>2, <2>3
<1> QED
  BY <1>1, <1>2, <1>3, AgreeKept

\* An iteration ends with something that was due.
LEMMA AgreeOutput == IndInv /\ AgreeInv /\ (Log \/ Observe) => AgreeInv'
<1> SUFFICES ASSUME IndInv, AgreeInv, Log \/ Observe PROVE AgreeInv'
  OBVIOUS
<1>1. /\ pc \in {"log", "observe"} /\ TypeOK /\ ~Ended /\ now \in Nat
      /\ UNCHANGED <<now, sampled, due>>
      /\ sim \in Sim /\ Coherent(sim) /\ sim.trackDue \subseteq Continuous /\ SomethingDue
  <2>1. pc \in {"log", "observe"} /\ UNCHANGED <<now, sampled, due>>
    BY DEF Log, Observe
  <2> QED
    BY <2>1 DEF IndInv, Ended, TypeOK, CacheCoherent, Coherent, AgreeInv
<1>2. CASE pc' = "final"
  BY <1>1, <1>2, AgreeEnded DEF Ended
<1>3. CASE pc' # "final"
  <2>1. pc' = "head" /\ (pc = "log" => now # Final) /\ sim' \in {sim, Outputs(sim)}
    BY <1>3 DEF Log, Observe, Snapshot
  <2>2. due # Idle
    BY <1>1, <2>1 DEF SomethingDue, Idle
  <2>3. SomethingDue'
    BY <1>1, <2>1, <2>2 DEF SomethingDue, Fresh
  <2>4. sim'.trackDue \subseteq Continuous
    BY <1>1, <2>1, TrackKept
  <2> QED
    BY <1>1, <2>1, <2>3, <2>4, AgreeKept
<1> QED
  BY <1>2, <1>3

LEMMA AgreeStep == IndInv /\ AgreeInv /\ [Next]_vars => AgreeInv'
<1> SUFFICES ASSUME IndInv, AgreeInv, [Next]_vars PROVE AgreeInv'
  OBVIOUS
<1>1. TypeOK /\ now \in Nat
  BY DEF IndInv, TypeOK
<1>2. CASE UNCHANGED vars
  <2>1. UNCHANGED <<pc, now, due, sim, sampled>>
    BY <1>2 DEF vars
  <2>2. SamplesAgree' /\ SomethingDue' = SomethingDue /\ Ended' = Ended
    BY <2>1, AgreeSame DEF AgreeInv, SomethingDue, Fresh, Ended
  <2> QED
    BY <2>1, <2>2 DEF AgreeInv
<1>3. CASE Limit \/ Finish
  BY <1>1, <1>3, AgreeEnded DEF Limit, Finish, Ended
<1>4. CASE Diverge
  <2>1. pc = "head" /\ now' \in {now, Stop} /\ UNCHANGED sampled /\ Ended'
    BY <1>4 DEF Diverge, Ended
  <2> QED
    BY <1>1, <2>1, StopSpec, AgreeEnded
<1>5. CASE \E o \in Owners : Begin(o) \/ Sense(o) \/ Actuate(o)
  BY <1>5, AgreeBegin, AgreeSense, AgreeActuate
<1>6. CASE \E u \in Units : Protect(u)
  BY <1>6, AgreeProtect
<1> QED
  BY <1>2, <1>3, <1>4, <1>5, <1>6, AgreeAdvance, AgreePhase, AgreeOutput DEF Next

\* SamplesAgree: the owners that Simulation.run lets sense at one instant see the
\* same plant, because every trip and output waits until all of them have sensed.
THEOREM OwnersSampleTheSame == Spec => []SamplesAgree
<1>1. Init => AgreeInv
  BY AgreeInit
<1>2. IndInv /\ AgreeInv /\ [Next]_vars => AgreeInv'
  BY AgreeStep
<1>3. AgreeInv => SamplesAgree
  BY DEF AgreeInv
<1> QED
  BY <1>1, <1>2, <1>3, LoopInvariance, PTL DEF Spec

----------------------------------------------------------------------------
(***************************************************************************)
(* The loop implements the service of its instants.                        *)
(***************************************************************************)
\* The first event of a clock in a run is the first that is not before it.
LEMMA StartIndexLast ==
    ASSUME NEW clock \in Clock, NEW t \in Int, NEW continued \in BOOLEAN
    PROVE  ClockAt(clock, StartIndex(clock, t, continued) - 1) <= t
<1>1. CASE continued
  BY <1>1, IndexAfterSpec DEF StartIndex
<1>2. CASE ~continued
  <2>1. /\ IndexAtOrAfter(clock, t) \in Int
        /\ ClockAt(clock, IndexAtOrAfter(clock, t) - 1) < t
    BY IndexAtOrAfterSpec
  <2>2. ClockAt(clock, IndexAtOrAfter(clock, t) - 1) \in Int
    <3> HIDE DEF IndexAtOrAfter
    <3>1. IndexAtOrAfter(clock, t) - 1 \in Int
      BY <2>1
    <3> QED
      BY <3>1, ClockStep
  <2> QED
    BY <1>2, <2>1, <2>2 DEF StartIndex
<1> QED
  BY <1>1, <1>2

\* LastTime is one period before the next service.
LEMMA LastTimes ==
    ASSUME TypeOK, NEW o \in Owners
    PROVE  LastTime(o) \in Int /\ LastTime(o) = NextTime(o) - Clocks[o].period
<1>1. index[o] \in Int /\ Clocks[o] \in Clock
  BY Constants DEF TypeOK
<1> QED
  BY <1>1, ClockStep DEF NextTime, LastTime, Clock

\* A step that moves no clock and no time, and does not come to the file events
\* of the instant, keeps the last services where they are.
LEMMA LastKept ==
    ASSUME LastServed, ~Ended, UNCHANGED <<now, index>>,
           pc = "begin" => pc' = "begin" /\ todo' = todo,
           pc' = "begin" => pc = "begin",
           pc' = "events" \/ (pc' = "windows" /\ due'.event)
               => pc = "events" \/ (pc = "windows" /\ due.event)
    PROVE  LastServed'
BY DEF LastServed, LastTime, Ended

\* A served clock was due just now, and every other one is left alone.
LEMMA LastAdvanced ==
    ASSUME TypeOK, LastServed, pc \in {"sense", "actuate"}, NEW o \in Owners,
           pc' \notin {"begin", "windows", "events"}, now' = now, now \in Nat,
           \/ index' = index
           \/ NextTime(o) = now /\ index' = [index EXCEPT ![o] = @ + 1]
    PROVE  LastServed'
<1> SUFFICES ASSUME NEW p \in Owners PROVE LastTime(p)' <= now
  BY DEF LastServed
<1>1. index \in [Owners -> Int] /\ LastTime(p) <= now
  BY DEF TypeOK, LastServed, Ended
<1>2. CASE index'[p] = index[p]
  BY <1>1, <1>2 DEF LastTime
<1>3. CASE index'[p] # index[p]
  <2>1. p = o /\ index'[p] = index[p] + 1 /\ NextTime(p) = now
    BY <1>1, <1>3
  <2>2. index'[p] - 1 = index[p]
    BY <1>1, <2>1
  <2> QED
    BY <2>1, <2>2 DEF LastTime, NextTime
<1> QED
  BY <1>2, <1>3

\* LastServed is invariant together with IndInv.
LEMMA LastInit == Init => LastServed
BY DEF Init, LastServed, Ended

LEMMA LastStep == IndInv /\ LastServed /\ [Next]_vars => LastServed'
<1> SUFFICES ASSUME IndInv, LastServed, [Next]_vars PROVE LastServed'
  OBVIOUS
<1>1. TypeOK /\ now \in Nat
  BY DEF IndInv, TypeOK
<1>2. CASE Limit \/ Diverge \/ Finish
  <2>1. Ended'
    BY <1>2 DEF Limit, Diverge, Finish, Ended
  <2> QED
    BY <2>1 DEF LastServed
<1>3. CASE Advance
  <2>1. /\ pc = "head" /\ now' = Stop /\ due' = DueAt(Stop) /\ index' = index
        /\ pc' \notin {"begin", "events"} /\ Stop \in Nat /\ now <= Stop
    BY <1>3, StopSpec DEF Advance
  <2>2. \A o \in Owners : LastTime(o) \in Int /\ LastTime(o) <= now /\ LastTime(o)' = LastTime(o)
    BY <1>1, <2>1, LastTimes DEF LastServed, Ended, LastTime
  <2>3. due'.event => now < Stop
    <3> SUFFICES ASSUME NEW i \in next..Len(Events), Events[i].t = Stop PROVE now < Stop
      BY <2>1 DEF DueAt, ActionTimes
    <3>1. i \in 1..Len(Events) /\ ~(i < next)
      BY <1>1, EventsOrdered DEF TypeOK
    <3> QED
      BY <2>1, <3>1 DEF IndInv, Ended, EventsAhead
  <2> QED
    BY <1>1, <2>1, <2>2, <2>3 DEF LastServed
<1>4. CASE CloseWindows \/ ApplyEvent
  <2>1. /\ ~Ended /\ UNCHANGED <<now, index>> /\ pc # "begin"
        /\ pc' \in {"events", "protect"}
        /\ pc' = "events" => pc = "events" \/ (pc = "windows" /\ due.event)
    BY <1>4 DEF CloseWindows, ApplyEvent, Ended
  <2> QED
    BY <2>1, LastKept
<1>5. CASE WindowEdge \/ Log \/ Observe
  <2>1. /\ ~Ended /\ UNCHANGED <<now, index>> /\ pc # "begin"
        /\ pc' \notin {"begin", "events", "windows"}
    BY <1>5 DEF WindowEdge, Log, Observe, Ended
  <2> QED
    BY <2>1, LastKept
<1>6. ASSUME NEW u \in Units, Protect(u) PROVE LastServed'
  <2>1. PICK fault \in BOOLEAN : Turn(u, "protect", fault)
    BY <1>6 DEF Protect
  <2>2. /\ ~Ended /\ UNCHANGED <<now, index>> /\ pc = "protect"
        /\ pc' \in {"protect", "final", "sense"}
    BY <1>6, <2>1 DEF Protect, Turn, After, Ended
  <2> QED
    BY <2>2, LastKept
<1>7. ASSUME NEW o \in Owners, Begin(o) PROVE LastServed'
  <2>1. /\ pc = "begin" /\ o \in todo /\ now' = now /\ now = Start
        /\ index' = [index EXCEPT ![o] = StartIndex(Clocks[o], Start, Resumed)]
        /\ todo # {o} => pc' = "begin" /\ todo' = todo \ {o}
        /\ todo = {o} => pc' = "head" /\ todo' = {}
    BY <1>7 DEF Begin, Turn, After, IndInv, AtStart
  <2>2. LastTime(o)' <= now
    <3>1. index'[o] = StartIndex(Clocks[o], Start, Resumed)
      BY <1>1, <2>1 DEF TypeOK
    <3> QED
      BY <2>1, <3>1, Constants, StartIndexLast DEF LastTime
  <2>3. ASSUME NEW p \in Owners, p # o, p \notin todo
        PROVE  LastTime(p)' <= now
    <3>1. index'[p] = index[p]
      BY <1>1, <2>1, <2>3 DEF TypeOK
    <3>2. LastTime(p) <= now
      BY <2>1, <2>3 DEF LastServed, Ended
    <3> QED
      BY <3>1, <3>2 DEF LastTime
  <2>4. pc' \in {"begin", "head"}
    BY <2>1
  <2>5. ASSUME NEW p \in Owners, pc' = "begin" => p \notin todo'
        PROVE  p = o \/ p \notin todo
    BY <2>1, <2>5
  <2> QED
    BY <2>1, <2>2, <2>3, <2>4, <2>5 DEF LastServed
<1>8. ASSUME NEW o \in Owners, Sense(o) PROVE LastServed'
  <2>1. /\ pc = "sense" /\ now' = now /\ pc' \in {"sense", "actuate"}
        /\ (IsDue(o) <=> NextTime(o) = now)
        /\ index' = [index EXCEPT ![o] = IF o \in Continuous /\ IsDue(o)
                                         THEN @ + 1 ELSE @]
    BY <1>8, SenseFacts
  <2>2. index' = index \/ (NextTime(o) = now /\ index' = [index EXCEPT ![o] = @ + 1])
    BY <1>1, <2>1 DEF TypeOK
  <2> QED
    BY <1>1, <2>1, <2>2, LastAdvanced
<1>9. ASSUME NEW o \in Owners, Actuate(o) PROVE LastServed'
  <2>1. /\ pc = "actuate" /\ now' = now /\ pc' \in {"actuate", "final", "edge"}
        /\ o \notin Continuous => (IsDue(o) <=> NextTime(o) = now)
        /\ index' = [index EXCEPT ![o] = IF o \notin Continuous /\ IsDue(o)
                                         THEN @ + 1 ELSE @]
    BY <1>9, ActuateFacts
  <2>2. index' = index \/ (NextTime(o) = now /\ index' = [index EXCEPT ![o] = @ + 1])
    BY <1>1, <2>1 DEF TypeOK
  <2> QED
    BY <1>1, <2>1, <2>2, LastAdvanced
<1>10. CASE UNCHANGED vars
  BY <1>10 DEF vars, LastServed, LastTime, Ended
<1> QED
  BY <1>2, <1>3, <1>4, <1>5, <1>6, <1>7, <1>8, <1>9, <1>10 DEF Next

\* The served clocks are those of the owners.
LEMMA ServedOwners ==
    /\ Instants!Served = Owners
    /\ \A c, n : Instants!ClockAt(c, n) = ClockAt(c, n)
<1>1. DOMAIN Clocks = Owners
  BY LoopAssumption
<1> QED
  BY <1>1 DEF Instants!Served, Instants!ClockAt, ClockAt

\* After the start the indices are those of the owners.
LEMMA ServiceTimes ==
    ASSUME TypeOK, pc # "begin"
    PROVE  /\ Chosen = index
           /\ \A o \in Owners : /\ Instants!ServiceTime(o) = NextTime(o)
                                /\ Instants!LastService(o) = LastTime(o)
           /\ Instants!RowTime = LogTime
<1>1. Chosen = index
  BY DEF Chosen, TypeOK
<1> QED
  BY <1>1, ServedOwners DEF Instants!ServiceTime, Instants!LastService, NextTime,
     LastTime, Instants!RowTime, LogTime

\* The indices stay where they are when no clock moves after the start.
LEMMA ChosenKept ==
    ASSUME TypeOK, index' = index, pc # "begin", pc' # "begin"
    PROVE  Chosen' = Chosen
BY DEF Chosen, TypeOK

\* The file events of the instance are those of the loop.
LEMMA EventTimesAre ==
    LET times == [i \in 1..Len(Events) |-> Events[i].t]
    IN  Len(times) = Len(Events) /\ \A i \in 1..Len(Events) : times[i] = Events[i].t
BY EventsOrdered

\* After the file events of an instant none is left at it.
LEMMA EventsAreDone ==
    ASSUME TypeOK, EventsAhead, pc \notin {"windows", "events"}
    PROVE  Instants!EventsDone(now)
<1> SUFFICES ASSUME next <= Len(Events) PROVE Events[next].t > now
  BY EventTimesAre DEF Instants!EventsDone, TypeOK
<1>1. next \in 1..Len(Events) /\ now \in Nat
  BY EventsOrdered DEF TypeOK
<1> QED
  BY <1>1, EventsOrdered DEF EventsAhead

\* A turn that moves the clock of its owner serves it.
LEMMA TurnServes ==
    ASSUME TypeOK, EventsAhead, pc \in {"sense", "actuate"}, pc' # "begin",
           NEW o \in Owners, UNCHANGED <<now, next, nlog>>,
           \/ index' = index
           \/ NextTime(o) = now /\ index' = [index EXCEPT ![o] = @ + 1]
    PROVE  Instants!Next \/ UNCHANGED Instants!vars
<1>1. CASE index' = index
  BY <1>1, ChosenKept DEF Instants!vars
<1>2. CASE NextTime(o) = now /\ index' = [index EXCEPT ![o] = @ + 1]
  <2>1. Chosen = index /\ Chosen' = index'
    BY <1>2 DEF Chosen, TypeOK
  <2>2. Instants!Serve({o})
    <3>1. index' = [c \in Owners |-> IF c \in {o} THEN index[c] + 1 ELSE index[c]]
      BY <1>2 DEF TypeOK
    <3> QED
      BY <1>2, <2>1, <3>1, ServiceTimes, ServedOwners, EventsAreDone DEF Instants!Serve
  <2>3. {o} \in SUBSET Instants!Served
    BY ServedOwners
  <2> QED
    BY <2>2, <2>3 DEF Instants!Next
<1> QED
  BY <1>1, <1>2

\* When time moves on, nothing at the old instant is left and nothing before the
\* new one is passed.
LEMMA StopPasses ==
    ASSUME IndInv, pc = "head", pc' # "begin", now' = Stop, now < Stop,
           UNCHANGED <<index, next, nlog>>
    PROVE  Instants!Next
<1> DEFINE s == Stop
<1>1. /\ TypeOK /\ ClocksAhead /\ EventsAhead /\ RowsAhead
      /\ now \in Nat /\ Final \in Nat
  BY Constants DEF IndInv, Ended, TypeOK
<1>2. /\ s \in Nat /\ s <= Final /\ NativeStop \in Nat /\ s <= NativeStop
      /\ NativeStop <= LogTime /\ LogTime \in Nat
      /\ \A o \in Owners : NativeStop <= NextTime(o)
      /\ \A t \in ActionTimes : NativeStop <= t
  BY <1>1, StopSpec, Constants DEF LogTime, TypeOK
<1>3. now < s /\ now' = s
  OBVIOUS
<1>4. \A o \in Owners : NextTime(o) \in Int /\ now < NextTime(o) /\ s <= NextTime(o)
  <2> HIDE DEF s
  <2> QED
    BY <1>1, <1>2, <1>3, Times
<1>5. next <= Len(Events) => now < Events[next].t /\ s <= Events[next].t
  <2> SUFFICES ASSUME next <= Len(Events)
               PROVE  now < Events[next].t /\ s <= Events[next].t
    OBVIOUS
  <2>1. next \in 1..Len(Events) /\ Events[next].t \in Nat
    BY <1>1, EventsOrdered DEF TypeOK
  <2>2. Events[next].t \in ActionTimes
    BY <2>1, EventsOrdered DEF ActionTimes
  <2> HIDE DEF s
  <2> QED
    BY <1>1, <1>2, <1>3, <2>1, <2>2
<1>6. now < LogTime /\ s <= LogTime
  <2> HIDE DEF s
  <2> QED
    BY <1>1, <1>2, <1>3
<1>7. Chosen' = Chosen
  BY <1>1, ChosenKept
<1> HIDE DEF s
<1>8. Instants!Pass(s)
  BY <1>1, <1>2, <1>3, <1>4, <1>5, <1>6, <1>7, ServiceTimes, ServedOwners, EventTimesAre
     DEF Instants!Pass, TypeOK
<1>9. s \in now .. Final
  BY <1>1, <1>2, <1>3
<1> QED
  BY <1>8, <1>9 DEF Instants!Next

\* ImplementsInstants: every step of Simulation.run is a step of the service of
\* its instants or leaves it alone.  LastServed is needed for the file events,
\* which have to come before any clock of their instant.
THEOREM LoopImplementsInstants == Spec => ImplementsInstants
<1>1. Init => Instants!Init
  <2> SUFFICES ASSUME Init PROVE Instants!Init
    OBVIOUS
  <2>1. Chosen = [o \in Owners |-> StartIndex(Clocks[o], Start, Resumed)]
    BY DEF Init, Chosen
  <2>2. \A c, x, r : /\ Instants!StartIndex(c, x, r) = StartIndex(c, x, r)
                     /\ Instants!IndexAtOrAfter(c, x) = IndexAtOrAfter(c, x)
    BY DEF Instants!StartIndex, StartIndex, Instants!IndexAfter, IndexAfter,
       Instants!IndexAtOrAfter, IndexAtOrAfter
  <2> QED
    BY <2>1, <2>2, ServedOwners DEF Init, Instants!Init
<1>2. Init => LastServed
  BY LastInit
<1>3. IndInv /\ LastServed /\ [Next]_vars => LastServed'
  BY LastStep
<1>4. IndInv /\ LastServed /\ [Next]_vars => [Instants!Next]_(Instants!vars)
  <2> SUFFICES ASSUME IndInv, LastServed, [Next]_vars
               PROVE  Instants!Next \/ UNCHANGED Instants!vars
    OBVIOUS
  <2>1. TypeOK /\ now \in Nat
    BY DEF IndInv, TypeOK
  <2>2. CASE Limit \/ CloseWindows \/ WindowEdge \/ Observe \/ Finish
    <3>1. UNCHANGED <<now, index, next, nlog>> /\ pc # "begin" /\ pc' # "begin"
      BY <2>2 DEF Limit, CloseWindows, WindowEdge, Observe, Finish
    <3> QED
      BY <2>1, <3>1, ChosenKept DEF Instants!vars
  <2>3. CASE Diverge \/ Advance
    <3>1. /\ pc = "head" /\ pc' # "begin" /\ UNCHANGED <<index, next, nlog>>
          /\ now' \in {now, Stop} /\ Stop \in Nat /\ now <= Stop
      BY <2>3, StopSpec DEF Diverge, Advance
    <3>2. CASE now' = now
      BY <2>1, <3>1, <3>2, ChosenKept DEF Instants!vars
    <3>3. CASE now' # now
      <4>1. now' = Stop /\ now < Stop
        BY <2>1, <3>1, <3>3
      <4> QED
        BY <3>1, <4>1, StopPasses
    <3> QED
      BY <3>2, <3>3
  <2>4. CASE ApplyEvent
    <3>1. /\ pc = "events" /\ pc' # "begin" /\ next' = next + 1
          /\ UNCHANGED <<now, index, nlog>>
      BY <2>4 DEF ApplyEvent
    <3>2. next \in 1..Len(Events) /\ Events[next].t = now
      BY <2>1, <3>1, EventsOrdered DEF IndInv, Ended, EventsAhead, TypeOK
    <3>3. \A o \in Owners : LastTime(o) < now
      BY <3>1 DEF LastServed, Ended
    <3>4. Instants!Apply
      BY <2>1, <3>1, <3>2, <3>3, ServiceTimes, ServedOwners, EventTimesAre, ChosenKept
         DEF Instants!Apply
    <3> QED
      BY <3>4 DEF Instants!Next
  <2>5. CASE Log
    <3>1. /\ pc = "log" /\ pc' # "begin" /\ UNCHANGED <<now, index, next>>
          /\ nlog' = nlog \/ (due.log /\ now # Final /\ nlog' = nlog + 1)
      BY <2>5 DEF Log, Logged
    <3>2. CASE nlog' = nlog
      BY <2>1, <3>1, <3>2, ChosenKept DEF Instants!vars
    <3>3. CASE due.log /\ now # Final /\ nlog' = nlog + 1
      <4>1. now = LogTime /\ now < Final
        BY <2>1, <3>1, <3>3, Constants DEF IndInv, Ended, RowsAhead, TypeOK, Phases
      <4>2. \A o \in Owners : now < NextTime(o)
        <5>1. ~Fresh
          BY <3>1 DEF Fresh
        <5> QED
          BY <3>1, <5>1 DEF IndInv, Ended, ClocksAhead, Pending
      <4>3. Instants!EventsDone(now)
        BY <2>1, <3>1, EventsAreDone DEF IndInv, Ended
      <4>4. Instants!Row
        BY <2>1, <3>1, <3>3, <4>1, <4>2, <4>3, ServiceTimes, ServedOwners, ChosenKept
           DEF Instants!Row
      <4> QED
        BY <4>4 DEF Instants!Next
    <3> QED
      BY <3>1, <3>2, <3>3
  <2>6. ASSUME NEW u \in Units, Protect(u)
        PROVE  Instants!Next \/ UNCHANGED Instants!vars
    <3>1. PICK fault \in BOOLEAN : Turn(u, "protect", fault)
      BY <2>6 DEF Protect
    <3>2. UNCHANGED <<now, index, next, nlog>> /\ pc # "begin" /\ pc' # "begin"
      BY <2>6, <3>1 DEF Protect, Turn, After
    <3> QED
      BY <2>1, <3>2, ChosenKept DEF Instants!vars
  <2>7. ASSUME NEW o \in Owners, Begin(o)
        PROVE  Instants!Next \/ UNCHANGED Instants!vars
    <3>1. /\ pc = "begin" /\ o \in todo /\ UNCHANGED <<now, next, nlog>>
          /\ index' = [index EXCEPT ![o] = StartIndex(Clocks[o], Start, Resumed)]
          /\ todo # {o} => pc' = "begin" /\ todo' = todo \ {o}
          /\ todo = {o} => pc' = "head" /\ todo' = {}
      BY <2>7 DEF Begin, Turn, After
    <3>2. \A p \in Owners : (pc' = "begin" /\ p \in todo') <=> (p \in todo /\ p # o)
      BY <3>1
    <3>3. \A p \in Owners : /\ p # o => index'[p] = index[p]
                            /\ p = o => index'[p] = StartIndex(Clocks[o], Start, Resumed)
      BY <2>1, <3>1 DEF TypeOK
    <3>4. \A p \in Owners : Chosen'[p] = Chosen[p]
      BY <3>1, <3>2, <3>3 DEF Chosen
    <3>5. Chosen' = Chosen
      BY <3>4 DEF Chosen
    <3> QED
      BY <3>1, <3>5 DEF Instants!vars
  <2>8. ASSUME NEW o \in Owners, Sense(o)
        PROVE  Instants!Next \/ UNCHANGED Instants!vars
    <3>1. /\ pc = "sense" /\ UNCHANGED <<now, next, nlog>> /\ pc' \in {"sense", "actuate"}
          /\ (IsDue(o) <=> NextTime(o) = now)
          /\ index' = [index EXCEPT ![o] = IF o \in Continuous /\ IsDue(o)
                                           THEN @ + 1 ELSE @]
      BY <2>8, SenseFacts
    <3>2. index' = index \/ (NextTime(o) = now /\ index' = [index EXCEPT ![o] = @ + 1])
      BY <2>1, <3>1 DEF TypeOK
    <3>3. EventsAhead
      BY <3>1 DEF IndInv, Ended
    <3> QED
      BY <2>1, <3>1, <3>2, <3>3, TurnServes
  <2>9. ASSUME NEW o \in Owners, Actuate(o)
        PROVE  Instants!Next \/ UNCHANGED Instants!vars
    <3>1. /\ pc = "actuate" /\ UNCHANGED <<now, next, nlog>>
          /\ pc' \in {"actuate", "final", "edge"}
          /\ o \notin Continuous => (IsDue(o) <=> NextTime(o) = now)
          /\ index' = [index EXCEPT ![o] = IF o \notin Continuous /\ IsDue(o)
                                           THEN @ + 1 ELSE @]
      BY <2>9, ActuateFacts
    <3>2. index' = index \/ (NextTime(o) = now /\ index' = [index EXCEPT ![o] = @ + 1])
      BY <2>1, <3>1 DEF TypeOK
    <3>3. EventsAhead
      BY <3>1 DEF IndInv, Ended
    <3> QED
      BY <2>1, <3>1, <3>2, <3>3, TurnServes
  <2>10. CASE UNCHANGED vars
    <3>1. UNCHANGED <<pc, todo, now, index, next, nlog>>
      BY <2>10 DEF vars
    <3> QED
      BY <3>1 DEF Chosen, Instants!vars
  <2> QED
    BY <2>2, <2>3, <2>4, <2>5, <2>6, <2>7, <2>8, <2>9, <2>10 DEF Next
<1> QED
  BY <1>1, <1>2, <1>3, <1>4, LoopInvariance, PTL DEF Spec, ImplementsInstants, Instants!Spec

=============================================================================
