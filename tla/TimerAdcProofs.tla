-------------------------- MODULE TimerAdcProofs --------------------------
(***************************************************************************)
(* Proofs about the two parts of a unit that follow its clocks.            *)
(*                                                                         *)
(* The PWM timer, for every set of timer configurations, commands, angles, *)
(* switching patterns and horizons.  The inductive invariant is IndInv:    *)
(* ActiveIsNewest alone is not inductive, because which word a load takes  *)
(* depends on the shadow and completed words (RegistersOK), and            *)
(* PatternIsKept is not, because an interval says nothing of the pulses    *)
(* and commands before it (MemoryIsOwed).                                  *)
(*                                                                         *)
(* The ADC, for every set of designs, readings and start times.  The       *)
(* inductive invariant is SamplerInv, which says of every field of the ADC *)
(* what it is in terms of what the channel read.                           *)
(***************************************************************************)
EXTENDS PwmRegisters, AdcSampler, SharedTheorems

\* What membership in Timings gives.
LEMMA TimingFacts ==
    ASSUME NEW tm \in Timings
    PROVE  /\ tm.control \in Clock /\ tm.loads \in Clock
           /\ tm.computation \in Nat
           /\ tm.computation < tm.control.period
           /\ tm.control.period \in Nat /\ tm.control.period >= 1
           /\ tm.loads.period \in Nat /\ tm.loads.period >= 1
BY TimingAssumption DEF Timing, ValidTiming, Clock

\* Every step leaves the timing of the run alone.
LEMMA TimingFixed ==
    ASSUME Next
    PROVE  timing' = timing /\ first' = first
BY DEF Next, Interrupt, LoadRegisters, WriteThenLoad, LoadThenWrite,
       SwitchingEdge, Continue

\* The pending edges of a load interval are instants.
LEMMA EdgesAreInstants ==
    ASSUME timing \in Timings, NEW words, NEW l \in Int, NEW t \in Int
    PROVE  Edges(words, l, t) \subseteq Int
BY TimingFacts DEF Edges

\* The types are preserved by every step.
LEMMA TypePreserved ==
    ASSUME TypeOK, [Next]_vars
    PROVE  TypeOK'
<1> USE DEF TypeOK, IsWord
<1>0. timing.loads \in Clock /\ \A n \in Int : LoadAt(n) \in Int
  BY TimingFacts, ClockStep DEF LoadAt
<1>1. ASSUME NEW t \in 0 .. Horizon, NEW c \in Commands, NEW p \in Phases,
             Interrupt(t, c, p)
      PROVE  TypeOK'
  <2>1. Word(c, k) \in [command : Commands, stamp : Int]
    BY DEF Word
  <2>2. schedule' \subseteq schedule /\ carrier' = carrier
    BY <1>1 DEF Interrupt, Switch
  <2> QED
    BY <1>1, <2>1, <2>2, TimingAssumption DEF Interrupt, Reach, Write
<1>2. ASSUME NEW t \in 0 .. Horizon, NEW c \in Commands, NEW p \in Phases,
             WriteThenLoad(t, c, p)
      PROVE  TypeOK'
  <2>1. Word(c, k) \in [command : Commands, stamp : Int]
    BY DEF Word
  <2>2. schedule' \subseteq Int
    BY <1>2, <1>0, TimingFacts, TimingAssumption
    DEF WriteThenLoad, Load, Edges, Clock
  <2> QED
    BY <1>2, <2>1, <2>2, TimingAssumption
    DEF WriteThenLoad, Reach, Write, Load, Taken
<1>3. ASSUME NEW t \in 0 .. Horizon, NEW c \in Commands, NEW p \in Phases,
             LoadThenWrite(t, c, p)
      PROVE  TypeOK'
  <2>1. Word(c, k) \in [command : Commands, stamp : Int]
    BY DEF Word
  <2>2. schedule' \subseteq Int
    BY <1>3, <1>0, TimingFacts, TimingAssumption
    DEF LoadThenWrite, Load, Edges, Clock
  <2> QED
    BY <1>3, <2>1, <2>2, TimingAssumption
    DEF LoadThenWrite, Reach, Write, Load, Taken
<1>4. ASSUME NEW t \in 0 .. Horizon, LoadRegisters(t)
      PROVE  TypeOK'
  <2>1. schedule' \subseteq Int
    BY <1>4, <1>0, TimingFacts, TimingAssumption
    DEF LoadRegisters, Load, Edges, Clock
  <2> QED
    BY <1>4, <2>1, TimingAssumption DEF LoadRegisters, Reach, Load, Taken
<1>5. ASSUME NEW t \in 0 .. Horizon, SwitchingEdge(t)
      PROVE  TypeOK'
  <2>1. schedule' \subseteq schedule /\ carrier' = carrier
    BY <1>5 DEF SwitchingEdge, Switch
  <2> QED
    BY <1>5, <2>1, TimingAssumption DEF SwitchingEdge, Reach, registers
<1>6. ASSUME NEW t \in 0 .. Horizon, Continue(t)
      PROVE  TypeOK'
  <2>1. timing.control \in Clock /\ timing.loads \in Clock /\ t \in Int
    BY TimingFacts, TimingAssumption
  <2>2. k' \in Int /\ j' \in Int
    <3>1. k' = IndexAfter(timing.control, t) /\ j' = IndexAfter(timing.loads, t)
      BY <1>6 DEF Continue, StartIndex
    <3> QED  BY <3>1, <2>1, IndexAfterSpec
  <2>3. schedule' \subseteq Int
    <3>1. LoadAt(j' - 1) \in Int
      BY <1>0, <2>2
    <3>2. schedule' = Edges(laid'.words, LoadAt(j' - 1), t)
      BY <1>6 DEF Continue
    <3> QED  BY <2>1, <3>1, <3>2, EdgesAreInstants
  <2>4. completed' = active /\ now' = t
         /\ UNCHANGED <<timing, active, shadow, sync, carrier, first>>
    BY <1>6 DEF Continue
  <2> QED
    BY <2>2, <2>3, <2>4, TimingAssumption
<1>7. CASE UNCHANGED vars
  BY <1>7 DEF vars, registers, bridge
<1> QED
  BY <1>1, <1>2, <1>3, <1>4, <1>5, <1>6, <1>7 DEF Next

\* Arithmetic of the two grids at one timing.
LEMMA GridFacts ==
    ASSUME TypeOK
    PROVE  /\ timing.computation \in Nat
           /\ timing.computation < timing.control.period
           /\ timing.control.period \in Nat /\ timing.control.period >= 1
           /\ timing.loads.period \in Nat /\ timing.loads.period >= 1
           /\ \A n \in Int :
                 /\ InterruptAt(n) \in Int
                 /\ InterruptAt(n + 1) = InterruptAt(n) + timing.control.period
                 /\ InterruptAt(n - 1) = InterruptAt(n) - timing.control.period
                 /\ LoadAt(n) \in Int
                 /\ LoadAt(n + 1) = LoadAt(n) + timing.loads.period
                 /\ LoadAt(n - 1) = LoadAt(n) - timing.loads.period
           /\ \A m, n \in Int : m < n =>
                 InterruptAt(m) + timing.control.period <= InterruptAt(n)
<1>1. timing \in Timings
  BY DEF TypeOK
<1>2. timing.control \in Clock /\ timing.loads \in Clock
  BY <1>1, TimingFacts
<1> QED
  BY <1>1, <1>2, TimingFacts, ClockStep, ClockMonotone DEF InterruptAt, LoadAt

\* Words complete in the order they are computed.
LEMMA CompletionOrder ==
    ASSUME TypeOK, NEW m \in Int, NEW n \in Int
    PROVE  /\ CompleteAt(m) \in Int
           /\ m < n => CompleteAt(m) + timing.control.period <= CompleteAt(n)
           /\ m <= n => CompleteAt(m) <= CompleteAt(n)
<1>1. /\ InterruptAt(m) \in Int /\ InterruptAt(n) \in Int
      /\ timing.control.period \in Nat /\ timing.computation \in Nat
      /\ m < n => InterruptAt(m) + timing.control.period <= InterruptAt(n)
  BY GridFacts
<1>2. m <= n => m = n \/ m < n
  OBVIOUS
<1> QED
  BY <1>1, <1>2 DEF CompleteAt

\* The word a load of the present registers takes is the newest one completed
\* at the load, never an older word than the active one, and the one after it
\* when loads are at least as frequent as interrupts.
LEMMA LoadTakesNewest ==
    ASSUME IndInv, NEW t \in Int, t = LoadAt(j), t <= InterruptAt(k)
    PROVE  LET w == Taken(k - 1, shadow, completed, t)
               n == w.stamp
           IN  /\ IsWord(w)
               /\ first - 1 <= n /\ n < k
               /\ n >= first => CompleteAt(n) <= t
               /\ n + 1 < k => CompleteAt(n + 1) > t
               /\ active.stamp <= n
               /\ timing.loads.period <= timing.control.period
                    => n <= active.stamp + 1
<1> DEFINE w == Taken(k - 1, shadow, completed, t)
           n == w.stamp
           a == active.stamp
           P == timing.control.period
           tau == timing.computation
<1>1. /\ k \in Int /\ j \in Int /\ first \in Int /\ first <= k /\ a \in Int
      /\ IsWord(shadow) /\ IsWord(completed)
      /\ shadow.stamp = k - 1
      /\ InterruptAt(k - 1) + tau > t =>
            completed.stamp = IF k = first THEN k - 1 ELSE k - 2
  BY DEF IndInv, TypeOK, RegistersOK, TimerOK, IsWord, CompleteAt
<1>2. /\ first - 1 <= a /\ a < k
      /\ a >= first => InterruptAt(a) + tau <= LoadAt(j - 1)
      /\ a + 1 < k => InterruptAt(a + 1) + tau > LoadAt(j - 1)
      /\ InterruptAt(k - 1) < t
  BY DEF IndInv, ActiveIsNewest, RegistersOK, TimerOK, CompleteAt
<1>3. /\ tau \in Nat /\ P \in Nat /\ tau < P /\ P >= 1
      /\ timing.loads.period \in Nat /\ timing.loads.period >= 1
      /\ LoadAt(j - 1) = t - timing.loads.period
  BY <1>1, GridFacts DEF IndInv
<1>4. /\ \A m \in Int : /\ InterruptAt(m) \in Int
                        /\ InterruptAt(m - 1) = InterruptAt(m) - P
      /\ \A m, n2 \in Int : m < n2 => InterruptAt(m) + P <= InterruptAt(n2)
  BY GridFacts DEF IndInv
<1>5. LoadAt(j - 1) \in Int
  BY <1>3
<1>6. CASE InterruptAt(k - 1) + tau <= t
  <2>1. w = shadow /\ n = k - 1
    BY <1>1, <1>6 DEF Taken, CompleteAt
  <2>2. ASSUME timing.loads.period <= P, n > a + 1
        PROVE  FALSE
    <3>1. a + 1 < k - 1 /\ a + 1 \in Int /\ k - 1 \in Int
      BY <2>1, <2>2, <1>1
    <3>2. InterruptAt(a + 1) + P <= InterruptAt(k - 1)
      BY <3>1, <1>4
    <3>3. InterruptAt(a + 1) + tau > LoadAt(j - 1)
      BY <3>1, <1>1, <1>2
    <3>4. InterruptAt(a + 1) \in Int /\ InterruptAt(k - 1) \in Int
      BY <3>1, <1>4
    <3> HIDE DEF P, tau, a, n
    <3> QED  BY <3>2, <3>3, <3>4, <1>3, <1>5, <1>6, <2>2
  <2>3. /\ first - 1 <= n /\ n < k /\ a <= n /\ n \in Int
        /\ n >= first => InterruptAt(n) + tau <= t
        /\ ~ (n + 1 < k)
    BY <2>1, <1>1, <1>2, <1>6
  <2> QED  BY <2>1, <2>2, <2>3, <1>1 DEF CompleteAt
<1>7. CASE InterruptAt(k - 1) + tau > t
  <2>1. w = completed /\ n = IF k = first THEN k - 1 ELSE k - 2
    <3>1. InterruptAt(k - 1) \in Int
      BY <1>1, <1>4
    <3>2. ~ (InterruptAt(k - 1) + tau <= t)
      <4> HIDE DEF tau
      <4> QED  BY <3>1, <1>3, <1>7
    <3> QED  BY <3>2, <1>1, <1>7 DEF Taken, CompleteAt
  <2>2. a # k - 1 \/ k = first
    <3> SUFFICES ASSUME a = k - 1, k # first PROVE FALSE
      OBVIOUS
    <3>1. InterruptAt(k - 1) + tau <= LoadAt(j - 1)
      BY <1>1, <1>2
    <3>2. InterruptAt(k - 1) \in Int
      BY <1>1, <1>4
    <3> HIDE DEF tau
    <3> QED  BY <3>1, <3>2, <1>3, <1>5, <1>7
  <2>3. CASE k = first
    BY <2>1, <2>3, <1>1, <1>2, <1>7 DEF CompleteAt
  <2>4. CASE k # first
    <3>1. n = k - 2 /\ n \in Int /\ first - 1 <= n /\ n < k /\ a <= n
      BY <2>1, <2>2, <2>4, <1>1, <1>2
    <3>2. InterruptAt(n) = InterruptAt(k - 1) - P
      <4>1. n = (k - 1) - 1 /\ k - 1 \in Int
        BY <3>1, <1>1
      <4> QED  BY <4>1, <1>4
    <3>3. InterruptAt(n) + tau <= t
      <4>1. InterruptAt(k - 1) \in Int
        BY <1>1, <1>4
      <4> HIDE DEF P, tau, n
      <4> QED  BY <4>1, <3>2, <1>2, <1>3
    <3>4. n + 1 = k - 1
      BY <3>1, <1>1
    <3>5. timing.loads.period <= P => n <= a + 1
      <4> SUFFICES ASSUME timing.loads.period <= P, n > a + 1 PROVE FALSE
        BY <3>1, <1>1
      <4>1. a + 1 < n /\ a + 1 \in Int /\ a + 1 < k
        BY <3>1, <1>1
      <4>2. InterruptAt(a + 1) + P <= InterruptAt(n)
        BY <4>1, <3>1, <1>4
      <4>3. InterruptAt(a + 1) + tau > LoadAt(j - 1)
        BY <4>1, <1>2
      <4>4. InterruptAt(a + 1) \in Int /\ InterruptAt(n) \in Int
        BY <4>1, <3>1, <1>4
      <4> HIDE DEF P, tau, a, n
      <4> QED  BY <4>2, <4>3, <4>4, <3>3, <1>3, <1>5
    <3>6. CompleteAt(n + 1) > t
      BY <3>4, <1>7 DEF CompleteAt
    <3> QED  BY <3>1, <3>3, <3>5, <3>6, <2>1, <1>1 DEF CompleteAt
  <2> QED  BY <2>3, <2>4
<1>8. InterruptAt(k - 1) + tau <= t \/ InterruptAt(k - 1) + tau > t
  <2>1. InterruptAt(k - 1) \in Int
    BY <1>1, <1>4
  <2> HIDE DEF tau
  <2> QED  BY <2>1, <1>3
<1> QED
  BY <1>6, <1>7, <1>8

----------------------------------------------------------------------------
(***************************************************************************)
(* The switching pattern: what an interval leaves to the next one.         *)
(***************************************************************************)
\* A period more does not change a remainder.
LEMMA ModShift ==
    ASSUME NEW a \in Int, NEW p \in Nat, p >= 1
    PROVE  (a + p) % p = a % p
<1> DEFINE r == a % p
           s == (a + p) % p
           d == a \div p
           e == (a + p) \div p
<1>1. d \in Int /\ e \in Int /\ r \in 0 .. p - 1 /\ s \in 0 .. p - 1
  OBVIOUS
<1>2. a = p * d + r /\ a + p = p * e + s
  OBVIOUS
<1> HIDE DEF r, s, d, e
<1>3. p * (d + 1) = p * d + p
  BY <1>1
<1>4. p * e + s = p * (d + 1) + r
  BY <1>1, <1>2, <1>3
<1> DEFINE f == d + 1
           x == p * e
           y == p * f
<1>5. f \in Int /\ x \in Int /\ y \in Int /\ x + s = y + r
  BY <1>1, <1>4
<1>6. e < f => x + p <= y
  <2> SUFFICES ASSUME e < f PROVE x + p <= y
    OBVIOUS
  <2>1. e + 1 <= f
    BY <1>1, <1>5
  <2>2. p * (e + 1) <= p * f
    BY <1>1, <1>5, <2>1
  <2>3. p * (e + 1) = p * e + p
    BY <1>1
  <2> QED  BY <2>2, <2>3
<1>7. f < e => y + p <= x
  <2> SUFFICES ASSUME f < e PROVE y + p <= x
    OBVIOUS
  <2>1. f + 1 <= e
    BY <1>1, <1>5
  <2>2. p * (f + 1) <= p * e
    BY <1>1, <1>5, <2>1
  <2>3. p * (f + 1) = p * f + p
    BY <1>1, <1>5
  <2> QED  BY <2>2, <2>3
<1>8. e = f
  <2> HIDE DEF f, x, y
  <2> QED  BY <1>1, <1>5, <1>6, <1>7
<1> QED
  BY <1>5, <1>8 DEF x, y, r, s

\* The word without a pulse is the one with no leg on.
LEMMA WordsOfPattern ==
    ASSUME NEW pattern \in Pattern
    PROVE  /\ Zeros(pattern) \in Words(pattern)
           /\ \A word \in Words(pattern) : ~Lit(word) => word = Zeros(pattern)
           /\ ~Lit(Zeros(pattern))
<1>1. CASE pattern.scheme = "carrier"
  BY <1>1 DEF Zeros, Words, Legs, Lit
<1>2. CASE pattern.scheme = "bridge"
  BY <1>2 DEF Zeros, Words, Legs, Lit
<1> QED  BY <1>1, <1>2 DEF Pattern

\* A carrier comparison yields words and repeats after a carrier period.
LEMMA CarrierWords ==
    ASSUME NEW pattern \in Pattern, pattern.scheme = "carrier",
           NEW command \in Command, NEW a \in Int
    PROVE  /\ CarrierWord(pattern, command, a) \in Words(pattern)
           /\ CarrierWord(pattern, command, a + Period(pattern))
                = CarrierWord(pattern, command, a)
<1>1. (a + Period(pattern)) % Period(pattern) = a % Period(pattern)
  BY ModShift DEF Pattern, Period
<1> QED
  BY <1>1 DEF CarrierWord, Words, Legs

\* A phase-shift mode yields words and repeats after a carrier period.
LEMMA BridgeWords ==
    ASSUME NEW pattern \in Pattern, pattern.scheme = "bridge",
           NEW command \in Command, NEW a \in Int
    PROVE  /\ BridgeWord(pattern, command, a) \in Words(pattern)
           /\ BridgeWord(pattern, command, a + Period(pattern))
                = BridgeWord(pattern, command, a)
<1> DEFINE P == Period(pattern)
           Active(b) == {pulse \in ModePulses(pattern, command.mode) :
                      PulseActive(pattern, b - command.phase,
                                  pulse.centre, command.width)}
<1>1. P \in Nat /\ P >= 1 /\ command.phase \in Int /\ command.width \in Int
  BY DEF Pattern, Period, Command
<1>2. \A pulse \in ModePulses(pattern, command.mode) :
          pulse.centre \in Int /\ pulse.word \in {<<1, 0>>, <<0, 1>>}
  BY DEF ModePulses, Pattern
<1>3. ASSUME NEW pulse \in ModePulses(pattern, command.mode)
      PROVE  PulseActive(pattern, (a + P) - command.phase, pulse.centre, command.width)
             <=> PulseActive(pattern, a - command.phase, pulse.centre, command.width)
  <2> DEFINE b == a - command.phase - pulse.centre + command.width
             c == (((a + P) - command.phase) - pulse.centre) + command.width
  <2>1. b \in Int /\ c = b + P
    BY <1>1, <1>2
  <2>2. c % P = b % P
    BY <1>1, <2>1, ModShift
  <2>3. /\ PulseActive(pattern, (a + P) - command.phase, pulse.centre, command.width)
             <=> c % P < 2 * command.width
        /\ PulseActive(pattern, a - command.phase, pulse.centre, command.width)
             <=> b % P < 2 * command.width
    BY DEF PulseActive
  <2> HIDE DEF b, c
  <2> QED
    BY <2>2, <2>3
<1>4. Active(a + P) = Active(a)
  BY <1>3
<1>5. BridgeWord(pattern, command, a + P) = BridgeWord(pattern, command, a)
  <2>1. \A b : BridgeWord(pattern, command, b)
            = IF Active(b) = {} THEN <<0, 0>>
              ELSE (CHOOSE pulse \in Active(b) : TRUE).word
    BY DEF BridgeWord
  <2> HIDE DEF Active
  <2> QED  BY <1>4, <2>1
<1>6. {<<0, 0>>, <<1, 0>>, <<0, 1>>} \subseteq Words(pattern)
  BY DEF Words, Legs
<1>7. BridgeWord(pattern, command, a) \in {<<0, 0>>, <<1, 0>>, <<0, 1>>}
  <2>1. CASE Active(a) = {}
    BY <2>1 DEF BridgeWord
  <2>2. CASE Active(a) # {}
    <3>1. (CHOOSE pulse \in Active(a) : TRUE) \in Active(a)
      BY <2>2
    <3>2. BridgeWord(pattern, command, a) = (CHOOSE pulse \in Active(a) : TRUE).word
      BY <2>2 DEF BridgeWord
    <3> QED  BY <3>1, <3>2, <1>2
  <2> QED  BY <2>1, <2>2
<1> QED
  BY <1>5, <1>6, <1>7

\* The waveform of a command is periodic, whatever its modulator.
LEMMA RawFacts ==
    ASSUME NEW pattern \in Pattern, NEW command \in Command, NEW span \in Nat,
           NEW shift \in Int, NEW l \in Int
    PROVE  LET raw == Raw(pattern, span, command, shift, l)
               P == Period(pattern)
           IN  /\ P \in Nat /\ P >= 2
               /\ raw \in [0 .. span + P - 1 -> Words(pattern)]
               /\ \A x \in 0 .. span - 1 : raw[x + P] = raw[x]
<1> DEFINE raw == Raw(pattern, span, command, shift, l)
           P == Period(pattern)
<1>1. P \in Nat /\ P >= 2
  BY DEF Pattern, Period
<1> HIDE DEF P
<1>2. CASE pattern.scheme = "carrier"
  <2>1. raw = [x \in 0 .. span + P - 1 |-> CarrierWord(pattern, command, l + x + shift)]
    BY <1>2 DEF Raw, P
  <2>2. \A x \in 0 .. span + P - 1 : l + x + shift \in Int
    BY <1>1
  <2>3. \A x \in 0 .. span + P - 1 :
            CarrierWord(pattern, command, l + x + shift) \in Words(pattern)
    BY <1>2, <2>2, CarrierWords
  <2>4. ASSUME NEW x \in 0 .. span - 1
        PROVE  raw[x + P] = raw[x]
    <3>1. /\ x \in 0 .. span + P - 1 /\ x + P \in 0 .. span + P - 1
          /\ l + (x + P) + shift = (l + x + shift) + P
      BY <1>1
    <3>2. CarrierWord(pattern, command, (l + x + shift) + P)
            = CarrierWord(pattern, command, l + x + shift)
      BY <1>2, <2>2, <3>1, CarrierWords DEF P
    <3> HIDE DEF raw
    <3> QED  BY <2>1, <3>1, <3>2
  <2> QED  BY <1>1, <2>1, <2>3, <2>4 DEF P
<1>3. CASE pattern.scheme = "bridge"
  <2>1. raw = [x \in 0 .. span + P - 1 |-> BridgeWord(pattern, command, l + x + shift)]
    BY <1>3 DEF Raw, P
  <2>2. \A x \in 0 .. span + P - 1 : l + x + shift \in Int
    BY <1>1
  <2>3. \A x \in 0 .. span + P - 1 :
            BridgeWord(pattern, command, l + x + shift) \in Words(pattern)
    BY <1>3, <2>2, BridgeWords
  <2>4. ASSUME NEW x \in 0 .. span - 1
        PROVE  raw[x + P] = raw[x]
    <3>1. /\ x \in 0 .. span + P - 1 /\ x + P \in 0 .. span + P - 1
          /\ l + (x + P) + shift = (l + x + shift) + P
      BY <1>1
    <3>2. BridgeWord(pattern, command, (l + x + shift) + P)
            = BridgeWord(pattern, command, l + x + shift)
      BY <1>3, <2>2, <3>1, BridgeWords DEF P
    <3> HIDE DEF raw
    <3> QED  BY <2>1, <3>1, <3>2
  <2> QED  BY <1>1, <2>1, <2>3, <2>4 DEF P
<1> QED  BY <1>2, <1>3 DEF Pattern

\* The least member of a set of natural numbers is its Min.
LEMMA MinIsLeast ==
    ASSUME NEW T, T \subseteq Nat, T # {}
    PROVE  Min(T) \in T /\ \A y \in T : Min(T) <= y
<1>1. \E x \in T : \A y \in T : x =< y
  BY LeastNumber
<1> QED
  BY <1>1 DEF Min

\* A waveform of P ticks, and its first span ticks once more.
IsPeriodic(raw, pattern, span) ==
    /\ Period(pattern) \in Nat /\ Period(pattern) >= 2
    /\ raw \in [0 .. span + Period(pattern) - 1 -> Words(pattern)]
    /\ \A x \in 0 .. span - 1 : raw[x + Period(pattern)] = raw[x]

\* A waveform that does not change over one period never does.
LEMMA ConstantPeriod ==
    ASSUME NEW pattern, NEW span \in Nat, NEW raw, IsPeriodic(raw, pattern, span),
           NEW a \in 0 .. span,
           \A x \in a .. a + Period(pattern) - 1 : raw[x] = raw[a]
    PROVE  Constant(raw)
<1> DEFINE P == Period(pattern)
           Above == {n \in Nat : a + n <= span + P - 1 /\ raw[a + n] # raw[a]}
           Below == {n \in Nat : n <= a /\ raw[a - n] # raw[a]}
<1>1. /\ P \in Nat /\ P >= 2 /\ DOMAIN raw = 0 .. span + P - 1
      /\ \A x \in 0 .. span - 1 : raw[x + P] = raw[x]
      /\ \A x \in a .. a + P - 1 : raw[x] = raw[a]
  BY DEF IsPeriodic
<1> HIDE DEF P
<1>2. Above = {}
  <2> SUFFICES ASSUME Above # {} PROVE FALSE
    OBVIOUS
  <2>1. PICK n \in Above : \A m \in Above : n <= m
    BY LeastNumber
  <2>2. n \in Nat /\ a + n <= span + P - 1 /\ raw[a + n] # raw[a]
    OBVIOUS
  <2>3. ~(n < P)
    <3> SUFFICES ASSUME n < P PROVE FALSE
      OBVIOUS
    <3>1. a + n \in a .. a + P - 1
      BY <1>1, <2>2
    <3> QED  BY <3>1, <1>1, <2>2
  <2> DEFINE m == n - P
  <2>4. m \in Nat /\ ~(n <= m) /\ a + m <= span + P - 1 /\ a + m \in 0 .. span - 1
        /\ (a + m) + P = a + n
    BY <1>1, <2>2, <2>3
  <2>5. raw[a + m] = raw[a]
    BY <2>1, <2>4
  <2>6. raw[(a + m) + P] = raw[a + m]
    BY <1>1, <2>4
  <2> QED  BY <2>2, <2>4, <2>5, <2>6
<1>3. Below = {}
  <2> SUFFICES ASSUME Below # {} PROVE FALSE
    OBVIOUS
  <2>1. PICK n \in Below : \A m \in Below : n <= m
    BY LeastNumber
  <2>2. n \in Nat /\ n <= a /\ raw[a - n] # raw[a] /\ n # 0
    <3>1. n = 0 => a - n = a
      OBVIOUS
    <3> QED  BY <3>1
  <2>3. a - n \in 0 .. span - 1
    BY <2>2
  <2>4. raw[(a - n) + P] = raw[a - n]
    BY <1>1, <2>3
  <2>5. CASE n <= P
    <3>1. (a - n) + P \in a .. a + P - 1
      BY <1>1, <2>2, <2>5
    <3> QED  BY <3>1, <1>1, <2>2, <2>4
  <2>6. CASE n > P
    <3> DEFINE m == n - P
    <3>1. m \in Nat /\ ~(n <= m) /\ m <= a /\ a - m = (a - n) + P
      BY <1>1, <2>2, <2>6
    <3> QED  BY <2>1, <2>2, <2>4, <3>1
  <2> QED  BY <2>5, <2>6, <1>1, <2>2
<1>4. \A x \in 0 .. span + P - 1 : raw[x] = raw[a]
  <2> TAKE x \in 0 .. span + P - 1
  <2>1. CASE x >= a
    <3> DEFINE n == x - a
    <3>1. n \in Nat /\ a + n = x /\ x <= span + P - 1
      BY <2>1, <1>1
    <3>2. n \notin Above
      BY <1>2
    <3> HIDE DEF n
    <3> QED  BY <3>1, <3>2
  <2>2. CASE x < a
    <3> DEFINE n == a - x
    <3>1. n \in Nat /\ n <= a /\ a - n = x
      BY <2>2, <1>1
    <3>2. n \notin Below
      BY <1>3
    <3> HIDE DEF n
    <3> QED  BY <3>1, <3>2
  <2> QED  BY <2>1, <2>2, <1>1
<1>5. 0 \in 0 .. span + P - 1
  BY <1>1
<1> QED
  BY <1>1, <1>4, <1>5 DEF Constant

\* Before a lit tick the waveform has the same word, back to where it rose.
LEMMA LitBackToRise ==
    ASSUME NEW pattern, NEW span \in Nat, NEW raw, IsPeriodic(raw, pattern, span),
           NEW a \in 0 .. span, NEW b \in a .. a + Period(pattern) - 1,
           Lit(raw[b]),
           \A x \in a .. b : ~Rises(raw, Period(pattern), x)
    PROVE  \A x \in a .. b : raw[x] = raw[b]
<1> DEFINE Other == {n \in Nat : n <= b - a /\ raw[b - n] # raw[b]}
<1>1. Period(pattern) \in Nat /\ Period(pattern) >= 2 /\ b \in Int /\ a <= b
  BY DEF IsPeriodic
<1>2. Other = {}
  <2> SUFFICES ASSUME Other # {} PROVE FALSE
    OBVIOUS
  <2>1. PICK n \in Other : \A m \in Other : n <= m
    BY LeastNumber
  <2>2. n \in Nat /\ n <= b - a /\ raw[b - n] # raw[b] /\ n # 0
    <3>1. n = 0 => b - n = b
      BY <1>1
    <3> QED  BY <3>1
  <2> DEFINE y == b - (n - 1)
  <2>3. n - 1 \in Nat /\ ~(n <= n - 1) /\ n - 1 <= b - a /\ y \in a .. b /\ y # 0
        /\ y - 1 = b - n
    BY <1>1, <2>2
  <2>4. raw[y] = raw[b]
    BY <2>1, <2>3
  <2>5. ~Rises(raw, Period(pattern), y)
    BY <2>3
  <2>6. raw[y] = raw[y - 1]
    BY <2>3, <2>4, <2>5 DEF Rises
  <2> QED  BY <2>2, <2>3, <2>4, <2>6
<1> TAKE x \in a .. b
<1> DEFINE n == b - x
<1>3. n \in Nat /\ n <= b - a /\ b - n = x
  BY <1>1
<1>4. n \notin Other
  BY <1>2
<1> HIDE DEF n
<1> QED
  BY <1>3, <1>4

\* A pulse begins in every period of a waveform that changes.
LEMMA PulseBegins ==
    ASSUME NEW pattern \in Pattern, NEW span \in Nat, NEW raw,
           IsPeriodic(raw, pattern, span), ~Constant(raw), NEW a \in 0 .. span
    PROVE  \E x \in DOMAIN raw : x >= a /\ Rises(raw, Period(pattern), x)
<1> DEFINE P == Period(pattern)
<1>1. /\ P \in Nat /\ P >= 2 /\ DOMAIN raw = 0 .. span + P - 1
      /\ \A x \in 0 .. span - 1 : raw[x + P] = raw[x]
      /\ \A x \in 0 .. span + P - 1 : raw[x] \in Words(pattern)
      /\ a .. a + P - 1 \subseteq 0 .. span + P - 1
  BY DEF IsPeriodic
<1>2. SUFFICES ASSUME \A x \in a .. a + P - 1 : ~Rises(raw, P, x)
               PROVE  \A x \in a .. a + P - 1 : raw[x] = raw[a]
  <2>1. ~ \A x \in a .. a + P - 1 : raw[x] = raw[a]
    BY ConstantPeriod
  <2>2. \A x \in a .. a + P - 1 : x \in DOMAIN raw /\ x >= a
    BY <1>1
  <2> QED  BY <2>1, <2>2
<1>3. CASE \A x \in a .. a + P - 1 : ~Lit(raw[x])
  <2>1. \A x \in a .. a + P - 1 : raw[x] = Zeros(pattern)
    BY <1>1, <1>3, WordsOfPattern
  <2>2. a \in a .. a + P - 1
    BY <1>1
  <2> QED  BY <2>1, <2>2
<1>4. ASSUME NEW b \in a .. a + P - 1, Lit(raw[b])
      PROVE  \A x \in a .. a + P - 1 : raw[x] = raw[a]
  <2>1. a .. b \subseteq a .. a + P - 1 /\ a \in a .. b
    BY <1>1
  <2>2. raw[a] = raw[b]
    BY <1>2, <1>4, <2>1, LitBackToRise
  <2>3. ~Rises(raw, P, a)
    BY <1>2, <2>1
  <2> DEFINE e == a + P - 1
  <2>4. raw[a] = raw[e]
    <3>1. raw[IF a = 0 THEN P - 1 ELSE a - 1] = raw[e]
      <4>1. CASE a = 0
        BY <4>1, <1>1
      <4>2. CASE a # 0
        <5>1. a - 1 \in 0 .. span - 1 /\ (a - 1) + P = e
          BY <4>2, <1>1
        <5> QED  BY <4>2, <5>1, <1>1
      <4> QED  BY <4>1, <4>2
    <3> QED  BY <1>4, <2>2, <2>3, <3>1 DEF Rises
  <2>5. e \in a .. a + P - 1 /\ Lit(raw[e])
    BY <1>1, <1>4, <2>2, <2>4
  <2>6. \A x \in a .. e : raw[x] = raw[e]
    BY <1>2, <2>5, LitBackToRise
  <2> QED  BY <2>4, <2>6
<1> QED
  BY <1>3, <1>4

\* A waveform that changes does so within a period of every tick.
LEMMA ChangeFollows ==
    ASSUME NEW pattern, NEW span \in Nat, NEW raw,
           IsPeriodic(raw, pattern, span), ~Constant(raw)
    PROVE  NextChange(raw, span) \in Nat /\ NextChange(raw, span) > span
<1> DEFINE P == Period(pattern)
           T == {y \in DOMAIN raw : y > span /\ raw[y] # raw[y - 1]}
           Other == {n \in Nat : n <= P - 1 /\ raw[span + n] # raw[span]}
<1>1. P \in Nat /\ P >= 2 /\ DOMAIN raw = 0 .. span + P - 1
  BY DEF IsPeriodic
<1>2. Other # {}
  <2> SUFFICES ASSUME Other = {} PROVE FALSE
    OBVIOUS
  <2>1. ASSUME NEW x \in span .. span + P - 1 PROVE raw[x] = raw[span]
    <3>1. x - span \in Nat /\ x - span <= P - 1 /\ span + (x - span) = x
      BY <1>1
    <3> QED  BY <3>1
  <2> QED  BY <2>1, ConstantPeriod
<1>3. PICK n \in Other : \A m \in Other : n <= m
  BY <1>2, LeastNumber
<1>4. n \in Nat /\ n <= P - 1 /\ raw[span + n] # raw[span] /\ n # 0
  <2>1. n = 0 => span + n = span
    OBVIOUS
  <2> QED  BY <2>1
<1>5. n - 1 \in Nat /\ ~(n <= n - 1) /\ n - 1 <= P - 1 /\ (span + n) - 1 = span + (n - 1)
  BY <1>1, <1>4
<1>6. raw[(span + n) - 1] = raw[span]
  BY <1>3, <1>5
<1>7. span + n \in T
  BY <1>1, <1>4, <1>6
<1>8. Min(T) \in T
  <2>1. T \subseteq Nat
    BY <1>1
  <2> QED  BY <1>7, <2>1, MinIsLeast
<1> QED
  BY <1>1, <1>8 DEF NextChange

\* The first tick of the new waveform that is followed.
Begin(pattern, held, raw) ==
    IF Constant(raw) THEN held.left
    ELSE Min({x \in DOMAIN raw : x >= held.left /\ Rises(raw, Period(pattern), x)})

\* PulseSequence, with the begin of the new waveform named.
LEMMA WholePulsesParts ==
    ASSUME NEW pattern, NEW span, NEW held, NEW raw
    PROVE  LET begin == Begin(pattern, held, raw)
           IN  WholePulses(pattern, span, held, raw) =
                 [words |-> [x \in 0 .. span - 1 |->
                       IF x < held.left THEN held.word
                       ELSE IF x < begin THEN Zeros(pattern) ELSE raw[x]],
                  next |-> HandOver(pattern, span, held, raw, begin)]
BY DEF WholePulses, Begin

\* The pulse handed over is finished before the new waveform is followed, and
\* that begins with the first of its pulses.
LEMMA BeginsWithPulse ==
    ASSUME NEW pattern \in Pattern, NEW span \in Nat, NEW raw,
           IsPeriodic(raw, pattern, span), NEW held \in Remainder(pattern),
           held.left <= span
    PROVE  /\ Begin(pattern, held, raw) \in Nat
           /\ held.left <= Begin(pattern, held, raw)
           /\ Constant(raw) => Begin(pattern, held, raw) = held.left
           /\ ~Constant(raw) =>
                \A x \in 0 .. span - 1 :
                   Begin(pattern, held, raw) <= x <=>
                     \E y \in 0 .. x : held.left <= y /\ Rises(raw, Period(pattern), y)
<1> DEFINE P == Period(pattern)
           starts == {x \in DOMAIN raw : x >= held.left /\ Rises(raw, P, x)}
           begin == Begin(pattern, held, raw)
<1>1. /\ P \in Nat /\ P >= 2 /\ DOMAIN raw = 0 .. span + P - 1
      /\ held.left \in Nat /\ held.left \in 0 .. span
  BY DEF IsPeriodic, Remainder
<1>2. CASE Constant(raw)
  BY <1>1, <1>2 DEF Begin
<1>3. CASE ~Constant(raw)
  <2>1. begin = Min(starts)
    BY <1>3 DEF Begin
  <2>2. starts \subseteq Nat /\ starts # {}
    <3>1. \E x \in DOMAIN raw : x >= held.left /\ Rises(raw, P, x)
      BY <1>1, <1>3, PulseBegins
    <3> QED  BY <1>1, <3>1
  <2>3. begin \in starts /\ \A y \in starts : begin <= y
    BY <2>1, <2>2, MinIsLeast
  <2>4. begin \in Nat /\ held.left <= begin /\ Rises(raw, P, begin)
    BY <1>1, <2>3
  <2>5. ASSUME NEW x \in 0 .. span - 1
        PROVE  begin <= x <=> \E y \in 0 .. x : held.left <= y /\ Rises(raw, P, y)
    <3>1. ASSUME begin <= x PROVE begin \in 0 .. x
      BY <2>4, <3>1
    <3>2. ASSUME NEW y \in 0 .. x, held.left <= y, Rises(raw, P, y)
          PROVE  begin <= x
      <4>1. y \in starts
        BY <1>1, <3>2
      <4> QED  BY <2>3, <2>4, <4>1
    <3> QED  BY <2>4, <3>1, <3>2
  <2> QED  BY <1>3, <2>4, <2>5
<1> QED
  BY <1>2, <1>3

\* PulseSequence lays out words and leaves a pulse of the pattern.
LEMMA WholePulsesTypes ==
    ASSUME NEW pattern \in Pattern, NEW span \in Nat, span >= 1, NEW raw,
           IsPeriodic(raw, pattern, span), NEW held \in Remainder(pattern)
    PROVE  /\ WholePulses(pattern, span, held, raw).words
                 \in [0 .. span - 1 -> Words(pattern)]
           /\ WholePulses(pattern, span, held, raw).next \in Remainder(pattern)
<1> DEFINE begin == Begin(pattern, held, raw)
           next == HandOver(pattern, span, held, raw, begin)
<1>1. /\ Period(pattern) \in Nat /\ Period(pattern) >= 2
      /\ \A x \in 0 .. span : raw[x] \in Words(pattern)
      /\ held.word \in Words(pattern) /\ held.left \in Nat
      /\ Zeros(pattern) \in Words(pattern)
  BY WordsOfPattern DEF IsPeriodic, Remainder
<1>2. next \in Remainder(pattern)
  <2>1. ~Constant(raw) => NextChange(raw, span) - span \in Nat
    BY ChangeFollows
  <2>2. [word |-> Zeros(pattern), left |-> 0] \in Remainder(pattern)
    BY <1>1 DEF Remainder
  <2>3. held.left > span => [held EXCEPT !.left = @ - span] \in Remainder(pattern)
    BY <1>1 DEF Remainder
  <2>4. [word |-> raw[span],
          left |-> IF Constant(raw) THEN 0 ELSE NextChange(raw, span) - span]
            \in Remainder(pattern)
    BY <1>1, <2>1 DEF Remainder
  <2> QED  BY <2>2, <2>3, <2>4 DEF HandOver
<1>3. \A x \in 0 .. span - 1 :
        (IF x < held.left THEN held.word
         ELSE IF x < begin THEN Zeros(pattern) ELSE raw[x]) \in Words(pattern)
  BY <1>1
<1> HIDE DEF begin
<1> QED
  BY <1>2, <1>3, WholePulsesParts DEF begin

\* The laid out words finish the pulse that is due: the remainder counts down to
\* the instant in absolute time.
LEMMA PulseIsFinished ==
    ASSUME NEW pattern \in Pattern, NEW span \in Nat, span >= 1, NEW raw,
           IsPeriodic(raw, pattern, span), NEW held \in Remainder(pattern),
           NEW l \in Int, NEW due, PulseDue(held, due, l),
           NEW interval, interval.raw = raw,
           interval.commanded = WholePulses(pattern, span, held, raw).words
    PROVE  FinishesPulse(pattern, span, l, due, interval)
<1> DEFINE begin == Begin(pattern, held, raw)
           P == Period(pattern)
<1>1. held.left \in Nat /\ due.until \in Int
  BY DEF Remainder, PulseDue
<1>2. /\ held.left = 0 => due.until <= l
      /\ held.left # 0 => due.word = held.word /\ due.until = l + held.left
  BY DEF PulseDue
<1>3. \A x \in 0 .. span - 1 :
         interval.commanded[x] = IF x < held.left THEN held.word
                       ELSE IF x < begin THEN Zeros(pattern) ELSE raw[x]
  BY WholePulsesParts
<1>4. ASSUME NEW x \in 0 .. span - 1
      PROVE  interval.commanded[x] =
                IF l + x < due.until THEN due.word
                ELSE IF \/ Constant(raw)
                        \/ \E y \in 0 .. x : /\ l + y >= due.until
                                             /\ Rises(raw, P, y)
                     THEN raw[x]
                     ELSE Zeros(pattern)
  <2>1. \A y \in 0 .. x : l + y >= due.until <=> held.left <= y
    BY <1>1, <1>2
  <2>2. CASE x < held.left
    BY <1>1, <1>2, <1>3, <2>2
  <2>3. CASE ~(x < held.left)
    <3>1. ~(l + x < due.until) /\ held.left <= span
      BY <1>1, <1>2, <2>3
    <3>2. interval.commanded[x] = IF x < begin THEN Zeros(pattern) ELSE raw[x]
      BY <1>3, <2>3
    <3>3. begin \in Nat
      BY <3>1, BeginsWithPulse
    <3>4. CASE Constant(raw)
      <4>1. begin = held.left
        BY <3>1, <3>4, BeginsWithPulse
      <4> QED  BY <2>3, <3>1, <3>2, <3>4, <4>1
    <3>5. CASE ~Constant(raw)
      <4>1. begin <= x <=> \E y \in 0 .. x : held.left <= y /\ Rises(raw, P, y)
        BY <3>1, <3>5, BeginsWithPulse
      <4>2. begin <= x <=> \E y \in 0 .. x : l + y >= due.until /\ Rises(raw, P, y)
        BY <2>1, <4>1
      <4>3. x < begin <=> ~(begin <= x)
        BY <3>3
      <4> QED  BY <3>1, <3>2, <3>5, <4>2, <4>3
    <3> QED  BY <3>4, <3>5
  <2> QED  BY <2>2, <2>3
<1> QED
  BY <1>4 DEF FinishesPulse

\* The pulse left at the end is one that may run when the interval is over.
LEMMA PulseIsHandedOver ==
    ASSUME NEW pattern \in Pattern, NEW span \in Nat, span >= 1, NEW raw,
           IsPeriodic(raw, pattern, span), NEW held \in Remainder(pattern),
           NEW l \in Int, NEW pulses, NEW due \in pulses, PulseDue(held, due, l),
           NEW interval, interval.raw = raw,
           interval.commanded = WholePulses(pattern, span, held, raw).words
    PROVE  \E d \in PulsesOwed(pattern, span, l, pulses, interval) :
              PulseDue(WholePulses(pattern, span, held, raw).next, d, l + span)
<1> DEFINE begin == Begin(pattern, held, raw)
           next == HandOver(pattern, span, held, raw, begin)
           none == NoPulse(pattern, l + span)
           own == [word |-> raw[span], until |-> l + NextChange(raw, span)]
           after(o) ==
            IF o.until > l + span THEN {o}
            ELSE IF Constant(raw) THEN {none}
            ELSE IF Rises(raw, Period(pattern), span) THEN {own, none}
            ELSE IF o.until < l + span /\ Lit(interval.commanded[span - 1])
                    /\ raw[span] = raw[span - 1]
            THEN {own}
            ELSE {none}
<1>1. held.left \in Nat /\ due.until \in Int
  BY DEF Remainder, PulseDue
<1>2. /\ held.left = 0 => due.until <= l
      /\ held.left # 0 => due.word = held.word /\ due.until = l + held.left
  BY DEF PulseDue
<1>3. FinishesPulse(pattern, span, l, due, interval)
  BY PulseIsFinished
<1>4. after(due) \subseteq PulsesOwed(pattern, span, l, pulses, interval)
  BY <1>3 DEF PulsesOwed
<1>5. WholePulses(pattern, span, held, raw).next = next
  BY WholePulsesParts
<1>6. interval.commanded[span - 1] =
          IF span - 1 < held.left THEN held.word
          ELSE IF span - 1 < begin THEN Zeros(pattern) ELSE raw[span - 1]
  BY WholePulsesParts
<1>7. ~Lit(Zeros(pattern))
  BY WordsOfPattern
<1>8. next.left = 0 => PulseDue(next, none, l + span)
  BY DEF PulseDue, NoPulse
<1>9. SUFFICES \E d \in after(due) : PulseDue(next, d, l + span)
  BY <1>4, <1>5
<1> HIDE DEF begin
<1>10. CASE held.left > span
  <2>1. next = [held EXCEPT !.left = @ - span]
    BY <1>1, <1>10 DEF HandOver
  <2>2. next.word = held.word /\ next.left = held.left - span
    BY <2>1 DEF Remainder
  <2>3. due.until = l + held.left /\ due.word = held.word
    BY <1>1, <1>2, <1>10
  <2>4. due \in after(due)
    BY <1>1, <1>10, <2>3
  <2>5. PulseDue(next, due, l + span)
    BY <1>1, <1>10, <2>2, <2>3 DEF PulseDue
  <2> QED  BY <2>4, <2>5
<1>11. CASE held.left = span
  <2>1. next.left = 0
    BY <1>1, <1>11 DEF HandOver
  <2>2. due.until = l + span
    BY <1>2, <1>11
  <2>3. none \in after(due)
    <3>1. ~(due.until > l + span) /\ ~(due.until < l + span)
      BY <1>1, <2>2
    <3> HIDE DEF own, none
    <3>2. CASE Constant(raw)
      BY <3>1, <3>2
    <3>3. CASE ~Constant(raw) /\ Rises(raw, Period(pattern), span)
      BY <3>1, <3>3
    <3>4. CASE ~Constant(raw) /\ ~Rises(raw, Period(pattern), span)
      <4>1. after(due) = {none}
        BY <3>1, <3>4
      <4> HIDE DEF after
      <4> QED  BY <4>1
    <3> QED  BY <3>2, <3>3, <3>4
  <2> QED  BY <1>8, <2>1, <2>3
<1>12. CASE held.left < span
  <2>1. begin \in Nat /\ held.left <= begin
    <3>1. held.left <= span
      BY <1>1, <1>12
    <3>2. Begin(pattern, held, raw) \in Nat /\ held.left <= Begin(pattern, held, raw)
      BY <3>1, BeginsWithPulse
    <3> QED  BY <3>2 DEF begin
  <2>2. due.until < l + span /\ ~(due.until > l + span) /\ ~(span - 1 < held.left)
    BY <1>1, <1>2, <1>12
  <2>3. CASE begin < span /\ Lit(raw[span])
    <3>1. next = [word |-> raw[span],
                  left |-> IF Constant(raw) THEN 0 ELSE NextChange(raw, span) - span]
      BY <1>1, <1>12, <2>3 DEF HandOver
    <3>2. CASE Constant(raw)
      <4>1. none \in after(due)
        BY <2>2, <3>2
      <4> QED  BY <1>8, <3>1, <3>2, <4>1
    <3>3. CASE ~Constant(raw)
      <4>1. NextChange(raw, span) \in Nat /\ NextChange(raw, span) > span
        BY <3>3, ChangeFollows
      <4>2. PulseDue(next, own, l + span)
        BY <3>1, <3>3, <4>1 DEF PulseDue
      <4>3. CASE Rises(raw, Period(pattern), span)
        BY <2>2, <3>3, <4>2, <4>3
      <4>4. CASE ~Rises(raw, Period(pattern), span)
        <5>1. raw[span] = raw[span - 1]
          BY <2>3, <4>4 DEF Rises
        <5>2. interval.commanded[span - 1] = raw[span - 1]
          BY <1>6, <2>1, <2>2, <2>3
        <5>3. own \in after(due)
          BY <2>2, <2>3, <3>3, <4>4, <5>1, <5>2
        <5> QED  BY <4>2, <5>3
      <4> QED  BY <4>3, <4>4
    <3> QED  BY <3>2, <3>3
  <2>4. CASE ~(begin < span /\ Lit(raw[span]))
    <3>1. next.left = 0
      BY <1>1, <1>12, <2>4 DEF HandOver
    <3>2. ~(Lit(interval.commanded[span - 1]) /\ raw[span] = raw[span - 1])
      <4>1. CASE ~(begin < span)
        BY <1>6, <1>7, <2>1, <2>2, <4>1
      <4>2. CASE begin < span /\ ~Lit(raw[span])
        <5>1. interval.commanded[span - 1] = raw[span - 1]
          BY <1>6, <2>1, <2>2, <4>2
        <5> QED  BY <4>2, <5>1
      <4> QED  BY <2>4, <4>1, <4>2
    <3>3. none \in after(due)
      <4>1. ~(due.until < l + span /\ Lit(interval.commanded[span - 1])
                /\ raw[span] = raw[span - 1])
        BY <3>2
      <4> HIDE DEF own, none
      <4> QED  BY <2>2, <4>1
    <3> QED  BY <1>8, <3>1, <3>3
  <2> QED  BY <2>3, <2>4
<1> QED
  BY <1>1, <1>10, <1>11, <1>12

\* A function on the ticks before n that makes the leg's steps.
Steps(pattern, words, leg, start, sign, f, n) ==
    f = [x \in -1 .. n - 1 |->
            IF x = -1 THEN Pending(start, sign)
            ELSE LegStep(pattern, f[x - 1], words[x][leg], sign, x)]

\* There is such a function: the induction over the ticks of the interval.
LEMMA StepsExist ==
    ASSUME NEW pattern, NEW words, NEW leg, NEW start, NEW sign, NEW span \in Nat
    PROVE  \E f : Steps(pattern, words, leg, start, sign, f, span)
<1> DEFINE S(f, n) == Steps(pattern, words, leg, start, sign, f, n)
           Bad == {n \in Nat : ~ \E f : S(f, n)}
<1>1. SUFFICES ASSUME span \in Bad PROVE FALSE
  OBVIOUS
<1>2. PICK n \in Bad : \A m \in Bad : n <= m
  BY <1>1, LeastNumber
<1>3. CASE n = 0
  <2> DEFINE f == [x \in -1 .. -1 |-> Pending(start, sign)]
  <2>1. f = [x \in -1 .. n - 1 |->
            IF x = -1 THEN Pending(start, sign)
            ELSE LegStep(pattern, f[x - 1], words[x][leg], sign, x)]
    BY <1>3
  <2>2. S(f, n)
    BY <2>1 DEF Steps
  <2> QED  BY <2>2, <1>2
<1>4. CASE n # 0
  <2>1. n - 1 \in Nat /\ n - 1 \notin Bad
    BY <1>2, <1>4
  <2>2. PICK f : S(f, n - 1)
    BY <2>1
  <2>3. f = [x \in -1 .. n - 1 - 1 |->
            IF x = -1 THEN Pending(start, sign)
            ELSE LegStep(pattern, f[x - 1], words[x][leg], sign, x)]
    BY <2>2 DEF Steps
  <2> DEFINE g == [x \in -1 .. n - 1 |-> IF x = n - 1
                     THEN LegStep(pattern, f[x - 1], words[x][leg], sign, x) ELSE f[x]]
  <2>4. \A x \in -1 .. n - 1 : x # -1 => g[x - 1] = f[x - 1]
    BY <2>1
  <2>5. g = [x \in -1 .. n - 1 |->
            IF x = -1 THEN Pending(start, sign)
            ELSE LegStep(pattern, g[x - 1], words[x][leg], sign, x)]
    <3>1. ASSUME NEW x \in -1 .. n - 1
          PROVE g[x] = IF x = -1 THEN Pending(start, sign)
            ELSE LegStep(pattern, f[x - 1], words[x][leg], sign, x)
      BY <2>1, <2>3
    <3> QED  BY <3>1, <2>4
  <2>6. S(g, n)
    BY <2>5 DEF Steps
  <2> QED  BY <2>6, <1>2
<1> QED
  BY <1>3, <1>4

\* The result of _DeadTimeSequence for a leg that made these steps.
CourseOf(pattern, sign, c, span) ==
    LET last == LegStep(pattern, c[span - 1], c[span - 1].command, sign, span)
    IN  [actual |-> [x \in 0 .. span - 1 |-> c[x].actual],
         next |-> [actual |-> last.actual, command |-> last.command,
                   left |-> IF last.due = 0 THEN 0 ELSE last.due - span]]

\* _DeadTimeSequence makes the steps of a leg.
LEMMA CourseIsSteps ==
    ASSUME NEW pattern, NEW words, NEW leg, NEW start, NEW sign, NEW span \in Nat
    PROVE  \E c : /\ Steps(pattern, words, leg, start, sign, c, span)
                  /\ LegCourse(pattern, span, words, leg, start, sign)
                        = CourseOf(pattern, sign, c, span)
<1> DEFINE c == CHOOSE f : Steps(pattern, words, leg, start, sign, f, span)
<1>1. Steps(pattern, words, leg, start, sign, c, span)
  BY StepsExist, Zenon
<1>2. LegCourse(pattern, span, words, leg, start, sign)
        = CourseOf(pattern, sign, c, span)
  BY DEF LegCourse, CourseOf, Steps
<1> HIDE DEF c
<1> QED
  BY <1>1, <1>2

\* The greatest member of a set is its Max.
LEMMA MaxIsGreatest ==
    ASSUME NEW T, T \subseteq Int, NEW x \in T, \A y \in T : y <= x
    PROVE  Max(T) = x
<1>1. Max(T) \in T /\ \A y \in T : Max(T) >= y
  <2>1. \E z \in T : \A y \in T : z >= y
    OBVIOUS
  <2> QED  BY <2>1 DEF Max
<1>2. PICK m : m = Max(T)
  OBVIOUS
<1>3. m \in T /\ \A y \in T : m >= y
  BY <1>1, <1>2
<1>4. m \in Int /\ x \in Int /\ m >= x /\ m <= x
  BY <1>3
<1> QED
  BY <1>2, <1>4

\* The command of a leg before x, and since when it has it.
OwedBefore(l, due, interval, leg, sign, x) ==
    IF x = 0 THEN due ELSE LegOwed(l, due, interval, leg, sign, x - 1)

\* What a leg owes at x, from what it owed before: a change of the command starts
\* anew, otherwise the leg may only be freed.
LEMMA LegOwedStep ==
    ASSUME NEW l \in Int, NEW due, NEW interval, NEW leg, NEW sign, NEW x \in Nat
    PROVE  LET before == OwedBefore(l, due, interval, leg, sign, x)
               at == LegOwed(l, due, interval, leg, sign, x)
           IN  /\ at.command = interval.commanded[x][leg]
               /\ at.freed \in BOOLEAN
               /\ at.command # before.command =>
                    /\ at.since = l + x
                    /\ at.freed <=> Clamp(sign, at.command) = at.command
               /\ at.command = before.command =>
                    /\ at.since = before.since
                    /\ at.freed <=> \/ Clamp(sign, at.command) = at.command
                                    \/ before.freed
<1> DEFINE commanded(y) == IF y < 0 THEN due.command ELSE interval.commanded[y][leg]
           changes(n) == {y \in 0 .. n : commanded(y) # commanded(y - 1)}
           before == OwedBefore(l, due, interval, leg, sign, x)
           at == LegOwed(l, due, interval, leg, sign, x)
           prior == LegOwed(l, due, interval, leg, sign, x - 1)
<1>1. \A n : LegOwed(l, due, interval, leg, sign, n) =
         [command |-> commanded(n),
          since |-> IF changes(n) = {} THEN due.since ELSE l + Max(changes(n)),
          freed |-> \/ Clamp(sign, commanded(n)) = commanded(n)
                    \/ changes(n) = {} /\ due.freed]
  BY DEF LegOwed
<1>2. commanded(x) = interval.commanded[x][leg]
  OBVIOUS
<1>3. before.command = commanded(x - 1)
  <2>1. CASE x = 0
    BY <2>1 DEF OwedBefore
  <2>2. CASE x # 0
    <3>1. before = prior
      BY <2>2 DEF OwedBefore
    <3> HIDE DEF commanded, changes
    <3> QED  BY <3>1, <1>1
  <2> QED  BY <2>1, <2>2
<1>4. commanded(x) # commanded(x - 1) => changes(x) # {} /\ Max(changes(x)) = x
  <2> SUFFICES ASSUME commanded(x) # commanded(x - 1)
               PROVE  changes(x) # {} /\ Max(changes(x)) = x
    OBVIOUS
  <2>1. x \in changes(x) /\ changes(x) \subseteq Int /\ \A y \in changes(x) : y <= x
    OBVIOUS
  <2> HIDE DEF changes
  <2> QED  BY <2>1, MaxIsGreatest
<1>5. commanded(x) = commanded(x - 1) =>
         IF x = 0 THEN changes(x) = {} ELSE changes(x) = changes(x - 1)
  <2> SUFFICES ASSUME commanded(x) = commanded(x - 1)
               PROVE IF x = 0 THEN changes(x) = {} ELSE changes(x) = changes(x - 1)
    OBVIOUS
  <2>1. \A y : y \in changes(x) <=> y \in 0 .. x - 1 /\ commanded(y) # commanded(y - 1)
    <3> TAKE y
    <3> HIDE DEF commanded
    <3> QED  OBVIOUS
  <2>2. CASE x = 0
    <3> HIDE DEF changes
    <3> QED  BY <2>1, <2>2
  <2>3. CASE x # 0
    <3>1. changes(x) = {y \in 0 .. x - 1 : commanded(y) # commanded(y - 1)}
      <4> HIDE DEF commanded
      <4> QED  BY <2>1
    <3> QED  BY <2>3, <3>1
  <2> QED  BY <2>2, <2>3
<1>6. at.command = commanded(x) /\ at.freed \in BOOLEAN
  <2>1. at = [command |-> commanded(x),
              since |-> IF changes(x) = {} THEN due.since ELSE l + Max(changes(x)),
              freed |-> \/ Clamp(sign, commanded(x)) = commanded(x)
                        \/ changes(x) = {} /\ due.freed]
    BY <1>1
  <2>2. (\/ Clamp(sign, commanded(x)) = commanded(x)
         \/ changes(x) = {} /\ due.freed) \in BOOLEAN
    OBVIOUS
  <2> HIDE DEF commanded, changes, at
  <2> QED  BY <2>1, <2>2
<1>7. ASSUME commanded(x) # commanded(x - 1)
      PROVE  at.since = l + x /\ (at.freed <=> Clamp(sign, at.command) = at.command)
  <2> HIDE DEF commanded, changes
  <2> QED  BY <1>1, <1>4, <1>7
<1>8. ASSUME commanded(x) = commanded(x - 1)
      PROVE  /\ at.since = before.since
             /\ at.freed <=> \/ Clamp(sign, at.command) = at.command
                             \/ before.freed
  <2>1. CASE x = 0
    <3>1. changes(x) = {} /\ before = due
      BY <1>5, <1>8, <2>1 DEF OwedBefore
    <3> HIDE DEF commanded, changes
    <3> QED  BY <1>1, <3>1
  <2>2. CASE x # 0
    <3>1. changes(x) = changes(x - 1)
          /\ before = LegOwed(l, due, interval, leg, sign, x - 1)
      BY <1>5, <1>8, <2>2 DEF OwedBefore
    <3> HIDE DEF commanded, changes
    <3> QED  BY <1>1, <1>8, <3>1
  <2> QED  BY <2>1, <2>2
<1> HIDE DEF commanded
<1> QED
  BY <1>2, <1>3, <1>6, <1>7, <1>8

\* A state of a leg.
IsLeg(c) == c = [actual |-> c.actual, command |-> c.command, due |-> c.due]

\* A leg at tick x of its course, and what it owes there.
LegIs(pattern, c, at, l, sign, x) ==
    /\ IsLeg(c) /\ c.command = at.command /\ c.command \in {0, 1}
    /\ at.since \in Int /\ at.freed \in BOOLEAN
    /\ Clamp(sign, c.command) = c.command => at.freed
    /\ IF at.freed \/ l + x - at.since >= pattern.dead
       THEN c.due = 0 /\ c.actual = c.command
       ELSE /\ c.due = at.since + pattern.dead - l /\ c.due > 0
            /\ c.actual = Clamp(sign, c.command)

\* A clamp that does not agree with the command is the opposite rail.
LEMMA Clamped ==
    ASSUME NEW sign, NEW command \in {0, 1}
    PROVE  /\ Clamp(sign, command) \in {0, 1}
           /\ Clamp(sign, command) # command => Clamp(sign, command) = 1 - command
           /\ Clamp(sign, command) # command =>
                \A c \in {0, 1} : Clamp(sign, c) = 1 - command
BY DEF Clamp

\* A leg before tick x, and what it owes there.
LegWas(pattern, c, before, l, sign, x) ==
    /\ IsLeg(c) /\ c.command = before.command
    /\ c.command \in {0, 1} =>
         /\ before.since \in Int /\ before.freed \in BOOLEAN
         /\ LET freed == before.freed \/ Clamp(sign, c.command) = c.command
            IN  \/ /\ freed \/ l + x - before.since >= pattern.dead
                   /\ c.due = 0 /\ c.actual = c.command
                \/ /\ ~freed
                   /\ c.due = before.since + pattern.dead - l
                   /\ c.due > 0 /\ c.due >= x /\ c.actual = Clamp(sign, c.command)

\* One step keeps a leg at what it owes: a change of the command, a turn-on that is
\* due, and waiting.
LEMMA LegStepKeeps ==
    ASSUME NEW pattern \in Pattern, pattern.dead > 0, NEW l \in Int, NEW sign,
           NEW x \in Nat, NEW target \in {0, 1},
           NEW c, NEW before, NEW at,
           LegWas(pattern, c, before, l, sign, x),
           at.command = target, at.freed \in BOOLEAN,
           target # before.command =>
                /\ at.since = l + x
                /\ at.freed <=> Clamp(sign, target) = target,
           target = before.command =>
                /\ at.since = before.since
                /\ at.freed <=> Clamp(sign, target) = target \/ before.freed
    PROVE  LegIs(pattern, LegStep(pattern, c, target, sign, x), at, l, sign, x)
<1> DEFINE d == LegStep(pattern, c, target, sign, x)
<1>1. pattern.dead \in Nat /\ c.command = before.command /\ IsLeg(c)
  BY DEF Pattern, LegWas
<1>0. SUFFICES LegIs(pattern, d, at, l, sign, x)
  OBVIOUS
<1>2. CASE target # c.command
  <2>1. d = [actual |-> Clamp(sign, target), command |-> target,
             due |-> IF target = Clamp(sign, target) THEN 0 ELSE x + pattern.dead]
    BY <1>2 DEF LegStep
  <2>2. at.since = l + x /\ (at.freed <=> Clamp(sign, target) = target)
    BY <1>1, <1>2
  <2>3. at.since \in Int /\ ~(l + x - at.since >= pattern.dead)
        /\ x + pattern.dead = at.since + pattern.dead - l /\ x + pattern.dead > 0
    BY <1>1, <2>2
  <2>4. /\ IsLeg(d) /\ d.actual = Clamp(sign, target) /\ d.command = target
        /\ d.due = IF target = Clamp(sign, target) THEN 0 ELSE x + pattern.dead
    BY <2>1 DEF IsLeg
  <2> HIDE DEF d
  <2>5. CASE target = Clamp(sign, target)
    BY <2>2, <2>3, <2>4, <2>5 DEF LegIs
  <2>6. CASE target # Clamp(sign, target)
    BY <2>2, <2>3, <2>4, <2>6 DEF LegIs
  <2> QED  BY <2>5, <2>6
<1>3. CASE target = c.command
  <2>1. /\ at.since = before.since /\ before.since \in Int /\ before.freed \in BOOLEAN
        /\ at.freed <=> Clamp(sign, target) = target \/ before.freed
    BY <1>1, <1>3 DEF LegWas
  <2>2. d = IF c.due # 0 /\ c.due = x THEN [c EXCEPT !.actual = c.command, !.due = 0] ELSE c
    BY <1>3 DEF LegStep
  <2>3. /\ c.command \in {0, 1}
        /\ LET freed == before.freed \/ Clamp(sign, c.command) = c.command
           IN  \/ /\ freed \/ l + x - before.since >= pattern.dead
                  /\ c.due = 0 /\ c.actual = c.command
               \/ /\ ~freed
                  /\ c.due = before.since + pattern.dead - l
                  /\ c.due > 0 /\ c.due >= x /\ c.actual = Clamp(sign, c.command)
    BY <1>3 DEF LegWas
  <2>4. CASE /\ at.freed \/ l + x - at.since >= pattern.dead
             /\ c.due = 0 /\ c.actual = c.command
    <3>1. d = c
      BY <2>2, <2>4
    <3> HIDE DEF d
    <3> QED  BY <1>1, <1>3, <2>1, <2>3, <2>4, <3>1 DEF LegIs
  <2>5. CASE /\ ~at.freed /\ Clamp(sign, c.command) # c.command
             /\ c.due = before.since + pattern.dead - l
             /\ c.due > 0 /\ c.due >= x /\ c.actual = Clamp(sign, c.command)
    <3>1. CASE c.due = x
      <4>1. d = [actual |-> c.command, command |-> c.command, due |-> 0]
        <5>1. d = [c EXCEPT !.actual = c.command, !.due = 0]
          BY <2>2, <2>5, <3>1
        <5>2. PICK a, b, e : c = [actual |-> a, command |-> b, due |-> e]
          BY <1>1 DEF IsLeg
        <5>3. c.command = b
          BY <5>2
        <5> HIDE DEF d
        <5> QED  BY <5>1, <5>2, <5>3
      <4>2. IsLeg(d) /\ d.actual = c.command /\ d.command = c.command /\ d.due = 0
        BY <4>1 DEF IsLeg
      <4>3. l + x - at.since >= pattern.dead
        BY <1>1, <2>1, <2>5, <3>1
      <4> HIDE DEF d
      <4> QED  BY <1>1, <1>3, <2>1, <2>3, <2>5, <4>2, <4>3 DEF LegIs
    <3>2. CASE c.due # x
      <4>1. d = c
        BY <2>2, <3>2
      <4>2. ~(l + x - at.since >= pattern.dead)
        BY <1>1, <2>1, <2>5, <3>2
      <4> HIDE DEF d
      <4> QED  BY <1>1, <1>3, <2>1, <2>3, <2>5, <4>1, <4>2 DEF LegIs
    <3> QED  BY <3>1, <3>2
  <2> QED
    <3> HIDE DEF d
    <3> QED  BY <1>3, <2>1, <2>3, <2>4, <2>5
<1> QED  BY <1>2, <1>3

\* A leg enters the interval with what it owes, clamped by the present current.
LEMMA PendingIsDue ==
    ASSUME NEW pattern \in Pattern, pattern.dead > 0, NEW l \in Int, NEW sign,
           NEW start, NEW due, LegDue(pattern, start, due, l)
    PROVE  LegWas(pattern, Pending(start, sign), due, l, sign, 0)
<1> DEFINE c == Pending(start, sign)
           freed == start.left # 0 /\ start.command = Clamp(sign, start.command)
<1>1. /\ pattern.dead \in Nat
      /\ due.command = start.command /\ due.since \in Int /\ due.freed \in BOOLEAN
  BY DEF Pattern, LegDue
<1>2. /\ IsLeg(c) /\ c.command = start.command
      /\ c.actual = IF freed THEN start.command ELSE start.actual
      /\ c.due = IF freed THEN 0 ELSE start.left
  BY DEF Pending, IsLeg
<1>0. SUFFICES LegWas(pattern, c, due, l, sign, 0)
  OBVIOUS
<1>3. SUFFICES ASSUME start.command \in {0, 1}
      PROVE  LET clamped == due.freed \/ Clamp(sign, c.command) = c.command
             IN  \/ /\ clamped \/ l + 0 - due.since >= pattern.dead
                    /\ c.due = 0 /\ c.actual = c.command
                 \/ /\ ~clamped
                    /\ c.due = due.since + pattern.dead - l
                    /\ c.due > 0 /\ c.due >= 0 /\ c.actual = Clamp(sign, c.command)
  <2> HIDE DEF c
  <2> QED  BY <1>1, <1>2 DEF LegWas
<1> HIDE DEF c
<1>4. CASE due.freed \/ l - due.since >= pattern.dead
  <2>1. start.left = 0 /\ start.actual = start.command
    BY <1>3, <1>4 DEF LegDue
  <2> QED  BY <1>1, <1>2, <1>4, <2>1
<1>5. CASE ~due.freed /\ ~(l - due.since >= pattern.dead)
  <2>1. /\ start.left = due.since + pattern.dead - l /\ start.actual = 1 - start.command
    BY <1>3, <1>5 DEF LegDue
  <2>2. start.left > 0 /\ start.left # 0
    BY <1>1, <1>5, <2>1
  <2>3. CASE Clamp(sign, start.command) = start.command
    BY <1>2, <2>2, <2>3
  <2>4. CASE Clamp(sign, start.command) # start.command
    <3>1. Clamp(sign, start.command) = 1 - start.command
      BY <1>3, <2>4, Clamped
    <3> QED  BY <1>1, <1>2, <1>5, <2>1, <2>2, <2>4, <3>1
  <2> QED  BY <2>3, <2>4
<1> QED
  BY <1>1, <1>4, <1>5

\* A leg at one tick is ready for the next.
LEMMA LegWasIs ==
    ASSUME NEW pattern \in Pattern, pattern.dead > 0, NEW l \in Int, NEW sign,
           NEW x \in Nat, x >= 1, NEW c, NEW at, LegIs(pattern, c, at, l, sign, x - 1)
    PROVE  LegWas(pattern, c, at, l, sign, x)
<1>1. /\ pattern.dead \in Nat /\ at.since \in Int /\ at.freed \in BOOLEAN
      /\ IsLeg(c) /\ c.command = at.command /\ c.command \in {0, 1}
      /\ Clamp(sign, c.command) = c.command => at.freed
  BY DEF Pattern, LegIs
<1>2. CASE at.freed \/ l + (x - 1) - at.since >= pattern.dead
  <2>1. c.due = 0 /\ c.actual = c.command
    BY <1>2 DEF LegIs
  <2>2. at.freed \/ l + x - at.since >= pattern.dead
    BY <1>1, <1>2
  <2> QED  BY <1>1, <2>1, <2>2 DEF LegWas
<1>3. CASE ~at.freed /\ ~(l + (x - 1) - at.since >= pattern.dead)
  <2>1. /\ c.due = at.since + pattern.dead - l /\ c.due > 0
        /\ c.actual = Clamp(sign, c.command)
    BY <1>3 DEF LegIs
  <2>2. c.due >= x
    BY <1>1, <1>3, <2>1
  <2> QED  BY <1>1, <1>3, <2>1, <2>2 DEF LegWas
<1> QED
  BY <1>1, <1>2, <1>3

\* A leg keeps its dead time through an interval.
LEMMA LegKeepsDeadTime ==
    ASSUME NEW pattern \in Pattern, pattern.dead > 0, NEW l \in Int, NEW sign,
           NEW span \in Nat, span >= 1, NEW interval, NEW leg \in Legs(pattern),
           interval.commanded \in [0 .. span - 1 -> Words(pattern)],
           NEW start, NEW due, LegDue(pattern, start, due, l),
           NEW c, Steps(pattern, interval.commanded, leg, start, sign, c, span)
    PROVE  \A x \in 0 .. span - 1 :
              LegIs(pattern, c[x], LegOwed(l, due, interval, leg, sign, x), l, sign, x)
<1> DEFINE owes(x) == LegOwed(l, due, interval, leg, sign, x)
           Other == {x \in Nat : x <= span - 1 /\ ~LegIs(pattern, c[x], owes(x), l, sign, x)}
<1>1. SUFFICES ASSUME Other # {} PROVE FALSE
  OBVIOUS
<1>2. PICK x \in Other : \A y \in Other : x <= y
  <2>1. Other \subseteq Nat
    OBVIOUS
  <2> HIDE DEF Other
  <2> QED  BY <1>1, <2>1, LeastNumber
<1>3. /\ x \in Nat /\ x \in 0 .. span - 1 /\ x \in -1 .. span - 1
      /\ ~LegIs(pattern, c[x], owes(x), l, sign, x)
  BY <1>2
<1> DEFINE target == interval.commanded[x][leg]
           before == OwedBefore(l, due, interval, leg, sign, x)
<1>4. target \in {0, 1}
  BY <1>3 DEF Words
<1>5. c[x] = LegStep(pattern, c[x - 1], target, sign, x)
  BY <1>3 DEF Steps
<1>6. LegWas(pattern, c[x - 1], before, l, sign, x)
  <2>1. CASE x = 0
    <3>1. -1 \in -1 .. span - 1 /\ x - 1 = -1
      BY <2>1
    <3>2. c[-1] = Pending(start, sign)
      BY <3>1 DEF Steps
    <3>3. before = due
      BY <2>1 DEF OwedBefore
    <3> QED  BY <2>1, <3>1, <3>2, <3>3, PendingIsDue
  <2>2. CASE x # 0
    <3>1. x - 1 \in Nat /\ ~(x <= x - 1) /\ x - 1 <= span - 1 /\ x >= 1
      BY <1>3, <2>2
    <3>2. LegIs(pattern, c[x - 1], owes(x - 1), l, sign, x - 1)
      BY <1>2, <3>1
    <3>3. before = owes(x - 1)
      BY <2>2 DEF OwedBefore
    <3> QED  BY <3>1, <3>2, <3>3, LegWasIs
  <2> QED  BY <2>1, <2>2
<1>7. /\ owes(x).command = target /\ owes(x).freed \in BOOLEAN
      /\ target # before.command =>
            /\ owes(x).since = l + x
            /\ owes(x).freed <=> Clamp(sign, target) = target
      /\ target = before.command =>
            /\ owes(x).since = before.since
            /\ owes(x).freed <=> Clamp(sign, target) = target \/ before.freed
  BY <1>3, LegOwedStep
<1> HIDE DEF owes, target, before
<1>8. LegIs(pattern, LegStep(pattern, c[x - 1], target, sign, x), owes(x), l, sign, x)
  BY <1>3, <1>4, <1>6, <1>7, LegStepKeeps
<1> QED
  BY <1>3, <1>5, <1>8

\* The output a leg owes at every tick of the interval.
LegFollows(pattern, actual, span, l, due, interval, leg, sign) ==
    \A x \in 0 .. span - 1 :
        LET at == LegOwed(l, due, interval, leg, sign, x)
        IN  actual[x] = IF at.freed \/ l + x - at.since >= pattern.dead
                        THEN at.command ELSE Clamp(sign, at.command)

\* What a leg leaves to the next interval is what it owes to it.
LEMMA LegIsHandedOver ==
    ASSUME NEW pattern \in Pattern, pattern.dead > 0, NEW l \in Int, NEW sign,
           NEW span \in Nat, span >= 1, NEW interval, NEW leg \in Legs(pattern),
           interval.commanded \in [0 .. span - 1 -> Words(pattern)],
           NEW start, NEW due, LegDue(pattern, start, due, l)
    PROVE  LET course == LegCourse(pattern, span, interval.commanded, leg, start, sign)
           IN  /\ LegDue(pattern, course.next,
                         LegOwed(l, due, interval, leg, sign, span - 1), l + span)
               /\ LegFollows(pattern, course.actual, span, l, due, interval, leg, sign)
<1> DEFINE course == LegCourse(pattern, span, interval.commanded, leg, start, sign)
           owes(x) == LegOwed(l, due, interval, leg, sign, x)
<1>0. span \in Nat
  OBVIOUS
<1>1. PICK c : /\ Steps(pattern, interval.commanded, leg, start, sign, c, span)
              /\ course = CourseOf(pattern, sign, c, span)
  <2> DEFINE words == interval.commanded
  <2>1. course = LegCourse(pattern, span, words, leg, start, sign)
    OBVIOUS
  <2> HIDE DEF words, course
  <2>2. \E c : /\ Steps(pattern, words, leg, start, sign, c, span)
               /\ LegCourse(pattern, span, words, leg, start, sign) = CourseOf(pattern, sign, c, span)
    BY <1>0, CourseIsSteps
  <2> QED  BY <2>1, <2>2, Zenon DEF words
<1>2. \A x \in 0 .. span - 1 : LegIs(pattern, c[x], owes(x), l, sign, x)
  BY <1>1, LegKeepsDeadTime
<1> DEFINE last == LegStep(pattern, c[span - 1], c[span - 1].command, sign, span)
           at == owes(span - 1)
<1> HIDE DEF course, owes
<1>3. ASSUME NEW x \in 0 .. span - 1
      PROVE  course.actual[x] =
                IF owes(x).freed \/ l + x - owes(x).since >= pattern.dead
                THEN owes(x).command ELSE Clamp(sign, owes(x).command)
  <2>1. course.actual[x] = c[x].actual
    BY <1>1 DEF CourseOf
  <2> QED  BY <1>2, <2>1 DEF LegIs
<1>4. /\ pattern.dead \in Nat
      /\ LegIs(pattern, c[span - 1], at, l, sign, span - 1)
  BY <1>2 DEF Pattern
<1>5. LegWas(pattern, c[span - 1], at, l, sign, span)
  BY <1>4, LegWasIs
<1>6. /\ c[span - 1].command = at.command /\ at.command \in {0, 1}
      /\ at.freed \in BOOLEAN /\ at.since \in Int
      /\ Clamp(sign, at.command) = at.command => at.freed
  BY <1>4 DEF LegIs
<1>7. LegIs(pattern, last, at, l, sign, span)
  BY <1>5, <1>6, LegStepKeeps
<1>8. /\ course.next.actual = last.actual /\ course.next.command = last.command
      /\ course.next.left = IF last.due = 0 THEN 0 ELSE last.due - span
  BY <1>1 DEF CourseOf
<1> HIDE DEF last, at
<1>9. LegDue(pattern, course.next, at, l + span)
  <2>1. last.command = at.command
    BY <1>7 DEF LegIs
  <2>2. CASE at.freed \/ l + span - at.since >= pattern.dead
    <3>1. last.due = 0 /\ last.actual = last.command
      BY <1>7, <2>2 DEF LegIs
    <3> QED  BY <1>6, <1>8, <2>1, <2>2, <3>1 DEF LegDue
  <2>3. CASE ~at.freed /\ ~(l + span - at.since >= pattern.dead)
    <3>1. /\ last.due = at.since + pattern.dead - l /\ last.due > 0
          /\ last.actual = Clamp(sign, last.command)
      BY <1>7, <2>3 DEF LegIs
    <3>2. last.actual = 1 - last.command
      BY <1>6, <2>1, <2>3, <3>1, Clamped
    <3>3. course.next.left = at.since + pattern.dead - (l + span)
      BY <1>4, <1>6, <1>8, <3>1
    <3> QED  BY <1>6, <1>8, <2>1, <2>3, <3>2, <3>3 DEF LegDue
  <2> QED  BY <2>2, <2>3, <1>6
<1> QED
  BY <1>3, <1>9 DEF course, owes, at, LegFollows
\* A leg that takes its course keeps the dead time it owes.
LEMMA LegIsKept ==
    ASSUME NEW pattern \in Pattern, pattern.dead > 0, NEW l \in Int, NEW sign,
           NEW span \in Nat, span >= 1, NEW interval, NEW leg \in Legs(pattern),
           interval.commanded \in [0 .. span - 1 -> Words(pattern)],
           NEW start, NEW due, LegDue(pattern, start, due, l),
           \A x \in 0 .. span - 1 : interval.words[x][leg] =
              LegCourse(pattern, span, interval.commanded, leg, start, sign).actual[x]
    PROVE  KeepsDeadTime(pattern, span, l, due, interval, leg, sign)
<1> DEFINE course == LegCourse(pattern, span, interval.commanded, leg, start, sign)
<1>1. LegFollows(pattern, course.actual, span, l, due, interval, leg, sign)
  BY LegIsHandedOver
<1> HIDE DEF course
<1> QED
  BY <1>1 DEF KeepsDeadTime, LegFollows, course

\* An interval laid out: its pulses and its legs are those of PulseSequence and
\* _DeadTimeSequence, as far as the pattern has them.
LaidOutWell(pattern, span, command, before, sign, interval) ==
    LET whole == WholePulses(pattern, span, before.pulse, interval.raw)
    IN  /\ IsPeriodic(interval.raw, pattern, span)
        /\ interval.commanded \in [0 .. span - 1 -> Words(pattern)]
        /\ interval.next.pulse \in Remainder(pattern)
        /\ pattern.pulse /\ command.on =>
             interval.commanded = whole.words /\ interval.next.pulse = whole.next
        /\ pattern.pulse /\ ~command.on => interval.next.pulse.left = 0
        /\ pattern.dead > 0 /\ ~command.on => interval.next.legs = Blocked(pattern)
        /\ pattern.dead > 0 /\ command.on =>
             \A leg \in Legs(pattern) :
                LET course == LegCourse(pattern, span, interval.commanded, leg,
                                        before.legs[leg], LegSign(sign, leg))
                IN  /\ interval.next.legs[leg] = course.next
                    /\ \A x \in 0 .. span - 1 :
                          interval.words[x][leg] = course.actual[x]

\* Every interval is laid out in this way.
LEMMA LaidOutParts ==
    ASSUME NEW pattern \in Pattern, NEW span \in Nat, span >= 1,
           NEW command \in Command, NEW shift \in Int, NEW l \in Int,
           NEW before, before.pulse \in Remainder(pattern), NEW sign, NEW interval,
           interval = LaidOut(pattern, span, before, sign, command, shift, l)
    PROVE  LaidOutWell(pattern, span, command, before, sign, interval)
<1> DEFINE raw == Raw(pattern, span, command, shift, l)
           plain == [words |-> [x \in 0 .. span - 1 |-> raw[x]], next |-> before.pulse]
           silent == [words |-> [x \in 0 .. span - 1 |-> Zeros(pattern)],
                      next |-> Fresh(pattern).pulse]
           whole == WholePulses(pattern, span, before.pulse, raw)
           pulsed == IF ~pattern.pulse THEN plain
                     ELSE IF ~command.on THEN silent ELSE whole
           course(leg) == LegCourse(pattern, span, pulsed.words, leg,
                                    before.legs[leg], LegSign(sign, leg))
           undelayed == [raw |-> raw, commanded |-> pulsed.words, words |-> pulsed.words,
              next |-> [pulse |-> pulsed.next, legs |-> before.legs]]
           blocked == [raw |-> raw, commanded |-> pulsed.words, words |-> silent.words,
              next |-> [pulse |-> pulsed.next, legs |-> Blocked(pattern)]]
           delayed == [raw |-> raw, commanded |-> pulsed.words,
              words |-> [x \in 0 .. span - 1 |->
                            [leg \in Legs(pattern) |-> course(leg).actual[x]]],
              next |-> [pulse |-> pulsed.next,
                        legs |-> [leg \in Legs(pattern) |-> course(leg).next]]]
<1>1. interval = IF pattern.dead = 0 THEN undelayed
                 ELSE IF ~command.on THEN blocked ELSE delayed
  BY DEF LaidOut
<1>2. IsPeriodic(raw, pattern, span)
  BY RawFacts DEF IsPeriodic
<1>3. \A x \in 0 .. span - 1 : raw[x] \in Words(pattern)
  BY <1>2 DEF IsPeriodic
<1>4. /\ Fresh(pattern).pulse = [word |-> Zeros(pattern), left |-> 0]
      /\ Fresh(pattern).pulse \in Remainder(pattern) /\ Zeros(pattern) \in Words(pattern)
  BY WordsOfPattern DEF Fresh, Remainder
<1> HIDE DEF raw
<1>5. /\ plain.words \in [0 .. span - 1 -> Words(pattern)]
      /\ plain.next \in Remainder(pattern)
  BY <1>3
<1>6. /\ silent.words \in [0 .. span - 1 -> Words(pattern)]
      /\ silent.next \in Remainder(pattern) /\ silent.next.left = 0
  BY <1>4
<1>7. /\ whole.words \in [0 .. span - 1 -> Words(pattern)]
      /\ whole.next \in Remainder(pattern)
  BY <1>2, WholePulsesTypes
<1> HIDE DEF plain, silent, whole
<1>8. /\ pulsed.words \in [0 .. span - 1 -> Words(pattern)]
      /\ pulsed.next \in Remainder(pattern)
      /\ pattern.pulse /\ command.on => pulsed = whole
      /\ pattern.pulse /\ ~command.on => pulsed = silent
  BY <1>5, <1>6, <1>7
<1> HIDE DEF pulsed, course, undelayed, blocked, delayed
<1>9. /\ interval.raw = raw /\ interval.commanded = pulsed.words
      /\ interval.next.pulse = pulsed.next
  BY <1>1 DEF undelayed, blocked, delayed
<1>10. pattern.dead > 0 => pattern.dead # 0
  BY DEF Pattern
<1>11. pattern.dead > 0 /\ ~command.on => interval.next.legs = Blocked(pattern)
  BY <1>1, <1>10 DEF blocked
<1>12. pattern.dead > 0 /\ command.on => interval = delayed
  BY <1>1, <1>10
<1>13. ASSUME pattern.dead > 0, command.on, NEW leg \in Legs(pattern)
       PROVE  /\ interval.next.legs[leg] = course(leg).next
              /\ \A x \in 0 .. span - 1 : interval.words[x][leg] = course(leg).actual[x]
  BY <1>12, <1>13 DEF delayed
<1>14. \A leg : course(leg) = LegCourse(pattern, span, interval.commanded, leg,
                                before.legs[leg], LegSign(sign, leg))
  BY <1>9 DEF course
<1>15. WholePulses(pattern, span, before.pulse, interval.raw) = whole
  BY <1>9 DEF whole
<1>16. pattern.pulse /\ command.on =>
          interval.commanded = whole.words /\ interval.next.pulse = whole.next
  BY <1>8, <1>9
<1>17. pattern.pulse /\ ~command.on => interval.next.pulse.left = 0
  BY <1>6, <1>8, <1>9
<1>18. /\ IsPeriodic(interval.raw, pattern, span)
       /\ interval.commanded \in [0 .. span - 1 -> Words(pattern)]
       /\ interval.next.pulse \in Remainder(pattern)
  BY <1>2, <1>8, <1>9
<1>19. ASSUME pattern.dead > 0, command.on, NEW leg \in Legs(pattern)
       PROVE  LET c == LegCourse(pattern, span, interval.commanded, leg,
                                 before.legs[leg], LegSign(sign, leg))
              IN  /\ interval.next.legs[leg] = c.next
                  /\ \A x \in 0 .. span - 1 : interval.words[x][leg] = c.actual[x]
  BY <1>13, <1>14, <1>19
<1> QED
  BY <1>11, <1>15, <1>16, <1>17, <1>18, <1>19 DEF LaidOutWell

----------------------------------------------------------------------------
(***************************************************************************)
(* The invariant.                                                          *)
(***************************************************************************)
\* A fresh run begins with nothing owed.
LEMMA MemoryInit ==
    ASSUME Init
    PROVE  MemoryIsOwed
<1> DEFINE pattern == timing.pattern
           l == LoadAt(j - 1)
<1>1. timing \in Timings /\ pattern \in Pattern /\ now \in Nat
  BY TimingAssumption DEF Init, Timing
<1>2. l \in Int
  <2>1. timing.loads \in Clock /\ j \in Int
    BY <1>1, TimingFacts, IndexAtOrAfterSpec DEF Init, StartIndex
  <2> QED  BY <2>1, ClockStep DEF LoadAt
<1>3. /\ memory.pulse = [word |-> Zeros(pattern), left |-> 0]
      /\ memory.legs = Blocked(pattern)
      /\ owed.pulses = {NoPulse(pattern, l)}
      /\ owed.legs = [leg \in Legs(pattern) |->
                        [command |-> -1, since |-> now, freed |-> TRUE]]
  BY DEF Init, Fresh
<1>4. memory.pulse \in Remainder(pattern)
  BY <1>1, <1>3, WordsOfPattern DEF Remainder
<1>5. PulseDue(memory.pulse, NoPulse(pattern, l), l)
  BY <1>2, <1>3 DEF PulseDue, NoPulse
<1>6. ASSUME NEW leg \in Legs(pattern)
      PROVE  LegDue(pattern, memory.legs[leg], owed.legs[leg], l)
  <2>1. memory.legs[leg] = [actual |-> 0, command |-> -1, left |-> 0]
    BY <1>3 DEF Blocked
  <2>2. owed.legs[leg] = [command |-> -1, since |-> now, freed |-> TRUE]
    BY <1>3
  <2> QED  BY <1>1, <2>1, <2>2 DEF LegDue
<1> HIDE DEF pattern, l
<1> QED
  BY <1>3, <1>4, <1>5, <1>6 DEF MemoryIsOwed, pattern, l

\* A fresh run starts in the invariant.
LEMMA InitInv ==
    ASSUME Init
    PROVE  IndInv
<1>1. /\ timing \in Timings /\ now \in Nat /\ now \in Int
      /\ timing.control \in Clock /\ timing.loads \in Clock
  BY TimingAssumption, TimingFacts DEF Init
<1>2. /\ k = IndexAtOrAfter(timing.control, now)
      /\ j = IndexAtOrAfter(timing.loads, now)
  BY DEF Init, StartIndex
<1>3. /\ k \in Int /\ j \in Int
      /\ InterruptAt(k - 1) < now /\ now <= InterruptAt(k)
      /\ LoadAt(j - 1) < now /\ now <= LoadAt(j)
  BY <1>1, <1>2, IndexAtOrAfterSpec DEF InterruptAt, LoadAt
<1>4. /\ first = k /\ first \in Int
      /\ active = Word(Neutral, k - 1) /\ shadow = active /\ completed = active
  BY <1>3 DEF Init
<1>5. IsWord(active) /\ active.stamp = k - 1
  BY <1>3, <1>4, CommandAssumption DEF IsWord, Word
<1>6. LoadAt(j - 1) \in Int /\ LoadAt(j) \in Int
      /\ InterruptAt(k - 1) \in Int /\ InterruptAt(k) \in Int
  BY <1>1, <1>3, ClockStep DEF LoadAt, InterruptAt
<1>7. TypeOK
  <2>1. schedule = Edges(laid.words, LoadAt(j - 1), now)
    BY DEF Init
  <2>2. schedule \subseteq Int
    BY <1>1, <1>6, <2>1, EdgesAreInstants
  <2>3. sync \in Phases /\ carrier \in Phases
    BY DEF Init
  <2> QED  BY <1>1, <1>3, <1>4, <1>5, <2>2, <2>3 DEF TypeOK
<1>8. TimerOK
  BY <1>1, <1>3, <1>4, <1>6 DEF TimerOK
<1>9. RegistersOK /\ ActiveIsNewest
  BY <1>3, <1>4, <1>5, <1>8 DEF RegistersOK, ActiveIsNewest
<1>10. EdgesAhead
  BY <1>1, <1>6 DEF Init, EdgesAhead, Edges
<1>11. OneWordPerStamp
  BY <1>4 DEF OneWordPerStamp
<1>12. OutputFollowsActive
  BY <1>4 DEF Init, OutputFollowsActive, Word
<1> QED
  BY <1>7, <1>9, <1>10, <1>11, <1>12, MemoryInit DEF IndInv

\* What the present state says about the instants around it.
LEMMA TimerFacts ==
    ASSUME IndInv
    PROVE  /\ k \in Int /\ j \in Int /\ first \in Int /\ first <= k /\ now \in Int
           /\ InterruptAt(k) \in Int /\ LoadAt(j) \in Int
           /\ InterruptAt(k - 1) \in Int /\ LoadAt(j - 1) \in Int
           /\ InterruptAt(k - 1) <= now /\ now <= InterruptAt(k)
           /\ LoadAt(j - 1) <= now /\ now <= LoadAt(j)
           /\ InterruptAt(k - 1) < LoadAt(j) /\ LoadAt(j - 1) < InterruptAt(k)
           /\ InterruptAt(k + 1) \in Int /\ InterruptAt(k) < InterruptAt(k + 1)
           /\ LoadAt(j + 1) \in Int /\ LoadAt(j) < LoadAt(j + 1)
           /\ k + 1 - 1 = k /\ j + 1 - 1 = j
<1>1. k \in Int /\ j \in Int /\ first \in Int /\ now \in Int
  BY DEF IndInv, TypeOK
<1>2. /\ InterruptAt(k) \in Int /\ InterruptAt(k - 1) \in Int
      /\ InterruptAt(k + 1) = InterruptAt(k) + timing.control.period
      /\ timing.control.period \in Nat /\ timing.control.period >= 1
      /\ timing.loads.period \in Nat /\ timing.loads.period >= 1
  <2>1. timing \in Timings /\ timing.control \in Clock
    BY TimingFacts DEF IndInv, TypeOK
  <2> QED  BY <1>1, <2>1, ClockStep, TimingFacts DEF InterruptAt
<1>3. /\ LoadAt(j) \in Int /\ LoadAt(j - 1) \in Int
      /\ LoadAt(j + 1) = LoadAt(j) + timing.loads.period
  <2>1. timing.loads \in Clock
    BY TimingFacts DEF IndInv, TypeOK
  <2> QED  BY <1>1, <2>1, ClockStep DEF LoadAt
<1>4. RegistersOK /\ TimerOK
  BY DEF IndInv, RegistersOK
<1> QED
  BY <1>1, <1>2, <1>3, <1>4 DEF TimerOK

\* Continuing a run finds the timer where it was (PWM.start).
LEMMA ContinueKeepsTimer ==
    ASSUME IndInv, NEW t \in 0 .. Horizon, Continue(t)
    PROVE  k' = k /\ j' = j
<1>1. /\ t \in Int /\ now <= t /\ t < InterruptAt(k) /\ t < LoadAt(j)
      /\ k' = IndexAfter(timing.control, t) /\ j' = IndexAfter(timing.loads, t)
  BY TimingAssumption DEF Continue, StartIndex
<1>2. InterruptAt(k - 1) <= t /\ LoadAt(j - 1) <= t
  BY <1>1, TimerFacts
<1>3. timing.control \in Clock /\ timing.loads \in Clock /\ k \in Int /\ j \in Int
  BY TimingFacts DEF IndInv, TypeOK
<1>4. IndexAfter(timing.control, t) = k
  BY <1>1, <1>2, <1>3, IndexAfterUnique DEF InterruptAt
<1>5. IndexAfter(timing.loads, t) = j
  BY <1>1, <1>2, <1>3, IndexAfterUnique DEF LoadAt
<1> QED
  BY <1>1, <1>4, <1>5

\* The word a continued run takes for the completed one is that word, whenever
\* a load still needs it: validate.py _initial refuses the other instants.
LEMMA ContinueRestoresCompleted ==
    ASSUME IndInv, NEW t \in 0 .. Horizon, Continue(t),
           CompleteAt(k - 1) > LoadAt(j)
    PROVE  active.stamp = IF k = first THEN k - 1 ELSE k - 2
<1> DEFINE a == active.stamp
<1>1. /\ k \in Int /\ j \in Int /\ first \in Int /\ first <= k /\ a \in Int
      /\ first - 1 <= a /\ a < k
      /\ a >= first => CompleteAt(a) <= LoadAt(j - 1)
      /\ a + 1 < k => CompleteAt(a + 1) > LoadAt(j - 1)
  BY DEF IndInv, TypeOK, IsWord, ActiveIsNewest, RegistersOK, TimerOK
<1>2. CompleteAt(k - 2) <= LoadAt(j - 1)
  <2>1. /\ IndexAfter(timing.control, t) = k
        /\ IndexAfter(timing.loads, t) = j
    BY ContinueKeepsTimer DEF Continue, StartIndex
  <2>2. ~ (CompleteAt(k - 1) > LoadAt(j) /\ CompleteAt(k - 2) > LoadAt(j - 1))
    BY <2>1 DEF Continue, Continuable
  <2>3. CompleteAt(k - 2) \in Int /\ LoadAt(j - 1) \in Int
    <3>1. k - 2 \in Int /\ j - 1 \in Int
      BY <1>1
    <3> QED  BY <3>1, CompletionOrder, TimerFacts DEF IndInv
  <2> QED  BY <2>2, <2>3
<1>5. /\ LoadAt(j - 1) \in Int /\ LoadAt(j) \in Int
      /\ LoadAt(j - 1) <= LoadAt(j)
      /\ CompleteAt(k - 1) > LoadAt(j)
  BY TimerFacts
<1>3. CASE k = first
  BY <1>1, <1>3
<1> HIDE DEF a
<1>4. CASE k # first
  <2>1. a # k - 1
    <3> SUFFICES ASSUME a = k - 1 PROVE FALSE
      OBVIOUS
    <3>1. CompleteAt(k - 1) <= LoadAt(j - 1)
      BY <1>1, <1>4
    <3>2. CompleteAt(k - 1) \in Int
      <4>1. k - 1 \in Int
        BY <1>1
      <4> QED  BY <4>1, CompletionOrder DEF IndInv
    <3> QED  BY <3>1, <3>2, <1>5
  <2>2. ~ (a < k - 2)
    <3> SUFFICES ASSUME a < k - 2 PROVE FALSE
      OBVIOUS
    <3>1. CompleteAt(a + 1) > LoadAt(j - 1)
      BY <1>1
    <3>2. a + 1 \in Int /\ k - 2 \in Int /\ (a + 1 = k - 2 \/ a + 1 < k - 2)
      BY <1>1
    <3>3. CompleteAt(a + 1) \in Int /\ CompleteAt(k - 2) \in Int
      BY <3>2, CompletionOrder DEF IndInv
    <3>4. CompleteAt(a + 1) <= CompleteAt(k - 2)
      <4>1. a + 1 <= k - 2
        BY <3>2
      <4> QED  BY <4>1, <3>2, CompletionOrder DEF IndInv
    <3> QED  BY <3>1, <3>3, <3>4, <1>2, <1>5
  <2> QED  BY <2>1, <2>2, <1>1, <1>4 DEF a
<1> QED
  BY <1>3, <1>4 DEF a

\* An interrupt between two loads replaces the shadow word only.
LEMMA InterruptInv ==
    ASSUME IndInv, NEW t \in 0 .. Horizon, NEW c \in Commands, NEW p \in Phases,
           Interrupt(t, c, p)
    PROVE  RegistersOK' /\ ActiveIsNewest'
<1>1. /\ t = InterruptAt(k) /\ t < LoadAt(j)
      /\ now' = t /\ k' = k + 1 /\ completed' = shadow /\ shadow' = Word(c, k)
      /\ UNCHANGED <<timing, j, active, first>>
  <2>1. t <= LoadAt(j) /\ t # LoadAt(j) /\ t = InterruptAt(k)
    BY DEF Interrupt, Reach, IsNext, InterruptDue, LoadDue
  <2>2. t \in Int /\ LoadAt(j) \in Int
    BY TimerFacts
  <2> QED  BY <2>1, <2>2 DEF Interrupt, Reach, Write
<1>2. /\ k \in Int /\ first \in Int /\ first <= k
      /\ IsWord(active) /\ shadow.stamp = k - 1 /\ Word(c, k).stamp = k
      /\ CompleteAt(k - 1) > LoadAt(j) =>
            completed.stamp = IF k = first THEN k - 1 ELSE k - 2
  BY DEF IndInv, TypeOK, RegistersOK, TimerOK, Word
<1>3. TimerOK'
  BY <1>1, TimerFacts DEF TimerOK, InterruptAt, LoadAt
<1>4. RegistersOK'
  BY <1>1, <1>2, <1>3, TimerFacts DEF RegistersOK
<1>5. CompleteAt(k) > LoadAt(j - 1)
  <2>1. timing.computation \in Nat
    BY TimingFacts DEF IndInv, TypeOK
  <2> QED  BY <2>1, TimerFacts DEF CompleteAt
<1>6. ActiveIsNewest'
  <2> DEFINE n == active.stamp
  <2>1. /\ n \in Int /\ first - 1 <= n /\ n < k
        /\ n >= first => CompleteAt(n) <= LoadAt(j - 1)
        /\ n + 1 < k => CompleteAt(n + 1) > LoadAt(j - 1)
    BY DEF IndInv, ActiveIsNewest, TypeOK, IsWord
  <2>2. n + 1 < k + 1 => CompleteAt(n + 1) > LoadAt(j - 1)
    <3>1. n + 1 = k \/ n + 1 < k
      BY <1>2, <2>1
    <3> QED  BY <3>1, <2>1, <1>5
  <2>3. n' = n /\ n < k + 1
    BY <1>1, <1>2, <2>1
  <2> QED
    BY <1>1, <2>1, <2>2, <2>3
    DEF ActiveIsNewest, CompleteAt, InterruptAt, LoadAt
<1> QED
  BY <1>4, <1>6

\* A load takes the newest completed word; the registers stay as they are.
LEMMA LoadInv ==
    ASSUME IndInv, NEW t \in 0 .. Horizon, LoadRegisters(t)
    PROVE  RegistersOK' /\ ActiveIsNewest'
<1> DEFINE w == Taken(k - 1, shadow, completed, t)
           n == w.stamp
<1>1. /\ t = LoadAt(j) /\ t < InterruptAt(k) /\ t \in Int
      /\ now' = t /\ j' = j + 1 /\ active' = w
      /\ UNCHANGED <<timing, k, shadow, completed, first>>
  <2>1. t <= InterruptAt(k) /\ t # InterruptAt(k) /\ t = LoadAt(j)
    BY DEF LoadRegisters, Reach, IsNext, InterruptDue, LoadDue
  <2>2. t \in Int /\ InterruptAt(k) \in Int
    BY TimerFacts
  <2> QED  BY <2>1, <2>2 DEF LoadRegisters, Reach, Load
<1>2. /\ IsWord(w) /\ first - 1 <= n /\ n < k
      /\ n >= first => CompleteAt(n) <= t
      /\ n + 1 < k => CompleteAt(n + 1) > t
  <2>1. t <= InterruptAt(k)
    BY <1>1, TimerFacts
  <2> QED  BY <1>1, <2>1, LoadTakesNewest
<1>3. /\ shadow.stamp = k - 1
      /\ CompleteAt(k - 1) > LoadAt(j) =>
            completed.stamp = IF k = first THEN k - 1 ELSE k - 2
  BY DEF IndInv, RegistersOK
<1>4. TimerOK'
  BY <1>1, TimerFacts DEF TimerOK, InterruptAt, LoadAt
<1>5. CompleteAt(k - 1) > LoadAt(j + 1) => CompleteAt(k - 1) > LoadAt(j)
  <2>1. CompleteAt(k - 1) \in Int
    BY TimerFacts, CompletionOrder DEF IndInv
  <2> QED  BY <2>1, TimerFacts
<1>6. RegistersOK'
  BY <1>1, <1>3, <1>4, <1>5
  DEF RegistersOK, CompleteAt, InterruptAt, LoadAt
<1>7. ActiveIsNewest'
  <2> HIDE DEF w
  <2>1. LoadAt(j - 1)' = t
    <3>1. timing' = timing /\ j' - 1 = j /\ LoadAt(j) = t
      BY <1>1, TimerFacts
    <3> QED  BY <3>1 DEF LoadAt
  <2>2. active'.stamp = n
    BY <1>1
  <2>3. /\ CompleteAt(active.stamp)' = CompleteAt(n)
        /\ CompleteAt(active.stamp + 1)' = CompleteAt(n + 1)
    BY <1>1, <2>2 DEF CompleteAt, InterruptAt
  <2> QED  BY <1>1, <1>2, <2>1, <2>2, <2>3 DEF ActiveIsNewest
<1> QED
  BY <1>6, <1>7

\* A word computed in no time is loaded at the interrupt that computes it.
LEMMA WriteThenLoadInv ==
    ASSUME IndInv, NEW t \in 0 .. Horizon, NEW c \in Commands, NEW p \in Phases,
           WriteThenLoad(t, c, p)
    PROVE  /\ RegistersOK' /\ ActiveIsNewest'
           /\ active'.stamp = k
<1>1. /\ t = LoadAt(j) /\ t = InterruptAt(k) /\ timing.computation = 0
      /\ now' = t /\ k' = k + 1 /\ j' = j + 1
      /\ active' = Taken(k, Word(c, k), shadow, t)
      /\ completed' = shadow /\ shadow' = Word(c, k)
      /\ UNCHANGED <<timing, first>>
  BY DEF WriteThenLoad, Reach, InterruptDue, LoadDue, Write, Load
<1>2. CompleteAt(k) = t /\ CompleteAt(k) <= t
  BY <1>1, TimerFacts DEF CompleteAt
<1>3. active' = Word(c, k) /\ active'.stamp = k /\ shadow'.stamp = k
  BY <1>1, <1>2 DEF Taken, Word
<1>4. TimerOK'
  <2>1. timing' = timing /\ k' = k + 1 /\ j' = j + 1 /\ k' - 1 = k /\ j' - 1 = j
    BY <1>1, TimerFacts
  <2>2. InterruptAt(k - 1)' = InterruptAt(k) /\ InterruptAt(k)' = InterruptAt(k + 1)
    BY <2>1 DEF InterruptAt
  <2>3. LoadAt(j - 1)' = LoadAt(j) /\ LoadAt(j)' = LoadAt(j + 1)
    BY <2>1 DEF LoadAt
  <2> QED  BY <1>1, <2>1, <2>2, <2>3, TimerFacts DEF TimerOK
<1>5. RegistersOK'
  <2>1. ~ (CompleteAt(k) > LoadAt(j + 1))
    BY <1>1, <1>2, TimerFacts
  <2>2. k' - 1 = k
    BY <1>1, TimerFacts
  <2>3. CompleteAt(k - 1)' = CompleteAt(k) /\ LoadAt(j)' = LoadAt(j + 1)
    BY <1>1, <2>2 DEF CompleteAt, InterruptAt, LoadAt
  <2> QED  BY <1>3, <1>4, <2>1, <2>2, <2>3 DEF RegistersOK
<1>6. ActiveIsNewest'
  <2>1. first - 1 <= k /\ k < k' /\ ~ (k + 1 < k')
    BY <1>1, TimerFacts
  <2>2. LoadAt(j - 1)' = t
    <3>1. timing' = timing /\ j' - 1 = j /\ LoadAt(j) = t
      BY <1>1, TimerFacts
    <3> QED  BY <3>1 DEF LoadAt
  <2>3. CompleteAt(active.stamp)' = CompleteAt(k)
    BY <1>1, <1>3 DEF CompleteAt, InterruptAt
  <2> QED  BY <1>1, <1>2, <1>3, <2>1, <2>2, <2>3 DEF ActiveIsNewest
<1> QED
  BY <1>3, <1>5, <1>6

\* A load that coincides with an interrupt whose computation takes time sees
\* the registers of the interrupt before.
LEMMA LoadThenWriteInv ==
    ASSUME IndInv, NEW t \in 0 .. Horizon, NEW c \in Commands, NEW p \in Phases,
           LoadThenWrite(t, c, p)
    PROVE  RegistersOK' /\ ActiveIsNewest'
<1> DEFINE w == Taken(k - 1, shadow, completed, t)
           n == w.stamp
<1>1. /\ t = LoadAt(j) /\ t = InterruptAt(k) /\ timing.computation > 0
      /\ now' = t /\ k' = k + 1 /\ j' = j + 1 /\ active' = w
      /\ completed' = shadow /\ shadow' = Word(c, k)
      /\ UNCHANGED <<timing, first>>
  BY DEF LoadThenWrite, Reach, InterruptDue, LoadDue, Write, Load
<1>2. /\ IsWord(w) /\ first - 1 <= n /\ n < k /\ n \in Int
      /\ n >= first => CompleteAt(n) <= t
      /\ n + 1 < k => CompleteAt(n + 1) > t
  <2>1. t <= InterruptAt(k) /\ t \in Int
    BY <1>1, TimerFacts
  <2> QED  BY <1>1, <2>1, LoadTakesNewest DEF IsWord
<1>3. shadow.stamp = k - 1 /\ shadow'.stamp = k
  BY <1>1 DEF IndInv, RegistersOK, Word
<1>4. TimerOK'
  <2>1. timing' = timing /\ k' = k + 1 /\ j' = j + 1 /\ k' - 1 = k /\ j' - 1 = j
    BY <1>1, TimerFacts
  <2>2. InterruptAt(k - 1)' = InterruptAt(k) /\ InterruptAt(k)' = InterruptAt(k + 1)
    BY <2>1 DEF InterruptAt
  <2>3. LoadAt(j - 1)' = LoadAt(j) /\ LoadAt(j)' = LoadAt(j + 1)
    BY <2>1 DEF LoadAt
  <2> QED  BY <1>1, <2>1, <2>2, <2>3, TimerFacts DEF TimerOK
<1>5. RegistersOK'
  <2>1. k' - 1 = k /\ k' # first' /\ k' - 2 = k - 1
    BY <1>1, TimerFacts
  <2> QED  BY <1>1, <1>3, <1>4, <2>1 DEF RegistersOK
<1>6. CompleteAt(k) > t
  <2>1. timing.computation \in Nat
    BY TimingFacts DEF IndInv, TypeOK
  <2> QED  BY <1>1, <2>1, TimerFacts DEF CompleteAt
<1>7. ActiveIsNewest'
  <2> HIDE DEF w
  <2>1. LoadAt(j - 1)' = t
    <3>1. timing' = timing /\ j' - 1 = j /\ LoadAt(j) = t
      BY <1>1, TimerFacts
    <3> QED  BY <3>1 DEF LoadAt
  <2>2. active'.stamp = n
    BY <1>1
  <2>3. /\ CompleteAt(active.stamp)' = CompleteAt(n)
        /\ CompleteAt(active.stamp + 1)' = CompleteAt(n + 1)
    BY <1>1, <2>2 DEF CompleteAt, InterruptAt
  <2>4. n < k' /\ (n + 1 = k \/ n + 1 < k)
    BY <1>1, <1>2, TimerFacts
  <2>5. CompleteAt(n + 1) > t
    BY <1>2, <1>6, <2>4
  <2> QED  BY <1>1, <1>2, <2>1, <2>2, <2>3, <2>4, <2>5 DEF ActiveIsNewest
<1> QED
  BY <1>5, <1>7

\* A continued run is in the invariant although the completed word is not
\* among the saved states.
LEMMA ContinueInv ==
    ASSUME IndInv, NEW t \in 0 .. Horizon, Continue(t)
    PROVE  RegistersOK' /\ ActiveIsNewest'
<1>1. /\ k' = k /\ j' = j /\ now' = t /\ t \in Int /\ now <= t
      /\ t < InterruptAt(k) /\ t < LoadAt(j) /\ completed' = active
      /\ UNCHANGED <<timing, active, shadow, first>>
  <2>1. t \in Int
    BY TimingAssumption
  <2>2. /\ now' = t /\ now <= t /\ t < InterruptAt(k) /\ t < LoadAt(j)
        /\ completed' = active /\ UNCHANGED <<timing, active, shadow, first>>
    BY DEF Continue
  <2> QED  BY <2>1, <2>2, ContinueKeepsTimer
<1>2. TimerOK'
  BY <1>1, TimerFacts DEF TimerOK, InterruptAt, LoadAt
<1>3. RegistersOK'
  <2>1. shadow.stamp = k - 1
    BY DEF IndInv, RegistersOK
  <2>2. CompleteAt(k - 1) > LoadAt(j) =>
           active.stamp = IF k = first THEN k - 1 ELSE k - 2
    BY ContinueRestoresCompleted
  <2> QED  BY <1>1, <1>2, <2>1, <2>2
           DEF RegistersOK, CompleteAt, InterruptAt, LoadAt
<1>4. ActiveIsNewest'
  BY <1>1 DEF IndInv, ActiveIsNewest, CompleteAt, InterruptAt, LoadAt
<1> QED
  BY <1>3, <1>4

\* The pending edges stay ahead of the clock.
LEMMA EdgesAheadPreserved ==
    ASSUME IndInv, Next
    PROVE  EdgesAhead'
<1>1. timing \in Timings /\ schedule \subseteq Int
  BY DEF IndInv, TypeOK
<1>2. ASSUME NEW t \in Int, NEW words, NEW l \in Int,
             now' = t, schedule' = Edges(words, l, t)
      PROVE  EdgesAhead'
  BY <1>2, <1>1, TimingFacts DEF EdgesAhead, Edges
<1>3. ASSUME NEW t \in Int, now' = t, schedule' = {x \in schedule : x > t}
      PROVE  EdgesAhead'
  BY <1>3, <1>1 DEF EdgesAhead
<1>4. ASSUME NEW t \in 0 .. Horizon, NEW c, NEW p,
             Interrupt(t, c, p) \/ SwitchingEdge(t)
      PROVE  EdgesAhead'
  BY <1>4, <1>3, TimingAssumption DEF Interrupt, SwitchingEdge, Reach, Switch
<1>5. ASSUME NEW t \in 0 .. Horizon, NEW c, NEW p,
             \/ LoadRegisters(t)
             \/ WriteThenLoad(t, c, p)
             \/ LoadThenWrite(t, c, p)
      PROVE  EdgesAhead'
  <2>1. \E word, angle : Load(word, angle, t)
    BY <1>5 DEF LoadRegisters, WriteThenLoad, LoadThenWrite
  <2>2. now' = t /\ t \in Int /\ LoadAt(j) \in Int
    BY <1>5, TimingAssumption, TimerFacts
    DEF LoadRegisters, WriteThenLoad, LoadThenWrite, Reach
  <2> QED  BY <2>1, <2>2, <1>2 DEF Load
<1>6. ASSUME NEW t \in 0 .. Horizon, Continue(t)
      PROVE  EdgesAhead'
  <2>1. now' = t /\ schedule' = Edges(laid'.words, LoadAt(j' - 1), t)
    BY <1>6 DEF Continue
  <2>2. t \in Int /\ LoadAt(j' - 1) \in Int
    BY <1>6, TimingAssumption, ContinueKeepsTimer, TimerFacts
  <2> QED  BY <2>1, <2>2, <1>2
<1> QED
  BY <1>4, <1>5, <1>6 DEF Next

\* The registers never mix the words of two interrupts.
LEMMA OneWordPerStampPreserved ==
    ASSUME IndInv, Next
    PROVE  OneWordPerStamp'
<1>1. /\ shadow.stamp = k - 1 /\ k \in Int
      /\ active.stamp < k /\ active.stamp \in Int
      /\ \A v, w \in {active, shadow, completed} : v.stamp = w.stamp => v = w
  BY DEF IndInv, RegistersOK, ActiveIsNewest, OneWordPerStamp, TypeOK, IsWord
<1>2. ASSUME active' \in {active, shadow, completed},
             shadow' = shadow, completed' \in {active, completed}
      PROVE  OneWordPerStamp'
  BY <1>1, <1>2 DEF OneWordPerStamp
<1>3. ASSUME NEW c, active' \in {active, shadow, completed, Word(c, k)},
             active'.stamp < k \/ active' = Word(c, k),
             shadow' = Word(c, k), completed' = shadow
      PROVE  OneWordPerStamp'
  <2>1. shadow'.stamp = k /\ completed'.stamp = k - 1
    BY <1>1, <1>3 DEF Word
  <2>2. active' = shadow' \/ (active' \in {active, shadow, completed} /\ active'.stamp # k)
    BY <1>1, <1>3
  <2>3. shadow'.stamp # completed'.stamp
    BY <2>1, <1>1
  <2>4. active'.stamp = completed'.stamp => active' = completed'
    BY <2>2, <2>3, <1>1, <1>3
  <2>5. active'.stamp = shadow'.stamp => active' = shadow'
    BY <2>1, <2>2
  <2> QED  BY <2>3, <2>4, <2>5 DEF OneWordPerStamp
<1>4. ASSUME NEW t \in 0 .. Horizon, NEW c \in Commands, NEW p \in Phases,
             Interrupt(t, c, p)
      PROVE  OneWordPerStamp'
  BY <1>1, <1>3, <1>4 DEF Interrupt, Write
<1>5. ASSUME NEW t \in 0 .. Horizon, NEW c \in Commands, NEW p \in Phases,
             WriteThenLoad(t, c, p)
      PROVE  OneWordPerStamp'
  <2>1. active' \in {shadow, Word(c, k)}
    BY <1>5 DEF WriteThenLoad, Load, Taken
  <2> QED  BY <2>1, <1>1, <1>3, <1>5 DEF WriteThenLoad, Write
<1>6. ASSUME NEW t \in 0 .. Horizon, NEW c \in Commands, NEW p \in Phases,
             LoadThenWrite(t, c, p)
      PROVE  OneWordPerStamp'
  <2>1. active' = Taken(k - 1, shadow, completed, t)
    BY <1>6 DEF LoadThenWrite, Load
  <2>2. active' \in {shadow, completed}
    BY <2>1 DEF Taken
  <2>3. active'.stamp < k
    <3>1. t = LoadAt(j) /\ t <= InterruptAt(k) /\ t \in Int
      BY <1>6, TimingAssumption
      DEF LoadThenWrite, Reach, IsNext, LoadDue
    <3> QED  BY <2>1, <3>1, LoadTakesNewest
  <2> QED  BY <2>2, <2>3, <1>3, <1>6 DEF LoadThenWrite, Write
<1>7. ASSUME NEW t \in 0 .. Horizon, LoadRegisters(t)
      PROVE  OneWordPerStamp'
  BY <1>2, <1>7 DEF LoadRegisters, Load, Taken
<1>8. ASSUME NEW t \in 0 .. Horizon, SwitchingEdge(t) \/ Continue(t)
      PROVE  OneWordPerStamp'
  BY <1>2, <1>8 DEF SwitchingEdge, Continue, registers
<1> QED
  BY <1>4, <1>5, <1>6, <1>7, <1>8 DEF Next

\* Between two edges of an interval the laid out words do not change.
LEMMA HeldBetweenEdges ==
    ASSUME timing \in Timings, NEW words, NEW l \in Int, NEW a \in Int, NEW b \in Int,
           l <= a, a <= b, b < l + timing.loads.period,
           \A x \in Edges(words, l, a) : b < x
    PROVE  Held(words, l, a) = Held(words, l, b)
<1>1. timing.loads.period \in Nat
  BY TimingFacts
<1>2. Held(words, l, a) = words[a - l] /\ Held(words, l, b) = words[b - l]
  BY <1>1 DEF Held
<1> DEFINE Other == {n \in Nat : n <= b - a /\ words[a + n - l] # words[a - l]}
<1>3. SUFFICES ASSUME words[b - l] # words[a - l] PROVE FALSE
  BY <1>2
<1>4. b - a \in Nat /\ a + (b - a) - l = b - l
  OBVIOUS
<1>5. b - a \in Other
  BY <1>3, <1>4
<1>6. PICK n \in Other : \A m \in Other : n <= m
  <2>1. Other \subseteq Nat /\ Other # {}
    BY <1>5
  <2> QED  BY <2>1, LeastNumber
<1>7. n \in Nat /\ n <= b - a /\ words[a + n - l] # words[a - l]
  BY <1>6
<1>8. n # 0
  <2>1. n = 0 => a + n - l = a - l
    OBVIOUS
  <2> QED  BY <2>1, <1>7
<1>9. n - 1 \in Nat /\ n - 1 <= b - a /\ ~(n <= n - 1)
  BY <1>7, <1>8
<1>10. words[a + (n - 1) - l] = words[a - l]
  BY <1>6, <1>9
<1>11. a + n - l - 1 = a + (n - 1) - l /\ a + n \in a + 1 .. l + timing.loads.period - 1
        /\ a + n <= b
  BY <1>7, <1>8, <1>1
<1>12. a + n \in Edges(words, l, a)
  BY <1>7, <1>10, <1>11 DEF Edges
<1> QED
  BY <1>7, <1>11, <1>12

\* The interval the bridge is in.
LEMMA IntervalFacts ==
    ASSUME IndInv
    PROVE  /\ timing \in Timings /\ timing.loads.period \in Nat
           /\ j \in Int /\ j + 1 - 1 = j /\ now \in Int /\ schedule \subseteq Int
           /\ LoadAt(j - 1) \in Int /\ LoadAt(j) \in Int
           /\ LoadAt(j - 1) + timing.loads.period = LoadAt(j)
           /\ LoadAt(j - 1) <= now /\ now <= LoadAt(j)
<1>1. TypeOK /\ timing \in Timings /\ schedule \subseteq Int /\ j \in Int
  BY DEF IndInv, TypeOK
<1>2. /\ timing.loads.period \in Nat
      /\ LoadAt(j) \in Int /\ LoadAt(j - 1) = LoadAt(j) - timing.loads.period
  BY <1>1, GridFacts
<1> QED
  BY <1>1, <1>2, TimerFacts

\* The bridge holds what its interval has at this instant, from one event to
\* the next and through a continued run.
LEMMA OutputPreserved ==
    ASSUME IndInv, Next
    PROVE  OutputFollowsActive'
<1> DEFINE l == LoadAt(j - 1)
<1>1. /\ timing \in Timings /\ timing' = timing /\ timing.loads.period \in Nat
      /\ j \in Int /\ j + 1 - 1 = j /\ now \in Int /\ schedule \subseteq Int
      /\ l \in Int /\ LoadAt(j) \in Int /\ l + timing.loads.period = LoadAt(j)
      /\ l <= now /\ now <= LoadAt(j)
  BY TimingFixed, IntervalFacts
<1>2. laid = Interval(memory, active.command, carrier, l)
  BY DEF IndInv, OutputFollowsActive
<1>3. ASSUME NEW t \in Int, now <= t, t < LoadAt(j), IsNext(t), Switch(t), now' = t,
             j' = j, active' = active
      PROVE  OutputFollowsActive'
  <2>1. /\ q = Held(laid.words, l, now) /\ schedule = Edges(laid.words, l, now)
    BY <1>1, <1>3 DEF IndInv, OutputFollowsActive
  <2>2. /\ laid' = laid /\ memory' = memory /\ carrier' = carrier
        /\ (LoadAt(j - 1))' = l
        /\ schedule' = {x \in schedule : x > t}
        /\ q' = IF t \in schedule THEN Held(laid.words, l, t) ELSE q
    BY <1>1, <1>3 DEF Switch, LoadAt
  <2>3. schedule' = Edges(laid.words, l, t)
    BY <1>1, <1>3, <2>1, <2>2 DEF Edges
  <2>4. q' = Held(laid.words, l, t)
    <3>1. CASE t \in schedule
      BY <2>2, <3>1
    <3>2. CASE t \notin schedule
      <4>1. \A x \in Edges(laid.words, l, now) : t < x
        BY <1>1, <1>3, <2>1, <3>2 DEF IsNext
      <4> QED  BY <1>1, <1>3, <2>1, <2>2, <3>2, <4>1, HeldBetweenEdges
    <3> QED  BY <3>1, <3>2
  <2> QED
    BY <1>1, <1>2, <1>3, <2>2, <2>3, <2>4
    DEF OutputFollowsActive, Interval, Edges, Held, LoadAt
<1>4. ASSUME NEW t \in 0 .. Horizon, NEW c, NEW p,
             Interrupt(t, c, p) \/ SwitchingEdge(t)
      PROVE  OutputFollowsActive'
  <2>1. /\ t \in Int /\ IsNext(t) /\ Switch(t) /\ now' = t /\ j' = j
        /\ active' = active /\ ~LoadDue(t) /\ (InterruptDue(t) \/ ~InterruptDue(t))
    BY <1>4, TimingAssumption DEF Interrupt, SwitchingEdge, Reach, registers
  <2>2. t < LoadAt(j)
    BY <1>1, <2>1 DEF IsNext, LoadDue
  <2>3. now <= t
    <3>1. t = InterruptAt(k) \/ t \in schedule
      BY <2>1 DEF IsNext, InterruptDue, LoadDue
    <3> QED  BY <1>1, <2>1, <3>1, TimerFacts DEF IndInv, EdgesAhead
  <2> QED  BY <2>1, <2>2, <2>3, <1>3
<1>5. ASSUME NEW t \in 0 .. Horizon, NEW c, NEW p,
             \/ LoadRegisters(t)
             \/ WriteThenLoad(t, c, p)
             \/ LoadThenWrite(t, c, p)
      PROVE  OutputFollowsActive'
  <2>1. PICK word, angle : Load(word, angle, t)
    BY <1>5 DEF LoadRegisters, WriteThenLoad, LoadThenWrite
  <2>2. now' = t /\ t = LoadAt(j)
    BY <1>5 DEF LoadRegisters, WriteThenLoad, LoadThenWrite, Reach, LoadDue
  <2>3. /\ active' = word /\ carrier' = angle /\ j' = j + 1
        /\ laid' = Interval(memory', word.command, angle, LoadAt(j))
        /\ schedule' = Edges(laid'.words, LoadAt(j), t)
        /\ q' = Held(laid'.words, LoadAt(j), t)
    BY <2>1 DEF Load
  <2>4. (LoadAt(j - 1))' = LoadAt(j)
    BY <1>1, <2>3 DEF LoadAt
  <2> QED
    BY <1>1, <2>2, <2>3, <2>4 DEF OutputFollowsActive, Interval, Edges, Held
<1>6. ASSUME NEW t \in 0 .. Horizon, Continue(t)
      PROVE  OutputFollowsActive'
  <2>1. /\ laid' = Interval(memory, active.command, carrier, LoadAt(j' - 1))
        /\ schedule' = Edges(laid'.words, LoadAt(j' - 1), t)
        /\ q' = Held(laid'.words, LoadAt(j' - 1), t)
        /\ now' = t /\ active' = active /\ carrier' = carrier /\ memory' = memory
    BY <1>6 DEF Continue
  <2>2. j' = j
    BY <1>6, ContinueKeepsTimer
  <2>3. (LoadAt(j - 1))' = LoadAt(j' - 1)
    BY <1>1, <2>2 DEF LoadAt
  <2> QED
    BY <1>1, <2>1, <2>2, <2>3 DEF OutputFollowsActive, Interval, Edges, Held
<1> QED
  BY <1>4, <1>5, <1>6 DEF Next

\* The interval the bridge is in.
LEMMA PresentInterval ==
    ASSUME IndInv
    PROVE  LET pattern == timing.pattern
               span == timing.loads.period
               l == LoadAt(j - 1)
           IN  /\ pattern \in Pattern /\ span \in Nat /\ span >= 1 /\ l \in Int
               /\ active.command \in Command /\ carrier \in Int
               /\ memory.pulse \in Remainder(pattern)
               /\ LaidOutWell(pattern, span, active.command, memory, memory.sign, laid)
<1>1. /\ timing \in Timings /\ active.command \in Commands /\ carrier \in Phases
  BY DEF IndInv, TypeOK, IsWord
<1>2. timing.pattern \in Pattern
  BY <1>1, TimingAssumption DEF Timing
<1>3. /\ timing.loads.period \in Nat /\ LoadAt(j - 1) \in Int
  BY IntervalFacts
<1>4. timing.loads.period >= 1
  BY <1>1, TimingFacts
<1>5. active.command \in Command /\ carrier \in Int
  BY <1>1, CommandAssumption
<1>6. laid = LaidOut(timing.pattern, timing.loads.period, memory, memory.sign,
                     active.command, carrier, LoadAt(j - 1))
  BY DEF IndInv, OutputFollowsActive, Interval
<1>7. memory.pulse \in Remainder(timing.pattern)
  BY DEF IndInv, MemoryIsOwed
<1>8. LaidOutWell(timing.pattern, timing.loads.period, active.command, memory,
                  memory.sign, laid)
  BY <1>2, <1>3, <1>4, <1>5, <1>6, <1>7, LaidOutParts
<1> QED
  BY <1>2, <1>3, <1>4, <1>5, <1>7, <1>8

\* What an interval leaves to the next one is what it owes to it.
LEMMA NextIsOwed ==
    ASSUME IndInv
    PROVE  LET pattern == timing.pattern
               end == LoadAt(j - 1) + timing.loads.period
           IN  /\ laid.next.pulse \in Remainder(pattern)
               /\ pattern.pulse =>
                    \E due \in OwedNext.pulses : PulseDue(laid.next.pulse, due, end)
               /\ pattern.dead > 0 =>
                    \A leg \in Legs(pattern) :
                       LegDue(pattern, laid.next.legs[leg], OwedNext.legs[leg], end)
<1> DEFINE pattern == timing.pattern
           span == timing.loads.period
           l == LoadAt(j - 1)
<1>1. /\ pattern \in Pattern /\ span \in Nat /\ span >= 1 /\ l \in Int
      /\ active.command \in Command /\ carrier \in Int
      /\ memory.pulse \in Remainder(pattern)
      /\ LaidOutWell(pattern, span, active.command, memory, memory.sign, laid)
  BY PresentInterval
<1>0. pattern = timing.pattern /\ span = timing.loads.period /\ l = LoadAt(j - 1)
  OBVIOUS
<1>4. OwedNext.pulses =
         IF pattern.pulse /\ active.command.on
         THEN PulsesOwed(pattern, span, l, owed.pulses, laid)
         ELSE {NoPulse(pattern, l + span)}
  BY DEF OwedNext
<1>5. ASSUME NEW leg \in Legs(pattern)
      PROVE  OwedNext.legs[leg] =
                IF active.command.on
                THEN LegOwed(l, owed.legs[leg], laid, leg,
                             LegSign(memory.sign, leg), span - 1)
                ELSE [command |-> -1, since |-> l, freed |-> TRUE]
  BY DEF OwedNext
<1> HIDE DEF pattern, span, l
<1> DEFINE whole == WholePulses(pattern, span, memory.pulse, laid.raw)
<1>2. /\ IsPeriodic(laid.raw, pattern, span)
      /\ laid.commanded \in [0 .. span - 1 -> Words(pattern)]
      /\ laid.next.pulse \in Remainder(pattern)
      /\ pattern.pulse /\ active.command.on =>
            laid.commanded = whole.words /\ laid.next.pulse = whole.next
      /\ pattern.pulse /\ ~active.command.on => laid.next.pulse.left = 0
      /\ pattern.dead > 0 /\ ~active.command.on => laid.next.legs = Blocked(pattern)
  BY <1>1 DEF LaidOutWell
<1>3. ASSUME pattern.dead > 0, active.command.on, NEW leg \in Legs(pattern)
      PROVE  laid.next.legs[leg] =
                LegCourse(pattern, span, laid.commanded, leg, memory.legs[leg],
                          LegSign(memory.sign, leg)).next
  BY <1>1, <1>3 DEF LaidOutWell
<1>6. ASSUME pattern.pulse
      PROVE  \E due \in OwedNext.pulses : PulseDue(laid.next.pulse, due, l + span)
  <2>1. CASE active.command.on
    <3>1. PICK due \in owed.pulses : PulseDue(memory.pulse, due, l)
      BY <1>6 DEF IndInv, MemoryIsOwed, pattern, l
    <3>2. \E d \in PulsesOwed(pattern, span, l, owed.pulses, laid) :
              PulseDue(whole.next, d, l + span)
      BY <1>1, <1>2, <1>6, <2>1, <3>1, PulseIsHandedOver
    <3> QED  BY <1>2, <1>4, <1>6, <2>1, <3>2
  <2>2. CASE ~active.command.on
    <3>1. PulseDue(laid.next.pulse, NoPulse(pattern, l + span), l + span)
      BY <1>1, <1>2, <1>6, <2>2 DEF PulseDue, NoPulse
    <3> QED  BY <1>4, <2>2, <3>1
  <2> QED  BY <2>1, <2>2
<1>7. ASSUME pattern.dead > 0, NEW leg \in Legs(pattern)
      PROVE  LegDue(pattern, laid.next.legs[leg], OwedNext.legs[leg], l + span)
  <2>1. CASE active.command.on
    <3>1. LegDue(pattern, memory.legs[leg], owed.legs[leg], l)
      BY <1>7 DEF IndInv, MemoryIsOwed, pattern, l
    <3>2. LegDue(pattern,
                 LegCourse(pattern, span, laid.commanded, leg, memory.legs[leg],
                           LegSign(memory.sign, leg)).next,
                 LegOwed(l, owed.legs[leg], laid, leg,
                         LegSign(memory.sign, leg), span - 1), l + span)
      BY <1>1, <1>2, <1>7, <3>1, LegIsHandedOver
    <3> QED  BY <1>3, <1>5, <1>7, <2>1, <3>2
  <2>2. CASE ~active.command.on
    <3>1. laid.next.legs[leg] = [actual |-> 0, command |-> -1, left |-> 0]
      BY <1>2, <1>7, <2>2 DEF Blocked
    <3>2. OwedNext.legs[leg] = [command |-> -1, since |-> l, freed |-> TRUE]
      BY <1>5, <2>2
    <3> QED  BY <1>1, <3>1, <3>2 DEF LegDue
  <2> QED  BY <2>1, <2>2
<1> QED
  BY <1>2, <1>6, <1>7 DEF pattern, span, l

\* The memory of every interval is what it owes, through loads and continued runs.
LEMMA MemoryPreserved ==
    ASSUME IndInv, Next
    PROVE  MemoryIsOwed'
<1>1. /\ timing' = timing /\ j \in Int /\ j + 1 - 1 = j
      /\ LoadAt(j - 1) + timing.loads.period = LoadAt(j)
  BY TimingFixed, IntervalFacts
<1>2. ASSUME j' = j, memory' = memory, owed' = owed
      PROVE  MemoryIsOwed'
  <2>1. MemoryIsOwed
    BY DEF IndInv
  <2>2. (LoadAt(j - 1))' = LoadAt(j - 1)
    BY <1>1, <1>2 DEF LoadAt
  <2> QED  BY <1>1, <1>2, <2>1, <2>2 DEF MemoryIsOwed
<1>3. ASSUME NEW word, NEW p, NEW t, Load(word, p, t)
      PROVE  MemoryIsOwed'
  <2>1. /\ j' = j + 1 /\ owed' = OwedNext
        /\ memory'.pulse = laid.next.pulse /\ memory'.legs = laid.next.legs
    BY <1>3 DEF Load, Remembered
  <2>2. (LoadAt(j - 1))' = LoadAt(j - 1) + timing.loads.period
    BY <1>1, <2>1 DEF LoadAt
  <2> QED  BY <1>1, <2>1, <2>2, NextIsOwed DEF MemoryIsOwed
<1>4. ASSUME NEW t \in 0 .. Horizon, NEW c, NEW p,
             \/ Interrupt(t, c, p) \/ SwitchingEdge(t)
      PROVE  MemoryIsOwed'
  BY <1>2, <1>4 DEF Interrupt, SwitchingEdge, Switch
<1>5. ASSUME NEW t \in 0 .. Horizon, NEW c, NEW p,
             \/ LoadRegisters(t) \/ WriteThenLoad(t, c, p) \/ LoadThenWrite(t, c, p)
      PROVE  MemoryIsOwed'
  BY <1>3, <1>5 DEF LoadRegisters, WriteThenLoad, LoadThenWrite
<1>6. ASSUME NEW t \in 0 .. Horizon, Continue(t)
      PROVE  MemoryIsOwed'
  <2>1. j' = j
    BY <1>6, ContinueKeepsTimer
  <2> QED  BY <1>2, <1>6, <2>1 DEF Continue
<1> QED
  BY <1>4, <1>5, <1>6 DEF Next

\* The invariant is inductive.
LEMMA InvPreserved ==
    ASSUME IndInv, [Next]_vars
    PROVE  IndInv'
<1>1. TypeOK'
  BY TypePreserved DEF IndInv
<1>2. ASSUME NEW t \in 0 .. Horizon, NEW c \in Commands, NEW p \in Phases,
             Interrupt(t, c, p) \/ WriteThenLoad(t, c, p) \/ LoadThenWrite(t, c, p)
      PROVE  RegistersOK' /\ ActiveIsNewest'
  BY <1>2, InterruptInv, WriteThenLoadInv, LoadThenWriteInv
<1>3. ASSUME NEW t \in 0 .. Horizon, SwitchingEdge(t)
      PROVE  RegistersOK' /\ ActiveIsNewest'
  <2>1. /\ now' = t /\ t <= InterruptAt(k) /\ t <= LoadAt(j)
        /\ t \in schedule
        /\ UNCHANGED <<timing, k, j, active, shadow, completed, first>>
    BY <1>3 DEF SwitchingEdge, Reach, IsNext, registers
  <2>2. now < t /\ t \in Int
    BY <2>1 DEF IndInv, EdgesAhead, TypeOK
  <2>3. TimerOK'
    BY <2>1, <2>2, TimerFacts DEF TimerOK, InterruptAt, LoadAt
  <2> QED  BY <2>1, <2>3
           DEF IndInv, RegistersOK, ActiveIsNewest, CompleteAt, InterruptAt, LoadAt
<1>4. ASSUME Next
      PROVE  RegistersOK' /\ ActiveIsNewest'
  BY <1>2, <1>3, <1>4, LoadInv, ContinueInv DEF Next
<1>5. CASE Next
  BY <1>1, <1>4, <1>5, EdgesAheadPreserved, OneWordPerStampPreserved,
     OutputPreserved, MemoryPreserved DEF IndInv
<1>6. CASE UNCHANGED vars
  BY <1>6 DEF vars, registers, bridge, IndInv, TypeOK, IsWord, RegistersOK,
     TimerOK, ActiveIsNewest, EdgesAhead, OneWordPerStamp, OutputFollowsActive,
     MemoryIsOwed, Interval, Edges, Held, CompleteAt, InterruptAt, LoadAt
<1> QED
  BY <1>5, <1>6

\* The registers keep IndInv in every run, for every timing, command and angle.
THEOREM Invariance == Spec => []IndInv
<1>1. Init => IndInv
  BY InitInv
<1>2. IndInv /\ [Next]_vars => IndInv'
  BY InvPreserved
<1> QED
  BY <1>1, <1>2, PTL DEF Spec

\* The variables keep their types (TypeOK).
THEOREM TypeCorrectness == Spec => []TypeOK
<1>1. IndInv => TypeOK
  BY DEF IndInv
<1> QED
  BY <1>1, Invariance, PTL

\* The active word is always the newest complete one at its load
\* (ActiveIsNewest): no load takes a running computation or a stale word.
THEOREM NewestWordIsActive == Spec => []ActiveIsNewest
<1>1. IndInv => ActiveIsNewest
  BY DEF IndInv
<1> QED
  BY <1>1, Invariance, PTL

\* A continued run lays out the interval of the stopped run again, and finds
\* the same state and the same pending edges in it (PWM.start).
LEMMA ContinueKeepsInterval ==
    ASSUME IndInv, NEW t \in 0 .. Horizon, Continue(t)
    PROVE  UNCHANGED <<schedule, q, laid>>
<1> DEFINE l == LoadAt(j - 1)
<1>1. /\ j' = j /\ t \in Int /\ now <= t /\ t < LoadAt(j)
      /\ \A x \in schedule : t < x
  <2>1. j' = j /\ t \in Int
    BY TimingAssumption, ContinueKeepsTimer
  <2>2. now <= t /\ t < LoadAt(j) /\ \A x \in schedule : t < x
    BY DEF Continue
  <2> QED  BY <2>1, <2>2
<1>2. /\ timing \in Timings /\ timing.loads.period \in Nat /\ now \in Int
      /\ l \in Int /\ LoadAt(j) \in Int /\ l + timing.loads.period = LoadAt(j)
      /\ l <= now /\ schedule \subseteq Int
  BY IntervalFacts
<1>3. /\ laid' = Interval(memory, active.command, carrier, l)
      /\ schedule' = Edges(laid'.words, l, t) /\ q' = Held(laid'.words, l, t)
  BY <1>1 DEF Continue
<1>4. /\ laid = Interval(memory, active.command, carrier, l)
      /\ q = Held(laid.words, l, now) /\ schedule = Edges(laid.words, l, now)
  BY <1>1, <1>2 DEF IndInv, OutputFollowsActive
<1>5. schedule' = schedule
  BY <1>1, <1>2, <1>3, <1>4 DEF Edges
<1>6. q' = q
  <2>1. \A x \in Edges(laid.words, l, now) : t < x
    BY <1>1, <1>4
  <2>2. Held(laid.words, l, now) = Held(laid.words, l, t)
    BY <1>1, <1>2, <2>1, HeldBetweenEdges
  <2> QED  BY <1>3, <1>4, <2>2
<1> QED
  BY <1>3, <1>4, <1>5, <1>6

\* The bridge is always where its laid out interval has it, and the edges still
\* to come are those of the interval (OutputFollowsActive).
THEOREM BridgeFollowsInterval == Spec => []OutputFollowsActive
<1>1. IndInv => OutputFollowsActive
  BY DEF IndInv
<1> QED
  BY <1>1, Invariance, PTL

\* No load cuts a pulse or a dead time that an earlier interval began
\* (PatternIsKept).
LEMMA PatternKept ==
    ASSUME IndInv
    PROVE  PatternIsKept
<1> DEFINE pattern == timing.pattern
           span == timing.loads.period
           l == LoadAt(j - 1)
<1>1. /\ pattern \in Pattern /\ span \in Nat /\ span >= 1 /\ l \in Int
      /\ active.command \in Command /\ carrier \in Int
      /\ memory.pulse \in Remainder(pattern)
      /\ LaidOutWell(pattern, span, active.command, memory, memory.sign, laid)
  BY PresentInterval
<1> HIDE DEF pattern, span, l
<1>2. ASSUME active.command.on, pattern.pulse
      PROVE  \E due \in owed.pulses : FinishesPulse(pattern, span, l, due, laid)
  <2>1. PICK due \in owed.pulses : PulseDue(memory.pulse, due, l)
    BY <1>2 DEF IndInv, MemoryIsOwed, pattern, l
  <2>2. /\ IsPeriodic(laid.raw, pattern, span)
        /\ laid.commanded = WholePulses(pattern, span, memory.pulse, laid.raw).words
    BY <1>1, <1>2 DEF LaidOutWell
  <2>3. FinishesPulse(pattern, span, l, due, laid)
    BY <1>1, <2>1, <2>2, PulseIsFinished
  <2> QED  BY <2>3
<1>3. ASSUME active.command.on, pattern.dead > 0, NEW leg \in Legs(pattern)
      PROVE  KeepsDeadTime(pattern, span, l, owed.legs[leg], laid, leg,
                           LegSign(memory.sign, leg))
  <2>1. LegDue(pattern, memory.legs[leg], owed.legs[leg], l)
    BY <1>3 DEF IndInv, MemoryIsOwed, pattern, l
  <2>2. /\ laid.commanded \in [0 .. span - 1 -> Words(pattern)]
        /\ \A x \in 0 .. span - 1 :
              laid.words[x][leg] =
                 LegCourse(pattern, span, laid.commanded, leg, memory.legs[leg],
                           LegSign(memory.sign, leg)).actual[x]
    BY <1>1, <1>3 DEF LaidOutWell
  <2> QED  BY <1>1, <1>3, <2>1, <2>2, LegIsKept
<1> QED
  BY <1>2, <1>3 DEF PatternIsKept, pattern, span, l

\* No load cuts what an earlier interval began: pulses are finished and whole,
\* and every leg keeps its dead time, over any number of loads and continued
\* runs (PatternIsKept).
THEOREM PatternIsNeverCut == Spec => []PatternIsKept
<1>1. IndInv => PatternIsKept
  BY PatternKept
<1> QED
  BY <1>1, Invariance, PTL

\* Continuing a run from its saved states changes neither the timer, nor the
\* word the next load takes, nor the interval laid out, the state the bridge
\* holds and the edges it still has to take (ContinuesExactly).
THEOREM ContinuationIsExact == Spec => ContinuesExactly
<1>1. ASSUME IndInv, NEW t \in 0 .. Horizon, Continue(t)
      PROVE  UNCHANGED <<k, j, NextWord, schedule, q, laid>>
  <2>1. k' = k /\ j' = j /\ completed' = active
        /\ UNCHANGED <<timing, active, shadow, first>>
    BY <1>1, ContinueKeepsTimer DEF Continue
  <2>2. CompleteAt(k - 1) > LoadAt(j) => active = completed
    <3> SUFFICES ASSUME CompleteAt(k - 1) > LoadAt(j) PROVE active = completed
      OBVIOUS
    <3>1. active.stamp = completed.stamp
      BY <1>1, ContinueRestoresCompleted DEF IndInv, RegistersOK
    <3> QED  BY <1>1, <3>1 DEF IndInv, OneWordPerStamp
  <2>3. CompleteAt(k - 1) <= LoadAt(j) \/ CompleteAt(k - 1) > LoadAt(j)
    <3>1. k - 1 \in Int /\ LoadAt(j) \in Int
      BY <1>1, TimerFacts
    <3>2. CompleteAt(k - 1) \in Int
      BY <1>1, <3>1, CompletionOrder DEF IndInv
    <3> QED  BY <3>1, <3>2
  <2>4. ASSUME CompleteAt(k - 1) <= LoadAt(j) PROVE NextWord' = NextWord
    BY <2>1, <2>4 DEF NextWord, Taken, CompleteAt, InterruptAt, LoadAt
  <2>5. ASSUME CompleteAt(k - 1) > LoadAt(j) PROVE NextWord' = NextWord
    BY <2>1, <2>2, <2>5 DEF NextWord, Taken, CompleteAt, InterruptAt, LoadAt
  <2>6. UNCHANGED NextWord
    BY <2>3, <2>4, <2>5
  <2>7. UNCHANGED <<schedule, q, laid>>
    BY <1>1, ContinueKeepsInterval
  <2> QED  BY <2>1, <2>6, <2>7
<1>2. IndInv /\ [Next]_vars =>
        [(\E t \in 0 .. Horizon : Continue(t)) =>
            UNCHANGED <<k, j, NextWord, schedule, q, laid>>]_vars
  BY <1>1
<1> QED
  BY <1>2, Invariance, PTL DEF Spec, ContinuesExactly

\* Words become active in the order they are computed, and with loads at least
\* as frequent as interrupts none is passed over (NoWordSkipped).
THEOREM WordsInOrder == Spec => NoWordSkipped
<1> DEFINE Step == /\ active'.stamp >= active.stamp
                   /\ (timing.loads.period <= timing.control.period
                         => active'.stamp <= active.stamp + 1)
<1>1. ASSUME IndInv
      PROVE  active.stamp \in Int
  BY <1>1 DEF IndInv, TypeOK, IsWord
<1>2. ASSUME IndInv, NEW t \in 0 .. Horizon, t <= InterruptAt(k), LoadDue(t),
             active' = Taken(k - 1, shadow, completed, t)
      PROVE  Step
  <2>1. t \in Int /\ t = LoadAt(j)
    BY <1>2, TimingAssumption DEF LoadDue
  <2>2. active'.stamp \in Int
    BY <1>2, <2>1, LoadTakesNewest DEF IsWord
  <2> QED  BY <1>1, <1>2, <2>1, <2>2, LoadTakesNewest
<1>3. ASSUME IndInv, NEW t \in 0 .. Horizon, LoadRegisters(t)
      PROVE  Step
  BY <1>2, <1>3 DEF LoadRegisters, Reach, IsNext, Load
<1>4. ASSUME IndInv, NEW t \in 0 .. Horizon, NEW c \in Commands, NEW p \in Phases,
             LoadThenWrite(t, c, p)
      PROVE  Step
  BY <1>2, <1>4 DEF LoadThenWrite, Reach, IsNext, Load
<1>5. ASSUME IndInv, NEW t \in 0 .. Horizon, NEW c \in Commands, NEW p \in Phases,
             WriteThenLoad(t, c, p)
      PROVE  Step
  <2> DEFINE a == active.stamp
  <2>1. active'.stamp = k /\ a \in Int /\ k \in Int /\ a < k
    BY <1>1, <1>5, WriteThenLoadInv DEF IndInv, ActiveIsNewest, TypeOK
  <2>2. ASSUME timing.loads.period <= timing.control.period, a + 1 < k
        PROVE  FALSE
    <3>1. CompleteAt(a + 1) > LoadAt(j - 1)
      BY <1>5, <2>2 DEF IndInv, ActiveIsNewest
    <3>2. /\ CompleteAt(a + 1) + timing.control.period <= CompleteAt(k)
          /\ CompleteAt(a + 1) \in Int
      <4>1. a + 1 \in Int
        BY <2>1
      <4> QED  BY <1>5, <2>1, <2>2, <4>1, CompletionOrder DEF IndInv
    <3>3. CompleteAt(k) = LoadAt(j)
      BY <1>5, TimerFacts DEF WriteThenLoad, InterruptDue, LoadDue, CompleteAt
    <3>4. LoadAt(j) = LoadAt(j - 1) + timing.loads.period
      <4>1. LoadAt(j - 1) = LoadAt(j) - timing.loads.period
        <5>1. timing.loads \in Clock /\ j \in Int
          BY <1>5, TimingFacts DEF IndInv, TypeOK
        <5> QED  BY <5>1, ClockStep DEF LoadAt
      <4>2. timing.loads.period \in Nat /\ LoadAt(j) \in Int
        BY <1>5, TimerFacts, TimingFacts DEF IndInv, TypeOK
      <4> QED  BY <4>1, <4>2
    <3>5. /\ timing.control.period \in Nat /\ timing.loads.period \in Nat
          /\ LoadAt(j - 1) \in Int /\ LoadAt(j) \in Int
      BY <1>5, TimerFacts, TimingFacts DEF IndInv, TypeOK
    <3> HIDE DEF a
    <3> QED  BY <2>2, <3>1, <3>2, <3>3, <3>4, <3>5
  <2> QED  BY <2>1, <2>2
<1>6. ASSUME IndInv, active' = active
      PROVE  Step
  BY <1>1, <1>6
<1>7. IndInv /\ [Next]_vars => [Step]_vars
  <2> HIDE DEF Step
  <2>1. ASSUME IndInv, NEW t \in 0 .. Horizon, SwitchingEdge(t) \/ Continue(t)
        PROVE  Step
    BY <1>6, <2>1 DEF SwitchingEdge, Continue, registers
  <2>2. ASSUME IndInv, NEW t \in 0 .. Horizon, NEW c \in Commands, NEW p \in Phases,
               Interrupt(t, c, p)
        PROVE  Step
    BY <1>6, <2>2 DEF Interrupt
  <2> QED  BY <1>3, <1>4, <1>5, <2>1, <2>2 DEF Next
<1> QED
  BY <1>7, Invariance, PTL DEF Spec, NoWordSkipped

\* The word loaded at an instant is that of the latest completed interrupt, as
\* an index computed from the clocks alone.
LEMMA NewestIsLatestComplete ==
    ASSUME timing \in Timings, first \in Int, NEW n \in Int, NEW t \in Int,
           first - 1 <= n, n >= first => CompleteAt(n) <= t, CompleteAt(n + 1) > t
    PROVE  n = Delay!LatestComplete(t)
<1> DEFINE late == t - timing.computation
           i == IndexAfter(timing.control, late)
<1>1. timing.control \in Clock /\ timing.computation \in Nat /\ late \in Int
  BY TimingFacts
<1>2. late < InterruptAt(n + 1) /\ (n >= first => InterruptAt(n) <= late)
  <2>1. InterruptAt(n) \in Int /\ InterruptAt(n + 1) \in Int
    BY <1>1, ClockStep DEF InterruptAt
  <2> QED  BY <1>1, <2>1 DEF CompleteAt
<1>3. i \in Int /\ i <= n + 1
  <2>1. n + 1 \in Int
    OBVIOUS
  <2> QED  BY <1>1, <1>2, <2>1, IndexAfterSpec, IndexAfterBound DEF InterruptAt
<1>4. CASE n >= first
  <2>1. n + 1 \in Int /\ (n + 1) - 1 = n
    OBVIOUS
  <2>2. i = n + 1
    BY <1>1, <1>2, <1>4, <2>1, IndexAfterUnique DEF InterruptAt
  <2>3. Delay!LatestComplete(t) = IF i - 1 < first THEN first - 1 ELSE i - 1
    BY DEF Delay!LatestComplete, Delay!IndexAfter, IndexAfter
  <2> HIDE DEF i
  <2> QED  BY <1>4, <2>1, <2>2, <2>3
<1>5. CASE ~ (n >= first)
  <2>1. n = first - 1 /\ i - 1 < first
    BY <1>3, <1>5
  <2>2. Delay!LatestComplete(t) = IF i - 1 < first THEN first - 1 ELSE i - 1
    BY DEF Delay!LatestComplete, Delay!IndexAfter, IndexAfter
  <2> HIDE DEF i
  <2> QED  BY <2>1, <2>2
<1> QED
  BY <1>4, <1>5

\* The registers, the two grids and every continuation implement the delay
\* line of PwmDelay (ImplementsDelay).
THEOREM RegistersImplementDelay == Spec => ImplementsDelay
<1>1. Init => Delay!Init
  <2> SUFFICES ASSUME Init PROVE Delay!Init
    OBVIOUS
  <2>1. /\ timing \in Timings /\ now \in StartTimes
        /\ k = IndexAtOrAfter(timing.control, now)
        /\ j = IndexAtOrAfter(timing.loads, now)
        /\ first = k /\ active.stamp = first - 1
    BY DEF Init, StartIndex, Word
  <2> QED  BY <2>1 DEF Delay!Init, Delay!IndexAtOrAfter, IndexAtOrAfter
<1>2. ASSUME IndInv, IndInv', NEW t \in Int, t = LoadAt(j), j' = j + 1,
             UNCHANGED <<timing, first>>
      PROVE  Delay!Load
  <2> DEFINE n == active'.stamp
  <2>1. /\ n \in Int /\ first \in Int /\ timing \in Timings
        /\ k' \in Int /\ first - 1 <= n /\ n < k'
    BY <1>2 DEF IndInv, TypeOK, IsWord, ActiveIsNewest
  <2>2. LoadAt(j - 1)' = t
    <3>1. j' - 1 = j /\ timing' = timing
      BY <1>2, TimerFacts
    <3> QED  BY <1>2, <3>1 DEF LoadAt
  <2>3. n >= first => CompleteAt(n) <= t
    <3>1. CompleteAt(active.stamp)' = CompleteAt(n)
      BY <1>2 DEF CompleteAt, InterruptAt
    <3>2. ActiveIsNewest' /\ first' = first
      BY <1>2 DEF IndInv
    <3>3. n >= first => CompleteAt(active.stamp)' <= LoadAt(j - 1)'
      BY <3>2 DEF ActiveIsNewest
    <3> QED  BY <2>2, <3>1, <3>3
  <2>4. CompleteAt(n + 1) > t
    <3>1. CompleteAt(active.stamp + 1)' = CompleteAt(n + 1)
      BY <1>2 DEF CompleteAt, InterruptAt
    <3>2. CASE n + 1 < k'
      <4>1. CompleteAt(active.stamp + 1)' > LoadAt(j - 1)'
        BY <1>2, <3>2 DEF IndInv, ActiveIsNewest
      <4> QED  BY <2>2, <3>1, <4>1
    <3>3. CASE n + 1 = k'
      <4>1. InterruptAt(k)' = InterruptAt(n + 1)
        BY <1>2, <3>3 DEF InterruptAt
      <4>2. LoadAt(j - 1)' < InterruptAt(k)'
        BY <1>2 DEF IndInv, RegistersOK, TimerOK
      <4>3. InterruptAt(n + 1) \in Int /\ timing.computation \in Nat
        <5>1. timing.control \in Clock /\ n + 1 \in Int
          BY <2>1, TimingFacts
        <5> QED  BY <2>1, <5>1, ClockStep, TimingFacts DEF InterruptAt
      <4> HIDE DEF n
      <4> QED  BY <1>2, <2>2, <4>1, <4>2, <4>3 DEF CompleteAt
    <3> QED  BY <2>1, <3>2, <3>3
  <2>5. n = Delay!LatestComplete(t)
    <3> HIDE DEF n
    <3> QED  BY <1>2, <2>1, <2>3, <2>4, NewestIsLatestComplete
  <2> QED  BY <1>2, <2>5 DEF Delay!Load, LoadAt, Delay!ClockAt, ClockAt
<1>3. IndInv /\ IndInv' /\ [Next]_vars => [Delay!Load]_(Delay!vars)
  <2> SUFFICES ASSUME IndInv, IndInv', [Next]_vars
               PROVE  Delay!Load \/ UNCHANGED Delay!vars
    OBVIOUS
  <2>1. ASSUME NEW t \in 0 .. Horizon, NEW c \in Commands, NEW p \in Phases,
               \/ LoadRegisters(t)
               \/ WriteThenLoad(t, c, p)
               \/ LoadThenWrite(t, c, p)
        PROVE  Delay!Load
    <3>1. t \in Int
      BY TimingAssumption
    <3>2. t = LoadAt(j) /\ j' = j + 1 /\ UNCHANGED <<timing, first>>
      BY <2>1 DEF LoadRegisters, WriteThenLoad, LoadThenWrite, LoadDue, Load
    <3> QED  BY <1>2, <3>1, <3>2
  <2>2. ASSUME NEW t \in 0 .. Horizon, LoadRegisters(t)
        PROVE  Delay!Load
    <3>1. t \in Int
      BY TimingAssumption
    <3>2. t = LoadAt(j) /\ j' = j + 1 /\ UNCHANGED <<timing, first>>
      BY <2>2 DEF LoadRegisters, LoadDue, Load
    <3> QED  BY <1>2, <3>1, <3>2
  <2>3. ASSUME NEW t \in 0 .. Horizon, Continue(t)
        PROVE  UNCHANGED Delay!vars
    BY <2>3, ContinueKeepsTimer DEF Continue, Delay!vars
  <2>4. ASSUME NEW t \in 0 .. Horizon, NEW c \in Commands, NEW p \in Phases,
               Interrupt(t, c, p)
        PROVE  UNCHANGED Delay!vars
    BY <2>4 DEF Interrupt, Delay!vars
  <2>5. ASSUME NEW t \in 0 .. Horizon, SwitchingEdge(t)
        PROVE  UNCHANGED Delay!vars
    BY <2>5 DEF SwitchingEdge, registers, Delay!vars
  <2>6. CASE UNCHANGED vars
    BY <2>6 DEF vars, registers, Delay!vars
  <2> QED  BY <2>1, <2>2, <2>3, <2>4, <2>5, <2>6 DEF Next
<1> QED
  BY <1>1, <1>3, Invariance, PTL DEF Spec, ImplementsDelay, Delay!Spec

----------------------------------------------------------------------------
(***************************************************************************)
(* Sums along the time and along a list.                                   *)
(***************************************************************************)
\* The partial sums of increments from m to n.
Sums(f, inc, m, n) ==
    f = [t \in m .. n |-> IF t = m THEN 0 ELSE f[t - 1] + inc[t]]

\* What holds first and along every step holds between.
LEMMA Between ==
    ASSUME NEW P, NEW m \in Int, NEW n \in Int, m <= n, m \in P,
           \A t \in m + 1 .. n : t - 1 \in P => t \in P
    PROVE  \A t \in m .. n : t \in P
<1> DEFINE Bad == {d \in Nat : m + d <= n /\ m + d \notin P}
<1> SUFFICES ASSUME NEW u \in m .. n, u \notin P PROVE FALSE
  OBVIOUS
<1>1. Bad # {}
  <2>1. u - m \in Nat /\ m + (u - m) = u
    OBVIOUS
  <2>2. u - m \in Bad
    BY <2>1
  <2> QED
    BY <2>2
<1>2. PICK d \in Bad : \A e \in Bad : d <= e
  <2>1. Bad \subseteq Nat
    OBVIOUS
  <2> HIDE DEF Bad
  <2> QED
    BY <1>1, <2>1, LeastNumber
<1>3. d # 0 /\ d - 1 \in Nat /\ d - 1 \notin Bad /\ m + (d - 1) = m + d - 1
  BY <1>2
<1>4. m + d \in m + 1 .. n /\ m + d - 1 \in P
  BY <1>2, <1>3
<1> QED
  BY <1>2, <1>4

\* There are such sums.
LEMMA SumsExist ==
    ASSUME NEW inc, NEW m \in Int, NEW n \in Int, m <= n
    PROVE  \E f : Sums(f, inc, m, n)
<1> DEFINE P == {t \in m .. n : \E f : Sums(f, inc, m, t)}
<1>1. m \in P
  <2> DEFINE f == [t \in m .. m |-> 0]
  <2>1. f = [t \in m .. m |-> IF t = m THEN 0 ELSE f[t - 1] + inc[t]]
    OBVIOUS
  <2>2. Sums(f, inc, m, m)
    BY <2>1 DEF Sums
  <2> QED
    BY <2>2
<1>2. ASSUME NEW u \in m + 1 .. n, u - 1 \in P PROVE u \in P
  <2>1. PICK f : Sums(f, inc, m, u - 1)
    BY <1>2
  <2>2. f = [t \in m .. u - 1 |-> IF t = m THEN 0 ELSE f[t - 1] + inc[t]]
    BY <2>1 DEF Sums
  <2> DEFINE g == [t \in m .. u |-> IF t = u THEN f[t - 1] + inc[t] ELSE f[t]]
  <2>3. \A t \in m .. u : t # m => g[t - 1] = f[t - 1]
    OBVIOUS
  <2>4. ASSUME NEW t \in m .. u
        PROVE  g[t] = IF t = m THEN 0 ELSE f[t - 1] + inc[t]
    BY <2>2
  <2>5. g = [t \in m .. u |-> IF t = m THEN 0 ELSE g[t - 1] + inc[t]]
    BY <2>3, <2>4
  <2>6. Sums(g, inc, m, u)
    BY <2>5 DEF Sums
  <2> QED
    BY <2>6
<1>3. n \in P
  <2>1. n \in m .. n
    OBVIOUS
  <2> HIDE DEF P
  <2> QED
    BY <1>1, <1>2, <2>1, Between
<1> QED
  BY <1>3

\* The increments from m to n are integers.
Increments(inc, m, n) == \A t \in m + 1 .. n : inc[t] \in Int

\* Sums of integers are integers and add up.
LEMMA SumsAdd ==
    ASSUME NEW inc, NEW m \in Int, NEW n \in Int, m <= n, Increments(inc, m, n),
           NEW f, Sums(f, inc, m, n)
    PROVE  /\ f[m] = 0 /\ \A t \in m + 1 .. n : f[t] = f[t - 1] + inc[t]
           /\ \A t \in m .. n : f[t] \in Int
<1>1. f = [t \in m .. n |-> IF t = m THEN 0 ELSE f[t - 1] + inc[t]]
  BY DEF Sums
<1>2. f[m] = 0 /\ \A t \in m + 1 .. n : f[t] = f[t - 1] + inc[t]
  <2>1. m \in m .. n /\ \A t \in m + 1 .. n : t \in m .. n /\ t # m
    OBVIOUS
  <2> QED
    BY <1>1, <2>1
<1> DEFINE P == {t \in m .. n : f[t] \in Int}
<1>3. m \in P /\ \A t \in m + 1 .. n : t - 1 \in P => t \in P
  BY <1>2 DEF Increments
<1>4. \A t \in m .. n : t \in P
  <2> HIDE DEF P
  <2> QED
    BY <1>3, Between
<1> QED
  BY <1>2, <1>4

\* Sums of the same increments are the same.
LEMMA SumsSame ==
    ASSUME NEW m \in Int, NEW n \in Int, NEW l \in Int, m <= l, l <= n,
           NEW inc, NEW add, NEW f, NEW g, Sums(f, inc, m, l), Sums(g, add, m, n),
           Increments(add, m, n),
           \A t \in m + 1 .. l : inc[t] = add[t]
    PROVE  \A t \in m .. l : f[t] = g[t]
<1>1. Increments(inc, m, l)
  BY DEF Increments
<1>2. f[m] = 0 /\ \A t \in m + 1 .. l : f[t] = f[t - 1] + inc[t]
  BY <1>1, SumsAdd
<1>3. g[m] = 0 /\ \A t \in m + 1 .. n : g[t] = g[t - 1] + add[t]
  BY SumsAdd
<1> DEFINE P == {t \in m .. l : f[t] = g[t]}
<1>4. m \in P /\ \A t \in m + 1 .. l : t - 1 \in P => t \in P
  BY <1>2, <1>3
<1>5. \A t \in m .. l : t \in P
  <2> HIDE DEF P
  <2> QED
    BY <1>4, Between
<1> QED
  BY <1>5

\* The total of a list is the last of its partial sums.
LEMMA TotalIs ==
    ASSUME NEW s \in Seq(Int)
    PROVE  \E f : Sums(f, s, 0, Len(s)) /\ Total(s) = f[Len(s)]
<1> DEFINE f == CHOOSE g : Sums(g, s, 0, Len(s))
<1>1. Sums(f, s, 0, Len(s))
  <2>1. 0 \in Int /\ Len(s) \in Int /\ 0 <= Len(s)
    OBVIOUS
  <2> QED
    BY <2>1, SumsExist, Zenon
<1>2. Total(s) = f[Len(s)]
  BY DEF Total, Sums
<1> QED
  BY <1>1, <1>2

\* A list that is longer by one entry has that entry more in total.
LEMMA TotalAppend ==
    ASSUME NEW s \in Seq(Int), NEW x \in Int
    PROVE  Total(Append(s, x)) = Total(s) + x /\ Total(s) \in Int
<1> DEFINE r == Append(s, x)
           n == Len(s)
<1>1. /\ r \in Seq(Int) /\ Len(r) = n + 1 /\ r[n + 1] = x /\ n \in Nat
      /\ \A i \in 1 .. n : r[i] = s[i] /\ s[i] \in Int
  OBVIOUS
<1>2. PICK f : Sums(f, s, 0, n) /\ Total(s) = f[n]
  BY TotalIs
<1>3. PICK g : Sums(g, r, 0, n + 1) /\ Total(r) = g[n + 1]
  <2> HIDE DEF r, n
  <2> QED
    BY <1>1, TotalIs
<1> HIDE DEF r, n
<1>4. \A i \in 1 .. n + 1 : r[i] \in Int
  BY <1>1
<1>5. f[n] = g[n]
  <2>1. /\ 0 <= n /\ n <= n + 1 /\ n \in Int /\ n + 1 \in Int /\ n \in 0 .. n
        /\ Increments(r, 0, n + 1)
        /\ \A t \in 0 + 1 .. n : s[t] = r[t]
    BY <1>1, <1>4 DEF Increments
  <2> QED
    BY <1>2, <1>3, <2>1, SumsSame
<1>6. g[n + 1] = g[n + 1 - 1] + r[n + 1] /\ g[n] \in Int
  <2>1. /\ 0 <= n + 1 /\ n + 1 \in Int /\ n + 1 \in 0 + 1 .. n + 1 /\ n \in 0 .. n + 1
        /\ Increments(r, 0, n + 1)
    BY <1>1, <1>4 DEF Increments
  <2> QED
    BY <1>3, <2>1, SumsAdd
<1>7. n + 1 - 1 = n
  BY <1>1
<1> QED
  BY <1>1, <1>2, <1>3, <1>5, <1>6, <1>7 DEF r

\* A list without its first entry has that entry less in total.
LEMMA TotalTail ==
    ASSUME NEW s \in Seq(Int), s # <<>>
    PROVE  Total(Tail(s)) = Total(s) - s[1]
<1> DEFINE r == Tail(s)
           n == Len(s)
<1>1. /\ r \in Seq(Int) /\ n \in Nat /\ n >= 1 /\ Len(r) = n - 1 /\ s[1] \in Int
      /\ \A i \in 1 .. n - 1 : r[i] = s[i + 1]
      /\ \A i \in 1 .. n : s[i] \in Int
      /\ \A i \in 1 .. n - 1 : r[i] \in Int
  OBVIOUS
<1>2. PICK f : Sums(f, s, 0, n) /\ Total(s) = f[n]
  BY TotalIs
<1>3. PICK g : Sums(g, r, 0, n - 1) /\ Total(r) = g[n - 1]
  <2> HIDE DEF r, n
  <2> QED
    BY <1>1, TotalIs
<1> HIDE DEF r, n
<1>4. /\ f[0] = 0 /\ \A t \in 1 .. n : f[t] = f[t - 1] + s[t]
      /\ \A t \in 0 .. n : f[t] \in Int
  <2>1. 0 <= n /\ n \in Int /\ 0 \in Int /\ Increments(s, 0, n)
    BY <1>1 DEF Increments
  <2>2. 0 + 1 = 1
    OBVIOUS
  <2> QED
    BY <1>2, <2>1, <2>2, SumsAdd
<1>5. /\ g[0] = 0 /\ \A t \in 1 .. n - 1 : g[t] = g[t - 1] + r[t]
      /\ \A t \in 0 .. n - 1 : g[t] \in Int
  <2>1. 0 <= n - 1 /\ n - 1 \in Int /\ 0 \in Int /\ Increments(r, 0, n - 1)
    BY <1>1 DEF Increments
  <2>2. 0 + 1 = 1
    OBVIOUS
  <2> QED
    BY <1>3, <2>1, <2>2, SumsAdd
<1> DEFINE P == {t \in 0 .. n - 1 : g[t] = f[t + 1] - s[1]}
<1>6. 0 \in P
  BY <1>1, <1>4, <1>5
<1>7. ASSUME NEW t \in 0 + 1 .. n - 1, t - 1 \in P PROVE t \in P
  <2>1. g[t - 1] = f[t] - s[1]
    BY <1>1, <1>7
  <2>2. g[t] = g[t - 1] + r[t] /\ f[t + 1] = f[t] + s[t + 1] /\ r[t] = s[t + 1]
    <3>1. t \in 1 .. n - 1 /\ t + 1 \in 1 .. n /\ t + 1 - 1 = t
      BY <1>1
    <3> QED
      BY <1>1, <1>4, <1>5, <3>1
  <2>3. f[t] \in Int /\ s[t + 1] \in Int
    BY <1>1, <1>4
  <2> QED
    BY <1>1, <2>1, <2>2, <2>3
<1>8. n - 1 \in P
  <2>1. 0 <= n - 1 /\ 0 \in Int /\ n - 1 \in Int /\ n - 1 \in 0 .. n - 1
    BY <1>1
  <2> HIDE DEF P
  <2> QED
    BY <1>6, <1>7, <2>1, Between
<1> QED
  BY <1>1, <1>2, <1>3, <1>8 DEF r

----------------------------------------------------------------------------
(***************************************************************************)
(* Integrals over a trace.                                                 *)
(***************************************************************************)
\* IntegralOf, of any trace h.
StripIn(h, of, from, t) ==
    IF t \in DOMAIN h /\ h[t].since >= from
    THEN (t - h[t].since) * (of[h[t].first] + of[h[t].last]) ELSE 0
IntegralIn(h, of, from, to) ==
    LET area[t \in from .. to] ==
            IF t = from THEN 0 ELSE area[t - 1] + StripIn(h, of, from, t)
    IN  area[to]

\* The members of a trace are instants with the readings there.
Instants(h) ==
    /\ DOMAIN h \subseteq Int
    /\ \A u \in DOMAIN h : /\ h[u].since \in Int /\ h[u].first \in Values
                           /\ h[u].last \in Values /\ h[u].seen \in Values

\* Two traces have the same instants from a to b; a trace has none there.
SameInstants(g, h, a, b) ==
    \A u \in a .. b : (u \in DOMAIN g <=> u \in DOMAIN h) /\ (u \in DOMAIN g => g[u] = h[u])
NoInstants(g, a, b) == \A u \in a .. b : u \notin DOMAIN g

\* IntegralIn is a sum of strips.
StripsIn(h, of, from, to) == [t \in from .. to |-> StripIn(h, of, from, t)]

\* Its strips are integers.
LEMMA StripsAreIntegers ==
    ASSUME NEW h, Instants(h), NEW of \in [Values -> Int],
           NEW from \in Int, NEW to \in Int
    PROVE  Increments(StripsIn(h, of, from, to), from, to)
<1> SUFFICES ASSUME NEW t \in from + 1 .. to PROVE StripsIn(h, of, from, to)[t] \in Int
  BY DEF Increments
<1>1. StripsIn(h, of, from, to)[t] = StripIn(h, of, from, t)
  BY DEF StripsIn
<1>2. CASE t \in DOMAIN h /\ h[t].since >= from
  <2>1. h[t].since \in Int /\ of[h[t].first] \in Int /\ of[h[t].last] \in Int
    BY <1>2 DEF Instants
  <2>2. t - h[t].since \in Int /\ of[h[t].first] + of[h[t].last] \in Int
    BY <2>1
  <2> QED
    BY <1>1, <1>2, <2>2 DEF StripIn
<1>3. CASE ~(t \in DOMAIN h /\ h[t].since >= from)
  BY <1>1, <1>3 DEF StripIn
<1> QED
  BY <1>2, <1>3

\* It is the last of the partial sums of its strips.
LEMMA IntegralIs ==
    ASSUME NEW h, NEW of, NEW from \in Int, NEW to \in Int, from <= to
    PROVE  \E f : /\ Sums(f, StripsIn(h, of, from, to), from, to)
                  /\ IntegralIn(h, of, from, to) = f[to]
<1> DEFINE f == CHOOSE g : g = [t \in from .. to |->
                     IF t = from THEN 0 ELSE g[t - 1] + StripIn(h, of, from, t)]
           inc == StripsIn(h, of, from, to)
<1>1. PICK e : Sums(e, inc, from, to)
  BY SumsExist
<1>2. e = [t \in from .. to |-> IF t = from THEN 0 ELSE e[t - 1] + StripIn(h, of, from, t)]
  <2>1. e = [t \in from .. to |-> IF t = from THEN 0 ELSE e[t - 1] + inc[t]]
    BY <1>1 DEF Sums
  <2>2. \A t \in from .. to : inc[t] = StripIn(h, of, from, t)
    BY DEF StripsIn
  <2> HIDE DEF inc
  <2> QED
    BY <2>1, <2>2
<1>3. f = [t \in from .. to |-> IF t = from THEN 0 ELSE f[t - 1] + StripIn(h, of, from, t)]
  BY <1>2, Zenon
<1>4. IntegralIn(h, of, from, to) = f[to]
  BY DEF IntegralIn
<1> HIDE DEF f
<1>5. Sums(f, inc, from, to)
  <2>2. \A t \in from .. to : inc[t] = StripIn(h, of, from, t)
    BY DEF StripsIn
  <2> HIDE DEF inc
  <2>3. f = [t \in from .. to |-> IF t = from THEN 0 ELSE f[t - 1] + inc[t]]
    BY <1>3, <2>2
  <2> QED
    BY <2>3 DEF Sums
<1> QED
  BY <1>4, <1>5

\* The integral over no time.
LEMMA IntegralOfNothing ==
    ASSUME NEW h, NEW of, NEW from \in Int
    PROVE  IntegralIn(h, of, from, from) = 0
<1>1. PICK f : /\ Sums(f, StripsIn(h, of, from, from), from, from)
               /\ IntegralIn(h, of, from, from) = f[from]
  BY IntegralIs
<1> QED
  BY <1>1 DEF Sums

\* An integral goes on over the strip from the latest instant to the next.
LEMMA IntegralGoesOn ==
    ASSUME NEW h, Instants(h), NEW g, Instants(g), NEW of \in [Values -> Int],
           NEW from \in Int, NEW l \in Int, NEW t \in Int, from <= l, l < t,
           t \in DOMAIN g, g[t].since = l,
           SameInstants(g, h, from + 1, l), NoInstants(g, l + 1, t - 1)
    PROVE  /\ IntegralIn(h, of, from, l) \in Int
           /\ IntegralIn(g, of, from, t)
                = IntegralIn(h, of, from, l) + (t - l) * (of[g[t].first] + of[g[t].last])
<1> DEFINE inc == StripsIn(h, of, from, l)
           add == StripsIn(g, of, from, t)
           strip == (t - l) * (of[g[t].first] + of[g[t].last])
<1>1. PICK e : Sums(e, inc, from, l) /\ IntegralIn(h, of, from, l) = e[l]
  BY IntegralIs
<1>2. PICK f : Sums(f, add, from, t) /\ IntegralIn(g, of, from, t) = f[t]
  <2>1. from <= t
    OBVIOUS
  <2> QED
    BY <2>1, IntegralIs
<1>3. Increments(inc, from, l) /\ Increments(add, from, t)
  BY StripsAreIntegers
<1>4. \A u \in from + 1 .. l : inc[u] = add[u]
  <2> SUFFICES ASSUME NEW u \in from + 1 .. l PROVE inc[u] = add[u]
    OBVIOUS
  <2>1. inc[u] = StripIn(h, of, from, u) /\ add[u] = StripIn(g, of, from, u)
    BY DEF StripsIn
  <2>2. StripIn(h, of, from, u) = StripIn(g, of, from, u)
    BY DEF StripIn, SameInstants
  <2> QED
    BY <2>1, <2>2
<1>5. \A u \in l + 1 .. t - 1 : add[u] = 0
  <2> SUFFICES ASSUME NEW u \in l + 1 .. t - 1 PROVE add[u] = 0
    OBVIOUS
  <2>1. u \in from .. t /\ u \notin DOMAIN g
    BY DEF NoInstants
  <2> QED
    BY <2>1 DEF StripsIn, StripIn
<1>6. add[t] = strip /\ strip \in Int
  <2>1. t \in from .. t /\ g[t].since >= from
    OBVIOUS
  <2>2. add[t] = strip
    BY <2>1 DEF StripsIn, StripIn
  <2>3. of[g[t].first] \in Int /\ of[g[t].last] \in Int
    BY DEF Instants
  <2> QED
    BY <2>2, <2>3
<1> HIDE DEF inc, add, strip
<1>7. e[l] = f[l]
  <2>1. l \in from .. l /\ l <= t
    OBVIOUS
  <2> QED
    BY <1>1, <1>2, <1>3, <1>4, <2>1, SumsSame
<1>8. /\ \A u \in from + 1 .. t : f[u] = f[u - 1] + add[u]
      /\ \A u \in from .. t : f[u] \in Int
  <2>1. from <= t
    OBVIOUS
  <2> QED
    BY <1>2, <1>3, <2>1, SumsAdd
<1> DEFINE P == {u \in l .. t - 1 : f[u] = f[l]}
<1>9. t - 1 \in P
  <2>1. l \in P
    OBVIOUS
  <2>2. ASSUME NEW u \in l + 1 .. t - 1, u - 1 \in P PROVE u \in P
    <3>1. u \in from + 1 .. t /\ u \in l .. t - 1 /\ f[u - 1] \in Int
      BY <1>8
    <3> QED
      BY <1>5, <1>8, <2>2, <3>1
  <2>3. l <= t - 1 /\ t - 1 \in Int /\ t - 1 \in l .. t - 1
    OBVIOUS
  <2> HIDE DEF P
  <2> QED
    BY <2>1, <2>2, <2>3, Between
<1>10. f[t] = f[t - 1] + add[t] /\ f[l] \in Int
  BY <1>8
<1> QED
  BY <1>1, <1>2, <1>6, <1>7, <1>9, <1>10 DEF strip

\* The integral of a reading that was there all the time.
LEMMA IntegralOfConstant ==
    ASSUME NEW h, NEW of \in [Values -> Int], NEW v \in Values,
           NEW from \in Int, NEW t \in Int, from <= t,
           \A u \in from + 1 .. t : /\ u \in DOMAIN h /\ h[u].since = u - 1
                                   /\ h[u].first = v /\ h[u].last = v
    PROVE  IntegralIn(h, of, from, t) = 2 * of[v] * (t - from)
<1> DEFINE inc == StripsIn(h, of, from, t)
           w == of[v]
<1>1. PICK f : Sums(f, inc, from, t) /\ IntegralIn(h, of, from, t) = f[t]
  BY IntegralIs
<1>2. w \in Int
  OBVIOUS
<1>3. ASSUME NEW u \in from + 1 .. t PROVE inc[u] = 2 * w
  <2>1. u \in from .. t /\ u - (u - 1) = 1 /\ u - 1 >= from
    OBVIOUS
  <2>2. inc[u] = (u - h[u].since) * (of[h[u].first] + of[h[u].last])
    BY <2>1 DEF StripsIn, StripIn
  <2>3. inc[u] = 1 * (w + w)
    BY <2>1, <2>2
  <2> QED
    BY <1>2, <2>3
<1> HIDE DEF inc, w
<1>4. Increments(inc, from, t)
  BY <1>2, <1>3 DEF Increments
<1>5. f[from] = 0 /\ \A u \in from + 1 .. t : f[u] = f[u - 1] + inc[u]
  BY <1>1, <1>4, SumsAdd
<1> DEFINE P == {u \in from .. t : f[u] = (2 * w) * (u - from)}
<1>6. from \in P
  <2>1. from - from = 0 /\ (2 * w) * 0 = 0
    BY <1>2
  <2> QED
    BY <1>5, <2>1
<1>7. ASSUME NEW u \in from + 1 .. t, u - 1 \in P PROVE u \in P
  <2> DEFINE d == u - 1 - from
             x == 2 * w
  <2>1. d \in Int /\ x \in Int /\ u - from = d + 1
    BY <1>2
  <2>2. f[u - 1] = x * d
    BY <1>7
  <2>3. f[u] = x * d + x
    BY <1>3, <1>5, <2>2
  <2>4. x * (d + 1) = x * d + x
    <3> HIDE DEF x, d
    <3> QED
      BY <2>1
  <2>5. f[u] = x * (u - from)
    <3> HIDE DEF x, d
    <3> QED
      BY <2>1, <2>3, <2>4
  <2> QED
    BY <2>5
<1>8. t \in P
  <2>1. t \in from .. t
    OBVIOUS
  <2> HIDE DEF P
  <2> QED
    BY <1>6, <1>7, <2>1, Between
<1> QED
  BY <1>1, <1>8 DEF w

----------------------------------------------------------------------------
(***************************************************************************)
(* The grids of a design.                                                  *)
(***************************************************************************)
\* What membership in Designs gives.
LEMMA DesignFacts ==
    ASSUME design \in Designs
    PROVE  /\ design.kind \in {"sampled", "clocked", "squares"}
           /\ design.control \in Clock /\ design.sampling \in Clock
           /\ ControlPeriod \in Nat /\ ControlPeriod >= 1
           /\ design.sampling.period \in Nat /\ design.sampling.period >= 1
           /\ design.control.offset \in Nat /\ design.sampling.offset \in Nat
           /\ design.window \in Nat /\ design.window <= ControlPeriod /\ design.rms \in Nat
           /\ Samples \in Nat /\ Samples >= 1
           /\ ControlPeriod = Samples * design.sampling.period
           /\ design.kind # "sampled" => design.sampling = design.control
           /\ design.kind = "squares" => design.window = 0 /\ design.rms > 0
<1>1. /\ design \in Design /\ ControlPeriod % design.sampling.period = 0
      /\ design.window <= ControlPeriod
      /\ design.kind # "sampled" => design.sampling = design.control
      /\ design.kind = "squares" => design.window = 0 /\ design.rms > 0
  BY DesignAssumption DEF ControlPeriod
<1>2. /\ design.kind \in {"sampled", "clocked", "squares"}
      /\ design.control \in Clock /\ design.sampling \in Clock
      /\ design.window \in Nat /\ design.rms \in Nat
  BY <1>1 DEF Design
<1>3. /\ ControlPeriod \in Nat /\ ControlPeriod >= 1
      /\ design.sampling.period \in Nat /\ design.sampling.period >= 1
      /\ design.control.offset \in Nat /\ design.sampling.offset \in Nat
  BY <1>2 DEF Clock, ControlPeriod
<1> DEFINE p == ControlPeriod
           s == design.sampling.period
           quo == p \div s
<1>4. quo \in Int /\ p = s * quo + (p % s) /\ p % s = 0
  BY <1>1, <1>3
<1>5. p = quo * s
  <2>1. s \in Int /\ p \in Int
    BY <1>3
  <2> HIDE DEF p, s, quo
  <2>2. s * quo = quo * s /\ s * quo \in Int
    BY <1>4, <2>1
  <2> QED
    BY <1>4, <2>1, <2>2
<1>6. quo >= 1
  <2> HIDE DEF p, s, quo
  <2>1. p \in Nat /\ p >= 1 /\ s \in Nat /\ s >= 1
    BY <1>3 DEF p, s
  <2>2. quo <= 0 => quo * s <= 0
    <3> DEFINE r == -quo
    <3>1. ASSUME quo <= 0 PROVE r \in Nat /\ quo = -r
      BY <1>4, <3>1
    <3>2. r \in Nat => r * s >= 0
      <4> HIDE DEF r
      <4> QED
        BY <2>1
    <3>3. quo = -r => quo * s = -(r * s)
      <4>1. r \in Int
        BY <1>4
      <4> HIDE DEF r
      <4> QED
        BY <1>4, <2>1, <4>1
    <3>4. r * s \in Int
      BY <1>4, <2>1
    <3> HIDE DEF r
    <3> QED
      BY <3>1, <3>2, <3>3, <3>4
  <2> QED
    BY <1>4, <1>5, <2>1, <2>2
<1>7. Samples = quo
  BY DEF Samples, ControlPeriod
<1> QED
  BY <1>1, <1>2, <1>3, <1>4, <1>5, <1>6, <1>7

\* The events of a clock are in order.
LEMMA ClockOrder ==
    ASSUME NEW clock \in Clock, NEW m \in Int, NEW n \in Int
    PROVE  /\ ClockAt(clock, m) \in Int /\ ClockAt(clock, n) \in Int
           /\ ClockAt(clock, m) < ClockAt(clock, n) <=> m < n
           /\ ClockAt(clock, m) <= ClockAt(clock, n) <=> m <= n
<1>1. clock.period \in Nat /\ clock.period >= 1
  BY DEF Clock
<1>2. ClockAt(clock, m) \in Int /\ ClockAt(clock, n) \in Int
  BY ClockStep
<1>3. m < n => ClockAt(clock, m) < ClockAt(clock, n)
  <2>1. m < n => ClockAt(clock, m) + clock.period <= ClockAt(clock, n)
    BY ClockMonotone
  <2> QED
    BY <1>1, <1>2, <2>1
<1>4. n < m => ClockAt(clock, n) < ClockAt(clock, m)
  <2>1. n < m => ClockAt(clock, n) + clock.period <= ClockAt(clock, m)
    BY ClockMonotone
  <2> QED
    BY <1>1, <1>2, <2>1
<1> QED
  BY <1>2, <1>3, <1>4

\* n events further is n periods later.
LEMMA ClockRuns ==
    ASSUME NEW clock \in Clock, NEW m \in Int, NEW n \in Int
    PROVE  ClockAt(clock, m + n) = ClockAt(clock, m) + n * clock.period
<1> DEFINE p == clock.period
           o == clock.offset
<1>1. p \in Int /\ o \in Int
  BY DEF Clock
<1> HIDE DEF p, o
<1>2. (m + n) * p = m * p + n * p
  BY <1>1
<1>3. o + (m * p + n * p) = (o + m * p) + n * p
  <2>1. m * p \in Int /\ n * p \in Int
    BY <1>1
  <2> QED
    BY <1>1, <2>1
<1> QED
  BY <1>2, <1>3 DEF ClockAt, p, o

\* The conversions of an aligned design: the first after an interrupt is
\* one conversion period later, and the last of its period is the next
\* interrupt.
LEMMA AlignedConversions ==
    ASSUME design \in Designs, ~Independent, NEW i \in Int
    PROVE  LET last == ClockAt(design.control, i)
               head == IndexAfter(design.sampling, last)
           IN  /\ head \in Int /\ last \in Int
               /\ \A n \in Int : ClockAt(design.sampling, head - 1 + n)
                                    = last + n * design.sampling.period
               /\ ClockAt(design.sampling, head - 1 + Samples) = last + ControlPeriod
<1> DEFINE last == ClockAt(design.control, i)
           head == IndexAfter(design.sampling, last)
           s == design.sampling.period
           a == design.control.offset
           b == design.sampling.offset
           quo == (a - b) \div s
           ix == quo + i * Samples
<1>1. /\ s \in Nat /\ s >= 1 /\ a \in Int /\ b \in Int /\ Samples \in Nat
      /\ ControlPeriod = Samples * s /\ design.sampling \in Clock /\ design.control \in Clock
  BY DesignFacts
<1>2. (a - b) % s = 0
  BY DEF Independent
<1>3. quo \in Int /\ a - b = s * quo
  <2> DEFINE x == a - b
  <2>1. x \in Int /\ x % s = 0
    BY <1>1, <1>2
  <2> HIDE DEF x, s
  <2>2. x \div s \in Int /\ x = s * (x \div s) + (x % s)
    BY <1>1, <2>1
  <2> DEFINE f == x \div s
             y == s * f
  <2>3. y \in Int
    <3>1. f \in Int /\ s \in Int
      BY <1>1, <2>2
    <3> HIDE DEF f
    <3> QED
      BY <3>1
  <2>4. x = y
    <3>1. x = y + 0
      BY <2>1, <2>2
    <3> HIDE DEF y
    <3> QED
      BY <2>3, <3>1
  <2> QED
    BY <2>2, <2>4 DEF x
<1>4. last = ClockAt(design.sampling, ix) /\ ix \in Int /\ last \in Int
  <2>1. last = a + i * (Samples * s)
    BY <1>1 DEF ClockAt, ControlPeriod
  <2>2. ClockAt(design.sampling, ix) = b + (quo + i * Samples) * s
    BY DEF ClockAt
  <2>3. i * Samples \in Int /\ ix \in Int
    BY <1>1, <1>3
  <2> HIDE DEF last, s, a, b, quo, ix
  <2>4. (quo + i * Samples) * s = s * quo + i * (Samples * s)
    <3> DEFINE x == i * Samples
    <3>1. x * s = i * (Samples * s)
      BY <1>1
    <3>2. (quo + x) * s = quo * s + x * s /\ quo * s = s * quo
      <4> HIDE DEF x
      <4> QED
        BY <1>1, <1>3, <2>3 DEF x
    <3> QED
      BY <3>1, <3>2
  <2>5. s * quo \in Int /\ i * (Samples * s) \in Int
    <3>1. Samples * s \in Int
      BY <1>1
    <3> QED
      BY <1>1, <1>3, <3>1
  <2> QED
    BY <1>1, <1>3, <2>1, <2>2, <2>3, <2>4, <2>5
<1> HIDE DEF ix, quo
<1>5. head = ix + 1
  <2>1. ClockAt(design.sampling, ix) < ClockAt(design.sampling, ix + 1)
    BY <1>1, <1>4, ClockOrder
  <2>2. ix + 1 \in Int /\ ix + 1 - 1 = ix
    BY <1>4
  <2> QED
    BY <1>1, <1>4, <2>1, <2>2, IndexAfterUnique
<1>6. ASSUME NEW n \in Int
      PROVE  ClockAt(design.sampling, head - 1 + n) = last + n * s
  <2>1. head - 1 + n = ix + n
    BY <1>4, <1>5
  <2>2. ClockAt(design.sampling, ix + n) = ClockAt(design.sampling, ix) + n * s
    BY <1>1, <1>4, ClockRuns
  <2> HIDE DEF last, head
  <2> QED
    BY <1>4, <2>1, <2>2
<1>7. ClockAt(design.sampling, head - 1 + Samples) = last + ControlPeriod
  BY <1>1, <1>6
<1>8. head \in Int
  BY <1>4, <1>5
<1> HIDE DEF last, head
<1> QED
  BY <1>4, <1>6, <1>7, <1>8 DEF last, head

Peeks == Seq([t : Int, value : Int])
Rings == [0 .. design.rms - 1 -> Int]

\* The ADC as its fields can be.
Adc == [sum : Int, last : Int, upto : Int, anchored : BOOLEAN, open : BOOLEAN,
        peeks : Peeks, taken : Int, index : Int, held : Int,
        square : Int, area : Int, duration : Int, ring : Rings,
        place : Int, count : Int, total : Int]

\* The interrupt that began the period of the next sample.
LastIndex == IF pc = "actuate" /\ time = ControlTime THEN interrupt ELSE interrupt - 1
LastControl == ClockAt(design.control, LastIndex)

\* The first conversion of that period, and the next one of the ADC s.
FirstConversion == IndexAfter(design.sampling, LastControl)
NextConversion(s) == IF Independent THEN s.index ELSE FirstConversion + s.taken - 1

\* Where the next window opens, and where the sum of squares began.
WindowFrom == LastControl + ControlPeriod - design.window
SquaresFrom == IF began > LastControl THEN began ELSE LastControl

TimesOK ==
    /\ design \in Designs /\ pc \in {"idle", "sense", "actuate"}
    /\ time \in Nat /\ began \in Nat /\ began <= time
    /\ reading \in Values /\ interrupt \in Int /\ changed \in BOOLEAN
    /\ pc = "idle" => ~changed
    /\ pc = "actuate" /\ time = ControlTime => design.kind = "sampled"
    /\ IF pc = "sense"
       THEN LastControl < time /\ time <= LastControl + ControlPeriod
       ELSE LastControl <= time /\ time < LastControl + ControlPeriod

TraceOK ==
    /\ Instants(trace) /\ Latest \in DOMAIN trace
    /\ \A u \in DOMAIN trace : u <= Latest
    /\ began <= Latest /\ Latest <= time /\ (pc # "idle" => Latest = time)
    /\ pc = "sense" => trace[time].seen = reading

\* The integral of the channel since its window opened.
MeanOK(s) ==
    /\ Averaging =>
          /\ changed \/ s.last = reading
          /\ s.open => WindowFrom <= Latest /\ s.sum = IntegralIn(trace, Readings, WindowFrom, Latest)
          /\ ~s.open => /\ s.sum = 0 /\ time <= WindowFrom
                        /\ pc = "idle" \/ (pc = "actuate" /\ design.kind = "clocked")
                              => time < WindowFrom
    /\ ~Averaging => s.open /\ s.sum = 0 /\ s.last = 0

AnchorOK(s) ==
    /\ s.anchored <=> Accumulating
    /\ s.upto = IF Accumulating THEN Latest ELSE 0

SquareOK(s) ==
    Squaring =>
        /\ changed \/ s.square = reading * reading
        /\ SquaresFrom <= Latest /\ s.duration = Latest - SquaresFrom
        /\ s.area = IntegralIn(trace, Squares, SquaresFrom, Latest)

\* The ring holds a list of areas in the order of time.
RingIs(s, areas) ==
    /\ s.place \in 0 .. design.rms - 1 /\ s.count \in 0 .. design.rms
    /\ s.count < design.rms => s.place = s.count
    /\ areas \in Seq(Int) /\ s.count = Len(areas) /\ s.total = Total(areas)
    /\ \A i \in 1 .. s.count : areas[i] = s.ring[(s.place - s.count + i - 1) % design.rms]
RingOK(s) == Squaring => RingIs(s, squares)

\* The conversions since the last interrupt, in order.
Converted(n) ==
    [m \in 1 .. n |-> [t |-> ClockAt(design.sampling, FirstConversion + m - 1),
                       value |-> trace[ClockAt(design.sampling, FirstConversion + m - 1)].seen]]

PositionOK(s) ==
    LET c == NextConversion(s)
        before == ClockAt(design.sampling, c - 1)
        next == ClockAt(design.sampling, c)
    IN  /\ IF pc = "sense"
           THEN before < time \/ (before = time /\ time = began /\ ~Independent)
           ELSE before <= time
        /\ IF pc = "sense" THEN time <= next ELSE time < next
        /\ c >= FirstConversion
        /\ s.peeks = Converted(c - FirstConversion)
        /\ \A m \in 1 .. c - FirstConversion :
              ClockAt(design.sampling, FirstConversion + m - 1) \in DOMAIN trace

ConversionsOK(s) ==
    /\ design.kind # "squares" => PositionOK(s)
    /\ design.kind = "squares" => s.peeks = <<>> /\ s.taken = 1
    /\ Independent => s.taken = 1
    /\ ~Independent => s.index = 0 /\ s.held = 0

PublishedOK ==
    /\ published.t \in Int /\ published.t <= time
    /\ pc = "sense" => published.t < time
    /\ MeanIsOfWindow /\ SamplesAreComplete

SamplerInv ==
    /\ TimesOK /\ TraceOK /\ adc \in Adc /\ MeanOK(adc) /\ AnchorOK(adc) /\ SquareOK(adc)
    /\ RingOK(adc) /\ ConversionsOK(adc) /\ PublishedOK

----------------------------------------------------------------------------
(***************************************************************************)
(* What the methods of the ADC leave alone and what they change.           *)
(***************************************************************************)
KeepsMean(r, s) == r.sum = s.sum /\ r.last = s.last /\ r.open = s.open
KeepsAnchor(r, s) == r.anchored = s.anchored /\ r.upto = s.upto
KeepsSquare(r, s) == r.square = s.square /\ r.area = s.area /\ r.duration = s.duration
KeepsRing(r, s) ==
    r.ring = s.ring /\ r.place = s.place /\ r.count = s.count /\ r.total = s.total
KeepsConversions(r, s) ==
    r.peeks = s.peeks /\ r.taken = s.taken /\ r.index = s.index /\ r.held = s.held

\* ADC.accumulate_to.
LEMMA AccumulateIs ==
    ASSUME NEW s \in Adc, NEW t \in Int, NEW value \in Int, t > s.upto
    PROVE  LET r == Accumulate(s, t, value)
               dt == t - s.upto
           IN  /\ r \in Adc /\ KeepsRing(r, s) /\ KeepsConversions(r, s)
               /\ r.anchored = s.anchored /\ r.open = s.open /\ r.upto = t
               /\ r.last = IF Averaging THEN value ELSE s.last
               /\ r.sum = IF Averaging /\ s.open THEN s.sum + dt * (s.last + value) ELSE s.sum
               /\ Squaring => /\ r.square = value * value /\ r.duration = s.duration + dt
                              /\ r.area = s.area + dt * (s.square + value * value)
<1> DEFINE dt == t - s.upto
           v2 == value * value
           strip == dt * (s.last + value)
           square == dt * (s.square + v2)
           sum == IF s.open THEN s.sum + strip ELSE s.sum
           a == IF ~Averaging THEN s ELSE [s EXCEPT !.sum = sum, !.last = value]
<1>1. /\ s.upto \in Int /\ s.last \in Int /\ s.square \in Int /\ s.sum \in Int
      /\ s.area \in Int /\ s.duration \in Int
  BY DEF Adc
<1>2. dt \in Int /\ dt > 0 /\ v2 \in Int
  BY <1>1
<1>3. strip \in Int /\ square \in Int
  <2> HIDE DEF dt, v2
  <2> QED
    BY <1>1, <1>2
<1>4. Accumulate(s, t, value)
        = IF Squaring THEN [a EXCEPT !.area = @ + square, !.duration = @ + dt,
                                     !.square = v2, !.upto = t]
          ELSE [a EXCEPT !.upto = t]
  <2>1. dt # 0
    BY <1>2
  <2>2. a = IF ~Averaging \/ dt = 0 THEN s
            ELSE [s EXCEPT !.sum = IF s.open THEN @ + strip ELSE @, !.last = value]
    BY <2>1, Zenon
  <2> HIDE DEF a
  <2>3. Accumulate(s, t, value)
          = IF Squaring /\ dt > 0
            THEN [a EXCEPT !.area = @ + square, !.duration = @ + dt, !.square = v2, !.upto = t]
            ELSE [a EXCEPT !.upto = t]
    BY <2>2, Zenon DEF Accumulate
  <2> QED
    BY <1>2, <2>3, Zenon
<1> HIDE DEF dt, v2, strip, square
<1>5. sum \in Int
  BY <1>1, <1>3
<1>6. /\ a \in Adc /\ KeepsRing(a, s) /\ KeepsConversions(a, s) /\ KeepsSquare(a, s)
      /\ a.anchored = s.anchored /\ a.open = s.open /\ a.upto = s.upto
      /\ a.last = (IF Averaging THEN value ELSE s.last)
      /\ a.sum = (IF Averaging /\ s.open THEN s.sum + strip ELSE s.sum)
  <2> HIDE DEF sum
  <2>1. CASE Averaging
    <3>1. a = [s EXCEPT !.sum = sum, !.last = value]
      BY <2>1
    <3> HIDE DEF a
    <3>2. a \in Adc
      BY <3>1, <1>5 DEF Adc
    <3>3. /\ KeepsRing(a, s) /\ KeepsConversions(a, s) /\ KeepsSquare(a, s)
          /\ a.anchored = s.anchored /\ a.open = s.open /\ a.upto = s.upto
          /\ a.last = value /\ a.sum = sum
      BY <3>1 DEF Adc, KeepsRing, KeepsConversions, KeepsSquare
    <3> QED
      BY <2>1, <3>2, <3>3 DEF sum
  <2>2. CASE ~Averaging
    <3>1. a = s
      BY <2>2
    <3> HIDE DEF a
    <3> QED
      BY <2>2, <3>1 DEF KeepsRing, KeepsConversions, KeepsSquare
  <2> QED
    BY <2>1, <2>2
<1> HIDE DEF a, sum
<1>7. CASE Squaring
  <2> DEFINE r == [a EXCEPT !.area = @ + square, !.duration = @ + dt, !.square = v2, !.upto = t]
  <2>1. a.area \in Int /\ a.duration \in Int /\ a.area = s.area /\ a.duration = s.duration
    BY <1>6 DEF Adc, KeepsSquare
  <2> DEFINE area == a.area + square
             duration == a.duration + dt
  <2>2. r \in Adc
    <3>1. r = [a EXCEPT !.area = area, !.duration = duration, !.square = v2, !.upto = t]
      BY <1>6, Zenon DEF Adc
    <3>2. area \in Int /\ duration \in Int
      BY <1>2, <1>3, <2>1
    <3> HIDE DEF area, duration, r
    <3> QED
      BY <1>2, <1>6, <3>1, <3>2 DEF Adc
  <2>3. /\ KeepsRing(r, a) /\ KeepsConversions(r, a) /\ KeepsMean(r, a)
        /\ r.anchored = a.anchored /\ r.upto = t
        /\ r.square = v2 /\ r.duration = s.duration + dt /\ r.area = s.area + square
    BY <1>6, <2>1 DEF Adc, KeepsRing, KeepsConversions, KeepsMean
  <2>4. Accumulate(s, t, value) = r
    BY <1>4, <1>7
  <2> HIDE DEF r
  <2> QED
    BY <1>6, <2>2, <2>3, <2>4
    DEF KeepsRing, KeepsConversions, KeepsMean, dt, v2, strip, square
<1>8. CASE ~Squaring
  <2> DEFINE r == [a EXCEPT !.upto = t]
  <2>1. r \in Adc
    BY <1>6 DEF Adc
  <2>2. /\ KeepsRing(r, a) /\ KeepsConversions(r, a) /\ KeepsMean(r, a)
        /\ r.anchored = a.anchored /\ r.upto = t
    BY <1>6 DEF Adc, KeepsRing, KeepsConversions, KeepsMean
  <2>3. Accumulate(s, t, value) = r
    BY <1>4, <1>8
  <2> HIDE DEF r
  <2> QED
    BY <1>6, <1>8, <2>1, <2>2, <2>3
    DEF KeepsRing, KeepsConversions, KeepsMean, dt, v2, strip, square
<1> QED
  BY <1>7, <1>8

\* ADC.seed.
LEMMA SeedIs ==
    ASSUME NEW s \in Adc, NEW value \in Int
    PROVE  LET r == Seed(s, value)
           IN  /\ r \in Adc /\ KeepsRing(r, s) /\ KeepsConversions(r, s)
               /\ r.sum = s.sum /\ r.open = s.open /\ r.upto = s.upto /\ r.anchored = TRUE
               /\ r.area = s.area /\ r.duration = s.duration
               /\ r.last = IF Averaging THEN value ELSE s.last
               /\ r.square = IF Squaring THEN value * value ELSE s.square
<1> DEFINE v2 == value * value
           l == IF Averaging THEN value ELSE s.last
           quo == IF Squaring THEN v2 ELSE s.square
           r == [s EXCEPT !.last = l, !.square = quo, !.anchored = TRUE]
<1>1. Seed(s, value) = r
  BY DEF Seed
<1>2. v2 \in Int
  OBVIOUS
<1> HIDE DEF v2
<1>3. l \in Int /\ quo \in Int
  BY <1>2 DEF Adc
<1> HIDE DEF l, quo
<1>4. r \in Adc
  BY <1>3 DEF Adc
<1>5. /\ KeepsRing(r, s) /\ KeepsConversions(r, s)
      /\ r.sum = s.sum /\ r.open = s.open /\ r.upto = s.upto /\ r.anchored = TRUE
      /\ r.area = s.area /\ r.duration = s.duration /\ r.last = l /\ r.square = quo
  BY DEF Adc, KeepsRing, KeepsConversions
<1> HIDE DEF r
<1> QED
  BY <1>1, <1>4, <1>5 DEF l, quo, v2

\* ADC.open.
LEMMA OpenIs ==
    ASSUME NEW s \in Adc
    PROVE  LET r == Open(s)
           IN  /\ r \in Adc /\ KeepsRing(r, s) /\ KeepsConversions(r, s) /\ KeepsSquare(r, s)
               /\ KeepsAnchor(r, s) /\ r.last = s.last /\ r.sum = 0 /\ r.open = TRUE
<1> DEFINE z == 0
           r == [s EXCEPT !.sum = z, !.open = TRUE]
<1>1. Open(s) = r /\ z \in Int
  BY DEF Open
<1> HIDE DEF z
<1>2. r \in Adc
  BY <1>1 DEF Adc
<1>3. /\ KeepsRing(r, s) /\ KeepsConversions(r, s) /\ KeepsSquare(r, s)
      /\ KeepsAnchor(r, s) /\ r.last = s.last /\ r.sum = z /\ r.open = TRUE
  BY DEF Adc, KeepsRing, KeepsConversions, KeepsSquare, KeepsAnchor
<1> HIDE DEF r
<1> QED
  BY <1>1, <1>2, <1>3 DEF z

\* ADC.peek and ADC.convert.
LEMMA ConversionIs ==
    ASSUME NEW s \in Adc, NEW t \in Int, NEW value \in Int
    PROVE  LET p == Peek(s, t, value)
               c == Convert(s, t, value)
               peeks == Append(s.peeks, [t |-> t, value |-> value])
           IN  /\ p \in Adc /\ KeepsMean(p, s) /\ KeepsAnchor(p, s) /\ KeepsSquare(p, s)
               /\ KeepsRing(p, s) /\ p.peeks = peeks /\ p.taken = s.taken + 1
               /\ p.index = s.index /\ p.held = s.held
               /\ c \in Adc /\ KeepsMean(c, s) /\ KeepsAnchor(c, s) /\ KeepsSquare(c, s)
               /\ KeepsRing(c, s) /\ c.peeks = peeks /\ c.taken = s.taken
               /\ c.index = s.index + 1 /\ c.held = value
<1> DEFINE peeks == Append(s.peeks, [t |-> t, value |-> value])
           taken == s.taken + 1
           index == s.index + 1
           p == [s EXCEPT !.peeks = peeks, !.taken = taken]
           c == [s EXCEPT !.peeks = peeks, !.held = value, !.index = index]
<1>1. Peek(s, t, value) = p /\ Convert(s, t, value) = c
  <2>1. Peek(s, t, value) = p
    BY DEF Peek, Adc
  <2>2. Convert(s, t, value) = c
    BY DEF Convert, Adc
  <2> QED
    BY <2>1, <2>2
<1>2. peeks \in Peeks /\ taken \in Int /\ index \in Int
  <2>1. s.peeks \in Peeks /\ s.taken \in Int /\ s.index \in Int
    BY DEF Adc
  <2> QED
    BY <2>1 DEF Peeks
<1> HIDE DEF peeks, taken, index
<1>3. p \in Adc /\ c \in Adc
  BY <1>2 DEF Adc
<1>4. /\ KeepsMean(p, s) /\ KeepsAnchor(p, s) /\ KeepsSquare(p, s)
      /\ KeepsRing(p, s) /\ p.peeks = peeks /\ p.taken = taken
      /\ p.index = s.index /\ p.held = s.held
  BY DEF Adc, KeepsMean, KeepsAnchor, KeepsSquare, KeepsRing
<1>5. /\ KeepsMean(c, s) /\ KeepsAnchor(c, s) /\ KeepsSquare(c, s)
      /\ KeepsRing(c, s) /\ c.peeks = peeks /\ c.taken = s.taken
      /\ c.index = index /\ c.held = value
  BY DEF Adc, KeepsMean, KeepsAnchor, KeepsSquare, KeepsRing
<1> HIDE DEF p, c
<1> QED
  BY <1>1, <1>3, <1>4, <1>5 DEF peeks, taken, index

\* The ring of whole periods after _RMSWindow.sample.
Counted(r, s) ==
    IF Squaring /\ s.duration >= ControlPeriod
    THEN /\ r.ring = [s.ring EXCEPT ![s.place] = s.area]
         /\ r.place = (s.place + 1) % design.rms
         /\ r.count = (IF s.count < design.rms THEN s.count + 1 ELSE s.count)
         /\ r.total = s.total + s.area - (IF s.count = design.rms THEN s.ring[s.place] ELSE 0)
    ELSE KeepsRing(r, s)

\* _RMSWindow.sample.
LEMMA SampleSquaresIs ==
    ASSUME design \in Designs, NEW s \in Adc, Squaring => s.place \in 0 .. design.rms - 1
    PROVE  LET r == SampleSquares(s)
           IN  /\ r \in Adc /\ KeepsMean(r, s) /\ KeepsAnchor(r, s) /\ KeepsConversions(r, s)
               /\ r.square = s.square /\ Counted(r, s)
               /\ Squaring => r.area = 0 /\ r.duration = 0
<1> DEFINE z == 0
           d == [s EXCEPT !.area = z, !.duration = z]
           old == IF s.count = design.rms THEN s.ring[s.place] ELSE 0
           ring == [s.ring EXCEPT ![s.place] = s.area]
           place == (s.place + 1) % design.rms
           count == IF s.count < design.rms THEN s.count + 1 ELSE s.count
           total == s.total + s.area - old
           r == [d EXCEPT !.ring = ring, !.place = place, !.count = count, !.total = total]
<1>1. /\ d \in Adc /\ KeepsMean(d, s) /\ KeepsAnchor(d, s) /\ KeepsConversions(d, s)
      /\ KeepsRing(d, s) /\ d.square = s.square /\ d.area = 0 /\ d.duration = 0
  <2>1. d \in Adc
    <3>1. z \in Int
      OBVIOUS
    <3> HIDE DEF z
    <3> QED
      BY <3>1 DEF Adc
  <2>2. /\ KeepsMean(d, s) /\ KeepsAnchor(d, s) /\ KeepsConversions(d, s)
        /\ KeepsRing(d, s) /\ d.square = s.square /\ d.area = 0 /\ d.duration = 0
    BY DEF Adc, KeepsMean, KeepsAnchor, KeepsConversions, KeepsRing
  <2> QED
    BY <2>1, <2>2
<1>2. CASE ~Squaring
  <2>1. SampleSquares(s) = s
    BY <1>2 DEF SampleSquares
  <2> QED
    BY <1>2, <2>1 DEF KeepsMean, KeepsAnchor, KeepsConversions, KeepsRing, Counted
<1>3. CASE Squaring /\ s.duration < ControlPeriod
  <2>1. SampleSquares(s) = d
    BY <1>3 DEF SampleSquares
  <2>2. ~(s.duration >= ControlPeriod)
    BY <1>3, DesignFacts DEF Adc
  <2> HIDE DEF d
  <2> QED
    BY <1>1, <2>1, <2>2 DEF Counted
<1>4. CASE Squaring /\ ~(s.duration < ControlPeriod)
  <2>1. s.duration >= ControlPeriod
    BY <1>4, DesignFacts DEF Adc
  <2>2. design.rms \in Nat /\ design.rms > 0 /\ s.place \in 0 .. design.rms - 1
    BY <1>4, DesignFacts DEF Squaring
  <2>3. ring \in Rings /\ s.ring[s.place] \in Int
    <3>1. s.ring \in Rings /\ s.area \in Int
      BY DEF Adc
    <3> QED
      BY <2>2, <3>1 DEF Rings
  <2>4. place \in Int /\ count \in Int /\ total \in Int
    <3>1. s.place + 1 \in Int /\ s.count \in Int /\ s.total \in Int /\ s.area \in Int
      BY DEF Adc
    <3>2. old \in Int
      BY <2>3
    <3> HIDE DEF old
    <3> QED
      BY <2>2, <3>1, <3>2
  <2>5. SampleSquares(s) = r
    <3>1. /\ d.ring = s.ring /\ d.place = s.place /\ d.count = s.count /\ d.total = s.total
      BY <1>1 DEF KeepsRing
    <3>2. SampleSquares(s) = [d EXCEPT !.ring[s.place] = s.area,
                                 !.place = (@ + 1) % design.rms,
                                 !.count = IF @ < design.rms THEN @ + 1 ELSE @,
                                 !.total = @ + s.area - old]
      BY <1>4 DEF SampleSquares
    <3> HIDE DEF d, old
    <3> QED
      BY <1>1, <3>1, <3>2 DEF Adc
  <2> HIDE DEF ring, place, count, total, d
  <2>6. r \in Adc
    BY <1>1, <2>3, <2>4 DEF Adc
  <2>7. /\ KeepsMean(r, d) /\ KeepsAnchor(r, d) /\ KeepsConversions(r, d) /\ KeepsSquare(r, d)
        /\ r.ring = ring /\ r.place = place /\ r.count = count /\ r.total = total
    BY <1>1 DEF Adc, KeepsMean, KeepsAnchor, KeepsConversions, KeepsSquare
  <2> HIDE DEF r
  <2>8. KeepsMean(r, s) /\ KeepsAnchor(r, s) /\ KeepsConversions(r, s)
        /\ r.square = s.square /\ r.area = 0 /\ r.duration = 0
    BY <1>1, <2>7 DEF KeepsMean, KeepsAnchor, KeepsConversions, KeepsSquare
  <2>9. Counted(r, s)
    BY <1>4, <2>1, <2>7 DEF Counted, ring, place, count, total
  <2> QED
    BY <2>5, <2>6, <2>8, <2>9
<1> QED
  BY <1>2, <1>3, <1>4

\* ADC.sample.
LEMMA SampledIs ==
    ASSUME design \in Designs, NEW s \in Adc, Squaring => s.place \in 0 .. design.rms - 1,
           NEW result, design.kind = "clocked" => result.value \in Int
    PROVE  LET r == Sampled(s, result)
           IN  /\ r \in Adc /\ KeepsAnchor(r, s) /\ r.last = s.last /\ r.square = s.square
               /\ Counted(r, s) /\ (Squaring => r.area = 0 /\ r.duration = 0)
               /\ r.sum = (IF Averaging THEN 0 ELSE s.sum)
               /\ r.open = (IF Averaging THEN Full ELSE s.open)
               /\ r.peeks = <<>> /\ r.taken = 1
               /\ r.index = (IF design.kind = "clocked" THEN s.index + 1 ELSE s.index)
               /\ design.kind # "clocked" => r.held = s.held
<1> DEFINE c == SampleSquares(s)
           f == Full
           zero == 0
           one == 1
           none == <<>>
           m == IF Averaging THEN [c EXCEPT !.sum = zero, !.open = f] ELSE c
           n == [m EXCEPT !.peeks = none, !.taken = one]
           index == s.index + 1
           r == [n EXCEPT !.held = result.value, !.index = index]
<1>1. /\ c \in Adc /\ KeepsMean(c, s) /\ KeepsAnchor(c, s) /\ KeepsConversions(c, s)
      /\ c.square = s.square /\ Counted(c, s)
      /\ Squaring => c.area = 0 /\ c.duration = 0
  BY SampleSquaresIs
<1>2. f \in BOOLEAN
  BY DEF Full
<1> HIDE DEF c, f
<1>3. /\ m \in Adc /\ KeepsAnchor(m, c) /\ KeepsConversions(m, c) /\ KeepsSquare(m, c)
      /\ KeepsRing(m, c) /\ m.last = c.last
      /\ m.sum = (IF Averaging THEN 0 ELSE c.sum)
      /\ m.open = (IF Averaging THEN f ELSE c.open)
  <2>1. CASE Averaging
    <3>1. m = [c EXCEPT !.sum = zero, !.open = f] /\ zero \in Int
      BY <2>1
    <3> HIDE DEF m
    <3>2. m \in Adc
      <4> HIDE DEF zero
      <4> QED
        BY <1>1, <1>2, <3>1 DEF Adc
    <3>3. /\ KeepsAnchor(m, c) /\ KeepsConversions(m, c) /\ KeepsSquare(m, c)
          /\ KeepsRing(m, c) /\ m.last = c.last /\ m.sum = 0
      BY <1>1, <3>1 DEF Adc, KeepsAnchor, KeepsConversions, KeepsSquare, KeepsRing
    <3>4. m.open = f
      BY <1>1, <3>1 DEF Adc
    <3> QED
      BY <2>1, <3>2, <3>3, <3>4
  <2>2. CASE ~Averaging
    <3>1. m = c
      BY <2>2
    <3> HIDE DEF m
    <3> QED
      BY <1>1, <2>2, <3>1 DEF KeepsAnchor, KeepsConversions, KeepsSquare, KeepsRing
  <2> QED
    BY <2>1, <2>2
<1> HIDE DEF m
<1>4. /\ n \in Adc /\ KeepsAnchor(n, m) /\ KeepsMean(n, m) /\ KeepsSquare(n, m)
      /\ KeepsRing(n, m) /\ n.peeks = <<>> /\ n.taken = 1
      /\ n.index = m.index /\ n.held = m.held
  <2>1. none \in Peeks /\ one \in Int
    BY DEF Peeks
  <2>2. n \in Adc
    <3> HIDE DEF none, one
    <3> QED
      BY <1>3, <2>1 DEF Adc
  <2>3. /\ KeepsAnchor(n, m) /\ KeepsMean(n, m) /\ KeepsSquare(n, m)
        /\ KeepsRing(n, m) /\ n.peeks = <<>> /\ n.taken = 1
        /\ n.index = m.index /\ n.held = m.held
    BY <1>3 DEF Adc, KeepsAnchor, KeepsMean, KeepsSquare, KeepsRing
  <2> QED
    BY <2>2, <2>3
<1>5. m.index = s.index /\ m.held = s.held /\ s.index \in Int
  BY <1>1, <1>3 DEF KeepsConversions, Adc
<1>6. Sampled(s, result) = IF design.kind = "clocked" THEN r ELSE n
  <2>1. n.index = s.index
    BY <1>4, <1>5
  <2>2. Sampled(s, result) = IF design.kind = "clocked"
           THEN [n EXCEPT !.held = result.value, !.index = @ + 1] ELSE n
    BY DEF Sampled, c, f, m
  <2> HIDE DEF n
  <2>3. [n EXCEPT !.held = result.value, !.index = @ + 1] = r
    BY <1>4, <2>1 DEF Adc
  <2> HIDE DEF r
  <2> QED
    BY <2>2, <2>3
<1> HIDE DEF n
<1>7. /\ KeepsAnchor(n, s) /\ n.last = s.last /\ n.square = s.square
      /\ Counted(n, s) /\ (Squaring => n.area = 0 /\ n.duration = 0)
      /\ n.sum = (IF Averaging THEN 0 ELSE s.sum)
      /\ n.open = (IF Averaging THEN f ELSE s.open)
      /\ n.peeks = <<>> /\ n.taken = 1 /\ n.index = s.index /\ n.held = s.held
  BY <1>1, <1>3, <1>4, <1>5 DEF KeepsAnchor, KeepsMean, KeepsSquare, KeepsRing, Counted
<1>8. CASE design.kind = "clocked"
  <2>1. index \in Int /\ result.value \in Int
    BY <1>5, <1>8
  <2> HIDE DEF index
  <2>2. r \in Adc
    BY <1>4, <2>1 DEF Adc
  <2>3. /\ KeepsAnchor(r, n) /\ KeepsMean(r, n) /\ KeepsSquare(r, n) /\ KeepsRing(r, n)
        /\ r.peeks = n.peeks /\ r.taken = n.taken /\ r.index = index
    BY <1>4 DEF Adc, KeepsAnchor, KeepsMean, KeepsSquare, KeepsRing
  <2>4. Sampled(s, result) = r
    BY <1>6, <1>8
  <2> HIDE DEF r
  <2>5. Counted(r, s)
    BY <1>7, <2>3 DEF Counted, KeepsRing
  <2> QED
    BY <1>7, <1>8, <2>2, <2>3, <2>4, <2>5
    DEF KeepsAnchor, KeepsMean, KeepsSquare, index, f
<1>9. CASE design.kind # "clocked"
  BY <1>4, <1>6, <1>7, <1>9 DEF f
<1> QED
  BY <1>8, <1>9

----------------------------------------------------------------------------
(***************************************************************************)
(* The ring of whole periods.                                              *)
(***************************************************************************)
\* A place of the ring, counted from one period before its first.
LEMMA RingPlace ==
    ASSUME NEW n \in Nat, n >= 1, NEW x \in -n .. n - 1
    PROVE  x % n = IF x >= 0 THEN x ELSE x + n
<1> DEFINE quo == x \div n
           m == x % n
<1>1. quo \in Int /\ m \in 0 .. n - 1 /\ x = n * quo + m
  OBVIOUS
<1> HIDE DEF quo, m
<1>2. quo >= 1 => n * quo >= n
  <2> SUFFICES ASSUME quo >= 1 PROVE n * quo >= n
    OBVIOUS
  <2>1. quo - 1 \in Nat /\ n * (quo - 1) >= 0
    BY <1>1
  <2>2. n * quo = n * (quo - 1) + n
    BY <1>1
  <2> QED
    BY <1>1, <2>1, <2>2
<1>3. quo <= -2 => n * quo <= -(2 * n)
  <2> SUFFICES ASSUME quo <= -2 PROVE n * quo <= -(2 * n)
    OBVIOUS
  <2> DEFINE cnt == (-2) - quo
  <2>1. cnt \in Nat /\ quo = (-2) - cnt
    BY <1>1
  <2> HIDE DEF cnt
  <2>2. n * cnt >= 0 /\ n * cnt \in Int
    BY <2>1
  <2>3. n * ((-2) - cnt) = (-(2 * n)) - n * cnt
    BY <2>1
  <2> QED
    BY <2>1, <2>2, <2>3
<1>4. n * quo \in Int /\ n * 0 = 0 /\ n * (-1) = -n
  BY <1>1
<1>5. quo = 0 \/ quo = -1
  <2>1. ~(quo >= 1) /\ ~(quo <= -2)
    <3> DEFINE y == n * quo
    <3>1. y \in Int /\ x = y + m
      BY <1>1, <1>4
    <3> HIDE DEF y
    <3>2. ~(y >= n) /\ ~(y <= -(2 * n))
      BY <1>1, <3>1
    <3> QED
      BY <1>2, <1>3, <3>2 DEF y
  <2> QED
    BY <1>1, <2>1
<1>6. CASE quo = 0
  <2>1. x = m
    BY <1>1, <1>4, <1>6
  <2> QED
    BY <1>1, <2>1 DEF m
<1>7. CASE quo = -1
  <2>1. x = (-n) + m
    BY <1>1, <1>4, <1>7
  <2>2. ~(x >= 0) /\ m = x + n
    BY <1>1, <2>1
  <2> QED
    BY <2>2 DEF m
<1> QED
  BY <1>5, <1>6, <1>7

\* A whole period replaces the oldest of a full ring.
LEMMA RingStep ==
    ASSUME design \in Designs, Squaring, NEW s \in Adc, NEW r \in Adc, NEW areas,
           RingIs(s, areas), s.duration >= ControlPeriod, Counted(r, s)
    PROVE  LET all == Append(areas, s.area)
           IN  RingIs(r, IF Len(all) > design.rms THEN Tail(all) ELSE all)
<1> DEFINE n == design.rms
           p == s.place
           c == s.count
           a == s.area
           ring == s.ring
           quo == r.place
           all == Append(areas, a)
<1>1. /\ n \in Nat /\ n >= 1 /\ a \in Int /\ s.total \in Int
      /\ ring \in [0 .. n - 1 -> Int]
  <2>1. n \in Nat /\ n > 0
    BY DesignFacts DEF Squaring
  <2>2. ring \in Rings /\ a \in Int /\ s.total \in Int
    BY DEF Adc
  <2> QED
    BY <2>1, <2>2 DEF Rings
<1>2. /\ p \in 0 .. n - 1 /\ c \in 0 .. n /\ (c < n => p = c)
      /\ areas \in Seq(Int) /\ c = Len(areas) /\ s.total = Total(areas)
      /\ \A i \in 1 .. c : areas[i] = ring[(p - c + i - 1) % n]
  BY DEF RingIs
<1>3. /\ r.ring = [ring EXCEPT ![p] = a] /\ quo = (p + 1) % n
      /\ r.count = (IF c < n THEN c + 1 ELSE c)
      /\ r.total = s.total + a - (IF c = n THEN ring[p] ELSE 0)
  BY DEF Counted
<1> HIDE DEF n, p, c, a, ring, quo
<1>4. /\ all \in Seq(Int) /\ Len(all) = c + 1 /\ all[c + 1] = a
      /\ \A i \in 1 .. c : all[i] = areas[i]
  BY <1>1, <1>2
<1>5. Total(all) = Total(areas) + a /\ Total(areas) \in Int
  BY <1>1, <1>2, TotalAppend
<1>6. \A x \in -n .. n - 1 : x % n = IF x >= 0 THEN x ELSE x + n
  BY <1>1, RingPlace
<1>7. \A x \in 0 .. n - 1 : r.ring[x] = IF x = p THEN a ELSE ring[x]
  BY <1>1, <1>3
<1>8. quo = IF p + 1 = n THEN 0 ELSE p + 1
  <2>1. CASE p + 1 = n
    <3>1. n % n = 0
      BY <1>1
    <3> QED
      BY <1>3, <2>1, <3>1
  <2>2. CASE p + 1 # n
    <3>1. p + 1 \in -n .. n - 1 /\ p + 1 >= 0
      BY <1>1, <1>2, <2>2
    <3> QED
      BY <1>3, <1>6, <2>2, <3>1
  <2> QED
    BY <2>1, <2>2
<1>9. CASE c < n
  <2>1. p = c /\ r.count = c + 1 /\ r.total = s.total + a
    BY <1>1, <1>2, <1>3, <1>9
  <2>2. \A i \in 1 .. c : areas[i] = ring[i - 1]
    <3> SUFFICES ASSUME NEW i \in 1 .. c PROVE areas[i] = ring[i - 1]
      OBVIOUS
    <3>1. i - 1 \in -n .. n - 1 /\ i - 1 >= 0 /\ p - c + i - 1 = i - 1
      BY <1>1, <1>2, <1>9, <2>1
    <3> QED
      BY <1>2, <1>6, <3>1
  <2>3. ASSUME NEW i \in 1 .. c + 1
        PROVE  (quo - r.count + i - 1) % n = i - 1
    <3>1. i - 1 \in -n .. n - 1 /\ i - 1 >= 0 /\ (i - 1) - n \in -n .. n - 1 /\ (i - 1) - n < 0
      BY <1>1, <1>2, <1>9
    <3>2. CASE p + 1 = n
      <4>1. quo = 0 /\ r.count = n
        BY <1>8, <2>1, <3>2
      <4>2. quo - r.count + i - 1 = (i - 1) - n
        BY <1>1, <4>1
      <4> DEFINE x == (i - 1) - n
      <4>3. x \in -n .. n - 1 /\ ~(x >= 0) /\ x + n = i - 1
        BY <1>1, <3>1
      <4>4. x % n = i - 1
        <5> HIDE DEF x
        <5> QED
          BY <1>6, <4>3
      <4> QED
        BY <4>2, <4>4
    <3>3. CASE p + 1 # n
      <4>1. quo = c + 1 /\ r.count = c + 1
        BY <1>8, <2>1, <3>3
      <4>2. quo - r.count + i - 1 = i - 1
        BY <1>2, <4>1
      <4> DEFINE x == i - 1
      <4>3. x \in -n .. n - 1 /\ x >= 0
        BY <3>1
      <4>4. x % n = x
        <5> HIDE DEF x
        <5> QED
          BY <1>6, <4>3
      <4> QED
        BY <4>2, <4>4
    <3> QED
      BY <3>2, <3>3
  <2>4. ASSUME NEW i \in 1 .. c + 1
        PROVE  all[i] = r.ring[(quo - r.count + i - 1) % n]
    <3>1. (quo - r.count + i - 1) % n = i - 1 /\ i - 1 \in 0 .. n - 1
      BY <1>1, <1>2, <1>9, <2>3
    <3>2. CASE i = c + 1
      <4>1. i - 1 = p
        BY <1>1, <1>2, <2>1, <3>2
      <4> QED
        BY <1>4, <1>7, <3>1, <3>2, <4>1
    <3>3. CASE i # c + 1
      <4>1. i \in 1 .. c /\ i - 1 # p
        BY <1>2, <2>1, <3>3
      <4> QED
        BY <1>4, <1>7, <2>2, <3>1, <4>1
    <3> QED
      BY <3>2, <3>3
  <2>5. quo \in 0 .. n - 1 /\ r.count \in 0 .. n /\ (r.count < n => quo = r.count)
    BY <1>1, <1>2, <1>8, <1>9, <2>1
  <2>6. RingIs(r, all)
    <3> HIDE DEF all
    <3> QED
      BY <1>1, <1>2, <1>4, <1>5, <2>1, <2>4, <2>5 DEF RingIs, quo, n
  <2>7. ~(Len(all) > n)
    BY <1>1, <1>2, <1>4, <1>9
  <2> HIDE DEF all
  <2> QED
    BY <2>6, <2>7 DEF all, n, a
<1>10. CASE c = n
  <2> DEFINE tail == Tail(all)
  <2>1. r.count = n /\ r.total = s.total + a - ring[p]
    BY <1>1, <1>3, <1>10
  <2>2. all # <<>> /\ Len(all) > n
    BY <1>1, <1>4, <1>10
  <2>3. tail \in Seq(Int) /\ Len(tail) = n /\ \A i \in 1 .. n : tail[i] = all[i + 1]
    <3> HIDE DEF all
    <3> QED
      BY <1>1, <1>4, <1>10, <2>2
  <2>4. areas[1] = ring[p]
    <3>1. p - n \in -n .. n - 1 /\ p - n < 0 /\ p - c + 1 - 1 = p - n /\ (p - n) + n = p
      BY <1>1, <1>2, <1>10
    <3>2. 1 \in 1 .. c
      BY <1>1, <1>10
    <3> QED
      BY <1>2, <1>6, <3>1, <3>2
  <2>5. Total(tail) = r.total
    <3>1. Total(tail) = Total(all) - all[1] /\ all[1] = areas[1]
      <4>1. Total(tail) = Total(all) - all[1]
        <5> HIDE DEF all
        <5> QED
          BY <1>4, <2>2, TotalTail
      <4>2. 1 \in 1 .. c
        BY <1>1, <1>10
      <4> QED
        BY <1>4, <4>1, <4>2
    <3>2. ring[p] \in Int
      BY <1>1, <1>2
    <3> HIDE DEF tail, all
    <3> QED
      BY <1>1, <1>2, <1>5, <2>1, <2>4, <3>1, <3>2
  <2>6. ASSUME NEW i \in 1 .. n
        PROVE  tail[i] = r.ring[(quo - n + i - 1) % n]
    <3>1. CASE i = n
      <4>1. tail[i] = a
        BY <1>4, <1>10, <2>3, <3>1
      <4>2. (quo - n + i - 1) % n = p
        <5>1. quo - n + i - 1 = p \/ (quo - n + i - 1 = -1 /\ p = n - 1)
          BY <1>1, <1>2, <1>8, <3>1
        <5>2. p \in -n .. n - 1 /\ p >= 0 /\ -1 \in -n .. n - 1 /\ ~(-1 >= 0)
          BY <1>1, <1>2
        <5>3. p % n = p /\ (-1) % n = n - 1
          <6>1. p % n = p
            BY <1>6, <5>2
          <6> DEFINE x == -1
          <6>2. x % n = x + n
            <7>1. x \in -n .. n - 1 /\ ~(x >= 0)
              BY <5>2
            <7> HIDE DEF x
            <7> QED
              BY <1>6, <7>1
          <6>3. x + n = n - 1
            BY <1>1
          <6> QED
            BY <6>1, <6>2, <6>3
        <5> QED
          BY <5>1, <5>3
      <4> QED
        BY <1>2, <1>7, <4>1, <4>2
    <3>2. CASE i # n
      <4> DEFINE x == p - n + i
                 y == IF x >= 0 THEN x ELSE x + n
      <4>1. i + 1 \in 1 .. c /\ x \in -n .. n - 1 /\ x \in Int
        BY <1>1, <1>2, <1>10, <3>2
      <4>2. tail[i] = ring[x % n]
        <5>1. p - c + (i + 1) - 1 = x
          BY <1>1, <1>2, <1>10, <4>1
        <5> QED
          BY <1>2, <1>4, <2>3, <4>1, <5>1
      <4>3. x % n = y
        BY <1>6, <4>1
      <4>4. y \in 0 .. n - 1 /\ y # p
        BY <1>1, <1>2, <3>2, <4>1
      <4>5. (quo - n + i - 1) % n = y
        <5>1. CASE p + 1 # n
          <6>1. quo - n + i - 1 = x
            BY <1>1, <1>2, <1>8, <5>1
          <6> QED
            BY <4>3, <6>1
        <5>2. CASE p + 1 = n
          <6>1. quo - n + i - 1 = (i - 1) - n /\ x = i - 1 /\ x >= 0
            BY <1>1, <1>2, <1>8, <5>2
          <6>2. (i - 1) - n \in -n .. n - 1 /\ ~((i - 1) - n >= 0) /\ ((i - 1) - n) + n = i - 1
            BY <1>1, <3>2
          <6>3. ((i - 1) - n) % n = i - 1
            BY <1>6, <6>2
          <6> QED
            BY <6>1, <6>3
        <5> QED
          BY <5>1, <5>2
      <4> HIDE DEF x, y
      <4> QED
        BY <1>7, <4>2, <4>3, <4>4, <4>5
    <3> QED
      BY <3>1, <3>2
  <2>7. quo \in 0 .. n - 1 /\ r.count \in 0 .. n
    BY <1>1, <1>2, <1>8, <2>1
  <2>8. RingIs(r, tail)
    <3> HIDE DEF tail, all
    <3> QED
      BY <1>1, <2>1, <2>3, <2>5, <2>6, <2>7 DEF RingIs, quo, n
  <2> HIDE DEF tail, all
  <2> QED
    BY <2>2, <2>8 DEF all, tail, n, a
<1> QED
  BY <1>1, <1>2, <1>9, <1>10

\* The ADC as built.
LEMMA BlankIs ==
           /\ Blank \in Adc /\ Blank.sum = 0 /\ Blank.last = 0 /\ Blank.upto = 0
           /\ Blank.anchored = FALSE /\ Blank.open = (~Averaging \/ Full)
           /\ Blank.peeks = <<>> /\ Blank.taken = 1 /\ Blank.index = 0 /\ Blank.held = 0
           /\ Blank.square = 0 /\ Blank.area = 0 /\ Blank.duration = 0
           /\ Blank.place = 0 /\ Blank.count = 0 /\ Blank.total = 0
<1> DEFINE ring == [i \in 0 .. (design.rms - 1) |-> 0]
           none == <<>>
           opened == ~Averaging \/ Full
<1>1. ring \in Rings /\ none \in Peeks /\ opened \in BOOLEAN
  BY DEF Rings, Peeks, Full
<1>2. Blank = [sum |-> 0, last |-> 0, upto |-> 0, anchored |-> FALSE,
               open |-> opened, peeks |-> none, taken |-> 1, index |-> 0,
               held |-> 0, square |-> 0, area |-> 0, duration |-> 0,
               ring |-> ring, place |-> 0, count |-> 0, total |-> 0]
  BY DEF Blank
<1> HIDE DEF ring, none, opened
<1>3. Blank \in Adc
  BY <1>1, <1>2 DEF Adc
<1> QED
  BY <1>2, <1>3 DEF none, opened

\* Two ADCs with the same fields are the same.
LEMMA SameAdc ==
    ASSUME NEW r \in Adc, NEW s \in Adc, KeepsMean(r, s), KeepsAnchor(r, s),
           KeepsSquare(r, s), KeepsRing(r, s), KeepsConversions(r, s)
    PROVE  r = s
BY DEF Adc, KeepsMean, KeepsAnchor, KeepsSquare, KeepsRing, KeepsConversions

\* ADC.get_state and ADC.set_state.
LEMMA RestoredIs ==
    ASSUME NEW s \in Adc
    PROVE  LET r == Restored(s)
           IN  /\ r \in Adc /\ KeepsSquare(r, s) /\ KeepsRing(r, s)
               /\ r.sum = (IF Accumulating THEN s.sum ELSE 0)
               /\ r.last = (IF Accumulating THEN s.last ELSE 0)
               /\ r.upto = (IF Accumulating THEN s.upto ELSE 0)
               /\ r.anchored = Accumulating
               /\ r.open = (~Averaging \/ Full) /\ r.peeks = <<>> /\ r.taken = 1 /\ r.index = 0
               /\ r.held = (IF Independent THEN s.held ELSE 0)
<1> DEFINE m == IF Accumulating
                THEN [Blank EXCEPT !.sum = s.sum, !.last = s.last, !.upto = s.upto,
                                   !.anchored = TRUE]
                ELSE Blank
           held == IF Independent THEN s.held ELSE m.held
           r == [m EXCEPT !.held = held, !.square = s.square, !.area = s.area,
                          !.duration = s.duration, !.ring = s.ring, !.place = s.place,
                          !.count = s.count, !.total = s.total]
<1>1. /\ m \in Adc /\ m.sum = (IF Accumulating THEN s.sum ELSE 0)
      /\ m.last = (IF Accumulating THEN s.last ELSE 0)
      /\ m.upto = (IF Accumulating THEN s.upto ELSE 0)
      /\ m.anchored = Accumulating /\ KeepsConversions(m, Blank) /\ m.open = Blank.open
  <2>1. CASE Accumulating
    <3>1. m = [Blank EXCEPT !.sum = s.sum, !.last = s.last, !.upto = s.upto, !.anchored = TRUE]
      BY <2>1
    <3> HIDE DEF m
    <3>2. m \in Adc
      BY <3>1, BlankIs DEF Adc
    <3>3. /\ m.sum = s.sum /\ m.last = s.last /\ m.upto = s.upto /\ m.anchored = TRUE
          /\ KeepsConversions(m, Blank) /\ m.open = Blank.open
      BY <3>1, BlankIs DEF Adc, KeepsConversions
    <3>4. m.anchored = Accumulating
      BY <2>1, <3>3 DEF Accumulating
    <3> QED
      BY <2>1, <3>2, <3>3, <3>4
  <2>2. CASE ~Accumulating
    <3>1. m = Blank
      BY <2>2
    <3> HIDE DEF m
    <3>2. m.anchored = Accumulating
      BY <2>2, <3>1, BlankIs DEF Accumulating
    <3> QED
      BY <2>2, <3>1, <3>2, BlankIs DEF KeepsConversions
  <2> QED
    BY <2>1, <2>2
<1>2. Restored(s) = r
  <2>1. Restored(s) = [m EXCEPT !.held = IF Independent THEN s.held ELSE @,
                  !.square = s.square, !.area = s.area, !.duration = s.duration,
                  !.ring = s.ring, !.place = s.place, !.count = s.count, !.total = s.total]
    BY Zenon DEF Restored
  <2> HIDE DEF m
  <2> QED
    BY <1>1, <2>1, Zenon DEF Adc
<1>3. held \in Int
  BY <1>1 DEF Adc
<1> HIDE DEF m, held
<1>4. r \in Adc
  BY <1>1, <1>3 DEF Adc
<1>5. /\ KeepsSquare(r, s) /\ KeepsRing(r, s) /\ r.sum = m.sum /\ r.last = m.last
      /\ r.upto = m.upto /\ r.anchored = m.anchored /\ r.open = m.open /\ r.peeks = m.peeks
      /\ r.taken = m.taken /\ r.index = m.index /\ r.held = held
  BY <1>1 DEF Adc, KeepsSquare, KeepsRing
<1> HIDE DEF r
<1>6. held = (IF Independent THEN s.held ELSE 0)
  BY <1>1, BlankIs DEF held, KeepsConversions
<1> QED
  BY <1>1, <1>2, <1>4, <1>5, <1>6, BlankIs DEF KeepsConversions

\* ADC.start.
LEMMA StartIs ==
    ASSUME design \in Designs, NEW s \in Adc, NEW t \in Int, NEW next \in Int,
           NEW value \in Int, NEW held \in BOOLEAN, Earlier(next - ControlPeriod, t, value) \in Peeks
    PROVE  LET r == Start(s, t, next, value, held)
           IN  /\ r \in Adc /\ KeepsAnchor(r, s) /\ KeepsSquare(r, s) /\ KeepsRing(r, s)
               /\ r.last = s.last
               /\ r.sum = s.sum + 2 * s.last * HeldBefore(s, t, next, held)
               /\ r.open = (~Averaging \/ Full \/ t >= next - design.window)
               /\ r.peeks = (IF Independent /\ ~held THEN <<>>
                             ELSE Earlier(next - ControlPeriod, t, value))
               /\ r.taken = (IF Independent THEN 1
                             ELSE (t - (next - ControlPeriod)) \div design.sampling.period + 1)
               /\ r.index = (IF Independent THEN StartIndex(design.sampling, t, ~held) ELSE 0)
               /\ r.held = (IF Independent /\ held THEN value ELSE s.held)
<1> DEFINE last == next - ControlPeriod
           opened == ~Averaging \/ Full \/ t >= next - design.window
           index == IF Independent THEN StartIndex(design.sampling, t, ~held) ELSE 0
           taken == IF Independent THEN 1 ELSE (t - last) \div design.sampling.period + 1
           before == HeldBefore(s, t, next, held)
           sum == s.sum + 2 * s.last * before
           peeks == IF Independent /\ ~held THEN <<>> ELSE Earlier(last, t, value)
           m == [s EXCEPT !.index = index, !.taken = taken, !.open = opened, !.sum = sum,
                          !.peeks = peeks]
           r == IF Independent /\ held THEN [m EXCEPT !.held = value] ELSE m
<1>1. Start(s, t, next, value, held) = r
  BY DEF Start, Adc
<1>2. peeks \in Peeks
  BY DEF Peeks
<1>3. opened \in BOOLEAN
  BY DEF Full
<1>4. index \in Int
  BY DesignFacts, IndexAfterSpec, IndexAtOrAfterSpec DEF StartIndex
<1>5. taken \in Int
  <2>1. t - last \in Int /\ design.sampling.period \in Nat /\ design.sampling.period >= 1
    BY DesignFacts
  <2> DEFINE x == t - last
  <2> HIDE DEF x, last
  <2>2. x \div design.sampling.period \in Int
    BY <2>1 DEF x
  <2> QED
    BY <2>2 DEF x
<1>6. sum \in Int
  <2>1. before \in Int
    BY DesignFacts DEF HeldBefore
  <2>2. s.last \in Int /\ s.sum \in Int
    BY DEF Adc
  <2>3. 2 * s.last \in Int
    BY <2>2
  <2> DEFINE x == 2 * s.last
  <2>4. x \in Int
    BY <2>3
  <2> HIDE DEF before, x
  <2>5. x * before \in Int
    BY <2>1, <2>4
  <2> QED
    BY <2>2, <2>5 DEF x
<1> HIDE DEF index, taken, opened, sum, peeks, last, before
<1>7. /\ m \in Adc /\ KeepsAnchor(m, s) /\ KeepsSquare(m, s) /\ KeepsRing(m, s)
      /\ m.last = s.last /\ m.sum = sum /\ m.open = opened /\ m.peeks = peeks
      /\ m.taken = taken /\ m.index = index /\ m.held = s.held
  <2>1. m \in Adc
    BY <1>2, <1>3, <1>4, <1>5, <1>6 DEF Adc
  <2>2. /\ KeepsAnchor(m, s) /\ KeepsSquare(m, s) /\ KeepsRing(m, s)
        /\ m.last = s.last /\ m.sum = sum /\ m.open = opened /\ m.peeks = peeks
        /\ m.taken = taken /\ m.index = index /\ m.held = s.held
    BY DEF Adc, KeepsAnchor, KeepsSquare, KeepsRing
  <2> QED
    BY <2>1, <2>2
<1> HIDE DEF m
<1>8. /\ r \in Adc /\ KeepsAnchor(r, m) /\ KeepsSquare(r, m) /\ KeepsRing(r, m)
      /\ r.last = m.last /\ r.sum = m.sum /\ r.open = m.open /\ r.peeks = m.peeks
      /\ r.taken = m.taken /\ r.index = m.index
      /\ r.held = (IF Independent /\ held THEN value ELSE m.held)
  <2>1. CASE Independent /\ held
    <3>1. r = [m EXCEPT !.held = value]
      BY <2>1
    <3> HIDE DEF r
    <3>2. r \in Adc
      BY <1>7, <3>1 DEF Adc
    <3> QED
      BY <1>7, <2>1, <3>1, <3>2 DEF Adc, KeepsAnchor, KeepsSquare, KeepsRing
  <2>2. CASE ~(Independent /\ held)
    <3>1. r = m
      BY <2>2
    <3> HIDE DEF r
    <3> QED
      BY <1>7, <2>2, <3>1 DEF KeepsAnchor, KeepsSquare, KeepsRing
  <2> QED
    BY <2>1, <2>2
<1> HIDE DEF r
<1> QED
  BY <1>1, <1>7, <1>8
  DEF KeepsAnchor, KeepsSquare, KeepsRing, index, taken, opened, sum, peeks, last, before

----------------------------------------------------------------------------
(***************************************************************************)
(* The invariant.                                                          *)
(***************************************************************************)
\* The latest instant is the one that no instant of the trace is after.
LEMMA LatestIs ==
    ASSUME NEW h, DOMAIN h \subseteq Int, NEW t \in DOMAIN h, \A u \in DOMAIN h : u <= t
    PROVE  (CHOOSE x \in DOMAIN h : \A u \in DOMAIN h : u <= x) = t
<1> DEFINE x == CHOOSE x \in DOMAIN h : \A u \in DOMAIN h : u <= x
<1>1. x \in DOMAIN h /\ \A u \in DOMAIN h : u <= x
  OBVIOUS
<1> HIDE DEF x
<1>2. x <= t /\ t <= x /\ x \in Int /\ t \in Int
  BY <1>1
<1> QED
  BY <1>2 DEF x

\* Readings and squares are functions of the channel.
LEMMA ReadingFunctions ==
           /\ Readings \in [Values -> Int] /\ Squares \in [Values -> Int]
           /\ \A v \in Values : v \in Int /\ Readings[v] = v /\ Squares[v] = v * v
<1>1. \A v \in Values : v \in Int /\ v * v \in Int
  BY DesignAssumption
<1> QED
  BY <1>1 DEF Readings, Squares

\* The numbers of a state.
LEMMA TimeFacts ==
    ASSUME TimesOK
    PROVE  /\ ControlPeriod \in Nat /\ ControlPeriod >= 1
           /\ LastIndex \in Int /\ LastControl \in Int /\ ControlTime \in Int
           /\ pc # "actuate" \/ time # ControlTime
                 => LastIndex = interrupt - 1 /\ ControlTime = LastControl + ControlPeriod
           /\ pc = "actuate" /\ time = ControlTime => LastIndex = interrupt /\ LastControl = time
           /\ design.window \in Nat /\ design.window <= ControlPeriod
           /\ WindowFrom \in Int /\ WindowFrom >= LastControl
           /\ WindowFrom = LastControl + ControlPeriod - design.window
           /\ SquaresFrom \in Int /\ SquaresFrom >= LastControl
           /\ FirstConversion \in Int /\ reading \in Int
<1>1. /\ design \in Designs /\ interrupt \in Int /\ time \in Nat /\ began \in Nat
      /\ reading \in Values
  BY DEF TimesOK
<1>2. /\ ControlPeriod \in Nat /\ ControlPeriod >= 1
      /\ design.control \in Clock /\ design.sampling \in Clock
      /\ design.window \in Nat /\ design.window <= ControlPeriod
  BY <1>1, DesignFacts
<1>3. LastIndex \in Int
  BY <1>1 DEF LastIndex
<1>4. LastControl \in Int /\ ControlTime \in Int
  BY <1>1, <1>2, <1>3, ClockStep DEF LastControl, ControlTime
<1>5. FirstConversion \in Int
  BY <1>2, <1>4, IndexAfterSpec DEF FirstConversion
<1>6. ClockAt(design.control, interrupt) = ClockAt(design.control, interrupt - 1) + ControlPeriod
  <2>1. ClockAt(design.control, interrupt - 1) = ClockAt(design.control, interrupt) - ControlPeriod
    BY <1>1, <1>2, ClockStep DEF ControlPeriod
  <2>2. ClockAt(design.control, interrupt) \in Int
    BY <1>1, <1>2, ClockStep
  <2> QED
    BY <1>2, <2>1, <2>2
<1>7. pc # "actuate" \/ time # ControlTime
         => LastIndex = interrupt - 1 /\ ControlTime = LastControl + ControlPeriod
  BY <1>6 DEF LastIndex, LastControl, ControlTime
<1>8. pc = "actuate" /\ time = ControlTime => LastIndex = interrupt /\ LastControl = time
  BY DEF LastIndex, LastControl, ControlTime
<1> QED
  BY <1>1, <1>2, <1>3, <1>4, <1>5, <1>7, <1>8, ReadingFunctions DEF WindowFrom, SquaresFrom

----------------------------------------------------------------------------
(***************************************************************************)
(* Time passes.                                                            *)
(***************************************************************************)
\* Where nothing changes, the invariant remains.
LEMMA SamplerStutters ==
    ASSUME SamplerInv, UNCHANGED samplerVars
    PROVE  SamplerInv'
BY DEF SamplerInv, samplerVars, TimesOK, TraceOK, MeanOK, AnchorOK, SquareOK, RingOK,
       ConversionsOK, PositionOK, PublishedOK, MeanIsOfWindow, SamplesAreComplete, JustSampled,
       Adc, Rings, LastIndex, LastControl, FirstConversion, NextConversion, WindowFrom,
       SquaresFrom, Latest, Converted, ControlPeriod, ControlTime, Averaging, Squaring,
       Accumulating, Independent, Samples, RingIs, IntegralOf, Strip, Conversions

\* While the unit is idle, nothing of it is due before its next conversion,
\* window and interrupt.
LEMMA NextDue ==
    ASSUME SamplerInv, pc = "idle", NEW t \in Int, t > time, ~Due(t)
    PROVE  /\ time + 1 = t => /\ t < LastControl + ControlPeriod
                              /\ Averaging /\ ~adc.open => t < WindowFrom
                              /\ design.kind # "squares" =>
                                    t < ClockAt(design.sampling, NextConversion(adc))
<1> SUFFICES ASSUME time + 1 = t
             PROVE  /\ t < LastControl + ControlPeriod
                    /\ Averaging /\ ~adc.open => t < WindowFrom
                    /\ design.kind # "squares" =>
                          t < ClockAt(design.sampling, NextConversion(adc))
  OBVIOUS
<1>1. /\ TimesOK /\ adc \in Adc /\ MeanOK(adc) /\ ConversionsOK(adc)
      /\ time \in Nat /\ design \in Designs /\ interrupt \in Int
  BY DEF SamplerInv, TimesOK
<1>2. /\ LastIndex = interrupt - 1 /\ ControlTime = LastControl + ControlPeriod
      /\ LastControl \in Int /\ ControlTime \in Int /\ ControlPeriod \in Nat
      /\ WindowFrom \in Int /\ WindowFrom = LastControl + ControlPeriod - design.window
      /\ design.window \in Nat
  BY <1>1, TimeFacts
<1>3. t # ControlTime /\ ~ConversionDue(adc, t) /\ ~PeekDue(adc, t)
      /\ ~OpensAt(adc, ControlTime, t)
  BY DEF Due
<1>4. t < LastControl + ControlPeriod
  <2>1. time < LastControl + ControlPeriod
    BY <1>1 DEF TimesOK
  <2> QED
    BY <1>1, <1>2, <1>3, <2>1
<1>5. Averaging /\ ~adc.open => t < WindowFrom
  <2> SUFFICES ASSUME Averaging, ~adc.open PROVE t < WindowFrom
    OBVIOUS
  <2>1. time < WindowFrom
    BY <1>1 DEF MeanOK
  <2>2. t # ControlTime - design.window
    BY <1>3 DEF OpensAt
  <2> QED
    BY <1>1, <1>2, <2>1, <2>2
<1>6. ASSUME design.kind # "squares"
      PROVE  t < ClockAt(design.sampling, NextConversion(adc))
  <2> DEFINE c == NextConversion(adc)
             next == ClockAt(design.sampling, c)
  <2>1. time < next
    BY <1>1, <1>6 DEF ConversionsOK, PositionOK
  <2>2. FirstConversion \in Int /\ adc.index \in Int /\ adc.taken \in Int
        /\ design.sampling \in Clock
    BY <1>1, TimeFacts, DesignFacts DEF Adc
  <2>3. c \in Int
    BY <2>2 DEF NextConversion
  <2>4. next \in Int
    BY <2>2, <2>3, ClockStep
  <2>5. t # next
    <3>1. CASE Independent
      <4>1. next = ClockAt(design.sampling, adc.index)
        BY <3>1 DEF NextConversion
      <4> QED
        BY <1>3, <3>1, <4>1 DEF ConversionDue, ClockDue
    <3>2. CASE ~Independent
      <4> SUFFICES ASSUME t = next PROVE FALSE
        OBVIOUS
      <4> DEFINE s == design.sampling.period
      <4>1. c = FirstConversion - 1 + adc.taken
        BY <2>2, <3>2 DEF NextConversion
      <4>2. /\ next = LastControl + adc.taken * s /\ ControlPeriod = Samples * s
            /\ s \in Nat /\ s >= 1 /\ Samples \in Nat
        <5>1. ClockAt(design.sampling, FirstConversion - 1 + adc.taken)
                 = LastControl + adc.taken * s
          BY <1>1, <1>2, <2>2, <3>2, AlignedConversions DEF FirstConversion, LastControl
        <5> QED
          BY <1>1, <4>1, <5>1, DesignFacts
      <4>3. t = ClockAt(design.control, interrupt - 1) + adc.taken * s
        BY <1>2, <4>2 DEF LastControl
      <4>4. adc.taken >= Samples
        BY <1>3, <2>2, <3>2, <4>2, <4>3 DEF PeekDue
      <4>5. adc.taken * s >= Samples * s
        <5> HIDE DEF s
        <5>1. adc.taken * s >= Samples * s
          <6> DEFINE d == adc.taken - Samples
          <6>1. d \in Nat /\ adc.taken = Samples + d
            BY <2>2, <4>2, <4>4
          <6> HIDE DEF d
          <6>2. (Samples + d) * s = Samples * s + d * s /\ d * s >= 0
                /\ d * s \in Int /\ Samples * s \in Int
            BY <4>2, <6>1
          <6> QED
            BY <6>1, <6>2
        <5> QED
          BY <5>1
      <4>6. t >= LastControl + ControlPeriod
        <5> DEFINE x == adc.taken * s
                   y == Samples * s
        <5>1. x \in Int /\ y \in Int
          <6> HIDE DEF s
          <6> QED
            BY <2>2, <4>2
        <5>2. t = LastControl + x /\ ControlPeriod = y /\ x >= y
          BY <4>2, <4>5
        <5> HIDE DEF x, y
        <5> QED
          BY <1>2, <5>1, <5>2
      <4> QED
        BY <1>2, <1>4, <4>6
    <3> QED
      BY <3>1, <3>2
  <2> HIDE DEF c, next
  <2>6. t < next
    BY <1>1, <2>1, <2>4, <2>5
  <2> QED
    BY <2>6 DEF c, next
<1> QED
  BY <1>4, <1>5, <1>6

\* The loop passes a tick where nothing is due.
LEMMA PassInv ==
    ASSUME SamplerInv, Pass
    PROVE  SamplerInv'
<1>1. /\ pc = "idle" /\ time' = time + 1 /\ ~Due(time + 1)
      /\ UNCHANGED <<pc, design, reading, interrupt, changed, adc, published, began, trace,
                     squares>>
  BY DEF Pass
<1>2. /\ TimesOK /\ TraceOK /\ adc \in Adc /\ MeanOK(adc) /\ AnchorOK(adc) /\ SquareOK(adc)
      /\ RingOK(adc) /\ ConversionsOK(adc) /\ PublishedOK
  BY DEF SamplerInv
<1>3. time \in Nat
  BY <1>2 DEF TimesOK
<1>4. /\ time + 1 < LastControl + ControlPeriod
      /\ Averaging /\ ~adc.open => time + 1 < WindowFrom
      /\ design.kind # "squares" => time + 1 < ClockAt(design.sampling, NextConversion(adc))
  <2>1. time + 1 \in Int /\ time + 1 > time
    BY <1>3
  <2> QED
    BY <1>1, <2>1, NextDue
<1>5. /\ LastIndex' = LastIndex /\ ControlPeriod' = ControlPeriod
      /\ ControlTime' = ControlTime /\ Latest' = Latest
  BY <1>1 DEF LastIndex, ControlPeriod, ControlTime, Latest
<1>6. LastControl' = LastControl
  BY <1>1, <1>5 DEF LastControl
<1>7. /\ FirstConversion' = FirstConversion /\ WindowFrom' = WindowFrom
      /\ SquaresFrom' = SquaresFrom /\ (Averaging <=> Averaging') /\ (Squaring <=> Squaring')
      /\ (Independent <=> Independent') /\ (Accumulating <=> Accumulating')
  BY <1>1, <1>5, <1>6 DEF FirstConversion, WindowFrom, SquaresFrom, Averaging, Squaring,
                          Independent, Accumulating
<1>8. LastControl \in Int /\ WindowFrom \in Int /\ Latest \in Int /\ published.t \in Int
  BY <1>2, TimeFacts DEF TraceOK, Instants, PublishedOK
<1>9. TimesOK'
  BY <1>1, <1>2, <1>3, <1>4, <1>5, <1>6, <1>8 DEF TimesOK
<1>10. TraceOK'
  BY <1>1, <1>2, <1>3, <1>5, <1>8 DEF TraceOK, TimesOK
<1>11. adc' \in Adc'
  BY <1>1, <1>2 DEF Adc, Rings
<1>12. MeanOK(adc)'
  <2>1. IntegralIn(trace, Readings, WindowFrom, Latest)'
           = IntegralIn(trace, Readings, WindowFrom, Latest)
    BY <1>1, <1>5, <1>7
  <2>2. ~adc.open /\ Averaging => time + 1 <= WindowFrom
    BY <1>3, <1>4, <1>8
  <2> QED
    BY <1>1, <1>2, <1>4, <1>5, <1>7, <2>1, <2>2 DEF MeanOK
<1>13. AnchorOK(adc)' /\ SquareOK(adc)'
  <2>1. AnchorOK(adc)'
    BY <1>1, <1>2, <1>5, <1>7 DEF AnchorOK
  <2>2. SquareOK(adc)'
    BY <1>1, <1>2, <1>5, <1>7 DEF SquareOK
  <2> QED
    BY <2>1, <2>2
<1>14. RingOK(adc)'
  BY <1>1, <1>2, <1>7 DEF RingOK, RingIs
<1>15. ConversionsOK(adc)'
  <2>1. NextConversion(adc)' = NextConversion(adc)
    BY <1>1, <1>7 DEF NextConversion
  <2>2. \A n : Converted(n)' = Converted(n)
    BY <1>1, <1>7 DEF Converted
  <2>3. design.kind # "squares" => PositionOK(adc)'
    <3> SUFFICES ASSUME design.kind # "squares" PROVE PositionOK(adc)'
      OBVIOUS
    <3> DEFINE c == NextConversion(adc)
               before == ClockAt(design.sampling, c - 1)
    <3>1. PositionOK(adc)
      BY <1>2 DEF ConversionsOK
    <3>2. before <= time
      BY <1>1, <3>1 DEF PositionOK
    <3>3. before \in Int
      <4>1. FirstConversion \in Int /\ adc.index \in Int /\ adc.taken \in Int
            /\ design.sampling \in Clock
        BY <1>2, TimeFacts, DesignFacts DEF Adc, TimesOK
      <4>2. c - 1 \in Int
        BY <4>1 DEF NextConversion
      <4> QED
        BY <4>1, <4>2, ClockStep
    <3>4. before <= time + 1
      BY <1>3, <3>2, <3>3
    <3> QED
      BY <1>1, <1>4, <1>7, <2>1, <2>2, <3>1, <3>4 DEF PositionOK
  <2> QED
    BY <1>1, <1>2, <1>7, <2>3 DEF ConversionsOK
<1>16. PublishedOK'
  BY <1>1, <1>2, <1>3, <1>8 DEF PublishedOK, MeanIsOfWindow, SamplesAreComplete, JustSampled
<1> QED
  BY <1>9, <1>10, <1>11, <1>12, <1>13, <1>14, <1>15, <1>16 DEF SamplerInv

\* What the invariant says of a conversion before now.
LEMMA ConversionFacts ==
    ASSUME TimesOK, adc \in Adc
    PROVE  /\ NextConversion(adc) \in Int /\ design.sampling \in Clock
           /\ ClockAt(design.sampling, NextConversion(adc)) \in Int
           /\ ClockAt(design.sampling, NextConversion(adc) - 1) \in Int
           /\ LastControl < ClockAt(design.sampling, FirstConversion)
           /\ \A m \in 1 .. NextConversion(adc) - FirstConversion :
                 LET t == ClockAt(design.sampling, FirstConversion + m - 1)
                 IN  /\ t \in Int /\ LastControl < t
                     /\ t <= ClockAt(design.sampling, NextConversion(adc) - 1)
<1> DEFINE c == NextConversion(adc)
<1>1. /\ FirstConversion \in Int /\ adc.index \in Int /\ adc.taken \in Int
      /\ design.sampling \in Clock /\ LastControl \in Int
  BY TimeFacts, DesignFacts DEF Adc, TimesOK
<1>2. c \in Int /\ c - 1 \in Int
  BY <1>1 DEF NextConversion
<1>3. LastControl < ClockAt(design.sampling, FirstConversion)
  BY <1>1, IndexAfterSpec DEF FirstConversion
<1>4. ASSUME NEW m \in 1 .. c - FirstConversion
      PROVE  LET t == ClockAt(design.sampling, FirstConversion + m - 1)
             IN  /\ t \in Int /\ LastControl < t
                 /\ t <= ClockAt(design.sampling, c - 1)
  <2> DEFINE ix == FirstConversion + m - 1
  <2>1. ix \in Int /\ FirstConversion <= ix /\ ix <= c - 1
    BY <1>1, <1>2
  <2> HIDE DEF ix, c
  <2>2. /\ ClockAt(design.sampling, ix) \in Int
        /\ ClockAt(design.sampling, FirstConversion) \in Int
        /\ ClockAt(design.sampling, FirstConversion) <= ClockAt(design.sampling, ix)
    BY <1>1, <2>1, ClockOrder
  <2>3. ClockAt(design.sampling, ix) <= ClockAt(design.sampling, c - 1)
    BY <1>1, <1>2, <2>1, ClockOrder
  <2>4. LastControl < ClockAt(design.sampling, ix)
    BY <1>1, <1>3, <2>2
  <2> QED
    BY <2>2, <2>3, <2>4 DEF ix
<1>5. ClockAt(design.sampling, c) \in Int /\ ClockAt(design.sampling, c - 1) \in Int
  BY <1>1, <1>2, ClockStep
<1> QED
  BY <1>1, <1>2, <1>3, <1>4, <1>5

\* The trace after the loop stopped at an instant.
Extended(g, value, new) ==
    /\ g = [t \in {u \in DOMAIN trace : u >= (time + 1) - ControlPeriod} \cup {time + 1} |->
               IF t # time + 1 THEN trace[t]
               ELSE [since |-> Latest, first |-> reading, last |-> value, seen |-> new]]

\* The new trace has its latest instant there, and the old ones of the period.
LEMMA ExtendedIs ==
    ASSUME TimesOK, TraceOK, pc = "idle", NEW value \in Values, NEW new \in Values,
           NEW g, Extended(g, value, new)
    PROVE  /\ Instants(g) /\ time + 1 \in DOMAIN g /\ \A u \in DOMAIN g : u <= time + 1
           /\ g[time + 1] = [since |-> Latest, first |-> reading, last |-> value, seen |-> new]
           /\ SameInstants(g, trace, (time + 1) - ControlPeriod, time)
           /\ Latest \in Int /\ Latest <= time /\ NoInstants(g, Latest + 1, time)
<1> DEFINE old == {u \in DOMAIN trace : u >= (time + 1) - ControlPeriod}
           entry == [since |-> Latest, first |-> reading, last |-> value, seen |-> new]
           t == time + 1
<1>1. /\ Instants(trace) /\ Latest \in Int /\ Latest <= time
      /\ \A u \in DOMAIN trace : u \in Int /\ u <= Latest
  BY DEF TraceOK, Instants
<1>2. time \in Nat /\ reading \in Values
  BY DEF TimesOK
<1>3. /\ DOMAIN g = old \cup {t}
      /\ \A u \in old : u \in DOMAIN g /\ (u # t => g[u] = trace[u])
      /\ t \in DOMAIN g /\ g[t] = entry
  <2> HIDE DEF entry
  <2>1. g = [u \in old \cup {t} |-> IF u # t THEN trace[u] ELSE entry]
    BY DEF Extended, entry
  <2> HIDE DEF old
  <2> QED
    BY <2>1
<1>4. \A u \in old : u \in DOMAIN trace /\ u \in Int /\ u <= Latest /\ u # t
  BY <1>1, <1>2
<1>5. /\ entry.since \in Int /\ entry.first \in Values /\ entry.last \in Values
      /\ entry.seen \in Values
  BY <1>1, <1>2
<1>6. Instants(g)
  <2>1. DOMAIN g \subseteq Int
    BY <1>2, <1>3, <1>4
  <2>2. ASSUME NEW u \in DOMAIN g
        PROVE  /\ g[u].since \in Int /\ g[u].first \in Values
               /\ g[u].last \in Values /\ g[u].seen \in Values
    <3>1. CASE u = t
      <4> HIDE DEF entry
      <4> QED
        BY <1>3, <1>5, <3>1
    <3>2. CASE u # t
      <4>1. u \in old
        BY <1>3, <3>2
      <4>2. g[u] = trace[u] /\ u \in DOMAIN trace
        BY <1>3, <1>4, <3>2, <4>1
      <4> QED
        BY <1>1, <4>2 DEF Instants
    <3> QED
      BY <3>1, <3>2
  <2> QED
    BY <2>1, <2>2 DEF Instants
<1>7. \A u \in DOMAIN g : u <= t
  BY <1>1, <1>2, <1>3, <1>4
<1>8. SameInstants(g, trace, t - ControlPeriod, time)
  <2> SUFFICES ASSUME NEW u \in t - ControlPeriod .. time
               PROVE  /\ u \in DOMAIN g <=> u \in DOMAIN trace
                      /\ u \in DOMAIN g => g[u] = trace[u]
    BY DEF SameInstants
  <2>1. u # t /\ u >= t - ControlPeriod
    <3>1. ControlPeriod \in Int
      BY TimeFacts
    <3> QED
      BY <1>2, <3>1
  <2>2. u \in DOMAIN g <=> u \in old
    BY <1>3, <2>1
  <2>3. u \in old <=> u \in DOMAIN trace
    BY <2>1, Zenon
  <2>4. u \in old => g[u] = trace[u]
    BY <1>3, <2>1
  <2> QED
    BY <2>2, <2>3, <2>4
<1>9. NoInstants(g, Latest + 1, time)
  BY <1>1, <1>2, <1>3, <1>4 DEF NoInstants
<1> HIDE DEF old, entry
<1> QED
  BY <1>1, <1>3, <1>6, <1>7, <1>8, <1>9, Zenon DEF entry

\* An integral since then goes on to the new instant.
LEMMA IntegralToInstant ==
    ASSUME TimesOK, TraceOK, pc = "idle", NEW value \in Values, NEW new \in Values,
           NEW g, Extended(g, value, new), NEW of \in [Values -> Int],
           NEW from \in Int, from <= Latest, from >= (time + 1) - ControlPeriod
    PROVE  /\ IntegralIn(trace, of, from, Latest) \in Int
           /\ IntegralIn(g, of, from, time + 1)
                = IntegralIn(trace, of, from, Latest) + ((time + 1) - Latest) * (of[reading] + of[value])
<1> DEFINE t == time + 1
           l == Latest
<1>1. /\ Instants(g) /\ t \in DOMAIN g /\ Instants(trace)
      /\ g[t] = [since |-> Latest, first |-> reading, last |-> value, seen |-> new]
      /\ SameInstants(g, trace, t - ControlPeriod, time)
      /\ l \in Int /\ l <= time /\ NoInstants(g, l + 1, time)
  <2>1. Instants(trace)
    BY DEF TraceOK
  <2> QED
    BY <2>1, ExtendedIs, Zenon
<1>2. time \in Nat /\ ControlPeriod \in Nat
  BY TimeFacts DEF TimesOK
<1>3. g[t].since = l /\ g[t].first = reading /\ g[t].last = value
  BY <1>1
<1>4. /\ t \in Int /\ l < t /\ t - 1 = time
      /\ SameInstants(g, trace, from + 1, l)
  BY <1>1, <1>2 DEF SameInstants
<1> HIDE DEF t, l
<1>5. NoInstants(g, l + 1, t - 1)
  BY <1>1, <1>4
<1>6. from <= l
  BY DEF l
<1>9. Instants(trace) /\ Instants(g) /\ t \in DOMAIN g /\ g[t].since = l /\ l \in Int
  BY <1>1, <1>3
<1>7. /\ IntegralIn(trace, of, from, l) \in Int
      /\ IntegralIn(g, of, from, t)
           = IntegralIn(trace, of, from, l) + (t - l) * (of[g[t].first] + of[g[t].last])
  <2>1. l < t /\ SameInstants(g, trace, from + 1, l) /\ t \in Int
    BY <1>4
  <2>2. \A h, h2 : /\ Instants(h) /\ Instants(h2) /\ t \in DOMAIN h2 /\ h2[t].since = l
                  /\ SameInstants(h2, h, from + 1, l) /\ NoInstants(h2, l + 1, t - 1)
           => /\ IntegralIn(h, of, from, l) \in Int
              /\ IntegralIn(h2, of, from, t)
                   = IntegralIn(h, of, from, l) + (t - l) * (of[h2[t].first] + of[h2[t].last])
    BY <1>6, <1>9, <2>1, IntegralGoesOn
  <2> QED
    BY <1>5, <1>9, <2>1, <2>2, Zenon
<1>8. IntegralIn(g, of, from, t)
        = IntegralIn(trace, of, from, l) + (t - l) * (of[reading] + of[value])
  BY <1>3, <1>7, Zenon
<1> QED
  BY <1>7, <1>8, Zenon DEF t, l

\* The loop stops at an instant and the unit integrates up to it.
LEMMA ArriveInv ==
    ASSUME SamplerInv, Arrive
    PROVE  SamplerInv'
<1>1. /\ pc = "idle" /\ time' = time + 1 /\ pc' = "sense"
      /\ UNCHANGED <<design, interrupt, published, began, squares>>
  BY DEF Arrive
<1>2. PICK value \in Values, new \in Values :
         /\ reading' = new /\ changed' = (value # new)
         /\ adc' = IF Accumulating THEN Accumulate(adc, time', value) ELSE adc
         /\ trace' = [t \in {u \in DOMAIN trace : u >= time' - ControlPeriod} \cup {time'} |->
                         IF t # time' THEN trace[t]
                         ELSE [since |-> Latest, first |-> reading, last |-> value,
                               seen |-> new]]
  BY DEF Arrive
<1>3. /\ TimesOK /\ TraceOK /\ adc \in Adc /\ MeanOK(adc) /\ AnchorOK(adc) /\ SquareOK(adc)
      /\ RingOK(adc) /\ ConversionsOK(adc) /\ PublishedOK
  BY DEF SamplerInv
<1>4. time \in Nat /\ reading \in Values /\ ~changed /\ interrupt \in Int
  BY <1>1, <1>3 DEF TimesOK
<1>5. Extended(trace', value, new)
  BY <1>1, <1>2 DEF Extended
<1>6. /\ Instants(trace') /\ time + 1 \in DOMAIN trace' /\ \A u \in DOMAIN trace' : u <= time + 1
      /\ trace'[time + 1] = [since |-> Latest, first |-> reading, last |-> value, seen |-> new]
      /\ SameInstants(trace', trace, (time + 1) - ControlPeriod, time)
      /\ Latest \in Int /\ Latest <= time
  BY <1>1, <1>3, <1>5, ExtendedIs, Zenon
<1>7. Latest' = time + 1
  <2>1. DOMAIN trace' \subseteq Int
    BY <1>6 DEF Instants
  <2>2. (CHOOSE x \in DOMAIN trace' : \A u \in DOMAIN trace' : u <= x) = time + 1
    BY <1>6, <2>1, LatestIs
  <2> QED
    BY <2>2 DEF Latest
<1>8. /\ LastIndex = interrupt - 1 /\ LastIndex' = LastIndex /\ ControlPeriod' = ControlPeriod
      /\ ControlTime' = ControlTime
  BY <1>1 DEF LastIndex, ControlPeriod, ControlTime
<1>9. LastControl' = LastControl
  BY <1>1, <1>8 DEF LastControl
<1>10. /\ FirstConversion' = FirstConversion /\ WindowFrom' = WindowFrom
       /\ SquaresFrom' = SquaresFrom /\ (Averaging <=> Averaging') /\ (Squaring <=> Squaring')
       /\ (Independent <=> Independent') /\ (Accumulating <=> Accumulating')
  BY <1>1, <1>8, <1>9 DEF FirstConversion, WindowFrom, SquaresFrom, Averaging, Squaring,
                          Independent, Accumulating
<1>11. /\ LastControl \in Int /\ WindowFrom \in Int /\ SquaresFrom \in Int
       /\ WindowFrom >= LastControl /\ SquaresFrom >= LastControl
       /\ ControlPeriod \in Nat /\ ControlPeriod >= 1 /\ published.t \in Int
       /\ LastControl <= time /\ time < LastControl + ControlPeriod
  BY <1>1, <1>3, TimeFacts DEF TimesOK, PublishedOK
<1>12. Readings \in [Values -> Int] /\ Squares \in [Values -> Int] /\ value \in Int /\ new \in Int
       /\ Readings[reading] = reading /\ Readings[value] = value
       /\ Squares[reading] = reading * reading /\ Squares[value] = value * value
  BY <1>4, ReadingFunctions
<1>13. ASSUME NEW of \in [Values -> Int], NEW from \in Int, from <= Latest, from >= LastControl
       PROVE  /\ IntegralIn(trace, of, from, Latest) \in Int
              /\ IntegralIn(trace', of, from, time + 1)
                   = IntegralIn(trace, of, from, Latest)
                        + ((time + 1) - Latest) * (of[reading] + of[value])
  <2>1. from >= (time + 1) - ControlPeriod
    BY <1>4, <1>11, <1>13
  <2> QED
    BY <1>1, <1>3, <1>5, <1>13, <2>1, IntegralToInstant
<1>14. Accumulating =>
          LET dt == (time + 1) - Latest
          IN  /\ adc' \in Adc /\ KeepsRing(adc', adc) /\ KeepsConversions(adc', adc)
              /\ adc'.anchored = adc.anchored /\ adc'.open = adc.open /\ adc'.upto = time + 1
              /\ adc'.last = IF Averaging THEN value ELSE adc.last
              /\ adc'.sum = IF Averaging /\ adc.open THEN adc.sum + dt * (adc.last + value) ELSE adc.sum
              /\ Squaring => /\ adc'.square = value * value /\ adc'.duration = adc.duration + dt
                             /\ adc'.area = adc.area + dt * (adc.square + value * value)
  <2> SUFFICES ASSUME Accumulating PROVE
          LET dt == (time + 1) - Latest
          IN  /\ adc' \in Adc /\ KeepsRing(adc', adc) /\ KeepsConversions(adc', adc)
              /\ adc'.anchored = adc.anchored /\ adc'.open = adc.open /\ adc'.upto = time + 1
              /\ adc'.last = IF Averaging THEN value ELSE adc.last
              /\ adc'.sum = IF Averaging /\ adc.open THEN adc.sum + dt * (adc.last + value) ELSE adc.sum
              /\ Squaring => /\ adc'.square = value * value /\ adc'.duration = adc.duration + dt
                             /\ adc'.area = adc.area + dt * (adc.square + value * value)
    OBVIOUS
  <2>1. adc.upto = Latest
    BY <1>3 DEF AnchorOK
  <2>2. adc' = Accumulate(adc, time + 1, value)
    BY <1>1, <1>2
  <2>3. time + 1 \in Int /\ time + 1 > adc.upto
    BY <1>4, <1>6, <2>1
  <2> QED
    BY <1>3, <1>12, <2>1, <2>2, <2>3, AccumulateIs
<1>15. ~Accumulating => adc' = adc /\ ~Averaging /\ ~Squaring
  BY <1>2 DEF Accumulating
<1>16. (Averaging => Accumulating) /\ (Squaring => Accumulating)
  BY DEF Accumulating
<1>17. adc' \in Adc /\ KeepsRing(adc', adc) /\ KeepsConversions(adc', adc)
       /\ adc'.anchored = adc.anchored /\ adc'.open = adc.open
  <2>1. CASE Accumulating
    BY <1>14, <2>1
  <2>2. CASE ~Accumulating
    BY <1>3, <1>15, <2>2 DEF KeepsRing, KeepsConversions
  <2> QED
    BY <2>1, <2>2
<1>18. TimesOK'
  BY <1>1, <1>2, <1>3, <1>4, <1>8, <1>9, <1>11 DEF TimesOK
<1>19. TraceOK'
  <2>1. began <= Latest
    BY <1>3 DEF TraceOK
  <2>2. began \in Int
    BY <1>3 DEF TimesOK
  <2>3. Instants(trace)' /\ trace'[time + 1].seen = new
    BY <1>6 DEF Instants
  <2> QED
    BY <1>1, <1>2, <1>4, <1>6, <1>7, <2>1, <2>2, <2>3 DEF TraceOK
<1>20. adc' \in Adc'
  BY <1>1, <1>17 DEF Adc, Rings
<1>21. MeanOK(adc)'
  <2>1. ASSUME Averaging
        PROVE  /\ changed' \/ adc'.last = reading'
               /\ adc'.open => /\ WindowFrom <= time + 1
                               /\ adc'.sum = IntegralIn(trace', Readings, WindowFrom, time + 1)
               /\ ~adc'.open => adc'.sum = 0 /\ time + 1 <= WindowFrom
    <3>1. Accumulating /\ adc.last = reading
      BY <1>3, <1>4, <1>16, <2>1 DEF MeanOK
    <3>2. changed' \/ adc'.last = reading'
      BY <1>2, <1>14, <2>1, <3>1
    <3>3. CASE adc.open
      <4>1. WindowFrom <= Latest /\ adc.sum = IntegralIn(trace, Readings, WindowFrom, Latest)
        BY <1>3, <2>1, <3>3 DEF MeanOK
      <4>2. adc'.sum = adc.sum + ((time + 1) - Latest) * (reading + value)
        BY <1>14, <2>1, <3>1, <3>3
      <4>3. IntegralIn(trace', Readings, WindowFrom, time + 1)
              = adc.sum + ((time + 1) - Latest) * (reading + value)
        BY <1>11, <1>12, <1>13, <4>1
      <4>4. WindowFrom <= time + 1
        BY <1>4, <1>6, <1>11, <4>1
      <4> QED
        BY <1>17, <3>2, <3>3, <4>2, <4>3, <4>4
    <3>4. CASE ~adc.open
      <4>1. adc.sum = 0 /\ time < WindowFrom
        BY <1>1, <1>3, <2>1, <3>4 DEF MeanOK
      <4>2. adc'.sum = 0
        BY <1>14, <2>1, <3>1, <3>4, <4>1
      <4>3. time + 1 <= WindowFrom
        BY <1>4, <1>11, <4>1
      <4> QED
        BY <1>17, <3>2, <3>4, <4>2, <4>3
    <3> QED
      BY <3>3, <3>4
  <2>2. ~Averaging => adc'.open /\ adc'.sum = 0 /\ adc'.last = 0
    <3>1. ~Averaging => adc.open /\ adc.sum = 0 /\ adc.last = 0
      BY <1>3 DEF MeanOK
    <3> QED
      BY <1>14, <1>15, <3>1
  <2>3. Readings' = Readings
    BY DEF Readings
  <2> QED
    BY <1>1, <1>7, <1>10, <2>1, <2>2, <2>3 DEF MeanOK
<1>22. AnchorOK(adc)'
  <2>1. (adc.anchored <=> Accumulating) /\ adc.upto = IF Accumulating THEN Latest ELSE 0
    BY <1>3 DEF AnchorOK
  <2> QED
    BY <1>7, <1>10, <1>14, <1>15, <1>17, <2>1 DEF AnchorOK
<1>23. SquareOK(adc)'
  <2> SUFFICES ASSUME Squaring PROVE SquareOK(adc)'
    BY <1>10 DEF SquareOK
  <2>1. Accumulating /\ adc.square = reading * reading /\ SquaresFrom <= Latest
        /\ adc.duration = Latest - SquaresFrom
        /\ adc.area = IntegralIn(trace, Squares, SquaresFrom, Latest)
    BY <1>3, <1>4, <1>16 DEF SquareOK
  <2>2. /\ adc'.square = value * value /\ adc'.duration = adc.duration + ((time + 1) - Latest)
        /\ adc'.area = adc.area + ((time + 1) - Latest) * (adc.square + value * value)
    BY <1>14, <2>1
  <2>3. adc'.area = IntegralIn(trace', Squares, SquaresFrom, time + 1)
    <3>1. IntegralIn(trace', Squares, SquaresFrom, time + 1)
            = IntegralIn(trace, Squares, SquaresFrom, Latest)
                 + ((time + 1) - Latest) * (Squares[reading] + Squares[value])
      BY <1>11, <1>12, <1>13, <2>1
    <3>2. Squares[reading] + Squares[value] = adc.square + value * value
      BY <1>12, <2>1
    <3> QED
      BY <2>1, <2>2, <3>1, <3>2, Zenon
  <2>4. adc'.duration = (time + 1) - SquaresFrom /\ SquaresFrom <= time + 1
    BY <1>4, <1>6, <1>11, <2>1, <2>2
  <2>5. changed' \/ adc'.square = reading' * reading'
    BY <1>2, <2>2
  <2>6. Squares' = Squares
    BY DEF Squares
  <2> QED
    BY <1>1, <1>7, <1>10, <2>2, <2>3, <2>4, <2>5, <2>6 DEF SquareOK
<1>24. RingOK(adc)'
  BY <1>1, <1>3, <1>10, <1>17 DEF RingOK, RingIs, KeepsRing
<1>25. ConversionsOK(adc)'
  <2>1. NextConversion(adc)' = NextConversion(adc)
    BY <1>1, <1>10, <1>17 DEF NextConversion, KeepsConversions
  <2>2. design.kind # "squares" => PositionOK(adc)'
    <3> SUFFICES ASSUME design.kind # "squares" PROVE PositionOK(adc)'
      OBVIOUS
    <3> DEFINE c == NextConversion(adc)
               before == ClockAt(design.sampling, c - 1)
               next == ClockAt(design.sampling, c)
               At(m) == ClockAt(design.sampling, FirstConversion + m - 1)
    <3>1. PositionOK(adc)
      BY <1>3 DEF ConversionsOK
    <3>2. /\ c \in Int /\ before \in Int /\ next \in Int /\ FirstConversion \in Int
          /\ \A m \in 1 .. c - FirstConversion :
                At(m) \in Int /\ LastControl < At(m) /\ At(m) <= before
      BY <1>3, ConversionFacts, TimeFacts
    <3>3. /\ before <= time /\ time < next /\ c >= FirstConversion
          /\ adc.peeks = Converted(c - FirstConversion)
          /\ \A m \in 1 .. c - FirstConversion : At(m) \in DOMAIN trace
      BY <1>1, <3>1 DEF PositionOK
    <3> HIDE DEF c, before, next, At
    <3>4. before < time + 1 /\ time + 1 <= next
      BY <1>4, <3>2, <3>3
    <3>5. ASSUME NEW m \in 1 .. c - FirstConversion
          PROVE  At(m) \in DOMAIN trace' /\ trace'[At(m)] = trace[At(m)]
      <4>1. At(m) \in (time + 1) - ControlPeriod .. time
        BY <1>4, <1>11, <3>2, <3>3
      <4> QED
        BY <1>6, <3>3, <4>1 DEF SameInstants
    <3>6. Converted(c - FirstConversion)' = Converted(c - FirstConversion)
      <4>1. c' = c
        BY <2>1 DEF c
      <4>2. \A m \in 1 .. c - FirstConversion :
               /\ At(m) = ClockAt(design.sampling, FirstConversion + m - 1)
               /\ ClockAt(design.sampling, FirstConversion + m - 1)'
                    = ClockAt(design.sampling, FirstConversion + m - 1)
        BY <1>1, <1>10 DEF At
      <4> QED
        BY <1>1, <1>10, <3>5, <4>1, <4>2, Zenon DEF Converted
    <3>7. adc'.peeks = adc.peeks
      BY <1>17 DEF KeepsConversions
    <3>8. /\ c' = c /\ before' = before /\ next' = next
          /\ \A m \in 1 .. c - FirstConversion :
                (ClockAt(design.sampling, FirstConversion + m - 1) \in DOMAIN trace)'
      <4>1. c' = c
        BY <2>1 DEF c
      <4>2. before' = before /\ next' = next
        BY <1>1, <4>1 DEF before, next
      <4>3. \A m \in 1 .. c - FirstConversion :
               ClockAt(design.sampling, FirstConversion + m - 1)' = At(m)
        BY <1>1, <1>10 DEF At
      <4> QED
        BY <3>5, <4>1, <4>2, <4>3, Zenon
    <3> QED
      BY <1>1, <1>10, <3>3, <3>4, <3>6, <3>7, <3>8 DEF PositionOK, c, before, next
  <2> QED
    BY <1>1, <1>3, <1>10, <1>17, <2>2 DEF ConversionsOK, KeepsConversions
<1>26. PublishedOK'
  BY <1>1, <1>3, <1>4, <1>11 DEF PublishedOK, MeanIsOfWindow, SamplesAreComplete, JustSampled
<1> QED
  BY <1>18, <1>19, <1>20, <1>21, <1>22, <1>23, <1>24, <1>25, <1>26 DEF SamplerInv

----------------------------------------------------------------------------
(***************************************************************************)
(* The unit senses.                                                        *)
(***************************************************************************)
\* What Counted says depends on the squares and the ring only.
LEMMA CountedSame ==
    ASSUME NEW r, NEW s, NEW c, Counted(r, c), KeepsSquare(c, s), KeepsRing(c, s)
    PROVE  Counted(r, s)
BY DEF Counted, KeepsSquare, KeepsRing

\* The conversion that precedes the control sample.
ConvertedAdc == IF ConversionDue(adc, time) THEN Convert(adc, time, reading) ELSE adc

\* What it leaves alone.
LEMMA ConvertedAdcIs ==
    ASSUME adc \in Adc, time \in Int, reading \in Int
    PROVE  /\ ConvertedAdc \in Adc /\ KeepsMean(ConvertedAdc, adc)
           /\ KeepsAnchor(ConvertedAdc, adc) /\ KeepsSquare(ConvertedAdc, adc)
           /\ KeepsRing(ConvertedAdc, adc) /\ ConvertedAdc.taken = adc.taken
           /\ ~Independent => ConvertedAdc = adc
           /\ IF ConversionDue(adc, time)
              THEN /\ ConvertedAdc.index = adc.index + 1
                   /\ ConvertedAdc.peeks = Append(adc.peeks, [t |-> time, value |-> reading])
              ELSE ConvertedAdc = adc
<1>1. CASE ConversionDue(adc, time)
  <2>1. ConvertedAdc = Convert(adc, time, reading) /\ Independent
    BY <1>1 DEF ConvertedAdc, ConversionDue
  <2> QED
    BY <1>1, <2>1, ConversionIs
<1>2. CASE ~ConversionDue(adc, time)
  <2>1. ConvertedAdc = adc
    BY <1>2 DEF ConvertedAdc
  <2> QED
    BY <1>2, <2>1 DEF KeepsMean, KeepsAnchor, KeepsSquare, KeepsRing
<1> QED
  BY <1>1, <1>2

\* The integrals after sense.
SensedIntegrals(r) ==
    /\ r \in Adc /\ KeepsAnchor(r, adc) /\ r.last = adc.last /\ r.square = adc.square
    /\ IF time = ControlTime
       THEN /\ Counted(r, adc) /\ (Squaring => r.area = 0 /\ r.duration = 0)
            /\ r.sum = (IF Averaging THEN 0 ELSE adc.sum)
            /\ r.open = (IF Averaging THEN Full ELSE adc.open)
       ELSE /\ KeepsRing(r, adc) /\ r.area = adc.area /\ r.duration = adc.duration
            /\ IF design.kind = "clocked" /\ OpensAt(adc, ControlTime, time)
               THEN r.sum = 0 /\ r.open = TRUE ELSE r.sum = adc.sum /\ r.open = adc.open

\* The conversions after sense.
SensedConversions(r) ==
    CASE design.kind = "squares" -> KeepsConversions(r, adc)
      [] design.kind # "squares" /\ time = ControlTime ->
            /\ r.peeks = <<>> /\ r.taken = 1
            /\ r.index = IF design.kind = "clocked" THEN adc.index + 1 ELSE ConvertedAdc.index
            /\ design.kind # "clocked" => (~Independent => r.held = adc.held)
      [] design.kind = "clocked" /\ time # ControlTime -> KeepsConversions(r, adc)
      [] design.kind = "sampled" /\ time # ControlTime ->
            IF PeekDue(adc, time)
            THEN /\ r.peeks = Append(adc.peeks, [t |-> time, value |-> reading])
                 /\ r.taken = adc.taken + 1 /\ r.index = adc.index /\ r.held = adc.held
            ELSE r = ConvertedAdc

\* sense does that.
LEMMA SensedIs ==
    ASSUME SamplerInv, Sense
    PROVE  SensedIntegrals(adc') /\ SensedConversions(adc')
<1>1. /\ TimesOK /\ adc \in Adc /\ RingOK(adc) /\ design \in Designs /\ time \in Int
      /\ reading \in Int
  BY TimeFacts DEF SamplerInv, TimesOK
<1>2. Squaring => adc.place \in 0 .. design.rms - 1
  BY <1>1 DEF RingOK, RingIs
<1>3. /\ ConvertedAdc \in Adc /\ KeepsMean(ConvertedAdc, adc)
      /\ KeepsAnchor(ConvertedAdc, adc) /\ KeepsSquare(ConvertedAdc, adc)
      /\ KeepsRing(ConvertedAdc, adc) /\ ConvertedAdc.taken = adc.taken
      /\ ~Independent => ConvertedAdc = adc
  BY <1>1, ConvertedAdcIs
<1>4. design.kind \in {"sampled", "clocked", "squares"}
      /\ (design.kind = "squares" => design.window = 0)
  BY <1>1, DesignFacts
<1>5. CASE design.kind = "squares" /\ time = ControlTime
  <2>1. adc' = SampleSquares(adc)
    BY <1>5 DEF Sense
  <2>2. ~Averaging
    BY <1>4, <1>5 DEF Averaging
  <2>3. /\ adc' \in Adc /\ KeepsMean(adc', adc) /\ KeepsAnchor(adc', adc)
        /\ KeepsConversions(adc', adc) /\ adc'.square = adc.square /\ Counted(adc', adc)
        /\ Squaring => adc'.area = 0 /\ adc'.duration = 0
    BY <1>1, <1>2, <2>1, SampleSquaresIs
  <2> QED
    BY <1>5, <2>2, <2>3 DEF SensedIntegrals, SensedConversions, KeepsMean
<1>6. CASE design.kind = "clocked" /\ time = ControlTime
  <2> DEFINE result == Measure(adc, time, reading, FALSE)
  <2>1. adc' = Sampled(adc, result)
    BY <1>6 DEF Sense, ControlSample
  <2>2. result.value \in Int
    BY <1>1 DEF Measure, Adc
  <2> HIDE DEF result
  <2>3. /\ adc' \in Adc /\ KeepsAnchor(adc', adc) /\ adc'.last = adc.last
        /\ adc'.square = adc.square
        /\ Counted(adc', adc) /\ (Squaring => adc'.area = 0 /\ adc'.duration = 0)
        /\ adc'.sum = (IF Averaging THEN 0 ELSE adc.sum)
        /\ adc'.open = (IF Averaging THEN Full ELSE adc.open)
        /\ adc'.peeks = <<>> /\ adc'.taken = 1 /\ adc'.index = adc.index + 1
    BY <1>1, <1>2, <1>6, <2>1, <2>2, SampledIs
  <2>4. SensedIntegrals(adc')
    BY <1>6, <2>3 DEF SensedIntegrals
  <2>5. SensedConversions(adc')
    BY <1>6, <2>3 DEF SensedConversions
  <2> QED
    BY <2>4, <2>5
<1>7. CASE design.kind = "clocked" /\ time # ControlTime
  <2>1. adc' = IF OpensAt(adc, ControlTime, time) THEN Open(adc) ELSE adc
    BY <1>7 DEF Sense
  <2>2. CASE OpensAt(adc, ControlTime, time)
    <3>1. adc' = Open(adc)
      BY <2>1, <2>2
    <3>2. /\ adc' \in Adc /\ KeepsRing(adc', adc) /\ KeepsConversions(adc', adc)
          /\ KeepsSquare(adc', adc) /\ KeepsAnchor(adc', adc) /\ adc'.last = adc.last
          /\ adc'.sum = 0 /\ adc'.open = TRUE
      BY <1>1, <3>1, OpenIs
    <3> QED
      BY <1>7, <2>2, <3>2 DEF SensedIntegrals, SensedConversions, KeepsSquare
  <2>3. CASE ~OpensAt(adc, ControlTime, time)
    <3>1. adc' = adc
      BY <2>1, <2>3
    <3> QED
      BY <1>1, <1>7, <2>3, <3>1
      DEF SensedIntegrals, SensedConversions, KeepsAnchor, KeepsRing, KeepsConversions
  <2> QED
    BY <2>2, <2>3
<1>8. CASE design.kind = "sampled" /\ time = ControlTime
  <2> DEFINE result == Measure(ConvertedAdc, time, IF Independent THEN ConvertedAdc.held ELSE reading,
                               Independent)
             s == ConvertedAdc
  <2>1. adc' = Sampled(s, result)
    BY <1>8 DEF Sense, ControlSample, ConvertedAdc
  <2> HIDE DEF result, s
  <2>2. Squaring => s.place \in 0 .. design.rms - 1
    BY <1>2, <1>3 DEF KeepsRing, s
  <2>3. /\ adc' \in Adc /\ KeepsAnchor(adc', s) /\ adc'.last = s.last
        /\ adc'.square = s.square
        /\ Counted(adc', s) /\ (Squaring => adc'.area = 0 /\ adc'.duration = 0)
        /\ adc'.sum = (IF Averaging THEN 0 ELSE s.sum)
        /\ adc'.open = (IF Averaging THEN Full ELSE s.open)
        /\ adc'.peeks = <<>> /\ adc'.taken = 1 /\ adc'.index = s.index /\ adc'.held = s.held
    <3>1. s \in Adc
      BY <1>3 DEF s
    <3> QED
      BY <1>1, <1>8, <2>1, <2>2, <3>1, SampledIs
  <2>4. SensedIntegrals(adc')
    <3>1. Counted(adc', adc)
      BY <1>3, <2>3, CountedSame DEF s
    <3> QED
      BY <1>3, <1>8, <2>3, <3>1 DEF SensedIntegrals, KeepsAnchor, KeepsMean, KeepsSquare, s
  <2>5. SensedConversions(adc')
    BY <1>3, <1>8, <2>3 DEF SensedConversions, s
  <2> QED
    BY <2>4, <2>5
<1>9. CASE design.kind = "sampled" /\ time # ControlTime
  <2>1. adc' = IF PeekDue(adc, time) THEN Peek(adc, time, reading) ELSE ConvertedAdc
    BY <1>9 DEF Sense, ConvertedAdc
  <2>2. CASE PeekDue(adc, time)
    <3>1. adc' = Peek(adc, time, reading)
      BY <2>1, <2>2
    <3>2. /\ adc' \in Adc /\ KeepsMean(adc', adc) /\ KeepsAnchor(adc', adc)
          /\ KeepsSquare(adc', adc) /\ KeepsRing(adc', adc)
          /\ adc'.peeks = Append(adc.peeks, [t |-> time, value |-> reading])
          /\ adc'.taken = adc.taken + 1 /\ adc'.index = adc.index /\ adc'.held = adc.held
      BY <1>1, <3>1, ConversionIs
    <3>3. SensedIntegrals(adc')
      BY <1>9, <3>2 DEF SensedIntegrals, KeepsMean, KeepsSquare
    <3>4. SensedConversions(adc')
      BY <1>9, <2>2, <3>2 DEF SensedConversions
    <3> QED
      BY <3>3, <3>4
  <2>3. CASE ~PeekDue(adc, time)
    <3>1. adc' = ConvertedAdc
      BY <2>1, <2>3
    <3>2. SensedIntegrals(adc')
      BY <1>3, <1>9, <3>1 DEF SensedIntegrals, KeepsMean, KeepsSquare
    <3>3. SensedConversions(adc')
      BY <1>9, <2>3, <3>1 DEF SensedConversions
    <3> QED
      BY <3>2, <3>3
  <2> QED
    BY <2>2, <2>3
<1>10. CASE design.kind = "squares" /\ time # ControlTime
  <2>1. adc' = adc
    BY <1>10 DEF Sense
  <2> QED
    BY <1>1, <1>10, <2>1
    DEF SensedIntegrals, SensedConversions, KeepsAnchor, KeepsRing, KeepsConversions
<1> QED
  BY <1>4, <1>5, <1>6, <1>7, <1>8, <1>9, <1>10

\* The grids after sense.
LEMMA SensedTimes ==
    ASSUME SamplerInv, Sense
    PROVE  /\ UNCHANGED <<design, time, reading, changed, began, trace>>
           /\ pc = "sense" /\ pc' = "actuate"
           /\ Latest = time /\ Latest' = time /\ ControlPeriod' = ControlPeriod
           /\ (Averaging <=> Averaging') /\ (Squaring <=> Squaring')
           /\ (Independent <=> Independent') /\ (Accumulating <=> Accumulating')
           /\ time = ControlTime => time = LastControl + ControlPeriod
           /\ time # ControlTime => time < LastControl + ControlPeriod
           /\ LastControl' = IF time = ControlTime THEN time ELSE LastControl
           /\ TimesOK' /\ TraceOK'
<1>1. /\ UNCHANGED <<design, time, reading, changed, began, trace>>
      /\ pc = "sense" /\ pc' = "actuate"
      /\ interrupt' = IF time = ControlTime /\ design.kind # "sampled" THEN interrupt + 1
                      ELSE interrupt
  BY DEF Sense
<1>2. /\ TimesOK /\ TraceOK /\ time \in Nat /\ interrupt \in Int /\ design \in Designs
  BY DEF SamplerInv, TimesOK
<1>3. Latest = time /\ Latest' = time /\ ControlPeriod' = ControlPeriod
      /\ (Averaging <=> Averaging') /\ (Squaring <=> Squaring')
      /\ (Independent <=> Independent') /\ (Accumulating <=> Accumulating')
  <2>1. Latest = time
    BY <1>1, <1>2 DEF TraceOK
  <2> QED
    BY <1>1, <2>1 DEF Latest, ControlPeriod, Averaging, Squaring, Independent, Accumulating
<1>4. /\ LastControl \in Int /\ ControlTime \in Int /\ ControlPeriod \in Nat
      /\ ControlPeriod >= 1
      /\ ControlTime = LastControl + ControlPeriod /\ LastIndex = interrupt - 1
      /\ LastControl < time /\ time <= LastControl + ControlPeriod
  BY <1>1, <1>2, TimeFacts DEF TimesOK
<1>5. CASE time = ControlTime
  <2>1. ASSUME design.kind = "sampled" PROVE LastControl' = time /\ TimesOK'
    <3>1. interrupt' = interrupt /\ ControlTime' = ControlTime
      BY <1>1, <2>1 DEF ControlTime
    <3>2. LastIndex' = interrupt
      BY <1>1, <1>5, <3>1 DEF LastIndex
    <3>3. LastControl' = time
      BY <1>1, <1>5, <3>2 DEF LastControl, ControlTime
    <3>4. TimesOK'
      BY <1>1, <1>2, <1>3, <1>4, <2>1, <3>1, <3>3 DEF TimesOK
    <3> QED
      BY <1>5, <3>3, <3>4
  <2>2. ASSUME design.kind # "sampled" PROVE LastControl' = time /\ TimesOK'
    <3>1. interrupt' = interrupt + 1
      BY <1>1, <1>5, <2>2
    <3>2. ControlTime' = ControlTime + ControlPeriod
      <4>1. ControlTime' = ClockAt(design.control, interrupt + 1)
        BY <1>1, <3>1 DEF ControlTime
      <4>2. design.control \in Clock
        BY <1>2, DesignFacts
      <4> QED
        BY <1>2, <4>1, <4>2, ClockStep DEF ControlTime, ControlPeriod
    <3>3. time' # ControlTime'
      BY <1>1, <1>4, <1>5, <3>2
    <3>4. LastIndex' = interrupt
      BY <1>2, <3>1, <3>3 DEF LastIndex
    <3>5. LastControl' = time
      BY <1>1, <1>5, <3>4 DEF LastControl, ControlTime
    <3>6. TimesOK'
      BY <1>1, <1>2, <1>3, <1>4, <3>1, <3>3, <3>5 DEF TimesOK
    <3> QED
      BY <1>5, <3>5, <3>6
  <2>3. LastControl' = time /\ TimesOK'
    BY <2>1, <2>2
  <2>4. TraceOK'
    BY <1>1, <1>2, <1>3 DEF TraceOK
  <2> QED
    BY <1>1, <1>3, <1>4, <1>5, <2>3, <2>4
<1>6. CASE time # ControlTime
  <2>1. interrupt' = interrupt /\ ControlTime' = ControlTime
    BY <1>1, <1>6 DEF ControlTime
  <2>2. LastIndex' = LastIndex
    BY <1>1, <1>4, <1>6, <2>1 DEF LastIndex
  <2>3. LastControl' = LastControl
    BY <1>1, <2>2 DEF LastControl
  <2>4. TimesOK'
    BY <1>1, <1>2, <1>3, <1>4, <1>6, <2>1, <2>3 DEF TimesOK
  <2>5. TraceOK'
    BY <1>1, <1>2, <1>3 DEF TraceOK
  <2>6. time < LastControl + ControlPeriod
    BY <1>2, <1>4, <1>6
  <2> QED
    BY <1>1, <1>3, <1>6, <2>3, <2>4, <2>5, <2>6
<1> QED
  BY <1>5, <1>6

\* After sense, the integrals of the next window start at the interrupt.
LEMMA SenseMean ==
    ASSUME SamplerInv, Sense
    PROVE  MeanOK(adc)'
<1>1. /\ TimesOK /\ MeanOK(adc) /\ SensedIntegrals(adc')
  BY SensedIs DEF SamplerInv
<1>2. /\ UNCHANGED <<design, time, reading, changed, began, trace>>
      /\ pc = "sense" /\ pc' = "actuate"
      /\ Latest = time /\ Latest' = time /\ ControlPeriod' = ControlPeriod
      /\ (Averaging <=> Averaging')
      /\ time = ControlTime => time = LastControl + ControlPeriod
      /\ time # ControlTime => time < LastControl + ControlPeriod
      /\ LastControl' = IF time = ControlTime THEN time ELSE LastControl
  BY SensedTimes, Zenon
<1>3. /\ LastControl \in Int /\ ControlPeriod \in Nat /\ time \in Int
      /\ design.window \in Nat /\ design.window <= ControlPeriod /\ WindowFrom \in Int
      /\ WindowFrom = LastControl + ControlPeriod - design.window
      /\ ControlTime = LastControl + ControlPeriod
      /\ design.kind = "squares" => design.window = 0
  BY <1>1, <1>2, TimeFacts, DesignFacts DEF TimesOK
<1>4. WindowFrom' = IF time = ControlTime THEN time + ControlPeriod - design.window ELSE WindowFrom
  BY <1>2, <1>3 DEF WindowFrom
<1>5. Readings' = Readings
  BY DEF Readings
<1>6. CASE ~Averaging
  <2>1. adc.open /\ adc.sum = 0 /\ adc.last = 0
    BY <1>1, <1>6 DEF MeanOK
  <2>2. ~OpensAt(adc, ControlTime, time)
    BY <2>1 DEF OpensAt
  <2>3. adc'.open /\ adc'.sum = 0 /\ adc'.last = 0
    BY <1>1, <1>6, <2>1, <2>2 DEF SensedIntegrals
  <2> QED
    BY <1>2, <1>6, <2>3 DEF MeanOK
<1>7. CASE Averaging
  <2>1. /\ changed \/ adc.last = reading
        /\ adc.open => /\ WindowFrom <= time
                       /\ adc.sum = IntegralIn(trace, Readings, WindowFrom, time)
        /\ ~adc.open => adc.sum = 0 /\ time <= WindowFrom
    BY <1>1, <1>2, <1>7 DEF MeanOK
  <2>2. changed' \/ adc'.last = reading'
    BY <1>1, <1>2, <2>1 DEF SensedIntegrals
  <2>3. ASSUME NEW from \in Int, from = time
        PROVE  IntegralIn(trace, Readings, from, time) = 0
    BY <2>3, IntegralOfNothing
  <2>4. design.window >= 1 /\ design.kind # "squares"
    BY <1>3, <1>7 DEF Averaging
  <2>5. CASE time = ControlTime
    <3>1. adc'.sum = 0 /\ (adc'.open <=> design.window >= ControlPeriod)
      BY <1>1, <1>7, <2>5 DEF SensedIntegrals, Full
    <3>2. CASE design.window >= ControlPeriod
      <4>1. WindowFrom' = time
        BY <1>3, <1>4, <2>5, <3>2
      <4>2. IntegralIn(trace, Readings, time, time) = 0
        BY <1>3, <2>3
      <4> QED
        BY <1>2, <1>3, <1>5, <1>7, <2>2, <3>1, <3>2, <4>1, <4>2 DEF MeanOK
    <3>3. CASE ~(design.window >= ControlPeriod)
      <4>1. time < WindowFrom'
        BY <1>3, <1>4, <2>5, <3>3
      <4>2. WindowFrom' \in Int
        BY <1>3, <1>4, <2>5
      <4>3. time <= WindowFrom'
        BY <1>3, <4>1, <4>2
      <4> QED
        BY <1>2, <1>5, <1>7, <2>2, <3>1, <3>3, <4>1, <4>3 DEF MeanOK
    <3> QED
      BY <3>2, <3>3
  <2>6. CASE time # ControlTime /\ design.kind = "clocked" /\ OpensAt(adc, ControlTime, time)
    <3>1. adc'.sum = 0 /\ adc'.open
      BY <1>1, <2>6 DEF SensedIntegrals
    <3>2. WindowFrom' = time
      BY <1>3, <1>4, <2>6 DEF OpensAt
    <3>3. IntegralIn(trace, Readings, time, time) = 0
      BY <1>3, <2>3
    <3> QED
      BY <1>2, <1>3, <1>5, <1>7, <2>2, <3>1, <3>2, <3>3 DEF MeanOK
  <2>7. CASE time # ControlTime /\ ~(design.kind = "clocked" /\ OpensAt(adc, ControlTime, time))
    <3>1. adc'.sum = adc.sum /\ adc'.open = adc.open /\ WindowFrom' = WindowFrom
      BY <1>1, <1>4, <2>7 DEF SensedIntegrals
    <3>2. design.kind = "clocked" /\ ~adc.open => time < WindowFrom
      <4>1. design.kind = "clocked" /\ ~adc.open => time # ControlTime - design.window
        BY <2>7 DEF OpensAt
      <4> QED
        BY <1>3, <2>1, <4>1
    <3> QED
      BY <1>2, <1>5, <1>7, <2>1, <2>2, <3>1, <3>2 DEF MeanOK
  <2> QED
    BY <2>5, <2>6, <2>7
<1> QED
  BY <1>6, <1>7

\* After sense, the sum of squares of the next period starts.
LEMMA SenseSquares ==
    ASSUME SamplerInv, Sense
    PROVE  AnchorOK(adc)' /\ SquareOK(adc)'
<1>1. /\ TimesOK /\ AnchorOK(adc) /\ SquareOK(adc) /\ SensedIntegrals(adc')
  BY SensedIs DEF SamplerInv
<1>2. /\ UNCHANGED <<design, time, reading, changed, began, trace>>
      /\ Latest = time /\ Latest' = time
      /\ (Squaring <=> Squaring') /\ (Accumulating <=> Accumulating')
      /\ LastControl' = IF time = ControlTime THEN time ELSE LastControl
  BY SensedTimes, Zenon
<1>3. /\ LastControl \in Int /\ time \in Int /\ began \in Int /\ began <= time
      /\ SquaresFrom \in Int
  BY <1>1, TimeFacts DEF TimesOK
<1>4. AnchorOK(adc)'
  <2>1. adc'.anchored = adc.anchored /\ adc'.upto = adc.upto
    BY <1>1 DEF SensedIntegrals, KeepsAnchor
  <2> QED
    BY <1>1, <1>2, <2>1 DEF AnchorOK
<1>5. SquareOK(adc)'
  <2> SUFFICES ASSUME Squaring PROVE SquareOK(adc)'
    BY <1>2 DEF SquareOK
  <2>1. /\ changed \/ adc.square = reading * reading
        /\ SquaresFrom <= time /\ adc.duration = time - SquaresFrom
        /\ adc.area = IntegralIn(trace, Squares, SquaresFrom, time)
    BY <1>1, <1>2 DEF SquareOK
  <2>2. adc'.square = adc.square /\ Squares' = Squares
    BY <1>1 DEF SensedIntegrals, Squares
  <2>3. CASE time = ControlTime
    <3>1. adc'.area = 0 /\ adc'.duration = 0
      BY <1>1, <2>3 DEF SensedIntegrals
    <3>2. SquaresFrom' = time
      BY <1>2, <1>3, <2>3 DEF SquaresFrom
    <3>3. IntegralIn(trace, Squares, time, time) = 0
      BY <1>3, IntegralOfNothing
    <3> QED
      BY <1>2, <1>3, <2>1, <2>2, <3>1, <3>2, <3>3 DEF SquareOK
  <2>4. CASE time # ControlTime
    <3>1. adc'.area = adc.area /\ adc'.duration = adc.duration
      BY <1>1, <2>4 DEF SensedIntegrals
    <3>2. SquaresFrom' = SquaresFrom
      BY <1>2, <2>4 DEF SquaresFrom
    <3> QED
      BY <1>2, <2>1, <2>2, <3>1, <3>2 DEF SquareOK
  <2> QED
    BY <2>3, <2>4
<1> QED
  BY <1>4, <1>5

\* After sense, the ring has the period that has just ended.
LEMMA SenseRing ==
    ASSUME SamplerInv, Sense
    PROVE  RingOK(adc)'
<1>1. /\ TimesOK /\ adc \in Adc /\ SquareOK(adc) /\ RingOK(adc) /\ SensedIntegrals(adc')
      /\ design \in Designs
  BY SensedIs DEF SamplerInv, TimesOK
<1>2. /\ UNCHANGED <<design, time, reading, changed, began, trace>>
      /\ Latest = time /\ (Squaring <=> Squaring')
      /\ time = ControlTime => time = LastControl + ControlPeriod
  BY SensedTimes, Zenon
<1>3. /\ LastControl \in Int /\ time \in Int /\ began \in Int
      /\ ControlPeriod \in Nat
  BY <1>1, TimeFacts DEF TimesOK
<1> SUFFICES ASSUME Squaring PROVE RingIs(adc', squares')
  BY <1>2 DEF RingOK, RingIs
<1>4. squares' = IF time = ControlTime /\ time - ControlPeriod >= began
                 THEN LET all == Append(squares, IntegralOf(Squares, time - ControlPeriod, time))
                      IN  IF Len(all) > design.rms THEN Tail(all) ELSE all
                 ELSE squares
  BY DEF Sense
<1>5. /\ adc.duration = time - SquaresFrom
      /\ adc.area = IntegralIn(trace, Squares, SquaresFrom, time)
      /\ RingIs(adc, squares)
  BY <1>1, <1>2 DEF SquareOK, RingOK
<1>6. CASE time = ControlTime /\ time - ControlPeriod >= began
  <2>1. SquaresFrom = time - ControlPeriod
    BY <1>2, <1>3, <1>6 DEF SquaresFrom
  <2>2. IntegralOf(Squares, time - ControlPeriod, time) = adc.area
    <3>1. IntegralOf(Squares, time - ControlPeriod, time)
             = IntegralIn(trace, Squares, time - ControlPeriod, time)
      BY DEF IntegralOf, IntegralIn, Strip, StripIn
    <3> QED
      BY <1>5, <2>1, <3>1
  <2>3. adc.duration >= ControlPeriod
    BY <1>3, <1>5, <2>1
  <2>4. adc' \in Adc /\ Counted(adc', adc)
    BY <1>1, <1>6 DEF SensedIntegrals
  <2>5. LET all == Append(squares, adc.area)
        IN  RingIs(adc', IF Len(all) > design.rms THEN Tail(all) ELSE all)
    BY <1>1, <1>5, <2>3, <2>4, RingStep
  <2> QED
    BY <1>4, <1>6, <2>2, <2>5
<1>7. CASE ~(time = ControlTime /\ time - ControlPeriod >= began)
  <2>1. squares' = squares
    BY <1>4, <1>7
  <2>2. KeepsRing(adc', adc)
    <3>1. CASE time = ControlTime
      <4>1. SquaresFrom > time - ControlPeriod /\ SquaresFrom \in Int
        BY <1>2, <1>3, <1>7, <3>1 DEF SquaresFrom
      <4>2. ~(adc.duration >= ControlPeriod)
        BY <1>3, <1>5, <4>1
      <4> QED
        BY <1>1, <3>1, <4>2 DEF SensedIntegrals, Counted
    <3>2. CASE time # ControlTime
      BY <1>1, <3>2 DEF SensedIntegrals
    <3> QED
      BY <3>1, <3>2
  <2> QED
    BY <1>5, <2>1, <2>2 DEF RingIs, KeepsRing
<1> QED
  BY <1>6, <1>7

\* The list of conversions goes on with the one of this instant.
LEMMA ConvertedGoesOn ==
    ASSUME NEW n \in Nat, FirstConversion \in Int,
           time = ClockAt(design.sampling, FirstConversion + n), trace[time].seen = reading
    PROVE  Append(Converted(n), [t |-> time, value |-> reading]) = Converted(n + 1)
<1> DEFINE At(m) == ClockAt(design.sampling, FirstConversion + m - 1)
           entry == [t |-> time, value |-> reading]
<1>1. Converted(n) = [m \in 1 .. n |-> [t |-> At(m), value |-> trace[At(m)].seen]]
  BY DEF Converted
<1>2. Converted(n + 1) = [m \in 1 .. n + 1 |-> [t |-> At(m), value |-> trace[At(m)].seen]]
  BY DEF Converted
<1>3. At(n + 1) = time
  <2>1. FirstConversion + (n + 1) - 1 = FirstConversion + n
    OBVIOUS
  <2> QED
    BY <2>1
<1>4. [t |-> At(n + 1), value |-> trace[At(n + 1)].seen] = entry
  BY <1>3
<1> HIDE DEF At, entry
<1> DEFINE e(m) == [t |-> At(m), value |-> trace[At(m)].seen]
<1>5. Converted(n) = [m \in 1 .. n |-> e(m)] /\ Converted(n + 1) = [m \in 1 .. n + 1 |-> e(m)]
      /\ e(n + 1) = entry
  BY <1>1, <1>2, <1>4
<1> HIDE DEF e
<1> DEFINE S == {e(m) : m \in 1 .. n + 1}
           a == Append(Converted(n), entry)
<1>6. /\ Converted(n) \in Seq(S) /\ Len(Converted(n)) = n /\ entry \in S
      /\ \A m \in 1 .. n : Converted(n)[m] = e(m)
  <2>1. \A m \in 1 .. n : e(m) \in S
    OBVIOUS
  <2>2. n + 1 \in 1 .. n + 1
    OBVIOUS
  <2>3. entry \in S
    BY <1>5, <2>2
  <2> HIDE DEF S
  <2> QED
    BY <1>5, <2>1, <2>3
<1> HIDE DEF S
<1>7. a \in Seq(S) /\ Len(a) = n + 1 /\ a[n + 1] = entry /\ \A m \in 1 .. n : a[m] = Converted(n)[m]
  BY <1>6
<1> HIDE DEF a
<1>8. \A m \in 1 .. n + 1 : a[m] = e(m)
  BY <1>5, <1>6, <1>7
<1>9. a = [m \in 1 .. n + 1 |-> e(m)]
  BY <1>7, <1>8
<1> QED
  BY <1>5, <1>9 DEF entry, a

\* A control sample finds the next conversion where it belongs: the period
\* has no conversion left but the one of its interrupt.
LEMMA ControlPosition ==
    ASSUME SamplerInv, pc = "sense", time = ControlTime, design.kind # "squares"
    PROVE  LET c == NextConversion(adc)
               e == IndexAfter(design.sampling, time)
           IN  /\ c \in Int /\ e \in Int /\ FirstConversion \in Int /\ c >= FirstConversion
               /\ Independent /\ design.kind = "sampled"
                     => e = IF ConversionDue(adc, time) THEN c + 1 ELSE c
               /\ design.kind = "clocked" => e = c + 1 /\ time = ClockAt(design.sampling, c)
               /\ ~Independent => e = FirstConversion + Samples
               /\ ~Independent /\ time > began => e = c + 1 /\ time = ClockAt(design.sampling, c)
<1> DEFINE c == NextConversion(adc)
           e == IndexAfter(design.sampling, time)
           F == FirstConversion
           sampling == design.sampling
<1>1. /\ TimesOK /\ adc \in Adc /\ ConversionsOK(adc) /\ PositionOK(adc) /\ design \in Designs
      /\ time \in Nat /\ interrupt \in Int
  BY DEF SamplerInv, TimesOK, ConversionsOK
<1>2. /\ c \in Int /\ F \in Int /\ sampling \in Clock
      /\ ClockAt(sampling, c) \in Int /\ ClockAt(sampling, c - 1) \in Int
  BY <1>1, ConversionFacts, TimeFacts
<1>3. e \in Int
  BY <1>1, <1>2, IndexAfterSpec
<1>4. /\ ClockAt(sampling, c - 1) < time
         \/ (ClockAt(sampling, c - 1) = time /\ time = began /\ ~Independent)
      /\ time <= ClockAt(sampling, c) /\ c >= F
  BY <1>1 DEF PositionOK
<1>5. /\ ClockAt(sampling, c + 1) \in Int /\ ClockAt(sampling, c) < ClockAt(sampling, c + 1)
      /\ c + 1 \in Int /\ (c + 1) - 1 = c
  BY <1>2, ClockOrder
<1> HIDE DEF c, e, F, sampling
<1>6. ASSUME time = ClockAt(sampling, c) PROVE e = c + 1
  <2>1. ClockAt(sampling, (c + 1) - 1) <= time /\ time < ClockAt(sampling, c + 1)
    BY <1>1, <1>5, <1>6
  <2> QED
    BY <1>1, <1>2, <1>5, <2>1, IndexAfterUnique DEF e, sampling
<1>7. ASSUME time # ClockAt(sampling, c), ClockAt(sampling, c - 1) <= time PROVE e = c
  <2>1. time < ClockAt(sampling, c)
    BY <1>1, <1>2, <1>4, <1>7
  <2> QED
    BY <1>1, <1>2, <1>7, <2>1, IndexAfterUnique DEF e, sampling
<1>8. Independent /\ design.kind = "sampled" => e = IF ConversionDue(adc, time) THEN c + 1 ELSE c
  <2> SUFFICES ASSUME Independent PROVE e = IF ConversionDue(adc, time) THEN c + 1 ELSE c
    OBVIOUS
  <2>1. ConversionDue(adc, time) <=> time = ClockAt(sampling, c)
    BY DEF ConversionDue, ClockDue, NextConversion, c, sampling
  <2>2. ClockAt(sampling, c - 1) <= time
    BY <1>1, <1>2, <1>4
  <2> QED
    BY <1>6, <1>7, <2>1, <2>2
<1>9. design.kind = "clocked" => time = ClockAt(sampling, c)
  <2> SUFFICES ASSUME design.kind = "clocked" PROVE time = ClockAt(sampling, c)
    OBVIOUS
  <2>1. Independent /\ time = ClockAt(sampling, interrupt)
    BY <1>1, DesignFacts DEF Independent, ControlTime, sampling
  <2>2. ClockAt(sampling, c - 1) < ClockAt(sampling, interrupt)
        /\ ClockAt(sampling, interrupt) <= ClockAt(sampling, c)
    BY <1>4, <2>1
  <2>3. c - 1 < interrupt /\ interrupt <= c
    <3>1. c - 1 \in Int
      BY <1>2
    <3> QED
      BY <1>1, <1>2, <2>2, <3>1, ClockOrder
  <2>4. interrupt = c
    BY <1>1, <1>2, <2>3
  <2> QED
    BY <2>1, <2>4
<1>10. ASSUME ~Independent
       PROVE  /\ e = F + Samples
              /\ time > began => e = c + 1 /\ time = ClockAt(sampling, c)
  <2> DEFINE l == F - 1 + Samples
  <2>1. l \in Int /\ l = (F + Samples) - 1 /\ F + Samples \in Int
    BY <1>1, <1>2, DesignFacts
  <2>2. time = ClockAt(sampling, l)
    <3>1. LastIndex \in Int /\ time = LastControl + ControlPeriod
      BY <1>1, TimeFacts
    <3> QED
      BY <1>1, <1>10, <3>1, AlignedConversions DEF LastControl, FirstConversion, F, sampling
  <2> HIDE DEF l
  <2>3. e = F + Samples
    <3>1. ClockAt(sampling, (F + Samples) - 1) <= time
      BY <1>1, <2>1, <2>2
    <3>2. time < ClockAt(sampling, F + Samples)
      <4>1. l < F + Samples
        BY <1>2, <2>1
      <4> QED
        BY <1>2, <2>1, <2>2, <4>1, ClockOrder
    <3> QED
      BY <1>1, <1>2, <2>1, <3>1, <3>2, IndexAfterUnique DEF e, sampling
  <2>4. ASSUME time > began PROVE c = l
    <3>1. ClockAt(sampling, c - 1) < ClockAt(sampling, l)
          /\ ClockAt(sampling, l) <= ClockAt(sampling, c)
      BY <1>1, <1>4, <2>2, <2>4 DEF TimesOK
    <3>2. c - 1 < l /\ l <= c
      <4>1. c - 1 \in Int
        BY <1>2
      <4> QED
        BY <1>2, <2>1, <3>1, <4>1, ClockOrder
    <3> QED
      BY <1>2, <2>1, <3>2
  <2>5. c = l => e = c + 1
    BY <1>2, <2>1, <2>3
  <2> QED
    BY <2>2, <2>3, <2>4, <2>5
<1>11. /\ c \in Int /\ e \in Int /\ F \in Int /\ c >= F
       /\ Independent /\ design.kind = "sampled" => e = IF ConversionDue(adc, time) THEN c + 1 ELSE c
       /\ design.kind = "clocked" => e = c + 1 /\ time = ClockAt(sampling, c)
       /\ ~Independent => e = F + Samples
       /\ ~Independent /\ time > began => e = c + 1 /\ time = ClockAt(sampling, c)
  BY <1>2, <1>3, <1>4, <1>6, <1>8, <1>9, <1>10
<1> QED
  BY <1>11, Zenon DEF c, e, F, sampling

\* Between two interrupts an aligned conversion is due where the list says.
LEMMA PeekIsDue ==
    ASSUME TimesOK, adc \in Adc, ~Independent, pc # "actuate", NEW t \in Int,
           t < LastControl + ControlPeriod
    PROVE  PeekDue(adc, t) <=> t = ClockAt(design.sampling, NextConversion(adc))
<1> DEFINE s == design.sampling.period
           cnt == adc.taken
<1>1. design \in Designs /\ adc.taken \in Int
  BY DEF TimesOK, Adc
<1>2. /\ s \in Nat /\ s >= 1 /\ Samples \in Nat /\ ControlPeriod = Samples * s
      /\ LastIndex \in Int /\ LastIndex = interrupt - 1 /\ FirstConversion \in Int
      /\ LastControl \in Int
  BY <1>1, DesignFacts, TimeFacts
<1>3. NextConversion(adc) = FirstConversion - 1 + cnt
  <2>1. NextConversion(adc) = FirstConversion + cnt - 1
    BY DEF NextConversion
  <2>2. FirstConversion \in Int /\ cnt \in Int
    BY <1>1, <1>2
  <2> HIDE DEF cnt
  <2> QED
    BY <2>1, <2>2
<1>4. ClockAt(design.sampling, NextConversion(adc)) = LastControl + cnt * s
  <2>1. \A n \in Int : ClockAt(design.sampling, FirstConversion - 1 + n) = LastControl + n * s
    BY <1>1, <1>2, AlignedConversions DEF FirstConversion, LastControl
  <2> HIDE DEF s
  <2> QED
    BY <1>1, <1>3, <2>1
<1>5. LastControl = ClockAt(design.control, interrupt - 1)
  BY <1>2 DEF LastControl
<1>6. t = LastControl + cnt * s => cnt < Samples
  <2> SUFFICES ASSUME t = LastControl + cnt * s, ~(cnt < Samples) PROVE FALSE
    OBVIOUS
  <2> HIDE DEF s, cnt
  <2> DEFINE d == cnt - Samples
             x == Samples * s
             y == d * s
  <2>1. d \in Nat /\ cnt = Samples + d
    BY <1>1, <1>2 DEF cnt
  <2>2. (Samples + d) * s = x + y /\ y >= 0 /\ y \in Int /\ x \in Int
    <3> HIDE DEF d
    <3> QED
      BY <1>2, <2>1
  <2>3. t = LastControl + (x + y) /\ ControlPeriod = x
    BY <1>2, <2>1, <2>2
  <2> HIDE DEF d, x, y
  <2> QED
    BY <1>2, <2>2, <2>3
<1> QED
  BY <1>4, <1>5, <1>6 DEF PeekDue

\* After sense, the conversions up to now are taken.
LEMMA SenseConversions ==
    ASSUME SamplerInv, Sense
    PROVE  ConversionsOK(adc)'
<1>1. /\ TimesOK /\ TraceOK /\ adc \in Adc /\ ConversionsOK(adc) /\ design \in Designs
      /\ SensedConversions(adc') /\ time \in Nat /\ reading \in Int /\ adc' \in Adc
  BY SensedIs, TimeFacts DEF SamplerInv, TimesOK, SensedIntegrals
<1>2. /\ UNCHANGED <<design, time, reading, changed, began, trace>>
      /\ pc = "sense" /\ pc' = "actuate" /\ Latest = time
      /\ (Independent <=> Independent')
      /\ time = ControlTime => time = LastControl + ControlPeriod
      /\ time # ControlTime => time < LastControl + ControlPeriod
      /\ LastControl' = IF time = ControlTime THEN time ELSE LastControl
  BY SensedTimes, Zenon
<1>3. /\ design.kind \in {"sampled", "clocked", "squares"} /\ design.sampling \in Clock
      /\ design.kind = "clocked" => design.sampling = design.control
  BY <1>1, DesignFacts
<1>4. /\ ConvertedAdc.taken = adc.taken /\ (~Independent => ConvertedAdc = adc)
      /\ IF ConversionDue(adc, time)
         THEN /\ ConvertedAdc.index = adc.index + 1
              /\ ConvertedAdc.peeks = Append(adc.peeks, [t |-> time, value |-> reading])
         ELSE ConvertedAdc = adc
  BY <1>1, ConvertedAdcIs
<1>5. /\ Independent => adc.taken = 1
      /\ ~Independent => adc.index = 0 /\ adc.held = 0
      /\ design.kind = "squares" => adc.peeks = <<>> /\ adc.taken = 1
      /\ design.kind # "squares" => PositionOK(adc)
  BY <1>1 DEF ConversionsOK
<1>6. design.kind = "clocked" => Independent
  BY DEF Independent
<1>7. Independent => adc'.taken = 1
  <2> SUFFICES ASSUME Independent PROVE adc'.taken = 1
    OBVIOUS
  <2>1. ~PeekDue(adc, time)
    BY DEF PeekDue
  <2> QED
    BY <1>1, <1>3, <1>4, <1>5, <2>1 DEF SensedConversions, KeepsConversions
<1>8. ~Independent => adc'.index = 0 /\ adc'.held = 0
  <2> SUFFICES ASSUME ~Independent PROVE adc'.index = 0 /\ adc'.held = 0
    OBVIOUS
  <2>1. design.kind # "clocked" /\ ConvertedAdc = adc
    BY <1>4, <1>6
  <2> QED
    BY <1>1, <1>3, <1>5, <2>1 DEF SensedConversions, KeepsConversions
<1>9. design.kind = "squares" => adc'.peeks = <<>> /\ adc'.taken = 1
  BY <1>1, <1>5 DEF SensedConversions, KeepsConversions
<1>10. ASSUME design.kind # "squares" PROVE PositionOK(adc)'
  <2> DEFINE c == NextConversion(adc)
             F == FirstConversion
             sampling == design.sampling
             new == NextConversion(adc')
  <2>1. PositionOK(adc)
    BY <1>5, <1>10
  <2>2. /\ c \in Int /\ F \in Int /\ sampling \in Clock
        /\ ClockAt(sampling, c) \in Int /\ ClockAt(sampling, c - 1) \in Int
    BY <1>1, ConversionFacts, TimeFacts
  <2>3. /\ ClockAt(sampling, c - 1) <= time /\ time <= ClockAt(sampling, c) /\ c >= F
        /\ adc.peeks = Converted(c - F)
        /\ \A m \in 1 .. c - F : ClockAt(sampling, F + m - 1) \in DOMAIN trace
    <3>1. ClockAt(sampling, c - 1) < time \/ ClockAt(sampling, c - 1) = time
      BY <1>2, <2>1 DEF PositionOK
    <3> QED
      BY <1>1, <1>2, <2>1, <2>2, <3>1 DEF PositionOK
  <2>4. CASE time = ControlTime
    <3> DEFINE e == IndexAfter(design.sampling, time)
    <3>1. /\ e \in Int
          /\ Independent /\ design.kind = "sampled"
                => e = IF ConversionDue(adc, time) THEN c + 1 ELSE c
          /\ design.kind = "clocked" => e = c + 1
      BY <1>1, <1>2, <1>10, <2>4, ControlPosition
    <3>2. FirstConversion' = e
      BY <1>2, <2>4 DEF FirstConversion
    <3>3. adc'.peeks = <<>> /\ adc'.taken = 1
          /\ adc'.index = IF design.kind = "clocked" THEN adc.index + 1 ELSE ConvertedAdc.index
      BY <1>1, <1>10, <2>4 DEF SensedConversions
    <3>4. NextConversion(adc)' = e
      <4>1. CASE Independent
        <5>1. NextConversion(adc)' = adc'.index /\ c = adc.index
          BY <1>2, <4>1 DEF NextConversion
        <5>2. CASE design.kind = "clocked"
          BY <3>1, <3>3, <5>1, <5>2
        <5>3. CASE design.kind # "clocked"
          <6>1. design.kind = "sampled"
            BY <1>3, <1>10, <5>3
          <6> QED
            BY <1>4, <3>1, <3>3, <4>1, <5>1, <6>1
        <5> QED
          BY <5>2, <5>3
      <4>2. CASE ~Independent
        <5>1. NextConversion(adc)' = e + 1 - 1
          BY <1>2, <3>2, <3>3, <4>2 DEF NextConversion
        <5> QED
          BY <3>1, <5>1
      <4> QED
        BY <4>1, <4>2
    <3>5. ClockAt(design.sampling, e - 1) <= time /\ time < ClockAt(design.sampling, e)
      BY <1>1, <1>3, IndexAfterSpec
    <3> HIDE DEF e
    <3>6. Converted(0)' = <<>> /\ e - e = 0 /\ 1 .. 0 = {} /\ e >= e
      <4>1. Converted(0)' = <<>>
        BY DEF Converted
      <4> QED
        BY <3>1, <4>1
    <3>7. (NextConversion(adc) - FirstConversion)' = 0
      BY <3>2, <3>4, <3>6
    <3>8. Converted(NextConversion(adc) - FirstConversion)' = <<>>
      BY <3>6, <3>7 DEF Converted
    <3> QED
      BY <1>2, <3>2, <3>3, <3>4, <3>5, <3>6, <3>7, <3>8 DEF PositionOK
  <2>5. CASE time # ControlTime
    <3>1. FirstConversion' = F /\ \A n : Converted(n)' = Converted(n)
      BY <1>2, <2>5 DEF FirstConversion, Converted
    <3> DEFINE taken == design.kind = "sampled" /\ (PeekDue(adc, time) \/ ConversionDue(adc, time))
    <3>2. taken <=> time = ClockAt(sampling, c)
      <4>1. CASE Independent
        <5>1. ConversionDue(adc, time) <=> time = ClockAt(sampling, c)
          BY <4>1 DEF ConversionDue, ClockDue, NextConversion
        <5>2. ~PeekDue(adc, time)
          BY <4>1 DEF PeekDue
        <5>3. ASSUME design.kind = "clocked" PROVE time # ClockAt(sampling, c)
          <6> SUFFICES ASSUME time = ClockAt(sampling, c) PROVE FALSE
            OBVIOUS
          <6>1. /\ LastIndex \in Int /\ LastControl < time /\ LastControl \in Int
                /\ sampling = design.control
            BY <1>1, <1>2, <1>3, <5>3, TimeFacts DEF TimesOK
          <6>2. LastControl + ControlPeriod = ClockAt(sampling, LastIndex + 1)
            BY <6>1, <2>2, ClockStep DEF LastControl, ControlPeriod
          <6>3. ClockAt(sampling, LastIndex) < ClockAt(sampling, c)
                /\ ClockAt(sampling, c) < ClockAt(sampling, LastIndex + 1)
            BY <1>2, <2>5, <6>1, <6>2 DEF LastControl
          <6> HIDE DEF c, sampling
          <6>4. LastIndex < c /\ c < LastIndex + 1
            <7>1. LastIndex + 1 \in Int
              BY <6>1
            <7> QED
              BY <2>2, <6>1, <6>3, <7>1, ClockOrder
          <6> QED
            BY <2>2, <6>1, <6>4
        <5> QED
          BY <1>3, <1>10, <5>1, <5>2, <5>3
      <4>2. CASE ~Independent
        <5>1. design.kind = "sampled" /\ ~ConversionDue(adc, time)
          BY <1>3, <1>6, <1>10, <4>2 DEF ConversionDue
        <5>2. PeekDue(adc, time) <=> time = ClockAt(sampling, c)
          BY <1>1, <1>2, <2>5, <4>2, PeekIsDue
        <5> QED
          BY <5>1, <5>2
      <4> QED
        BY <4>1, <4>2
    <3>3. /\ adc'.peeks = IF taken THEN Append(adc.peeks, [t |-> time, value |-> reading])
                          ELSE adc.peeks
          /\ NextConversion(adc)' = IF taken THEN c + 1 ELSE c
      <4>1. CASE Independent
        <5>1. NextConversion(adc)' = adc'.index /\ c = adc.index /\ ~PeekDue(adc, time)
          BY <1>2, <4>1 DEF NextConversion, PeekDue
        <5>2. CASE design.kind = "clocked"
          BY <1>1, <1>10, <2>5, <5>1, <5>2 DEF SensedConversions, KeepsConversions
        <5>3. CASE design.kind = "sampled"
          <6>1. adc' = ConvertedAdc
            BY <1>1, <2>5, <5>1, <5>3 DEF SensedConversions
          <6> QED
            BY <1>4, <5>1, <5>3, <6>1
        <5> QED
          BY <1>3, <1>10, <5>2, <5>3
      <4>2. CASE ~Independent
        <5>1. NextConversion(adc)' = F + adc'.taken - 1 /\ c = F + adc.taken - 1
              /\ ~ConversionDue(adc, time) /\ ConvertedAdc = adc
          BY <1>2, <1>4, <3>1, <4>2 DEF NextConversion, ConversionDue
        <5>2. design.kind = "sampled"
          BY <1>3, <1>6, <1>10, <4>2
        <5>3. adc.taken \in Int
          BY <1>1 DEF Adc
        <5>4. CASE PeekDue(adc, time)
          <6>1. adc'.peeks = Append(adc.peeks, [t |-> time, value |-> reading])
                /\ adc'.taken = adc.taken + 1
            BY <1>1, <2>5, <5>2, <5>4 DEF SensedConversions
          <6>2. F + (adc.taken + 1) - 1 = (F + adc.taken - 1) + 1
            <7> HIDE DEF F
            <7> QED
              BY <2>2, <5>3
          <6> QED
            BY <5>1, <5>2, <5>4, <6>1, <6>2
        <5>5. CASE ~PeekDue(adc, time)
          <6>1. adc' = adc
            BY <1>1, <2>5, <5>1, <5>2, <5>5 DEF SensedConversions
          <6> QED
            BY <5>1, <5>5, <6>1
        <5> QED
          BY <5>4, <5>5
      <4> QED
        BY <4>1, <4>2
    <3> HIDE DEF taken, c, F, sampling
    <3>4. CASE ~taken
      <4>1. time < ClockAt(sampling, c)
        BY <1>1, <2>2, <2>3, <3>2, <3>4
      <4>2. adc'.peeks = adc.peeks /\ NextConversion(adc)' = c
        BY <3>3, <3>4
      <4> QED
        BY <1>2, <2>3, <3>1, <4>1, <4>2 DEF PositionOK, F, sampling
    <3>5. CASE taken
      <4>1. /\ adc'.peeks = Append(adc.peeks, [t |-> time, value |-> reading])
            /\ NextConversion(adc)' = c + 1
        BY <3>3, <3>5
      <4>2. time = ClockAt(sampling, c)
        BY <3>2, <3>5
      <4>3. time < ClockAt(sampling, c + 1) /\ (c + 1) - 1 = c /\ c + 1 >= F
            /\ (c + 1) - F = (c - F) + 1 /\ c - F \in Nat /\ F + (c - F) = c
        <5>1. ClockAt(sampling, c) < ClockAt(sampling, c + 1)
          <6>1. c + 1 \in Int /\ c < c + 1
            BY <2>2
          <6> QED
            BY <2>2, <6>1, ClockOrder
        <5> QED
          BY <2>2, <2>3, <4>2, <5>1
      <4>4. adc'.peeks = Converted((c - F) + 1)
        <5>1. trace[time].seen = reading
          BY <1>1, <1>2 DEF TraceOK
        <5>2. Append(Converted(c - F), [t |-> time, value |-> reading]) = Converted((c - F) + 1)
          BY <2>2, <4>2, <4>3, <5>1, ConvertedGoesOn DEF F, sampling
        <5> QED
          BY <2>3, <4>1, <5>2
      <4>5. ASSUME NEW m \in 1 .. (c + 1) - F
            PROVE  ClockAt(sampling, F + m - 1) \in DOMAIN trace
        <5>1. CASE m \in 1 .. c - F
          BY <2>3, <5>1
        <5>2. CASE m \notin 1 .. c - F
          <6>1. m = (c - F) + 1
            BY <4>3, <5>2
          <6>2. F + m - 1 = c
            BY <2>2, <4>3, <6>1
          <6>3. time \in DOMAIN trace
            BY <1>1, <1>2 DEF TraceOK
          <6> QED
            BY <4>2, <6>2, <6>3
        <5> QED
          BY <5>1, <5>2
      <4>6. ClockAt(sampling, c) <= time
        BY <1>1, <4>2
      <4> QED
        BY <1>2, <3>1, <4>1, <4>3, <4>4, <4>5, <4>6 DEF PositionOK, F, sampling
    <3> QED
      BY <3>4, <3>5
  <2> QED
    BY <2>4, <2>5
<1> QED
  BY <1>2, <1>7, <1>8, <1>9, <1>10 DEF ConversionsOK

\* At an interrupt the conversions of its period are those of the list.
LEMMA ConversionsAre ==
    ASSUME SamplerInv, time = LastControl + ControlPeriod
    PROVE  Conversions = Converted(IndexAfter(design.sampling, time) - FirstConversion)
<1>1. TimesOK /\ time \in Int
  BY DEF SamplerInv, TimesOK
<1>2. LastControl \in Int /\ ControlPeriod \in Int
  BY <1>1, TimeFacts
<1>3. time - ControlPeriod = LastControl
  BY <1>2
<1>4. FirstConversion = IndexAfter(design.sampling, time - ControlPeriod)
  BY <1>3 DEF FirstConversion
<1> QED
  BY <1>4 DEF Conversions, Converted

\* What sense publishes is of the window and of the period that end now.
LEMMA SensePublished ==
    ASSUME SamplerInv, Sense
    PROVE  PublishedOK'
<1>1. /\ TimesOK /\ TraceOK /\ adc \in Adc /\ MeanOK(adc) /\ ConversionsOK(adc)
      /\ design \in Designs /\ time \in Nat /\ reading \in Int /\ PublishedOK
  BY TimeFacts DEF SamplerInv, TimesOK
<1>2. /\ UNCHANGED <<design, time, reading, changed, began, trace>>
      /\ pc = "sense" /\ pc' = "actuate" /\ Latest = time /\ ControlPeriod' = ControlPeriod
      /\ (Averaging <=> Averaging')
      /\ time = ControlTime => time = LastControl + ControlPeriod
  BY SensedTimes, Zenon
<1>3. published.t \in Int /\ published.t < time
  BY <1>1, <1>2 DEF PublishedOK
<1>4. design.kind \in {"sampled", "clocked", "squares"} /\ design.window \in Nat
      /\ design.window <= ControlPeriod /\ ControlPeriod \in Nat /\ LastControl \in Int
      /\ WindowFrom = LastControl + ControlPeriod - design.window
  BY <1>1, DesignFacts, TimeFacts
<1>5. CASE published' = published
  BY <1>1, <1>2, <1>3, <1>5 DEF PublishedOK, MeanIsOfWindow, SamplesAreComplete, JustSampled
<1>6. ASSUME time = ControlTime, design.kind # "squares", NEW s \in Adc, NEW held,
             published' = Measure(s, time, IF held THEN s.held ELSE reading, held),
             s.sum = adc.sum,
             time > began => s.peeks \o (IF held THEN <<>> ELSE <<[t |-> time, value |-> reading]>>)
                               = Conversions
      PROVE  PublishedOK'
  <2>1. /\ published'.t = time /\ published'.value = (IF Averaging THEN s.sum
                                                     ELSE IF held THEN s.held ELSE reading)
        /\ published'.samples = s.peeks \o (IF held THEN <<>>
              ELSE <<[t |-> time, value |-> IF held THEN s.held ELSE reading]>>)
    BY <1>6 DEF Measure
  <2>2. MeanIsOfWindow'
    <3> SUFFICES ASSUME Averaging
                 PROVE  published'.value = IntegralOf(Readings, time - design.window, time)'
      BY <1>2 DEF MeanIsOfWindow, JustSampled
    <3>1. time = LastControl + ControlPeriod /\ WindowFrom = time - design.window
          /\ design.window >= 1 /\ WindowFrom \in Int /\ WindowFrom < time
      BY <1>1, <1>2, <1>4, <1>6 DEF Averaging
    <3>2. adc.open
      BY <1>1, <3>1 DEF MeanOK
    <3>3. adc.sum = IntegralIn(trace, Readings, WindowFrom, time)
      BY <1>1, <1>2, <3>2 DEF MeanOK
    <3>4. IntegralOf(Readings, time - design.window, time)'
            = IntegralIn(trace, Readings, time - design.window, time)
      BY <1>2 DEF IntegralOf, IntegralIn, Strip, StripIn, Readings
    <3> QED
      BY <1>6, <2>1, <3>1, <3>3, <3>4
  <2>3. SamplesAreComplete'
    <3> SUFFICES ASSUME time > began PROVE published'.samples = Conversions'
      BY <1>2 DEF SamplesAreComplete, JustSampled
    <3>1. Conversions' = Conversions
      BY <1>2 DEF Conversions
    <3>2. published'.samples = s.peeks \o (IF held THEN <<>> ELSE <<[t |-> time, value |-> reading]>>)
      BY <2>1
    <3> QED
      BY <1>6, <3>1, <3>2
  <2> QED
    BY <1>1, <1>2, <2>1, <2>2, <2>3 DEF PublishedOK
<1>7. ASSUME time = ControlTime, design.kind # "squares"
      PROVE  LET c == NextConversion(adc)
                 e == IndexAfter(design.sampling, time)
             IN  /\ Conversions = Converted(e - FirstConversion)
                 /\ adc.peeks = Converted(c - FirstConversion)
                 /\ Independent /\ design.kind = "sampled" =>
                       e = IF ConversionDue(adc, time) THEN c + 1 ELSE c
                 /\ ~Independent /\ time > began => e = c + 1
                 /\ design.kind = "clocked" => e = c + 1
                 /\ time = ClockAt(design.sampling, c) /\ e = c + 1 =>
                       Append(adc.peeks, [t |-> time, value |-> reading]) = Conversions
                 /\ (~Independent /\ time > began) \/ design.kind = "clocked" =>
                       time = ClockAt(design.sampling, c)
  <2> DEFINE c == NextConversion(adc)
             e == IndexAfter(design.sampling, time)
             F == FirstConversion
  <2>1. /\ c \in Int /\ e \in Int /\ F \in Int /\ c >= F
        /\ Independent /\ design.kind = "sampled"
              => e = IF ConversionDue(adc, time) THEN c + 1 ELSE c
        /\ design.kind = "clocked" => e = c + 1 /\ time = ClockAt(design.sampling, c)
        /\ ~Independent /\ time > began => e = c + 1 /\ time = ClockAt(design.sampling, c)
    BY <1>2, <1>7, ControlPosition
  <2>2. Conversions = Converted(e - F)
    BY <1>2, <1>7, ConversionsAre
  <2>3. adc.peeks = Converted(c - F)
    BY <1>1, <1>7 DEF ConversionsOK, PositionOK
  <2> HIDE DEF c, e, F
  <2>4. ASSUME time = ClockAt(design.sampling, c), e = c + 1
        PROVE  Append(adc.peeks, [t |-> time, value |-> reading]) = Conversions
    <3>1. c - F \in Nat /\ F + (c - F) = c /\ e - F = (c - F) + 1
      BY <2>1, <2>4
    <3>2. trace[time].seen = reading
      BY <1>1, <1>2 DEF TraceOK
    <3>3. Append(Converted(c - F), [t |-> time, value |-> reading]) = Converted((c - F) + 1)
      BY <2>1, <2>4, <3>1, <3>2, ConvertedGoesOn DEF F
    <3> QED
      BY <2>2, <2>3, <3>1, <3>3
  <2>5. /\ Conversions = Converted(e - F) /\ adc.peeks = Converted(c - F)
        /\ Independent /\ design.kind = "sampled" =>
              e = IF ConversionDue(adc, time) THEN c + 1 ELSE c
        /\ ~Independent /\ time > began => e = c + 1
        /\ design.kind = "clocked" => e = c + 1
        /\ time = ClockAt(design.sampling, c) /\ e = c + 1 =>
              Append(adc.peeks, [t |-> time, value |-> reading]) = Conversions
        /\ (~Independent /\ time > began) \/ design.kind = "clocked" =>
              time = ClockAt(design.sampling, c)
    BY <2>1, <2>2, <2>3, <2>4
  <2> QED
    BY <2>5, Zenon DEF c, e, F
<1>8. adc.peeks \o <<[t |-> time, value |-> reading]>> = Append(adc.peeks, [t |-> time, value |-> reading])
      /\ \A s \in Adc : s.peeks \o <<>> = s.peeks
  <2> DEFINE x == [t |-> time, value |-> reading]
  <2>1. \A s \in Adc : s.peeks \in Seq([t : Int, value : Int])
    BY DEF Adc, Peeks
  <2>2. x \in [t : Int, value : Int]
    BY <1>1
  <2> HIDE DEF x
  <2>3. \A p \in Seq([t : Int, value : Int]) : p \o <<x>> = Append(p, x) /\ p \o <<>> = p
    BY <2>2
  <2> QED
    BY <1>1, <2>1, <2>3, Zenon DEF x
<1>9. CASE design.kind = "clocked" /\ time = ControlTime
  <2>1. published' = Measure(adc, time, IF FALSE THEN adc.held ELSE reading, FALSE)
    BY <1>9 DEF Sense, ControlSample
  <2>2. adc.peeks \o (IF FALSE THEN <<>> ELSE <<[t |-> time, value |-> reading]>>) = Conversions
    BY <1>7, <1>8, <1>9
  <2> QED
    BY <1>1, <1>6, <1>9, <2>1, <2>2
<1>10. CASE design.kind = "sampled" /\ time = ControlTime
  <2> DEFINE s == ConvertedAdc
  <2>1. published' = Measure(s, time, IF Independent THEN s.held ELSE reading, Independent)
    BY <1>10 DEF Sense, ControlSample, ConvertedAdc
  <2>2. /\ s \in Adc /\ s.sum = adc.sum /\ (~Independent => s = adc)
        /\ IF ConversionDue(adc, time)
           THEN s.peeks = Append(adc.peeks, [t |-> time, value |-> reading])
           ELSE s = adc
    BY <1>1, ConvertedAdcIs DEF KeepsMean
  <2> HIDE DEF s
  <2>3. ASSUME time > began
        PROVE  s.peeks \o (IF Independent THEN <<>> ELSE <<[t |-> time, value |-> reading]>>)
                 = Conversions
    <3>1. CASE ~Independent
      <4>1. adc.peeks \o <<[t |-> time, value |-> reading]>> = Conversions
        BY <1>7, <1>8, <1>10, <2>3, <3>1
      <4> QED
        BY <2>2, <3>1, <4>1
    <3>2. CASE Independent /\ ConversionDue(adc, time)
      <4>1. time = ClockAt(design.sampling, NextConversion(adc))
        BY <3>2 DEF ConversionDue, ClockDue, NextConversion
      <4>2. Append(adc.peeks, [t |-> time, value |-> reading]) = Conversions
        BY <1>7, <1>10, <3>2, <4>1
      <4>3. s.peeks \o <<>> = s.peeks
        BY <1>8, <2>2
      <4> QED
        BY <2>2, <3>2, <4>2, <4>3
    <3>3. CASE Independent /\ ~ConversionDue(adc, time)
      <4>1. adc.peeks = Conversions
        BY <1>7, <1>10, <3>3
      <4>2. s.peeks \o <<>> = s.peeks
        BY <1>8, <2>2
      <4> QED
        BY <2>2, <3>3, <4>1, <4>2
    <3> QED
      BY <3>1, <3>2, <3>3
  <2> QED
    BY <1>6, <1>10, <2>1, <2>2, <2>3
<1>11. CASE design.kind = "squares" \/ time # ControlTime
  <2>1. published' = published
    BY <1>4, <1>11 DEF Sense
  <2> QED
    BY <1>5, <2>1
<1> QED
  BY <1>4, <1>9, <1>10, <1>11

\* The unit senses.
LEMMA SenseInv ==
    ASSUME SamplerInv, Sense
    PROVE  SamplerInv'
<1>1. adc' \in Adc'
  <2>1. adc' \in Adc /\ design' = design
    BY SensedIs, SensedTimes DEF SensedIntegrals
  <2> QED
    BY <2>1 DEF Adc, Rings
<1> QED
  BY <1>1, SensedTimes, SenseMean, SenseSquares, SenseRing, SenseConversions, SensePublished
  DEF SamplerInv

----------------------------------------------------------------------------
(***************************************************************************)
(* The unit actuates.                                                      *)
(***************************************************************************)
\* The loop seeds the windows with the reading after the last change.
LEMMA ActuateInv ==
    ASSUME SamplerInv, Actuate
    PROVE  SamplerInv'
<1>1. /\ pc = "actuate" /\ pc' = "idle" /\ changed' = FALSE
      /\ interrupt' = IF time = ControlTime /\ design.kind = "sampled" THEN interrupt + 1
                      ELSE interrupt
      /\ UNCHANGED <<design, time, published, began, trace, squares>>
  BY DEF Actuate
<1> DEFINE opens == design.kind = "sampled" /\ OpensAt(adc, ClockAt(design.control, interrupt'), time)
           opened == IF opens THEN Open(adc) ELSE adc
<1>2. PICK new \in Values :
         /\ reading' = new
         /\ adc' = IF Accumulating /\ (changed \/ new # reading) THEN Seed(opened, new) ELSE opened
  BY DEF Actuate
<1>3. /\ TimesOK /\ TraceOK /\ adc \in Adc /\ MeanOK(adc) /\ AnchorOK(adc) /\ SquareOK(adc)
      /\ RingOK(adc) /\ ConversionsOK(adc) /\ PublishedOK
  BY DEF SamplerInv
<1>4. /\ time \in Nat /\ reading \in Values /\ interrupt \in Int /\ design \in Designs
      /\ (time = ControlTime => design.kind = "sampled")
      /\ LastControl <= time /\ time < LastControl + ControlPeriod /\ new \in Int
  BY <1>1, <1>3, ReadingFunctions DEF TimesOK
<1>5. /\ LastControl \in Int /\ ControlPeriod \in Nat /\ WindowFrom \in Int
      /\ WindowFrom = LastControl + ControlPeriod - design.window /\ design.window \in Nat
      /\ LastIndex \in Int /\ design.control \in Clock
      /\ design.kind \in {"sampled", "clocked", "squares"}
      /\ design.kind = "squares" => design.window = 0
  BY <1>3, <1>4, TimeFacts, DesignFacts
<1>6. LastIndex = interrupt' - 1 /\ interrupt' \in Int
  BY <1>1, <1>4 DEF LastIndex
<1>7. LastIndex' = LastIndex /\ ControlPeriod' = ControlPeriod /\ Latest' = Latest
  BY <1>1, <1>6 DEF LastIndex, ControlPeriod, Latest
<1>8. LastControl' = LastControl
  BY <1>1, <1>7 DEF LastControl
<1>9. /\ FirstConversion' = FirstConversion /\ WindowFrom' = WindowFrom
      /\ SquaresFrom' = SquaresFrom /\ (Averaging <=> Averaging') /\ (Squaring <=> Squaring')
      /\ (Independent <=> Independent') /\ (Accumulating <=> Accumulating')
  BY <1>1, <1>7, <1>8 DEF FirstConversion, WindowFrom, SquaresFrom, Averaging, Squaring,
                          Independent, Accumulating
<1>10. ClockAt(design.control, interrupt') = LastControl + ControlPeriod
  <2> DEFINE i == interrupt'
  <2>1. i = LastIndex + 1
    <3>1. LastIndex = i - 1 /\ i \in Int
      BY <1>6
    <3> HIDE DEF i
    <3> QED
      BY <3>1
  <2> QED
    BY <1>5, <2>1, ClockStep DEF LastControl, ControlPeriod
<1>11. opens <=> design.kind = "sampled" /\ ~adc.open /\ time = WindowFrom
  BY <1>5, <1>10 DEF OpensAt
<1> HIDE DEF opens
<1>12. /\ opened \in Adc /\ KeepsRing(opened, adc) /\ KeepsConversions(opened, adc)
       /\ KeepsSquare(opened, adc) /\ KeepsAnchor(opened, adc) /\ opened.last = adc.last
       /\ opened.sum = (IF opens THEN 0 ELSE adc.sum)
       /\ opened.open = (IF opens THEN TRUE ELSE adc.open)
  <2>1. CASE opens
    <3>1. opened = Open(adc)
      BY <2>1
    <3> HIDE DEF opened
    <3> QED
      BY <1>3, <2>1, <3>1, OpenIs
  <2>2. CASE ~opens
    <3>1. opened = adc
      BY <2>2
    <3> HIDE DEF opened
    <3> QED
      BY <1>3, <2>2, <3>1 DEF KeepsRing, KeepsConversions, KeepsSquare, KeepsAnchor
  <2> QED
    BY <2>1, <2>2
<1> HIDE DEF opened
<1>13. (Averaging => Accumulating) /\ (Squaring => Accumulating)
  BY DEF Accumulating
<1>14. /\ Averaging => changed \/ adc.last = reading
       /\ Squaring => changed \/ adc.square = reading * reading
       /\ adc.anchored <=> Accumulating
       /\ ~Averaging => adc.last = 0
  BY <1>3 DEF MeanOK, SquareOK, AnchorOK
<1>15. /\ adc' \in Adc /\ KeepsRing(adc', adc) /\ KeepsConversions(adc', adc)
       /\ adc'.sum = opened.sum /\ adc'.open = opened.open /\ adc'.upto = adc.upto
       /\ adc'.area = adc.area /\ adc'.duration = adc.duration
       /\ (adc'.anchored <=> Accumulating)
       /\ adc'.last = (IF Averaging THEN new ELSE 0)
       /\ Squaring => adc'.square = new * new
  <2>1. CASE Accumulating /\ (changed \/ new # reading)
    <3>1. adc' = Seed(opened, new)
      BY <1>2, <2>1
    <3>2. /\ adc' \in Adc /\ KeepsRing(adc', opened) /\ KeepsConversions(adc', opened)
          /\ adc'.sum = opened.sum /\ adc'.open = opened.open /\ adc'.upto = opened.upto
          /\ adc'.anchored = TRUE
          /\ adc'.area = opened.area /\ adc'.duration = opened.duration
          /\ adc'.last = (IF Averaging THEN new ELSE opened.last)
          /\ adc'.square = (IF Squaring THEN new * new ELSE opened.square)
      BY <1>4, <1>12, <3>1, SeedIs
    <3> QED
      BY <1>12, <1>14, <2>1, <3>2 DEF KeepsRing, KeepsConversions, KeepsSquare, KeepsAnchor
  <2>2. CASE ~(Accumulating /\ (changed \/ new # reading))
    <3>1. adc' = opened
      BY <1>2, <2>2
    <3>2. (Averaging \/ Squaring) => ~changed /\ new = reading
      BY <1>13, <2>2
    <3>3. Averaging => adc.last = new
      BY <1>14, <3>2
    <3>4. Squaring => adc.square = new * new
      BY <1>14, <3>2
    <3> QED
      BY <1>12, <1>14, <3>1, <3>3, <3>4 DEF KeepsRing, KeepsConversions, KeepsSquare, KeepsAnchor
  <2> QED
    BY <2>1, <2>2
<1>16. Latest = time
  BY <1>1, <1>3 DEF TraceOK
<1>17. TimesOK'
  BY <1>1, <1>2, <1>3, <1>4, <1>6, <1>7, <1>8 DEF TimesOK
<1>18. TraceOK'
  BY <1>1, <1>3, <1>7 DEF TraceOK
<1>19. adc' \in Adc'
  BY <1>1, <1>15 DEF Adc, Rings
<1>20. MeanOK(adc)'
  <2>1. Readings' = Readings
    BY DEF Readings
  <2>2. CASE ~Averaging
    <3>1. adc.open /\ adc.sum = 0
      BY <1>3, <2>2 DEF MeanOK
    <3> QED
      BY <1>9, <1>11, <1>12, <1>15, <2>2, <3>1 DEF MeanOK
  <2>3. CASE Averaging
    <3>1. /\ adc.open => /\ WindowFrom <= time
                         /\ adc.sum = IntegralIn(trace, Readings, WindowFrom, time)
          /\ ~adc.open => /\ adc.sum = 0 /\ time <= WindowFrom
                          /\ design.kind = "clocked" => time < WindowFrom
      BY <1>1, <1>3, <1>16, <2>3 DEF MeanOK
    <3>2. adc'.last = reading'
      BY <1>2, <1>15, <2>3
    <3>3. CASE opens
      <4>1. adc'.sum = 0 /\ adc'.open /\ WindowFrom = time
        BY <1>11, <1>12, <1>15, <3>3
      <4>2. IntegralIn(trace, Readings, time, time) = 0
        BY <1>4, IntegralOfNothing
      <4>3. time <= time
        BY <1>4
      <4> QED
        BY <1>1, <1>7, <1>9, <1>16, <2>1, <2>3, <3>2, <4>1, <4>2, <4>3 DEF MeanOK
    <3>4. CASE ~opens
      <4>1. adc'.sum = adc.sum /\ adc'.open = adc.open
        BY <1>12, <1>15, <3>4
      <4>2. ~adc.open => time < WindowFrom
        <5>1. design.kind # "squares"
          BY <1>5, <2>3 DEF Averaging
        <5> QED
          BY <1>4, <1>5, <1>11, <3>1, <3>4, <5>1
      <4> QED
        BY <1>1, <1>7, <1>9, <1>16, <2>1, <2>3, <3>1, <3>2, <4>1, <4>2 DEF MeanOK
    <3> QED
      BY <3>3, <3>4
  <2> QED
    BY <2>2, <2>3
<1>21. AnchorOK(adc)'
  BY <1>3, <1>7, <1>9, <1>15 DEF AnchorOK
<1>22. SquareOK(adc)'
  <2>1. Squares' = Squares
    BY DEF Squares
  <2> QED
    BY <1>1, <1>2, <1>3, <1>7, <1>9, <1>15, <2>1 DEF SquareOK
<1>23. RingOK(adc)'
  BY <1>1, <1>3, <1>9, <1>15 DEF RingOK, RingIs, KeepsRing
<1>24. ConversionsOK(adc)'
  <2>1. NextConversion(adc)' = NextConversion(adc) /\ adc'.peeks = adc.peeks
        /\ adc'.taken = adc.taken /\ adc'.index = adc.index /\ adc'.held = adc.held
    BY <1>1, <1>9, <1>15 DEF NextConversion, KeepsConversions
  <2>2. \A n : Converted(n)' = Converted(n)
    BY <1>1, <1>9 DEF Converted
  <2>3. design.kind # "squares" => PositionOK(adc)'
    <3> SUFFICES ASSUME design.kind # "squares" PROVE PositionOK(adc)'
      OBVIOUS
    <3>1. PositionOK(adc)
      BY <1>3 DEF ConversionsOK
    <3> QED
      BY <1>1, <1>9, <2>1, <2>2, <3>1 DEF PositionOK
  <2> QED
    BY <1>1, <1>3, <1>9, <2>1, <2>3 DEF ConversionsOK
<1>25. PublishedOK'
  BY <1>1, <1>3 DEF PublishedOK, MeanIsOfWindow, SamplesAreComplete, JustSampled
<1> QED
  BY <1>17, <1>18, <1>19, <1>20, <1>21, <1>22, <1>23, <1>24, <1>25 DEF SamplerInv

----------------------------------------------------------------------------
(***************************************************************************)
(* A run continues.                                                        *)
(***************************************************************************)
\* The conversions of a start are conversions.
LEMMA EarlierAreConversions ==
    ASSUME design \in Designs, NEW last \in Int, NEW t \in Int, NEW value \in Int
    PROVE  Earlier(last, t, value) \in Peeks
<1> DEFINE E == [t : Int, value : Int]
           sampling == design.sampling
           i == IndexAfter(sampling, last)
           s == sampling.period
           cnt == (t - last) \div s
<1>1. /\ sampling \in Clock /\ s \in Nat /\ s >= 1
      /\ i \in Int /\ IndexAtOrAfter(sampling, t) \in Int
  BY DesignFacts, IndexAfterSpec, IndexAtOrAfterSpec
<1>2. ASSUME NEW m \in Int, NEW T, \A n \in 1 .. m : T[n] \in Int
      PROVE  [n \in 1 .. m |-> [t |-> T[n], value |-> value]] \in Peeks
  <2> DEFINE f == [n \in 1 .. m |-> [t |-> T[n], value |-> value]]
  <2>1. CASE m >= 0
    <3>1. m \in Nat /\ f \in [1 .. m -> E]
      BY <1>2, <2>1
    <3> HIDE DEF f, E
    <3>2. f \in Seq(E)
      BY <3>1
    <3> QED
      BY <3>2 DEF Peeks, f, E
  <2>2. CASE m < 0
    <3>1. 1 .. m = {} /\ 1 .. 0 = {}
      BY <2>2
    <3>2. f \in [1 .. 0 -> E]
      BY <3>1
    <3> HIDE DEF f, E
    <3>3. f \in Seq(E)
      BY <3>2
    <3> QED
      BY <3>3 DEF Peeks, f, E
  <2> QED
    BY <2>1, <2>2
<1>3. CASE Independent
  <2> DEFINE m == IndexAtOrAfter(sampling, t) - i
             T(n) == ClockAt(sampling, i + n - 1)
  <2>1. m \in Int /\ \A n \in 1 .. m : T(n) \in Int
    <3>1. m \in Int
      BY <1>1
    <3> SUFFICES ASSUME NEW n \in 1 .. m PROVE T(n) \in Int
      BY <3>1
    <3>2. i + n - 1 \in Int
      BY <1>1, <3>1
    <3> QED
      BY <1>1, <3>2, ClockStep
  <2>2. Earlier(last, t, value) = [n \in 1 .. m |-> [t |-> T(n), value |-> value]]
    BY <1>3 DEF Earlier
  <2> HIDE DEF m, T
  <2>3. [n \in 1 .. m |-> [t |-> T(n), value |-> value]] \in Peeks
    <3> DEFINE U == [n \in 1 .. m |-> T(n)]
    <3>1. \A n \in 1 .. m : U[n] \in Int /\ U[n] = T(n)
      BY <2>1
    <3> HIDE DEF U
    <3>2. [n \in 1 .. m |-> [t |-> U[n], value |-> value]] \in Peeks
      BY <1>2, <2>1, <3>1
    <3>3. [n \in 1 .. m |-> [t |-> T(n), value |-> value]]
             = [n \in 1 .. m |-> [t |-> U[n], value |-> value]]
      BY <3>1
    <3> QED
      BY <3>2, <3>3
  <2> QED
    BY <2>2, <2>3
<1>4. CASE ~Independent
  <2> DEFINE T(n) == last + n * s
  <2>1. cnt \in Int /\ \A n \in 1 .. cnt : T(n) \in Int
    <3>1. cnt \in Int
      <4> DEFINE x == t - last
      <4>1. x \in Int
        OBVIOUS
      <4> HIDE DEF x, s
      <4>2. x \div s \in Int
        BY <1>1, <4>1
      <4> QED
        BY <4>2 DEF x
    <3> HIDE DEF cnt, s
    <3> QED
      BY <1>1, <3>1
  <2>2. Earlier(last, t, value) = [n \in 1 .. cnt |-> [t |-> T(n), value |-> value]]
    BY <1>4 DEF Earlier
  <2> HIDE DEF cnt, T
  <2>3. [n \in 1 .. cnt |-> [t |-> T(n), value |-> value]] \in Peeks
    <3> DEFINE U == [n \in 1 .. cnt |-> T(n)]
    <3>1. \A n \in 1 .. cnt : U[n] \in Int /\ U[n] = T(n)
      BY <2>1
    <3> HIDE DEF U
    <3>2. [n \in 1 .. cnt |-> [t |-> U[n], value |-> value]] \in Peeks
      BY <1>2, <2>1, <3>1
    <3>3. [n \in 1 .. cnt |-> [t |-> T(n), value |-> value]]
             = [n \in 1 .. cnt |-> [t |-> U[n], value |-> value]]
      BY <3>1
    <3> QED
      BY <3>2, <3>3
  <2> QED
    BY <2>2, <2>3
<1> QED
  BY <1>3, <1>4

\* The number of whole periods p in a time.
LEMMA WholePeriods ==
    ASSUME NEW x \in Int, NEW p \in Nat, p >= 1
    PROVE  /\ x \div p \in Int /\ p * (x \div p) <= x /\ x < p * (x \div p) + p
           /\ \A n \in Int : n * p <= x /\ x < n * p + p => x \div p = n
           /\ x >= 0 => x \div p >= 0
<1> DEFINE quo == x \div p
<1>1. quo \in Int /\ p * quo <= x /\ x < p * quo + p
  <2> DEFINE m == x % p
             y == p * quo
  <2>1. quo \in Int /\ m \in 0 .. p - 1 /\ x = y + m
    OBVIOUS
  <2>2. y \in Int
    <3>1. quo \in Int
      BY <2>1
    <3> HIDE DEF quo
    <3> QED
      BY <3>1
  <2> HIDE DEF m, y
  <2>3. y <= x /\ x < y + p
    BY <2>1, <2>2
  <2> QED
    BY <2>1, <2>3 DEF y
<1> HIDE DEF quo
<1>2. \A n \in Int : p * n \in Int /\ p * (n + 1) = p * n + p
  OBVIOUS
<1>3. \A m, n \in Int : m < n => p * m + p <= p * n
  <2> SUFFICES ASSUME NEW m \in Int, NEW n \in Int, m < n PROVE p * m + p <= p * n
    OBVIOUS
  <2> DEFINE d == (n - m) - 1
  <2>1. d \in Nat /\ n = (m + 1) + d
    OBVIOUS
  <2> HIDE DEF d
  <2>2. p * ((m + 1) + d) = (p * m + p) + p * d
    BY <2>1
  <2>3. p * d >= 0 /\ p * d \in Int /\ p * m \in Int
    BY <2>1
  <2> QED
    BY <2>1, <2>2, <2>3
<1>4. ASSUME NEW n \in Int, n * p <= x, x < n * p + p PROVE quo = n
  <2> DEFINE a == p * n
             b == p * quo
  <2>1. a \in Int /\ b \in Int /\ n * p = a
    BY <1>1
  <2>2. b <= x /\ x < b + p /\ a <= x /\ x < a + p
    BY <1>1, <1>4, <2>1
  <2>3. (quo < n => b + p <= a) /\ (n < quo => a + p <= b)
    BY <1>1, <1>3
  <2> HIDE DEF a, b
  <2>4. ~(quo < n) /\ ~(n < quo)
    BY <2>1, <2>2, <2>3
  <2> QED
    BY <1>1, <2>4
<1>5. x >= 0 => quo >= 0
  <2> SUFFICES ASSUME x >= 0, ~(quo >= 0) PROVE FALSE
    OBVIOUS
  <2>1. p * quo + p <= p * 0
    BY <1>1, <1>3
  <2>2. p * quo \in Int /\ p * 0 = 0
    BY <1>1
  <2> DEFINE b == p * quo
  <2>3. b \in Int /\ b + p <= 0 /\ x < b + p
    BY <1>1, <2>1, <2>2
  <2> HIDE DEF b
  <2> QED
    BY <2>3
<1> QED
  BY <1>1, <1>4, <1>5 DEF quo

\* Where one conversion lies between two interrupts off the grid of the
\* interrupts, a row between the two loses it (assembly/validate.py does not
\* reject that row).  The designs are of another kind.
ConversionsKeep ==
    \A d \in Designs :
        d.kind = "sampled"
          /\ (d.control.offset - d.sampling.offset) % d.sampling.period # 0
        => d.sampling.period < d.control.period

\* Where a run may continue, the open period has no conversions yet.
LEMMA NoConversionsYet ==
    ASSUME ConversionsKeep, SamplerInv, pc = "idle", MayContinue, design.kind # "squares"
    PROVE  /\ interrupt = IndexAfter(design.control, time)
           /\ NextConversion(adc) = FirstConversion
           /\ Independent => IndexAfter(design.sampling, time) = NextConversion(adc)
           /\ ~Independent => (time - LastControl) \div design.sampling.period = 0
<1> DEFINE c == NextConversion(adc)
           F == FirstConversion
           sampling == design.sampling
           s == sampling.period
<1>1. /\ TimesOK /\ adc \in Adc /\ PositionOK(adc) /\ design \in Designs /\ time \in Int
      /\ interrupt \in Int /\ LastControl <= time /\ time < LastControl + ControlPeriod
  BY DEF SamplerInv, TimesOK, ConversionsOK
<1>2. /\ LastIndex \in Int /\ LastIndex = interrupt - 1 /\ LastControl \in Int
      /\ ControlPeriod \in Nat /\ ControlPeriod >= 1 /\ F \in Int
  BY <1>1, TimeFacts
<1>3. /\ sampling \in Clock /\ design.control \in Clock /\ s \in Nat /\ s >= 1
      /\ Samples \in Nat /\ Samples >= 1 /\ ControlPeriod = Samples * s
      /\ design.kind \in {"sampled", "clocked", "squares"}
      /\ design.kind = "clocked" => design.sampling = design.control
      /\ design.control.offset \in Nat
  BY <1>1, DesignFacts
<1>4. /\ c \in Int /\ ClockAt(sampling, c) \in Int /\ ClockAt(sampling, c - 1) \in Int
      /\ ClockAt(sampling, c - 1) <= time /\ time < ClockAt(sampling, c) /\ c >= F
  BY <1>1, ConversionFacts DEF PositionOK
<1>5. IndexAfter(sampling, time) = c
  <2> HIDE DEF c, sampling
  <2> QED
    BY <1>1, <1>3, <1>4, IndexAfterUnique
<1>6. interrupt = IndexAfter(design.control, time)
  <2>1. ClockAt(design.control, interrupt) = LastControl + ControlPeriod
    BY <1>1, TimeFacts DEF ControlTime
  <2>2. ClockAt(design.control, interrupt - 1) <= time /\ time < ClockAt(design.control, interrupt)
    BY <1>1, <1>2, <2>1 DEF LastControl
  <2> QED
    BY <1>1, <1>3, <2>2, IndexAfterUnique
<1>7. ASSUME (time - design.control.offset) % ControlPeriod = 0 PROVE time = LastControl
  <2> DEFINE x == time - design.control.offset
             n == x \div ControlPeriod
  <2>1. x \in Int /\ x % ControlPeriod = 0
    BY <1>1, <1>3, <1>7
  <2>2. n \in Int /\ x = ControlPeriod * n
    <3> HIDE DEF x
    <3>1. n \in Int /\ x = ControlPeriod * n + (x % ControlPeriod)
      BY <1>2, <2>1
    <3> DEFINE y == ControlPeriod * n
    <3>2. y \in Int
      <4>1. n \in Int
        BY <3>1
      <4> HIDE DEF n
      <4> QED
        BY <1>2, <4>1
    <3>3. x = y + 0
      BY <2>1, <3>1
    <3> HIDE DEF y
    <3>4. x = y
      BY <2>1, <3>2, <3>3
    <3> QED
      BY <3>1, <3>4 DEF y
  <2>3. time = ClockAt(design.control, n)
    <3>1. time = design.control.offset + x
      BY <1>1, <1>3
    <3>2. ControlPeriod * n = n * design.control.period
      <4> HIDE DEF n
      <4> QED
        BY <1>2, <2>2 DEF ControlPeriod
    <3> HIDE DEF x, n
    <3> QED
      BY <2>2, <3>1, <3>2 DEF ClockAt
  <2> HIDE DEF x, n
  <2>4. ClockAt(design.control, n) < ClockAt(design.control, interrupt)
        /\ ClockAt(design.control, interrupt - 1) <= ClockAt(design.control, n)
    <3>1. ClockAt(design.control, interrupt) = LastControl + ControlPeriod
      BY <1>1, TimeFacts DEF ControlTime
    <3> QED
      BY <1>1, <1>2, <2>3, <3>1 DEF LastControl
  <2>5. n < interrupt /\ interrupt - 1 <= n
    <3>1. interrupt - 1 \in Int
      BY <1>1
    <3> QED
      BY <1>1, <1>3, <2>2, <2>4, <3>1, ClockOrder
  <2>6. n = interrupt - 1
    BY <1>1, <2>2, <2>5
  <2> QED
    BY <1>2, <2>3, <2>6 DEF LastControl
<1>8. ASSUME time = LastControl PROVE c = F /\ (time - LastControl) \div s = 0
  <2>1. c = F
    BY <1>5, <1>8 DEF FirstConversion
  <2>2. time - LastControl = 0 /\ 0 \in Int /\ 0 * s <= 0 /\ 0 < 0 * s + s
    <3> HIDE DEF s
    <3> QED
      BY <1>2, <1>3, <1>8
  <2>3. 0 \div s = 0
    <3> HIDE DEF s
    <3> QED
      BY <1>3, <2>2, WholePeriods
  <2> QED
    BY <2>1, <2>2, <2>3
<1>9. CASE design.kind = "clocked"
  <2>1. Independent /\ sampling = design.control
    BY <1>3, <1>9 DEF Independent
  <2>2. c = interrupt
    BY <1>5, <1>6, <2>1
  <2>3. F = interrupt
    <3>1. ClockAt(design.control, interrupt - 1) <= LastControl
      BY <1>2 DEF LastControl
    <3>2. LastControl < ClockAt(design.control, interrupt)
      <4>1. ClockAt(design.control, interrupt) = LastControl + ControlPeriod
        BY <1>1, TimeFacts DEF ControlTime
      <4> QED
        BY <1>2, <4>1
    <3> QED
      BY <1>1, <1>2, <1>3, <2>1, <3>1, <3>2, IndexAfterUnique DEF FirstConversion
  <2> QED
    BY <1>5, <1>6, <2>1, <2>2, <2>3
<1>10. CASE design.kind = "sampled" /\ (time - design.control.offset) % ControlPeriod = 0
  BY <1>5, <1>6, <1>7, <1>8, <1>10
<1>11. CASE /\ design.kind = "sampled" /\ (time - design.control.offset) % ControlPeriod # 0
            /\ s >= ControlPeriod
  <2>1. ~Independent
    <3>1. ~(s < design.control.period)
      BY <1>2, <1>3, <1>11 DEF ControlPeriod
    <3> QED
      BY <1>1, <1>11, <3>1 DEF Independent, ConversionsKeep
  <2>2. /\ time - LastControl \in Int /\ 0 * s <= time - LastControl
        /\ time - LastControl < 0 * s + s
    <3> HIDE DEF s
    <3>1. 0 * s = 0
      BY <1>3
    <3> QED
      BY <1>1, <1>2, <1>3, <1>11, <3>1
  <2>3. (time - LastControl) \div s = 0
    <3> HIDE DEF s
    <3> QED
      BY <1>3, <2>2, WholePeriods
  <2>4. c = F
    <3>1. Samples = 1
      <4> HIDE DEF s
      <4> SUFFICES ASSUME Samples # 1 PROVE FALSE
        OBVIOUS
      <4> DEFINE d == Samples - 2
      <4>1. d \in Nat /\ Samples = 2 + d
        BY <1>3
      <4> HIDE DEF d
      <4>2. (2 + d) * s = (s + s) + d * s /\ d * s >= 0 /\ d * s \in Int
        BY <1>3, <4>1
      <4> QED
        BY <1>2, <1>3, <1>11, <4>1, <4>2
    <3>2. LastControl + ControlPeriod = ClockAt(sampling, F)
      <4>1. ClockAt(sampling, F - 1 + Samples) = LastControl + ControlPeriod
        BY <1>1, <1>2, <2>1, AlignedConversions DEF LastControl, FirstConversion
      <4>2. F - 1 + 1 = F
        <5> HIDE DEF F
        <5> QED
          BY <1>2
      <4> QED
        BY <3>1, <4>1, <4>2
    <3> HIDE DEF c, F, sampling, s
    <3>3. ClockAt(sampling, c - 1) < ClockAt(sampling, F)
      BY <1>1, <1>2, <1>4, <3>2
    <3>4. c - 1 < F
      <4>1. c - 1 \in Int
        BY <1>4
      <4> QED
        BY <1>2, <1>3, <3>3, <4>1, ClockOrder
    <3> QED
      BY <1>2, <1>4, <3>4
  <2> QED
    BY <1>6, <2>1, <2>3, <2>4
<1> QED
  BY <1>3, <1>9, <1>10, <1>11 DEF MayContinue

\* A run that continues has the ADC and the interrupt of the run before.
LEMMA ContinueKeeps ==
    ASSUME ConversionsKeep, SamplerInv, ContinueRun
    PROVE  adc' = adc /\ interrupt' = interrupt
<1> DEFINE R == Restored(adc)
           held == ~(Accumulating \/ Independent)
<1>1. /\ TimesOK /\ TraceOK /\ adc \in Adc /\ MeanOK(adc) /\ AnchorOK(adc) /\ ConversionsOK(adc)
      /\ design \in Designs /\ time \in Nat /\ interrupt \in Int /\ pc = "idle" /\ MayContinue
      /\ LastControl <= time /\ time < LastControl + ControlPeriod /\ reading \in Int
  BY TimeFacts DEF SamplerInv, TimesOK, ContinueRun
<1>2. /\ LastControl \in Int /\ ControlPeriod \in Nat /\ ControlPeriod >= 1
      /\ WindowFrom \in Int /\ WindowFrom = LastControl + ControlPeriod - design.window
      /\ ControlTime = LastControl + ControlPeriod /\ ControlTime \in Int
      /\ design.window \in Nat /\ LastIndex = interrupt - 1
      /\ design.control \in Clock /\ FirstConversion \in Int
      /\ design.kind \in {"sampled", "clocked", "squares"}
      /\ design.kind # "sampled" => design.sampling = design.control
      /\ design.kind = "squares" => design.window = 0 /\ design.rms > 0
  BY <1>1, TimeFacts, DesignFacts
<1>3. interrupt' = interrupt
  <2>1. ClockAt(design.control, interrupt - 1) <= time /\ time < ClockAt(design.control, interrupt)
    BY <1>1, <1>2 DEF LastControl, ControlTime
  <2>2. IndexAfter(design.control, time) = interrupt
    BY <1>1, <1>2, <2>1, IndexAfterUnique
  <2> QED
    BY <2>2 DEF ContinueRun, StartIndex
<1>4. adc' = BeginTiming(R, time, ControlTime, reading, held)
  BY <1>3 DEF ContinueRun, ControlTime
<1>5. /\ R \in Adc /\ KeepsSquare(R, adc) /\ KeepsRing(R, adc)
      /\ R.sum = (IF Accumulating THEN adc.sum ELSE 0)
      /\ R.last = (IF Accumulating THEN adc.last ELSE 0)
      /\ R.upto = (IF Accumulating THEN adc.upto ELSE 0)
      /\ R.anchored = Accumulating
      /\ R.open = (~Averaging \/ Full) /\ R.peeks = <<>> /\ R.taken = 1 /\ R.index = 0
      /\ R.held = (IF Independent THEN adc.held ELSE 0)
  BY <1>1, RestoredIs
<1> HIDE DEF R
<1>6. (IF Accumulating /\ ~R.anchored THEN [Seed(R, reading) EXCEPT !.upto = time] ELSE R) = R
  BY <1>5
<1>7. /\ ~Accumulating => ~Averaging
      /\ ~Averaging => adc.open /\ adc.sum = 0 /\ adc.last = 0
      /\ (adc.anchored <=> Accumulating) /\ adc.anchored \in BOOLEAN /\ adc.open \in BOOLEAN
      /\ ~Accumulating => adc.upto = 0
  BY <1>1 DEF MeanOK, AnchorOK, Accumulating, Adc
<1>8. R.sum = adc.sum /\ R.last = adc.last /\ R.upto = adc.upto /\ R.anchored = adc.anchored
  <2>1. R.anchored = adc.anchored
    <3>1. R.anchored \in BOOLEAN /\ (R.anchored <=> Accumulating)
      BY <1>5 DEF Adc
    <3> QED
      BY <1>7, <3>1
  <2> QED
    BY <1>5, <1>7, <2>1
<1>9. CASE design.kind = "squares"
  <2>1. adc' = R
    BY <1>4, <1>6, <1>9 DEF BeginTiming
  <2>2. ~Averaging
    BY <1>2, <1>9 DEF Averaging
  <2>3. R.open = adc.open
    BY <1>5, <1>7, <2>2
  <2>4. ~Independent
    <3>1. design.sampling = design.control /\ design.control.period \in Nat
          /\ design.control.period >= 1 /\ design.control.offset \in Nat
      BY <1>1, <1>2, <1>9, DesignFacts
    <3>2. design.control.offset - design.sampling.offset = 0
      BY <3>1
    <3>3. \A p \in Nat : p >= 1 => 0 % p = 0
      OBVIOUS
    <3> QED
      BY <1>9, <3>1, <3>2, <3>3 DEF Independent
  <2>5. KeepsConversions(R, adc)
    BY <1>1, <1>5, <1>9, <2>4 DEF ConversionsOK, KeepsConversions
  <2>6. KeepsMean(R, adc) /\ KeepsAnchor(R, adc)
    BY <1>8, <2>3 DEF KeepsMean, KeepsAnchor
  <2> QED
    BY <1>1, <1>3, <1>5, <2>1, <2>5, <2>6, SameAdc
<1>10. CASE design.kind # "squares"
  <2> DEFINE r == Start(R, time, ControlTime, reading, held)
  <2>1. adc' = r
    BY <1>4, <1>6, <1>10 DEF BeginTiming
  <2>2. ControlTime - ControlPeriod = LastControl
    BY <1>2
  <2>3. Earlier(ControlTime - ControlPeriod, time, reading) \in Peeks
    BY <1>1, <1>2, <2>2, EarlierAreConversions
  <2>4. held \in BOOLEAN
    BY DEF Accumulating, Averaging, Squaring, Independent
  <2>5. held => ~Accumulating /\ ~Independent /\ ~Averaging
    BY <1>7
  <2> HIDE DEF held
  <2>6. /\ r \in Adc /\ KeepsAnchor(r, R) /\ KeepsSquare(r, R) /\ KeepsRing(r, R)
        /\ r.last = R.last
        /\ r.sum = R.sum + 2 * R.last * HeldBefore(R, time, ControlTime, held)
        /\ r.open = (~Averaging \/ Full \/ time >= ControlTime - design.window)
        /\ r.peeks = (IF Independent /\ ~held THEN <<>>
                      ELSE Earlier(ControlTime - ControlPeriod, time, reading))
        /\ r.taken = (IF Independent THEN 1
                      ELSE (time - (ControlTime - ControlPeriod)) \div design.sampling.period + 1)
        /\ r.index = (IF Independent THEN StartIndex(design.sampling, time, ~held) ELSE 0)
        /\ r.held = (IF Independent /\ held THEN reading ELSE R.held)
    BY <1>1, <1>2, <1>5, <2>3, <2>4, StartIs
  <2> HIDE DEF r
  <2>7. r.sum = adc.sum
    <3>1. HeldBefore(R, time, ControlTime, held) = 0
      BY <2>5 DEF HeldBefore
    <3>2. R.last \in Int /\ R.sum \in Int
      BY <1>5 DEF Adc
    <3>3. 2 * R.last * 0 = 0
      BY <3>2
    <3> QED
      BY <1>8, <2>6, <3>1, <3>2, <3>3
  <2>8. r.open = adc.open
    <3>1. CASE ~Averaging
      BY <1>7, <2>6, <3>1
    <3>2. CASE Averaging /\ adc.open
      <4>1. WindowFrom <= Latest /\ Latest <= time /\ Latest \in Int
        BY <1>1, <3>2 DEF MeanOK, TraceOK, Instants
      <4>2. time >= ControlTime - design.window
        BY <1>1, <1>2, <4>1
      <4> QED
        BY <1>7, <2>6, <3>2, <4>2
    <3>3. CASE Averaging /\ ~adc.open
      <4>1. time < WindowFrom
        BY <1>1, <3>3 DEF MeanOK
      <4>2. ~(time >= ControlTime - design.window) /\ ~Full
        BY <1>1, <1>2, <4>1 DEF Full
      <4> QED
        BY <1>7, <2>6, <3>3, <4>2
    <3> QED
      BY <3>1, <3>2, <3>3
  <2>9. /\ NextConversion(adc) = FirstConversion
        /\ Independent => IndexAfter(design.sampling, time) = NextConversion(adc)
        /\ ~Independent => (time - LastControl) \div design.sampling.period = 0
    BY <1>1, <1>10, NoConversionsYet
  <2>10. adc.peeks = <<>>
    <3>1. adc.peeks = Converted(FirstConversion - FirstConversion)
      BY <1>1, <1>10, <2>9 DEF ConversionsOK, PositionOK
    <3>2. FirstConversion - FirstConversion = 0
      BY <1>2
    <3>3. Converted(0) = <<>>
      BY DEF Converted
    <3> QED
      BY <3>1, <3>2, <3>3
  <2>11. CASE Independent
    <3>1. adc.taken = 1 /\ adc.index = NextConversion(adc)
      BY <1>1, <2>11 DEF ConversionsOK, NextConversion
    <3>2. ~held
      BY <2>5, <2>11
    <3>3. r.index = adc.index
      BY <2>6, <2>9, <2>11, <3>1, <3>2 DEF StartIndex
    <3>4. KeepsConversions(r, adc)
      BY <1>5, <2>6, <2>10, <2>11, <3>1, <3>2, <3>3 DEF KeepsConversions
    <3> QED
      BY <1>1, <1>3, <1>5, <1>8, <2>1, <2>6, <2>7, <2>8, <3>4, SameAdc
      DEF KeepsMean, KeepsAnchor, KeepsSquare, KeepsRing
  <2>12. CASE ~Independent
    <3>1. adc.index = 0 /\ adc.held = 0 /\ NextConversion(adc) = FirstConversion + adc.taken - 1
      BY <1>1, <2>12 DEF ConversionsOK, NextConversion
    <3>2. adc.taken = 1
      <4>1. adc.taken \in Int
        BY <1>1 DEF Adc
      <4> QED
        BY <1>2, <2>9, <3>1, <4>1
    <3>3. r.taken = 1
      BY <2>2, <2>6, <2>9, <2>12
    <3>4. r.peeks = <<>>
      <4>1. r.peeks = Earlier(LastControl, time, reading)
        BY <2>2, <2>6, <2>12
      <4>2. Earlier(LastControl, time, reading)
              = [n \in 1 .. 0 |-> [t |-> LastControl + n * design.sampling.period, value |-> reading]]
        BY <2>9, <2>12 DEF Earlier
      <4>3. [n \in 1 .. 0 |-> [t |-> LastControl + n * design.sampling.period, value |-> reading]] = <<>>
        OBVIOUS
      <4> QED
        BY <4>1, <4>2, <4>3
    <3>5. KeepsConversions(r, adc)
      BY <1>5, <2>6, <2>10, <2>12, <3>1, <3>2, <3>3, <3>4 DEF KeepsConversions
    <3> QED
      BY <1>1, <1>3, <1>5, <1>8, <2>1, <2>6, <2>7, <2>8, <3>5, SameAdc
      DEF KeepsMean, KeepsAnchor, KeepsSquare, KeepsRing
  <2> QED
    BY <2>11, <2>12
<1> QED
  BY <1>9, <1>10

----------------------------------------------------------------------------
(***************************************************************************)
(* A fresh run starts.                                                     *)
(***************************************************************************)
\* The first instant, and the times of the first period.
LEMMA FirstTimes ==
    ASSUME SamplerInit
    PROVE  /\ TimesOK /\ TraceOK /\ Latest = time /\ time = began
           /\ LastControl < time /\ time <= LastControl + ControlPeriod
           /\ pc = "idle" => time < LastControl + ControlPeriod
           /\ LastIndex = interrupt - 1 /\ LastControl \in Int
           /\ ControlTime = LastControl + ControlPeriod /\ ControlTime \in Int
           /\ DOMAIN trace = time - ControlPeriod .. time
           /\ \A u \in DOMAIN trace : /\ trace[u].since = u - 1 /\ trace[u].first = reading
                                      /\ trace[u].last = reading /\ trace[u].seen = reading
<1>1. /\ design \in Designs /\ time \in Nat /\ began = time /\ reading \in Values
      /\ interrupt = IndexAtOrAfter(design.control, time)
      /\ pc = (IF Due(time) THEN "sense" ELSE "idle") /\ changed = FALSE
      /\ trace = [t \in time - ControlPeriod .. time |->
                     [since |-> t - 1, first |-> reading, last |-> reading, seen |-> reading]]
  BY DesignAssumption DEF SamplerInit, StartIndex
<1>2. /\ design.control \in Clock /\ ControlPeriod \in Nat /\ ControlPeriod >= 1
  BY <1>1, DesignFacts
<1>3. /\ interrupt \in Int /\ ClockAt(design.control, interrupt - 1) < time
      /\ time <= ClockAt(design.control, interrupt)
  BY <1>1, <1>2, IndexAtOrAfterSpec
<1>4. LastIndex = interrupt - 1
  BY <1>1 DEF LastIndex
<1>5. /\ LastControl = ClockAt(design.control, interrupt - 1) /\ LastControl \in Int
      /\ ControlTime = LastControl + ControlPeriod /\ ControlTime \in Int
  <2>1. LastControl = ClockAt(design.control, interrupt - 1)
    BY <1>4 DEF LastControl
  <2>2. ClockAt(design.control, interrupt) \in Int
        /\ LastControl = ClockAt(design.control, interrupt) - design.control.period
    BY <1>2, <1>3, <2>1, ClockStep
  <2> QED
    BY <1>2, <2>1, <2>2 DEF ControlTime, ControlPeriod
<1>6. pc = "idle" => time < LastControl + ControlPeriod
  <2>1. pc = "idle" => time # ControlTime
    BY <1>1 DEF Due
  <2>2. time <= ControlTime
    BY <1>3 DEF ControlTime
  <2> QED
    BY <1>1, <1>5, <2>1, <2>2
<1>7. LastControl < time /\ time <= LastControl + ControlPeriod
  BY <1>3, <1>5 DEF ControlTime
<1>8. /\ DOMAIN trace = time - ControlPeriod .. time
      /\ \A u \in DOMAIN trace : /\ trace[u].since = u - 1 /\ trace[u].first = reading
                                 /\ trace[u].last = reading /\ trace[u].seen = reading
  BY <1>1
<1>9. /\ Instants(trace) /\ time \in DOMAIN trace /\ \A u \in DOMAIN trace : u <= time
      /\ DOMAIN trace \subseteq Int
  BY <1>1, <1>2, <1>8 DEF Instants
<1>10. Latest = time
  BY <1>9, LatestIs DEF Latest
<1>11. TraceOK
  BY <1>1, <1>8, <1>9, <1>10 DEF TraceOK
<1>12. TimesOK
  <2>1. pc = "sense" \/ pc = "idle"
    BY <1>1
  <2>2. /\ design \in Designs /\ time \in Nat /\ began \in Nat /\ began <= time
        /\ reading \in Values /\ interrupt \in Int
    BY <1>1, <1>3
  <2>20. changed \in BOOLEAN /\ ~changed
    <3>1. changed = FALSE
      BY <1>1
    <3> QED
      BY <3>1, Zenon
  <2>3. pc \in {"idle", "sense", "actuate"} /\ pc # "actuate"
    BY <2>1
  <2>4. IF pc = "sense"
        THEN LastControl < time /\ time <= LastControl + ControlPeriod
        ELSE LastControl <= time /\ time < LastControl + ControlPeriod
    BY <1>2, <1>5, <1>6, <1>7, <2>1, <2>2
  <2> QED
    BY <2>2, <2>20, <2>3, <2>4 DEF TimesOK
<1> QED
  BY <1>1, <1>4, <1>5, <1>6, <1>7, <1>8, <1>10, <1>11, <1>12

\* The ADC that starts: its readings are seeded, its rings are empty.
LEMMA FirstAdc ==
    ASSUME SamplerInit
    PROVE  /\ adc \in Adc /\ adc.last = (IF Averaging THEN reading ELSE 0)
           /\ Squaring => adc.square = reading * reading
           /\ adc.area = 0 /\ adc.duration = 0 /\ adc.place = 0 /\ adc.count = 0 /\ adc.total = 0
           /\ (adc.anchored <=> Accumulating) /\ adc.upto = (IF Accumulating THEN time ELSE 0)
           /\ Averaging => (adc.open <=> time >= WindowFrom)
           /\ Averaging => adc.sum = (IF time > WindowFrom THEN 2 * reading * (time - WindowFrom) ELSE 0)
           /\ ~Averaging => adc.open /\ adc.sum = 0
           /\ design.kind = "squares" => adc.peeks = <<>> /\ adc.taken = 1
           /\ ~Independent => adc.index = 0 /\ adc.held = 0
           /\ Independent => adc.taken = 1
           /\ design.kind # "squares" =>
                 /\ adc.peeks = Earlier(LastControl, time, reading)
                 /\ Independent => adc.index = IndexAtOrAfter(design.sampling, time)
                 /\ ~Independent => adc.taken = (time - LastControl) \div design.sampling.period + 1
<1> DEFINE s0 == Seed(Blank, reading)
           a == IF Accumulating THEN [s0 EXCEPT !.upto = time] ELSE Blank
<1>1. /\ TimesOK /\ design \in Designs /\ time \in Int /\ reading \in Int
      /\ LastControl \in Int /\ ControlTime = LastControl + ControlPeriod /\ ControlTime \in Int
      /\ LastControl < time
  BY FirstTimes, TimeFacts DEF TimesOK
<1>2. /\ ControlPeriod \in Nat /\ design.window \in Nat /\ design.window <= ControlPeriod
      /\ WindowFrom \in Int /\ WindowFrom = LastControl + ControlPeriod - design.window
      /\ design.kind = "squares" => design.window = 0
      /\ ControlTime - ControlPeriod = LastControl
      /\ WindowFrom = ControlTime - design.window
  BY <1>1, TimeFacts, DesignFacts
<1>3. /\ Blank \in Adc /\ Blank.sum = 0 /\ Blank.last = 0 /\ Blank.upto = 0
      /\ Blank.anchored = FALSE /\ Blank.open = (~Averaging \/ Full)
      /\ Blank.peeks = <<>> /\ Blank.taken = 1 /\ Blank.index = 0 /\ Blank.held = 0
      /\ Blank.square = 0 /\ Blank.area = 0 /\ Blank.duration = 0
      /\ Blank.place = 0 /\ Blank.count = 0 /\ Blank.total = 0
  BY BlankIs
<1>4. (Averaging => Accumulating) /\ (Squaring => Accumulating)
  BY DEF Accumulating
<1>5. /\ a \in Adc /\ a.sum = 0 /\ a.last = (IF Averaging THEN reading ELSE 0)
      /\ a.upto = (IF Accumulating THEN time ELSE 0) /\ (a.anchored <=> Accumulating)
      /\ a.open = (~Averaging \/ Full)
      /\ a.peeks = <<>> /\ a.taken = 1 /\ a.index = 0 /\ a.held = 0
      /\ Squaring => a.square = reading * reading
      /\ a.area = 0 /\ a.duration = 0 /\ a.place = 0 /\ a.count = 0 /\ a.total = 0
  <2>1. CASE Accumulating
    <3>1. a = [s0 EXCEPT !.upto = time]
      BY <2>1
    <3>0. Blank \in Adc /\ reading \in Int
      BY <1>1, <1>3
    <3>2. /\ s0 \in Adc /\ KeepsRing(s0, Blank) /\ KeepsConversions(s0, Blank)
          /\ s0.sum = Blank.sum /\ s0.open = Blank.open /\ s0.anchored = TRUE
          /\ s0.area = Blank.area /\ s0.duration = Blank.duration
          /\ s0.last = (IF Averaging THEN reading ELSE Blank.last)
          /\ s0.square = (IF Squaring THEN reading * reading ELSE Blank.square)
      BY <3>0, SeedIs
    <3> HIDE DEF a, s0
    <3>3. a \in Adc
      BY <1>1, <3>1, <3>2 DEF Adc
    <3>4. /\ KeepsRing(a, s0) /\ KeepsConversions(a, s0) /\ KeepsMean(a, s0) /\ KeepsSquare(a, s0)
          /\ a.anchored = s0.anchored /\ a.upto = time
      BY <3>1, <3>2 DEF Adc, KeepsRing, KeepsConversions, KeepsMean, KeepsSquare
    <3> QED
      BY <1>3, <2>1, <3>2, <3>3, <3>4 DEF KeepsRing, KeepsConversions, KeepsMean, KeepsSquare
  <2>2. CASE ~Accumulating
    <3>1. a = Blank
      BY <2>2
    <3> HIDE DEF a
    <3> QED
      BY <1>3, <1>4, <2>2, <3>1
  <2> QED
    BY <2>1, <2>2
<1>6. adc = IF design.kind = "squares" THEN a ELSE Start(a, time, ControlTime, reading, TRUE)
  <2>1. a = IF Accumulating /\ ~Blank.anchored THEN [Seed(Blank, reading) EXCEPT !.upto = time] ELSE Blank
    BY <1>3
  <2>2. adc = BeginTiming(Blank, time, ControlTime, reading, TRUE)
    BY DEF SamplerInit
  <2> HIDE DEF a
  <2> QED
    BY <2>1, <2>2, Zenon DEF BeginTiming
<1> HIDE DEF a
<1>7. CASE design.kind = "squares"
  <2>1. adc = a /\ ~Averaging
    BY <1>2, <1>6, <1>7 DEF Averaging
  <2> QED
    BY <1>5, <1>7, <2>1
<1>8. CASE design.kind # "squares"
  <2> DEFINE yes == TRUE
             r == Start(a, time, ControlTime, reading, yes)
             h == HeldBefore(a, time, ControlTime, yes)
  <2>0. yes
    OBVIOUS
  <2>00. yes \in BOOLEAN
    OBVIOUS
  <2>1. adc = r
    BY <1>6, <1>8
  <2> HIDE DEF yes, h
  <2>2. Earlier(ControlTime - ControlPeriod, time, reading) \in Peeks
    BY <1>1, <1>2, EarlierAreConversions
  <2>20. /\ design \in Designs /\ a \in Adc /\ time \in Int /\ ControlTime \in Int
         /\ reading \in Int
    BY <1>1, <1>5
  <2>21. /\ r \in Adc /\ KeepsAnchor(r, a) /\ KeepsSquare(r, a) /\ KeepsRing(r, a)
         /\ r.last = a.last
         /\ r.sum = a.sum + 2 * a.last * HeldBefore(a, time, ControlTime, yes)
         /\ r.open = (~Averaging \/ Full \/ time >= ControlTime - design.window)
         /\ r.peeks = (IF Independent /\ ~yes THEN <<>>
                       ELSE Earlier(ControlTime - ControlPeriod, time, reading))
         /\ r.taken = (IF Independent THEN 1
                       ELSE (time - (ControlTime - ControlPeriod)) \div design.sampling.period + 1)
         /\ r.index = (IF Independent THEN StartIndex(design.sampling, time, ~yes) ELSE 0)
         /\ r.held = (IF Independent /\ yes THEN reading ELSE a.held)
    BY <2>00, <2>2, <2>20, StartIs
  <2> HIDE DEF r
  <2>3. /\ r \in Adc /\ KeepsAnchor(r, a) /\ KeepsSquare(r, a) /\ KeepsRing(r, a)
        /\ r.last = a.last
        /\ r.sum = a.sum + 2 * a.last * h
        /\ r.open = (~Averaging \/ Full \/ time >= ControlTime - design.window)
        /\ r.peeks = Earlier(ControlTime - ControlPeriod, time, reading)
        /\ r.taken = (IF Independent THEN 1
                      ELSE (time - (ControlTime - ControlPeriod)) \div design.sampling.period + 1)
        /\ r.index = (IF Independent THEN StartIndex(design.sampling, time, ~yes) ELSE 0)
    BY <2>0, <2>21 DEF h
  <2>4. h = IF Averaging /\ time > WindowFrom THEN time - WindowFrom ELSE 0
    BY <1>2, <2>0 DEF h, HeldBefore
  <2>5. r.sum = IF Averaging /\ time > WindowFrom THEN 2 * reading * (time - WindowFrom) ELSE 0
    <3>1. a.last \in Int /\ 2 * a.last * 0 = 0
      BY <1>5 DEF Adc
    <3>2. Averaging => a.last = reading
      BY <1>5
    <3> DEFINE d == time - WindowFrom
               z == 2 * reading * d
    <3>3. z \in Int
      <4>1. d \in Int
        BY <1>1, <1>2
      <4> HIDE DEF d
      <4> QED
        BY <1>1, <4>1
    <3>4. CASE Averaging /\ time > WindowFrom
      <4>1. r.sum = 0 + z
        BY <1>5, <2>3, <2>4, <3>2, <3>4
      <4> HIDE DEF z
      <4>2. r.sum = z
        BY <3>3, <4>1
      <4> QED
        BY <3>4, <4>2 DEF z
    <3>5. CASE ~(Averaging /\ time > WindowFrom)
      <4>1. h = 0
        BY <2>4, <3>5
      <4> QED
        BY <1>5, <2>3, <3>1, <3>5, <4>1
    <3> QED
      BY <3>4, <3>5
  <2>6. Averaging => (r.open <=> time >= WindowFrom)
    <3>1. Full => time >= WindowFrom
      BY <1>1, <1>2 DEF Full
    <3> QED
      BY <1>2, <2>3, <3>1
  <2>7. StartIndex(design.sampling, time, ~yes) = IndexAtOrAfter(design.sampling, time)
    BY <2>0 DEF StartIndex
  <2>8. /\ r.peeks = Earlier(LastControl, time, reading)
        /\ r.taken = (IF Independent THEN 1
                      ELSE (time - LastControl) \div design.sampling.period + 1)
    BY <1>2, <2>3
  <2>9. /\ r.area = 0 /\ r.duration = 0 /\ r.place = 0 /\ r.count = 0 /\ r.total = 0
        /\ Squaring => r.square = reading * reading
        /\ r.upto = a.upto /\ r.anchored = a.anchored
    BY <1>5, <2>3 DEF KeepsAnchor, KeepsSquare, KeepsRing
  <2>10. /\ ~Averaging => r.open /\ r.sum = 0
         /\ ~Independent => r.index = 0 /\ r.held = 0
         /\ Independent => r.index = IndexAtOrAfter(design.sampling, time)
    BY <1>5, <2>0, <2>3, <2>5, <2>7, <2>21
  <2> QED
    BY <1>5, <1>8, <2>1, <2>3, <2>5, <2>6, <2>8, <2>9, <2>10
<1> QED
  BY <1>7, <1>8

\* Before the first instant the channel read what it reads there.
LEMMA FirstMean ==
    ASSUME SamplerInit
    PROVE  MeanOK(adc)
<1>1. /\ TimesOK /\ Latest = time /\ LastControl < time /\ time <= LastControl + ControlPeriod
      /\ DOMAIN trace = time - ControlPeriod .. time
      /\ \A u \in DOMAIN trace : /\ trace[u].since = u - 1 /\ trace[u].first = reading
                                 /\ trace[u].last = reading
      /\ pc = "idle" => time < LastControl + ControlPeriod
  BY FirstTimes
<1>2. /\ adc.last = (IF Averaging THEN reading ELSE 0)
      /\ Averaging => (adc.open <=> time >= WindowFrom)
      /\ Averaging => adc.sum = (IF time > WindowFrom THEN 2 * reading * (time - WindowFrom) ELSE 0)
      /\ ~Averaging => adc.open /\ adc.sum = 0
  BY FirstAdc
<1>3. /\ ControlPeriod \in Nat /\ LastControl \in Int /\ WindowFrom \in Int
      /\ WindowFrom >= LastControl /\ time \in Int /\ reading \in Values /\ reading \in Int
  BY <1>1, TimeFacts DEF TimesOK
<1>4. Averaging /\ time >= WindowFrom => adc.sum = IntegralIn(trace, Readings, WindowFrom, time)
  <2>1. CASE Averaging /\ time = WindowFrom
    <3>1. IntegralIn(trace, Readings, WindowFrom, WindowFrom) = 0
      BY <1>3, IntegralOfNothing
    <3> QED
      BY <1>2, <1>3, <2>1, <3>1
  <2>2. CASE Averaging /\ time > WindowFrom
    <3>1. \A u \in WindowFrom + 1 .. time :
             /\ u \in DOMAIN trace /\ trace[u].since = u - 1
             /\ trace[u].first = reading /\ trace[u].last = reading
      <4>1. \A u \in WindowFrom + 1 .. time : u \in time - ControlPeriod .. time
        BY <1>1, <1>3
      <4> QED
        BY <1>1, <4>1
    <3>2. IntegralIn(trace, Readings, WindowFrom, time) = 2 * Readings[reading] * (time - WindowFrom)
      BY <1>3, <2>2, <3>1, ReadingFunctions, IntegralOfConstant
    <3>3. Readings[reading] = reading
      BY <1>3, ReadingFunctions
    <3> QED
      BY <1>2, <1>3, <2>2, <3>2, <3>3
  <2> QED
    BY <1>3, <2>1, <2>2
<1>5. Averaging => /\ changed \/ adc.last = reading
                   /\ adc.open => WindowFrom <= Latest
                                  /\ adc.sum = IntegralIn(trace, Readings, WindowFrom, Latest)
                   /\ ~adc.open => adc.sum = 0 /\ time <= WindowFrom /\ time < WindowFrom
  BY <1>1, <1>2, <1>3, <1>4
<1>6. ~Averaging => adc.open /\ adc.sum = 0 /\ adc.last = 0
  BY <1>2
<1> QED
  BY <1>5, <1>6 DEF MeanOK

\* No squares are counted yet.
LEMMA FirstSquares ==
    ASSUME SamplerInit
    PROVE  AnchorOK(adc) /\ SquareOK(adc) /\ RingOK(adc)
<1>1. /\ TimesOK /\ Latest = time /\ LastControl < time /\ time = began
  BY FirstTimes
<1>2. /\ Squaring => adc.square = reading * reading
      /\ adc.area = 0 /\ adc.duration = 0 /\ adc.place = 0 /\ adc.count = 0 /\ adc.total = 0
      /\ (adc.anchored <=> Accumulating) /\ adc.upto = (IF Accumulating THEN time ELSE 0)
  BY FirstAdc
<1>3. LastControl \in Int /\ time \in Int /\ design.rms \in Nat
  BY <1>1, TimeFacts, DesignFacts DEF TimesOK
<1>4. AnchorOK(adc)
  BY <1>1, <1>2 DEF AnchorOK
<1>5. SquareOK(adc)
  <2>1. SquaresFrom = time
    BY <1>1, <1>3 DEF SquaresFrom
  <2>2. IntegralIn(trace, Squares, time, time) = 0
    BY <1>3, IntegralOfNothing
  <2> QED
    BY <1>1, <1>2, <1>3, <2>1, <2>2 DEF SquareOK
<1>6. RingOK(adc)
  <2>1. squares = <<>>
    BY DEF SamplerInit
  <2>2. Total(squares) = 0
    <3>1. squares \in Seq(Int) /\ Len(squares) = 0
      BY <2>1
    <3>2. PICK f : Sums(f, squares, 0, 0) /\ Total(squares) = f[0]
      BY <3>1, TotalIs
    <3>3. Increments(squares, 0, 0)
      BY DEF Increments
    <3> QED
      BY <3>2, <3>3, SumsAdd
  <2>3. squares \in Seq(Int) /\ Len(squares) = 0
    BY <2>1
  <2>4. Squaring => design.rms >= 1
    BY <1>3 DEF Squaring
  <2> QED
    BY <1>2, <1>3, <2>2, <2>3, <2>4 DEF RingOK, RingIs
<1> QED
  BY <1>4, <1>5, <1>6

\* The conversions before the first instant are of its reading.
LEMMA FirstConversions ==
    ASSUME SamplerInit
    PROVE  ConversionsOK(adc)
<1>1. /\ TimesOK /\ LastControl < time /\ time <= LastControl + ControlPeriod /\ time = began
      /\ DOMAIN trace = time - ControlPeriod .. time
      /\ \A u \in DOMAIN trace : trace[u].seen = reading
  BY FirstTimes
<1>2. /\ adc \in Adc
      /\ design.kind = "squares" => adc.peeks = <<>> /\ adc.taken = 1
      /\ ~Independent => adc.index = 0 /\ adc.held = 0
      /\ Independent => adc.taken = 1
      /\ design.kind # "squares" =>
            /\ adc.peeks = Earlier(LastControl, time, reading)
            /\ Independent => adc.index = IndexAtOrAfter(design.sampling, time)
            /\ ~Independent => adc.taken = (time - LastControl) \div design.sampling.period + 1
  BY FirstAdc
<1>3. /\ LastControl \in Int /\ time \in Int /\ design \in Designs /\ ControlPeriod \in Nat
      /\ design.sampling \in Clock /\ design.sampling.period \in Nat
      /\ design.sampling.period >= 1
  BY <1>1, TimeFacts, DesignFacts DEF TimesOK
<1> DEFINE F == FirstConversion
           At(n) == ClockAt(design.sampling, n)
<1>4. F \in Int /\ At(F - 1) <= LastControl /\ LastControl < At(F)
  BY <1>3, IndexAfterSpec DEF FirstConversion
<1>5. \A n \in Int : At(n) \in Int
  BY <1>3, ClockStep
<1>6. ASSUME NEW n \in Nat, n >= 1 => At(F + n - 1) <= time
      PROVE  /\ \A m \in 1 .. n : At(F + m - 1) \in DOMAIN trace
             /\ Converted(n) = [m \in 1 .. n |-> [t |-> At(F + m - 1), value |-> reading]]
  <2>1. ASSUME NEW m \in 1 .. n
        PROVE  At(F + m - 1) \in DOMAIN trace
    <3>1. /\ (F + m) - 1 \in Int /\ F <= (F + m) - 1 /\ (F + n) - 1 \in Int
          /\ (F + m) - 1 <= (F + n) - 1 /\ n >= 1
      BY <1>4
    <3>2. At(F) <= At((F + m) - 1) /\ At((F + m) - 1) <= At((F + n) - 1)
          /\ At((F + m) - 1) \in Int /\ At((F + n) - 1) \in Int /\ At(F) \in Int
      BY <1>3, <1>4, <3>1, ClockOrder
    <3>3. At((F + n) - 1) <= time
      <4>1. (F + n) - 1 = F + n - 1
        BY <1>4
      <4> QED
        BY <1>6, <3>1, <4>1
    <3> HIDE DEF At
    <3>4. At((F + m) - 1) \in time - ControlPeriod .. time
      BY <1>1, <1>3, <1>4, <3>2, <3>3
    <3>5. (F + m) - 1 = F + m - 1
      BY <1>4
    <3> QED
      BY <1>1, <3>4, <3>5
  <2>2. \A m \in 1 .. n : At(F + m - 1) \in DOMAIN trace /\ trace[At(F + m - 1)].seen = reading
    BY <1>1, <2>1
  <2>3. Converted(n) = [m \in 1 .. n |-> [t |-> At(F + m - 1), value |-> trace[At(F + m - 1)].seen]]
    BY DEF Converted
  <2> QED
    BY <2>2, <2>3
<1>7. CASE design.kind # "squares" /\ Independent
  <2> DEFINE ix == IndexAtOrAfter(design.sampling, time)
  <2>1. ix \in Int /\ At(ix - 1) < time /\ time <= At(ix)
    BY <1>3, IndexAtOrAfterSpec
  <2>2. adc.index = ix /\ NextConversion(adc) = ix
    BY <1>2, <1>7 DEF NextConversion
  <2>3. LastControl < At(ix)
    BY <1>1, <1>3, <1>5, <2>1
  <2> HIDE DEF ix
  <2>4. F <= ix
    BY <1>3, <2>1, <2>3, IndexAfterBound DEF FirstConversion
  <2>5. ix - F \in Nat /\ F + (ix - F) - 1 = ix - 1
    BY <1>4, <2>1, <2>4
  <2>6. /\ \A m \in 1 .. (ix - F) : At(F + m - 1) \in DOMAIN trace
        /\ Converted(ix - F) = [m \in 1 .. (ix - F) |-> [t |-> At(F + m - 1), value |-> reading]]
    <3>1. At(ix - 1) <= time
      BY <1>3, <1>5, <2>1
    <3> DEFINE n == ix - F
    <3>2. n \in Nat /\ At(F + n - 1) <= time
      BY <2>5, <3>1
    <3> HIDE DEF n
    <3>3. /\ \A m \in 1 .. n : At(F + m - 1) \in DOMAIN trace
          /\ Converted(n) = [m \in 1 .. n |-> [t |-> At(F + m - 1), value |-> reading]]
      BY <1>6, <3>2
    <3> QED
      BY <3>3 DEF n
  <2>7. adc.peeks = Converted(ix - F)
    <3>1. adc.peeks = [m \in 1 .. (ix - F) |-> [t |-> At(F + m - 1), value |-> reading]]
      BY <1>2, <1>7 DEF Earlier, FirstConversion, ix
    <3> QED
      BY <2>6, <3>1
  <2>8. pc # "sense" => time < At(ix)
    <3>1. pc # "sense" => time # At(ix)
      BY <1>7, <2>2 DEF SamplerInit, Due, ConversionDue, ClockDue
    <3> QED
      BY <1>3, <1>5, <2>1, <3>1
  <2>9. PositionOK(adc)
    <3>1. At(ix - 1) \in Int /\ At(ix) \in Int
      BY <1>5, <2>1
    <3> QED
      BY <1>3, <2>1, <2>2, <2>4, <2>6, <2>7, <2>8, <3>1 DEF PositionOK
  <2> QED
    BY <1>2, <1>7, <2>9 DEF ConversionsOK
<1>8. CASE design.kind # "squares" /\ ~Independent
  <2> DEFINE sp == design.sampling.period
             cnt == (time - LastControl) \div sp
  <2>1. cnt \in Int /\ sp * cnt <= time - LastControl /\ time - LastControl < sp * cnt + sp /\ cnt >= 0
    <3>1. time - LastControl \in Int /\ time - LastControl >= 0
      BY <1>1, <1>3
    <3> QED
      BY <1>3, <3>1, WholePeriods
  <2>2. At(F + cnt - 1) = LastControl + cnt * sp /\ At(F + cnt) = LastControl + (cnt + 1) * sp
    <3>1. LastIndex \in Int
      BY <1>1, TimeFacts
    <3>2. \A n \in Int : At(F - 1 + n) = LastControl + n * sp
      BY <1>3, <1>8, <3>1, AlignedConversions DEF FirstConversion, LastControl
    <3> HIDE DEF cnt, At
    <3>3. At(F - 1 + cnt) = LastControl + cnt * sp /\ At(F - 1 + (cnt + 1)) = LastControl + (cnt + 1) * sp
      BY <2>1, <3>2
    <3>4. F - 1 + cnt = F + cnt - 1 /\ F - 1 + (cnt + 1) = F + cnt
      BY <1>4, <2>1
    <3> QED
      BY <3>3, <3>4
  <2>3. NextConversion(adc) = F + cnt
    <3>1. adc.taken = cnt + 1
      BY <1>2, <1>8
    <3> HIDE DEF cnt
    <3>2. F + adc.taken - 1 = F + cnt
      BY <1>4, <2>1, <3>1
    <3> QED
      BY <1>8, <3>2 DEF NextConversion
  <2>4. adc.peeks = [m \in 1 .. cnt |-> [t |-> LastControl + m * sp, value |-> reading]]
    BY <1>2, <1>8 DEF Earlier
  <2>5. \A m \in Int : At(F + m - 1) = LastControl + m * sp
    <3>1. LastIndex \in Int
      BY <1>1, TimeFacts
    <3>2. \A n \in Int : At(F - 1 + n) = LastControl + n * sp
      BY <1>3, <1>8, <3>1, AlignedConversions DEF FirstConversion, LastControl
    <3>3. \A m \in Int : F - 1 + m = F + m - 1
      BY <1>4
    <3> HIDE DEF At
    <3> QED
      BY <3>2, <3>3
  <2>6. At(F + cnt - 1) <= time /\ time < At(F + cnt)
    <3> HIDE DEF cnt, At
    <3> DEFINE y == sp * cnt
    <3>0. sp \in Int /\ cnt \in Int
      BY <1>3, <2>1
    <3> HIDE DEF sp
    <3>1. y \in Int /\ cnt * sp = y /\ (cnt + 1) * sp = y + sp
      BY <3>0
    <3>2. y <= time - LastControl /\ time - LastControl < y + sp
      BY <2>1
    <3> HIDE DEF y
    <3> QED
      BY <1>3, <2>2, <3>0, <3>1, <3>2
  <2> HIDE DEF cnt
  <2>7. /\ \A m \in 1 .. cnt : At(F + m - 1) \in DOMAIN trace
        /\ Converted(cnt) = [m \in 1 .. cnt |-> [t |-> At(F + m - 1), value |-> reading]]
    BY <1>6, <2>1, <2>6
  <2>8. adc.peeks = Converted(cnt)
    <3>1. \A m \in 1 .. cnt : At(F + m - 1) = LastControl + m * sp
      BY <2>1, <2>5
    <3> HIDE DEF At
    <3> QED
      BY <2>4, <2>7, <3>1
  <2>9. PositionOK(adc)
    <3>1. (F + cnt) - F = cnt /\ F + cnt >= F /\ F + cnt \in Int /\ (F + cnt) - 1 = F + cnt - 1
      BY <1>4, <2>1
    <3>2. At((F + cnt) - 1) \in Int /\ At(F + cnt) \in Int
      BY <1>5, <3>1
    <3> DEFINE c == NextConversion(adc)
    <3>3. c = F + cnt /\ c - F = cnt /\ c - 1 = F + cnt - 1 /\ c >= F
      BY <1>4, <2>1, <2>3
    <3>4. /\ At(c - 1) <= time /\ time < At(c) /\ At(c - 1) \in Int /\ At(c) \in Int
      BY <2>6, <3>1, <3>2, <3>3
    <3>5. /\ At(c - 1) < time \/ (At(c - 1) = time /\ time = began /\ ~Independent)
          /\ time <= At(c)
      BY <1>1, <1>3, <1>8, <3>4
    <3>6. /\ adc.peeks = Converted(c - F)
          /\ \A m \in 1 .. (c - F) : At(F + m - 1) \in DOMAIN trace
      BY <2>7, <2>8, <3>3
    <3> HIDE DEF c
    <3>7. /\ IF pc = "sense"
             THEN At(c - 1) < time \/ (At(c - 1) = time /\ time = began /\ ~Independent)
             ELSE At(c - 1) <= time
          /\ IF pc = "sense" THEN time <= At(c) ELSE time < At(c)
      BY <3>4, <3>5
    <3> QED
      BY <3>3, <3>6, <3>7 DEF PositionOK, c
  <2> QED
    BY <1>2, <1>8, <2>9 DEF ConversionsOK
<1>9. CASE design.kind = "squares"
  BY <1>2, <1>9 DEF ConversionsOK
<1> QED
  BY <1>7, <1>8, <1>9

\* A fresh run starts with a sampler that its invariant describes.
LEMMA SamplerInitInv ==
    ASSUME SamplerInit
    PROVE  SamplerInv
<1>1. TimesOK /\ TraceOK
  BY FirstTimes
<1>2. adc \in Adc
  BY FirstAdc
<1>3. PublishedOK
  <2>1. /\ published = [t |-> -1] /\ pc \in {"sense", "idle"} /\ pc # "actuate"
    BY DEF SamplerInit
  <2>2. published.t = -1 /\ time \in Nat
    BY <1>1, <2>1 DEF TimesOK
  <2> QED
    BY <2>1, <2>2 DEF PublishedOK, MeanIsOfWindow, SamplesAreComplete, JustSampled
<1> QED
  BY <1>1, <1>2, <1>3, FirstMean, FirstSquares, FirstConversions DEF SamplerInv

----------------------------------------------------------------------------
(***************************************************************************)
(* The invariant, and what it means for the measurements.                  *)
(***************************************************************************)
\* SamplerInv describes the sampler of every run in which the conversions of
\* a run that continues keep their places.
THEOREM SamplerIsInductive ==
    ASSUME ConversionsKeep
    PROVE  SamplerSpec => []SamplerInv
<1>1. SamplerInit => SamplerInv
  BY SamplerInitInv
<1>2. SamplerInv /\ [SamplerNext]_samplerVars => SamplerInv'
  <2> SUFFICES ASSUME SamplerInv, [SamplerNext]_samplerVars
               PROVE  SamplerInv'
    OBVIOUS
  <2>1. CASE Pass
    BY <2>1, PassInv
  <2>2. CASE Arrive
    BY <2>2, ArriveInv
  <2>3. CASE Sense
    BY <2>3, SenseInv
  <2>4. CASE Actuate
    BY <2>4, ActuateInv
  <2>5. CASE ContinueRun
    <3>1. adc' = adc /\ interrupt' = interrupt
      BY <2>5, ContinueKeeps
    <3>2. UNCHANGED samplerVars
      BY <2>5, <3>1 DEF ContinueRun, samplerVars
    <3> QED
      BY <3>2, SamplerStutters
  <2>6. CASE UNCHANGED samplerVars
    BY <2>6, SamplerStutters
  <2> QED
    BY <2>1, <2>2, <2>3, <2>4, <2>5, <2>6 DEF SamplerNext
<1> QED
  BY <1>1, <1>2, PTL DEF SamplerSpec

\* What a controller measures is of the stretch of time it asks for, wherever
\* the run started and however often it continued (ADC.sample, ADC.convert).
THEOREM SamplesAreOfWindows ==
    ASSUME ConversionsKeep
    PROVE  SamplerSpec => []MeasurementsAreOfWindows
<1>1. SamplerInv => MeasurementsAreOfWindows
  <2> SUFFICES ASSUME SamplerInv
               PROVE  MeasurementsAreOfWindows
    OBVIOUS
  <2>1. MeanIsOfWindow /\ SamplesAreComplete
    BY DEF SamplerInv, PublishedOK
  <2>2. SquaresAreOfPeriods
    BY DEF SamplerInv, RingOK, RingIs, SquaresAreOfPeriods
  <2> QED
    BY <2>1, <2>2 DEF MeasurementsAreOfWindows
<1> QED
  BY <1>1, SamplerIsInductive, PTL

\* A run that continues from a row has the sampler of the run that wrote it
\* (ADC.get_state, ADC.set_state, ADC.start).
THEOREM ContinuedSamplersGoOn ==
    ASSUME ConversionsKeep
    PROVE  SamplerSpec => ContinuesSampling
<1>1. SamplerInv /\ [SamplerNext]_samplerVars
         => [ContinueRun => adc' = adc /\ interrupt' = interrupt]_samplerVars
  BY ContinueKeeps
<1> QED
  BY <1>1, SamplerIsInductive, PTL DEF ContinuesSampling, SamplerSpec

=============================================================================
