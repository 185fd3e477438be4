-------------------------- MODULE SwitchingPattern --------------------------
(***************************************************************************)
(* The switching sequence of one load interval (components/pwm.py): what   *)
(* the modulator lays out, how complete-pulse updates hand a pulse over    *)
(* from one interval to the next, and how the dead time delays the legs.   *)
(*                                                                         *)
(* A word is the tuple of leg commands, 0 or 1; a sequence of words is a   *)
(* function of the tick within the interval, so an interval the code       *)
(* absorbs because it is empty does not exist here.  A pattern is          *)
(*   [scheme : {"carrier", "bridge"}, half : ticks of half a period,       *)
(*    pulse : BOOLEAN, dead : ticks]                                       *)
(* and a command [on, width, phase, mode].  The legs of a carrier          *)
(* comparison do not influence each other: one of them is modelled.  The   *)
(* two legs of a phase-shift bridge form one pulse group.                  *)
(***************************************************************************)
EXTENDS Integers, FiniteSetsExt

Period(pattern) == 2 * pattern.half

Legs(pattern) == IF pattern.scheme = "carrier" THEN {1} ELSE {1, 2}
Zeros(pattern) == IF pattern.scheme = "carrier" THEN <<0>> ELSE <<0, 0>>
Lit(word) == \E leg \in DOMAIN word : word[leg] # 0

----------------------------------------------------------------------------
\* Carrier comparison: the pulse is centred at the carrier's valley.
CarrierWord(pattern, command, angle) ==
    LET at == angle % Period(pattern)
    IN  <<IF at < command.width \/ at >= Period(pattern) - command.width
          THEN 1 ELSE 0>>

\* The pulses of one phase-shift mode: offset of the centre, and the word.
ModePulses(pattern, mode) ==
    LET positive == [centre |-> 0, word |-> <<1, 0>>]
        negative == [centre |-> pattern.half, word |-> <<0, 1>>]
    IN  CASE mode = "both" -> {positive, negative}
          [] mode = "positive" -> {positive}
          [] mode = "negative" -> {negative}
          [] OTHER -> {}

\* Half-open cyclic pulse [centre - width, centre + width).
PulseActive(pattern, angle, centre, width) ==
    (angle - centre + width) % Period(pattern) < 2 * width

BridgeWord(pattern, command, angle) ==
    LET active == {pulse \in ModePulses(pattern, command.mode) :
                      PulseActive(pattern, angle - command.phase,
                                  pulse.centre, command.width)}
    IN  IF active = {} THEN <<0, 0>> ELSE (CHOOSE pulse \in active : TRUE).word

\* The periodic waveform of a command from l on, one period past the span.
Raw(pattern, span, command, shift, l) ==
    [x \in 0 .. span + Period(pattern) - 1 |->
        IF pattern.scheme = "carrier"
        THEN CarrierWord(pattern, command, l + x + shift)
        ELSE BridgeWord(pattern, command, l + x + shift)]

\* A pulse of the periodic waveform begins at tick x.
Rises(raw, period, x) ==
    Lit(raw[x]) /\ raw[x] # raw[IF x = 0 THEN period - 1 ELSE x - 1]

Constant(raw) == \A x \in DOMAIN raw : raw[x] = raw[0]

NextChange(raw, x) == Min({y \in DOMAIN raw : y > x /\ raw[y] # raw[y - 1]})

----------------------------------------------------------------------------
\* Mutant of HandOver: a pulse that outlives the interval is not kept.
HandOverForgets(pattern, span, held, raw, begin) ==
    [word |-> Zeros(pattern), left |-> 0]

\* What the interval leaves to the next one: the pulse it is in and the time
\* the pulse still lasts.
HandOver(pattern, span, held, raw, begin) ==
    IF held.left >= span
    THEN IF held.left > span THEN [held EXCEPT !.left = @ - span]
                             ELSE [word |-> Zeros(pattern), left |-> 0]
    ELSE IF begin < span /\ Lit(raw[span])
    THEN [word |-> raw[span],
          left |-> IF Constant(raw) THEN 0 ELSE NextChange(raw, span) - span]
    ELSE [word |-> Zeros(pattern), left |-> 0]

(***************************************************************************)
(* PulseSequence: the pulse handed over is finished first; the new pattern *)
(* begins at its first pulse after that, and is followed from there on.    *)
(***************************************************************************)
WholePulses(pattern, span, held, raw) ==
    LET starts == {x \in DOMAIN raw :
                      x >= held.left /\ Rises(raw, Period(pattern), x)}
        begin == IF Constant(raw) THEN held.left ELSE Min(starts)
    IN  [words |-> [x \in 0 .. span - 1 |->
                       IF x < held.left THEN held.word
                       ELSE IF x < begin THEN Zeros(pattern) ELSE raw[x]],
         next |-> HandOver(pattern, span, held, raw, begin)]

----------------------------------------------------------------------------
\* The output of a leg whose gates are both off, by the pole current's sign.
Clamp(sign, command) ==
    IF sign > 0 THEN 0 ELSE IF sign < 0 THEN 1 ELSE command

\* A leg at the start of an interval: the turn-on the last interval left
\* pending, unless the current now clamps the leg to the commanded rail.  A
\* due time of 0 means that none is pending.
Pending(leg, sign) ==
    LET freed == leg.left # 0 /\ leg.command = Clamp(sign, leg.command)
    IN  [actual |-> IF freed THEN leg.command ELSE leg.actual,
         command |-> leg.command,
         due |-> IF freed THEN 0 ELSE leg.left]

\* One tick of a leg: a change of the command cancels the pending turn-on and
\* starts a dead time of its own, else a turn-on that is due takes place.
LegStep(pattern, leg, target, sign, x) ==
    IF target # leg.command
    THEN [actual |-> Clamp(sign, target), command |-> target,
          due |-> IF target = Clamp(sign, target) THEN 0 ELSE x + pattern.dead]
    ELSE IF leg.due # 0 /\ leg.due = x
    THEN [leg EXCEPT !.actual = leg.command, !.due = 0]
    ELSE leg

\* _DeadTimeSequence for one leg: its course through the interval, and the
\* state it leaves behind.  A turn-on due at the end still takes place.
LegCourse(pattern, span, words, leg, start, sign) ==
    LET course[x \in -1 .. span - 1] ==
            IF x = -1 THEN Pending(start, sign)
            ELSE LegStep(pattern, course[x - 1], words[x][leg], sign, x)
        last == LegStep(pattern, course[span - 1],
                        course[span - 1].command, sign, span)
    IN  [actual |-> [x \in 0 .. span - 1 |-> course[x].actual],
         next |-> [actual |-> last.actual, command |-> last.command,
                   left |-> IF last.due = 0 THEN 0 ELSE last.due - span]]

\* The pole currents of the two legs of a bridge are opposite.
LegSign(sign, leg) == IF leg = 1 THEN sign ELSE -sign

\* Both gates of every leg are off.
Blocked(pattern) ==
    [leg \in Legs(pattern) |-> [actual |-> 0, command |-> -1, left |-> 0]]

----------------------------------------------------------------------------
\* What the pattern remembers before its first interval.
Fresh(pattern) ==
    [pulse |-> [word |-> Zeros(pattern), left |-> 0],
     legs |-> Blocked(pattern)]

(***************************************************************************)
(* The interval at l: the commanded words, the words the legs take, and    *)
(* what the next interval inherits.  A disabled pattern forgets its pulse  *)
(* and its pending turn-ons.                                               *)
(***************************************************************************)
LaidOut(pattern, span, memory, sign, command, shift, l) ==
    LET raw == Raw(pattern, span, command, shift, l)
        plain == [words |-> [x \in 0 .. span - 1 |-> raw[x]],
                  next |-> memory.pulse]
        silent == [words |-> [x \in 0 .. span - 1 |-> Zeros(pattern)],
                   next |-> Fresh(pattern).pulse]
        pulsed == IF ~pattern.pulse THEN plain
                  ELSE IF ~command.on THEN silent
                  ELSE WholePulses(pattern, span, memory.pulse, raw)
        course == [leg \in Legs(pattern) |->
                      LegCourse(pattern, span, pulsed.words, leg,
                                memory.legs[leg], LegSign(sign, leg))]
    IN  IF pattern.dead = 0
        THEN [raw |-> raw, commanded |-> pulsed.words, words |-> pulsed.words,
              next |-> [pulse |-> pulsed.next, legs |-> memory.legs]]
        ELSE IF ~command.on
        THEN [raw |-> raw, commanded |-> pulsed.words, words |-> silent.words,
              next |-> [pulse |-> pulsed.next, legs |-> Blocked(pattern)]]
        ELSE [raw |-> raw, commanded |-> pulsed.words,
              words |-> [x \in 0 .. span - 1 |->
                            [leg \in Legs(pattern) |-> course[leg].actual[x]]],
              next |-> [pulse |-> pulsed.next,
                        legs |-> [leg \in Legs(pattern) |-> course[leg].next]]]

----------------------------------------------------------------------------
(***************************************************************************)
(* What a pattern owes, in absolute time and without the bookkeeping of    *)
(* the code: the pulses that may still run when the interval at l begins,  *)
(* and since when each leg has had its command.                            *)
(***************************************************************************)
NoPulse(pattern, l) == [word |-> Zeros(pattern), until |-> l]

\* The pulse owed is finished, and then every pulse of the new waveform, from
\* the first one that begins afterwards, is there in its full length.
FinishesPulse(pattern, span, l, owed, laid) ==
    \A x \in 0 .. span - 1 :
        laid.commanded[x] =
            IF l + x < owed.until THEN owed.word
            ELSE IF \/ Constant(laid.raw)
                    \/ \E y \in 0 .. x : /\ l + y >= owed.until
                                         /\ Rises(laid.raw, Period(pattern), y)
                 THEN laid.raw[x]
                 ELSE Zeros(pattern)

\* The pulses that may run when the interval at l is over.  A pulse of the
\* replaced waveform that would begin at that very instant may be kept or not.
PulsesOwed(pattern, span, l, owed, laid) ==
    LET raw == laid.raw
        own == [word |-> raw[span], until |-> l + NextChange(raw, span)]
        after(o) ==
            IF o.until > l + span THEN {o}
            ELSE IF Constant(raw) THEN {NoPulse(pattern, l + span)}
            ELSE IF Rises(raw, Period(pattern), span)
            THEN {own, NoPulse(pattern, l + span)}
            ELSE IF o.until < l + span /\ Lit(laid.commanded[span - 1])
                    /\ raw[span] = raw[span - 1]
            THEN {own}
            ELSE {NoPulse(pattern, l + span)}
    IN  UNION {after(o) : o \in {o \in owed :
                                   FinishesPulse(pattern, span, l, o, laid)}}

\* A leg at tick x: its command, since when it has it, and whether the clamped
\* output has agreed with the command since then.
LegOwed(l, owed, laid, leg, sign, x) ==
    LET commanded(y) == IF y < 0 THEN owed.command ELSE laid.commanded[y][leg]
        changes == {y \in 0 .. x : commanded(y) # commanded(y - 1)}
        command == commanded(x)
    IN  [command |-> command,
         since |-> IF changes = {} THEN owed.since ELSE l + Max(changes),
         freed |-> \/ Clamp(sign, command) = command
                   \/ changes = {} /\ owed.freed]

\* Every leg follows its command one dead time late, clamped by the current
\* in between, and not late at all once the clamped output agreed with it.
KeepsDeadTime(pattern, span, l, owed, laid, leg, sign) ==
    \A x \in 0 .. span - 1 :
        LET at == LegOwed(l, owed, laid, leg, sign, x)
        IN  laid.words[x][leg] =
                IF at.freed \/ l + x - at.since >= pattern.dead
                THEN at.command ELSE Clamp(sign, at.command)

=============================================================================
