--------------------------- MODULE MCPwmRegisters ---------------------------
(***************************************************************************)
(* Small instances of PwmRegisters.  The timers are checked with a plain   *)
(* carrier of two ticks per half period: the control period is one to      *)
(* three of them, the load period half a carrier (double update) or a      *)
(* whole one (single update), and every offset and computation time the    *)
(* validation accepts occurs.  The patterns are checked on few timers,     *)
(* with half periods of three ticks and loads at every offset, so that     *)
(* pulses last up to four ticks and cross loads at each of their ticks.    *)
(***************************************************************************)
EXTENDS PwmRegisters

HalfCarrier == 2
HalfPattern == 3

Duty(on, width) == [on |-> on, width |-> width, phase |-> 0, mode |-> "duty"]
Shift(width, phase, mode) ==
    [on |-> TRUE, width |-> width, phase |-> phase, mode |-> mode]

MCNeutral == Duty(FALSE, 1)
DutyCommands == {MCNeutral, Duty(TRUE, 1), Duty(TRUE, 2), Duty(TRUE, HalfPattern)}
ShiftCommands ==
    {MCNeutral, Shift(1, 0, "both"), Shift(1, 1, "both"),
     Shift(1, 0, "positive"), Shift(1, 0, "none")}
MCCommands == DutyCommands \cup ShiftCommands

Plain ==
    [scheme |-> "carrier", half |-> HalfCarrier, pulse |-> FALSE, dead |-> 0,
     commands |-> {MCNeutral, Duty(TRUE, 1)}, phases |-> {0, 1}]

Patterns ==
    {[scheme |-> "carrier", half |-> HalfPattern, pulse |-> pulse, dead |-> dead,
      commands |-> DutyCommands, phases |-> {0}] :
        <<pulse, dead>> \in {<<FALSE, 2>>, <<TRUE, 2>>}}
    \cup
    {[scheme |-> "bridge", half |-> HalfPattern, pulse |-> TRUE, dead |-> 1,
      commands |-> ShiftCommands, phases |-> {0}]}

TimerTimings ==
    UNION {{[control |-> [period |-> cp, offset |-> co],
             loads |-> [period |-> lp, offset |-> lo],
             computation |-> tau, pattern |-> Plain] :
              co \in 0 .. cp - 1, lo \in 0 .. lp - 1, tau \in 0 .. cp - 1} :
           cp \in {HalfCarrier, 2 * HalfCarrier, 3 * HalfCarrier},
           lp \in {HalfCarrier, 2 * HalfCarrier}}

PatternTimings ==
    {[control |-> [period |-> HalfPattern, offset |-> 0],
      loads |-> [period |-> HalfPattern, offset |-> lo],
      computation |-> 0, pattern |-> pattern] :
        lo \in 0 .. HalfPattern - 1, pattern \in Patterns}

MCTimings == TimerTimings \cup PatternTimings

=============================================================================
