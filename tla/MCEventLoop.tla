---------------------------- MODULE MCEventLoop ----------------------------
(***************************************************************************)
(* Two sampled units, a continuous unit and a discrete black box whose     *)
(* clocks meet at some instants and not at others, over six ticks.         *)
(***************************************************************************)
EXTENDS EventLoop, TLC

CONSTANTS a, b, c, x  \* sampled units a and b, continuous unit c, black box x

TheUnits == {a, b, c}
TheClocks == (a :> [period |-> 5, offset |-> 1]) @@ (b :> [period |-> 3, offset |-> 1])
             @@ (c :> [period |-> 4, offset |-> 0]) @@ (x :> [period |-> 3, offset |-> 0])

\* Unit c is connected together with a parameter change, at an instant of a
\* and b; later a is disconnected.
TheEvents == <<[t |-> 1, unit |-> c, on |-> TRUE], [t |-> 1, parameters |-> TRUE],
               [t |-> 4, unit |-> a, on |-> FALSE]>>

=============================================================================
