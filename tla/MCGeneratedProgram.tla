------------------------- MODULE MCGeneratedProgram -------------------------
(***************************************************************************)
(* The program of a system with a filtered and an unfiltered sampled unit, *)
(* a continuous unit and a discrete black box.                             *)
(***************************************************************************)
EXTENDS GeneratedProgram, TLC

CONSTANTS a, b, d, x  \* sampled units a and b, continuous unit d, black box x

TheUnits == {a, b, d}
TheClocks == (a :> [period |-> 4, offset |-> 0]) @@ (b :> [period |-> 3, offset |-> 1])
             @@ (d :> [period |-> 4, offset |-> 1]) @@ (x :> [period |-> 3, offset |-> 0])

\* The loads of a come within its computation and after it; those of b with
\* its interrupts, without computation time.
TheLoads == (a :> [period |-> 2, offset |-> 0]) @@ (b :> [period |-> 3, offset |-> 1])
TheComputation == (a :> 3) @@ (b :> 0)

\* Unit d is connected together with a parameter change, b is disconnected and
\* connected again.
TheEvents == <<[t |-> 1, unit |-> d, on |-> TRUE], [t |-> 1, parameters |-> TRUE],
               [t |-> 4, unit |-> b, on |-> FALSE], [t |-> 7, unit |-> b, on |-> TRUE]>>

TheOrders == {<<a, b, d, x>>, <<d, b, a, x>>, <<b, d, a, x>>}

=============================================================================
