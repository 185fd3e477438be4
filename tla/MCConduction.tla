---------------------------- MODULE MCConduction ----------------------------
(***************************************************************************)
(* Circuits of two diodes: every combination of the rows below over the    *)
(* four patterns, with a loop of diodes that the closed switch shorts, a   *)
(* cutset that the open one leaves, neither or both.                       *)
(***************************************************************************)
EXTENDS Conduction

R(a, b) == [d \in AllDiodes |-> IF d = "d1" THEN a ELSE b]

Plain == {R("holds", "holds"), R("turns", "holds"), R("wrong", "holds")}
Rich == Plain \cup {R("holds", "grazes"), R("jumps", "wrong")}

MCDiodes == <<"d1", "d2">>

Rows(none, first, second, both) ==
    [p \in Patterns |->
        CASE p = {} -> none [] p = {"d1"} -> first [] p = {"d2"} -> second [] OTHER -> both]

\* Margins turn in the middle of a step, at the edge of the switch, or one
\* tick before the end of an interval.
MCCircuits ==
    {[rows |-> Rows(none, first, second, both), loops |-> s.loops,
      cutsets |-> s.cutsets, turn |-> s.turn] :
         none \in Rich, first \in Plain,
         second \in {R("holds", "holds"), R("wrong", "holds")},
         both \in {R("holds", "holds"), R("wrong", "holds")},
         s \in {[loops |-> {}, cutsets |-> {}, turn |-> 12],
                [loops |-> {{"d1"}}, cutsets |-> {}, turn |-> 11],
                [loops |-> {}, cutsets |-> {{"d2"}}, turn |-> 5],
                [loops |-> {AllDiodes}, cutsets |-> {AllDiodes}, turn |-> 5]}}

============================================================================
