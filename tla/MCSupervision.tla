--------------------------- MODULE MCSupervision ---------------------------
(***************************************************************************)
(* The instances of Supervision TLC checks: two criteria, one clock with   *)
(* two offsets, and timelines with a late, a repeated and an interrupted   *)
(* connection, and a change of settings.                                   *)
(***************************************************************************)
EXTENDS Supervision

Both == {"rms_current", "undervoltage"}
All == [enabled |-> Both \cup {"overcurrent"}, hold |-> 4]

Connect(t, ramp) == [t |-> t, on |-> TRUE, ramp |-> ramp]
Disconnect(t) == [t |-> t, on |-> FALSE, ramp |-> 0]
Change(t, s) == [t |-> t, settings |-> s]

Timelines ==
    {<<>>,
     <<Connect(0, 3)>>,
     <<Connect(1, 5)>>,
     <<Connect(1, 2), Connect(5, 3)>>,
     <<Connect(1, 0), Disconnect(4), Connect(6, 3)>>,
     <<Connect(0, 2), Change(4, [enabled |-> {"rms_current"}, hold |-> 4]),
       Change(8, All)>>,
     <<Connect(0, 0), Change(6, [enabled |-> Both, hold |-> 2])>>}

TheCases ==
    {[continuous |-> k, clock |-> [period |-> 2, offset |-> o],
      initial |-> tl = <<>>, timeline |-> tl] :
         k \in BOOLEAN, o \in 0..1, tl \in Timelines}

============================================================================
