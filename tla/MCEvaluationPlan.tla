-------------------------- MODULE MCEvaluationPlan --------------------------
(***************************************************************************)
(* An integrator, a gain, a held gain, and a circuit with a view, all ways *)
(* to connect them up to two sources of the gain.  The circuit declares    *)
(* two independent stages, and one runtime stage after a rebuild.          *)
(***************************************************************************)
EXTENDS EvaluationPlan

CONSTANTS Integrator, Gain, Held, Circuit, View

Two == {Circuit, View}

\* Stages are declared subsystem by subsystem.
Gains == <<Stage(Gain, {Gain}, {"u"}, {"y"}, TRUE, {}),
           Stage(Held, {Held}, {"u", "h"}, {"y"}, TRUE, {})>>

Declared ==
    <<Gains \o <<Stage(Circuit, Two, {}, {"v"}, TRUE, {}),
                 Stage(Circuit, {Circuit}, {"u"}, {"w"}, FALSE, {}),
                 Stage(View, {View}, {}, {"z"}, FALSE, {3})>>,
      Gains \o <<Stage(Circuit, Two, {"u"}, {}, TRUE, {}),
                 Stage(Circuit, {Circuit}, {}, {"v", "w"}, FALSE, {3}),
                 Stage(View, {View}, {}, {"z"}, FALSE, {4})>>>>

Outputs == {<<Integrator, "x">>, <<Gain, "y">>, <<Held, "y">>, <<Circuit, "v">>,
            <<Circuit, "w">>}

Single == {{f} : f \in Outputs}
Double == Single \cup {{f, g} : f, g \in Outputs}

MCModels ==
    {[subsystems |-> {Integrator, Gain, Held, Circuit, View},
      stateful |-> {Integrator, View}, held |-> {<<Held, "h">>}, windowed |-> w,
      stages |-> Declared, asked |-> {{View}, {Integrator, Held}},
      connections |-> <<Connection(Integrator, "u", a), Connection(Gain, "u", b),
                        Connection(Held, "u", c), Connection(Circuit, "u", d)>>] :
        w \in {{Integrator}, {View}, Two}, a \in {{<<Gain, "y">>}}, b \in Double, c \in Single,
        d \in {{<<Gain, "y">>}, {<<Circuit, "v">>}, {<<Circuit, "w">>},
              {<<Circuit, "v">>, <<Gain, "y">>}}}

=============================================================================
