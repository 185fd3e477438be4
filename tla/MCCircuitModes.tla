--------------------------- MODULE MCCircuitModes ---------------------------
(***************************************************************************)
(* Circuits with every kind of loop and cutset on three vertices.          *)
(***************************************************************************)
EXTENDS CircuitModes

One(kind, a, b, value) == [kind |-> kind, ports |-> <<<<a, b>>>>, value |-> value]
Two(kind, p, s, value) == [kind |-> kind, ports |-> <<p, s>>, value |-> value]
Source(kind, a, b) == One(kind, a, b, 0)
Switch(a, b) == One("switch", a, b, None)
Transformer(p, s) == Two("transformer", p, s, 0)

TheCircuits ==
    { \* capacitors are put in parallel, or to a source
      <<Source("vsrc", 1, 0), One("res", 1, 2, 5), One("cap", 2, 0, 3), Switch(2, 3),
        One("cap", 3, 0, 7)>>,
      <<Source("vsrc", 1, 0), Switch(1, 2), One("cap", 2, 3, 3), One("cap", 3, 0, 7),
        One("res", 3, 0, 5)>>,
      \* inductors are put in series, with each other and with a source
      <<Source("vsrc", 1, 0), One("ind", 1, 2, 3), Switch(2, 0), One("ind", 2, 3, 7),
        One("res", 3, 0, 5)>>,
      <<Source("isrc", 0, 1), Switch(1, 0), Two("ind", <<1, 2>>, <<3, 0>>, 5), One("res", 2, 3, 11)>>,
      \* capacitors and inductors at both ports of a transformer
      <<One("cap", 1, 0, 3), Transformer(<<1, 0>>, <<2, 0>>), One("cap", 2, 0, 7), Switch(2, 3),
        One("res", 3, 0, 5)>>,
      <<Source("vsrc", 1, 0), One("ind", 1, 2, 3), Transformer(<<2, 0>>, <<3, 0>>),
        One("ind", 3, 0, 7), One("switch", 2, 0, 5)>>,
      \* loads at one port, dependence only through the switch
      <<One("cap", 1, 0, 3), Transformer(<<1, 0>>, <<2, 0>>), One("ind", 2, 3, 7), Switch(3, 0),
        One("res", 3, 0, 5)>>,
      \* a behavioral current, and a loop of sources
      <<Source("state", 0, 1), One("cap", 1, 0, 3), One("res", 1, 2, 5), Switch(2, 0),
        One("ind", 2, 0, 7)>>,
      <<Source("vsrc", 1, 0), Switch(1, 2), Source("vsrc", 2, 0), One("res", 1, 2, 5)>>,
      \* transformers in a chain, between capacitors or with a load
      <<One("cap", 1, 0, 3), Transformer(<<1, 0>>, <<2, 0>>), Transformer(<<2, 0>>, <<3, 0>>),
        One("cap", 3, 0, 7), One("switch", 3, 0, 5)>>,
      <<One("cap", 1, 0, 3), Transformer(<<1, 0>>, <<2, 0>>), Transformer(<<2, 0>>, <<3, 0>>),
        One("res", 3, 0, 5)>>,
      <<One("ind", 1, 0, 3), Transformer(<<1, 0>>, <<2, 0>>), Transformer(<<2, 0>>, <<3, 0>>),
        One("ind", 3, 0, 7), One("switch", 3, 0, None)>>
    }

\* A behavioral current drives an inductor once the switch opens.
DrivenInductor ==
    { <<Source("state", 0, 1), Switch(1, 0), One("ind", 1, 2, 3), One("res", 2, 0, 5)>> }

TheGiven == <<13, 17, 19, 23, 29, 31, 37>>
TheSupply == [vsrc |-> <<41, 2>>, isrc |-> <<43, 3>>, state |-> <<3, 0>>]

=============================================================================
