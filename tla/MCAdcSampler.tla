---------------------------- MODULE MCAdcSampler ----------------------------
(***************************************************************************)
(* The ways an ADC is set up that differ in control flow, with a control   *)
(* period of two to four ticks.                                            *)
(***************************************************************************)
EXTENDS AdcSampler

Every(period, offset) == [period |-> period, offset |-> offset]
Setup(kind, control, sampling, window, rms) ==
    [kind |-> kind, control |-> control, sampling |-> sampling, window |-> window,
     rms |-> rms]

TheDesigns ==
    {Setup("sampled", Every(3, 0), Every(3, 0), 2, 2),   \* a window inside the period
     Setup("sampled", Every(4, 1), Every(2, 1), 4, 0),   \* a full window, oversampled
     Setup("sampled", Every(4, 0), Every(2, 1), 3, 0),   \* conversions off the interrupts
     Setup("sampled", Every(2, 1), Every(1, 0), 0, 0),   \* instantaneous, oversampled
     Setup("clocked", Every(3, 1), Every(3, 1), 1, 0),
     Setup("squares", Every(2, 0), Every(2, 0), 0, 2)}

=============================================================================
