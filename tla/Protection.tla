----------------------------- MODULE Protection -----------------------------
(***************************************************************************)
(* The protection of one converter unit (assembly/protection.py): the fast *)
(* over-current criterion, the sampled criteria with their hold timers,    *)
(* and the latch both of them share.  Which criteria a sample meets is an  *)
(* input.  Rate-of-change of frequency, which raises an alarm and never    *)
(* trips, is left out.                                                     *)
(***************************************************************************)
EXTENDS Naturals, Sequences, FiniteSetsExt

\* The sampled criteria in the order in which they are checked.
Order == <<"rms_current", "dc_voltage", "frequency", "undervoltage", "overvoltage">>
Criteria == {Order[i] : i \in DOMAIN Order}
TripCauses == Criteria \cup {"overcurrent", "restored"}

\* protection settings a set event may change
Settings == [enabled : SUBSET (Criteria \cup {"overcurrent"}), hold : Nat]

ProtectionState(checked) ==
    [trip  : TripCauses \cup {"none"},
     fault : BOOLEAN,
     held  : [checked -> Nat],  \* hold timers
     met   : SUBSET checked]    \* criteria whose first crossing is recorded

NewProtection(checked) ==
    [trip |-> "none", fault |-> FALSE, held |-> [c \in checked |-> 0], met |-> {}]

HasTripped(p) == p.trip # "none"

\* Protection.latch: only the first cause is kept.
Latch(p, cause) == IF HasTripped(p) THEN p ELSE [p EXCEPT !.trip = cause]

\* Protection.check_fast when the current exceeds its limit.
CheckFast(p, settings) ==
    IF HasTripped(p) \/ "overcurrent" \notin settings.enabled THEN p
    ELSE Latch([p EXCEPT !.fault = TRUE], "overcurrent")

\* What the timer of a criterion shows after this sample (HoldTimer.update).
HeldAfter(p, c, sample, period) == IF c \in sample.met THEN p.held[c] + period ELSE 0

\* Protection._timed: met now and held long enough.
Expired(p, c, sample, settings, period) ==
    c \in sample.met /\ HeldAfter(p, c, sample, period) >= settings.hold

\* The early return of check_sampled.
Blind(p, sample) == HasTripped(p) \/ ~sample.complete

(***************************************************************************)
(* Protection.check_sampled.  The criteria are checked in order until one  *)
(* trips; the timers of the later ones are not updated.                    *)
(***************************************************************************)
CheckSampled(p, sample, settings, period) ==
    LET looked == {i \in DOMAIN Order :
                       Order[i] \in sample.available \cap settings.enabled}
        expired == {i \in looked : Expired(p, Order[i], sample, settings, period)}
        checked == {Order[i] : i \in {j \in looked : \A k \in expired : j <= k}}
        next == [p EXCEPT
            !.held = [c \in DOMAIN @ |-> IF c \in checked
                                         THEN HeldAfter(p, c, sample, period) ELSE @[c]],
            !.met = @ \cup (checked \cap sample.met)]
    IN  IF Blind(p, sample) THEN p
        ELSE IF expired = {} THEN next
        ELSE Latch(next, Order[Min(expired)])

=============================================================================
