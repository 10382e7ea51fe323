------------------------------ MODULE Silence -------------------------------
(***************************************************************************)
(* silence.cpp as pure operators: arm() and feed() on the fields of a      *)
(* SilenceDetector.  Subtraction is plain: callers feed times that never   *)
(* decrease.                                                               *)
(***************************************************************************)
EXTENDS Integers

Detector == [armed : BOOLEAN, started : BOOLEAN, silence_start : Nat]

\* A freshly constructed detector: inactive.
NewDetector == [armed |-> FALSE, started |-> FALSE, silence_start |-> 0]

arm(sd) == [armed |-> TRUE, started |-> FALSE, silence_start |-> 0]

\* When the quiet stretch that a quiet sample at time t belongs to began.
QuietSince(sd, t) == IF sd.started THEN sd.silence_start ELSE t

\* The timeout has to be exceeded (mutant).
feedFiresLate(sd, threshold, timeout, level, t) ==
    /\ sd.armed
    /\ level < threshold
    /\ t - QuietSince(sd, t) > timeout

\* feed()'s return value.
feedFires(sd, threshold, timeout, level, t) ==
    /\ sd.armed
    /\ level < threshold
    /\ t - QuietSince(sd, t) >= timeout

\* A loud sample does not end the quiet stretch (mutant).
feedNoReset(sd, threshold, timeout, level, t) ==
    CASE ~ sd.armed \/ level >= threshold -> sd
      [] feedFires(sd, threshold, timeout, level, t) -> NewDetector
      [] OTHER ->
            [sd EXCEPT !.started = TRUE, !.silence_start = QuietSince(sd, t)]

\* feed()'s effect on the detector.
feed(sd, threshold, timeout, level, t) ==
    CASE ~ sd.armed -> sd
      [] sd.armed /\ level >= threshold ->
            [sd EXCEPT !.started = FALSE, !.silence_start = 0]
      [] feedFires(sd, threshold, timeout, level, t) -> NewDetector
      [] OTHER ->
            [sd EXCEPT !.started = TRUE, !.silence_start = QuietSince(sd, t)]

getCurrentSilenceMs(sd, t) ==
    IF sd.armed /\ sd.started THEN t - sd.silence_start ELSE 0
=============================================================================
