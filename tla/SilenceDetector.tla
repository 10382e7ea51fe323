-------------------------- MODULE SilenceDetector ---------------------------
(***************************************************************************)
(* A SilenceDetector in use: armed, fed levels at times that do not        *)
(* decrease, armed again.  log keeps what was fed since arm(), which the   *)
(* C++ object does not; what "silence" means is defined on the log, and    *)
(* the object's three fields are shown to be enough to tell.               *)
(***************************************************************************)
EXTENDS Silence, Sequences

CONSTANTS
    Levels,        \* levels that may be fed
    Threshold,     \* threshold_
    Timeout,       \* timeout_ms_
    Gaps,          \* times between two samples
    MaxTime        \* bound: no sample after this time

ASSUME DetectorAssumption ==
    /\ Levels \subseteq Nat
    /\ Threshold \in Nat
    /\ Timeout \in Nat
    /\ Gaps \subseteq Nat
    /\ MaxTime \in Nat

VARIABLES
    sd,      \* the object
    now,     \* the time of the last sample
    log,     \* the samples since arm(), none once the detector has fired
    fired    \* what the last feed() returned

vars == <<sd, now, log, fired>>

Sample == [level : Nat, t : Nat]

Init ==
    /\ sd = NewDetector
    /\ now = 0
    /\ log = <<>>
    /\ fired = FALSE

Arm ==
    /\ sd' = arm(sd)
    /\ log' = <<>>
    /\ fired' = FALSE
    /\ UNCHANGED now

Feed ==
    \E level \in Levels, gap \in Gaps :
        /\ now + gap <= MaxTime
        /\ now' = now + gap
        /\ sd' = feed(sd, Threshold, Timeout, level, now + gap)
        /\ fired' = feedFires(sd, Threshold, Timeout, level, now + gap)
        /\ log' = IF sd.armed THEN Append(log, [level |-> level, t |-> now + gap])
                              ELSE <<>>

Next == Arm \/ Feed

Spec == Init /\ [][Next]_vars

-----------------------------------------------------------------------------
(* Properties.                                                             *)

\* Everything from the i-th sample on is quiet.
QuietFrom(i) == \A j \in i .. Len(log) : log[j].level < Threshold

\* The quiet samples at the end of the log span the timeout.
SilentEnough ==
    \E i \in 1 .. Len(log) :
        QuietFrom(i) /\ log[Len(log)].t - log[i].t >= Timeout

\* feed() returns true for exactly the samples that complete a quiet stretch
\* of the timeout's length since arm(), a loud sample starting over, and never
\* again before the next arm().
FiresExactly == fired <=> SilentEnough

\* While armed, the three fields know the whole quiet stretch: what
\* getCurrentSilenceMs() reports is the time since the first sample of the
\* quiet tail of the log, 0 if the log ends loud.
KnowsTheStretch ==
    sd.armed =>
        \/ /\ \A i \in 1 .. Len(log) : ~ QuietFrom(i)
           /\ getCurrentSilenceMs(sd, now) = 0
        \/ \E i \in 1 .. Len(log) :
              /\ QuietFrom(i)
              /\ \A k \in 1 .. Len(log) : QuietFrom(k) => i <= k
              /\ getCurrentSilenceMs(sd, now) = now - log[i].t
=============================================================================
