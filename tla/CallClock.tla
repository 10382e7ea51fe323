----------------------------- MODULE CallClock ------------------------------
(***************************************************************************)
(* The times of one run() on the clock it really reads: epochMs() is       *)
(* system_clock, which an administrator or NTP may set while the call is   *)
(* up.  Some deadlines are a stored instant that the clock must reach,     *)
(* the others an unsigned difference with a stored instant, which wraps.   *)
(* Every time is compared with what a stopwatch would show.  CallExecutor  *)
(* has the rest of run(), on a clock that only runs forward.               *)
(***************************************************************************)
EXTENDS Integers

CONSTANTS
    Wrap, U32,       \* 2^64 milliseconds, 2^32 seconds
    Second,          \* 1000
    RegTimeout, AnswerTimeout, CancelGrace, AnswerDelay, MaxCall,
    Steps,           \* by how much the clock may be set, either way
    Start            \* the time on the clock when run() begins

ASSUME ClockAssumption ==
    /\ Wrap \in Nat \ {0} /\ U32 \in Nat \ {0} /\ Second \in Nat \ {0}
    /\ RegTimeout \in Nat \ {0} /\ AnswerTimeout \in Nat \ {0}
    /\ CancelGrace \in Nat \ {0} /\ MaxCall \in Nat \ {0} /\ Start \in Nat \ {0}
    /\ AnswerDelay \in Nat
    /\ Steps \subseteq Nat

\* 2^32 seconds fit into 2^64 ms, and the longest call that the settings allow,
\* with a step of the clock, into the 2^32 seconds (136 years).
ASSUME WidthAssumption ==
    /\ Second * U32 <= Wrap
    /\ \A step \in Steps \cup {0} :
          AnswerDelay + MaxCall + step <= Second * (U32 - 1)

VARIABLES
    phase,     \* "reg", "ring", "cancel", "delay", "talk", "over"
    wall,      \* epochMs()
    mark,      \* reg_start, answer_deadline_ms, then call_connected_ms_
    watch,     \* stopwatch since the mark was set
    shift,     \* by how much the clock was set since the mark was set
    why,       \* what ended the run
    bill,      \* billing_seconds
    settable   \* may the clock still be set?

clockVars == <<phase, wall, mark, watch, shift, why, bill, settable>>

Init ==
    /\ phase = "reg"
    /\ wall = Start /\ mark = Start
    /\ watch = 0 /\ shift = 0
    /\ why = "none" /\ bill = 0
    /\ settable = TRUE

\* nowMs() - t
Since(t) == (wall - t) % Wrap

\* A stored instant is compared, not subtracted: nowMs() >= t + limit.
Reached(t, limit) == wall >= t + limit

RegistrationOver == Since(mark) >= RegTimeout
AnswerOver       == Reached(mark, 0)
GraceOver        == Reached(mark, CancelGrace)
CapReached       == Since(mark) >= MaxCall

\* Measured as the other loops do (mutant).
DelayOverByDifference == Since(mark) >= AnswerDelay

DelayOver == Reached(mark, AnswerDelay)

\* Rounded to the nearest second (mutant).
BillingNearest == ((Since(mark) + Second \div 2) \div Second) % U32

Billing == ((Since(mark) + Second - 1) \div Second) % U32

Mark(next, time) ==
    /\ phase' = next
    /\ mark' = time
    /\ watch' = 0 /\ shift' = 0

Ends(reason, seconds) ==
    /\ phase' = "over"
    /\ why' = reason
    /\ bill' = seconds
    /\ UNCHANGED <<wall, mark, watch, shift, settable>>

-----------------------------------------------------------------------------
Registered ==
    /\ phase = "reg"
    /\ Mark("ring", wall + AnswerTimeout)
    /\ UNCHANGED <<wall, why, bill, settable>>

\* With the audio there already, the delay counts from the answer; a callee may
\* still answer what is being cancelled.
Answered ==
    /\ phase \in {"ring", "cancel"}
    /\ Mark("delay", wall)
    /\ UNCHANGED <<wall, why, bill, settable>>

Cancels ==
    /\ phase = "ring" /\ AnswerOver
    /\ phase' = "cancel"
    /\ UNCHANGED <<wall, mark, watch, shift, why, bill, settable>>

Plays ==
    /\ phase = "delay" /\ DelayOver
    /\ phase' = "talk"
    /\ UNCHANGED <<wall, mark, watch, shift, why, bill, settable>>

GivesUp ==
    \/ phase = "reg" /\ RegistrationOver /\ Ends("unregistered", 0)
    \/ phase = "cancel" /\ GraceOver /\ Ends("unanswered", 0)

\* The callee, or silence, ends the call.
HangsUp == phase = "talk" /\ Ends("hangup", Billing)

Capped == phase = "talk" /\ CapReached /\ Ends("cap", Billing)

\* The executor's thread keeps up: it polls between two ticks.
Tick ==
    /\ CASE phase = "reg"    -> ~ RegistrationOver
         [] phase = "ring"   -> ~ AnswerOver
         [] phase = "cancel" -> ~ GraceOver
         [] phase = "delay"  -> ~ DelayOver
         [] phase = "talk"   -> ~ CapReached
         [] OTHER            -> FALSE
    /\ wall' = wall + 1
    /\ watch' = watch + 1
    /\ UNCHANGED <<phase, mark, shift, why, bill, settable>>

\* The clock is set, once; it stays after 1970.
SetClock ==
    /\ settable /\ phase # "over"
    /\ \E step \in Steps \cup {-n : n \in Steps} :
          /\ wall + step > 0
          /\ wall' = wall + step
          /\ shift' = shift + step
    /\ settable' = FALSE
    /\ UNCHANGED <<phase, mark, watch, why, bill>>

Next ==
    \/ Registered \/ Answered \/ Cancels \/ Plays \/ GivesUp \/ HangsUp \/ Capped
    \/ Tick \/ SetClock

Spec == Init /\ [][Next]_clockVars

-----------------------------------------------------------------------------
(* Properties.                                                             *)

\* Setting the clock moves the answer timeout, the grace after the CANCEL and
\* the answer delay by the step and by no more: none of them comes before the
\* stopwatch and the step together have reached it, none is passed over, and so
\* a clock that is set back makes none of them early.
InstantsMoveByTheStep ==
    [][LET shown == watch + shift
       IN  /\ phase = "ring" /\ phase' = "cancel" => shown >= AnswerTimeout
           /\ phase = "cancel" /\ phase' = "over" => shown >= AnswerTimeout + CancelGrace
           /\ phase = "delay" /\ phase' = "talk" => shown >= AnswerDelay
           /\ watch' > watch =>
                 /\ phase = "ring" => shown < AnswerTimeout
                 /\ phase = "cancel" => shown < AnswerTimeout + CancelGrace
                 /\ phase = "delay" => shown < AnswerDelay]_clockVars

\* As long as the clock shows no time before the mark, the bill is the started
\* seconds of the stopwatch and the step, and the cap and the registration
\* timeout come when those reach them; a step of the clock between a mark and
\* its deadline costs no more than the step.
DifferencesMoveByTheStep ==
    /\ why \in {"hangup", "cap"} /\ watch + shift >= 0 =>
          /\ (bill - 1) * Second < watch + shift
          /\ watch + shift <= bill * Second
    /\ why = "cap" => watch + shift \notin 0 .. (MaxCall - 1)
    /\ why = "unregistered" => watch + shift \notin 0 .. (RegTimeout - 1)
=============================================================================
