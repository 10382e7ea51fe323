------------------------- MODULE CallExecutorTimed --------------------------
(***************************************************************************)
(* CallExecutor on a machine that keeps up: the executor's thread does     *)
(* what it can do before the clock moves on.  A tick is longer than the    *)
(* 500 ms of a waitEvent, so between two ticks the thread has timed out of *)
(* waitEvent, looked at the clock and blocked again, or it sleeps in the   *)
(* answer delay.  Every behaviour of this module is one of CallExecutor;   *)
(* what holds here in addition is what the code's deadlines are worth.     *)
(***************************************************************************)
EXTENDS CallExecutor

VARIABLES
    polled,    \* has this loop's waitEvent timed out since the clock moved?
    leg_end,   \* when the leg ended; 0: not yet
    loud_at    \* when the callee was last heard, or listening began

timedVars == <<vars, polled, leg_end, loud_at>>

TimedInit == Init /\ polled = FALSE /\ leg_end = 0 /\ loud_at = 0

\* Nothing is left to do at this instant.
Quiescent ==
    \/ stage = "blocked" /\ queue = <<>> /\ ~ dispatcher_wake /\ polled
    \/ pc = "delay" /\ ~ Cancelled /\ ~ DelayOver

TimedTick ==
    /\ Quiescent
    /\ Tick
    /\ polled' = FALSE
    /\ UNCHANGED <<leg_end, loud_at>>

\* The listening loop samples the level after waitEvent.
Samples == pc = "listen" /\ stage = "blocked" /\ pc' # "done"

\* What was heard is recorded from the sampled level, not from the detector.
Hears ==
    IF Samples
    THEN \E level \in RxLevels :
            /\ Sample(level)
            /\ loud_at' = IF level >= Threshold THEN now ELSE loud_at
    ELSE loud_at' = IF pc = "arm" /\ pc' = "listen" THEN now ELSE loud_at

TimedExecutor ==
    /\ Executor
    /\ polled' = (pc' = pc /\ (polled \/ WaitFails))
    /\ Hears
    /\ UNCHANGED leg_end

TimedWorker ==
    /\ WorkerThread
    /\ leg_end' = IF inv' = INV_STATE_DISCONNECTED /\ LegAlive THEN now ELSE leg_end
    /\ UNCHANGED <<polled, loud_at>>

TimedOthers ==
    /\ CancelSet \/ CancelWake \/ Destroy \/ Terminated
    /\ UNCHANGED <<polled, leg_end, loud_at>>

TimedNext == TimedExecutor \/ TimedWorker \/ TimedOthers \/ TimedTick

TimedSpec == TimedInit /\ [][TimedNext]_timedVars

-----------------------------------------------------------------------------
(* Properties.                                                             *)

\* The clock never moves on past a deadline that run() has left unserved:
\* registration ends within its 15 s, an unanswered leg is hung up at the
\* answer timeout and given up 10 s later, playback starts when the answer
\* delay is over, and neither playback nor listening outlives the 600 s cap.
DeadlinesKept ==
    [][now' # now =>
        /\ pc = "reg" => now < reg_start + RegTimeout
        /\ pc = "call" /\ ~ answered /\ now >= answer_deadline =>
              answer_timeout_hit /\ (LegAlive => hangingUp)
        /\ pc = "call" /\ answer_timeout_hit => now < answer_deadline + CancelGrace
        /\ pc = "delay" => now < call_connected + AnswerDelay
        /\ pc \in {"eof", "listen"} => now < call_connected + MaxCall]_timedVars

RoundedUp(ticks) == (ticks + Second - 1) \div Second

Later(a, b) == IF a > b THEN a ELSE b

\* The bill of an answered call: started seconds from the answer to the end of
\* the leg.  A leg that ends within the answer delay, when nobody reads the
\* queue, is billed up to the end of the delay at most.
BillingBounded ==
    Returned /\ result.status = "ANSWERED" /\ call_connected > 0 =>
        /\ result.billing_seconds >= RoundedUp(leg_end - call_connected)
        /\ result.billing_seconds <=
              RoundedUp(Later(leg_end, call_connected + AnswerDelay) - call_connected)

\* The agent hangs up on silence, not on a callee who speaks, and does so in
\* time: before the 600 s cap it leaves the listening loop only if the callee was
\* not heard for the whole silence timeout, and the clock never moves on with
\* the callee unheard for longer than that.
HangsUpOnSilence ==
    [][/\ pc = "listen" /\ pc' = "hangup" =>
              \/ now - call_connected >= MaxCall
              \/ now - loud_at >= SilenceTimeout
       /\ pc = "listen" /\ now' # now => now - loud_at <= SilenceTimeout]_timedVars

-----------------------------------------------------------------------------
(* What the documentation says and the code does not do.                   *)

\* "Answered then hung up (any side)" gives ANSWERED (README.md:148): no other
\* result follows an ANSWERED state.
AnsweredStaysAnswered ==
    \A i, j \in DOMAIN events :
        Emitted(i) = "ANSWERED" /\ result_event(events[j]) =>
            Emitted(j) = "ANSWERED"
=============================================================================
