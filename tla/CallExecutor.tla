---------------------------- MODULE CallExecutor ----------------------------
(***************************************************************************)
(* CallExecutor::run(), the state machine of one outbound call, running on *)
(* the executor's thread against the PJSIP worker thread of the module     *)
(* SipAgent and against the RPC thread that may call cancel().             *)
(*                                                                         *)
(* Time is counted in ticks; a second of the code is Second ticks.  pc     *)
(* names the statement run() is at, and for the loops around waitEvent     *)
(* stage says where in an iteration it is:                                 *)
(*   "head"    before the loop's test of cancelled_                        *)
(*   "enter"   the test is done, waitEvent is not yet entered              *)
(*   "blocked" inside waitEvent, after dispatcher_wake_ was cleared        *)
(* The rest of an iteration, from waitEvent's return to the next test of   *)
(* cancelled_, is one step: what other threads do meanwhile reaches it     *)
(* only through the queue and cancelled_, which it does not look at.       *)
(***************************************************************************)
EXTENDS SipAgent, Silence

CONSTANTS
    RegTimeout,       \* REG_TIMEOUT_MS
    AnswerTimeout,    \* config_.answer_timeout_s
    CancelGrace,      \* the 10 s of the safety net
    AnswerDelay,      \* config_.answer_delay_s
    SilenceTimeout,   \* config_.silence_s
    Threshold,        \* config_.silence_threshold
    MaxCall,          \* the 600 s cap
    Second,           \* ticks per second
    AudioSources,     \* config_.audio_source: its type, can it be opened?
    MaxTime           \* bound: ticks that pass with no deadline pending

ASSUME TimeAssumption ==
    /\ RegTimeout \in Nat
    /\ AnswerTimeout \in Nat
    /\ CancelGrace \in Nat
    /\ AnswerDelay \in Nat
    /\ SilenceTimeout \in Nat
    /\ Threshold \in Nat
    /\ MaxCall \in Nat
    /\ Second \in Nat \ {0}
    /\ MaxTime \in Nat

ASSUME ConfigAssumption ==
    /\ AudioSources \subseteq [type : {"wav", "text", ""}, usable : BOOLEAN]

VARIABLES
    pc, stage,
    cancel,              \* cancel(): "idle", "set" (flag only) or "done"
    audio,               \* config_.audio_source
    result,              \* result_
    events,              \* everything handed to sink_, in order
    answered, media_active, answer_timeout_hit,   \* run()'s locals
    reg_start, answer_deadline, call_connected,   \* times; 0: not set
    sd,                  \* the SilenceDetector
    now                  \* nowMs()

loopVars == <<answered, media_active, answer_timeout_hit>>
timeVars == <<reg_start, answer_deadline, call_connected>>
execVars == <<pc, stage, audio, result, events, loopVars, timeVars, sd>>
vars == <<agentVars, execVars, cancel, now>>

\* The statements with a loop around waitEvent.
Loops == {"reg", "call", "eof", "drain", "listen", "bye"}
Ended == {"done", "destroyed", "crashed"}
PC == Loops \cup Ended \cup
      {"start", "place", "setup", "delay", "arm", "hangup"}

Result ==
    [status : CallStatus, sip_code : Nat, billing_seconds : Nat,
     recording : BOOLEAN]

\* cancelled_
Cancelled == cancel # "idle"

ExecTypeOK ==
    /\ pc \in PC
    /\ stage \in {"head", "enter", "blocked"}
    /\ cancel \in {"idle", "set", "done"}
    /\ audio \in AudioSources
    /\ result \in Result
    /\ events \in Seq(AgentEvent)
    /\ answered \in BOOLEAN
    /\ media_active \in BOOLEAN
    /\ answer_timeout_hit \in BOOLEAN
    /\ reg_start \in Nat
    /\ answer_deadline \in Nat
    /\ call_connected \in Nat
    /\ sd \in Detector
    /\ now \in Nat \ {0}
    /\ reg_start <= now
    /\ call_connected <= now

\* Every variable holds a value of its C++ type, and no recorded time lies in
\* the future, so that the unsigned differences with nowMs() cannot wrap.
TypeOK == SipTypeOK /\ ExecTypeOK

\* Time starts at 1: the code uses 0 for "never answered".
Init ==
    /\ SipInit
    /\ pc = "start"
    /\ stage = "head"
    /\ cancel = "idle"
    /\ audio \in AudioSources
    /\ result = [status |-> "FAILED", sip_code |-> 0, billing_seconds |-> 0,
                 recording |-> FALSE]
    /\ events = <<>>
    /\ answered = FALSE
    /\ media_active = FALSE
    /\ answer_timeout_hit = FALSE
    /\ reg_start = 0
    /\ answer_deadline = 0
    /\ call_connected = 0
    /\ sd = NewDetector
    /\ now = 1

-----------------------------------------------------------------------------
(* Building blocks.                                                        *)

emitEvent(ev) == events' = Append(events, ev)

GoTo(place) == pc' = place /\ stage' = "head"

\* The result is set but run() goes on (mutant).
ReturnForgotten(r) == GoTo(pc) /\ result' = r

Return(r) == GoTo("done") /\ result' = r

\* pj::Error leaves run(): nothing catches it and the process terminates.
Crash == GoTo("crashed") /\ account' = "gone"

At(place) == pc = place /\ stage = "head" /\ ~ Cancelled

\* The status checks after the loops.
GaveUp == result.status \in {"FAILED", "BUSY", "NO_ANSWER"}

\* The cap is noticed one tick late (mutant).
CapReachedLate == now - call_connected > MaxCall

CapReached == now - call_connected >= MaxCall

\* Whole seconds only (mutant), and the operands swapped (mutant).
BillingRoundedDown ==
    IF call_connected > 0 THEN (now - call_connected) \div Second ELSE 0
BillingSwapped ==
    IF call_connected > 0 THEN (call_connected - now) \div Second ELSE 0

Billing ==
    IF call_connected > 0
    THEN (now - call_connected + Second - 1) \div Second
    ELSE 0

DisconnectStatus(code) ==
    IF call_connected > 0 THEN "ANSWERED" ELSE sipCodeToCallStatus(code)

\* The result is emitted but not stored in result_ (mutant).
handleDisconnectNotStored(code) ==
    /\ UNCHANGED result
    /\ stopRecorder
    /\ emitEvent(MakeEvent(DisconnectStatus(code), result.recording, Billing,
                           code, TRUE))

\* The result overtakes RECORDING_READY (mutant).
handleDisconnectResultFirst(code) ==
    /\ result' = [result EXCEPT !.status = DisconnectStatus(code),
                                !.sip_code = code,
                                !.billing_seconds = Billing]
    /\ stopRecorder
    /\ events' = events \o
          <<MakeEvent(DisconnectStatus(code), result.recording, Billing, code,
                      TRUE),
            MakeEvent("RECORDING_READY", TRUE, Billing, 0, FALSE)>>

\* One step: the file is closed before the sink is called, on the same thread, so
\* whoever sees RECORDING_READY sees a closed file.
handleDisconnect(code) ==
    LET ready == MakeEvent("RECORDING_READY", TRUE, Billing, 0, FALSE)
        final == MakeEvent(DisconnectStatus(code), result.recording, Billing,
                           code, TRUE)
    IN  /\ result' = [result EXCEPT !.status = DisconnectStatus(code),
                                    !.sip_code = code,
                                    !.billing_seconds = Billing]
        /\ stopRecorder
        /\ events' = events \o (IF result.recording THEN <<ready, final>>
                                                    ELSE <<final>>)

-----------------------------------------------------------------------------
(* The loops around waitEvent.                                             *)

\* A loop that does nothing between its test and waitEvent.
LoopTest ==
    /\ pc \in Loops \ {"call"}
    /\ At(pc)
    /\ stage' = "enter"
    /\ UNCHANGED <<agentVars, pc, cancel, audio, result, events, loopVars,
                   timeVars, sd, now>>

WaitEnter ==
    /\ stage = "enter"
    /\ stage' = "blocked"
    /\ waitEventEnter
    /\ UNCHANGED <<queue, account, inv, hangingUp, media, player, recorder,
                   budget, pc, cancel, audio, result, events, loopVars,
                   timeVars, sd, now>>

\* waitEvent without its timeout, which needs the wake flag to return (mutant).
WaitFailsOnlyIfWoken == stage = "blocked" /\ queue = <<>> /\ dispatcher_wake

\* waitEvent gives up: the timeout ran out, or the dispatcher was woken.
WaitFails == stage = "blocked" /\ queue = <<>>

\* waitEvent hands over the oldest event.
ev == Head(queue)

Receives ==
    /\ stage = "blocked"
    /\ queue # <<>>
    /\ queue' = Tail(queue)

\* Cancellation is noticed: by a loop's test, or by the test after it.  Only
\* some of the tests hang up.
HangsUpIfCancelled == {"call", "setup", "delay", "eof", "drain", "arm"}

TakeCancel ==
    /\ Cancelled
    /\ stage = "head"
    /\ pc \in Loops \cup {"place", "setup", "delay", "arm", "hangup"}
    /\ Return([result EXCEPT !.status = "CANCELLED"])
    /\ IF pc \in HangsUpIfCancelled THEN hangup ELSE UNCHANGED hangingUp
    /\ UNCHANGED <<queue, dispatcher_wake, account, inv, media, player,
                   recorder, budget, cancel, audio, events, loopVars, timeVars,
                   sd, now>>

-----------------------------------------------------------------------------
(* Steps 1 and 2: registration.                                            *)

Start ==
    /\ pc = "start"
    /\ account' = "created"
    /\ emitEvent(StateEvent("REGISTERING"))
    /\ reg_start' = now
    /\ GoTo("reg")
    /\ UNCHANGED <<queue, dispatcher_wake, inv, hangingUp, media, player,
                   recorder, budget, cancel, audio, result, loopVars,
                   answer_deadline, call_connected, sd, now>>

StartThrows ==
    /\ pc = "start"
    /\ Crash
    /\ UNCHANGED <<queue, dispatcher_wake, inv, hangingUp, media, player,
                   recorder, budget, cancel, audio, result, events, loopVars,
                   timeVars, sd, now>>

RegistrationFails(code) ==
    /\ emitEvent(MakeEvent("FAILED", FALSE, 0, code, FALSE))
    /\ Return([result EXCEPT !.status = "FAILED", !.sip_code = code])

RegPoll ==
    /\ pc = "reg"
    /\ WaitFails
    /\ IF now - reg_start >= RegTimeout
       THEN RegistrationFails(0)
       ELSE GoTo("reg") /\ UNCHANGED <<result, events>>
    /\ UNCHANGED <<agentVars, cancel, audio, loopVars, timeVars, sd, now>>

RegEvent ==
    /\ pc = "reg"
    /\ Receives
    /\ CASE ev.type # "REG_STATE" -> GoTo("reg") /\ UNCHANGED <<result, events>>
         [] ev.type = "REG_STATE" /\ ev.connected ->
               /\ emitEvent(StateEvent("REGISTERED"))
               /\ GoTo("place")
               /\ UNCHANGED result
         [] OTHER -> RegistrationFails(ev.sip_code)
    /\ UNCHANGED <<dispatcher_wake, account, inv, hangingUp, media, player,
                   recorder, budget, cancel, audio, loopVars, timeVars, sd,
                   now>>

-----------------------------------------------------------------------------
(* Steps 3 and 4: the INVITE, and the wait for an answer with media.       *)

Place ==
    /\ At("place")
    /\ emitEvent(StateEvent("DIALING"))
    /\ placeCall
    /\ answer_deadline' = now + AnswerTimeout
    /\ GoTo("call")
    /\ UNCHANGED <<dispatcher_wake, account, hangingUp, media, player,
                   recorder, budget, cancel, audio, result, loopVars,
                   reg_start, call_connected, sd, now>>

PlaceThrows ==
    /\ At("place")
    /\ emitEvent(StateEvent("DIALING"))
    /\ Crash
    /\ UNCHANGED <<queue, dispatcher_wake, inv, hangingUp, media, player,
                   recorder, budget, cancel, audio, result, loopVars, timeVars,
                   sd, now>>

\* Nobody looks at the deadline (mutant).
TimedOutNever == answer_timeout_hit

\* Is the answer timeout hit, now or in an earlier iteration?
TimedOut == answer_timeout_hit \/ (~ answered /\ now >= answer_deadline)

\* The safety net: nothing final came back for our CANCEL.
NetTrips == TimedOut /\ now >= answer_deadline + CancelGrace

\* The timeout is noted but nobody hangs up (mutant).
answerTimeoutNoHangup ==
    /\ answer_timeout_hit' = TimedOut
    /\ UNCHANGED hangingUp

\* The timeout is noted and the leg hung up, once.
answerTimeout ==
    /\ answer_timeout_hit' = TimedOut
    /\ IF TimedOut /\ ~ answer_timeout_hit THEN hangup ELSE UNCHANGED hangingUp

CallTest ==
    /\ At("call")
    /\ answerTimeout
    /\ IF NetTrips
       THEN /\ emitEvent(MakeEvent("NO_ANSWER", FALSE, 0, 0, TRUE))
            /\ Return([result EXCEPT !.status = "NO_ANSWER"])
       ELSE /\ stage' = "enter"
            /\ UNCHANGED <<pc, result, events>>
    /\ UNCHANGED <<queue, dispatcher_wake, account, inv, media, player,
                   recorder, budget, cancel, audio, answered, media_active,
                   timeVars, sd, now>>

CallPoll ==
    /\ pc = "call"
    /\ WaitFails
    /\ GoTo("call")
    /\ UNCHANGED <<agentVars, cancel, audio, result, events, loopVars,
                   timeVars, sd, now>>

\* Early media alone is taken for an answer (mutant).
AfterCallEventMediaOnly(ans, active) == GoTo(IF active THEN "setup" ELSE "call")

\* Back to the loop, or out of it once answered and with media.
AfterCallEvent(ans, active) == GoTo(IF ans /\ active THEN "setup" ELSE "call")

CallRinging ==
    /\ IsCallState(ev, INV_STATE_EARLY)
    /\ emitEvent(StateEvent("RINGING"))
    /\ AfterCallEvent(answered, media_active)
    /\ UNCHANGED <<result, recorder, answered, media_active, call_connected>>

CallAnswered ==
    /\ IsCallState(ev, INV_STATE_CONFIRMED)
    /\ answered' = TRUE
    /\ result' = [result EXCEPT !.status = "ANSWERED"]
    /\ call_connected' = now
    /\ emitEvent(StateEvent("ANSWERED"))
    /\ AfterCallEvent(TRUE, media_active)
    /\ UNCHANGED <<recorder, media_active>>

CallRefused ==
    /\ IsCallState(ev, INV_STATE_DISCONNECTED)
    /\ handleDisconnect(IF answer_timeout_hit THEN 487 ELSE ev.sip_code)
    /\ GoTo("done")
    /\ UNCHANGED <<answered, media_active, call_connected>>

CallMedia ==
    /\ ev.type = "MEDIA_STATE"
    /\ media_active' = (media_active \/ ev.media_active)
    /\ AfterCallEvent(answered, media_active \/ ev.media_active)
    /\ UNCHANGED <<result, events, recorder, answered, call_connected>>

\* CALLING, CONNECTING, a late registration result.
CallOther ==
    /\ ev.type # "MEDIA_STATE"
    /\ ~ \E s \in {INV_STATE_EARLY, INV_STATE_CONFIRMED, INV_STATE_DISCONNECTED} :
            IsCallState(ev, s)
    /\ AfterCallEvent(answered, media_active)
    /\ UNCHANGED <<result, events, recorder, answered, media_active,
                   call_connected>>

CallEvent ==
    /\ pc = "call"
    /\ Receives
    /\ \/ CallRinging
       \/ CallAnswered
       \/ CallRefused
       \/ CallMedia
       \/ CallOther
    /\ UNCHANGED <<dispatcher_wake, account, inv, hangingUp, media, player,
                   budget, cancel, audio, answer_timeout_hit, reg_start,
                   answer_deadline, sd, now>>

-----------------------------------------------------------------------------
(* Step 5: recorder, answer delay, playback.                               *)

Setup ==
    /\ At("setup")
    /\ IF GaveUp
       THEN Return(result) /\ UNCHANGED recorder
       ELSE /\ startRecorder
            /\ result' = [result EXCEPT !.recording = TRUE]
            /\ GoTo("delay")
    /\ UNCHANGED <<queue, dispatcher_wake, account, inv, hangingUp, media,
                   player, budget, cancel, audio, events, loopVars, timeVars,
                   sd, now>>

SetupThrows ==
    /\ At("setup")
    /\ ~ GaveUp
    /\ Crash
    /\ UNCHANGED <<queue, dispatcher_wake, inv, hangingUp, media, player,
                   recorder, budget, cancel, audio, result, events, loopVars,
                   timeVars, sd, now>>

\* play_path: empty without a source or for a text that synth() cannot voice,
\* and createPlayer() throws on a path it cannot open.
Playable == audio.type \in {"wav", "text"} /\ audio.usable

\* The delay loop sleeps, without reading the queue, until the time is up.
DelayOver == At("delay") /\ now >= call_connected + AnswerDelay

Play ==
    /\ DelayOver
    /\ Playable
    /\ emitEvent(StateEvent("PLAYING"))
    /\ startPlayer
    /\ GoTo("eof")
    /\ UNCHANGED <<queue, dispatcher_wake, account, inv, hangingUp, media,
                   recorder, budget, cancel, audio, result, loopVars, timeVars,
                   sd, now>>

PlayThrows ==
    /\ DelayOver
    /\ ~ Playable
    /\ emitEvent(StateEvent("PLAYING"))
    /\ Crash
    /\ UNCHANGED <<queue, dispatcher_wake, inv, hangingUp, media, player,
                   recorder, budget, cancel, audio, result, loopVars, timeVars,
                   sd, now>>

-----------------------------------------------------------------------------
(* Step 6: playback, and the drain loop of the 600 s cap.                  *)

EofPoll ==
    /\ pc = "eof"
    /\ WaitFails
    /\ IF CapReached
       THEN hangup /\ GoTo("drain")
       ELSE GoTo("eof") /\ UNCHANGED hangingUp
    /\ UNCHANGED <<queue, dispatcher_wake, account, inv, media, player,
                   recorder, budget, cancel, audio, result, events, loopVars,
                   timeVars, sd, now>>

\* Everything but the end of the file is dropped (mutant).
EofEventDropsAll ==
    /\ pc = "eof"
    /\ Receives
    /\ IF ev.type = "PLAYBACK_EOF"
       THEN emitEvent(StateEvent("PLAYED")) /\ GoTo("arm")
       ELSE GoTo("eof") /\ UNCHANGED events
    /\ UNCHANGED <<dispatcher_wake, account, inv, hangingUp, media, player,
                   recorder, budget, cancel, audio, result, loopVars, timeVars,
                   sd, now>>

EofEvent ==
    /\ pc = "eof"
    /\ Receives
    /\ IF ev.type = "PLAYBACK_EOF"
       THEN emitEvent(StateEvent("PLAYED")) /\ GoTo("arm")
       ELSE /\ ~ IsCallState(ev, INV_STATE_DISCONNECTED)
            /\ GoTo("eof")
            /\ UNCHANGED events
    /\ UNCHANGED <<dispatcher_wake, account, inv, hangingUp, media, player,
                   recorder, budget, cancel, audio, result, loopVars, timeVars,
                   sd, now>>

\* The two loops that wait for the end of the leg, with no deadline: step 8
\* and the drain loop.
FinalLoops == {"drain", "bye"}

FinalPoll ==
    /\ pc \in FinalLoops
    /\ WaitFails
    /\ GoTo(pc)
    /\ UNCHANGED <<agentVars, cancel, audio, result, events, loopVars,
                   timeVars, sd, now>>

FinalEvent ==
    /\ pc \in FinalLoops
    /\ Receives
    /\ ~ IsCallState(ev, INV_STATE_DISCONNECTED)
    /\ GoTo(pc)
    /\ UNCHANGED <<dispatcher_wake, account, inv, hangingUp, media, player,
                   recorder, budget, cancel, audio, result, events, loopVars,
                   timeVars, sd, now>>

\* Any loop after the answer reads DISCONNECTED.
LegEnds ==
    /\ pc \in {"eof", "drain", "listen", "bye"}
    /\ Receives
    /\ IsCallState(ev, INV_STATE_DISCONNECTED)
    /\ handleDisconnect(ev.sip_code)
    /\ GoTo("done")
    /\ UNCHANGED <<dispatcher_wake, account, inv, hangingUp, media, player,
                   budget, cancel, audio, loopVars, timeVars, sd, now>>

-----------------------------------------------------------------------------
(* Steps 7 and 8: silence, hangup, the end of the leg.                     *)

Arm ==
    /\ At("arm")
    /\ IF GaveUp
       THEN Return(result) /\ UNCHANGED sd
       ELSE sd' = arm(NewDetector) /\ GoTo("listen") /\ UNCHANGED result
    /\ UNCHANGED <<agentVars, cancel, audio, events, loopVars, timeVars, now>>

\* One iteration after waitEvent: sample the level, then check the cap.
Sample(level) ==
    /\ sd' = feed(sd, Threshold, SilenceTimeout, level, now)
    /\ IF feedFires(sd, Threshold, SilenceTimeout, level, now) \/ CapReached
       THEN GoTo("hangup")
       ELSE GoTo("listen")

Listen ==
    /\ pc = "listen"
    /\ \/ WaitFails /\ UNCHANGED queue
       \/ Receives /\ ~ IsCallState(ev, INV_STATE_DISCONNECTED)
    /\ \E level \in RxLevels : Sample(level)
    /\ UNCHANGED <<dispatcher_wake, account, inv, hangingUp, media, player,
                   recorder, budget, cancel, audio, result, events, loopVars,
                   timeVars, now>>

HangUp ==
    /\ At("hangup")
    /\ events' = events \o
          <<MakeEvent("SILENCE_DETECTED", FALSE, SilenceTimeout \div Second, 0,
                      FALSE),
            StateEvent("HANGING_UP")>>
    /\ hangup
    /\ GoTo("bye")
    /\ UNCHANGED <<queue, dispatcher_wake, account, inv, media, player,
                   recorder, budget, cancel, audio, result, loopVars, timeVars,
                   sd, now>>

Executor ==
    \/ LoopTest \/ WaitEnter \/ TakeCancel
    \/ Start \/ StartThrows \/ RegPoll \/ RegEvent
    \/ Place \/ PlaceThrows \/ CallTest \/ CallPoll \/ CallEvent
    \/ Setup \/ SetupThrows \/ Play \/ PlayThrows
    \/ EofPoll \/ EofEvent \/ FinalPoll \/ FinalEvent \/ LegEnds
    \/ Arm \/ Listen \/ HangUp

-----------------------------------------------------------------------------
(* The other threads, the clock, the destructor.                           *)

\* cancel() from the RPC thread: first the flag, then the wake-up.
CancelSet ==
    /\ cancel = "idle"
    /\ pc \notin {"destroyed", "crashed"}
    /\ cancel' = "set"
    /\ UNCHANGED <<agentVars, execVars, now>>

CancelWake ==
    /\ cancel = "set"
    /\ pc \notin {"destroyed", "crashed"}
    /\ cancel' = "done"
    /\ wakeDispatcher
    /\ UNCHANGED <<queue, account, inv, hangingUp, media, player, recorder,
                   budget, execVars, now>>

\* A deadline the executor is waiting for.
DeadlinePending ==
    \/ pc = "reg" /\ now < reg_start + RegTimeout
    \/ pc = "call" /\ ~ answered /\ now < answer_deadline
    \/ pc = "call" /\ answer_timeout_hit /\ now < answer_deadline + CancelGrace
    \/ pc = "delay" /\ now < call_connected + AnswerDelay
    \/ pc \in {"eof", "listen"} /\ ~ CapReached

Tick ==
    /\ pc \notin Ended
    /\ now < MaxTime \/ DeadlinePending
    /\ now' = now + 1
    /\ UNCHANGED <<agentVars, execVars, cancel>>

\* ~CallExecutor, after run() and a cancel() under way have returned.
Destroy ==
    /\ pc = "done"
    /\ cancel # "set"
    /\ SipDestroy
    /\ pc' = "destroyed"
    /\ UNCHANGED <<stage, cancel, audio, result, events, loopVars, timeVars,
                   sd, now>>

\* The object is gone, or the process is.
Terminated == pc \in {"destroyed", "crashed"} /\ UNCHANGED vars

WorkerThread == Callback /\ UNCHANGED <<execVars, cancel, now>>

Next ==
    \/ Executor \/ WorkerThread
    \/ CancelSet \/ CancelWake
    \/ Tick \/ Destroy \/ Terminated

Spec == Init /\ [][Next]_vars

\* The executor's thread and the thread inside cancel() keep running.
FairSpec == Spec /\ WF_vars(Executor) /\ WF_vars(CancelWake)

\* A leg that was hung up ends: PJSIP's transactions time out.
HungUpLegEnds == hangingUp /\ Disconnected /\ UNCHANGED <<execVars, cancel, now>>

\* And time goes on.
WorldGoesOn == WF_vars(Tick) /\ WF_vars(HungUpLegEnds)

-----------------------------------------------------------------------------
(* Properties.                                                             *)

Returned == pc \in {"done", "destroyed"}

Emitted(i) == events[i].status

\* The stream has at most one result event, it is the last event, and run()
\* returns right after it: no path of run() goes on after a result.
OneResult ==
    \A i \in DOMAIN events :
        result_event(events[i]) => i = Len(events) /\ Returned

\* What run() returns (and the exit code shows) is what the stream's result
\* said; only a cancelled run returns without having emitted a result.
ReturnMatchesStream ==
    Returned =>
        IF result.status = "CANCELLED"
        THEN \A i \in DOMAIN events : ~ result_event(events[i])
        ELSE /\ events # <<>>
             /\ LET last == events[Len(events)]
                IN  /\ result_event(last)
                    /\ last.status = result.status
                    /\ last.sip_code = result.sip_code
                    /\ last.billing_seconds = result.billing_seconds
                    /\ last.recording = result.recording
             /\ statusToExitCode(result.status) # 1

\* A result ANSWERED, a bill or a recording needs an ANSWERED state event
\* earlier in the stream: a 200 read off an ending leg is not an answer.
AnsweredEarned ==
    \A i \in DOMAIN events :
        \/ events[i].is_result /\ Emitted(i) = "ANSWERED"
        \/ events[i].billing_seconds > 0 /\ Emitted(i) # "SILENCE_DETECTED"
        \/ events[i].recording
        => \E j \in 1 .. (i - 1) :
              Emitted(j) = "ANSWERED" /\ ~ events[j].is_result

\* What the worker thread reports is not lost on the way: while run() is under
\* way, the end of the leg is still in the queue (no loop drops it), and so is
\* the end of the playback as long as run() waits for it.
NothingDropped ==
    /\ inv = INV_STATE_DISCONNECTED /\ pc \notin Ended =>
          \E i \in DOMAIN queue : IsCallState(queue[i], INV_STATE_DISCONNECTED)
    /\ player = "ended" /\ pc = "eof" =>
          \E i \in DOMAIN queue : queue[i].type = "PLAYBACK_EOF"

\* When run() returns with the leg alive, it has asked for the leg's end.  The
\* one exception is a cancellation between PLAYED and HANGING_UP, which leaves
\* the leg to the destructor.
LegOwned ==
    pc = "done" /\ LegAlive /\ ~ hangingUp =>
        result.status = "CANCELLED" /\ Emitted(Len(events)) = "PLAYED"

\* Past step 4 the call is answered, billed from the answer on, and its
\* provisional status is ANSWERED: the status checks after steps 4 and 6 never
\* fire, and no audio is played or recorded into an unanswered call.
AnsweredInside ==
    pc \in {"setup", "delay", "eof", "drain", "arm", "listen", "hangup", "bye"} =>
        /\ answered /\ media_active
        /\ call_connected > 0
        /\ ~ GaveUp

\* A recording is announced only when its file is closed, right before the
\* result; a run that returns without announcing it was cancelled.
RecordingComplete ==
    /\ \A i \in DOMAIN events :
          Emitted(i) = "RECORDING_READY" =>
              recorder # "open" /\ i + 1 = Len(events)
    /\ pc = "done" /\ recorder = "open" => result.status = "CANCELLED"

\* A cancelled run comes to its end whatever the callee does, even when the
\* wake-up is lost: waitEvent clears the flag on entry, so a cancel() between
\* the loop's test and waitEvent is only noticed after the 500 ms timeout.
CancelEnds == Cancelled ~> pc \in Ended

\* Step 4 has no deadline for an answered call that gets no audio.
Parked ==
    /\ pc = "call"
    /\ inv = INV_STATE_CONFIRMED
    /\ ~ answer_timeout_hit
    /\ ~ media_active

\* If time goes on and hung up legs end, every run ends, unless the callee
\* answers, never has audio and never hangs up: registration, ringing, playback
\* and listening all have deadlines.
RunEnds == WorldGoesOn => <>(pc \in Ended) \/ <>[]Parked

-----------------------------------------------------------------------------
(* The client's view.                                                      *)

outcome ==
    CASE pc = "crashed" -> "crashed"
      [] Returned       -> IF result.status = "CANCELLED" THEN "cancelled"
                                                          ELSE "result"
      [] OTHER          -> "open"

\* An event as the contract sees it.
Seen(e) == [status |-> e.status, final |-> result_event(e)]

Stream ==
    INSTANCE CallStream
        WITH stream <- [i \in DOMAIN events |-> Seen(events[i])],
             asked <- Cancelled,
             outcome <- outcome

\* run() implements the contract of the event stream: the events come in the
\* order of CallStream, none comes after a result, a cancellation or a crash,
\* a result closes the run, and a run is cancelled only if it was asked to be.
ImplementsStream == Stream!Spec

=============================================================================
