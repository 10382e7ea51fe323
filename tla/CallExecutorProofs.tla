------------------------- MODULE CallExecutorProofs -------------------------
(***************************************************************************)
(* Safety of run() for every value of the constants: any timeouts, any     *)
(* status codes, any number of callbacks.                                  *)
(***************************************************************************)
EXTENDS CallExecutor, TLAPS

-----------------------------------------------------------------------------
(* The values that the operators build have their types.                   *)

\* What MakeEvent builds from typed arguments is an event for the sink.
LEMMA MakeEventType ==
    ASSUME NEW s \in CallStatus, NEW r \in BOOLEAN, NEW b \in Nat, NEW c \in Nat,
           NEW f \in BOOLEAN
    PROVE  MakeEvent(s, r, b, c, f) \in AgentEvent
BY DEF MakeEvent, AgentEvent

\* So is an event that announces a status.
LEMMA StateEventType ==
    ASSUME NEW s \in CallStatus
    PROVE  StateEvent(s) \in AgentEvent
BY MakeEventType DEF StateEvent

\* The statuses that run() names are statuses.
LEMMA Statuses ==
    {"REGISTERING", "REGISTERED", "DIALING", "RINGING", "ANSWERED", "PLAYING",
     "PLAYED", "SILENCE_DETECTED", "RECORDING_READY", "HANGING_UP", "FAILED",
     "NO_ANSWER", "CANCELLED", "BUSY"} \subseteq CallStatus
BY DEF CallStatus, AlwaysResult

\* The events of the PJSIP callbacks are internal events.
LEMMA InternalEventTypes ==
    /\ \A code \in Nat : RegStateEvent(code) \in InternalEvent
    /\ \A state \in InvState, code \in Nat :
          CallStateEvent(state, code) \in InternalEvent
    /\ \A active \in BOOLEAN : MediaStateEvent(active) \in InternalEvent
    /\ PlaybackEofEvent \in InternalEvent
<1>0. \A t \in {"REG_STATE", "CALL_STATE", "MEDIA_STATE", "PLAYBACK_EOF"} :
         DefaultEvent(t) \in InternalEvent
  BY DEF DefaultEvent, InternalEvent, InvState
<1>1. ASSUME NEW code \in Nat PROVE RegStateEvent(code) \in InternalEvent
  <2>1. (code \in 200..299) \in BOOLEAN
    OBVIOUS
  <2>2. DefaultEvent("REG_STATE") \in InternalEvent
    BY <1>0
  <2>3. ASSUME NEW b \in BOOLEAN
        PROVE  [DefaultEvent("REG_STATE") EXCEPT !.connected = b, !.sip_code = code]
                  \in InternalEvent
    BY <2>2 DEF InternalEvent
  <2> QED
    BY <2>1, <2>3 DEF RegStateEvent
<1>2. ASSUME NEW state \in InvState, NEW code \in Nat
      PROVE  CallStateEvent(state, code) \in InternalEvent
  BY <1>0 DEF CallStateEvent, InternalEvent
<1>3. ASSUME NEW active \in BOOLEAN PROVE MediaStateEvent(active) \in InternalEvent
  BY <1>0 DEF MediaStateEvent, InternalEvent
<1>4. PlaybackEofEvent \in InternalEvent
  BY <1>0 DEF PlaybackEofEvent
<1> QED
  BY <1>1, <1>2, <1>3, <1>4

\* The six states of a leg are states.
LEMMA InvStates ==
    {INV_STATE_NULL, INV_STATE_CALLING, INV_STATE_EARLY, INV_STATE_CONNECTING,
     INV_STATE_CONFIRMED, INV_STATE_DISCONNECTED} \subseteq InvState
BY DEF InvState

\* Appending to, joining and shortening sequences.
LEMMA SeqFacts ==
    ASSUME NEW S, NEW s \in Seq(S)
    PROVE  /\ \A x \in S : Append(s, x) \in Seq(S)
           /\ \A x \in S : s \o <<x>> \in Seq(S)
           /\ \A x, y \in S : s \o <<x, y>> \in Seq(S)
           /\ s # <<>> => Tail(s) \in Seq(S) /\ Head(s) \in S
<1>1. \A x \in S : Append(s, x) \in Seq(S)
  OBVIOUS
<1>2. ASSUME NEW x \in S PROVE s \o <<x>> \in Seq(S)
  OBVIOUS
<1>3. ASSUME NEW x \in S, NEW y \in S PROVE s \o <<x, y>> \in Seq(S)
  <2>1. <<x, y>> \in Seq(S)
    OBVIOUS
  <2> QED
    BY <2>1
<1>4. s # <<>> => Tail(s) \in Seq(S) /\ Head(s) \in S
  OBVIOUS
<1> QED
  BY <1>1, <1>2, <1>3, <1>4

\* Updating the fields of a result keeps it one.
LEMMA ResultUpdates ==
    ASSUME NEW r \in Result
    PROVE  /\ \A s \in CallStatus : [r EXCEPT !.status = s] \in Result
           /\ \A s \in CallStatus, c \in Nat :
                 [r EXCEPT !.status = s, !.sip_code = c] \in Result
           /\ \A s \in CallStatus, c \in Nat, b \in Nat :
                 [r EXCEPT !.status = s, !.sip_code = c, !.billing_seconds = b]
                    \in Result
           /\ [r EXCEPT !.recording = TRUE] \in Result
<1>1. \A s \in CallStatus : [r EXCEPT !.status = s] \in Result
  BY DEF Result
<1>2. \A s \in CallStatus, c \in Nat :
         [r EXCEPT !.status = s, !.sip_code = c] \in Result
  BY DEF Result
<1>3. \A s \in CallStatus, c \in Nat, b \in Nat :
         [r EXCEPT !.status = s, !.sip_code = c, !.billing_seconds = b] \in Result
  BY DEF Result
<1>4. [r EXCEPT !.recording = TRUE] \in Result
  BY DEF Result
<1> QED
  BY <1>1, <1>2, <1>3, <1>4

\* The disconnect mapping gives a status for every code.
LEMMA MappingType ==
    \A code : sipCodeToCallStatus(code) \in CallStatus
BY Statuses DEF sipCodeToCallStatus

\* feed() and arm() give a detector.
LEMMA DetectorType ==
    ASSUME NEW d \in Detector, NEW th \in Nat, NEW to \in Nat, NEW level \in Nat,
           NEW t \in Nat
    PROVE  feed(d, th, to, level, t) \in Detector /\ arm(d) \in Detector
<1>1. NewDetector \in Detector /\ arm(d) \in Detector
  BY DEF NewDetector, arm, Detector
<1>2. \A b \in BOOLEAN, n \in Nat :
         [d EXCEPT !.started = b, !.silence_start = n] \in Detector
  BY DEF Detector
<1>3. QuietSince(d, t) \in Nat
  BY DEF QuietSince, Detector
<1>4. [d EXCEPT !.started = TRUE, !.silence_start = QuietSince(d, t)] \in Detector
  BY <1>2, <1>3
<1>5. [d EXCEPT !.started = FALSE, !.silence_start = 0] \in Detector
  BY <1>2
<1> QED
  BY <1>1, <1>4, <1>5 DEF feed

-----------------------------------------------------------------------------
(* Type correctness.                                                       *)

\* Whole seconds in a natural number of ticks.
LEMMA DivNat ==
    ASSUME NEW d \in Nat, d > 0, NEW x \in Nat
    PROVE  x \div d \in Nat
<1>1. x \div d \in Int
  OBVIOUS
<1>2. x \div d >= 0
  BY SMTT(20)
<1> QED
  BY <1>1, <1>2

\* A bill is a natural number: the answer does not lie in the future.
LEMMA BillingType == TypeOK => Billing \in Nat
<1> SUFFICES ASSUME TypeOK PROVE Billing \in Nat
  OBVIOUS
<1>1. now \in Nat /\ call_connected \in Nat /\ call_connected <= now
  BY DEF TypeOK, ExecTypeOK
<1>2. Second \in Nat /\ Second > 0
  BY TimeAssumption DEF TimeAssumption
<1>3. now - call_connected + Second - 1 \in Nat
  BY <1>1, <1>2
<1>4. (now - call_connected + Second - 1) \div Second \in Nat
  BY <1>2, <1>3, DivNat
<1> QED
  BY <1>4 DEF Billing

\* What the executor reads off the queue is an internal event.
LEMMA ReceivesType ==
    ASSUME TypeOK, Receives
    PROVE  queue' \in Seq(InternalEvent) /\ ev \in InternalEvent
BY SeqFacts DEF TypeOK, SipTypeOK, Receives, ev

\* The stores of handleDisconnect keep their types.
LEMMA DisconnectType ==
    ASSUME TypeOK, NEW code \in Nat, handleDisconnect(code)
    PROVE  /\ result' \in Result
           /\ events' \in Seq(AgentEvent)
           /\ recorder' \in {"none", "open", "closed"}
<1> DEFINE ready == MakeEvent("RECORDING_READY", TRUE, Billing, 0, FALSE)
           final == MakeEvent(DisconnectStatus(code), result.recording, Billing,
                              code, TRUE)
<1>1. /\ result \in Result /\ events \in Seq(AgentEvent)
      /\ recorder \in {"none", "open", "closed"}
  BY DEF TypeOK, ExecTypeOK, SipTypeOK
<1>2. Billing \in Nat
  BY BillingType
<1>3. DisconnectStatus(code) \in CallStatus
  BY MappingType, Statuses DEF DisconnectStatus
<1>4. result.recording \in BOOLEAN
  BY <1>1 DEF Result
<1>5. ready \in AgentEvent
  <2>1. "RECORDING_READY" \in CallStatus /\ TRUE \in BOOLEAN /\ FALSE \in BOOLEAN
        /\ 0 \in Nat
    BY Statuses
  <2> QED
    BY <2>1, <1>2, MakeEventType
<1>6. final \in AgentEvent
  <2>1. TRUE \in BOOLEAN
    OBVIOUS
  <2> QED
    BY <2>1, <1>2, <1>3, <1>4, MakeEventType
<1>7. result' \in Result
  BY <1>1, <1>2, <1>3, ResultUpdates DEF handleDisconnect
<1>8. events' = events \o <<ready, final>> \/ events' = events \o <<final>>
  BY DEF handleDisconnect
<1>9. events' \in Seq(AgentEvent)
  BY <1>1, <1>5, <1>6, <1>8, SeqFacts
<1>10. recorder' \in {"none", "open", "closed"}
  BY <1>1 DEF handleDisconnect, stopRecorder
<1> QED
  BY <1>7, <1>9, <1>10

\* A callback leaves every variable in its type.
LEMMA CallbackType == TypeOK /\ WorkerThread => TypeOK'
<1> SUFFICES ASSUME TypeOK, WorkerThread PROVE TypeOK'
  OBVIOUS
<1>0. /\ UNCHANGED <<execVars, cancel, now>>
      /\ SipTypeOK /\ ExecTypeOK
  BY DEF WorkerThread, TypeOK
<1>1. ExecTypeOK'
  BY <1>0 DEF ExecTypeOK, execVars, loopVars, timeVars
<1>2. /\ queue \in Seq(InternalEvent)
      /\ budget \in [reg : Nat, early : Nat, media : Nat]
      /\ inv \in InvState
  BY <1>0 DEF SipTypeOK
<1>3. ASSUME onCallState(INV_STATE_EARLY, 180) \/ onCallState(INV_STATE_CONNECTING, 200)
             \/ onCallState(INV_STATE_CONFIRMED, 200)
             \/ \E code \in DisconnectCodes : onCallState(INV_STATE_DISCONNECTED, code),
             media' \in BOOLEAN,
             budget' \in [reg : Nat, early : Nat, media : Nat]
      PROVE  SipTypeOK'
  <2>1. DisconnectCodes \subseteq Nat
    BY SipAssumption DEF DisconnectCodes, SipAssumption
  <2>2. PICK state \in InvState, code \in Nat : onCallState(state, code)
    BY <1>3, <2>1, InvStates
  <2>3. queue' \in Seq(InternalEvent)
    BY <2>2, <1>2, InternalEventTypes, SeqFacts DEF onCallState, pushEvent
  <2> QED
    BY <2>2, <2>3, <1>0, <1>3 DEF onCallState, SipTypeOK
<1>4. CASE onRegState
  <2>1. \A code \in RegCodes : code \in Nat
    BY SipAssumption DEF SipAssumption
  <2>2. queue' \in Seq(InternalEvent)
    BY <1>4, <2>1, <1>2, InternalEventTypes, SeqFacts DEF onRegState, pushEvent
  <2>3. budget' \in [reg : Nat, early : Nat, media : Nat]
    BY <1>4, <1>2 DEF onRegState
  <2> QED
    BY <1>0, <1>1, <1>4, <2>2, <2>3 DEF onRegState, TypeOK, SipTypeOK
<1>5. CASE Ringing
  <2>1. budget' \in [reg : Nat, early : Nat, media : Nat]
    BY <1>5, <1>2 DEF Ringing
  <2>2. media' \in BOOLEAN
    BY <1>5, <1>0 DEF Ringing, SipTypeOK
  <2> QED
    BY <1>1, <1>3, <1>5, <2>1, <2>2 DEF Ringing, TypeOK
<1>6. CASE PickedUp
  <2>2. media' \in BOOLEAN /\ budget' = budget
    BY <1>6, <1>0 DEF PickedUp, SipTypeOK
  <2> QED
    BY <1>1, <1>2, <1>3, <1>6, <2>2 DEF PickedUp, TypeOK
<1>7. CASE Confirmed
  <2>2. media' \in BOOLEAN /\ budget' = budget
    BY <1>7, <1>0 DEF Confirmed, SipTypeOK
  <2> QED
    BY <1>1, <1>2, <1>3, <1>7, <2>2 DEF Confirmed, TypeOK
<1>8. CASE Disconnected
  <2>2. media' \in BOOLEAN /\ budget' = budget
    BY <1>8 DEF Disconnected
  <2> QED
    BY <1>1, <1>2, <1>3, <1>8, <2>2 DEF Disconnected, TypeOK
<1>9. CASE onCallMediaState
  <2>1. PICK active \in BOOLEAN :
           media' = active /\ queue' = Append(queue, MediaStateEvent(active))
    BY <1>9 DEF onCallMediaState, pushEvent
  <2>2. queue' \in Seq(InternalEvent)
    BY <2>1, <1>2, InternalEventTypes, SeqFacts
  <2>3. budget' \in [reg : Nat, early : Nat, media : Nat]
    BY <1>9, <1>2 DEF onCallMediaState
  <2>4. media' \in BOOLEAN
    BY <2>1
  <2> QED
    BY <1>0, <1>1, <1>9, <2>2, <2>3, <2>4 DEF onCallMediaState, TypeOK, SipTypeOK
<1>10. CASE onEof2
  <2>1. queue' \in Seq(InternalEvent)
    BY <1>10, <1>2, InternalEventTypes, SeqFacts DEF onEof2, pushEvent
  <2> QED
    BY <1>0, <1>1, <1>10, <2>1 DEF onEof2, TypeOK, SipTypeOK
<1> QED
  BY <1>4, <1>5, <1>6, <1>7, <1>8, <1>9, <1>10 DEF WorkerThread, Callback

\* Emitting an event that announces one of run()'s statuses.
LEMMA EmitType ==
    ASSUME TypeOK, NEW s \in CallStatus, emitEvent(StateEvent(s))
    PROVE  events' \in Seq(AgentEvent)
BY StateEventType, SeqFacts DEF TypeOK, ExecTypeOK, emitEvent

\* The statements run() may jump to.
LEMMA Statements ==
    {"reg", "place", "call", "setup", "delay", "eof", "drain", "arm", "listen",
     "hangup", "bye", "done", "destroyed", "crashed"} \subseteq PC
BY DEF PC, Loops, Ended

\* Steps 1 to 3 and the loops leave every variable in its type.
LEMMA LoopType ==
    TypeOK /\ (LoopTest \/ WaitEnter \/ TakeCancel \/ Start \/ StartThrows
               \/ RegPoll \/ RegEvent \/ Place \/ PlaceThrows) => TypeOK'
<1> SUFFICES ASSUME TypeOK,
                    LoopTest \/ WaitEnter \/ TakeCancel \/ Start \/ StartThrows
                    \/ RegPoll \/ RegEvent \/ Place \/ PlaceThrows
             PROVE  TypeOK'
  OBVIOUS
<1> USE Statements, Statuses DEF GoTo
<1>0. /\ SipTypeOK /\ ExecTypeOK
      /\ result \in Result /\ events \in Seq(AgentEvent)
      /\ queue \in Seq(InternalEvent)
  BY DEF TypeOK, SipTypeOK, ExecTypeOK
<1>f. ASSUME NEW code \in Nat, RegistrationFails(code)
      PROVE  /\ result' \in Result /\ events' \in Seq(AgentEvent)
             /\ pc' = "done" /\ stage' = "head"
  <2>1. MakeEvent("FAILED", FALSE, 0, code, FALSE) \in AgentEvent
    <3>1. "FAILED" \in CallStatus /\ FALSE \in BOOLEAN /\ 0 \in Nat
      OBVIOUS
    <3> QED
      BY <3>1, MakeEventType
  <2>2. events' \in Seq(AgentEvent)
    BY <1>f, <1>0, <2>1, SeqFacts DEF RegistrationFails, emitEvent
  <2>3. result' \in Result
    BY <1>f, <1>0, ResultUpdates DEF RegistrationFails, Return
  <2> QED
    BY <1>f, <2>2, <2>3 DEF RegistrationFails, Return
<1>1. CASE LoopTest
  BY <1>0, <1>1 DEF LoopTest, TypeOK, SipTypeOK, ExecTypeOK, agentVars, loopVars,
                    timeVars
<1>2. CASE WaitEnter
  <2>1. dispatcher_wake' \in BOOLEAN
    BY <1>2 DEF WaitEnter, waitEventEnter
  <2> QED
    BY <1>0, <1>2, <2>1 DEF WaitEnter, TypeOK, SipTypeOK, ExecTypeOK, loopVars,
                            timeVars
<1>3. CASE TakeCancel
  <2>1. result' \in Result /\ pc' = "done" /\ stage' = "head"
    BY <1>0, <1>3, ResultUpdates DEF TakeCancel, Return
  <2>2. hangingUp' \in BOOLEAN
    BY <1>0, <1>3 DEF TakeCancel, hangup, SipTypeOK
  <2> QED
    BY <1>0, <1>3, <2>1, <2>2
       DEF TakeCancel, TypeOK, SipTypeOK, ExecTypeOK, loopVars, timeVars
<1>4. CASE Start
  <2>1. events' \in Seq(AgentEvent)
    BY <1>4, EmitType DEF Start
  <2> QED
    BY <1>0, <1>4, <2>1 DEF Start, TypeOK, SipTypeOK, ExecTypeOK, loopVars
<1>5. CASE StartThrows
  BY <1>0, <1>5 DEF StartThrows, Crash, TypeOK, SipTypeOK, ExecTypeOK, loopVars,
                    timeVars
<1>6. CASE RegPoll
  <2>1. /\ result' \in Result /\ events' \in Seq(AgentEvent)
        /\ pc' \in PC /\ stage' = "head"
    BY <1>0, <1>6, <1>f DEF RegPoll
  <2> QED
    BY <1>0, <1>6, <2>1 DEF RegPoll, TypeOK, SipTypeOK, ExecTypeOK, agentVars,
                            loopVars, timeVars
<1>7. CASE RegEvent
  <2>1. queue' \in Seq(InternalEvent) /\ ev \in InternalEvent
    BY <1>7, ReceivesType DEF RegEvent
  <2>2. ev.sip_code \in Nat
    BY <2>1 DEF InternalEvent
  <2>3. /\ result' \in Result /\ events' \in Seq(AgentEvent)
        /\ pc' \in PC /\ stage' = "head"
    <3>1. \/ GoTo("reg") /\ UNCHANGED <<result, events>>
          \/ /\ emitEvent(StateEvent("REGISTERED"))
             /\ GoTo("place")
             /\ UNCHANGED result
          \/ RegistrationFails(ev.sip_code)
      BY <1>7 DEF RegEvent
    <3> QED
      BY <3>1, <1>0, <1>f, <2>2, EmitType
  <2> QED
    BY <1>0, <1>7, <2>1, <2>3 DEF RegEvent, TypeOK, SipTypeOK, ExecTypeOK,
                                  loopVars, timeVars
<1>8. CASE Place
  <2>1. events' \in Seq(AgentEvent)
    BY <1>8, EmitType DEF Place
  <2>2. queue' \in Seq(InternalEvent) /\ inv' \in InvState
    BY <1>8, <1>0, InternalEventTypes, InvStates, SeqFacts
       DEF Place, placeCall, pushEvent
  <2>3. answer_deadline' \in Nat
    BY <1>8, <1>0, TimeAssumption DEF Place, TimeAssumption, ExecTypeOK
  <2> QED
    BY <1>0, <1>8, <2>1, <2>2, <2>3 DEF Place, TypeOK, SipTypeOK, ExecTypeOK,
                                        loopVars
<1>9. CASE PlaceThrows
  <2>1. events' \in Seq(AgentEvent)
    BY <1>9, EmitType DEF PlaceThrows
  <2> QED
    BY <1>0, <1>9, <2>1 DEF PlaceThrows, Crash, TypeOK, SipTypeOK, ExecTypeOK,
                            loopVars, timeVars
<1> QED
  BY <1>1, <1>2, <1>3, <1>4, <1>5, <1>6, <1>7, <1>8, <1>9

\* The wait for an answer leaves every variable in its type.
LEMMA CallPhaseType ==
    TypeOK /\ (CallTest \/ CallPoll \/ CallEvent) => TypeOK'
<1> SUFFICES ASSUME TypeOK, CallTest \/ CallPoll \/ CallEvent PROVE TypeOK'
  OBVIOUS
<1> USE Statements, Statuses DEF GoTo
<1>0. /\ SipTypeOK /\ ExecTypeOK
      /\ result \in Result /\ events \in Seq(AgentEvent)
      /\ queue \in Seq(InternalEvent)
      /\ recorder \in {"none", "open", "closed"}
      /\ answered \in BOOLEAN /\ media_active \in BOOLEAN
      /\ call_connected \in Nat /\ now \in Nat /\ call_connected <= now
  BY DEF TypeOK, SipTypeOK, ExecTypeOK
<1>1. CASE CallTest
  <2>1. answer_timeout_hit' \in BOOLEAN
    BY <1>0, <1>1 DEF CallTest, answerTimeout, TimedOut, ExecTypeOK
  <2>2. hangingUp' \in BOOLEAN
    BY <1>0, <1>1 DEF CallTest, answerTimeout, hangup, SipTypeOK
  <2>3. /\ result' \in Result /\ events' \in Seq(AgentEvent)
        /\ pc' \in PC /\ stage' \in {"head", "enter", "blocked"}
    <3>1. CASE NetTrips
      <4>1. MakeEvent("NO_ANSWER", FALSE, 0, 0, TRUE) \in AgentEvent
        <5>1. "NO_ANSWER" \in CallStatus /\ FALSE \in BOOLEAN /\ 0 \in Nat
              /\ TRUE \in BOOLEAN
          OBVIOUS
        <5> QED
          BY <5>1, MakeEventType
      <4>2. events' \in Seq(AgentEvent)
        BY <1>0, <1>1, <3>1, <4>1, SeqFacts DEF CallTest, emitEvent
      <4>3. result' \in Result
        BY <1>0, <1>1, <3>1, ResultUpdates DEF CallTest, Return
      <4> QED
        BY <1>1, <3>1, <4>2, <4>3 DEF CallTest, Return
    <3>2. CASE ~ NetTrips
      BY <1>0, <1>1, <3>2 DEF CallTest, ExecTypeOK
    <3> QED
      BY <3>1, <3>2
  <2> QED
    BY <1>0, <1>1, <2>1, <2>2, <2>3 DEF CallTest, TypeOK, SipTypeOK, ExecTypeOK,
                                        timeVars
<1>2. CASE CallPoll
  BY <1>0, <1>2 DEF CallPoll, TypeOK, SipTypeOK, ExecTypeOK, agentVars, loopVars,
                    timeVars
<1>3. CASE CallEvent
  <2>1. queue' \in Seq(InternalEvent) /\ ev \in InternalEvent
    BY <1>3, ReceivesType DEF CallEvent
  <2>2. ev.sip_code \in Nat /\ ev.media_active \in BOOLEAN
    BY <2>1 DEF InternalEvent
  <2>3. /\ result' \in Result /\ events' \in Seq(AgentEvent)
        /\ recorder' \in {"none", "open", "closed"}
        /\ pc' \in PC /\ stage' = "head"
        /\ answered' \in BOOLEAN /\ media_active' \in BOOLEAN
        /\ call_connected' \in Nat /\ call_connected' <= now
    <3>1. CASE CallRinging
      <4>1. events' \in Seq(AgentEvent)
        BY <3>1, EmitType DEF CallRinging
      <4> QED
        BY <1>0, <3>1, <4>1 DEF CallRinging, AfterCallEvent
    <3>2. CASE CallAnswered
      <4>1. events' \in Seq(AgentEvent)
        BY <3>2, EmitType DEF CallAnswered
      <4>2. result' \in Result
        BY <1>0, <3>2, ResultUpdates DEF CallAnswered
      <4> QED
        BY <1>0, <3>2, <4>1, <4>2 DEF CallAnswered, AfterCallEvent
    <3>3. CASE CallRefused
      <4>1. PICK code \in Nat : handleDisconnect(code)
        BY <3>3, <2>2 DEF CallRefused
      <4>2. /\ result' \in Result /\ events' \in Seq(AgentEvent)
            /\ recorder' \in {"none", "open", "closed"}
        BY <4>1, DisconnectType
      <4> QED
        BY <1>0, <3>3, <4>2 DEF CallRefused
    <3>4. CASE CallMedia
      <4>1. media_active' \in BOOLEAN
        BY <1>0, <2>2, <3>4 DEF CallMedia
      <4> QED
        BY <1>0, <3>4, <4>1 DEF CallMedia, AfterCallEvent
    <3>5. CASE CallOther
      BY <1>0, <3>5 DEF CallOther, AfterCallEvent
    <3> QED
      BY <1>3, <3>1, <3>2, <3>3, <3>4, <3>5 DEF CallEvent
  <2> QED
    BY <1>0, <1>3, <2>1, <2>3 DEF CallEvent, TypeOK, SipTypeOK, ExecTypeOK
<1> QED
  BY <1>1, <1>2, <1>3

\* Steps 5 to 8 leave every variable in its type.
LEMMA AnsweredPhasesType ==
    TypeOK /\ (Setup \/ SetupThrows \/ Play \/ PlayThrows \/ EofPoll \/ EofEvent
               \/ FinalPoll \/ FinalEvent \/ LegEnds \/ Arm \/ Listen \/ HangUp)
        => TypeOK'
<1> SUFFICES ASSUME TypeOK,
                    Setup \/ SetupThrows \/ Play \/ PlayThrows \/ EofPoll
                    \/ EofEvent \/ FinalPoll \/ FinalEvent \/ LegEnds \/ Arm
                    \/ Listen \/ HangUp
             PROVE  TypeOK'
  OBVIOUS
<1> USE Statements, Statuses DEF GoTo
<1>0. /\ SipTypeOK /\ ExecTypeOK
      /\ result \in Result /\ events \in Seq(AgentEvent)
      /\ queue \in Seq(InternalEvent)
      /\ sd \in Detector /\ now \in Nat
  BY DEF TypeOK, SipTypeOK, ExecTypeOK
<1>1. CASE Setup
  <2>1. result' \in Result /\ pc' \in PC /\ stage' = "head"
    BY <1>0, <1>1, ResultUpdates DEF Setup, Return
  <2>2. recorder' \in {"none", "open", "closed"}
    BY <1>0, <1>1 DEF Setup, startRecorder, SipTypeOK
  <2> QED
    BY <1>0, <1>1, <2>1, <2>2 DEF Setup, TypeOK, SipTypeOK, ExecTypeOK, loopVars,
                                  timeVars
<1>2. CASE SetupThrows
  BY <1>0, <1>2 DEF SetupThrows, Crash, TypeOK, SipTypeOK, ExecTypeOK, loopVars,
                    timeVars
<1>3. CASE Play
  <2>1. events' \in Seq(AgentEvent)
    BY <1>3, EmitType DEF Play
  <2>2. player' \in {"none", "idle", "playing", "ended"}
    BY <1>3 DEF Play, startPlayer
  <2> QED
    BY <1>0, <1>3, <2>1, <2>2 DEF Play, TypeOK, SipTypeOK, ExecTypeOK, loopVars,
                                  timeVars
<1>4. CASE PlayThrows
  <2>1. events' \in Seq(AgentEvent)
    BY <1>4, EmitType DEF PlayThrows
  <2> QED
    BY <1>0, <1>4, <2>1 DEF PlayThrows, Crash, TypeOK, SipTypeOK, ExecTypeOK,
                            loopVars, timeVars
<1>5. CASE EofPoll
  <2>1. hangingUp' \in BOOLEAN
    BY <1>0, <1>5 DEF EofPoll, hangup, SipTypeOK
  <2>2. pc' \in PC /\ stage' = "head"
    BY <1>5 DEF EofPoll
  <2> QED
    BY <1>0, <1>5, <2>1, <2>2 DEF EofPoll, TypeOK, SipTypeOK, ExecTypeOK,
                                  loopVars, timeVars
<1>6. CASE EofEvent
  <2>1. queue' \in Seq(InternalEvent)
    BY <1>6, ReceivesType DEF EofEvent
  <2>2. events' \in Seq(AgentEvent) /\ pc' \in PC /\ stage' = "head"
    BY <1>0, <1>6, EmitType DEF EofEvent
  <2> QED
    BY <1>0, <1>6, <2>1, <2>2 DEF EofEvent, TypeOK, SipTypeOK, ExecTypeOK,
                                  loopVars, timeVars
<1>7. CASE FinalPoll
  BY <1>0, <1>7 DEF FinalPoll, TypeOK, SipTypeOK, ExecTypeOK, agentVars,
                    loopVars, timeVars
<1>8. CASE FinalEvent
  <2>1. queue' \in Seq(InternalEvent)
    BY <1>8, ReceivesType DEF FinalEvent
  <2> QED
    BY <1>0, <1>8, <2>1 DEF FinalEvent, TypeOK, SipTypeOK, ExecTypeOK, loopVars,
                            timeVars
<1>9. CASE LegEnds
  <2>1. queue' \in Seq(InternalEvent) /\ ev \in InternalEvent
    BY <1>9, ReceivesType DEF LegEnds
  <2>2. ev.sip_code \in Nat
    BY <2>1 DEF InternalEvent
  <2>3. /\ result' \in Result /\ events' \in Seq(AgentEvent)
        /\ recorder' \in {"none", "open", "closed"}
    BY <1>9, <2>2, DisconnectType DEF LegEnds
  <2> QED
    BY <1>0, <1>9, <2>1, <2>3 DEF LegEnds, TypeOK, SipTypeOK, ExecTypeOK,
                                  loopVars, timeVars
<1>10. CASE Arm
  <2>1. NewDetector \in Detector
    BY DEF NewDetector, Detector
  <2>2. arm(NewDetector) \in Detector
    BY DEF arm, Detector
  <2>3. sd' \in Detector /\ result' \in Result /\ pc' \in PC /\ stage' = "head"
    BY <1>0, <1>10, <2>2 DEF Arm, Return
  <2> QED
    BY <1>0, <1>10, <2>3 DEF Arm, TypeOK, SipTypeOK, ExecTypeOK, agentVars,
                             loopVars, timeVars
<1>11. CASE Listen
  <2>1. queue' \in Seq(InternalEvent)
    BY <1>0, <1>11, ReceivesType DEF Listen
  <2>2. PICK level \in RxLevels : Sample(level)
    BY <1>11 DEF Listen
  <2>3. level \in Nat
    BY SipAssumption DEF SipAssumption, RxLevels
  <2>4. feed(sd, Threshold, SilenceTimeout, level, now) \in Detector
    BY <1>0, <2>3, TimeAssumption, DetectorType DEF TimeAssumption
  <2>5. sd' \in Detector /\ pc' \in PC /\ stage' = "head"
    BY <2>2, <2>4 DEF Sample
  <2> QED
    BY <1>0, <1>11, <2>1, <2>5 DEF Listen, TypeOK, SipTypeOK, ExecTypeOK,
                                   loopVars, timeVars
<1>12. CASE HangUp
  <2>1. hangingUp' \in BOOLEAN
    BY <1>12 DEF HangUp, hangup
  <2>2. SilenceTimeout \div Second \in Nat
    BY TimeAssumption, DivNat DEF TimeAssumption
  <2>3. MakeEvent("SILENCE_DETECTED", FALSE, SilenceTimeout \div Second, 0, FALSE)
           \in AgentEvent
    <3>1. "SILENCE_DETECTED" \in CallStatus /\ FALSE \in BOOLEAN /\ 0 \in Nat
      OBVIOUS
    <3> QED
      BY <3>1, <2>2, MakeEventType
  <2>4. StateEvent("HANGING_UP") \in AgentEvent
    BY StateEventType
  <2>5. events' \in Seq(AgentEvent)
    BY <1>0, <1>12, <2>3, <2>4, SeqFacts DEF HangUp
  <2>6. SipTypeOK'
    BY <1>0, <1>12, <2>1 DEF HangUp, SipTypeOK
  <2>7. pc' \in PC /\ stage' = "head"
    BY <1>12 DEF HangUp
  <2>8. ExecTypeOK'
    BY <1>0, <1>12, <2>5, <2>7 DEF HangUp, ExecTypeOK, loopVars, timeVars
  <2> QED
    BY <2>6, <2>8 DEF TypeOK
<1> QED
  BY <1>1, <1>2, <1>3, <1>4, <1>5, <1>6, <1>7, <1>8, <1>9, <1>10, <1>11, <1>12

\* So do the other threads, the clock and the destructor.
LEMMA OthersType ==
    TypeOK /\ (CancelSet \/ CancelWake \/ Tick \/ Destroy \/ UNCHANGED vars)
        => TypeOK'
<1> SUFFICES ASSUME TypeOK,
                    CancelSet \/ CancelWake \/ Tick \/ Destroy \/ UNCHANGED vars
             PROVE  TypeOK'
  OBVIOUS
<1>0. SipTypeOK /\ ExecTypeOK
  BY DEF TypeOK
<1>1. CASE CancelSet
  BY <1>0, <1>1 DEF CancelSet, TypeOK, SipTypeOK, ExecTypeOK, agentVars, execVars,
                    loopVars, timeVars
<1>2. CASE CancelWake
  <2>1. dispatcher_wake' \in BOOLEAN
    BY <1>2 DEF CancelWake, wakeDispatcher
  <2> QED
    BY <1>0, <1>2, <2>1 DEF CancelWake, TypeOK, SipTypeOK, ExecTypeOK, execVars,
                            loopVars, timeVars
<1>3. CASE Tick
  <2>1. SipTypeOK'
    BY <1>0, <1>3 DEF Tick, SipTypeOK, agentVars
  <2>2. now' \in Nat \ {0} /\ now' = now + 1 /\ now \in Nat
    BY <1>0, <1>3 DEF Tick, ExecTypeOK
  <2>3. reg_start' <= now' /\ call_connected' <= now'
    BY <1>0, <1>3, <2>2 DEF Tick, ExecTypeOK, execVars, timeVars
  <2> QED
    BY <1>0, <1>3, <2>1, <2>2, <2>3 DEF Tick, TypeOK, ExecTypeOK, execVars,
                                        loopVars, timeVars
<1>4. CASE Destroy
  <2>1. inv' \in InvState
    BY <1>0, <1>4, InvStates DEF Destroy, SipDestroy, SipTypeOK
  <2>2. media' \in BOOLEAN
    BY <1>4 DEF Destroy, SipDestroy
  <2>3. recorder' \in {"none", "open", "closed"} /\ player' = "none"
        /\ account' = "gone"
    BY <1>0, <1>4 DEF Destroy, SipDestroy, SipTypeOK
  <2>4. SipTypeOK'
    BY <1>0, <1>4, <2>1, <2>2, <2>3 DEF Destroy, SipDestroy, SipTypeOK
  <2>5. ExecTypeOK'
    BY <1>0, <1>4, Statements DEF Destroy, ExecTypeOK, loopVars, timeVars
  <2> QED
    BY <2>4, <2>5 DEF TypeOK
<1>5. CASE UNCHANGED vars
  BY <1>0, <1>5 DEF vars, TypeOK, SipTypeOK, ExecTypeOK, agentVars, execVars,
                    loopVars, timeVars
<1> QED
  BY <1>1, <1>2, <1>3, <1>4, <1>5

\* The initial state is typed.
LEMMA InitType == Init => TypeOK
<1> SUFFICES ASSUME Init PROVE TypeOK
  OBVIOUS
<1>1. result \in Result
  BY Statuses DEF Init, Result
<1>2. sd \in Detector
  BY DEF Init, NewDetector, Detector
<1>3. budget \in [reg : Nat, early : Nat, media : Nat]
  BY SipAssumption DEF Init, SipInit, SipAssumption
<1>a. queue \in Seq(InternalEvent) /\ events \in Seq(AgentEvent)
  BY DEF Init, SipInit
<1>b. inv \in InvState
  BY InvStates DEF Init, SipInit
<1>c. pc \in PC
  BY DEF Init, PC
<1>d. now \in Nat \ {0} /\ reg_start \in Nat /\ answer_deadline \in Nat
      /\ call_connected \in Nat /\ reg_start <= now /\ call_connected <= now
  BY DEF Init
<1>4. SipTypeOK
  BY <1>3, <1>a, <1>b DEF Init, SipInit, SipTypeOK
<1>5. ExecTypeOK
  BY <1>1, <1>2, <1>a, <1>c, <1>d, Zenon DEF Init, ExecTypeOK
<1> QED
  BY <1>4, <1>5 DEF TypeOK

\* Every step keeps the types.
LEMMA NextType == TypeOK /\ [Next]_vars => TypeOK'
BY CallbackType, LoopType, CallPhaseType, AnsweredPhasesType, OthersType
   DEF Next, Executor, Terminated

\* In every reachable state every variable has its type and no recorded time
\* lies in the future: the unsigned differences nowMs() - reg_start and
\* nowMs() - call_connected_ms_ cannot wrap (on a clock that does not go back).
THEOREM TypeCorrect == Spec => []TypeOK
BY InitType, NextType, PTL DEF Spec

-----------------------------------------------------------------------------
(* The answer, and what result_ holds on the way.                          *)

Inside == {"setup", "delay", "eof", "drain", "arm", "listen", "hangup", "bye"}

\* While run() is under way: result_ has no bill and no code, a recording only
\* from step 5 on, and its status is ANSWERED once CONFIRMED was read.
Underway ==
    /\ pc \notin Ended => result.billing_seconds = 0 /\ result.sip_code = 0
    /\ pc \in {"start", "reg", "place", "call", "setup"} => ~ result.recording
    /\ pc \notin Ended /\ answered =>
          call_connected > 0 /\ result.status = "ANSWERED"
    /\ pc \in Inside => answered /\ media_active

\* The fields of an updated result.
LEMMA ResultFields ==
    ASSUME NEW r \in Result, NEW s, NEW c, NEW b
    PROVE  /\ [r EXCEPT !.status = s].status = s
           /\ [r EXCEPT !.status = s].sip_code = r.sip_code
           /\ [r EXCEPT !.status = s].billing_seconds = r.billing_seconds
           /\ [r EXCEPT !.status = s].recording = r.recording
           /\ [r EXCEPT !.recording = b].status = r.status
           /\ [r EXCEPT !.recording = b].sip_code = r.sip_code
           /\ [r EXCEPT !.recording = b].billing_seconds = r.billing_seconds
           /\ [r EXCEPT !.status = s, !.sip_code = c].status = s
           /\ [r EXCEPT !.status = s, !.sip_code = c].sip_code = c
           /\ [r EXCEPT !.status = s, !.sip_code = c].billing_seconds
                 = r.billing_seconds
           /\ [r EXCEPT !.status = s, !.sip_code = c].recording = r.recording
BY DEF Result

\* Underway is kept by every step.
LEMMA NextUnderway == TypeOK /\ Underway /\ [Next]_vars => Underway'
<1> SUFFICES ASSUME TypeOK, Underway, [Next]_vars PROVE Underway'
  OBVIOUS
<1> USE DEF GoTo, Ended, Inside
<1>0. result \in Result /\ now \in Nat /\ now > 0
  BY DEF TypeOK, ExecTypeOK
\* Steps that leave run()'s locals alone, or end the run.
<1>a. ASSUME UNCHANGED <<answered, media_active, call_connected, result>>,
             pc' = pc \/ pc' \in Ended \/ <<pc, pc'>> \in
                {<<"start", "reg">>, <<"reg", "place">>, <<"place", "call">>,
                 <<"delay", "eof">>, <<"eof", "drain">>, <<"eof", "arm">>,
                 <<"arm", "listen">>, <<"listen", "hangup">>, <<"hangup", "bye">>}
      PROVE  Underway'
  BY <1>a DEF Underway
<1>b. ASSUME pc' = "done" PROVE Underway'
  BY <1>b DEF Underway
<1>1. CASE WorkerThread \/ CancelSet \/ CancelWake \/ Tick \/ Terminated
           \/ UNCHANGED vars
  BY <1>1, <1>a DEF WorkerThread, CancelSet, CancelWake, Tick, Terminated, vars,
                    execVars, loopVars, timeVars
<1>2. CASE LoopTest \/ WaitEnter \/ StartThrows \/ PlaceThrows \/ CallPoll
           \/ SetupThrows \/ PlayThrows \/ FinalPoll \/ FinalEvent \/ Destroy
  BY <1>2, <1>a DEF LoopTest, WaitEnter, StartThrows, PlaceThrows, CallPoll,
                    SetupThrows, PlayThrows, FinalPoll, FinalEvent, Destroy,
                    Crash, loopVars, timeVars
<1>3. CASE Start \/ Place \/ Play \/ EofPoll \/ EofEvent \/ HangUp
  BY <1>3, <1>a DEF Start, Place, Play, EofPoll, EofEvent, HangUp, At, DelayOver,
                    loopVars, timeVars
<1>4. CASE TakeCancel \/ LegEnds
  BY <1>4, <1>b DEF TakeCancel, LegEnds, Return
<1>5. CASE RegPoll
  BY <1>5, <1>a, <1>b DEF RegPoll, RegistrationFails, Return, loopVars, timeVars
<1>6. CASE RegEvent
  <2>1. \/ GoTo("reg") /\ UNCHANGED <<result, events>>
        \/ /\ emitEvent(StateEvent("REGISTERED"))
           /\ GoTo("place")
           /\ UNCHANGED result
        \/ RegistrationFails(ev.sip_code)
    BY <1>6 DEF RegEvent
  <2> QED
    BY <1>6, <2>1, <1>a, <1>b DEF RegEvent, RegistrationFails, Return, loopVars,
                                  timeVars
<1>7. CASE CallTest
  <2>1. UNCHANGED <<answered, media_active, call_connected>> /\ pc = "call"
    BY <1>7 DEF CallTest, At, timeVars
  <2>2. CASE NetTrips
    BY <1>7, <2>2, <1>b DEF CallTest, Return
  <2>3. CASE ~ NetTrips
    BY <1>7, <2>1, <2>3, <1>a DEF CallTest
  <2> QED
    BY <2>2, <2>3
<1>8. CASE CallEvent
  <2>0. pc = "call"
    BY <1>8 DEF CallEvent
  <2>1. CASE CallAnswered
    <3>1. /\ result'.status = "ANSWERED"
          /\ result'.sip_code = result.sip_code
          /\ result'.billing_seconds = result.billing_seconds
          /\ result'.recording = result.recording
      BY <2>1, <1>0, ResultFields DEF CallAnswered
    <3>2. /\ answered' /\ call_connected' > 0 /\ media_active' = media_active
          /\ pc' = IF media_active THEN "setup" ELSE "call"
      BY <2>1, <1>0 DEF CallAnswered, AfterCallEvent
    <3> QED
      BY <2>0, <3>1, <3>2 DEF Underway
  <2>2. CASE CallRefused
    BY <2>2, <1>b DEF CallRefused
  <2>3. CASE CallMedia
    BY <2>0, <2>3 DEF CallMedia, AfterCallEvent, Underway
  <2>4. CASE CallRinging \/ CallOther
    BY <2>0, <2>4 DEF CallRinging, CallOther, AfterCallEvent, Underway
  <2> QED
    BY <1>8, <2>1, <2>2, <2>3, <2>4 DEF CallEvent
<1>9. CASE Setup
  <2>1. CASE GaveUp
    BY <1>9, <2>1, <1>b DEF Setup, Return
  <2>2. CASE ~ GaveUp
    <3>1. /\ result'.status = result.status
          /\ result'.sip_code = result.sip_code
          /\ result'.billing_seconds = result.billing_seconds
      <4>1. result' = [result EXCEPT !.recording = TRUE]
        BY <1>9, <2>2 DEF Setup
      <4> QED
        BY <4>1, <1>0 DEF Result
    <3>2. /\ pc = "setup" /\ pc' = "delay"
          /\ UNCHANGED <<answered, media_active, call_connected>>
      BY <1>9, <2>2 DEF Setup, At, loopVars, timeVars
    <3> QED
      BY <3>1, <3>2 DEF Underway
  <2> QED
    BY <2>1, <2>2
<1>10. CASE Arm
  <2>1. CASE GaveUp
    BY <1>10, <2>1, <1>b DEF Arm, Return
  <2>2. CASE ~ GaveUp
    BY <1>10, <2>2, <1>a DEF Arm, At, loopVars, timeVars
  <2> QED
    BY <2>1, <2>2
<1>11. CASE Listen
  <2>1. pc = "listen" /\ pc' \in {"listen", "hangup"}
    BY <1>11 DEF Listen, Sample
  <2> QED
    BY <1>11, <2>1, <1>a DEF Listen, loopVars, timeVars
<1> QED
  BY <1>1, <1>2, <1>3, <1>4, <1>5, <1>6, <1>7, <1>8, <1>9, <1>10, <1>11
     DEF Next, Executor

\* Past step 4 the call is answered, whatever the callee and the clock do.
THEOREM AnsweredInsideCorrect == Spec => []AnsweredInside
<1>1. Init => Underway
  BY DEF Init, Underway, Ended, Inside
<1>2. Underway => AnsweredInside
  BY DEF Underway, AnsweredInside, Inside, Ended, GaveUp
<1> QED
  BY <1>1, <1>2, TypeCorrect, NextUnderway, PTL DEF Spec

-----------------------------------------------------------------------------
(* The result: one, last, and the one that run() returns.                  *)

Quiet(e) == e \in AgentEvent /\ ~ result_event(e)

NoResult(s) == \A i \in DOMAIN s : ~ result_event(s[i])

\* e closes the stream and says what run() returns.
Closes(e, r) ==
    /\ e \in AgentEvent
    /\ result_event(e)
    /\ e.status = r.status
    /\ e.sip_code = r.sip_code
    /\ e.billing_seconds = r.billing_seconds
    /\ e.recording = r.recording
    /\ r.status \in {"ANSWERED", "BUSY", "NO_ANSWER", "FAILED"}

\* The four kinds of step: nothing is said, run() goes on and may say
\* something, run() returns cancelled, run() returns with a result.
Rests == UNCHANGED <<result, events>> /\ (Returned' <=> Returned)

Goes ==
    /\ ~ Returned /\ ~ Returned'
    /\ \/ events' = events
       \/ \E e : Quiet(e) /\ events' = Append(events, e)
       \/ \E d, e : Quiet(d) /\ Quiet(e) /\ events' = events \o <<d, e>>

Cancels == ~ Returned /\ events' = events /\ result'.status = "CANCELLED"

Finishes ==
    /\ ~ Returned /\ Returned'
    /\ \E e : /\ Closes(e, result')
              /\ \/ events' = Append(events, e)
                 \/ events' = events \o <<e>>
                 \/ \E d : Quiet(d) /\ events' = events \o <<d, e>>

\* An event that only announces a status is no result.
LEMMA StateEventQuiet ==
    ASSUME NEW s \in CallStatus \ AlwaysResult
    PROVE  Quiet(StateEvent(s))
BY StateEventType DEF Quiet, StateEvent, MakeEvent, result_event

\* The statuses of the announcements.
LEMMA Announcements ==
    {"REGISTERING", "REGISTERED", "DIALING", "RINGING", "ANSWERED", "PLAYING",
     "PLAYED", "HANGING_UP"} \subseteq CallStatus \ AlwaysResult
BY DEF CallStatus, AlwaysResult

\* What handleDisconnect says closes the stream.
LEMMA DisconnectFinishes ==
    ASSUME TypeOK, pc \notin Ended, pc' = "done", NEW code \in Nat,
           handleDisconnect(code)
    PROVE  Finishes
<1> DEFINE ready == MakeEvent("RECORDING_READY", TRUE, Billing, 0, FALSE)
<1> DEFINE final == MakeEvent(DisconnectStatus(code), result.recording, Billing,
                              code, TRUE)
<1>1. result \in Result /\ result.recording \in BOOLEAN
  BY DEF TypeOK, ExecTypeOK, Result
<1>2. Billing \in Nat
  BY BillingType
<1>3. DisconnectStatus(code) \in {"ANSWERED", "BUSY", "NO_ANSWER", "FAILED"}
  BY DEF DisconnectStatus, sipCodeToCallStatus
<1>4. DisconnectStatus(code) \in CallStatus /\ "RECORDING_READY" \in CallStatus
  BY <1>3, Statuses
<1>5. final \in AgentEvent /\ ready \in AgentEvent
  BY <1>1, <1>2, <1>4, MakeEventType
<1>6. Quiet(ready)
  BY <1>5 DEF Quiet, MakeEvent, result_event, AlwaysResult
<1>7. result' = [result EXCEPT !.status = DisconnectStatus(code),
                               !.sip_code = code,
                               !.billing_seconds = Billing]
  BY DEF handleDisconnect
<1>8. /\ result'.status = DisconnectStatus(code)
      /\ result'.sip_code = code
      /\ result'.billing_seconds = Billing
      /\ result'.recording = result.recording
  BY <1>1, <1>7 DEF Result
<1>9. /\ final.status = DisconnectStatus(code)
      /\ final.sip_code = code
      /\ final.billing_seconds = Billing
      /\ final.recording = result.recording
      /\ result_event(final)
  BY DEF MakeEvent, result_event
<1> HIDE DEF ready, final
<1>10. Closes(final, result')
  BY <1>3, <1>5, <1>8, <1>9 DEF Closes
<1>11. events' = events \o (IF result.recording THEN <<ready, final>>
                                                ELSE <<final>>)
  BY DEF handleDisconnect, ready, final
<1>12. \/ events' = events \o <<final>>
       \/ events' = events \o <<ready, final>>
  BY <1>1, <1>11
<1> QED
  BY <1>6, <1>10, <1>12 DEF Finishes, Returned, Ended

\* Every step is of one of the four kinds.
LEMMA StepKind ==
    TypeOK /\ Underway /\ [Next]_vars => Rests \/ Goes \/ Cancels \/ Finishes
<1> SUFFICES ASSUME TypeOK, Underway, [Next]_vars
             PROVE  Rests \/ Goes \/ Cancels \/ Finishes
  OBVIOUS
<1> USE DEF GoTo, Returned, Ended
<1>0. result \in Result
  BY DEF TypeOK, ExecTypeOK
\* Steps between statements of run() that say nothing, or one announcement.
<1>a. ASSUME pc \notin Ended, pc' \notin {"done", "destroyed"}, events' = events
      PROVE  Goes
  BY <1>a DEF Goes
<1>b. ASSUME pc \notin Ended, pc' \notin {"done", "destroyed"},
             NEW s \in {"REGISTERING", "REGISTERED", "DIALING", "RINGING",
                        "ANSWERED", "PLAYING", "PLAYED"},
             emitEvent(StateEvent(s))
      PROVE  Goes
  <2>1. Quiet(StateEvent(s))
    BY Announcements, StateEventQuiet
  <2> QED
    BY <1>b, <2>1 DEF Goes, emitEvent
<1>c. ASSUME UNCHANGED <<result, events, pc>> PROVE Rests
  BY <1>c DEF Rests
<1>d. ASSUME pc = "reg", NEW code \in Nat, RegistrationFails(code)
      PROVE  Finishes
  <2> DEFINE e == MakeEvent("FAILED", FALSE, 0, code, FALSE)
  <2>1. e \in AgentEvent
    BY MakeEventType, Statuses
  <2>2. result' = [result EXCEPT !.status = "FAILED", !.sip_code = code]
    BY <1>d DEF RegistrationFails, Return
  <2>3. /\ result'.status = "FAILED" /\ result'.sip_code = code
        /\ result'.billing_seconds = result.billing_seconds
        /\ result'.recording = result.recording
    BY <1>0, <2>2 DEF Result
  <2>4. result.recording = FALSE
    BY <1>0, <1>d DEF Underway, Result
  <2>5. result.billing_seconds = 0
    BY <1>d DEF Underway
  <2>6. /\ e.status = "FAILED" /\ e.sip_code = code /\ e.billing_seconds = 0
        /\ e.recording = FALSE /\ result_event(e)
    BY DEF MakeEvent, result_event, AlwaysResult
  <2>7. Closes(e, result')
    BY <2>1, <2>3, <2>4, <2>5, <2>6 DEF Closes
  <2>8. events' = Append(events, e) /\ pc' = "done"
    BY <1>d DEF RegistrationFails, Return, emitEvent
  <2> HIDE DEF e
  <2> QED
    BY <1>d, <2>7, <2>8 DEF Finishes
<1>1. CASE WorkerThread \/ CancelSet \/ CancelWake \/ Tick \/ Terminated
           \/ UNCHANGED vars
  BY <1>1, <1>c DEF WorkerThread, CancelSet, CancelWake, Tick, Terminated, vars,
                    execVars
<1>2. CASE Destroy
  BY <1>2 DEF Destroy, Rests
<1>3. CASE LoopTest \/ WaitEnter
  BY <1>3, <1>c DEF LoopTest, WaitEnter
<1>4. CASE TakeCancel
  <2>1. result' = [result EXCEPT !.status = "CANCELLED"]
    BY <1>4 DEF TakeCancel, Return
  <2>2. result'.status = "CANCELLED"
    BY <1>0, <2>1 DEF Result
  <2>3. events' = events /\ pc \notin Ended
    BY <1>4 DEF TakeCancel, Loops
  <2> QED
    BY <2>2, <2>3 DEF Cancels
<1>5. CASE StartThrows \/ SetupThrows \/ CallPoll \/ EofPoll \/ FinalPoll
           \/ FinalEvent \/ Listen
  BY <1>5, <1>a DEF StartThrows, SetupThrows, CallPoll, EofPoll, FinalPoll,
                    FinalEvent, FinalLoops, Listen, Sample, At, Crash
<1>6. CASE Start
  BY <1>6, <1>b DEF Start
<1>7. CASE Place \/ PlaceThrows
  BY <1>7, <1>b DEF Place, PlaceThrows, At, Crash
<1>8. CASE Play \/ PlayThrows
  BY <1>8, <1>b DEF Play, PlayThrows, DelayOver, At, Crash
<1>9. CASE RegPoll
  BY <1>9, <1>a, <1>d DEF RegPoll
<1>10. CASE RegEvent
  <2>0. pc = "reg" /\ ev.sip_code \in Nat
    BY <1>10, ReceivesType DEF RegEvent, InternalEvent
  <2>1. \/ GoTo("reg") /\ UNCHANGED <<result, events>>
        \/ /\ emitEvent(StateEvent("REGISTERED"))
           /\ GoTo("place")
           /\ UNCHANGED result
        \/ RegistrationFails(ev.sip_code)
    BY <1>10 DEF RegEvent
  <2> QED
    BY <2>0, <2>1, <1>a, <1>b, <1>d
<1>11. CASE CallTest
  <2>1. CASE NetTrips
    <3> DEFINE e == MakeEvent("NO_ANSWER", FALSE, 0, 0, TRUE)
    <3>1. e \in AgentEvent
      BY MakeEventType, Statuses
    <3>2. /\ result' = [result EXCEPT !.status = "NO_ANSWER"]
          /\ events' = Append(events, e)
          /\ pc = "call" /\ pc' = "done"
      BY <1>11, <2>1 DEF CallTest, Return, emitEvent, At
    <3>3. /\ result'.status = "NO_ANSWER" /\ result'.sip_code = result.sip_code
          /\ result'.billing_seconds = result.billing_seconds
          /\ result'.recording = result.recording
      BY <1>0, <3>2 DEF Result
    <3>4. result.recording = FALSE
      BY <1>0, <3>2 DEF Underway, Result
    <3>5. result.billing_seconds = 0 /\ result.sip_code = 0
      BY <3>2 DEF Underway
    <3>6. /\ e.status = "NO_ANSWER" /\ e.sip_code = 0 /\ e.billing_seconds = 0
          /\ e.recording = FALSE /\ result_event(e)
      BY DEF MakeEvent, result_event
    <3>7. Closes(e, result')
      BY <3>1, <3>3, <3>4, <3>5, <3>6 DEF Closes
    <3> HIDE DEF e
    <3> QED
      BY <3>2, <3>7 DEF Finishes
  <2>2. CASE ~ NetTrips
    BY <1>11, <2>2, <1>c DEF CallTest
  <2> QED
    BY <2>1, <2>2
<1>12. CASE CallEvent
  <2>0. pc = "call" /\ ev.sip_code \in Nat
    BY <1>12, ReceivesType DEF CallEvent, InternalEvent
  <2>1. CASE CallRinging \/ CallAnswered
    BY <2>0, <2>1, <1>b DEF CallRinging, CallAnswered, AfterCallEvent
  <2>2. CASE CallMedia \/ CallOther
    BY <2>0, <2>2, <1>a DEF CallMedia, CallOther, AfterCallEvent
  <2>3. CASE CallRefused
    <3>1. (IF answer_timeout_hit THEN 487 ELSE ev.sip_code) \in Nat
      BY <2>0
    <3> QED
      BY <2>0, <2>3, <3>1, DisconnectFinishes DEF CallRefused
  <2> QED
    BY <1>12, <2>1, <2>2, <2>3 DEF CallEvent
<1>13. CASE LegEnds
  <2>1. /\ pc \notin Ended /\ pc' = "done" /\ ev.sip_code \in Nat
        /\ handleDisconnect(ev.sip_code)
    BY <1>13, ReceivesType DEF LegEnds, InternalEvent
  <2> QED
    BY <2>1, DisconnectFinishes
<1>14. CASE EofEvent
  BY <1>14, <1>a, <1>b DEF EofEvent
<1>15. CASE Setup \/ Arm
  <2>1. ~ GaveUp
    BY <1>15 DEF Setup, Arm, At, Underway, Inside, GaveUp
  <2> QED
    BY <1>15, <2>1, <1>a DEF Setup, Arm, At
<1>16. CASE HangUp
  <2> DEFINE d == MakeEvent("SILENCE_DETECTED", FALSE, SilenceTimeout \div Second,
                            0, FALSE)
  <2>1. SilenceTimeout \div Second \in Nat
    BY DivNat, TimeAssumption
  <2>2. d \in AgentEvent
    BY <2>1, MakeEventType, Statuses
  <2>3. Quiet(d)
    BY <2>2 DEF Quiet, MakeEvent, result_event, AlwaysResult
  <2>4. Quiet(StateEvent("HANGING_UP"))
    BY Announcements, StateEventQuiet
  <2>5. /\ pc = "hangup" /\ pc' = "bye"
        /\ events' = events \o <<d, StateEvent("HANGING_UP")>>
    BY <1>16 DEF HangUp, At
  <2> HIDE DEF d
  <2> QED
    BY <2>3, <2>4, <2>5 DEF Goes
<1> QED
  BY <1>1, <1>2, <1>3, <1>4, <1>5, <1>6, <1>7, <1>8, <1>9, <1>10, <1>11, <1>12,
     <1>13, <1>14, <1>15, <1>16 DEF Next, Executor

\* The items of a stream that grows by one or two events.
LEMMA Grown ==
    ASSUME NEW s \in Seq(AgentEvent), NEW d \in AgentEvent, NEW e \in AgentEvent
    PROVE  /\ Append(s, e) = s \o <<e>>
           /\ Len(Append(s, e)) = Len(s) + 1
           /\ Append(s, e)[Len(s) + 1] = e
           /\ \A i \in 1 .. Len(s) : Append(s, e)[i] = s[i]
           /\ Append(s, e) \in Seq(AgentEvent)
           /\ Len(s \o <<d, e>>) = Len(s) + 2
           /\ (s \o <<d, e>>)[Len(s) + 1] = d
           /\ (s \o <<d, e>>)[Len(s) + 2] = e
           /\ \A i \in 1 .. Len(s) : (s \o <<d, e>>)[i] = s[i]
           /\ s \o <<d, e>> \in Seq(AgentEvent)
<1>1. <<d, e>> \in Seq(AgentEvent) /\ Len(<<d, e>>) = 2
  OBVIOUS
<1>2. Append(s, e) = s \o <<e>>
  OBVIOUS
<1>3. /\ Len(Append(s, e)) = Len(s) + 1
      /\ Append(s, e)[Len(s) + 1] = e
      /\ \A i \in 1 .. Len(s) : Append(s, e)[i] = s[i]
      /\ Append(s, e) \in Seq(AgentEvent)
  OBVIOUS
<1>4. Len(s \o <<d, e>>) = Len(s) + 2 /\ s \o <<d, e>> \in Seq(AgentEvent)
  BY <1>1
<1>5. /\ (s \o <<d, e>>)[Len(s) + 1] = d
      /\ (s \o <<d, e>>)[Len(s) + 2] = e
      /\ \A i \in 1 .. Len(s) : (s \o <<d, e>>)[i] = s[i]
  BY <1>1, <1>4
<1> QED
  BY <1>2, <1>3, <1>4, <1>5

\* A stream without a result stays without one when something quiet is added,
\* and ends with its only result when a closing event is.
LEMMA GrownResults ==
    ASSUME NEW s \in Seq(AgentEvent), NoResult(s), NEW t,
           NEW d, Quiet(d), NEW e \in AgentEvent,
           \/ t = Append(s, e)
           \/ t = s \o <<e>>
           \/ t = s \o <<d, e>>
    PROVE  /\ t \in Seq(AgentEvent) /\ t # <<>>
           /\ t[Len(t)] = e
           /\ \A i \in DOMAIN t : result_event(t[i]) => i = Len(t)
<1>0. d \in AgentEvent /\ ~ result_event(d)
  BY DEF Quiet
<1>1. \A i \in 1 .. Len(s) : ~ result_event(s[i])
  BY DEF NoResult
<1>2. CASE t = Append(s, e) \/ t = s \o <<e>>
  <2>1. /\ t \in Seq(AgentEvent) /\ Len(t) = Len(s) + 1 /\ t[Len(s) + 1] = e
        /\ \A i \in 1 .. Len(s) : t[i] = s[i]
    <3>1. Append(s, e) = s \o <<e>>
      BY <1>0, Grown
    <3>2. t = Append(s, e)
      BY <1>2, <3>1
    <3> QED
      BY <1>0, <3>2, Grown
  <2>2. \A i \in 1 .. (Len(s) + 1) : result_event(t[i]) => i = Len(s) + 1
    BY <1>1, <2>1
  <2> QED
    BY <2>1, <2>2
<1>3. CASE t = s \o <<d, e>>
  <2>1. /\ t \in Seq(AgentEvent) /\ Len(t) = Len(s) + 2
        /\ t[Len(s) + 1] = d /\ t[Len(s) + 2] = e
        /\ \A i \in 1 .. Len(s) : t[i] = s[i]
    BY <1>0, <1>3, Grown
  <2>2. \A i \in 1 .. (Len(s) + 2) : result_event(t[i]) => i = Len(s) + 2
    <3> SUFFICES ASSUME NEW i \in 1 .. (Len(s) + 2), i # Len(s) + 2
                 PROVE  ~ result_event(t[i])
      OBVIOUS
    <3>1. i \in 1 .. Len(s) \/ i = Len(s) + 1
      OBVIOUS
    <3>2. CASE i \in 1 .. Len(s)
      <4>1. t[i] = s[i]
        BY <2>1, <3>2
      <4> QED
        BY <1>1, <3>2, <4>1
    <3>3. CASE i = Len(s) + 1
      <4>1. t[i] = d
        BY <2>1, <3>3
      <4> QED
        BY <1>0, <4>1
    <3> QED
      BY <3>1, <3>2, <3>3
  <2> QED
    BY <2>1, <2>2
<1> QED
  BY <1>2, <1>3

\* OneResult and ReturnMatchesStream support each other across a step.
LEMMA StreamStep ==
    ASSUME TypeOK, OneResult, ReturnMatchesStream,
           Rests \/ Goes \/ Cancels \/ Finishes
    PROVE  OneResult' /\ ReturnMatchesStream'
<1>0. events \in Seq(AgentEvent)
  BY DEF TypeOK, ExecTypeOK
<1>1. CASE Rests
  BY <1>1 DEF Rests, OneResult, ReturnMatchesStream
<1>2. ASSUME ~ Returned PROVE NoResult(events)
  BY <1>2 DEF OneResult, NoResult
<1>3. CASE Cancels
  <2>1. NoResult(events)
    BY <1>2, <1>3 DEF Cancels
  <2> QED
    BY <1>3, <2>1 DEF Cancels, NoResult, OneResult, ReturnMatchesStream
<1>4. CASE Goes
  <2>0. ~ Returned /\ ~ Returned' /\ NoResult(events)
    BY <1>2, <1>4 DEF Goes
  <2>1. NoResult(events')
    <3>1. CASE events' = events
      BY <2>0, <3>1
    <3>2. CASE \E e : Quiet(e) /\ events' = Append(events, e)
      <4>0. PICK e : Quiet(e) /\ events' = Append(events, e)
        BY <3>2
      <4>1. e \in AgentEvent /\ ~ result_event(e)
        BY <4>0 DEF Quiet
      <4>2. /\ events'[Len(events')] = e
            /\ \A i \in DOMAIN events' : result_event(events'[i]) => i = Len(events')
        BY <1>0, <2>0, <4>0, <4>1, GrownResults
      <4> QED
        BY <4>1, <4>2 DEF NoResult
    <3>3. CASE \E d, e : Quiet(d) /\ Quiet(e) /\ events' = events \o <<d, e>>
      <4>0. PICK d, e : Quiet(d) /\ Quiet(e) /\ events' = events \o <<d, e>>
        BY <3>3
      <4>1. e \in AgentEvent /\ ~ result_event(e)
        BY <4>0 DEF Quiet
      <4>2. /\ events'[Len(events')] = e
            /\ \A i \in DOMAIN events' : result_event(events'[i]) => i = Len(events')
        BY <1>0, <2>0, <4>0, <4>1, GrownResults
      <4> QED
        BY <4>1, <4>2 DEF NoResult
    <3> QED
      BY <1>4, <3>1, <3>2, <3>3 DEF Goes
  <2> QED
    BY <2>0, <2>1 DEF NoResult, OneResult, ReturnMatchesStream
<1>5. CASE Finishes
  <2>0. ~ Returned /\ Returned' /\ NoResult(events)
    BY <1>2, <1>5 DEF Finishes
  <2> PICK e : /\ Closes(e, result')
               /\ \/ events' = Append(events, e)
                  \/ events' = events \o <<e>>
                  \/ \E d : Quiet(d) /\ events' = events \o <<d, e>>
    BY <1>5 DEF Finishes
  <2>1. \E d : Quiet(d) /\ \/ events' = Append(events, e)
                           \/ events' = events \o <<e>>
                           \/ events' = events \o <<d, e>>
    BY Announcements, StateEventQuiet
  <2>2. PICK d : Quiet(d) /\ \/ events' = Append(events, e)
                             \/ events' = events \o <<e>>
                             \/ events' = events \o <<d, e>>
    BY <2>1
  <2>3. e \in AgentEvent
    BY DEF Closes
  <2>4. /\ events' # <<>>
        /\ events'[Len(events')] = e
        /\ \A i \in DOMAIN events' : result_event(events'[i]) => i = Len(events')
    BY <1>0, <2>0, <2>2, <2>3, GrownResults
  <2>5. OneResult'
    BY <2>0, <2>4 DEF OneResult
  <2>6. result'.status # "CANCELLED" /\ statusToExitCode(result'.status) # 1
    BY DEF Closes, statusToExitCode
  <2>7. /\ result_event(e) /\ e.status = result'.status
        /\ e.sip_code = result'.sip_code
        /\ e.billing_seconds = result'.billing_seconds
        /\ e.recording = result'.recording
    BY DEF Closes
  <2>8. ReturnMatchesStream'
    BY <2>4, <2>6, <2>7 DEF ReturnMatchesStream
  <2> QED
    BY <2>5, <2>8
<1> QED
  BY <1>1, <1>3, <1>4, <1>5

\* For every call: at most one result, at the end of the stream, and run()
\* returns exactly it, or CANCELLED and no result at all.
LEMMA StreamInvariant ==
    Spec => [](TypeOK /\ Underway /\ OneResult /\ ReturnMatchesStream)
<1>1. Init => Underway /\ OneResult /\ ReturnMatchesStream
  BY DEF Init, Underway, Ended, Inside, OneResult, ReturnMatchesStream, Returned
<1>2. /\ TypeOK /\ Underway /\ OneResult /\ ReturnMatchesStream
      /\ [Next]_vars
      => Underway' /\ OneResult' /\ ReturnMatchesStream'
  BY NextUnderway, StepKind, StreamStep
<1> QED
  BY <1>1, <1>2, TypeCorrect, PTL DEF Spec

\* No path of run() goes on after a result.
THEOREM OneResultCorrect == Spec => []OneResult
BY StreamInvariant, PTL

\* What run() returns is what the stream's result said.
THEOREM ReturnMatchesStreamCorrect == Spec => []ReturnMatchesStream
BY StreamInvariant, PTL
=============================================================================
