------------------------ MODULE CallExecutorLegProofs -----------------------
(***************************************************************************)
(* Safety of run() where it meets the SIP leg: what the callbacks report   *)
(* is not lost, no leg is left behind, a bill and a recording need an      *)
(* answer, and the stream of events is the one that a client may expect;   *)
(* then what its deadlines are worth on a machine that keeps up            *)
(* (CallExecutorTimed).  For every value of the constants, as in the       *)
(* module CallExecutorProofs.                                              *)
(***************************************************************************)
EXTENDS CallExecutorTimed, CallExecutorProofs, SequenceTheorems

\* Statements before the INVITE, and the statements with a recorder.
Before == {"start", "reg", "place"}
Recording == Inside \ {"setup"}

IsState(e) == e.type = "CALL_STATE"

\* The queue holds the leg's moves in their order, each but EARLY once, and
\* none that the leg has not made.
QueueOrder ==
    /\ \A i \in 1 .. Len(queue) :
          IsState(queue[i]) => queue[i].call_state \in 1 .. inv
    /\ \A i, j \in 1 .. Len(queue) :
          i < j /\ IsState(queue[i]) /\ IsState(queue[j]) =>
              \/ queue[i].call_state < queue[j].call_state
              \/ queue[i].call_state = INV_STATE_EARLY
                 /\ queue[j].call_state = INV_STATE_EARLY

\* CONFIRMED is in the queue until run() has read it, and a leg that ends with
\* a 200 was confirmed before.
AnswerSeen ==
    pc \notin Ended =>
        IF answered
        THEN /\ inv \in {INV_STATE_CONFIRMED, INV_STATE_DISCONNECTED}
             /\ \A i \in 1 .. Len(queue) :
                   IsState(queue[i]) => queue[i].call_state = INV_STATE_DISCONNECTED
        ELSE /\ call_connected = 0
             /\ inv = INV_STATE_CONFIRMED =>
                   \E i \in 1 .. Len(queue) : IsCallState(queue[i], INV_STATE_CONFIRMED)
             /\ \A i \in 1 .. Len(queue) :
                   IsCallState(queue[i], INV_STATE_DISCONNECTED) /\ queue[i].sip_code = 200
                   => \E j \in 1 .. (i - 1) :
                         IsCallState(queue[j], INV_STATE_CONFIRMED)

\* There is no leg before the INVITE, and a leg that run() is done with is hung up.
LegInv ==
    /\ pc \in Before => inv = INV_STATE_NULL /\ ~ answer_timeout_hit
    /\ LegAlive /\ (answer_timeout_hit \/ pc = "bye") => hangingUp

\* The recorder is open only where run() knows of a recording.
RecorderInv ==
    /\ pc \in Recording => result.recording
    /\ pc \notin Recording \cup Ended => recorder = "none"

-----------------------------------------------------------------------------
(* What a step does to the leg and to the queue.                           *)

\* No step of run() goes back to before the INVITE, and none leaves an end.
Forward ==
    /\ pc \in Ended => pc' \in Ended
    /\ pc' \in Before => pc \in Before

Stands == UNCHANGED <<queue, inv, answered, call_connected>>

\* run() reads the oldest event: only the registration loop may pass over a
\* DISCONNECTED, and only step 4 takes a CONFIRMED for the answer.
Reads ==
    /\ queue # <<>> /\ queue' = Tail(queue) /\ inv' = inv
    /\ pc \in Loops
    /\ IsCallState(ev, INV_STATE_DISCONNECTED) => pc = "reg" \/ pc' = "done"
    /\ IF pc = "call" /\ IsCallState(ev, INV_STATE_CONFIRMED)
       THEN answered'
       ELSE UNCHANGED <<answered, call_connected>>

\* A callback pushes an event; a move of the leg goes forward.
Pushes(e) ==
    /\ e \in InternalEvent
    /\ queue' = Append(queue, e)
    /\ UNCHANGED <<answered, call_connected>>
    /\ IF IsState(e)
       THEN /\ e.call_state = inv'
            /\ inv < inv' \/ (inv = INV_STATE_EARLY /\ inv' = INV_STATE_EARLY)
            /\ inv' = INV_STATE_DISCONNECTED /\ e.sip_code = 200 =>
                  inv = INV_STATE_CONFIRMED
       ELSE inv' = inv
    /\ pc' = pc \/ (pc = "place" /\ pc' = "call")

\* The destructor ends what is left of the leg.
Vanishes ==
    /\ UNCHANGED <<queue, answered, call_connected>>
    /\ pc' = "destroyed"
    /\ inv' = inv \/ inv' = INV_STATE_DISCONNECTED

LegStep ==
    /\ Forward
    /\ Stands \/ Reads \/ (\E e : Pushes(e)) \/ Vanishes

\* The fields of the events that the callbacks push.
LEMMA PushedFields ==
    /\ \A state, code : /\ CallStateEvent(state, code).type = "CALL_STATE"
                        /\ CallStateEvent(state, code).call_state = state
                        /\ CallStateEvent(state, code).sip_code = code
    /\ \A code : RegStateEvent(code).type = "REG_STATE"
    /\ \A active : MediaStateEvent(active).type = "MEDIA_STATE"
    /\ PlaybackEofEvent.type = "PLAYBACK_EOF"
BY DEF CallStateEvent, RegStateEvent, MediaStateEvent, PlaybackEofEvent, DefaultEvent

\* A callback pushes one event.
LEMMA CallbackPushes == TypeOK /\ WorkerThread => \E e : Pushes(e)
<1> SUFFICES ASSUME TypeOK, WorkerThread PROVE \E e : Pushes(e)
  OBVIOUS
<1>0. UNCHANGED <<answered, call_connected, pc>> /\ inv \in InvState
  BY DEF WorkerThread, execVars, loopVars, timeVars, TypeOK, SipTypeOK
<1> USE DEF INV_STATE_NULL, INV_STATE_CALLING, INV_STATE_EARLY,
            INV_STATE_CONNECTING, INV_STATE_CONFIRMED, INV_STATE_DISCONNECTED
\* A move to a later state, or from EARLY to EARLY.
<1>a. ASSUME NEW state \in InvState, NEW code \in Nat, onCallState(state, code),
             inv < state \/ (inv = INV_STATE_EARLY /\ state = INV_STATE_EARLY),
             state = INV_STATE_DISCONNECTED /\ code = 200 => inv = INV_STATE_CONFIRMED
      PROVE  \E e : Pushes(e)
  <2>1. CallStateEvent(state, code) \in InternalEvent
    BY InternalEventTypes
  <2> QED
    BY <1>0, <1>a, <2>1, PushedFields DEF Pushes, onCallState, pushEvent, IsState
<1>1. CASE onRegState
  <2>1. PICK code \in RegCodes : pushEvent(RegStateEvent(code))
    BY <1>1 DEF onRegState
  <2>2. code \in Nat /\ RegStateEvent(code) \in InternalEvent
    BY SipAssumption, InternalEventTypes DEF SipAssumption
  <2>3. inv' = inv
    BY <1>1 DEF onRegState
  <2> QED
    BY <1>0, <2>1, <2>2, <2>3, PushedFields DEF Pushes, pushEvent, IsState
<1>2. CASE Ringing
  BY <1>0, <1>2, <1>a, InvStates DEF Ringing
<1>3. CASE PickedUp
  BY <1>0, <1>3, <1>a, InvStates DEF PickedUp
<1>4. CASE Confirmed
  BY <1>0, <1>4, <1>a, InvStates DEF Confirmed
<1>5. CASE Disconnected
  <2>1. PICK code \in DisconnectCodes : onCallState(INV_STATE_DISCONNECTED, code)
    BY <1>5 DEF Disconnected
  <2>2. code \in Nat /\ (code = 200 => inv = INV_STATE_CONFIRMED)
    BY SipAssumption DEF SipAssumption, DisconnectCodes
  <2>3. inv < INV_STATE_DISCONNECTED
    BY <1>0, <1>5 DEF Disconnected, LegAlive, InvState
  <2> QED
    BY <2>1, <2>2, <2>3, <1>a, InvStates
<1>6. CASE onCallMediaState
  <2>1. PICK active \in BOOLEAN : pushEvent(MediaStateEvent(active))
    BY <1>6 DEF onCallMediaState
  <2>2. MediaStateEvent(active) \in InternalEvent
    BY InternalEventTypes
  <2>3. inv' = inv
    BY <1>6 DEF onCallMediaState
  <2> QED
    BY <1>0, <2>1, <2>2, <2>3, PushedFields DEF Pushes, pushEvent, IsState
<1>7. CASE onEof2
  <2>1. PlaybackEofEvent \in InternalEvent
    BY InternalEventTypes
  <2> QED
    BY <1>0, <1>7, <2>1, PushedFields DEF Pushes, pushEvent, IsState, onEof2
<1> QED
  BY <1>1, <1>2, <1>3, <1>4, <1>5, <1>6, <1>7 DEF WorkerThread, Callback

\* Every step of every thread is one of those four.
LEMMA LegStepKind == TypeOK /\ LegInv /\ [Next]_vars => LegStep
<1> SUFFICES ASSUME TypeOK, LegInv, [Next]_vars PROVE LegStep
  OBVIOUS
<1> USE DEF GoTo, Ended, Before, Forward
<1>1. CASE WorkerThread
  <2>1. pc' = pc
    BY <1>1 DEF WorkerThread, execVars
  <2> QED
    BY <1>1, <2>1, CallbackPushes DEF LegStep
<1>2. CASE CancelSet \/ CancelWake \/ Tick \/ Terminated \/ UNCHANGED vars
  BY <1>2 DEF CancelSet, CancelWake, Tick, Terminated, vars, agentVars, execVars,
              loopVars, timeVars, LegStep, Stands
<1>3. CASE Destroy
  BY <1>3 DEF Destroy, SipDestroy, loopVars, timeVars, LegStep, Vanishes
<1>4. CASE LoopTest \/ WaitEnter \/ TakeCancel \/ StartThrows \/ PlaceThrows
           \/ CallPoll \/ SetupThrows \/ PlayThrows \/ FinalPoll
  BY <1>4 DEF LoopTest, WaitEnter, TakeCancel, StartThrows, PlaceThrows, CallPoll,
              SetupThrows, PlayThrows, FinalPoll, At, DelayOver, Crash, Return,
              Loops, FinalLoops, agentVars, loopVars, timeVars, LegStep, Stands
<1>5. CASE Start \/ Play \/ EofPoll \/ HangUp
  BY <1>5 DEF Start, Play, EofPoll, HangUp, At, DelayOver, loopVars, timeVars,
              LegStep, Stands
<1>6. CASE RegPoll \/ CallTest
  BY <1>6 DEF RegPoll, CallTest, RegistrationFails, Return, At, agentVars,
              loopVars, timeVars, LegStep, Stands
<1>7. CASE Setup \/ Arm
  BY <1>7 DEF Setup, Arm, Return, At, agentVars, loopVars, timeVars, LegStep, Stands
<1>8. CASE RegEvent
  <2>1. pc = "reg" /\ pc' \in {"reg", "place", "done"}
    <3>1. \/ GoTo("reg")
          \/ GoTo("place")
          \/ RegistrationFails(ev.sip_code)
      BY <1>8 DEF RegEvent
    <3> QED
      BY <1>8, <3>1 DEF RegEvent, RegistrationFails, Return
  <2>2. /\ queue # <<>> /\ queue' = Tail(queue)
        /\ UNCHANGED <<inv, answered, call_connected>>
    BY <1>8 DEF RegEvent, Receives, loopVars, timeVars
  <2> QED
    BY <2>1, <2>2 DEF LegStep, Reads, Loops
<1>9. CASE Place
  <2> DEFINE e == CallStateEvent(INV_STATE_CALLING, 0)
  <2>1. e \in InternalEvent
    BY InternalEventTypes, InvStates
  <2>2. inv = INV_STATE_NULL /\ pc = "place"
    BY <1>9 DEF Place, At, LegInv
  <2>3. /\ queue' = Append(queue, e) /\ inv' = INV_STATE_CALLING
        /\ UNCHANGED <<answered, call_connected>> /\ pc' = "call"
    BY <1>9 DEF Place, placeCall, pushEvent, loopVars
  <2>4. Pushes(e)
    BY <2>1, <2>2, <2>3, PushedFields
       DEF Pushes, IsState, INV_STATE_NULL, INV_STATE_CALLING, INV_STATE_DISCONNECTED
  <2> HIDE DEF e
  <2> QED
    BY <2>2, <2>3, <2>4 DEF LegStep
<1>10. CASE CallEvent
  <2>0. /\ pc = "call" /\ queue # <<>> /\ queue' = Tail(queue) /\ inv' = inv
    BY <1>10 DEF CallEvent, Receives
  <2>1. CASE CallRinging
    BY <2>0, <2>1 DEF CallRinging, AfterCallEvent, IsCallState, LegStep, Reads,
                      Loops, INV_STATE_EARLY, INV_STATE_DISCONNECTED,
                      INV_STATE_CONFIRMED
  <2>2. CASE CallAnswered
    BY <2>0, <2>2 DEF CallAnswered, AfterCallEvent, IsCallState, LegStep, Reads,
                      Loops, INV_STATE_DISCONNECTED, INV_STATE_CONFIRMED
  <2>3. CASE CallRefused
    BY <2>0, <2>3 DEF CallRefused, IsCallState, LegStep, Reads, Loops,
                      INV_STATE_DISCONNECTED, INV_STATE_CONFIRMED
  <2>4. CASE CallMedia
    BY <2>0, <2>4 DEF CallMedia, AfterCallEvent, IsCallState, LegStep, Reads, Loops
  <2>5. CASE CallOther
    BY <2>0, <2>5 DEF CallOther, AfterCallEvent, LegStep, Reads, Loops
  <2> QED
    BY <1>10, <2>1, <2>2, <2>3, <2>4, <2>5 DEF CallEvent
<1>11. CASE EofEvent
  BY <1>11 DEF EofEvent, Receives, IsCallState, loopVars, timeVars, LegStep, Reads,
               Loops
<1>12. CASE FinalEvent
  BY <1>12 DEF FinalEvent, FinalLoops, Receives, loopVars, timeVars, LegStep, Reads,
               Loops
<1>13. CASE LegEnds
  BY <1>13 DEF LegEnds, Receives, loopVars, timeVars, LegStep, Reads, Loops
<1>14. CASE Listen
  <2>1. pc = "listen" /\ pc' \in {"listen", "hangup"}
    BY <1>14 DEF Listen, Sample
  <2>2. UNCHANGED <<inv, answered, call_connected>>
    BY <1>14 DEF Listen, loopVars, timeVars
  <2>3. CASE UNCHANGED queue
    BY <2>1, <2>2, <2>3 DEF LegStep, Stands
  <2>4. CASE Receives /\ ~ IsCallState(ev, INV_STATE_DISCONNECTED)
    BY <2>1, <2>2, <2>4 DEF LegStep, Reads, Receives, Loops
  <2> QED
    BY <1>14, <2>3, <2>4 DEF Listen
<1> QED
  BY <1>1, <1>2, <1>3, <1>4, <1>5, <1>6, <1>7, <1>8, <1>9, <1>10, <1>11, <1>12,
     <1>13, <1>14 DEF Next, Executor

-----------------------------------------------------------------------------
(* The leg's invariants are kept.                                          *)

\* What is left of a queue after its oldest event is read.
LEMMA TailItems ==
    ASSUME NEW q \in Seq(InternalEvent), q # <<>>
    PROVE  /\ Tail(q) \in Seq(InternalEvent)
           /\ Len(q) \in Nat /\ Len(q) > 0
           /\ Len(Tail(q)) = Len(q) - 1
           /\ \A i \in 1 .. Len(Tail(q)) : i + 1 \in 1 .. Len(q) /\ Tail(q)[i] = q[i + 1]
           /\ \A i \in 2 .. Len(q) : i - 1 \in 1 .. Len(Tail(q)) /\ Tail(q)[i - 1] = q[i]
           /\ Head(q) = q[1]
OBVIOUS

\* A queue after a push.
LEMMA PushItems ==
    ASSUME NEW q \in Seq(InternalEvent), NEW e \in InternalEvent
    PROVE  /\ Len(q) \in Nat
           /\ Len(Append(q, e)) = Len(q) + 1
           /\ Append(q, e)[Len(q) + 1] = e
           /\ \A i \in 1 .. Len(q) : Append(q, e)[i] = q[i]
OBVIOUS

\* The states of the leg, and of the events in the queue, as the code numbers them.
LEMMA LegTypes ==
    ASSUME TypeOK
    PROVE  /\ queue \in Seq(InternalEvent)
           /\ inv \in {0, 1, 3, 4, 5, 6}
           /\ answered \in BOOLEAN
           /\ \A i \in 1 .. Len(queue) :
                 queue[i].call_state \in {0, 1, 3, 4, 5, 6}
<1>0. InvState = {0, 1, 3, 4, 5, 6}
  BY DEF InvState, INV_STATE_NULL, INV_STATE_CALLING, INV_STATE_EARLY,
         INV_STATE_CONNECTING, INV_STATE_CONFIRMED, INV_STATE_DISCONNECTED
<1>1. queue \in Seq(InternalEvent) /\ inv \in InvState /\ answered \in BOOLEAN
  BY DEF TypeOK, SipTypeOK, ExecTypeOK
<1>2. \A i \in 1 .. Len(queue) : queue[i] \in InternalEvent
  BY <1>1
<1>3. \A e \in InternalEvent : e.call_state \in InvState
  BY DEF InternalEvent
<1> QED
  BY <1>0, <1>1, <1>2, <1>3

\* The same after a step.
LEMMA LegTypesNext ==
    ASSUME TypeOK'
    PROVE  inv' \in {0, 1, 3, 4, 5, 6} /\ answered' \in BOOLEAN
BY DEF TypeOK, SipTypeOK, ExecTypeOK, InvState, INV_STATE_NULL, INV_STATE_CALLING,
       INV_STATE_EARLY, INV_STATE_CONNECTING, INV_STATE_CONFIRMED,
       INV_STATE_DISCONNECTED

\* The queue stays in the order in which the leg moved.
LEMMA NextQueueOrder ==
    TypeOK /\ TypeOK' /\ QueueOrder /\ LegStep => QueueOrder'
<1> SUFFICES ASSUME TypeOK, TypeOK', QueueOrder, LegStep PROVE QueueOrder'
  OBVIOUS
<1>0. /\ queue \in Seq(InternalEvent) /\ inv \in {0, 1, 3, 4, 5, 6}
      /\ \A i \in 1 .. Len(queue) : queue[i].call_state \in {0, 1, 3, 4, 5, 6}
      /\ inv' \in {0, 1, 3, 4, 5, 6}
  BY LegTypes, LegTypesNext
<1>1. CASE Stands
  BY <1>1 DEF Stands, QueueOrder
<1>2. CASE Reads
  <2>1. queue # <<>> /\ queue' = Tail(queue) /\ inv' = inv
    BY <1>2 DEF Reads
  <2>2. \A i \in 1 .. Len(queue') : i + 1 \in 1 .. Len(queue) /\ queue'[i] = queue[i + 1]
    BY <1>0, <2>1, TailItems
  <2>3. ASSUME NEW i \in 1 .. Len(queue'), IsState(queue'[i])
        PROVE  queue'[i].call_state \in 1 .. inv'
    BY <2>1, <2>2, <2>3 DEF QueueOrder
  <2>4. ASSUME NEW i \in 1 .. Len(queue'), NEW j \in 1 .. Len(queue'), i < j,
               IsState(queue'[i]), IsState(queue'[j])
        PROVE  \/ queue'[i].call_state < queue'[j].call_state
               \/ queue'[i].call_state = INV_STATE_EARLY
                  /\ queue'[j].call_state = INV_STATE_EARLY
    <3>1. i + 1 \in 1 .. Len(queue) /\ j + 1 \in 1 .. Len(queue) /\ i + 1 < j + 1
      BY <2>2, <2>4
    <3> QED
      BY <2>2, <2>4, <3>1 DEF QueueOrder
  <2> QED
    BY <2>3, <2>4 DEF QueueOrder
<1>3. ASSUME NEW e, Pushes(e) PROVE QueueOrder'
  <2>0. e \in InternalEvent /\ queue' = Append(queue, e)
    BY <1>3 DEF Pushes
  <2>1. /\ Len(queue) \in Nat /\ Len(queue') = Len(queue) + 1
        /\ queue'[Len(queue) + 1] = e
        /\ \A i \in 1 .. Len(queue) : queue'[i] = queue[i]
    BY <1>0, <2>0, PushItems
  <2>2. inv <= inv'
    BY <1>0, <1>3 DEF Pushes
  <2>3. \A i \in 1 .. Len(queue') : i \in 1 .. Len(queue) \/ i = Len(queue) + 1
    BY <2>1
  <2>4. ASSUME NEW i \in 1 .. Len(queue'), IsState(queue'[i])
        PROVE  queue'[i].call_state \in 1 .. inv'
    <3>1. CASE i \in 1 .. Len(queue)
      BY <1>0, <2>1, <2>2, <2>4, <3>1 DEF QueueOrder
    <3>2. CASE i = Len(queue) + 1
      BY <1>0, <1>3, <2>1, <2>4, <3>2 DEF Pushes, INV_STATE_EARLY
    <3> QED
      BY <2>3, <3>1, <3>2
  <2>5. ASSUME NEW i \in 1 .. Len(queue'), NEW j \in 1 .. Len(queue'), i < j,
               IsState(queue'[i]), IsState(queue'[j])
        PROVE  \/ queue'[i].call_state < queue'[j].call_state
               \/ queue'[i].call_state = INV_STATE_EARLY
                  /\ queue'[j].call_state = INV_STATE_EARLY
    <3>0. i \in 1 .. Len(queue)
      BY <2>1, <2>5
    <3>1. CASE j \in 1 .. Len(queue)
      BY <2>1, <2>5, <3>0, <3>1 DEF QueueOrder
    <3>2. CASE j = Len(queue) + 1
      <4>1. queue'[i].call_state \in 1 .. inv
        BY <2>1, <2>5, <3>0 DEF QueueOrder
      <4> QED
        BY <1>0, <1>3, <2>1, <2>5, <3>2, <4>1 DEF Pushes, INV_STATE_EARLY
    <3> QED
      BY <2>3, <3>1, <3>2
  <2> QED
    BY <2>4, <2>5 DEF QueueOrder
<1>4. CASE Vanishes
  BY <1>0, <1>4 DEF Vanishes, QueueOrder, INV_STATE_DISCONNECTED
<1> QED
  BY <1>1, <1>2, <1>3, <1>4 DEF LegStep

\* CONFIRMED is not lost on its way to step 4.
LEMMA NextAnswerSeen ==
    TypeOK /\ TypeOK' /\ Underway /\ Underway' /\ QueueOrder /\ LegInv /\ AnswerSeen
    /\ LegStep => AnswerSeen'
<1> SUFFICES ASSUME TypeOK, TypeOK', Underway, Underway', QueueOrder, LegInv,
                    AnswerSeen, LegStep, pc' \notin Ended
             PROVE  AnswerSeen'
  BY DEF AnswerSeen
<1> USE DEF INV_STATE_NULL, INV_STATE_CALLING, INV_STATE_EARLY,
            INV_STATE_CONNECTING, INV_STATE_CONFIRMED, INV_STATE_DISCONNECTED
<1>0. /\ queue \in Seq(InternalEvent) /\ inv \in {0, 1, 3, 4, 5, 6}
      /\ \A i \in 1 .. Len(queue) : queue[i].call_state \in {0, 1, 3, 4, 5, 6}
      /\ inv' \in {0, 1, 3, 4, 5, 6}
      /\ answered \in BOOLEAN /\ answered' \in BOOLEAN
  BY LegTypes, LegTypesNext
<1>p. pc \notin Ended
  BY DEF LegStep, Forward
<1>1. CASE Stands
  BY <1>1, <1>p DEF Stands, AnswerSeen
<1>2. CASE Reads
  <2>1. queue # <<>> /\ queue' = Tail(queue) /\ inv' = inv /\ ev = queue[1]
    BY <1>0, <1>2, TailItems DEF Reads, ev
  <2>2. /\ \A i \in 1 .. Len(queue') : i + 1 \in 1 .. Len(queue) /\ queue'[i] = queue[i + 1]
        /\ \A i \in 2 .. Len(queue) : i - 1 \in 1 .. Len(queue') /\ queue'[i - 1] = queue[i]
        /\ Len(queue) \in Nat /\ Len(queue) > 0
    BY <1>0, <2>1, TailItems
  <2>3. CASE pc = "call" /\ IsCallState(ev, INV_STATE_CONFIRMED)
    <3>1. answered'
      BY <1>2, <2>3 DEF Reads
    <3>2. IsState(queue[1]) /\ queue[1].call_state = 5
      BY <2>1, <2>3 DEF IsCallState, IsState
    <3>3. 1 \in 1 .. Len(queue)
      BY <2>2
    <3>4. inv \in {5, 6}
      BY <1>0, <3>2, <3>3 DEF QueueOrder
    <3>5. ASSUME NEW i \in 1 .. Len(queue'), IsState(queue'[i])
          PROVE  queue'[i].call_state = 6
      <4>1. i + 1 \in 1 .. Len(queue) /\ 1 < i + 1 /\ queue'[i] = queue[i + 1]
        BY <2>2
      <4>2. queue[1].call_state < queue[i + 1].call_state
            \/ queue[1].call_state = 3
        BY <3>2, <3>3, <3>5, <4>1 DEF QueueOrder
      <4> QED
        BY <1>0, <3>2, <4>1, <4>2
    <3> QED
      BY <2>1, <3>1, <3>4, <3>5 DEF AnswerSeen
  <2>4. CASE ~ (pc = "call" /\ IsCallState(ev, INV_STATE_CONFIRMED))
    <3>0. UNCHANGED <<answered, call_connected>>
      BY <1>2, <2>4 DEF Reads
    <3>1. CASE answered
      BY <1>p, <2>1, <2>2, <3>0, <3>1 DEF AnswerSeen
    <3>2. CASE ~ answered
      <4>1. pc \in {"call", "reg"}
        BY <1>2, <1>p, <3>2 DEF Reads, Loops, Underway, Inside
      <4>2. call_connected' = 0
        BY <1>p, <3>0, <3>2 DEF AnswerSeen
      <4>3. CASE pc = "reg"
        <5>1. inv = 0
          BY <4>3 DEF LegInv, Before
        <5>2. \A i \in 1 .. Len(queue) : ~ IsState(queue[i])
          BY <5>1 DEF QueueOrder
        <5> QED
          BY <2>1, <2>2, <3>0, <3>2, <4>2, <5>1, <5>2 DEF AnswerSeen, IsCallState, IsState
      <4>4. CASE pc = "call"
        <5>1. ~ IsCallState(queue[1], 5)
          BY <2>1, <2>4, <4>4
        <5>2. inv' = 5 => \E i \in 1 .. Len(queue') : IsCallState(queue'[i], 5)
          <6> SUFFICES ASSUME inv' = 5
                       PROVE  \E i \in 1 .. Len(queue') : IsCallState(queue'[i], 5)
            OBVIOUS
          <6>1. PICK i \in 1 .. Len(queue) : IsCallState(queue[i], 5)
            BY <1>p, <2>1, <3>2 DEF AnswerSeen
          <6>2. i \in 2 .. Len(queue)
            BY <2>2, <5>1, <6>1
          <6> QED
            BY <2>2, <6>1, <6>2
        <5>3. ASSUME NEW i \in 1 .. Len(queue'), IsCallState(queue'[i], 6),
                     queue'[i].sip_code = 200
              PROVE  \E j \in 1 .. (i - 1) : IsCallState(queue'[j], 5)
          <6>1. i + 1 \in 1 .. Len(queue) /\ queue'[i] = queue[i + 1]
            BY <2>2
          <6>2. PICK j \in 1 .. (i + 1 - 1) : IsCallState(queue[j], 5)
            BY <1>p, <3>2, <5>3, <6>1 DEF AnswerSeen
          <6>3. j \in 2 .. Len(queue) /\ j - 1 \in 1 .. (i - 1)
            BY <2>2, <5>1, <6>1, <6>2
          <6>4. queue'[j - 1] = queue[j]
            BY <2>2, <6>3
          <6> QED
            BY <6>2, <6>3, <6>4
        <5> QED
          BY <3>0, <3>2, <4>2, <5>2, <5>3 DEF AnswerSeen
      <4> QED
        BY <4>1, <4>3, <4>4
    <3> QED
      BY <3>1, <3>2
  <2> QED
    BY <2>3, <2>4
<1>3. ASSUME NEW e, Pushes(e) PROVE AnswerSeen'
  <2>0. /\ e \in InternalEvent /\ queue' = Append(queue, e)
        /\ UNCHANGED <<answered, call_connected>>
    BY <1>3 DEF Pushes
  <2>1. /\ Len(queue) \in Nat /\ Len(queue') = Len(queue) + 1
        /\ queue'[Len(queue) + 1] = e
        /\ \A i \in 1 .. Len(queue) : queue'[i] = queue[i]
    BY <1>0, <2>0, PushItems
  <2>2. \A i \in 1 .. Len(queue') : i \in 1 .. Len(queue) \/ i = Len(queue) + 1
    BY <2>1
  <2>3. CASE answered
    <3>1. inv' \in {5, 6} /\ (IsState(e) => e.call_state = 6)
      BY <1>0, <1>3, <1>p, <2>3 DEF AnswerSeen, Pushes
    <3>2. \A i \in 1 .. Len(queue') : IsState(queue'[i]) => queue'[i].call_state = 6
      BY <1>p, <2>1, <2>2, <2>3, <3>1 DEF AnswerSeen
    <3> QED
      BY <2>0, <2>3, <3>1, <3>2 DEF AnswerSeen
  <2>4. CASE ~ answered
    <3>1. call_connected' = 0
      BY <1>p, <2>0, <2>4 DEF AnswerSeen
    <3>2. inv = 5 => \E i \in 1 .. Len(queue') : IsCallState(queue'[i], 5)
      <4> SUFFICES ASSUME inv = 5
                   PROVE  \E i \in 1 .. Len(queue') : IsCallState(queue'[i], 5)
        OBVIOUS
      <4>1. PICK i \in 1 .. Len(queue) : IsCallState(queue[i], 5)
        BY <1>p, <2>4 DEF AnswerSeen
      <4> QED
        BY <2>1, <4>1
    <3>3. inv' = 5 => \E i \in 1 .. Len(queue') : IsCallState(queue'[i], 5)
      <4>1. CASE inv' = inv
        BY <3>2, <4>1
      <4>2. CASE inv' # inv
        <5>1. IsState(e) /\ e.call_state = inv'
          BY <1>3, <4>2 DEF Pushes
        <5>2. Len(queue) + 1 \in 1 .. Len(queue')
          BY <2>1
        <5> QED
          BY <2>1, <5>1, <5>2 DEF IsCallState, IsState
      <4> QED
        BY <4>1, <4>2
    <3>4. ASSUME NEW i \in 1 .. Len(queue'), IsCallState(queue'[i], 6),
                 queue'[i].sip_code = 200
          PROVE  \E j \in 1 .. (i - 1) : IsCallState(queue'[j], 5)
      <4>1. CASE i \in 1 .. Len(queue)
        <5>1. PICK j \in 1 .. (i - 1) : IsCallState(queue[j], 5)
          BY <1>p, <2>1, <2>4, <3>4, <4>1 DEF AnswerSeen
        <5>2. j \in 1 .. Len(queue)
          BY <2>1, <4>1
        <5> QED
          BY <2>1, <5>1, <5>2
      <4>2. CASE i = Len(queue) + 1
        <5>1. inv = 5
          BY <1>3, <2>1, <3>4, <4>2 DEF Pushes, IsCallState, IsState
        <5>2. PICK j \in 1 .. Len(queue) : IsCallState(queue[j], 5)
          BY <1>p, <2>4, <5>1 DEF AnswerSeen
        <5>3. j \in 1 .. (i - 1)
          BY <2>1, <4>2
        <5> QED
          BY <2>1, <5>2, <5>3
      <4> QED
        BY <2>2, <4>1, <4>2
    <3> QED
      BY <2>0, <2>4, <3>1, <3>3, <3>4 DEF AnswerSeen
  <2> QED
    BY <2>3, <2>4
<1>4. CASE Vanishes
  BY <1>4 DEF Vanishes, Ended
<1> QED
  BY <1>1, <1>2, <1>3, <1>4 DEF LegStep

\* No leg before the INVITE, and none forgotten: the timeout and step 8 hang up.
LEMMA NextLegInv ==
    TypeOK /\ LegInv /\ [Next]_vars => LegInv'
<1> SUFFICES ASSUME TypeOK, LegInv, [Next]_vars PROVE LegInv'
  OBVIOUS
<1> USE DEF GoTo, Ended, Before
<1>0. inv \in InvState /\ hangingUp \in BOOLEAN /\ answer_timeout_hit \in BOOLEAN
  BY DEF TypeOK, SipTypeOK, ExecTypeOK
\* A step that leaves the leg alone and run() on its way.
<1>a. ASSUME inv' = inv, answer_timeout_hit' = answer_timeout_hit,
             hangingUp' = hangingUp \/ hangingUp' = (hangingUp \/ LegAlive),
             pc' \in Before => pc \in Before,
             pc' = "bye" => pc = "bye"
      PROVE  LegInv'
  BY <1>0, <1>a DEF LegInv, LegAlive
<1>1. CASE WorkerThread
  <2>0. UNCHANGED <<pc, answer_timeout_hit, hangingUp>>
    BY <1>1 DEF WorkerThread, execVars, loopVars, Callback, onRegState, Ringing,
                PickedUp, Confirmed, Disconnected, onCallMediaState, onEof2,
                onCallState
  <2>1. inv' = inv \/ LegAlive
    BY <1>1 DEF WorkerThread, Callback, onRegState, Ringing, PickedUp, Confirmed,
                Disconnected, onCallMediaState, onEof2, LegAlive, INV_STATE_NULL,
                INV_STATE_CALLING, INV_STATE_EARLY, INV_STATE_CONNECTING,
                INV_STATE_CONFIRMED, INV_STATE_DISCONNECTED
  <2> QED
    BY <2>0, <2>1 DEF LegInv, LegAlive
<1>2. CASE CancelSet \/ CancelWake \/ Tick \/ Terminated \/ UNCHANGED vars
  BY <1>2, <1>a DEF CancelSet, CancelWake, Tick, Terminated, vars, agentVars,
              execVars, loopVars
<1>3. CASE Destroy
  <2>1. ~ LegAlive'
    BY <1>3 DEF Destroy, SipDestroy, LegAlive
  <2> QED
    BY <1>3, <2>1 DEF Destroy, LegInv
<1>4. CASE LoopTest \/ WaitEnter \/ TakeCancel \/ StartThrows \/ PlaceThrows
           \/ CallPoll \/ SetupThrows \/ PlayThrows \/ FinalPoll
  BY <1>4, <1>a
     DEF LoopTest, WaitEnter, TakeCancel, StartThrows, PlaceThrows, CallPoll,
         SetupThrows, PlayThrows, FinalPoll, At, Crash, Return, FinalLoops, hangup,
         agentVars, loopVars
<1>5. CASE Start \/ Play \/ EofPoll
  BY <1>5, <1>a DEF Start, Play, EofPoll, hangup, loopVars
<1>6. CASE HangUp
  BY <1>0, <1>6 DEF HangUp, hangup, At, LegInv, LegAlive
<1>7. CASE RegPoll \/ RegEvent
  <2>1. pc = "reg" /\ pc' \in {"reg", "place", "done"}
    BY <1>7 DEF RegPoll, RegEvent, RegistrationFails, Return
  <2> QED
    BY <1>7, <2>1, <1>a DEF RegPoll, RegEvent, agentVars, loopVars
<1>8. CASE CallTest
  <2>1. /\ pc = "call" /\ pc' \in {"call", "done"} /\ inv' = inv
    BY <1>8 DEF CallTest, At, Return
  <2>2. LegAlive' = LegAlive
    BY <2>1 DEF LegAlive
  <2>3. CASE hangup
    BY <1>0, <2>1, <2>2, <2>3 DEF LegInv, hangup
  <2>4. CASE ~ hangup
    <3>1. hangingUp' = hangingUp /\ answer_timeout_hit' = TimedOut
      BY <1>8, <2>4 DEF CallTest, answerTimeout
    <3>2. TimedOut => answer_timeout_hit
      BY <1>8, <2>4 DEF CallTest, answerTimeout
    <3>3. answer_timeout_hit' => answer_timeout_hit
      BY <3>1, <3>2
    <3> QED
      BY <2>1, <2>2, <3>1, <3>3 DEF LegInv
  <2> QED
    BY <2>3, <2>4
<1>9. CASE Place
  BY <1>9 DEF Place, At, loopVars, LegInv
<1>10. CASE CallEvent
  <2>1. pc = "call" /\ pc' \in {"call", "setup", "done"}
    BY <1>10 DEF CallEvent, CallRinging, CallAnswered, CallRefused, CallMedia,
                 CallOther, AfterCallEvent
  <2> QED
    BY <1>10, <2>1, <1>a DEF CallEvent
<1>11. CASE Setup \/ Arm \/ EofEvent \/ FinalEvent \/ LegEnds
  BY <1>11, <1>a DEF Setup, Arm, EofEvent, FinalEvent, LegEnds, FinalLoops,
                     Return, At, agentVars, loopVars
<1>12. CASE Listen
  BY <1>12, <1>a DEF Listen, Sample, loopVars
<1> QED
  BY <1>1, <1>2, <1>3, <1>4, <1>5, <1>6, <1>7, <1>8, <1>9, <1>10, <1>11, <1>12
     DEF Next, Executor

\* The recorder is open only from step 5 on, where result_ names the recording.
LEMMA NextRecorderInv ==
    TypeOK /\ Underway /\ RecorderInv /\ [Next]_vars => RecorderInv'
<1> SUFFICES ASSUME TypeOK, Underway, RecorderInv, [Next]_vars PROVE RecorderInv'
  OBVIOUS
<1> USE DEF GoTo, Ended, Recording, Inside
<1>0. result \in Result
  BY DEF TypeOK, ExecTypeOK
<1>a. ASSUME recorder' = recorder, result' = result,
             pc' = pc \/ pc' \in Ended \/ <<pc, pc'>> \in
                {<<"start", "reg">>, <<"reg", "place">>, <<"place", "call">>,
                 <<"call", "setup">>, <<"delay", "eof">>, <<"eof", "drain">>,
                 <<"eof", "arm">>, <<"arm", "listen">>, <<"listen", "hangup">>,
                 <<"hangup", "bye">>}
      PROVE  RecorderInv'
  BY <1>a DEF RecorderInv
<1>b. ASSUME pc' \in Ended PROVE RecorderInv'
  BY <1>b DEF RecorderInv
<1>1. CASE WorkerThread
  BY <1>1, <1>a DEF WorkerThread, execVars, Callback, onRegState, Ringing,
                    PickedUp, Confirmed, Disconnected, onCallMediaState, onEof2,
                    onCallState
<1>2. CASE CancelSet \/ CancelWake \/ Tick \/ Terminated \/ UNCHANGED vars
  BY <1>2, <1>a DEF CancelSet, CancelWake, Tick, Terminated, vars, agentVars, execVars
<1>3. CASE TakeCancel \/ StartThrows \/ PlaceThrows \/ SetupThrows \/ PlayThrows
           \/ LegEnds \/ Destroy
  BY <1>3, <1>b DEF TakeCancel, StartThrows, PlaceThrows, SetupThrows, PlayThrows,
                    LegEnds, Destroy, Crash, Return
<1>4. CASE LoopTest \/ WaitEnter \/ CallPoll \/ FinalPoll \/ FinalEvent
  BY <1>4, <1>a DEF LoopTest, WaitEnter, CallPoll, FinalPoll, FinalEvent, agentVars
<1>5. CASE Start \/ Place \/ Play \/ EofPoll \/ EofEvent \/ HangUp
  BY <1>5, <1>a DEF Start, Place, Play, EofPoll, EofEvent, HangUp, At, DelayOver
<1>6. CASE RegPoll
  BY <1>6, <1>a, <1>b DEF RegPoll, RegistrationFails, Return, agentVars
<1>7. CASE RegEvent
  <2>1. \/ GoTo("reg") /\ UNCHANGED <<result, events>>
        \/ GoTo("place") /\ UNCHANGED result
        \/ RegistrationFails(ev.sip_code)
    BY <1>7 DEF RegEvent
  <2> QED
    BY <1>7, <2>1, <1>a, <1>b DEF RegEvent, RegistrationFails, Return
<1>8. CASE CallTest
  BY <1>8, <1>a, <1>b DEF CallTest, Return
<1>9. CASE CallEvent
  <2>0. pc = "call"
    BY <1>9 DEF CallEvent
  <2>1. CASE CallAnswered
    BY <2>0, <2>1 DEF CallAnswered, AfterCallEvent, RecorderInv
  <2>2. CASE CallRefused
    BY <2>2, <1>b DEF CallRefused
  <2>3. CASE CallRinging \/ CallMedia \/ CallOther
    BY <2>0, <2>3, <1>a DEF CallRinging, CallMedia, CallOther, AfterCallEvent
  <2> QED
    BY <1>9, <2>1, <2>2, <2>3 DEF CallEvent
<1>10. CASE Setup
  <2>1. CASE GaveUp
    BY <1>10, <2>1, <1>b DEF Setup, Return
  <2>2. CASE ~ GaveUp
    <3>1. result' = [result EXCEPT !.recording = TRUE] /\ pc' = "delay"
      BY <1>10, <2>2 DEF Setup
    <3>2. result'.recording
      BY <1>0, <3>1 DEF Result
    <3> QED
      BY <3>1, <3>2 DEF RecorderInv
  <2> QED
    BY <2>1, <2>2
<1>11. CASE Arm
  BY <1>11, <1>a, <1>b DEF Arm, At, Return, agentVars
<1>12. CASE Listen
  BY <1>12, <1>a DEF Listen, Sample
<1> QED
  BY <1>1, <1>2, <1>3, <1>4, <1>5, <1>6, <1>7, <1>8, <1>9, <1>10, <1>11, <1>12
     DEF Next, Executor

\* In every reachable state the queue tells the leg's moves in order, CONFIRMED
\* is read or still to be read, and no leg that run() gave up is left alone.
LEMMA LegInvariant ==
    Spec => [](/\ TypeOK /\ Underway /\ OneResult /\ ReturnMatchesStream
               /\ QueueOrder /\ AnswerSeen /\ LegInv /\ RecorderInv)
<1>1. Init => QueueOrder /\ AnswerSeen /\ LegInv /\ RecorderInv
  <2> SUFFICES ASSUME Init PROVE QueueOrder /\ AnswerSeen /\ LegInv /\ RecorderInv
    OBVIOUS
  <2>1. /\ Len(queue) = 0 /\ inv = 0 /\ pc = "start" /\ ~ answered
        /\ call_connected = 0 /\ ~ answer_timeout_hit /\ recorder = "none"
    BY DEF Init, SipInit, INV_STATE_NULL
  <2> QED
    BY <2>1 DEF QueueOrder, AnswerSeen, LegInv, RecorderInv, LegAlive, Recording,
                Inside, INV_STATE_NULL, INV_STATE_CONFIRMED
<1>2. /\ TypeOK /\ Underway /\ OneResult /\ ReturnMatchesStream
      /\ TypeOK' /\ Underway'
      /\ QueueOrder /\ AnswerSeen /\ LegInv /\ RecorderInv /\ [Next]_vars
      => QueueOrder' /\ AnswerSeen' /\ LegInv' /\ RecorderInv'
  BY LegStepKind, NextQueueOrder, NextAnswerSeen, NextLegInv, NextRecorderInv
<1> QED
  BY <1>1, <1>2, StreamInvariant, PTL DEF Spec

-----------------------------------------------------------------------------
(* Nothing that the callbacks report is dropped.                           *)

\* While run() waits for the end of the playback it reads the queue, and nothing
\* but that end makes it stop waiting and go on with step 7.
LEMMA EofStep ==
    ASSUME TypeOK, [Next]_vars, player' = "ended", pc' = "eof"
    PROVE  \/ /\ player = "ended" /\ pc = "eof"
              /\ \/ queue' = queue
                 \/ \E e \in InternalEvent : queue' = Append(queue, e)
                 \/ /\ queue # <<>> /\ queue' = Tail(queue)
                    /\ ev.type # "PLAYBACK_EOF"
           \/ queue' = Append(queue, PlaybackEofEvent)
<1> USE DEF GoTo, Ended
<1>1. CASE WorkerThread
  <2>0. pc' = pc
    BY <1>1 DEF WorkerThread, execVars
  <2>1. CASE onEof2
    BY <2>1 DEF onEof2, pushEvent
  <2>2. CASE ~ onEof2
    <3>1. player' = player
      BY <1>1, <2>2 DEF WorkerThread, Callback, onRegState, Ringing, PickedUp,
                        Confirmed, Disconnected, onCallMediaState, onCallState
    <3>2. \E e \in InternalEvent : queue' = Append(queue, e)
      BY <1>1, CallbackPushes DEF Pushes
    <3> QED
      BY <2>0, <3>1, <3>2
  <2> QED
    BY <2>1, <2>2
<1>2. CASE CancelSet \/ CancelWake \/ Tick \/ Terminated \/ UNCHANGED vars
  BY <1>2 DEF CancelSet, CancelWake, Tick, Terminated, vars, agentVars, execVars
<1>3. CASE Destroy \/ TakeCancel \/ StartThrows \/ PlaceThrows \/ SetupThrows
           \/ PlayThrows \/ LegEnds \/ Start \/ Place \/ HangUp
  BY <1>3 DEF Destroy, TakeCancel, StartThrows, PlaceThrows, SetupThrows,
              PlayThrows, LegEnds, Start, Place, HangUp, Crash, Return
<1>4. CASE LoopTest \/ WaitEnter
  BY <1>4 DEF LoopTest, WaitEnter, agentVars
<1>5. CASE RegPoll \/ RegEvent \/ CallTest \/ CallPoll \/ Setup \/ Arm \/ FinalPoll
           \/ FinalEvent
  BY <1>5 DEF RegPoll, RegEvent, CallTest, CallPoll, Setup, Arm, FinalPoll,
              FinalEvent, FinalLoops, RegistrationFails, Return, At
<1>6. CASE CallEvent
  BY <1>6 DEF CallEvent, CallRinging, CallAnswered, CallRefused, CallMedia,
              CallOther, AfterCallEvent
<1>7. CASE Play
  BY <1>7 DEF Play, startPlayer
<1>8. CASE EofPoll
  BY <1>8 DEF EofPoll
<1>9. CASE EofEvent
  BY <1>9 DEF EofEvent, Receives
<1>10. CASE Listen
  BY <1>10 DEF Listen, Sample
<1> QED
  BY <1>1, <1>2, <1>3, <1>4, <1>5, <1>6, <1>7, <1>8, <1>9, <1>10 DEF Next, Executor

\* An event that some test picks out stays in a queue that grows, and in a queue
\* whose oldest event the test does not pick out.
LEMMA StaysQueued ==
    ASSUME NEW q \in Seq(InternalEvent), NEW r, NEW k \in 1 .. Len(q),
           \/ r = q
           \/ \E e \in InternalEvent : r = Append(q, e)
           \/ q # <<>> /\ r = Tail(q) /\ Head(q) # q[k]
    PROVE  \E m \in DOMAIN r : r[m] = q[k]
<1>0. Len(q) \in Nat /\ DOMAIN q = 1 .. Len(q)
  OBVIOUS
<1>1. CASE r = q
  BY <1>0, <1>1
<1>2. ASSUME NEW e \in InternalEvent, r = Append(q, e)
      PROVE  \E m \in DOMAIN r : r[m] = q[k]
  <2>1. Len(r) = Len(q) + 1 /\ r[k] = q[k]
    BY <1>2, PushItems
  <2>2. r \in Seq(InternalEvent)
    BY <1>2
  <2>3. k \in DOMAIN r
    <3>1. DOMAIN r = 1 .. Len(r)
      BY <2>2
    <3>2. k \in 1 .. (Len(q) + 1)
      BY <1>0
    <3> QED
      BY <2>1, <3>1, <3>2
  <2> QED
    BY <2>1, <2>3
<1>3. CASE q # <<>> /\ r = Tail(q) /\ Head(q) # q[k]
  <2>0. k # 1
    BY <1>3, TailItems
  <2>1. k \in 2 .. Len(q)
    BY <1>0, <2>0
  <2>2. k - 1 \in 1 .. Len(r) /\ r[k - 1] = q[k] /\ r \in Seq(InternalEvent)
    BY <1>3, <2>1, TailItems
  <2>3. DOMAIN r = 1 .. Len(r)
    BY <2>2
  <2> QED
    BY <2>2, <2>3
<1> QED
  BY <1>1, <1>2, <1>3

\* Neither end is dropped by any step.
LEMMA NextNothingDropped ==
    TypeOK /\ LegInv /\ NothingDropped /\ [Next]_vars => NothingDropped'
<1> SUFFICES ASSUME TypeOK, LegInv, NothingDropped, [Next]_vars
             PROVE  NothingDropped'
  OBVIOUS
<1>0. queue \in Seq(InternalEvent) /\ DOMAIN queue = 1 .. Len(queue)
  BY DEF TypeOK, SipTypeOK
<1>s. LegStep
  BY LegStepKind
<1>1. ASSUME inv' = INV_STATE_DISCONNECTED, pc' \notin Ended
      PROVE  \E i \in DOMAIN queue' : IsCallState(queue'[i], INV_STATE_DISCONNECTED)
  <2>0. pc \notin Ended
    BY <1>1, <1>s DEF LegStep, Forward
  <2>1. ASSUME inv = INV_STATE_DISCONNECTED,
               \/ queue' = queue
               \/ \E e \in InternalEvent : queue' = Append(queue, e)
               \/ /\ queue # <<>> /\ queue' = Tail(queue)
                  /\ ~ IsCallState(Head(queue), INV_STATE_DISCONNECTED)
        PROVE  \E i \in DOMAIN queue' : IsCallState(queue'[i], INV_STATE_DISCONNECTED)
    <3>1. PICK k \in 1 .. Len(queue) : IsCallState(queue[k], INV_STATE_DISCONNECTED)
      BY <1>0, <2>0, <2>1 DEF NothingDropped
    <3>2. \E m \in DOMAIN queue' : queue'[m] = queue[k]
      BY <1>0, <2>1, <3>1, StaysQueued
    <3> QED
      BY <3>1, <3>2
  <2>2. CASE Stands
    BY <1>1, <2>1, <2>2 DEF Stands
  <2>3. CASE Reads
    <3>1. /\ queue # <<>> /\ queue' = Tail(queue) /\ inv' = inv
          /\ IsCallState(Head(queue), INV_STATE_DISCONNECTED) => pc = "reg" \/ pc' = "done"
      BY <2>3 DEF Reads, ev
    <3>2. pc # "reg"
      BY <1>1, <3>1 DEF LegInv, Before, INV_STATE_NULL, INV_STATE_DISCONNECTED
    <3> QED
      BY <1>1, <2>1, <3>1, <3>2 DEF Ended
  <2>4. ASSUME NEW e, Pushes(e)
        PROVE  \E i \in DOMAIN queue' : IsCallState(queue'[i], INV_STATE_DISCONNECTED)
    <3>1. e \in InternalEvent /\ queue' = Append(queue, e)
      BY <2>4 DEF Pushes
    <3>2. CASE inv = INV_STATE_DISCONNECTED
      BY <2>1, <3>1, <3>2
    <3>3. CASE inv # INV_STATE_DISCONNECTED
      <4>1. IsCallState(e, INV_STATE_DISCONNECTED)
        BY <1>1, <2>4, <3>3 DEF Pushes, IsCallState, IsState
      <4>2. Len(queue) + 1 \in DOMAIN queue' /\ queue'[Len(queue) + 1] = e
        BY <1>0, <3>1
      <4> QED
        BY <4>1, <4>2
    <3> QED
      BY <3>2, <3>3
  <2>5. CASE Vanishes
    BY <1>1, <2>5 DEF Vanishes, Ended
  <2> QED
    BY <1>s, <2>2, <2>3, <2>4, <2>5 DEF LegStep
<1>2. ASSUME player' = "ended", pc' = "eof"
      PROVE  \E i \in DOMAIN queue' : queue'[i].type = "PLAYBACK_EOF"
  <2>1. CASE queue' = Append(queue, PlaybackEofEvent)
    <3>1. Len(queue) + 1 \in DOMAIN queue' /\ queue'[Len(queue) + 1] = PlaybackEofEvent
      BY <1>0, <2>1, InternalEventTypes
    <3> QED
      BY <3>1, PushedFields
  <2>2. CASE queue' # Append(queue, PlaybackEofEvent)
    <3>1. /\ player = "ended" /\ pc = "eof"
          /\ \/ queue' = queue
             \/ \E e \in InternalEvent : queue' = Append(queue, e)
             \/ /\ queue # <<>> /\ queue' = Tail(queue)
                /\ Head(queue).type # "PLAYBACK_EOF"
      BY <1>2, <2>2, EofStep DEF ev
    <3>2. PICK k \in 1 .. Len(queue) : queue[k].type = "PLAYBACK_EOF"
      BY <1>0, <3>1 DEF NothingDropped
    <3>3. \/ queue' = queue
          \/ \E e \in InternalEvent : queue' = Append(queue, e)
          \/ queue # <<>> /\ queue' = Tail(queue) /\ Head(queue) # queue[k]
      BY <3>1, <3>2
    <3>4. \E m \in DOMAIN queue' : queue'[m] = queue[k]
      BY <1>0, <3>3, StaysQueued
    <3> QED
      BY <3>2, <3>4
  <2> QED
    BY <2>1, <2>2
<1> QED
  BY <1>1, <1>2 DEF NothingDropped

\* Whatever order the callbacks come in, no loop of run() drops the end of the
\* leg, and none drops the end of the playback while run() waits for it.
THEOREM NothingDroppedCorrect == Spec => []NothingDropped
<1>1. Init => NothingDropped
  BY DEF Init, SipInit, NothingDropped, INV_STATE_NULL, INV_STATE_DISCONNECTED
<1>2. TypeOK /\ LegInv /\ NothingDropped /\ [Next]_vars => NothingDropped'
  BY NextNothingDropped
<1> QED
  BY <1>1, <1>2, LegInvariant, PTL DEF Spec

-----------------------------------------------------------------------------
(* What is said, and where run() is then.                                  *)

\* The status of the newest event.
Last == events[Len(events)].status

\* What the client heard last, at each statement of run().
Said ==
    /\ pc = "start" => events = <<>>
    /\ pc \notin Ended \cup {"start"} => events # <<>>
    /\ pc = "reg" => Last = "REGISTERING"
    /\ pc = "place" => Last = "REGISTERED"
    /\ pc = "call" /\ ~ answered => Last \in {"DIALING", "RINGING"}
    /\ (pc = "call" /\ answered) \/ pc \in {"setup", "delay"} => Last = "ANSWERED"
    /\ pc \in {"eof", "drain"} => Last = "PLAYING"
    /\ pc \in {"arm", "listen", "hangup"} => Last = "PLAYED"
    /\ pc = "bye" => Last = "HANGING_UP"

\* May e come next?
Follows(e) ==
    IF events = <<>>
    THEN Seen(e) = Stream!State("REGISTERING")
    ELSE Seen(e) \in Stream!After(Seen(events[Len(events)]))

\* An event that needs an answer: a result ANSWERED, a bill, a recording.
Costs(e) ==
    \/ e.is_result /\ e.status = "ANSWERED"
    \/ e.billing_seconds > 0 /\ e.status # "SILENCE_DETECTED"
    \/ e.recording

\* The three kinds of step in the client's eyes: nothing is said, and run()
\* goes on, breaks down or is cancelled; one event is said; two are.
SaysNothing ==
    /\ events' = events /\ answered' = answered
    /\ \/ /\ Returned /\ Returned' /\ result' = result
          /\ pc' = "done" => pc = "done"
          /\ recorder' \in {recorder, "closed"}
       \/ pc = "crashed" /\ pc' = "crashed"
       \/ pc \notin Ended /\ ~ Returned'
       \/ pc \notin Ended /\ pc' = "done" /\ result'.status = "CANCELLED" /\ Cancelled

\* A result ends run(), with the recorder closed.
Ends(e) ==
    /\ pc \notin Ended /\ pc' # "destroyed"
    /\ result_event(e) <=> pc' = "done"
    /\ pc' = "done" => recorder' # "open" /\ result'.status # "CANCELLED"

SaysOne(e) ==
    /\ e \in AgentEvent /\ Follows(e)
    /\ events' = Append(events, e)
    /\ Costs(e) => answered
    /\ e.status # "RECORDING_READY"
    /\ answered' = answered \/ e = StateEvent("ANSWERED")
    /\ Ends(e)

SaysTwo(d, e) ==
    /\ d \in AgentEvent /\ e \in AgentEvent
    /\ Follows(d) /\ Seen(e) \in Stream!After(Seen(d))
    /\ events' = events \o <<d, e>>
    /\ Costs(d) \/ Costs(e) => answered
    /\ e.status # "RECORDING_READY" /\ ~ result_event(d)
    /\ d.status = "RECORDING_READY" => pc' = "done"
    /\ answered' = answered
    /\ Ends(e)

Speaks == SaysNothing \/ (\E e : SaysOne(e)) \/ (\E d, e : SaysTwo(d, e))

\* The order of the contract, as far as run() makes use of it.
LEMMA Order ==
    /\ Stream!State("REGISTERED") \in Stream!After(Stream!State("REGISTERING"))
    /\ Stream!Final("FAILED") \in Stream!After(Stream!State("REGISTERING"))
    /\ Stream!State("DIALING") \in Stream!After(Stream!State("REGISTERED"))
    /\ \A s \in {"DIALING", "RINGING"} :
          /\ Stream!State("RINGING") \in Stream!After(Stream!State(s))
          /\ Stream!State("ANSWERED") \in Stream!After(Stream!State(s))
          /\ \A f \in {"BUSY", "NO_ANSWER", "FAILED"} :
                Stream!Final(f) \in Stream!After(Stream!State(s))
    /\ Stream!State("PLAYING") \in Stream!After(Stream!State("ANSWERED"))
    /\ Stream!Final("ANSWERED") \in Stream!After(Stream!State("ANSWERED"))
    /\ Stream!Final("NO_ANSWER") \in Stream!After(Stream!State("ANSWERED"))
    /\ Stream!State("PLAYED") \in Stream!After(Stream!State("PLAYING"))
    /\ Stream!State("SILENCE_DETECTED") \in Stream!After(Stream!State("PLAYED"))
    /\ Stream!State("HANGING_UP") \in Stream!After(Stream!State("SILENCE_DETECTED"))
    /\ \A s \in {"PLAYING", "PLAYED", "HANGING_UP"} :
          Stream!State("RECORDING_READY") \in Stream!After(Stream!State(s))
    /\ Stream!Final("ANSWERED") \in Stream!After(Stream!State("RECORDING_READY"))
<1>0. \A s, t : (Stream!State(s) = Stream!State(t)) <=> (s = t)
  BY DEF Stream!State
<1> USE <1>0
<1>1. Stream!After(Stream!State("REGISTERING"))
         = {Stream!State("REGISTERED"), Stream!Final("FAILED")}
  BY DEF Stream!After
<1>2. Stream!After(Stream!State("REGISTERED")) = {Stream!State("DIALING")}
  BY DEF Stream!After
<1>3. \A s \in {"DIALING", "RINGING"} :
         Stream!After(Stream!State(s))
            = {Stream!State("RINGING"), Stream!State("ANSWERED"),
               Stream!Final("BUSY"), Stream!Final("NO_ANSWER"), Stream!Final("FAILED")}
  BY DEF Stream!After
<1>4. Stream!After(Stream!State("ANSWERED"))
         = {Stream!State("PLAYING"), Stream!Final("ANSWERED"), Stream!Final("NO_ANSWER")}
  BY DEF Stream!After
<1>5. Stream!After(Stream!State("PLAYING"))
         = {Stream!State("PLAYED"), Stream!State("RECORDING_READY")}
  BY DEF Stream!After
<1>6. Stream!After(Stream!State("PLAYED"))
         = {Stream!State("SILENCE_DETECTED"), Stream!State("RECORDING_READY")}
  BY DEF Stream!After
<1>7. /\ Stream!After(Stream!State("SILENCE_DETECTED")) = {Stream!State("HANGING_UP")}
      /\ Stream!After(Stream!State("HANGING_UP")) = {Stream!State("RECORDING_READY")}
      /\ Stream!After(Stream!State("RECORDING_READY")) = {Stream!Final("ANSWERED")}
  BY DEF Stream!After
<1> QED
  BY <1>1, <1>2, <1>3, <1>4, <1>5, <1>6, <1>7

\* An announcement is seen as a state, costs nothing and is no result.
LEMMA SeenState ==
    ASSUME NEW s \in CallStatus \ AlwaysResult
    PROVE  /\ Seen(StateEvent(s)) = Stream!State(s)
           /\ StateEvent(s).status = s
           /\ ~ Costs(StateEvent(s)) /\ ~ result_event(StateEvent(s))
<1> DEFINE e == StateEvent(s)
<1>1. /\ e.status = s /\ e.is_result = FALSE /\ e.billing_seconds = 0
      /\ e.recording = FALSE
  BY DEF StateEvent, MakeEvent
<1> HIDE DEF e
<1>2. ~ Costs(e)
  BY <1>1 DEF Costs
<1>3. result_event(e) = FALSE
  BY <1>1 DEF result_event
<1>4. Seen(e) = Stream!State(s)
  BY <1>1, <1>3 DEF Seen, Stream!State
<1> QED
  BY <1>1, <1>2, <1>3, <1>4 DEF e

\* While run() is under way its newest event is a state.
LEMMA LastSeen ==
    ASSUME TypeOK, OneResult, ~ Returned, events # <<>>
    PROVE  Seen(events[Len(events)]) = Stream!State(Last)
<1>1. Len(events) \in DOMAIN events
  BY DEF TypeOK, ExecTypeOK
<1>2. result_event(events[Len(events)]) = FALSE
  BY <1>1 DEF OneResult, result_event
<1> QED
  BY <1>2 DEF Seen, Last, Stream!State

\* The newest event after a step that says something.
LEMMA LastSaid ==
    ASSUME TypeOK, NEW d \in AgentEvent, NEW e \in AgentEvent,
           events' = Append(events, e) \/ events' = events \o <<d, e>>
    PROVE  events' # <<>> /\ Last' = e.status
<1>1. events \in Seq(AgentEvent) /\ Len(events) \in Nat
  BY DEF TypeOK, ExecTypeOK
<1>2. CASE events' = Append(events, e)
  <2>1. Len(events') = Len(events) + 1 /\ events'[Len(events) + 1] = e
    BY <1>1, <1>2, Grown
  <2> QED
    BY <1>1, <2>1 DEF Last
<1>3. CASE events' = events \o <<d, e>>
  <2>1. Len(events') = Len(events) + 2 /\ events'[Len(events) + 2] = e
    BY <1>1, <1>3, Grown
  <2> QED
    BY <1>1, <2>1 DEF Last
<1> QED
  BY <1>2, <1>3

\* handleDisconnect() says the result, after RECORDING_READY if there is a
\* recording; a result ANSWERED or a bill needs the answer.
LEMMA DisconnectSpeaks ==
    ASSUME TypeOK, Underway, OneResult, RecorderInv, Said,
           NEW code \in Nat, handleDisconnect(code),
           pc \in {"call", "eof", "drain", "listen", "bye"},
           pc' = "done", answered' = answered,
           ~ answered => code # 200 /\ call_connected = 0
    PROVE  Speaks
<1> DEFINE ready == MakeEvent("RECORDING_READY", TRUE, Billing, 0, FALSE)
           final == MakeEvent(DisconnectStatus(code), result.recording, Billing,
                              code, TRUE)
<1>0. result \in Result /\ Billing \in Nat /\ answered \in BOOLEAN
  BY BillingType DEF TypeOK, ExecTypeOK
<1>1. DisconnectStatus(code) \in {"ANSWERED", "BUSY", "NO_ANSWER", "FAILED"}
  BY DEF DisconnectStatus, sipCodeToCallStatus
<1>2. answered => DisconnectStatus(code) = "ANSWERED"
  BY DEF Underway, Ended, DisconnectStatus
<1>3. ~ answered => DisconnectStatus(code) # "ANSWERED" /\ Billing = 0
  BY DEF DisconnectStatus, sipCodeToCallStatus, Billing
<1>4. result'.status = DisconnectStatus(code)
  BY <1>0 DEF handleDisconnect, Result
<1>5. recorder' # "open"
  BY DEF handleDisconnect, stopRecorder
<1>6. ready \in AgentEvent /\ final \in AgentEvent
  <2>1. result.recording \in BOOLEAN
    BY <1>0 DEF Result
  <2>2. DisconnectStatus(code) \in CallStatus /\ "RECORDING_READY" \in CallStatus
    BY <1>1, Statuses
  <2> QED
    BY <1>0, <2>1, <2>2, MakeEventType
<1>7. /\ Seen(ready) = Stream!State("RECORDING_READY") /\ ~ result_event(ready)
      /\ Seen(final) = Stream!Final(DisconnectStatus(code)) /\ result_event(final)
      /\ ready.status = "RECORDING_READY" /\ final.status = DisconnectStatus(code)
      /\ final.billing_seconds = Billing /\ final.recording = result.recording
  BY DEF Seen, result_event, MakeEvent, AlwaysResult, Stream!State, Stream!Final
<1>8. events # <<>> /\ Seen(events[Len(events)]) = Stream!State(Last)
  BY LastSeen DEF Said, Ended, Returned
<1>9. events' = events \o (IF result.recording THEN <<ready, final>> ELSE <<final>>)
  BY DEF handleDisconnect
<1> HIDE DEF ready, final
<1>10. CASE pc = "call"
  <2>1. result.recording = FALSE
    BY <1>0, <1>10 DEF Underway, Result
  <2>2. events' = Append(events, final)
    BY <1>6, <1>9, <2>1, Grown DEF TypeOK, ExecTypeOK
  <2>3. Last \in IF answered THEN {"ANSWERED"} ELSE {"DIALING", "RINGING"}
    BY <1>10 DEF Said
  <2>4. Seen(final) \in Stream!After(Stream!State(Last))
    <3>1. CASE answered
      BY <1>2, <1>7, <2>3, <3>1, Order
    <3>2. CASE ~ answered
      <4>1. Last \in {"DIALING", "RINGING"}
        BY <2>3, <3>2
      <4>2. DisconnectStatus(code) \in {"BUSY", "NO_ANSWER", "FAILED"}
        BY <1>1, <1>3, <3>2
      <4> QED
        BY <1>7, <4>1, <4>2, Order
    <3> QED
      BY <3>1, <3>2
  <2>5. Follows(final)
    BY <1>8, <2>4 DEF Follows
  <2>6. Costs(final) => answered
    BY <1>3, <1>7, <2>1 DEF Costs
  <2>7. Ends(final)
    BY <1>1, <1>4, <1>5, <1>7 DEF Ends, Ended
  <2>8. SaysOne(final)
    BY <1>1, <1>6, <1>7, <2>2, <2>5, <2>6, <2>7 DEF SaysOne
  <2> QED
    BY <2>8 DEF Speaks
<1>11. CASE pc # "call"
  <2>1. result.recording /\ answered
    BY <1>11 DEF RecorderInv, Recording, Inside, Underway
  <2>2. events' = events \o <<ready, final>>
    BY <1>9, <2>1
  <2>3. Last \in {"PLAYING", "PLAYED", "HANGING_UP"}
    BY <1>11 DEF Said
  <2>4. Seen(ready) \in Stream!After(Stream!State(Last))
        /\ Seen(final) \in Stream!After(Seen(ready))
    BY <1>2, <1>7, <2>1, <2>3, Order
  <2>5. Follows(ready)
    BY <1>8, <2>4 DEF Follows
  <2>6. Ends(final)
    BY <1>1, <1>4, <1>5, <1>7 DEF Ends, Ended
  <2>7. SaysTwo(ready, final)
    BY <1>1, <1>6, <1>7, <2>1, <2>2, <2>4, <2>5, <2>6 DEF SaysTwo
  <2> QED
    BY <2>7 DEF Speaks
<1> QED
  BY <1>10, <1>11

\* Every step speaks in order and leaves run() where its last word belongs.
LEMMA Spoken ==
    ASSUME TypeOK, Underway, OneResult, AnswerSeen, LegInv, RecorderInv, Said,
           [Next]_vars
    PROVE  Speaks /\ Said'
<1> USE DEF GoTo, Ended, Returned
<1>0. /\ result \in Result /\ events \in Seq(AgentEvent) /\ answered \in BOOLEAN
      /\ pc \in PC
  BY DEF TypeOK, ExecTypeOK
\* Nothing is said, and run() stays at its statement.
<1>a. ASSUME UNCHANGED <<events, answered, result>>, pc' = pc, recorder' \in {recorder, "closed"}
      PROVE  Speaks /\ Said'
  <2>1. Said'
    BY <1>a DEF Said, Last
  <2>2. SaysNothing
    BY <1>a DEF SaysNothing
  <2> QED
    BY <2>1, <2>2 DEF Speaks
\* Nothing is said, and run() goes on to another statement.
<1>b. ASSUME UNCHANGED <<events, answered>>,
             \/ pc' = "crashed" /\ pc \notin Ended
             \/ <<pc, pc'>> \in
                {<<"setup", "delay">>, <<"eof", "drain">>, <<"arm", "listen">>,
                 <<"listen", "hangup">>}
             \/ pc = "call" /\ pc' = "setup" /\ answered
      PROVE  Speaks /\ Said'
  <2>1. Said'
    BY <1>b DEF Said, Last
  <2>2. SaysNothing
    BY <1>b DEF SaysNothing
  <2> QED
    BY <2>1, <2>2 DEF Speaks
\* An announcement.
<1>c. ASSUME pc \notin Ended, pc' \notin {"done", "destroyed"},
             NEW s \in {"REGISTERING", "REGISTERED", "DIALING", "RINGING",
                        "ANSWERED", "PLAYING", "PLAYED"},
             emitEvent(StateEvent(s)),
             answered' = answered \/ s = "ANSWERED",
             IF events = <<>> THEN s = "REGISTERING"
             ELSE Stream!State(s) \in Stream!After(Stream!State(Last))
      PROVE  Speaks /\ Last' = s /\ events' # <<>>
  <2>0. s \in CallStatus \ AlwaysResult /\ s # "RECORDING_READY"
    BY Announcements
  <2>1. /\ Seen(StateEvent(s)) = Stream!State(s) /\ StateEvent(s).status = s
        /\ ~ Costs(StateEvent(s)) /\ ~ result_event(StateEvent(s))
        /\ StateEvent(s) \in AgentEvent
    BY <2>0, SeenState, StateEventType
  <2>2. events # <<>> => Seen(events[Len(events)]) = Stream!State(Last)
    BY <1>c, LastSeen
  <2>3. Follows(StateEvent(s))
    BY <1>c, <2>1, <2>2 DEF Follows
  <2>4. events' = Append(events, StateEvent(s))
    BY <1>c DEF emitEvent
  <2>5. SaysOne(StateEvent(s))
    BY <1>c, <2>0, <2>1, <2>3, <2>4 DEF SaysOne, Ends
  <2>6. Last' = s /\ events' # <<>>
    BY <2>1, <2>4, LastSaid
  <2> QED
    BY <2>5, <2>6 DEF Speaks
\* A result that costs nothing, on the way to the answer.
<1>d. ASSUME pc \notin Ended, pc' = "done", NEW e \in AgentEvent,
             e.status \in {"FAILED", "NO_ANSWER"}, e.billing_seconds = 0, ~ e.recording,
             events' = Append(events, e), answered' = answered, events # <<>>,
             Stream!Final(e.status) \in Stream!After(Stream!State(Last)),
             recorder' # "open", result'.status # "CANCELLED"
      PROVE  Speaks /\ Said'
  <2>1. result_event(e) = TRUE
    BY <1>d DEF result_event, AlwaysResult
  <2>2. Seen(e) = Stream!Final(e.status)
    BY <2>1 DEF Seen, Stream!Final
  <2>3. Follows(e)
    BY <1>d, <2>2, LastSeen DEF Follows
  <2>4. ~ Costs(e)
    BY <1>d DEF Costs
  <2>5. SaysOne(e)
    BY <1>d, <2>1, <2>3, <2>4 DEF SaysOne, Ends
  <2>6. Said'
    BY <1>d DEF Said
  <2> QED
    BY <2>5, <2>6 DEF Speaks
<1>e. ASSUME pc = "reg", NEW code \in Nat, RegistrationFails(code),
             answered' = answered, recorder' = recorder
      PROVE  Speaks /\ Said'
  <2> DEFINE e == MakeEvent("FAILED", FALSE, 0, code, FALSE)
  <2>1. e \in AgentEvent
    BY MakeEventType, Statuses
  <2>2. e.status = "FAILED" /\ e.billing_seconds = 0 /\ ~ e.recording
    BY DEF MakeEvent
  <2>3. events' = Append(events, e) /\ pc' = "done"
    BY <1>e DEF RegistrationFails, Return, emitEvent
  <2>4. result'.status = "FAILED"
    BY <1>0, <1>e DEF RegistrationFails, Return, Result
  <2>5. recorder # "open"
    BY <1>e DEF RecorderInv, Recording, Inside
  <2>6. events # <<>> /\ Last = "REGISTERING"
    BY <1>e DEF Said
  <2> HIDE DEF e
  <2> QED
    BY <1>d, <1>e, <2>1, <2>2, <2>3, <2>4, <2>5, <2>6, Order
<1>1. CASE WorkerThread \/ CancelSet \/ CancelWake \/ Tick \/ Terminated
           \/ UNCHANGED vars
  <2>1. UNCHANGED <<events, answered, result, pc, recorder>>
    BY <1>1 DEF WorkerThread, CancelSet, CancelWake, Tick, Terminated, vars,
                agentVars, execVars, loopVars, Callback, onRegState, Ringing,
                PickedUp, Confirmed, Disconnected, onCallMediaState, onEof2,
                onCallState
  <2> QED
    BY <1>a, <2>1
<1>2. CASE Destroy
  <2>1. /\ pc = "done" /\ pc' = "destroyed" /\ recorder' \in {recorder, "closed"}
        /\ UNCHANGED <<events, answered, result>>
    BY <1>2 DEF Destroy, SipDestroy, loopVars
  <2> QED
    BY <2>1 DEF Speaks, SaysNothing, Said
<1>3. CASE LoopTest \/ WaitEnter \/ CallPoll \/ FinalPoll \/ FinalEvent
  BY <1>3, <1>a DEF LoopTest, WaitEnter, CallPoll, FinalPoll, FinalEvent,
                    agentVars, loopVars
<1>4. CASE TakeCancel
  <2>1. result'.status = "CANCELLED"
    BY <1>0, <1>4 DEF TakeCancel, Return, Result
  <2>2. events' = events /\ answered' = answered /\ pc \notin Ended /\ pc' = "done"
        /\ Cancelled
    BY <1>4 DEF TakeCancel, Return, Loops, loopVars
  <2> QED
    BY <2>1, <2>2 DEF Speaks, SaysNothing, Said
<1>5. CASE StartThrows \/ SetupThrows
  BY <1>5, <1>b DEF StartThrows, SetupThrows, At, Crash, loopVars
<1>6. CASE Start
  <2>1. /\ pc = "start" /\ pc' = "reg" /\ emitEvent(StateEvent("REGISTERING"))
        /\ answered' = answered
    BY <1>6 DEF Start, loopVars
  <2>2. Speaks /\ Last' = "REGISTERING" /\ events' # <<>>
    BY <1>c, <2>1 DEF Said
  <2> QED
    BY <2>1, <2>2 DEF Said
<1>7. CASE RegPoll
  <2>1. pc = "reg" /\ UNCHANGED <<answered, recorder>>
    BY <1>7 DEF RegPoll, agentVars, loopVars
  <2>2. RegistrationFails(0) \/ (pc' = "reg" /\ UNCHANGED <<result, events>>)
    BY <1>7 DEF RegPoll
  <2> QED
    BY <1>a, <1>e, <2>1, <2>2
<1>8. CASE RegEvent
  <2>0. pc = "reg" /\ ev.sip_code \in Nat /\ UNCHANGED <<answered, recorder>>
    BY <1>8, ReceivesType DEF RegEvent, InternalEvent, loopVars
  <2>1. \/ pc' = "reg" /\ UNCHANGED <<result, events>>
        \/ /\ emitEvent(StateEvent("REGISTERED"))
           /\ pc' = "place"
        \/ RegistrationFails(ev.sip_code)
    BY <1>8 DEF RegEvent
  <2>2. CASE emitEvent(StateEvent("REGISTERED")) /\ pc' = "place"
    <3>1. Speaks /\ Last' = "REGISTERED" /\ events' # <<>>
      BY <1>c, <2>0, <2>2, Order DEF Said
    <3> QED
      BY <2>2, <3>1 DEF Said
  <2> QED
    BY <1>a, <1>e, <2>0, <2>1, <2>2
<1>9. CASE Place \/ PlaceThrows
  <2>1. /\ pc = "place" /\ emitEvent(StateEvent("DIALING"))
        /\ pc' \in {"call", "crashed"} /\ answered' = answered
    BY <1>9 DEF Place, PlaceThrows, At, Crash, loopVars
  <2>2. Speaks /\ Last' = "DIALING" /\ events' # <<>>
    BY <1>c, <2>1, Order DEF Said
  <2>3. ~ answered
    BY <2>1 DEF AnswerSeen, LegInv, Before, INV_STATE_NULL, INV_STATE_CONFIRMED,
                INV_STATE_DISCONNECTED
  <2> QED
    BY <2>1, <2>2, <2>3 DEF Said
<1>10. CASE CallTest
  <2>0. pc = "call" /\ UNCHANGED <<answered, recorder>>
    BY <1>10 DEF CallTest, At
  <2>1. CASE NetTrips
    <3> DEFINE e == MakeEvent("NO_ANSWER", FALSE, 0, 0, TRUE)
    <3>1. e \in AgentEvent
      BY MakeEventType, Statuses
    <3>2. e.status = "NO_ANSWER" /\ e.billing_seconds = 0 /\ ~ e.recording
      BY DEF MakeEvent
    <3>3. events' = Append(events, e) /\ pc' = "done"
      BY <1>10, <2>1 DEF CallTest, Return, emitEvent
    <3>4. result'.status = "NO_ANSWER"
      BY <1>0, <1>10, <2>1 DEF CallTest, Return, Result
    <3>5. recorder # "open"
      BY <2>0 DEF RecorderInv, Recording, Inside
    <3>6. events # <<>> /\ Last \in {"DIALING", "RINGING", "ANSWERED"}
      BY <1>0, <2>0 DEF Said
    <3> HIDE DEF e
    <3> QED
      BY <1>d, <2>0, <3>1, <3>2, <3>3, <3>4, <3>5, <3>6, Order
  <2>2. CASE ~ NetTrips
    BY <1>10, <1>a, <2>0, <2>2 DEF CallTest
  <2> QED
    BY <2>1, <2>2
<1>11. CASE CallEvent
  <2>0. /\ pc = "call" /\ queue # <<>> /\ queue \in Seq(InternalEvent)
        /\ ev = queue[1] /\ 1 \in 1 .. Len(queue)
    BY <1>11, TailItems DEF CallEvent, Receives, ev, TypeOK, SipTypeOK
  <2>1. ev.sip_code \in Nat
    BY <1>11, ReceivesType DEF CallEvent, InternalEvent
  <2>2. CASE CallRinging
    <3>1. ~ answered
      BY <2>0, <2>2 DEF CallRinging, AnswerSeen, IsCallState, IsState,
                        INV_STATE_EARLY, INV_STATE_DISCONNECTED
    <3>2. /\ emitEvent(StateEvent("RINGING")) /\ pc' = "call" /\ answered' = answered
      BY <2>2, <3>1 DEF CallRinging, AfterCallEvent
    <3>3. events # <<>> /\ Last \in {"DIALING", "RINGING"}
      BY <2>0, <3>1 DEF Said
    <3>4. Speaks /\ Last' = "RINGING" /\ events' # <<>>
      BY <1>c, <2>0, <3>2, <3>3, Order
    <3> QED
      BY <3>1, <3>2, <3>4 DEF Said
  <2>3. CASE CallAnswered
    <3>1. ~ answered
      BY <2>0, <2>3 DEF CallAnswered, AnswerSeen, IsCallState, IsState,
                        INV_STATE_CONFIRMED, INV_STATE_DISCONNECTED
    <3>2. /\ emitEvent(StateEvent("ANSWERED")) /\ pc' \in {"call", "setup"}
          /\ answered'
      BY <2>3 DEF CallAnswered, AfterCallEvent
    <3>3. events # <<>> /\ Last \in {"DIALING", "RINGING"}
      BY <2>0, <3>1 DEF Said
    <3>4. Speaks /\ Last' = "ANSWERED" /\ events' # <<>>
      BY <1>c, <2>0, <3>2, <3>3, Order
    <3> QED
      BY <3>2, <3>4 DEF Said
  <2>4. CASE CallRefused
    <3> DEFINE code == IF answer_timeout_hit THEN 487 ELSE ev.sip_code
    <3>1. code \in Nat /\ handleDisconnect(code) /\ pc' = "done" /\ answered' = answered
      BY <2>1, <2>4 DEF CallRefused
    <3>2. ~ answered => ev.sip_code # 200 /\ call_connected = 0
      BY <2>0, <2>4 DEF CallRefused, AnswerSeen
    <3>3. ~ answered => code # 200 /\ call_connected = 0
      BY <3>2
    <3> HIDE DEF code
    <3>4. Speaks
      BY <2>0, <3>1, <3>3, DisconnectSpeaks
    <3> QED
      BY <3>1, <3>4 DEF Said
  <2>5. CASE CallMedia \/ CallOther
    <3>1. UNCHANGED <<events, answered, result, recorder>>
      BY <2>5 DEF CallMedia, CallOther
    <3>2. pc' = "call" \/ (pc' = "setup" /\ answered)
      BY <2>5 DEF CallMedia, CallOther, AfterCallEvent
    <3> QED
      BY <1>a, <1>b, <2>0, <3>1, <3>2
  <2> QED
    BY <1>11, <2>2, <2>3, <2>4, <2>5 DEF CallEvent
<1>12. CASE Setup \/ Arm
  <2>1. ~ GaveUp
    BY <1>12 DEF Setup, Arm, At, Underway, Inside, GaveUp
  <2>2. <<pc, pc'>> \in {<<"setup", "delay">>, <<"arm", "listen">>}
        /\ UNCHANGED <<events, answered>>
    BY <1>12, <2>1 DEF Setup, Arm, At, loopVars
  <2> QED
    BY <1>b, <2>2
<1>13. CASE Play \/ PlayThrows
  <2>1. /\ pc = "delay" /\ emitEvent(StateEvent("PLAYING"))
        /\ pc' \in {"eof", "crashed"} /\ answered' = answered
    BY <1>13 DEF Play, PlayThrows, DelayOver, At, Crash, loopVars
  <2>2. Speaks /\ Last' = "PLAYING" /\ events' # <<>>
    BY <1>c, <2>1, Order DEF Said
  <2> QED
    BY <2>1, <2>2 DEF Said
<1>14. CASE EofPoll
  <2>1. UNCHANGED <<events, answered, result, recorder>> /\ pc = "eof"
        /\ pc' \in {"eof", "drain"}
    BY <1>14 DEF EofPoll, loopVars
  <2> QED
    BY <1>a, <1>b, <2>1
<1>15. CASE EofEvent
  <2>1. pc = "eof" /\ UNCHANGED <<answered, result, recorder>>
    BY <1>15 DEF EofEvent, loopVars
  <2>2. \/ emitEvent(StateEvent("PLAYED")) /\ pc' = "arm"
        \/ events' = events /\ pc' = "eof"
    BY <1>15 DEF EofEvent
  <2>3. CASE emitEvent(StateEvent("PLAYED")) /\ pc' = "arm"
    <3>1. Speaks /\ Last' = "PLAYED" /\ events' # <<>>
      BY <1>c, <2>1, <2>3, Order DEF Said
    <3> QED
      BY <2>3, <3>1 DEF Said
  <2> QED
    BY <1>a, <2>1, <2>2, <2>3
<1>16. CASE LegEnds
  <2>1. /\ pc \in {"eof", "drain", "listen", "bye"} /\ pc' = "done"
        /\ answered' = answered /\ ev.sip_code \in Nat
        /\ handleDisconnect(ev.sip_code)
    BY <1>16, ReceivesType DEF LegEnds, InternalEvent, loopVars
  <2>2. answered
    BY <2>1 DEF Underway, Inside
  <2> QED
    BY <2>1, <2>2, DisconnectSpeaks DEF Said
<1>17. CASE Listen
  <2>1. UNCHANGED <<events, answered, result, recorder>> /\ pc = "listen"
        /\ pc' \in {"listen", "hangup"}
    BY <1>17 DEF Listen, Sample, loopVars
  <2> QED
    BY <1>a, <1>b, <2>1
<1>18. CASE HangUp
  <2> DEFINE d == MakeEvent("SILENCE_DETECTED", FALSE, SilenceTimeout \div Second,
                            0, FALSE)
             e == StateEvent("HANGING_UP")
  <2>0. /\ pc = "hangup" /\ pc' = "bye" /\ answered' = answered
        /\ events' = events \o <<d, e>>
    BY <1>18 DEF HangUp, At, loopVars
  <2>1. d \in AgentEvent
    <3>1. SilenceTimeout \div Second \in Nat
      BY DivNat, TimeAssumption
    <3> QED
      BY <3>1, MakeEventType, Statuses
  <2>2. /\ e \in AgentEvent /\ Seen(e) = Stream!State("HANGING_UP")
        /\ e.status = "HANGING_UP" /\ ~ Costs(e) /\ ~ result_event(e)
    BY Announcements, SeenState, StateEventType, Statuses
  <2>3. /\ d.status = "SILENCE_DETECTED" /\ d.is_result = FALSE /\ d.recording = FALSE
    BY DEF MakeEvent
  <2> HIDE DEF d, e
  <2>4. ~ Costs(d) /\ result_event(d) = FALSE
    BY <2>3 DEF Costs, result_event, AlwaysResult
  <2>5. Seen(d) = Stream!State("SILENCE_DETECTED")
    BY <2>3, <2>4 DEF Seen, Stream!State
  <2>6. Follows(d)
    BY <2>0, <2>5, LastSeen, Order DEF Follows, Said
  <2>7. SaysTwo(d, e)
    BY <2>0, <2>1, <2>2, <2>3, <2>4, <2>5, <2>6, Order DEF SaysTwo, Ends
  <2>8. Last' = "HANGING_UP" /\ events' # <<>>
    BY <2>0, <2>1, <2>2, LastSaid
  <2> QED
    BY <2>0, <2>7, <2>8 DEF Speaks, Said
<1> QED
  BY <1>1, <1>2, <1>3, <1>4, <1>5, <1>6, <1>7, <1>8, <1>9, <1>10, <1>11, <1>12,
     <1>13, <1>14, <1>15, <1>16, <1>17, <1>18 DEF Next, Executor

\* In every reachable state the newest event fits the statement that run() is at.
LEMMA SaidInvariant ==
    Spec => [](/\ TypeOK /\ Underway /\ OneResult /\ ReturnMatchesStream
               /\ QueueOrder /\ AnswerSeen /\ LegInv /\ RecorderInv /\ Said)
<1>1. Init => Said
  BY DEF Init, Said
<1>2. /\ TypeOK /\ Underway /\ OneResult /\ ReturnMatchesStream
      /\ QueueOrder /\ AnswerSeen /\ LegInv /\ RecorderInv /\ Said /\ [Next]_vars
      => Said'
  BY Spoken
<1> QED
  BY <1>1, <1>2, LegInvariant, PTL DEF Spec

-----------------------------------------------------------------------------
(* Bills, recordings, legs.                                                *)

\* The events after a step that says something: the old ones, then the new.
LEMMA SpokenItems ==
    ASSUME TypeOK, NEW d \in AgentEvent, NEW e \in AgentEvent
    PROVE  /\ DOMAIN events = 1 .. Len(events) /\ Len(events) \in Nat
           /\ events' = Append(events, e) =>
                 /\ Len(events') = Len(events) + 1
                 /\ DOMAIN events' = 1 .. (Len(events) + 1)
                 /\ events'[Len(events) + 1] = e
                 /\ \A i \in 1 .. Len(events) : events'[i] = events[i]
           /\ events' = events \o <<d, e>> =>
                 /\ Len(events') = Len(events) + 2
                 /\ DOMAIN events' = 1 .. (Len(events) + 2)
                 /\ events'[Len(events) + 1] = d
                 /\ events'[Len(events) + 2] = e
                 /\ \A i \in 1 .. Len(events) : events'[i] = events[i]
<1>1. events \in Seq(AgentEvent)
  BY DEF TypeOK, ExecTypeOK
<1>2. DOMAIN events = 1 .. Len(events) /\ Len(events) \in Nat
  BY <1>1
<1>3. ASSUME events' = Append(events, e)
      PROVE  /\ Len(events') = Len(events) + 1
             /\ DOMAIN events' = 1 .. (Len(events) + 1)
             /\ events'[Len(events) + 1] = e
             /\ \A i \in 1 .. Len(events) : events'[i] = events[i]
  <2>1. events' \in Seq(AgentEvent) /\ Len(events') = Len(events) + 1
    BY <1>1, <1>3, Grown
  <2> QED
    BY <1>1, <1>3, <2>1, Grown
<1>4. ASSUME events' = events \o <<d, e>>
      PROVE  /\ Len(events') = Len(events) + 2
             /\ DOMAIN events' = 1 .. (Len(events) + 2)
             /\ events'[Len(events) + 1] = d
             /\ events'[Len(events) + 2] = e
             /\ \A i \in 1 .. Len(events) : events'[i] = events[i]
  <2>1. events' \in Seq(AgentEvent) /\ Len(events') = Len(events) + 2
    BY <1>1, <1>4, Grown
  <2>2. DOMAIN events' = 1 .. Len(events')
    BY <2>1
  <2> QED
    BY <1>1, <1>4, <2>1, <2>2, Grown
<1> QED
  BY <1>2, <1>3, <1>4

\* Once run() has taken the call for answered it has said so.
AnswerSaid ==
    answered => \E j \in 1 .. Len(events) :
                   Emitted(j) = "ANSWERED" /\ ~ events[j].is_result

\* A bill, a recording or a result ANSWERED comes after the announcement.
LEMMA NextAnsweredEarned ==
    TypeOK /\ AnswerSaid /\ AnsweredEarned /\ Speaks => AnswerSaid' /\ AnsweredEarned'
<1> SUFFICES ASSUME TypeOK, AnswerSaid, AnsweredEarned, Speaks
             PROVE  AnswerSaid' /\ AnsweredEarned'
  OBVIOUS
<1> USE DEF Emitted
<1>0. answered \in BOOLEAN
  BY DEF TypeOK, ExecTypeOK
<1>e. \A i \in DOMAIN events : Costs(events[i]) =>
         \E j \in 1 .. (i - 1) : events[j].status = "ANSWERED" /\ ~ events[j].is_result
  BY DEF AnsweredEarned, Costs
<1>1. CASE SaysNothing
  BY <1>1 DEF SaysNothing, AnswerSaid, AnsweredEarned
<1>2. ASSUME NEW e, SaysOne(e) PROVE AnswerSaid' /\ AnsweredEarned'
  <2>1. /\ DOMAIN events = 1 .. Len(events) /\ Len(events) \in Nat
        /\ DOMAIN events' = 1 .. (Len(events) + 1) /\ Len(events') = Len(events) + 1
        /\ events'[Len(events) + 1] = e
        /\ \A i \in 1 .. Len(events) : events'[i] = events[i]
    BY <1>2, SpokenItems DEF SaysOne
  <2>2. AnswerSaid'
    <3>1. CASE answered
      BY <2>1, <3>1 DEF AnswerSaid
    <3>2. CASE answered' /\ ~ answered
      <4>1. e = StateEvent("ANSWERED")
        BY <1>2, <3>2 DEF SaysOne
      <4>2. e.status = "ANSWERED" /\ ~ e.is_result
        BY <4>1 DEF StateEvent, MakeEvent
      <4>3. Len(events) + 1 \in 1 .. Len(events')
        BY <2>1
      <4> QED
        BY <2>1, <4>2, <4>3 DEF AnswerSaid
    <3> QED
      BY <3>1, <3>2 DEF AnswerSaid
  <2>3. ASSUME NEW i \in DOMAIN events', Costs(events'[i])
        PROVE  \E j \in 1 .. (i - 1) :
                  events'[j].status = "ANSWERED" /\ ~ events'[j].is_result
    <3>1. CASE i \in 1 .. Len(events)
      BY <1>e, <2>1, <2>3, <3>1
    <3>2. CASE i = Len(events) + 1
      <4>1. answered
        BY <1>2, <2>1, <2>3, <3>2 DEF SaysOne
      <4> QED
        BY <2>1, <3>2, <4>1 DEF AnswerSaid
    <3> QED
      BY <2>1, <3>1, <3>2
  <2> QED
    BY <2>2, <2>3 DEF AnsweredEarned, Costs
<1>3. ASSUME NEW d, NEW e, SaysTwo(d, e) PROVE AnswerSaid' /\ AnsweredEarned'
  <2>1. /\ DOMAIN events = 1 .. Len(events) /\ Len(events) \in Nat
        /\ DOMAIN events' = 1 .. (Len(events) + 2) /\ Len(events') = Len(events) + 2
        /\ events'[Len(events) + 1] = d /\ events'[Len(events) + 2] = e
        /\ \A i \in 1 .. Len(events) : events'[i] = events[i]
    BY <1>3, SpokenItems DEF SaysTwo
  <2>2. AnswerSaid'
    BY <1>3, <2>1 DEF AnswerSaid, SaysTwo
  <2>3. ASSUME NEW i \in DOMAIN events', Costs(events'[i])
        PROVE  \E j \in 1 .. (i - 1) :
                  events'[j].status = "ANSWERED" /\ ~ events'[j].is_result
    <3>1. CASE i \in 1 .. Len(events)
      BY <1>e, <2>1, <2>3, <3>1
    <3>2. CASE i = Len(events) + 1 \/ i = Len(events) + 2
      <4>1. answered
        BY <1>3, <2>1, <2>3, <3>2 DEF SaysTwo
      <4> QED
        BY <2>1, <3>2, <4>1 DEF AnswerSaid
    <3> QED
      BY <2>1, <3>1, <3>2
  <2> QED
    BY <2>2, <2>3 DEF AnsweredEarned, Costs
<1> QED
  BY <1>1, <1>2, <1>3 DEF Speaks

\* For every callee and every cancellation: no bill, no recording and no result
\* ANSWERED without an ANSWERED event before it.
THEOREM AnsweredEarnedCorrect == Spec => []AnsweredEarned
<1>1. Init => AnswerSaid /\ AnsweredEarned
  BY DEF Init, AnswerSaid, AnsweredEarned
<1>2. /\ TypeOK /\ Underway /\ OneResult /\ ReturnMatchesStream
      /\ QueueOrder /\ AnswerSeen /\ LegInv /\ RecorderInv /\ Said
      /\ AnswerSaid /\ AnsweredEarned /\ [Next]_vars
      => AnswerSaid' /\ AnsweredEarned'
  BY Spoken, NextAnsweredEarned
<1> QED
  BY <1>1, <1>2, SaidInvariant, PTL DEF Spec

\* RECORDING_READY is said on the way out of run() only.
ReadySaid == \A i \in DOMAIN events : Emitted(i) = "RECORDING_READY" => Returned

\* The announcement of the recording comes with its closing and before the result.
LEMMA NextRecordingComplete ==
    TypeOK /\ ReadySaid /\ RecordingComplete /\ Speaks => ReadySaid' /\ RecordingComplete'
<1> SUFFICES ASSUME TypeOK, ReadySaid, RecordingComplete, Speaks
             PROVE  ReadySaid' /\ RecordingComplete'
  OBVIOUS
<1> USE DEF Emitted, Returned, Ended
<1>1. CASE SaysNothing
  BY <1>1 DEF SaysNothing, ReadySaid, RecordingComplete
<1>2. ASSUME NEW e, SaysOne(e) PROVE ReadySaid' /\ RecordingComplete'
  <2>1. /\ DOMAIN events = 1 .. Len(events) /\ Len(events) \in Nat
        /\ DOMAIN events' = 1 .. (Len(events) + 1)
        /\ events'[Len(events) + 1] = e
        /\ \A i \in 1 .. Len(events) : events'[i] = events[i]
    BY <1>2, SpokenItems DEF SaysOne
  <2>2. \A i \in DOMAIN events : events[i].status # "RECORDING_READY"
    BY <1>2 DEF SaysOne, Ends, ReadySaid
  <2>3. \A i \in DOMAIN events' : events'[i].status # "RECORDING_READY"
    <3> SUFFICES ASSUME NEW i \in DOMAIN events'
                 PROVE  events'[i].status # "RECORDING_READY"
      OBVIOUS
    <3>1. i \in 1 .. Len(events) \/ i = Len(events) + 1
      BY <2>1
    <3> QED
      BY <1>2, <2>1, <2>2, <3>1 DEF SaysOne
  <2>4. ReadySaid'
    BY <2>3 DEF ReadySaid
  <2>5. pc' = "done" => recorder' # "open"
    BY <1>2 DEF SaysOne, Ends
  <2> QED
    BY <2>3, <2>4, <2>5 DEF RecordingComplete
<1>3. ASSUME NEW d, NEW e, SaysTwo(d, e) PROVE ReadySaid' /\ RecordingComplete'
  <2>1. /\ DOMAIN events = 1 .. Len(events) /\ Len(events) \in Nat
        /\ DOMAIN events' = 1 .. (Len(events) + 2) /\ Len(events') = Len(events) + 2
        /\ events'[Len(events) + 1] = d /\ events'[Len(events) + 2] = e
        /\ \A i \in 1 .. Len(events) : events'[i] = events[i]
    BY <1>3, SpokenItems DEF SaysTwo
  <2>2. \A i \in DOMAIN events : events[i].status # "RECORDING_READY"
    BY <1>3 DEF SaysTwo, Ends, ReadySaid
  <2>3. ASSUME NEW i \in DOMAIN events', events'[i].status = "RECORDING_READY"
        PROVE  i = Len(events) + 1 /\ pc' = "done"
    <3>1. i \in 1 .. Len(events) \/ i = Len(events) + 1 \/ i = Len(events) + 2
      BY <2>1
    <3>2. ~ (i \in 1 .. Len(events)) /\ i # Len(events) + 2
      BY <1>3, <2>1, <2>2, <2>3 DEF SaysTwo
    <3> QED
      BY <1>3, <2>1, <2>3, <3>1, <3>2 DEF SaysTwo
  <2>4. ReadySaid'
    BY <2>3 DEF ReadySaid
  <2>5. pc' = "done" => recorder' # "open"
    BY <1>3 DEF SaysTwo, Ends
  <2>6. \A i \in DOMAIN events' : events'[i].status = "RECORDING_READY" =>
           recorder' # "open" /\ i + 1 = Len(events')
    BY <2>1, <2>3, <2>5
  <2> QED
    BY <2>4, <2>5, <2>6 DEF RecordingComplete
<1> QED
  BY <1>1, <1>2, <1>3 DEF Speaks

\* A recording is announced when its file is closed, right before the result,
\* and only a cancelled run() leaves its recorder open.
THEOREM RecordingCompleteCorrect == Spec => []RecordingComplete
<1>1. Init => ReadySaid /\ RecordingComplete
  BY DEF Init, ReadySaid, RecordingComplete
<1>2. /\ TypeOK /\ Underway /\ OneResult /\ ReturnMatchesStream
      /\ QueueOrder /\ AnswerSeen /\ LegInv /\ RecorderInv /\ Said
      /\ ReadySaid /\ RecordingComplete /\ [Next]_vars
      => ReadySaid' /\ RecordingComplete'
  BY Spoken, NextRecordingComplete
<1> QED
  BY <1>1, <1>2, SaidInvariant, PTL DEF Spec

\* run() returns with a leg alive only when it has hung up, or was cancelled
\* after PLAYED.
LEMMA NextLegOwned ==
    ASSUME TypeOK, Underway, QueueOrder, LegInv, Said, LegOwned, [Next]_vars
    PROVE  LegOwned'
<1> USE DEF GoTo, Ended, Emitted
<1> SUFFICES ASSUME pc' = "done", LegAlive', ~ hangingUp'
             PROVE  result'.status = "CANCELLED" /\ Last' = "PLAYED"
  BY DEF LegOwned, Last
<1>0. hangingUp \in BOOLEAN /\ result \in Result
  BY DEF TypeOK, SipTypeOK, ExecTypeOK
<1>a. ASSUME UNCHANGED <<inv, hangingUp, answer_timeout_hit>>, pc \in Before PROVE FALSE
  BY <1>a DEF LegInv, LegAlive
<1>b. ASSUME Reads, IsCallState(ev, INV_STATE_DISCONNECTED) PROVE FALSE
  <2>1. /\ queue # <<>> /\ queue \in Seq(InternalEvent) /\ inv' = inv
    BY <1>b DEF Reads, TypeOK, SipTypeOK
  <2>2. ev = queue[1] /\ 1 \in 1 .. Len(queue)
    BY <2>1, TailItems DEF ev
  <2>3. inv = INV_STATE_DISCONNECTED
    BY <1>b, <2>2, LegTypes DEF QueueOrder, IsState, IsCallState, INV_STATE_DISCONNECTED
  <2> QED
    BY <2>1, <2>3 DEF LegAlive
<1>1. CASE WorkerThread
  <2>0. UNCHANGED <<pc, result, events, hangingUp>>
    BY <1>1 DEF WorkerThread, execVars, Callback, onRegState, Ringing, PickedUp,
                Confirmed, Disconnected, onCallMediaState, onEof2, onCallState
  <2>1. LegAlive
    BY <1>1 DEF WorkerThread, Callback, onRegState, Ringing, PickedUp, Confirmed,
                Disconnected, onCallMediaState, onEof2, LegAlive, INV_STATE_NULL,
                INV_STATE_CALLING, INV_STATE_EARLY, INV_STATE_CONNECTING,
                INV_STATE_CONFIRMED, INV_STATE_DISCONNECTED
  <2> QED
    BY <2>0, <2>1 DEF LegOwned, Last
<1>2. CASE LoopTest \/ WaitEnter \/ CancelSet \/ CancelWake \/ Tick \/ Terminated
           \/ UNCHANGED vars
  <2>1. UNCHANGED <<pc, result, events, hangingUp, inv>>
    BY <1>2 DEF LoopTest, WaitEnter, CancelSet, CancelWake, Tick, Terminated, vars, agentVars, execVars
  <2> QED
    BY <2>1 DEF LegOwned, Last, LegAlive
<1>3. CASE TakeCancel
  <2>1. result'.status = "CANCELLED" /\ events' = events /\ inv' = inv
    BY <1>0, <1>3 DEF TakeCancel, Return, Result
  <2>2. CASE pc \in HangsUpIfCancelled
    BY <1>0, <1>3, <2>1, <2>2 DEF TakeCancel, hangup, LegAlive
  <2>3. CASE pc \notin HangsUpIfCancelled
    <3>1. pc \in {"reg", "place", "listen", "hangup", "bye"} /\ hangingUp' = hangingUp
          /\ answer_timeout_hit' = answer_timeout_hit
      BY <1>3, <2>3 DEF TakeCancel, HangsUpIfCancelled, Loops, loopVars
    <3>2. pc \notin {"reg", "place"}
      BY <1>a, <2>1, <3>1 DEF Before
    <3>3. pc # "bye"
      BY <2>1, <3>1 DEF LegInv, LegAlive
    <3>4. Last = "PLAYED"
      BY <3>1, <3>2, <3>3 DEF Said
    <3> QED
      BY <2>1, <3>4 DEF Last
  <2> QED
    BY <2>2, <2>3
<1>4. CASE RegPoll \/ RegEvent
  BY <1>4, <1>a DEF RegPoll, RegEvent, Before, agentVars, loopVars
<1>5. CASE CallTest
  <2>1. inv' = inv /\ NetTrips
    BY <1>5 DEF CallTest, At
  <2>2. TimedOut
    BY <2>1 DEF NetTrips
  <2>3. CASE answer_timeout_hit
    <3>1. hangingUp' = hangingUp
      BY <1>5, <2>3 DEF CallTest, answerTimeout
    <3> QED
      BY <2>1, <2>3, <3>1 DEF LegInv, LegAlive
  <2>4. CASE ~ answer_timeout_hit
    <3>1. hangup
      BY <1>5, <2>2, <2>4 DEF CallTest, answerTimeout
    <3> QED
      BY <2>1, <3>1 DEF hangup, LegAlive
  <2> QED
    BY <2>3, <2>4
<1>6. CASE CallEvent
  <2>1. CallRefused
    BY <1>6 DEF CallEvent, CallRinging, CallAnswered, CallMedia, CallOther,
                AfterCallEvent
  <2>2. IsCallState(ev, INV_STATE_DISCONNECTED)
    BY <2>1 DEF CallRefused
  <2>3. Reads
    BY <1>6, <2>1, <2>2 DEF CallEvent, CallRefused, Receives, Reads, Loops,
         IsCallState, INV_STATE_CONFIRMED, INV_STATE_DISCONNECTED
  <2> QED
    BY <1>b, <2>2, <2>3
<1>7. CASE LegEnds
  <2>1. IsCallState(ev, INV_STATE_DISCONNECTED)
    BY <1>7 DEF LegEnds
  <2>2. Reads
    BY <1>7 DEF LegEnds, Receives, Reads, Loops, loopVars, timeVars
  <2> QED
    BY <1>b, <2>1, <2>2
<1>8. CASE Setup \/ Arm
  <2>1. ~ GaveUp
    BY <1>8 DEF Setup, Arm, At, Underway, Inside, GaveUp
  <2> QED
    BY <1>8, <2>1 DEF Setup, Arm
<1>9. CASE StartThrows \/ PlaceThrows \/ CallPoll
           \/ SetupThrows \/ PlayThrows \/ FinalPoll \/ FinalEvent \/ Start \/ Place
           \/ Play \/ EofPoll \/ EofEvent \/ HangUp \/ Destroy
  BY <1>9 DEF StartThrows, PlaceThrows, CallPoll, SetupThrows,
              PlayThrows, FinalPoll, FinalEvent, FinalLoops, Start, Place, Play,
              EofPoll, EofEvent, HangUp, Destroy, Crash, At, Loops
<1>10. CASE Listen
  BY <1>10 DEF Listen, Sample
<1> QED
  BY <1>1, <1>2, <1>3, <1>4, <1>5, <1>6, <1>7, <1>8, <1>9, <1>10 DEF Next, Executor

\* For every callee, timeout and cancellation: a returned run() has hung up its
\* leg or seen its end, but for a cancellation between PLAYED and HANGING_UP.
THEOREM LegOwnedCorrect == Spec => []LegOwned
<1>1. Init => LegOwned
  BY DEF Init, LegOwned
<1>2. /\ TypeOK /\ Underway /\ OneResult /\ ReturnMatchesStream
      /\ QueueOrder /\ AnswerSeen /\ LegInv /\ RecorderInv /\ Said
      /\ LegOwned /\ [Next]_vars
      => LegOwned'
  BY NextLegOwned
<1> QED
  BY <1>1, <1>2, SaidInvariant, PTL DEF Spec

-----------------------------------------------------------------------------
(* run() implements the contract of the stream.                            *)

\* The events as the contract sees them.
Items(s) == [i \in DOMAIN s |-> Seen(s[i])]

\* A stream of events is seen as a stream of items, one for one.
LEMMA ItemsSeq ==
    ASSUME NEW s \in Seq(AgentEvent)
    PROVE  /\ Items(s) \in Seq(Stream!Item)
           /\ Len(Items(s)) = Len(s)
           /\ \A i \in 1 .. Len(s) : Items(s)[i] = Seen(s[i])
<1>1. \A e \in AgentEvent : Seen(e) \in Stream!Item
  <2> SUFFICES ASSUME NEW e \in AgentEvent PROVE Seen(e) \in Stream!Item
    OBVIOUS
  <2>1. e.status \in CallStatus
    BY DEF AgentEvent
  <2>2. result_event(e) \in BOOLEAN
    BY DEF result_event
  <2>3. Stream!CallStatus = CallStatus
    BY DEF CallStatus, AlwaysResult, Stream!CallStatus, Stream!AlwaysResult
  <2> QED
    BY <2>1, <2>2, <2>3 DEF Seen, Stream!Item
<1>2. Len(s) \in Nat /\ DOMAIN s = 1 .. Len(s) /\ \A i \in 1 .. Len(s) : s[i] \in AgentEvent
  OBVIOUS
<1>3. Items(s) \in [1 .. Len(s) -> Stream!Item]
  BY <1>1, <1>2 DEF Items
<1>4. Items(s) \in Seq(Stream!Item)
  BY <1>2, <1>3
<1>5. Len(Items(s)) = Len(s)
  BY <1>2, <1>3, <1>4
<1> QED
  BY <1>2, <1>4, <1>5 DEF Items

\* The order of the contract, on the events themselves.
InOrder(s) ==
    /\ s # <<>> => Seen(s[1]) = Stream!State("REGISTERING")
    /\ \A i \in 1 .. (Len(s) - 1) : Seen(s[i + 1]) \in Stream!After(Seen(s[i]))

\* It is the contract's.
LEMMA InOrderLegal ==
    ASSUME NEW s \in Seq(AgentEvent), InOrder(s)
    PROVE  Stream!Legal(Items(s))
<1>1. /\ Items(s) \in Seq(Stream!Item) /\ Len(Items(s)) = Len(s) /\ Len(s) \in Nat
      /\ \A i \in 1 .. Len(s) : Items(s)[i] = Seen(s[i])
  BY ItemsSeq
<1>2. Items(s) # <<>> => Items(s)[1] = Stream!State("REGISTERING")
  <2> SUFFICES ASSUME Items(s) # <<>> PROVE Items(s)[1] = Stream!State("REGISTERING")
    OBVIOUS
  <2>1. Len(s) > 0 /\ s # <<>>
    BY <1>1
  <2>2. 1 \in 1 .. Len(s)
    BY <1>1, <2>1
  <2> QED
    BY <1>1, <2>1, <2>2 DEF InOrder
<1>3. ASSUME NEW i \in 1 .. (Len(Items(s)) - 1)
      PROVE  Items(s)[i + 1] \in Stream!After(Items(s)[i])
  <2>1. i \in 1 .. (Len(s) - 1) /\ i \in 1 .. Len(s) /\ i + 1 \in 1 .. Len(s)
    BY <1>1
  <2> QED
    BY <1>1, <2>1 DEF InOrder
<1> QED
  BY <1>2, <1>3 DEF Stream!Legal

\* Every step that speaks keeps the order.
LEMMA NextInOrder == TypeOK /\ InOrder(events) /\ Speaks => InOrder(events)'
<1> SUFFICES ASSUME TypeOK, InOrder(events), Speaks PROVE InOrder(events')
  OBVIOUS
<1>0. events \in Seq(AgentEvent) /\ (events = <<>> <=> Len(events) = 0)
  BY DEF TypeOK, ExecTypeOK
<1>1. CASE SaysNothing
  BY <1>1 DEF SaysNothing
\* The first new event follows the old ones.
<1>a. ASSUME NEW n \in Nat, n >= Len(events) + 1, Len(events') = n, Len(events) \in Nat,
             NEW d, events'[Len(events) + 1] = d, Follows(d),
             \A i \in 1 .. Len(events) : events'[i] = events[i]
      PROVE  /\ Seen(events'[1]) = Stream!State("REGISTERING")
             /\ \A i \in 1 .. Len(events) : Seen(events'[i + 1]) \in Stream!After(Seen(events'[i]))
  <2>1. CASE events = <<>>
    <3>1. Len(events) = 0
      BY <1>0, <2>1
    <3> QED
      BY <1>a, <2>1, <3>1 DEF Follows
  <2>2. CASE events # <<>>
    <3>1. 1 \in 1 .. Len(events) /\ Len(events) \in 1 .. Len(events)
      BY <1>0, <1>a, <2>2
    <3>2. Seen(events'[1]) = Stream!State("REGISTERING")
      BY <1>a, <2>2, <3>1 DEF InOrder
    <3>3. ASSUME NEW i \in 1 .. Len(events)
          PROVE  Seen(events'[i + 1]) \in Stream!After(Seen(events'[i]))
      <4>1. CASE i = Len(events)
        BY <1>a, <2>2, <4>1 DEF Follows
      <4>2. CASE i # Len(events)
        <5>1. i \in 1 .. (Len(events) - 1) /\ i + 1 \in 1 .. Len(events)
          BY <1>a, <4>2
        <5> QED
          BY <1>a, <5>1 DEF InOrder
      <4> QED
        BY <4>1, <4>2
    <3> QED
      BY <3>2, <3>3
  <2> QED
    BY <2>1, <2>2
<1>2. ASSUME NEW e, SaysOne(e) PROVE InOrder(events')
  <2>1. /\ Len(events) \in Nat /\ Len(events') = Len(events) + 1
        /\ events'[Len(events) + 1] = e
        /\ \A i \in 1 .. Len(events) : events'[i] = events[i]
    BY <1>2, SpokenItems DEF SaysOne
  <2>2. Follows(e)
    BY <1>2 DEF SaysOne
  <2>3. 1 .. (Len(events') - 1) = 1 .. Len(events)
    BY <2>1
  <2>4. /\ Seen(events'[1]) = Stream!State("REGISTERING")
        /\ \A i \in 1 .. Len(events) : Seen(events'[i + 1]) \in Stream!After(Seen(events'[i]))
    BY <1>a, <2>1, <2>2
  <2> QED
    BY <2>3, <2>4 DEF InOrder
<1>3. ASSUME NEW d, NEW e, SaysTwo(d, e) PROVE InOrder(events')
  <2>1. /\ Len(events) \in Nat /\ Len(events') = Len(events) + 2
        /\ events'[Len(events) + 1] = d /\ events'[Len(events) + 2] = e
        /\ \A i \in 1 .. Len(events) : events'[i] = events[i]
    BY <1>3, SpokenItems DEF SaysTwo
  <2>2. Follows(d) /\ Seen(e) \in Stream!After(Seen(d))
    BY <1>3 DEF SaysTwo
  <2>3. /\ Seen(events'[1]) = Stream!State("REGISTERING")
        /\ \A i \in 1 .. Len(events) : Seen(events'[i + 1]) \in Stream!After(Seen(events'[i]))
    BY <1>a, <2>1, <2>2
  <2>4. ASSUME NEW i \in 1 .. (Len(events') - 1)
        PROVE  Seen(events'[i + 1]) \in Stream!After(Seen(events'[i]))
    <3>1. CASE i \in 1 .. Len(events)
      BY <2>3, <3>1
    <3>2. CASE i = Len(events) + 1
      <4>1. i + 1 = Len(events) + 2
        BY <2>1, <3>2
      <4> QED
        BY <2>1, <2>2, <3>2, <4>1
    <3> QED
      BY <2>1, <3>1, <3>2
  <2> QED
    BY <2>3, <2>4 DEF InOrder
<1> QED
  BY <1>1, <1>2, <1>3 DEF Speaks

\* A step that says something is a Send of the contract.
LEMMA SpeakingSends ==
    ASSUME TypeOK, TypeOK', ReturnMatchesStream', InOrder(events'),
           NEW d, NEW e, SaysOne(e) \/ SaysTwo(d, e), Cancelled' = Cancelled
    PROVE  Stream!Send
<1> DEFINE s == Items(events)
           t == Items(events')
<1>0. events \in Seq(AgentEvent) /\ events' \in Seq(AgentEvent)
  BY DEF TypeOK, ExecTypeOK
<1>1. /\ e \in AgentEvent
      /\ Len(events) \in Nat
      /\ Len(events') \in {Len(events) + 1, Len(events) + 2}
      /\ events'[Len(events')] = e
      /\ \A i \in 1 .. Len(events) : events'[i] = events[i]
  <2>1. CASE SaysOne(e)
    BY <2>1, SpokenItems DEF SaysOne
  <2>2. CASE SaysTwo(d, e)
    BY <2>2, SpokenItems DEF SaysTwo
  <2> QED
    BY <2>1, <2>2
<1>2. Ends(e)
  BY DEF SaysOne, SaysTwo
<1>3. /\ s \in Seq(Stream!Item) /\ Len(s) = Len(events)
      /\ \A i \in 1 .. Len(events) : s[i] = Seen(events[i])
  BY <1>0, ItemsSeq
<1>4. /\ t \in Seq(Stream!Item) /\ Len(t) = Len(events')
      /\ \A i \in 1 .. Len(events') : t[i] = Seen(events'[i])
  BY <1>0, ItemsSeq
<1>5. Stream!Legal(t)
  BY <1>0, InOrderLegal
<1> HIDE DEF s, t
<1>6. SubSeq(t, 1, Len(s)) = s
  <2>1. \A i \in 1 .. Len(s) : t[i] = s[i] /\ i \in 1 .. Len(t)
    BY <1>1, <1>3, <1>4
  <2>2. Len(s) <= Len(t) /\ Len(s) \in Nat
    BY <1>1, <1>3, <1>4
  <2>3. /\ SubSeq(t, 1, Len(s)) \in Seq(Stream!Item)
        /\ Len(SubSeq(t, 1, Len(s))) = Len(s)
        /\ \A i \in 1 .. Len(s) : SubSeq(t, 1, Len(s))[i] = t[i]
    BY <1>4, <2>2
  <2> QED
    BY <1>3, <2>1, <2>3, SeqEqual
<1>7. t # <<>> /\ t[Len(t)].final = result_event(e)
  <2>1. Len(t) > 0 /\ Len(events') \in 1 .. Len(events')
    BY <1>1, <1>4
  <2>2. t[Len(t)] = Seen(e)
    BY <1>1, <1>4, <2>1
  <2> QED
    BY <2>1, <2>2 DEF Seen
<1>8. Stream!Complete(t) = result_event(e)
  BY <1>7 DEF Stream!Complete, result_event
<1>9. outcome = "open"
  BY <1>2 DEF Ends, outcome, Returned, Ended
<1>10. outcome' \in IF Stream!Complete(t) THEN {"result"} ELSE {"open", "crashed"}
  <2>1. CASE result_event(e)
    <3>1. pc' = "done" /\ result'.status # "CANCELLED"
      BY <1>2, <2>1 DEF Ends
    <3> QED
      BY <1>8, <2>1, <3>1 DEF outcome, Returned
  <2>2. CASE ~ result_event(e)
    <3>1. pc' # "done" /\ pc' # "destroyed"
      BY <1>2, <2>2 DEF Ends
    <3> QED
      BY <1>8, <2>2, <3>1 DEF outcome, Returned
  <2> QED
    BY <2>1, <2>2
<1>11. /\ s = [i \in DOMAIN events |-> Seen(events[i])]
       /\ t = [i \in DOMAIN events' |-> Seen(events'[i])]
  BY DEF s, t, Items
<1> QED
  BY <1>1, <1>3, <1>4, <1>5, <1>6, <1>9, <1>10, <1>11 DEF Stream!Send

\* Only CancelSet asks for a cancellation, and nothing takes it back.
LEMMA AskStep == [Next]_vars => CancelSet \/ Cancelled' = Cancelled
BY DEF Next, vars, Cancelled, Executor, LoopTest, WaitEnter, TakeCancel, Start,
       StartThrows, RegPoll, RegEvent, Place, PlaceThrows, CallTest, CallPoll,
       CallEvent, Setup, SetupThrows, Play, PlayThrows, EofPoll, EofEvent, FinalPoll,
       FinalEvent, LegEnds, Arm, Listen, HangUp, WorkerThread, CancelWake, Tick,
       Destroy, Terminated

\* For every callee, every timeout and every cancellation run() implements the
\* contract: its steps are the contract's steps, or none that a client sees.
THEOREM RunImplementsStream == Spec => ImplementsStream
<1>1. Init => Stream!Init /\ InOrder(events)
  <2> SUFFICES ASSUME Init PROVE Stream!Init /\ InOrder(events)
    OBVIOUS
  <2>1. events = <<>> /\ pc = "start" /\ cancel = "idle"
    BY DEF Init
  <2>2. [i \in DOMAIN events |-> Seen(events[i])] = <<>>
    BY <2>1
  <2>3. outcome = "open" /\ Cancelled = FALSE
    BY <2>1 DEF outcome, Returned, Cancelled
  <2>4. Stream!Init
    BY <2>2, <2>3 DEF Stream!Init
  <2> QED
    BY <2>1, <2>4 DEF InOrder
<1>2. /\ TypeOK /\ Underway /\ OneResult /\ ReturnMatchesStream
      /\ QueueOrder /\ AnswerSeen /\ LegInv /\ RecorderInv /\ Said
      /\ InOrder(events) /\ [Next]_vars
      => InOrder(events)'
  BY Spoken, NextInOrder
<1>3. /\ TypeOK /\ Underway /\ OneResult /\ ReturnMatchesStream
      /\ QueueOrder /\ AnswerSeen /\ LegInv /\ RecorderInv /\ Said
      /\ TypeOK' /\ ReturnMatchesStream' /\ InOrder(events)' /\ [Next]_vars
      => [Stream!Next]_(Stream!streamVars)
  <2> SUFFICES ASSUME TypeOK, Underway, OneResult, ReturnMatchesStream, QueueOrder,
                      AnswerSeen, LegInv, RecorderInv, Said, TypeOK',
                      ReturnMatchesStream', InOrder(events'), [Next]_vars
               PROVE  Stream!Next \/ UNCHANGED Stream!streamVars
    BY DEF Stream!streamVars
  <2>1. CASE CancelSet
    <3>1. /\ UNCHANGED <<events, pc, result>> /\ Cancelled' = TRUE
      BY <2>1 DEF CancelSet, execVars, Cancelled
    <3>2. UNCHANGED <<[i \in DOMAIN events |-> Seen(events[i])], outcome>>
      BY <3>1 DEF outcome, Returned
    <3>3. Stream!Ask
      BY <3>1, <3>2 DEF Stream!Ask
    <3> QED
      BY <3>3 DEF Stream!Next
  <2>2. CASE Cancelled' = Cancelled
    <3>1. Speaks
      BY Spoken
    <3>2. CASE \E d, e : SaysOne(e) \/ SaysTwo(d, e)
      <4>1. PICK d, e : SaysOne(e) \/ SaysTwo(d, e)
        BY <3>2
      <4>2. Stream!Send
        BY <2>2, <4>1, SpeakingSends
      <4> QED
        BY <4>2 DEF Stream!Next
    <3>3. CASE SaysNothing
      <4>1. events' = events
        BY <3>3 DEF SaysNothing
      <4>2. UNCHANGED [i \in DOMAIN events |-> Seen(events[i])]
        BY <4>1
      <4>3. \/ outcome' = outcome
            \/ outcome = "open" /\ outcome' = "crashed"
            \/ outcome = "open" /\ outcome' = "cancelled" /\ Cancelled
        BY <3>3 DEF SaysNothing, outcome, Returned, Ended
      <4>4. CASE outcome' = outcome
        BY <2>2, <4>2, <4>4 DEF Stream!streamVars
      <4>5. CASE outcome' # outcome
        <5>1. Stream!Abandon
          BY <2>2, <4>2, <4>3, <4>5 DEF Stream!Abandon
        <5> QED
          BY <5>1 DEF Stream!Next
      <4> QED
        BY <4>4, <4>5
    <3> QED
      BY <3>1, <3>2, <3>3 DEF Speaks
  <2> QED
    BY <2>1, <2>2, AskStep
<1> QED
  BY <1>1, <1>2, <1>3, SaidInvariant, PTL DEF Spec, ImplementsStream, Stream!Spec

-----------------------------------------------------------------------------
(* run() is what the modules CallAgentService and AgentMain take it for.   *)

\* A stream is the beginning of a legal and complete one.
CanEnd(s) ==
    \E t \in Seq(Stream!Item) :
        /\ Stream!Legal(t) /\ Stream!Complete(t)
        /\ Len(s) <= Len(t)
        /\ \A i \in 1 .. Len(s) : t[i] = s[i]

\* The states of a legal stream.
StateItems ==
    {Stream!State(status) : status \in
        {"REGISTERING", "REGISTERED", "DIALING", "RINGING", "ANSWERED", "PLAYING",
         "PLAYED", "SILENCE_DETECTED", "HANGING_UP", "RECORDING_READY"}}

\* The states and results of the contract are items.
LEMMA ItemType ==
    /\ \A status \in CallStatus : Stream!State(status) \in Stream!Item
    /\ \A status \in CallStatus : Stream!Final(status) \in Stream!Item
BY DEF Stream!State, Stream!Final, Stream!Item, CallStatus, AlwaysResult,
       Stream!CallStatus, Stream!AlwaysResult

\* What comes after an item is one of the states or a result.
LEMMA AfterKind ==
    ASSUME NEW item, NEW next \in Stream!After(item)
    PROVE  next \in StateItems \/ next.final
<1> USE DEF StateItems, Stream!State, Stream!Final
<1>1. CASE item = Stream!State("REGISTERING")
  BY <1>1 DEF Stream!After
<1>2. CASE item = Stream!State("REGISTERED")
  BY <1>2 DEF Stream!After
<1>3. CASE item \in {Stream!State("DIALING"), Stream!State("RINGING")}
  BY <1>3 DEF Stream!After
<1>4. CASE item = Stream!State("ANSWERED")
  BY <1>4 DEF Stream!After
<1>5. CASE item = Stream!State("PLAYING")
  BY <1>5 DEF Stream!After
<1>6. CASE item = Stream!State("PLAYED")
  BY <1>6 DEF Stream!After
<1>7. CASE item = Stream!State("SILENCE_DETECTED")
  BY <1>7 DEF Stream!After
<1>8. CASE item = Stream!State("HANGING_UP")
  BY <1>8 DEF Stream!After
<1>9. CASE item = Stream!State("RECORDING_READY")
  BY <1>9 DEF Stream!After
<1> QED
  BY <1>1, <1>2, <1>3, <1>4, <1>5, <1>6, <1>7, <1>8, <1>9 DEF Stream!After

\* So the last item of a legal stream is one too.
LEMMA LastKind ==
    ASSUME NEW s \in Seq(Stream!Item), Stream!Legal(s), s # <<>>
    PROVE  s[Len(s)] \in StateItems \/ s[Len(s)].final
<1>1. Len(s) \in Nat /\ Len(s) > 0
  OBVIOUS
<1>2. CASE Len(s) = 1
  <2>1. s[Len(s)] = Stream!State("REGISTERING")
    BY <1>2 DEF Stream!Legal
  <2> QED
    BY <2>1 DEF StateItems
<1>3. CASE Len(s) > 1
  <2>1. Len(s) - 1 \in 1 .. (Len(s) - 1) /\ (Len(s) - 1) + 1 = Len(s)
    BY <1>1, <1>3
  <2>2. s[Len(s)] \in Stream!After(s[Len(s) - 1])
    BY <2>1 DEF Stream!Legal
  <2> QED
    BY <2>2, AfterKind
<1>4. Len(s) = 1 \/ Len(s) > 1
  <2>1. \A n \in Nat : n > 0 => n = 1 \/ n > 1
    OBVIOUS
  <2> QED
    BY <1>1, <2>1, Zenon
<1> QED
  BY <1>2, <1>3, <1>4

\* A legal stream can go on with what may come after its last item, and can end
\* if it can end from there.
LEMMA OneMore ==
    ASSUME NEW s \in Seq(Stream!Item), Stream!Legal(s), s # <<>>,
           NEW item \in Stream!Item, item \in Stream!After(s[Len(s)])
    PROVE  /\ Append(s, item) \in Seq(Stream!Item) /\ Append(s, item) # <<>>
           /\ Stream!Legal(Append(s, item))
           /\ Append(s, item)[Len(Append(s, item))] = item
           /\ CanEnd(Append(s, item)) => CanEnd(s)
<1> DEFINE more == Append(s, item)
<1>1. /\ more \in Seq(Stream!Item) /\ Len(more) = Len(s) + 1 /\ more[Len(s) + 1] = item
      /\ \A i \in 1 .. Len(s) : more[i] = s[i]
      /\ Len(s) \in Nat /\ Len(s) > 0
  BY AppendProperties
<1> HIDE DEF more
<1>2. more # <<>> /\ more[Len(more)] = item
  BY <1>1
<1>3. more[1] = Stream!State("REGISTERING")
  BY <1>1 DEF Stream!Legal
<1>4. ASSUME NEW i \in 1 .. (Len(more) - 1) PROVE more[i + 1] \in Stream!After(more[i])
  <2>1. CASE i = Len(s)
    BY <1>1, <2>1
  <2>2. CASE i # Len(s)
    <3>1. i \in 1 .. (Len(s) - 1) /\ i \in 1 .. Len(s) /\ i + 1 \in 1 .. Len(s)
      BY <1>1, <2>2
    <3> QED
      BY <1>1, <3>1 DEF Stream!Legal
  <2> QED
    BY <2>1, <2>2
<1>5. Stream!Legal(more)
  BY <1>3, <1>4 DEF Stream!Legal
<1>6. ASSUME CanEnd(more) PROVE CanEnd(s)
  <2>1. PICK t \in Seq(Stream!Item) :
           /\ Stream!Legal(t) /\ Stream!Complete(t)
           /\ Len(more) <= Len(t)
           /\ \A i \in 1 .. Len(more) : t[i] = more[i]
    BY <1>6 DEF CanEnd
  <2>2. Len(s) <= Len(t) /\ \A i \in 1 .. Len(s) : t[i] = s[i]
    BY <1>1, <2>1
  <2> QED
    BY <2>1, <2>2 DEF CanEnd
<1> QED
  BY <1>1, <1>2, <1>5, <1>6 DEF more

\* No legal stream is a dead end: from each state a result can be reached.
LEMMA LegalCanEnd ==
    ASSUME NEW s \in Seq(Stream!Item), Stream!Legal(s)
    PROVE  CanEnd(s)
<1> DEFINE From(item) == \A t \in Seq(Stream!Item) :
               Stream!Legal(t) /\ t # <<>> /\ t[Len(t)] = item => CanEnd(t)
<1>1. ASSUME NEW item, item.final PROVE From(item)
  <2> SUFFICES ASSUME NEW t \in Seq(Stream!Item), Stream!Legal(t), t # <<>>,
                      t[Len(t)] = item
               PROVE  CanEnd(t)
    OBVIOUS
  <2>1. Stream!Complete(t) /\ Len(t) \in Nat
    BY <1>1 DEF Stream!Complete
  <2> QED
    BY <2>1 DEF CanEnd
<1>2. ASSUME NEW item, NEW next \in Stream!Item, next \in Stream!After(item), From(next)
      PROVE  From(item)
  <2> SUFFICES ASSUME NEW t \in Seq(Stream!Item), Stream!Legal(t), t # <<>>,
                      t[Len(t)] = item
               PROVE  CanEnd(t)
    OBVIOUS
  <2> QED
    BY <1>2, OneMore
<1>3. \A status \in {"ANSWERED", "FAILED"} :
         From(Stream!Final(status)) /\ Stream!Final(status) \in Stream!Item
  <2>1. \A status \in {"ANSWERED", "FAILED"} :
           Stream!Final(status).final /\ status \in CallStatus
    BY DEF Stream!Final, CallStatus, AlwaysResult
  <2> QED
    BY <2>1, <1>1, ItemType
<1>4. StateItems \subseteq Stream!Item
  <2>1. \A status \in {"REGISTERING", "REGISTERED", "DIALING", "RINGING", "ANSWERED",
                       "PLAYING", "PLAYED", "SILENCE_DETECTED", "HANGING_UP",
                       "RECORDING_READY"} : status \in CallStatus
    BY DEF CallStatus, AlwaysResult
  <2> QED
    BY <2>1, ItemType DEF StateItems
<1> DEFINE S(status) == Stream!State(status)
           F(status) == Stream!Final(status)
<1>5. /\ F("FAILED") \in Stream!After(S("REGISTERING"))
      /\ S("DIALING") \in Stream!After(S("REGISTERED"))
      /\ F("FAILED") \in Stream!After(S("DIALING"))
      /\ F("FAILED") \in Stream!After(S("RINGING"))
      /\ F("ANSWERED") \in Stream!After(S("ANSWERED"))
      /\ S("RECORDING_READY") \in Stream!After(S("PLAYING"))
      /\ S("RECORDING_READY") \in Stream!After(S("PLAYED"))
      /\ S("HANGING_UP") \in Stream!After(S("SILENCE_DETECTED"))
      /\ S("RECORDING_READY") \in Stream!After(S("HANGING_UP"))
      /\ F("ANSWERED") \in Stream!After(S("RECORDING_READY"))
  BY DEF Stream!After, Stream!State, Stream!Final
<1> HIDE DEF From, S, F
<1>6. From(F("ANSWERED")) /\ From(F("FAILED")) /\ F("ANSWERED") \in Stream!Item
      /\ F("FAILED") \in Stream!Item
  BY <1>3 DEF F
<1>7. \A item \in {S("DIALING"), S("HANGING_UP"), S("RECORDING_READY")} : item \in Stream!Item
  BY <1>4 DEF StateItems, S
<1>8. /\ From(S("REGISTERING")) /\ From(S("DIALING")) /\ From(S("RINGING"))
      /\ From(S("ANSWERED")) /\ From(S("RECORDING_READY"))
  BY <1>2, <1>5, <1>6
<1>9. From(S("REGISTERED")) /\ From(S("PLAYING")) /\ From(S("PLAYED")) /\ From(S("HANGING_UP"))
  BY <1>2, <1>5, <1>7, <1>8
<1>10. From(S("SILENCE_DETECTED"))
  BY <1>2, <1>5, <1>7, <1>9
<1>11. \A item \in StateItems : From(item)
  BY <1>8, <1>9, <1>10 DEF StateItems, S
<1>12. CASE s # <<>>
  <2>1. From(s[Len(s)])
    BY <1>12, <1>1, <1>11, LastKind
  <2> QED
    BY <1>12, <2>1 DEF From
<1>13. CASE s = <<>>
  <2> DEFINE first == <<S("REGISTERING")>>
  <2>1. /\ first \in Seq(Stream!Item) /\ first # <<>> /\ Len(first) = 1
        /\ first[1] = S("REGISTERING")
    BY <1>4 DEF StateItems, S
  <2> HIDE DEF first
  <2>2. Stream!Legal(first)
    BY <2>1 DEF Stream!Legal, S
  <2>3. CanEnd(first)
    BY <1>8, <2>1, <2>2 DEF From
  <2>4. PICK t \in Seq(Stream!Item) : Stream!Legal(t) /\ Stream!Complete(t)
    BY <2>3 DEF CanEnd
  <2>5. Len(s) = 0 /\ Len(t) \in Nat
    BY <1>13
  <2>6. Len(s) <= Len(t) /\ \A i \in 1 .. Len(s) : t[i] = s[i]
    BY <2>5
  <2> QED
    BY <2>4, <2>6 DEF CanEnd
<1> QED
  BY <1>12, <1>13

\* A run as the service and main() model it.  What it has said is the beginning
\* of a legal and complete stream; it has said the whole of one just when it
\* returns a result; and it returns without one only if it was asked to stop.
RunIsScripted ==
    LET said == [i \in DOMAIN events |-> Seen(events[i])]
    IN  /\ Stream!Legal(said)
        /\ CanEnd(said)
        /\ outcome = "result" <=> Stream!Complete(said)
        /\ outcome = "cancelled" => Cancelled

\* The assumption that CallAgentService and AgentMain make about their scripts
\* is what run() keeps, for every callee, timeout and cancellation.
THEOREM RunsAreScripts == Spec => []RunIsScripted
<1> DEFINE Inv == /\ TypeOK /\ Underway /\ OneResult /\ ReturnMatchesStream
                  /\ QueueOrder /\ AnswerSeen /\ LegInv /\ RecorderInv /\ Said
           Asked == outcome = "cancelled" => Cancelled
<1>1. Init => InOrder(events) /\ Asked
  BY DEF Init, InOrder, outcome, Returned
<1>2. Inv /\ InOrder(events) /\ Asked /\ [Next]_vars => (InOrder(events) /\ Asked)'
  <2> SUFFICES ASSUME Inv, InOrder(events), Asked, [Next]_vars
               PROVE  InOrder(events') /\ Asked'
    OBVIOUS
  <2>1. Speaks
    BY Spoken
  <2>2. InOrder(events')
    BY <2>1, NextInOrder
  <2>3. Cancelled => Cancelled'
    <3>1. CASE CancelSet
      BY <3>1 DEF CancelSet, Cancelled
    <3> QED
      BY <3>1, AskStep
  <2>4. CASE SaysNothing
    BY <2>3, <2>4 DEF SaysNothing, outcome, Returned, Ended
  <2>5. ASSUME NEW e, Ends(e) PROVE Asked'
    BY <2>5 DEF Ends, outcome, Returned
  <2>6. Asked'
    BY <2>1, <2>4, <2>5 DEF Speaks, SaysOne, SaysTwo
  <2> QED
    BY <2>2, <2>6
<1>3. Inv /\ InOrder(events) /\ Asked => RunIsScripted
  <2> SUFFICES ASSUME Inv, InOrder(events), Asked PROVE RunIsScripted
    OBVIOUS
  <2> DEFINE said == Items(events)
  <2>1. events \in Seq(AgentEvent)
    BY DEF TypeOK, ExecTypeOK
  <2>2. /\ said \in Seq(Stream!Item) /\ Len(said) = Len(events)
        /\ \A i \in 1 .. Len(events) : said[i] = Seen(events[i])
        /\ Stream!Legal(said)
    BY <2>1, ItemsSeq, InOrderLegal
  <2> HIDE DEF said
  <2>3. CanEnd(said)
    BY <2>2, LegalCanEnd
  <2>4. Stream!Complete(said) <=> events # <<>> /\ result_event(events[Len(events)])
    <3>1. CASE events = <<>>
      <4>1. said = <<>>
        BY <2>2, <3>1
      <4> QED
        BY <3>1, <4>1 DEF Stream!Complete
    <3>2. CASE events # <<>>
      <4>1. Len(events) \in 1 .. Len(events)
        BY <2>1, <3>2
      <4>2. said # <<>> /\ said[Len(said)] = Seen(events[Len(events)])
        BY <2>2, <4>1
      <4>3. said[Len(said)].final = result_event(events[Len(events)])
        BY <4>2 DEF Seen
      <4>4. Stream!Complete(said) = result_event(events[Len(events)])
        BY <4>2, <4>3 DEF Stream!Complete, result_event
      <4> QED
        BY <3>2, <4>4
    <3> QED
      BY <3>1, <3>2
  <2>5. ASSUME outcome = "result" PROVE Stream!Complete(said)
    <3>1. Returned /\ result.status # "CANCELLED"
      BY <2>5 DEF outcome
    <3> QED
      BY <2>4, <3>1 DEF ReturnMatchesStream
  <2>6. ASSUME Stream!Complete(said) PROVE outcome = "result"
    <3>1. Len(events) \in DOMAIN events /\ result_event(events[Len(events)])
      BY <2>1, <2>4, <2>6
    <3>2. Returned
      BY <3>1 DEF OneResult
    <3>3. result.status # "CANCELLED"
      BY <3>1, <3>2 DEF ReturnMatchesStream
    <3> QED
      BY <3>2, <3>3 DEF outcome, Returned
  <2>7. said = [i \in DOMAIN events |-> Seen(events[i])]
    BY DEF said, Items
  <2> QED
    BY <2>2, <2>3, <2>5, <2>6, <2>7 DEF RunIsScripted
<1> QED
  BY <1>1, <1>2, <1>3, SaidInvariant, PTL DEF Spec

-----------------------------------------------------------------------------
(* Time adds nothing to the behaviours of run().                           *)

\* A step on the machine that keeps up is a step.
LEMMA TimedStep == [TimedNext]_timedVars => [Next]_vars
<1>1. TimedNext => Next
  BY DEF TimedNext, TimedExecutor, TimedWorker, TimedOthers, TimedTick, Next
<1>2. UNCHANGED timedVars => UNCHANGED vars
  BY DEF timedVars
<1> QED BY <1>1, <1>2

\* The invariants of run() that the deadlines rest on.
RunInv ==
    /\ TypeOK /\ Underway /\ QueueOrder /\ AnswerSeen /\ LegInv /\ NothingDropped

\* A timed behaviour of run() is a behaviour of run().
LEMMA TimedRun == TimedSpec => Spec
<1>1. TimedInit => Init
  BY DEF TimedInit
<1> QED BY <1>1, TimedStep, PTL DEF TimedSpec, Spec

\* So it has the invariants of run().
LEMMA TimedRunInv == TimedSpec => []RunInv
<1>1. Spec => []RunInv
  <2>1. /\ TypeOK /\ Underway /\ OneResult /\ ReturnMatchesStream
        /\ QueueOrder /\ AnswerSeen /\ LegInv /\ RecorderInv
        /\ NothingDropped
        => RunInv
    BY DEF RunInv
  <2> QED BY <2>1, LegInvariant, NothingDroppedCorrect, PTL
<1> QED BY <1>1, TimedRun, PTL

-----------------------------------------------------------------------------
(* Deadlines.                                                              *)

\* Step 4 has seen to the answer timeout and its safety net at this instant.
TimeoutServed ==
    /\ ~ answered /\ now >= answer_deadline => answer_timeout_hit
    /\ answer_timeout_hit => now < answer_deadline + CancelGrace

\* A loop whose waitEvent timed out at this instant has looked at its deadline.
\* Only the loops around waitEvent have a stage.
PollInv ==
    /\ pc \notin Loops => stage = "head"
    /\ polled /\ pc = "reg" => now < reg_start + RegTimeout
    /\ polled /\ pc \in {"eof", "listen"} => now < call_connected + MaxCall
    /\ polled /\ pc = "call" /\ stage # "head" => TimeoutServed

\* A step of run() that moves on, or keeps what the deadlines are about.
LEMMA ExecutorPolls == RunInv /\ PollInv /\ TimedExecutor => PollInv'
<1> SUFFICES ASSUME RunInv, PollInv, TimedExecutor PROVE PollInv'
  OBVIOUS
<1> USE DEF GoTo, Loops
<1>0. /\ now \in Nat /\ reg_start \in Nat /\ call_connected \in Nat
      /\ answer_deadline \in Nat /\ RegTimeout \in Nat /\ MaxCall \in Nat
      /\ CancelGrace \in Nat
  BY TimeAssumption DEF RunInv, TypeOK, ExecTypeOK, TimeAssumption
<1>p. polled' = (pc' = pc /\ (polled \/ WaitFails))
  BY DEF TimedExecutor
\* The step goes to another statement.
<1>a. ASSUME pc' # pc, stage' = "head" PROVE PollInv'
  BY <1>a, <1>p DEF PollInv
\* The step stays in a loop, with the clock and the deadlines as they were.
<1>b. ASSUME pc' = pc, pc \in Loops,
             UNCHANGED <<now, reg_start, call_connected>>,
             pc = "reg" /\ WaitFails => now < reg_start + RegTimeout,
             pc \in {"eof", "listen"} /\ WaitFails => now < call_connected + MaxCall,
             pc = "call" => stage' = "head"
      PROVE  PollInv'
  BY <1>b, <1>p DEF PollInv
<1>1. CASE LoopTest
  BY <1>1, <1>b DEF LoopTest, At, WaitFails, timeVars
<1>2. CASE WaitEnter
  <2>1. /\ pc' = pc /\ stage = "enter" /\ stage' = "blocked" /\ pc \in Loops
        /\ UNCHANGED <<now, loopVars, timeVars>>
        /\ polled' => polled
    BY <1>2, <1>p DEF WaitEnter, WaitFails, PollInv
  <2> QED BY <2>1 DEF PollInv, TimeoutServed, loopVars, timeVars
<1>3. CASE TakeCancel
  BY <1>3, <1>a DEF TakeCancel, Return
<1>4. CASE Start \/ StartThrows \/ Place \/ PlaceThrows \/ SetupThrows \/ Play
           \/ PlayThrows \/ LegEnds \/ HangUp
  BY <1>4, <1>a DEF Start, StartThrows, Place, PlaceThrows, SetupThrows, Play,
                    PlayThrows, LegEnds, HangUp, Crash, At, DelayOver
<1>5. CASE Setup \/ Arm
  BY <1>5, <1>a DEF Setup, Arm, Return, At
<1>6. CASE RegPoll
  <2>1. CASE now - reg_start >= RegTimeout
    BY <1>6, <2>1, <1>a DEF RegPoll, RegistrationFails, Return
  <2>2. CASE ~ (now - reg_start >= RegTimeout)
    <3>1. now < reg_start + RegTimeout
      BY <1>0, <2>2
    <3> QED BY <1>6, <2>2, <3>1, <1>b DEF RegPoll, timeVars
  <2> QED BY <2>1, <2>2
<1>7. CASE RegEvent
  <2>1. \/ GoTo("reg")
        \/ GoTo("place")
        \/ RegistrationFails(ev.sip_code)
    BY <1>7 DEF RegEvent
  <2>2. /\ pc = "reg" /\ ~ WaitFails /\ UNCHANGED <<now, reg_start, call_connected>>
    BY <1>7 DEF RegEvent, Receives, WaitFails, timeVars
  <2> QED BY <2>1, <2>2, <1>a, <1>b DEF RegistrationFails, Return
<1>8. CASE CallTest
  <2>1. pc = "call" /\ UNCHANGED <<now, answered, answer_deadline>>
    BY <1>8 DEF CallTest, At, timeVars
  <2>2. CASE NetTrips
    BY <1>8, <2>1, <2>2, <1>a DEF CallTest, Return
  <2>3. CASE ~ NetTrips
    <3>1. pc' = "call" /\ answer_timeout_hit' = TimedOut
      BY <1>8, <2>1, <2>3 DEF CallTest, answerTimeout
    <3>2. answer_timeout_hit' <=> TimedOut
      BY <3>1
    <3>3. TimedOut => now < answer_deadline + CancelGrace
      BY <1>0, <2>3 DEF NetTrips
    <3>4. TimeoutServed'
      BY <1>0, <2>1, <3>2, <3>3 DEF TimeoutServed, TimedOut
    <3> QED BY <3>1, <3>4 DEF PollInv
  <2> QED BY <2>2, <2>3
<1>9. CASE CallPoll
  BY <1>9, <1>b DEF CallPoll, timeVars
<1>10. CASE CallEvent
  <2>1. pc = "call" /\ stage' = "head" /\ pc' \in {"call", "setup", "done"}
    BY <1>10 DEF CallEvent, CallRinging, CallAnswered, CallRefused, CallMedia,
                 CallOther, AfterCallEvent
  <2> QED BY <2>1 DEF PollInv
<1>11. CASE EofPoll
  <2>1. CASE CapReached
    BY <1>11, <2>1, <1>a DEF EofPoll
  <2>2. CASE ~ CapReached
    <3>1. now < call_connected + MaxCall
      BY <1>0, <2>2 DEF CapReached
    <3> QED BY <1>11, <2>2, <3>1, <1>b DEF EofPoll, timeVars
  <2> QED BY <2>1, <2>2
<1>12. CASE EofEvent
  <2>1. /\ pc = "eof" /\ ~ WaitFails /\ UNCHANGED <<now, reg_start, call_connected>>
        /\ stage' = "head" /\ pc' \in {"eof", "arm"}
    BY <1>12 DEF EofEvent, Receives, WaitFails, timeVars
  <2> QED BY <2>1, <1>a, <1>b
<1>13. CASE FinalPoll \/ FinalEvent
  BY <1>13, <1>b DEF FinalPoll, FinalEvent, FinalLoops, timeVars
<1>14. CASE Listen
  <2>1. /\ pc = "listen" /\ UNCHANGED <<now, reg_start, call_connected>>
        /\ stage' = "head" /\ pc' \in {"listen", "hangup"}
        /\ pc' = "listen" => ~ CapReached
    BY <1>14 DEF Listen, Sample, timeVars
  <2>2. CASE pc' = "hangup"
    BY <2>1, <2>2, <1>a
  <2>3. CASE pc' = "listen"
    <3>1. now < call_connected + MaxCall
      BY <1>0, <2>1, <2>3 DEF CapReached
    <3> QED BY <2>1, <2>3, <3>1, <1>b
  <2> QED BY <2>1, <2>2, <2>3
<1> QED
  BY <1>1, <1>2, <1>3, <1>4, <1>5, <1>6, <1>7, <1>8, <1>9, <1>10, <1>11, <1>12,
     <1>13, <1>14 DEF TimedExecutor, Executor

\* The other threads and the clock keep it too.
LEMMA NextPoll == RunInv /\ PollInv /\ [TimedNext]_timedVars => PollInv'
<1> SUFFICES ASSUME RunInv, PollInv, [TimedNext]_timedVars PROVE PollInv'
  OBVIOUS
<1>a. ASSUME UNCHANGED <<pc, stage, now, timeVars, loopVars, polled>> PROVE PollInv'
  BY <1>a DEF PollInv, TimeoutServed, timeVars, loopVars
<1>1. CASE TimedExecutor
  BY <1>1, ExecutorPolls
<1>2. CASE TimedWorker
  BY <1>2, <1>a DEF TimedWorker, WorkerThread, execVars
<1>3. CASE CancelSet \/ CancelWake \/ Terminated
  <2>1. UNCHANGED <<pc, stage, now, timeVars, loopVars>>
    BY <1>3 DEF CancelSet, CancelWake, Terminated, vars, execVars
  <2>2. CASE UNCHANGED polled
    BY <2>1, <2>2, <1>a
  <2>3. CASE ~ polled'
    BY <2>1, <2>3 DEF PollInv
  <2>4. CASE TimedOthers \/ UNCHANGED timedVars
    BY <2>2, <2>4 DEF TimedOthers, timedVars
  <2>5. CASE TimedTick
    BY <2>3, <2>5 DEF TimedTick
  <2> QED BY <1>1, <1>2, <2>4, <2>5 DEF TimedNext
<1>4. CASE TimedOthers
  <2>1. CASE Destroy
    <3>1. pc = "done" /\ pc' = "destroyed" /\ stage' = stage
      BY <2>1 DEF Destroy
    <3> QED BY <3>1 DEF PollInv, Loops
  <2> QED BY <1>3, <1>4, <2>1 DEF TimedOthers
<1>5. CASE TimedTick
  <2>1. ~ polled' /\ UNCHANGED <<pc, stage>>
    BY <1>5 DEF TimedTick, Tick, execVars
  <2> QED BY <2>1 DEF PollInv
<1>6. CASE UNCHANGED timedVars
  BY <1>6, <1>a DEF timedVars, vars, execVars
<1> QED BY <1>1, <1>2, <1>4, <1>5, <1>6 DEF TimedNext

\* What PollInv means for the clock: it moves on only when nothing is overdue.
LEMMA TickInTime ==
    ASSUME RunInv, PollInv, TimedTick
    PROVE  /\ pc = "reg" => now < reg_start + RegTimeout
           /\ pc = "call" => TimeoutServed
           /\ pc = "delay" => now < call_connected + AnswerDelay
           /\ pc \in {"eof", "listen"} => now < call_connected + MaxCall
           /\ queue = <<>> \/ pc = "delay"
<1>0. now \in Nat /\ call_connected \in Nat /\ AnswerDelay \in Nat
  BY TimeAssumption DEF RunInv, TypeOK, ExecTypeOK, TimeAssumption
<1>1. CASE stage = "blocked" /\ queue = <<>> /\ polled
  BY <1>1 DEF PollInv, Loops
<1>2. CASE pc = "delay" /\ ~ Cancelled /\ ~ DelayOver
  <2>1. stage = "head"
    BY <1>2 DEF PollInv, Loops
  <2>2. now < call_connected + AnswerDelay
    BY <1>0, <1>2, <2>1 DEF DelayOver, At
  <2> QED BY <1>2, <2>2
<1> QED BY <1>1, <1>2 DEF TimedTick, Quiescent

\* Only the clock moves the clock.
LEMMA ClockTicks ==
    ASSUME [TimedNext]_timedVars, now' # now
    PROVE  TimedTick
<1>1. ~ (TimedOthers \/ TimedWorker \/ UNCHANGED timedVars)
  BY DEF TimedOthers, TimedWorker, timedVars, vars, CancelSet, CancelWake, Destroy,
         Terminated, WorkerThread
<1>2. ~ TimedExecutor
  BY DEF TimedExecutor, Executor, LoopTest, WaitEnter, TakeCancel, Start,
     StartThrows, RegPoll, RegEvent, Place, PlaceThrows, CallTest, CallPoll,
     CallEvent, Setup, SetupThrows, Play, PlayThrows, EofPoll, EofEvent, FinalPoll,
     FinalEvent, LegEnds, Arm, Listen, HangUp
<1> QED BY <1>1, <1>2 DEF TimedNext

\* run() serves its deadlines in time, whatever they are.
LEMMA StepInTime ==
    ASSUME RunInv, PollInv, [TimedNext]_timedVars, now' # now
    PROVE  /\ pc = "reg" => now < reg_start + RegTimeout
           /\ pc = "call" /\ ~ answered /\ now >= answer_deadline =>
                 answer_timeout_hit /\ (LegAlive => hangingUp)
           /\ pc = "call" /\ answer_timeout_hit => now < answer_deadline + CancelGrace
           /\ pc = "delay" => now < call_connected + AnswerDelay
           /\ pc \in {"eof", "listen"} => now < call_connected + MaxCall
<1>1. TimedTick
  BY ClockTicks
<1>2. LegInv
  BY DEF RunInv
<1> QED BY <1>1, <1>2, TickInTime DEF TimeoutServed, LegInv

\* PollInv in every state.
LEMMA PollInvariant == TimedSpec => []PollInv
<1>1. TimedInit => PollInv
  BY DEF TimedInit, Init, PollInv
<1> QED BY <1>1, TimedRunInv, NextPoll, PTL DEF TimedSpec

\* On a machine that keeps up the clock never moves past a deadline of run()
\* that was not served, for every choice of the timeouts, 0 included.
THEOREM DeadlinesKeptCorrect == TimedSpec => DeadlinesKept
<1>1. RunInv /\ PollInv /\ [TimedNext]_timedVars =>
      [now' # now =>
        /\ pc = "reg" => now < reg_start + RegTimeout
        /\ pc = "call" /\ ~ answered /\ now >= answer_deadline =>
              answer_timeout_hit /\ (LegAlive => hangingUp)
        /\ pc = "call" /\ answer_timeout_hit => now < answer_deadline + CancelGrace
        /\ pc = "delay" => now < call_connected + AnswerDelay
        /\ pc \in {"eof", "listen"} => now < call_connected + MaxCall]_timedVars
  BY StepInTime
<1> QED BY <1>1, TimedRunInv, PollInvariant, PTL DEF TimedSpec, DeadlinesKept

-----------------------------------------------------------------------------
(* Silence.                                                                *)

\* While run() listens, the detector's quiet stretch began when the callee was
\* last heard or a tick later, and a loop that has sampled at this instant has
\* not let the stretch reach the timeout.
HeardInv ==
    pc = "listen" =>
        /\ sd.armed
        /\ loud_at \in Nat
        /\ loud_at <= now
        /\ sd.started => loud_at <= sd.silence_start /\ sd.silence_start <= loud_at + 1
        /\ ~ sd.started => now <= loud_at + 1
        /\ polled => IF sd.started THEN now < sd.silence_start + SilenceTimeout
                                   ELSE loud_at = now

\* The types that the samples are about.
LEMMA HeardTypes ==
    ASSUME TypeOK
    PROVE  /\ sd \in Detector /\ now \in Nat
           /\ SilenceTimeout \in Nat /\ Threshold \in Nat
           /\ RxLevels \subseteq Nat
<1>1. /\ sd \in Detector /\ now \in Nat /\ SilenceTimeout \in Nat /\ Threshold \in Nat
  BY TimeAssumption DEF TypeOK, ExecTypeOK, TimeAssumption
<1>2. Levels \subseteq Nat
  BY SipAssumption DEF SipAssumption
<1> QED BY <1>1, <1>2 DEF RxLevels

\* A sample of the listening loop.
LEMMA SampleHeard ==
    ASSUME TypeOK, HeardInv, Listen, TimedExecutor
    PROVE  /\ HeardInv'
           /\ pc' = "hangup" => CapReached \/ now - loud_at >= SilenceTimeout
<1>1. /\ pc = "listen" /\ stage = "blocked" /\ now' = now
      /\ pc' \in {"listen", "hangup"}
  BY DEF Listen, Sample, WaitFails, Receives, GoTo
<1>2. Samples
  BY <1>1 DEF Samples
<1>3. PICK level \in RxLevels :
          Sample(level) /\ loud_at' = IF level >= Threshold THEN now ELSE loud_at
  BY <1>2 DEF TimedExecutor, Hears
<1>4. /\ sd \in Detector /\ now \in Nat /\ SilenceTimeout \in Nat
      /\ Threshold \in Nat /\ level \in Nat
  BY <1>3, HeardTypes
<1>5. /\ sd.armed /\ sd.started \in BOOLEAN /\ sd.silence_start \in Nat
      /\ loud_at \in Nat /\ loud_at <= now
      /\ sd.started => loud_at <= sd.silence_start /\ sd.silence_start <= loud_at + 1
      /\ ~ sd.started => now <= loud_at + 1
  BY <1>1, <1>4 DEF HeardInv, Detector
<1>6. /\ sd' = feed(sd, Threshold, SilenceTimeout, level, now)
      /\ pc' = "hangup" =>
            feedFires(sd, Threshold, SilenceTimeout, level, now) \/ CapReached
      /\ feedFires(sd, Threshold, SilenceTimeout, level, now) => pc' = "hangup"
  BY <1>3 DEF Sample, GoTo
<1>7. CASE level >= Threshold
  <2>1. ~ feedFires(sd, Threshold, SilenceTimeout, level, now)
    BY <1>4, <1>7 DEF feedFires
  <2>2. sd' = [sd EXCEPT !.started = FALSE, !.silence_start = 0]
    BY <1>5, <1>6, <1>7, <2>1 DEF feed
  <2>3. sd'.armed /\ ~ sd'.started
    BY <1>4, <1>5, <2>2 DEF Detector
  <2>4. loud_at' = now
    BY <1>3, <1>7
  <2> QED BY <1>1, <1>4, <1>6, <2>1, <2>3, <2>4 DEF HeardInv
<1>8. CASE ~ (level >= Threshold)
  <2>1. level < Threshold /\ loud_at' = loud_at
    BY <1>3, <1>4, <1>8
  <2>2. CASE feedFires(sd, Threshold, SilenceTimeout, level, now)
    <3>1. now - QuietSince(sd, now) >= SilenceTimeout
      BY <2>2 DEF feedFires
    <3>2. now - loud_at >= SilenceTimeout
      <4>1. CASE sd.started
        <5>1. now - sd.silence_start >= SilenceTimeout
          BY <3>1, <4>1 DEF QuietSince
        <5> QED BY <1>4, <1>5, <4>1, <5>1
      <4>2. CASE ~ sd.started
        <5>1. now - now >= SilenceTimeout
          BY <3>1, <4>2 DEF QuietSince
        <5> QED BY <1>4, <1>5, <5>1
      <4> QED BY <4>1, <4>2
    <3>3. pc' = "hangup"
      BY <1>6, <2>2
    <3> QED BY <3>2, <3>3 DEF HeardInv
  <2>3. CASE ~ feedFires(sd, Threshold, SilenceTimeout, level, now)
    <3>1. sd' = [sd EXCEPT !.started = TRUE, !.silence_start = QuietSince(sd, now)]
      BY <1>5, <1>6, <1>8, <2>3 DEF feed
    <3>2. sd'.armed /\ sd'.started /\ sd'.silence_start = QuietSince(sd, now)
      BY <1>4, <1>5, <3>1 DEF Detector
    <3>3. QuietSince(sd, now) = IF sd.started THEN sd.silence_start ELSE now
      BY DEF QuietSince
    <3>4. ~ (now - QuietSince(sd, now) >= SilenceTimeout)
      BY <1>5, <2>1, <2>3 DEF feedFires
    <3>5. /\ loud_at <= sd'.silence_start /\ sd'.silence_start <= loud_at + 1
          /\ now < sd'.silence_start + SilenceTimeout
      BY <1>4, <1>5, <3>2, <3>3, <3>4
    <3> QED BY <1>1, <1>5, <1>6, <2>1, <2>3, <3>2, <3>5 DEF HeardInv
  <2> QED BY <2>2, <2>3
<1> QED BY <1>7, <1>8

\* A step of run() that is in the listening loop afterwards is a sample, the
\* arming of the detector, or the way into waitEvent.
LEMMA IntoListen ==
    ASSUME Executor, pc' = "listen"
    PROVE  \/ Listen
           \/ At("arm") /\ sd' = arm(NewDetector) /\ now' = now
           \/ pc = "listen" /\ stage # "blocked" /\ UNCHANGED <<sd, now>>
<1> USE DEF GoTo, Crash, Return
<1>1. CASE LoopTest \/ WaitEnter
  BY <1>1 DEF LoopTest, WaitEnter, At
<1>2. CASE Arm
  BY <1>2 DEF Arm
<1>3. ~ (\/ TakeCancel \/ Start \/ StartThrows \/ RegPoll \/ RegEvent \/ Place
         \/ PlaceThrows \/ CallTest \/ CallPoll)
  BY DEF TakeCancel, Start, StartThrows, RegPoll, RegEvent, Place, PlaceThrows,
         CallTest, CallPoll, RegistrationFails, At
<1>4. ~ CallEvent
  BY DEF CallEvent, CallRinging, CallAnswered, CallRefused, CallMedia, CallOther,
         AfterCallEvent
<1>5. ~ (\/ Setup \/ SetupThrows \/ Play \/ PlayThrows \/ EofPoll \/ EofEvent
         \/ FinalPoll \/ FinalEvent \/ LegEnds \/ HangUp)
  BY DEF Setup, SetupThrows, Play, PlayThrows, EofPoll, EofEvent, FinalPoll,
         FinalEvent, FinalLoops, LegEnds, HangUp
<1> QED BY <1>1, <1>2, <1>3, <1>4, <1>5 DEF Executor

\* Only a sample leads from listening to the hang-up.
LEMMA OutOfListen ==
    ASSUME Executor, pc = "listen", pc' = "hangup"
    PROVE  Listen
<1> USE DEF GoTo, Crash, Return
<1>1. ~ (\/ LoopTest \/ WaitEnter \/ TakeCancel \/ Start \/ StartThrows \/ RegPoll
         \/ RegEvent \/ Place \/ PlaceThrows \/ CallTest \/ CallPoll \/ CallEvent
         \/ Setup \/ SetupThrows \/ Play \/ PlayThrows \/ EofPoll \/ EofEvent
         \/ FinalPoll \/ FinalEvent \/ LegEnds \/ Arm \/ HangUp)
  BY DEF LoopTest, WaitEnter, TakeCancel, Start, StartThrows, RegPoll, RegEvent,
         Place, PlaceThrows, CallTest, CallPoll, CallEvent, Setup, SetupThrows, Play,
         PlayThrows, EofPoll, EofEvent, FinalPoll, FinalEvent, FinalLoops, LegEnds,
         Arm, HangUp, At, DelayOver
<1> QED BY <1>1 DEF Executor

\* What was heard, after a step of run().
LEMMA ExecutorHeard == RunInv /\ HeardInv /\ TimedExecutor => HeardInv'
<1> SUFFICES ASSUME RunInv, HeardInv, TimedExecutor, pc' = "listen" PROVE HeardInv'
  BY DEF HeardInv
<1>1. TypeOK /\ Executor /\ now \in Nat
  BY DEF RunInv, TimedExecutor, TypeOK, ExecTypeOK
<1>2. CASE Listen
  BY <1>1, <1>2, SampleHeard
<1>3. CASE At("arm") /\ sd' = arm(NewDetector) /\ now' = now
  <2>1. ~ Samples /\ pc = "arm"
    BY <1>3 DEF Samples, At
  <2>2. loud_at' = now
    BY <2>1 DEF TimedExecutor, Hears
  <2>3. ~ polled'
    BY <2>1 DEF TimedExecutor
  <2>4. sd'.armed /\ ~ sd'.started
    BY <1>3 DEF arm
  <2> QED BY <1>1, <1>3, <2>2, <2>3, <2>4 DEF HeardInv
<1>4. CASE pc = "listen" /\ stage # "blocked" /\ UNCHANGED <<sd, now>>
  <2>1. ~ Samples /\ ~ WaitFails
    BY <1>4 DEF Samples, WaitFails
  <2>2. loud_at' = loud_at
    BY <1>4, <2>1 DEF TimedExecutor, Hears
  <2>3. polled' => polled
    BY <2>1 DEF TimedExecutor
  <2> QED BY <1>4, <2>2, <2>3 DEF HeardInv
<1> QED BY <1>1, <1>2, <1>3, <1>4, IntoListen

\* The other threads leave it alone, and the clock moves on only after a sample.
LEMMA NextHeard ==
    RunInv /\ PollInv /\ HeardInv /\ [TimedNext]_timedVars => HeardInv'
<1> SUFFICES ASSUME RunInv, PollInv, HeardInv, [TimedNext]_timedVars PROVE HeardInv'
  OBVIOUS
<1>a. ASSUME UNCHANGED <<pc, sd, now, polled, loud_at>> PROVE HeardInv'
  BY <1>a DEF HeardInv
<1>1. CASE TimedExecutor
  BY <1>1, ExecutorHeard
<1>2. CASE TimedWorker
  BY <1>2, <1>a DEF TimedWorker, WorkerThread, execVars
<1>3. CASE TimedOthers
  <2>1. CASE Destroy
    BY <2>1 DEF Destroy, HeardInv
  <2>2. CASE CancelSet \/ CancelWake \/ Terminated
    BY <1>3, <2>2, <1>a DEF TimedOthers, CancelSet, CancelWake, Terminated, vars,
                            execVars
  <2> QED BY <1>3, <2>1, <2>2 DEF TimedOthers
<1>4. CASE TimedTick
  <2>1. UNCHANGED <<pc, sd, loud_at>> /\ now' = now + 1 /\ ~ polled'
    BY <1>4 DEF TimedTick, Tick, execVars
  <2>2. pc = "listen" => polled
    BY <1>4 DEF TimedTick, Quiescent
  <2>3. now \in Nat
    BY DEF RunInv, TypeOK, ExecTypeOK
  <2> QED BY <2>1, <2>2, <2>3 DEF HeardInv
<1>5. CASE UNCHANGED timedVars
  BY <1>5, <1>a DEF timedVars, vars, execVars
<1> QED BY <1>1, <1>2, <1>3, <1>4, <1>5 DEF TimedNext

\* Before the cap only a silence of the whole timeout ends the listening.
LEMMA NotWhileSpeaking ==
    ASSUME RunInv, HeardInv, [TimedNext]_timedVars, pc = "listen", pc' = "hangup"
    PROVE  CapReached \/ now - loud_at >= SilenceTimeout
<1>1. TypeOK
  BY DEF RunInv
<1>2. TimedExecutor
  <2>1. ~ (TimedWorker \/ TimedTick \/ UNCHANGED timedVars)
    BY DEF TimedWorker, WorkerThread, TimedTick, Tick, timedVars, vars, execVars
  <2>2. ~ TimedOthers
    BY DEF TimedOthers, CancelSet, CancelWake, Destroy, Terminated, vars, execVars
  <2> QED BY <2>1, <2>2 DEF TimedNext
<1>3. Listen
  BY <1>2, OutOfListen DEF TimedExecutor
<1> QED BY <1>1, <1>2, <1>3, SampleHeard

\* The clock does not move on over a silence that has lasted.
LEMMA NotPastSilence ==
    ASSUME RunInv, PollInv, HeardInv, [TimedNext]_timedVars, pc = "listen", now' # now
    PROVE  now - loud_at <= SilenceTimeout
<1>1. TimedTick
  BY ClockTicks
<1>2. polled
  BY <1>1 DEF TimedTick, Quiescent
<1>3. now \in Nat /\ SilenceTimeout \in Nat /\ sd \in Detector
  BY HeardTypes DEF RunInv
<1>4. sd.silence_start \in Nat
  BY <1>3 DEF Detector
<1> QED BY <1>2, <1>3, <1>4 DEF HeardInv

\* The agent does not hang up on a callee who speaks and does not miss the
\* silence of one who stopped, for every timeout, threshold and set of levels.
THEOREM HangsUpOnSilenceCorrect == TimedSpec => HangsUpOnSilence
<1>1. TimedInit => HeardInv
  BY DEF TimedInit, Init, HeardInv
<1>2. TimedSpec => []HeardInv
  BY <1>1, TimedRunInv, PollInvariant, NextHeard, PTL DEF TimedSpec
<1>3. RunInv /\ PollInv /\ HeardInv /\ [TimedNext]_timedVars =>
      [/\ pc = "listen" /\ pc' = "hangup" =>
             \/ now - call_connected >= MaxCall
             \/ now - loud_at >= SilenceTimeout
       /\ pc = "listen" /\ now' # now => now - loud_at <= SilenceTimeout]_timedVars
  BY NotWhileSpeaking, NotPastSilence DEF CapReached
<1> QED BY <1>2, <1>3, TimedRunInv, PollInvariant, PTL DEF TimedSpec, HangsUpOnSilence

-----------------------------------------------------------------------------
(* The bill.                                                               *)

\* A quotient grows with its dividend.
LEMMA DivMonotone ==
    ASSUME NEW a \in Int, NEW b \in Int, NEW s \in Nat \ {0}, a <= b
    PROVE  a \div s <= b \div s
<1> DEFINE p == a \div s
           q == b \div s
<1>1. p \in Int /\ s * p <= a
  OBVIOUS
<1>2. q \in Int /\ b < s * q + s
  OBVIOUS
<1> HIDE DEF p, q
<1>3. s * q + s = s * (q + 1)
  BY <1>2
<1>4. s * p < s * (q + 1)
  BY <1>1, <1>2, <1>3
<1>5. p < q + 1
  BY <1>1, <1>2, <1>4
<1>6. p <= q
  BY <1>1, <1>2, <1>5
<1> QED BY <1>6 DEF p, q

\* So do started seconds.
LEMMA RoundedMonotone ==
    ASSUME NEW a \in Int, NEW b \in Int, a <= b
    PROVE  RoundedUp(a) <= RoundedUp(b)
<1>1. Second \in Nat \ {0}
  BY TimeAssumption DEF TimeAssumption
<1>2. a + Second - 1 \in Int /\ b + Second - 1 \in Int
  BY <1>1
<1>3. a + Second - 1 <= b + Second - 1
  BY <1>1
<1> QED BY <1>1, <1>2, <1>3, DivMonotone DEF RoundedUp

\* run() has returned the result of an answered call.
Billed == Returned /\ result.status = "ANSWERED" /\ call_connected > 0

\* From the end of the leg to its DISCONNECTED being read no time passes but the
\* answer delay's; a bill needs a leg that has ended.
BillInv ==
    /\ leg_end \in Nat
    /\ leg_end <= now
    /\ inv = INV_STATE_DISCONNECTED /\ pc \notin Ended =>
          now = leg_end \/ now <= call_connected + AnswerDelay
    /\ Billed => inv = INV_STATE_DISCONNECTED
    /\ BillingBounded

\* What a step of run() does to the bill: it returns no result of an answered call,
\* or it reads DISCONNECTED of a leg that has ended and bills the time from the
\* answer to now.
Bills ==
    /\ pc \notin Ended
    /\ now' = now
    /\ inv' = inv \/ inv' # INV_STATE_DISCONNECTED
    /\ call_connected' = call_connected \/ call_connected' = now
    /\ \/ ~ Billed'
       \/ /\ inv = INV_STATE_DISCONNECTED /\ inv' = inv
          /\ result'.billing_seconds = Billing
          /\ call_connected' = call_connected

\* A DISCONNECTED in the queue is that of a leg that has ended.
LEMMA ReadEnd ==
    ASSUME TypeOK, QueueOrder, Receives, IsCallState(ev, INV_STATE_DISCONNECTED)
    PROVE  inv = INV_STATE_DISCONNECTED
<1>1. queue \in Seq(InternalEvent) /\ inv \in {0, 1, 3, 4, 5, 6}
  BY LegTypes
<1>2. queue # <<>>
  BY DEF Receives
<1>3. 1 \in 1 .. Len(queue) /\ ev = queue[1]
  BY <1>1, <1>2, TailItems DEF ev
<1>4. IsState(queue[1]) /\ queue[1].call_state = INV_STATE_DISCONNECTED
  BY <1>3 DEF IsCallState, IsState
<1>5. INV_STATE_DISCONNECTED \in 1 .. inv
  BY <1>3, <1>4 DEF QueueOrder
<1> QED BY <1>1, <1>5 DEF INV_STATE_DISCONNECTED

\* The bill of handleDisconnect().
LEMMA DisconnectBill ==
    ASSUME TypeOK, NEW code, handleDisconnect(code)
    PROVE  result'.billing_seconds = Billing
<1>1. result \in Result
  BY DEF TypeOK, ExecTypeOK
<1>2. result' = [result EXCEPT !.status = DisconnectStatus(code),
                               !.sip_code = code,
                               !.billing_seconds = Billing]
  BY DEF handleDisconnect
<1> QED BY <1>1, <1>2 DEF Result

\* Every step of run() is of that kind.
LEMMA ExecutorBills == RunInv /\ PollInv /\ Executor => Bills
<1> SUFFICES ASSUME RunInv, PollInv, Executor PROVE Bills
  OBVIOUS
<1> USE DEF GoTo, Ended, Loops
<1>0. TypeOK /\ QueueOrder /\ result \in Result
  BY DEF RunInv, TypeOK, ExecTypeOK
\* The step does not return.
<1>a. ASSUME pc \notin Ended, pc' \notin {"done", "destroyed"},
             now' = now, call_connected' = call_connected \/ call_connected' = now,
             inv' = inv \/ inv' = INV_STATE_CALLING
      PROVE  Bills
  BY <1>a DEF Bills, Billed, Returned, INV_STATE_CALLING, INV_STATE_DISCONNECTED
\* The step returns something else than ANSWERED.
<1>b. ASSUME pc \notin Ended, UNCHANGED <<now, call_connected, inv>>,
             result'.status # "ANSWERED"
      PROVE  Bills
  BY <1>b DEF Bills, Billed
<1>1. CASE LoopTest \/ StartThrows \/ PlaceThrows \/ CallPoll
           \/ SetupThrows \/ PlayThrows \/ FinalPoll \/ FinalEvent
  BY <1>1, <1>a DEF LoopTest, StartThrows, PlaceThrows, CallPoll, Crash,
                    SetupThrows, PlayThrows, FinalPoll, FinalEvent, FinalLoops,
                    At, DelayOver, agentVars, timeVars
<1>2. CASE Start \/ Place \/ Play \/ EofPoll \/ EofEvent \/ HangUp \/ Listen
  BY <1>2, <1>a DEF Start, Place, placeCall, Play, EofPoll, EofEvent, HangUp, Listen,
                    Sample, At, DelayOver, timeVars
<1>3. CASE WaitEnter
  <2>1. pc \notin Ended
    BY <1>3 DEF WaitEnter, PollInv
  <2> QED BY <1>3, <2>1, <1>a DEF WaitEnter, timeVars
<1>4. CASE TakeCancel
  <2>1. pc \notin Ended /\ UNCHANGED <<now, call_connected, inv>>
    BY <1>4 DEF TakeCancel, timeVars
  <2>2. result' = [result EXCEPT !.status = "CANCELLED"]
    BY <1>4 DEF TakeCancel, Return
  <2>3. result'.status = "CANCELLED"
    BY <1>0, <2>2 DEF Result
  <2> QED BY <2>1, <2>3, <1>b
<1>c. ASSUME NEW c, pc \notin Ended, UNCHANGED <<now, call_connected, inv>>,
             RegistrationFails(c)
      PROVE  Bills
  <2>1. result' = [result EXCEPT !.status = "FAILED", !.sip_code = c]
    BY <1>c DEF RegistrationFails, Return
  <2>2. result'.status = "FAILED"
    BY <1>0, <2>1 DEF Result
  <2> QED BY <1>b, <1>c, <2>2
<1>5. CASE RegPoll
  <2>1. pc \notin Ended /\ UNCHANGED <<now, call_connected, inv>>
    BY <1>5 DEF RegPoll, agentVars, timeVars
  <2>2. pc' = "reg" \/ RegistrationFails(0)
    BY <1>5 DEF RegPoll
  <2> QED BY <2>1, <2>2, <1>a, <1>c
<1>6. CASE RegEvent
  <2>1. pc \notin Ended /\ UNCHANGED <<now, call_connected, inv>>
    BY <1>6 DEF RegEvent, timeVars
  <2>2. pc' \in {"reg", "place"} \/ RegistrationFails(ev.sip_code)
    BY <1>6 DEF RegEvent
  <2> QED BY <2>1, <2>2, <1>a, <1>c
<1>7. CASE CallTest
  <2>1. pc = "call" /\ UNCHANGED <<now, call_connected, inv>>
    BY <1>7 DEF CallTest, At, timeVars
  <2>2. pc' = "call" \/ result' = [result EXCEPT !.status = "NO_ANSWER"]
    BY <1>7, <2>1 DEF CallTest, Return
  <2>3. pc' = "call" \/ result'.status = "NO_ANSWER"
    BY <1>0, <2>2 DEF Result
  <2> QED BY <2>1, <2>3, <1>a, <1>b
<1>8. CASE CallEvent
  <2>0. pc \notin Ended /\ now' = now /\ inv' = inv /\ Receives
    BY <1>8 DEF CallEvent
  <2>1. CASE CallRinging \/ CallMedia \/ CallOther
    BY <2>0, <2>1, <1>a DEF CallRinging, CallMedia, CallOther, AfterCallEvent
  <2>2. CASE CallAnswered
    BY <2>0, <2>2, <1>a DEF CallAnswered, AfterCallEvent
  <2>3. CASE CallRefused
    <3>1. inv = INV_STATE_DISCONNECTED
      BY <1>0, <2>0, <2>3, ReadEnd DEF CallRefused
    <3>2. result'.billing_seconds = Billing
      BY <1>0, <2>3, DisconnectBill DEF CallRefused
    <3> QED BY <2>0, <2>3, <3>1, <3>2 DEF Bills, CallRefused
  <2> QED BY <1>8, <2>1, <2>2, <2>3 DEF CallEvent
<1>9. CASE LegEnds
  <2>1. inv = INV_STATE_DISCONNECTED
    BY <1>0, <1>9, ReadEnd DEF LegEnds
  <2>2. result'.billing_seconds = Billing
    BY <1>0, <1>9, DisconnectBill DEF LegEnds
  <2>3. pc \notin Ended /\ UNCHANGED <<now, call_connected, inv>>
    BY <1>9 DEF LegEnds, timeVars
  <2> QED BY <2>1, <2>2, <2>3 DEF Bills
<1>10. CASE Setup
  <2>1. pc \notin Ended /\ UNCHANGED <<now, call_connected, inv>>
    BY <1>10 DEF Setup, At, timeVars
  <2>2. pc' = "delay" \/ (result' = result /\ GaveUp)
    BY <1>10 DEF Setup, Return
  <2> QED BY <2>1, <2>2, <1>a, <1>b DEF GaveUp
<1>11. CASE Arm
  <2>1. pc \notin Ended /\ UNCHANGED <<now, call_connected, inv>>
    BY <1>11 DEF Arm, At, agentVars, timeVars
  <2>2. pc' = "listen" \/ (result' = result /\ GaveUp)
    BY <1>11 DEF Arm, Return
  <2> QED BY <2>1, <2>2, <1>a, <1>b DEF GaveUp
<1> QED
  BY <1>1, <1>2, <1>3, <1>4, <1>5, <1>6, <1>7, <1>8, <1>9, <1>10, <1>11 DEF Executor

\* The bill of an ended leg lies between its bounds.
LEMMA BillWithinBounds ==
    ASSUME RunInv, BillInv, inv = INV_STATE_DISCONNECTED, pc \notin Ended,
           call_connected > 0
    PROVE  /\ Billing >= RoundedUp(leg_end - call_connected)
           /\ Billing <=
                 RoundedUp(Later(leg_end, call_connected + AnswerDelay) - call_connected)
<1> DEFINE last == Later(leg_end, call_connected + AnswerDelay)
<1>1. /\ now \in Nat /\ call_connected \in Nat /\ AnswerDelay \in Nat
      /\ leg_end \in Nat /\ leg_end <= now
      /\ now = leg_end \/ now <= call_connected + AnswerDelay
  BY TimeAssumption DEF RunInv, TypeOK, ExecTypeOK, TimeAssumption, BillInv
<1>2. Billing = RoundedUp(now - call_connected)
  BY DEF Billing, RoundedUp
<1>3. last \in Nat /\ now <= last
  BY <1>1 DEF Later
<1> HIDE DEF last
<1>4. /\ leg_end - call_connected \in Int /\ now - call_connected \in Int
      /\ last - call_connected \in Int
      /\ leg_end - call_connected <= now - call_connected
      /\ now - call_connected <= last - call_connected
  BY <1>1, <1>3
<1>5. /\ RoundedUp(leg_end - call_connected) <= RoundedUp(now - call_connected)
      /\ RoundedUp(now - call_connected) <= RoundedUp(last - call_connected)
  BY <1>4, RoundedMonotone
<1>6. /\ RoundedUp(leg_end - call_connected) \in Int
      /\ RoundedUp(now - call_connected) \in Int
  <2>1. Second \in Nat \ {0}
    BY TimeAssumption DEF TimeAssumption
  <2> QED BY <1>4, <2>1 DEF RoundedUp
<1> QED BY <1>2, <1>5, <1>6 DEF last

\* The end of the leg, and the bill, after a step of run().
LEMMA ExecutorBillInv == RunInv /\ PollInv /\ BillInv /\ TimedExecutor => BillInv'
<1> SUFFICES ASSUME RunInv, PollInv, BillInv, TimedExecutor PROVE BillInv'
  OBVIOUS
<1>1. Bills /\ leg_end' = leg_end
  BY ExecutorBills DEF TimedExecutor
<1>2. /\ now \in Nat /\ call_connected \in Nat /\ AnswerDelay \in Nat
      /\ Billing \in Nat
  BY TimeAssumption, BillingType DEF RunInv, TypeOK, ExecTypeOK, TimeAssumption
<1>3. leg_end' \in Nat /\ leg_end' <= now'
  BY <1>1 DEF BillInv, Bills
<1>4. ASSUME inv' = INV_STATE_DISCONNECTED
      PROVE  now' = leg_end' \/ now' <= call_connected' + AnswerDelay
  <2>1. inv = INV_STATE_DISCONNECTED /\ pc \notin Ended /\ now' = now
    BY <1>1, <1>4 DEF Bills
  <2>2. now = leg_end \/ now <= call_connected + AnswerDelay
    BY <2>1 DEF BillInv
  <2>3. CASE call_connected' = call_connected
    BY <1>1, <2>1, <2>2, <2>3
  <2>4. CASE call_connected' = now
    BY <1>2, <2>1, <2>4
  <2> QED BY <1>1, <2>3, <2>4 DEF Bills
<1>5. ASSUME Billed'
      PROVE  inv' = INV_STATE_DISCONNECTED /\ BillingBounded'
  <2>1. /\ inv = INV_STATE_DISCONNECTED /\ inv' = inv
        /\ result'.billing_seconds = Billing
        /\ call_connected' = call_connected /\ pc \notin Ended
    BY <1>1, <1>5 DEF Bills
  <2>2. /\ Billing >= RoundedUp(leg_end - call_connected)
        /\ Billing <=
              RoundedUp(Later(leg_end, call_connected + AnswerDelay) - call_connected)
    BY <1>5, <2>1, BillWithinBounds DEF Billed
  <2>3. BillingBounded'
    BY <1>1, <2>1, <2>2 DEF BillingBounded
  <2> QED BY <2>1, <2>3
<1> QED BY <1>3, <1>4, <1>5 DEF BillInv, BillingBounded, Billed

\* A leg ends only while it lives.
LEMMA EndsAlive ==
    WorkerThread /\ inv' = INV_STATE_DISCONNECTED =>
        LegAlive \/ inv = INV_STATE_DISCONNECTED
BY DEF WorkerThread, Callback, onRegState, Ringing, PickedUp, Confirmed, Disconnected,
       onCallMediaState, onEof2, onCallState, INV_STATE_EARLY, INV_STATE_CONNECTING,
       INV_STATE_CONFIRMED, INV_STATE_DISCONNECTED

\* An ended leg stays ended.
LEMMA StaysEnded == WorkerThread /\ inv = INV_STATE_DISCONNECTED => inv' = inv
BY DEF WorkerThread, Callback, onRegState, Ringing, PickedUp, Confirmed, Disconnected,
       onCallMediaState, onEof2, onCallState, LegAlive, INV_STATE_CALLING,
       INV_STATE_EARLY, INV_STATE_CONNECTING, INV_STATE_CONFIRMED,
       INV_STATE_DISCONNECTED

\* The end of the leg, and the bill, after every step.
LEMMA NextBill ==
    RunInv /\ PollInv /\ BillInv /\ [TimedNext]_timedVars => BillInv'
<1> SUFFICES ASSUME RunInv, PollInv, BillInv, [TimedNext]_timedVars PROVE BillInv'
  OBVIOUS
<1>0. now \in Nat /\ call_connected \in Nat /\ AnswerDelay \in Nat
  BY TimeAssumption DEF RunInv, TypeOK, ExecTypeOK, TimeAssumption
<1>a. ASSUME UNCHANGED <<pc, inv, now, call_connected, result, leg_end>>
      PROVE  BillInv'
  BY <1>a DEF BillInv, BillingBounded, Billed, Returned
<1>1. CASE TimedExecutor
  BY <1>1, ExecutorBillInv
<1>2. CASE TimedWorker
  <2>1. UNCHANGED <<pc, now, call_connected, result>> /\ WorkerThread
    BY <1>2 DEF TimedWorker, WorkerThread, execVars, timeVars
  <2>2. CASE inv' = INV_STATE_DISCONNECTED /\ LegAlive
    <3>1. leg_end' = now /\ inv # INV_STATE_DISCONNECTED
      BY <1>2, <2>2 DEF TimedWorker, LegAlive
    <3>2. ~ Billed
      BY <3>1 DEF BillInv
    <3> QED BY <1>0, <2>1, <2>2, <3>1, <3>2 DEF BillInv, BillingBounded, Billed, Returned
  <2>3. CASE inv' = INV_STATE_DISCONNECTED /\ ~ LegAlive
    <3>1. inv' = inv /\ leg_end' = leg_end
      BY <1>2, <2>1, <2>3, EndsAlive DEF TimedWorker
    <3> QED BY <2>1, <3>1, <1>a
  <2>4. CASE inv' # INV_STATE_DISCONNECTED
    <3>1. leg_end' = leg_end /\ inv # INV_STATE_DISCONNECTED
      BY <1>2, <2>1, <2>4, StaysEnded DEF TimedWorker
    <3> QED BY <2>1, <2>4, <3>1 DEF BillInv, BillingBounded, Billed, Returned
  <2> QED BY <2>2, <2>3, <2>4
<1>3. CASE TimedOthers
  <2>1. CASE Destroy
    <3>1. /\ pc = "done" /\ pc' = "destroyed" /\ UNCHANGED <<now, call_connected, result, leg_end>>
          /\ inv = INV_STATE_DISCONNECTED => inv' = INV_STATE_DISCONNECTED
      BY <1>3, <2>1 DEF TimedOthers, Destroy, SipDestroy, LegAlive, timeVars
    <3> QED BY <3>1 DEF BillInv, BillingBounded, Billed, Returned, Ended
  <2>2. CASE CancelSet \/ CancelWake \/ Terminated
    BY <1>3, <2>2, <1>a DEF TimedOthers, CancelSet, CancelWake, Terminated, vars,
                            agentVars, execVars, timeVars
  <2> QED BY <1>3, <2>1, <2>2 DEF TimedOthers
<1>4. CASE TimedTick
  <2>1. /\ UNCHANGED <<pc, inv, call_connected, result, leg_end>> /\ now' = now + 1
    BY <1>4 DEF TimedTick, Tick, agentVars, execVars, timeVars
  <2>2. ASSUME inv = INV_STATE_DISCONNECTED, pc \notin Ended
        PROVE  now' <= call_connected + AnswerDelay
    <3>1. queue # <<>>
      BY <2>2 DEF RunInv, NothingDropped
    <3>2. pc = "delay" /\ now < call_connected + AnswerDelay
      BY <1>4, <3>1, TickInTime
    <3> QED BY <1>0, <2>1, <3>2
  <2> QED BY <1>0, <2>1, <2>2 DEF BillInv, BillingBounded, Billed, Returned
<1>5. CASE UNCHANGED timedVars
  BY <1>5, <1>a DEF timedVars, vars, agentVars, execVars, timeVars
<1> QED BY <1>1, <1>2, <1>3, <1>4, <1>5 DEF TimedNext

\* A bill covers the leg from its answer to its end, and beyond the end at most
\* the rest of the answer delay, for every length of the second and the delay.
THEOREM BillingBoundedCorrect == TimedSpec => []BillingBounded
<1>1. TimedInit => BillInv
  <2> SUFFICES ASSUME TimedInit PROVE BillInv
    OBVIOUS
  <2>1. /\ leg_end = 0 /\ now = 1 /\ inv = INV_STATE_NULL
        /\ pc = "start"
    BY DEF TimedInit, Init, SipInit
  <2> QED
    BY <2>1 DEF BillInv, BillingBounded, Billed, Returned, INV_STATE_NULL, INV_STATE_DISCONNECTED
<1>2. BillInv => BillingBounded
  BY DEF BillInv
<1> QED
  BY <1>1, <1>2, TimedRunInv, PollInvariant, NextBill, PTL DEF TimedSpec
=============================================================================
