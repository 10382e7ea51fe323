------------------------------ MODULE SipAgent ------------------------------
(***************************************************************************)
(* SipAgent: the event queue between the PJSIP worker thread and the       *)
(* executor thread, and the SIP leg behind it.                             *)
(*                                                                         *)
(* PJSIP itself is not in the repository.  Its part here (which callbacks  *)
(* come, in which order) is what the code relies on: an INVITE session     *)
(* only moves forward through CALLING, EARLY, CONNECTING, CONFIRMED and    *)
(* DISCONNECTED, and every move calls onCallState.  The worker thread's    *)
(* actions are onRegState, the four moves of the leg, onCallMediaState and *)
(* onEof2; the operations of the executor's thread are the operators at    *)
(* the end, used by the module CallExecutor.                               *)
(***************************************************************************)
EXTENDS CallEvents

CONSTANTS
    RegCodes,         \* status codes a registration may come back with
    RejectCodes,      \* final codes a callee or a proxy may answer with
    Levels,           \* values pjmedia's RX level meter may show
    MaxRegResults,    \* bound: calls of onRegState
    MaxEarly,         \* bound: provisional answers of the callee
    MaxMediaUpdates   \* bound: calls of onCallMediaState

ASSUME SipAssumption ==
    /\ RegCodes \subseteq 200..699
    /\ RejectCodes \subseteq 300..699
    /\ Levels \subseteq Nat
    /\ MaxRegResults \in Nat
    /\ MaxEarly \in Nat
    /\ MaxMediaUpdates \in Nat

VARIABLES
    queue,            \* queue_: InternalEvents, oldest first
    dispatcher_wake,  \* dispatcher_wake_
    account,          \* account_ and ep_: "none", "created" or "gone"
    inv,              \* the leg's INVITE session state
    hangingUp,        \* has call_->hangup() been accepted for the leg?
    media,            \* is the leg's audio stream active now?
    player,           \* player_: "none", "idle", "playing" or "ended"
    recorder,         \* recorder_: "none", "open" or "closed"
    budget            \* callbacks the stack may still make (the bounds)

agentVars ==
    <<queue, dispatcher_wake, account, inv, hangingUp, media, player, recorder,
      budget>>

SipTypeOK ==
    /\ queue \in Seq(InternalEvent)
    /\ dispatcher_wake \in BOOLEAN
    /\ account \in {"none", "created", "gone"}
    /\ inv \in InvState
    /\ hangingUp \in BOOLEAN
    /\ media \in BOOLEAN
    /\ player \in {"none", "idle", "playing", "ended"}
    /\ recorder \in {"none", "open", "closed"}
    /\ budget \in [reg : Nat, early : Nat, media : Nat]

SipInit ==
    /\ queue = <<>>
    /\ dispatcher_wake = FALSE
    /\ account = "none"
    /\ inv = INV_STATE_NULL
    /\ hangingUp = FALSE
    /\ media = FALSE
    /\ player = "none"
    /\ recorder = "none"
    /\ budget = [reg |-> MaxRegResults, early |-> MaxEarly,
                 media |-> MaxMediaUpdates]

LegAlive == inv \notin {INV_STATE_NULL, INV_STATE_DISCONNECTED}

-----------------------------------------------------------------------------
(* The PJSIP worker thread.                                                *)

\* pushEvent onto the wrong end of the deque (mutant).
pushEventFront(ev) == queue' = <<ev>> \o queue

pushEvent(ev) == queue' = Append(queue, ev)

\* A registration result: the first answer, a refresh, a later failure.
onRegState ==
    /\ account = "created"
    /\ budget.reg > 0
    /\ \E code \in RegCodes : pushEvent(RegStateEvent(code))
    /\ budget' = [budget EXCEPT !.reg = @ - 1]
    /\ UNCHANGED <<dispatcher_wake, account, inv, hangingUp, media, player,
                   recorder>>

\* The leg moves to state, and onCallState reports it with its last code.
onCallState(state, code) ==
    /\ inv' = state
    /\ pushEvent(CallStateEvent(state, code))
    /\ UNCHANGED <<dispatcher_wake, account, hangingUp, player, recorder>>

Ringing ==
    /\ account = "created"
    /\ inv \in {INV_STATE_CALLING, INV_STATE_EARLY}
    /\ budget.early > 0
    /\ onCallState(INV_STATE_EARLY, 180)
    /\ budget' = [budget EXCEPT !.early = @ - 1]
    /\ UNCHANGED media

\* A 200 OK.  It may cross our CANCEL, so hangingUp does not forbid it.
PickedUp ==
    /\ account = "created"
    /\ inv \in {INV_STATE_CALLING, INV_STATE_EARLY}
    /\ onCallState(INV_STATE_CONNECTING, 200)
    /\ UNCHANGED <<budget, media>>

\* The ACK is out.
Confirmed ==
    /\ account = "created"
    /\ inv = INV_STATE_CONNECTING
    /\ onCallState(INV_STATE_CONFIRMED, 200)
    /\ UNCHANGED <<budget, media>>

\* What lastStatusCode may be when the leg ends: 0 stands for the "call
\* destroyed" branch, 603 is how PJSIP records a local hangup, and a
\* confirmed leg that the callee ends keeps the 200 of its BYE.
DisconnectCodes ==
    {0} \cup (IF hangingUp THEN {603} ELSE {})
        \cup (IF inv = INV_STATE_CONFIRMED THEN {200} ELSE RejectCodes)

Disconnected ==
    /\ account = "created"
    /\ LegAlive
    /\ \E code \in DisconnectCodes : onCallState(INV_STATE_DISCONNECTED, code)
    /\ media' = FALSE
    /\ UNCHANGED budget

\* Early media, the answer's SDP, hold and resume.
onCallMediaState ==
    /\ account = "created"
    /\ inv \in {INV_STATE_EARLY, INV_STATE_CONNECTING, INV_STATE_CONFIRMED}
    /\ budget.media > 0
    /\ \E active \in BOOLEAN :
          /\ media' = active
          /\ pushEvent(MediaStateEvent(active))
    /\ budget' = [budget EXCEPT !.media = @ - 1]
    /\ UNCHANGED <<dispatcher_wake, account, inv, hangingUp, player, recorder>>

\* The player reaches the end of its file; it only runs while it transmits.
onEof2 ==
    /\ account = "created"
    /\ player = "playing"
    /\ media
    /\ player' = "ended"
    /\ pushEvent(PlaybackEofEvent)
    /\ UNCHANGED <<dispatcher_wake, account, inv, hangingUp, media, recorder,
                   budget>>

Callback ==
    \/ onRegState
    \/ Ringing
    \/ PickedUp
    \/ Confirmed
    \/ Disconnected
    \/ onCallMediaState
    \/ onEof2

-----------------------------------------------------------------------------
(* Operations of the calling threads.                                      *)

\* hangup() swallows every error, so on an ended leg it does nothing.  PJSIP is
\* assumed to accept the BYE or CANCEL of a leg that is up.
hangup == hangingUp' = (hangingUp \/ LegAlive)

\* placeCall(): PJSIP reports CALLING from inside makeCall.
placeCall ==
    /\ inv' = INV_STATE_CALLING
    /\ pushEvent(CallStateEvent(INV_STATE_CALLING, 0))

startRecorder == recorder' = "open"

\* The recorder stays open (mutant).
stopRecorderForgotten == UNCHANGED recorder

stopRecorder == recorder' = IF recorder = "open" THEN "closed" ELSE recorder

\* The player transmits only if the leg has an active audio stream.
startPlayer == player' = IF media THEN "playing" ELSE "idle"

\* getRxLevel(): 0 when there is no audio stream to measure.
RxLevels == IF media THEN Levels ELSE {0}

\* First half of waitEvent: the wake flag of an earlier wakeDispatcher is lost.
waitEventEnter == dispatcher_wake' = FALSE

wakeDispatcher == dispatcher_wake' = TRUE

\* ~SipAgent: player, recorder, leg, account and endpoint, in that order.
\* Destroying the leg's object and the library ends a leg that still lives.
SipDestroy ==
    /\ player' = "none"
    /\ recorder' = IF recorder = "open" THEN "closed" ELSE recorder
    /\ inv' = IF LegAlive THEN INV_STATE_DISCONNECTED ELSE inv
    /\ media' = FALSE
    /\ account' = "gone"
    /\ UNCHANGED <<queue, dispatcher_wake, hangingUp, budget>>
=============================================================================
