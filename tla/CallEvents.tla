----------------------------- MODULE CallEvents -----------------------------
(***************************************************************************)
(* The vocabulary of events.h and events.cpp: call statuses, the events    *)
(* the executor hands to its sink, the events the PJSIP callbacks hand to  *)
(* the executor, and the pure mapping tables.  Texts (reason, call_id,     *)
(* time stamps) are left out: no decision of the program depends on them.  *)
(***************************************************************************)
EXTENDS Integers, Sequences

\* Statuses that are a result wherever they appear (events.h:63-65).
AlwaysResult == {"BUSY", "NO_ANSWER", "CANCELLED", "FAILED"}

CallStatus ==
    AlwaysResult \cup
    {"REGISTERING", "REGISTERED", "DIALING", "RINGING", "ANSWERED", "PLAYING",
     "PLAYED", "SILENCE_DETECTED", "RECORDING_READY", "HANGING_UP",
     "DISCONNECTED"}

\* The disconnect mapping table.
sipCodeToCallStatus(code) ==
    CASE code = 200              -> "ANSWERED"
      [] code \in {486, 600, 603} -> "BUSY"
      [] code \in {408, 480, 487} -> "NO_ANSWER"
      [] OTHER                    -> "FAILED"

\* The process exit code in CLI mode.
statusToExitCode(s) ==
    CASE s = "ANSWERED"  -> 0
      [] s = "BUSY"      -> 3
      [] s = "NO_ANSWER" -> 4
      [] s = "FAILED"    -> 5
      [] s = "CANCELLED" -> 6
      [] OTHER           -> 1

-----------------------------------------------------------------------------
(* AgentEvent: what the sink receives.  recording stands for               *)
(* recording_path: is there one?                                           *)

AgentEvent ==
    [status : CallStatus, recording : BOOLEAN, billing_seconds : Nat,
     sip_code : Nat, is_result : BOOLEAN]

MakeEvent(status, recording, billing, code, is_result) ==
    [status |-> status, recording |-> recording, billing_seconds |-> billing,
     sip_code |-> code, is_result |-> is_result]

\* An event that only announces a status.
StateEvent(status) == MakeEvent(status, FALSE, 0, 0, FALSE)

\* How toJson (and the gRPC mapping) tell a result from a state change.
result_event(ev) == ev.is_result \/ ev.status \in AlwaysResult

-----------------------------------------------------------------------------
(* InternalEvent: pushed by the PJSIP callbacks, read by the executor.     *)

INV_STATE_NULL         == 0
INV_STATE_CALLING      == 1
INV_STATE_EARLY        == 3
INV_STATE_CONNECTING   == 4
INV_STATE_CONFIRMED    == 5
INV_STATE_DISCONNECTED == 6

InvState ==
    {INV_STATE_NULL, INV_STATE_CALLING, INV_STATE_EARLY, INV_STATE_CONNECTING,
     INV_STATE_CONFIRMED, INV_STATE_DISCONNECTED}

InternalEvent ==
    [type : {"REG_STATE", "CALL_STATE", "MEDIA_STATE", "PLAYBACK_EOF"},
     connected : BOOLEAN, sip_code : Nat, call_state : InvState,
     media_active : BOOLEAN]

DefaultEvent(type) ==
    [type |-> type, connected |-> FALSE, sip_code |-> 0,
     call_state |-> INV_STATE_NULL, media_active |-> FALSE]

RegStateEvent(code) ==
    [DefaultEvent("REG_STATE") EXCEPT !.connected = (code \in 200..299),
                                      !.sip_code = code]

CallStateEvent(state, code) ==
    [DefaultEvent("CALL_STATE") EXCEPT !.call_state = state, !.sip_code = code]

MediaStateEvent(active) ==
    [DefaultEvent("MEDIA_STATE") EXCEPT !.media_active = active]

PlaybackEofEvent == DefaultEvent("PLAYBACK_EOF")

\* The test the executor's loops make on what they read.
IsCallState(ev, state) == ev.type = "CALL_STATE" /\ ev.call_state = state
=============================================================================
