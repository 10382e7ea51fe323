---------------------------- MODULE EventMapping ----------------------------
(***************************************************************************)
(* The two encodings of an AgentEvent: the protobuf CallEvent of           *)
(* grpc_server.cpp and the JSON line of events.cpp.  A protobuf message is *)
(* the member of the oneof that is set and that member's fields, a JSON    *)
(* line the kind of event and its fields.  Ids, texts and the time of      *)
(* writing are left out; started stands for started_at, 0 where it is not  *)
(* set.                                                                    *)
(***************************************************************************)
EXTENDS CallEvents

\* toProtoState: the wire has no name for the statuses that are messages of
\* their own, nor for DISCONNECTED.
toProtoState(s) ==
    IF s \in {"REGISTERING", "REGISTERED", "DIALING", "RINGING", "ANSWERED",
              "PLAYING", "PLAYED", "HANGING_UP"}
    THEN s ELSE "STATE_UNSPECIFIED"

toProtoResultStatus(s) ==
    IF s \in {"ANSWERED", "BUSY", "NO_ANSWER", "CANCELLED"} THEN s ELSE "FAILED"

toProtoEvent(ev, started_at) ==
    IF result_event(ev)
    THEN [oneof |-> "result", status |-> toProtoResultStatus(ev.status),
          billing_seconds |-> ev.billing_seconds, sip_code |-> ev.sip_code,
          recording_uri |-> ev.recording, started |-> started_at]
    ELSE IF ev.status = "SILENCE_DETECTED"
    THEN [oneof |-> "silence_detected", silence_seconds |-> ev.billing_seconds]
    ELSE IF ev.status = "RECORDING_READY"
    THEN [oneof |-> "recording_ready", recording_uri |-> ev.recording,
          duration_seconds |-> ev.billing_seconds]
    ELSE [oneof |-> "state_change", state |-> toProtoState(ev.status)]

\* toJson: silence is a state here, and its seconds are not printed.
toJson(ev) ==
    IF result_event(ev)
    THEN [event |-> "result", status |-> ev.status, sip_code |-> ev.sip_code,
          billing_seconds |-> ev.billing_seconds, recording |-> ev.recording]
    ELSE IF ev.status = "RECORDING_READY"
    THEN [event |-> "recording_ready", uri |-> ev.recording,
          duration |-> ev.billing_seconds]
    ELSE [event |-> "state", state |-> ev.status]
=============================================================================
