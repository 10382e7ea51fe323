----------------------------- MODULE CallStream -----------------------------
(***************************************************************************)
(* What a client of CallExecutor sees of one call: the events it is sent   *)
(* and how the run is over.  Nothing here knows of SIP, queues, threads or *)
(* time; CallExecutor is shown to implement this specification.            *)
(***************************************************************************)
EXTENDS CallEvents

VARIABLES
    stream,    \* the events sent so far: their status, are they results?
    asked,     \* has the client asked for a cancellation?
    outcome    \* "open", "result", "cancelled" or "crashed"

streamVars == <<stream, asked, outcome>>

Item == [status : CallStatus, final : BOOLEAN]

State(status)  == [status |-> status, final |-> FALSE]
Final(status)  == [status |-> status, final |-> TRUE]

\* The items that may come right after an item.
After(item) ==
    CASE item = State("REGISTERING")      -> {State("REGISTERED"), Final("FAILED")}
      [] item = State("REGISTERED")       -> {State("DIALING")}
      [] item \in {State("DIALING"), State("RINGING")} ->
            {State("RINGING"), State("ANSWERED"),
             Final("BUSY"), Final("NO_ANSWER"), Final("FAILED")}
      [] item = State("ANSWERED")         ->
            {State("PLAYING"), Final("ANSWERED"), Final("NO_ANSWER")}
      [] item = State("PLAYING")          -> {State("PLAYED"), State("RECORDING_READY")}
      [] item = State("PLAYED")           -> {State("SILENCE_DETECTED"), State("RECORDING_READY")}
      [] item = State("SILENCE_DETECTED") -> {State("HANGING_UP")}
      [] item = State("HANGING_UP")       -> {State("RECORDING_READY")}
      [] item = State("RECORDING_READY")  -> {Final("ANSWERED")}
      [] OTHER                            -> {}

Legal(s) ==
    /\ s # <<>> => s[1] = State("REGISTERING")
    /\ \A i \in 1 .. (Len(s) - 1) : s[i + 1] \in After(s[i])

Complete(s) == s # <<>> /\ s[Len(s)].final

Init ==
    /\ stream = <<>>
    /\ asked = FALSE
    /\ outcome = "open"

\* One or two more events.  A result closes the stream; without one the run
\* goes on, or breaks down.
Send ==
    /\ outcome = "open"
    /\ Len(stream') \in {Len(stream) + 1, Len(stream) + 2}
    /\ SubSeq(stream', 1, Len(stream)) = stream
    /\ Legal(stream')
    /\ outcome' \in IF Complete(stream') THEN {"result"} ELSE {"open", "crashed"}
    /\ UNCHANGED asked

Ask ==
    /\ asked' = TRUE
    /\ UNCHANGED <<stream, outcome>>

\* The run ends without a result: cancelled if the client asked for it.
Abandon ==
    /\ outcome = "open"
    /\ outcome' \in {"crashed"} \cup (IF asked THEN {"cancelled"} ELSE {})
    /\ UNCHANGED <<stream, asked>>

Next == Send \/ Ask \/ Abandon

Spec == Init /\ [][Next]_streamVars
=============================================================================
