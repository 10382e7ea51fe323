---------------------------- MODULE CallAgentApi ----------------------------
(***************************************************************************)
(* What the clients of the agent may rely on: a server that holds at most  *)
(* one call.  A call is open or not, and its client receives the events of *)
(* one legal stream (module CallStream), one by one.  There are no queues, *)
(* threads, flags or clocks here; CallAgentService is shown to implement   *)
(* this specification.                                                     *)
(***************************************************************************)
EXTENDS CallEvents

CONSTANTS
    Calls,     \* the ExecuteCall RPCs
    Closed     \* what is left of a call that is over

VARIABLES
    received,  \* for each call: not made (<<>>), the stream its client has, Closed
    open,      \* the calls that are open
    codes,     \* the status code each call has been answered with
    gone,      \* the calls whose clients went away
    server     \* "up", "stopped" or "crashed"

apiVars == <<received, open, codes, gone, server>>

Stream == INSTANCE CallStream WITH stream <- <<>>, asked <- FALSE, outcome <- ""

Init ==
    /\ received = [c \in Calls |-> <<>>]
    /\ open = {}
    /\ codes = [c \in Calls |-> "none"]
    /\ gone = {}
    /\ server = "up"

\* A call is taken only if there is none.
Open(c) ==
    /\ server = "up" /\ open = {} /\ codes[c] = "none"
    /\ open' = {c}
    /\ UNCHANGED <<received, codes, gone, server>>

\* A call is refused only if there is another.
Refuse(c) ==
    /\ server = "up" /\ open # {} /\ c \notin open /\ codes[c] = "none"
    /\ codes' = [codes EXCEPT ![c] = "ALREADY_EXISTS"]
    /\ UNCHANGED <<received, open, gone, server>>

\* The client of the open call receives one more event.
Send(c) ==
    /\ server = "up" /\ c \in open
    /\ \E item \in IF received[c] = <<>> THEN {Stream!State("REGISTERING")}
                   ELSE Stream!After(received[c][Len(received[c])]) :
          received' = [received EXCEPT ![c] = Append(@, item)]
    /\ UNCHANGED <<open, codes, gone, server>>

\* A call ends: a bad request before its first event, a good one after its
\* result, and early only if its client went away.
Close(c) ==
    /\ server = "up" /\ c \in open
    /\ open' = {}
    /\ received' = [received EXCEPT ![c] = Closed]
    /\ \/ codes' = [codes EXCEPT ![c] = "INVALID_ARGUMENT"] /\ received[c] = <<>>
       \/ /\ codes' = [codes EXCEPT ![c] = "OK"]
          /\ c \in gone \/ Stream!Complete(received[c])
    /\ gone' = gone \ {c}
    /\ UNCHANGED server

\* A client goes away.
Leave(c) ==
    /\ server = "up" /\ c \in open
    /\ gone' = gone \cup {c}
    /\ UNCHANGED <<received, open, codes, server>>

\* The server stops of itself only when no call is open; an exception in an
\* open call takes the process down.
Stop ==
    /\ server = "up"
    /\ server' = IF open = {} THEN "stopped" ELSE "crashed"
    /\ UNCHANGED <<received, open, codes, gone>>

Next ==
    \/ \E c \in Calls : Open(c) \/ Refuse(c) \/ Send(c) \/ Close(c) \/ Leave(c)
    \/ Stop

Spec == Init /\ [][Next]_apiVars
=============================================================================
