-------------------------- MODULE CallAgentService --------------------------
(***************************************************************************)
(* CallAgentServiceImpl and runGrpcServer: the handlers of the RPCs, the   *)
(* hand-over of a call's events from the executor's thread to the RPC's    *)
(* thread, and the idle watchdog on the main thread.                       *)
(*                                                                         *)
(* The executor is the stream contract of the module CallStream, which     *)
(* CallExecutor is shown to implement: it emits one of Scripts, or breaks  *)
(* off when cancelled, or throws.  A step is one access to an atomic, one  *)
(* reading of the clock, one critical section of mtx or one Write.  All    *)
(* calls go to one destination, so they share the recording's path.        *)
(***************************************************************************)
EXTENDS EventMapping

CONSTANTS
    Rpcs,            \* bound: the RPCs that clients make, one handler each
    Kinds,           \* kinds of RPC: see RpcKind
    Scripts,         \* streams a run() may emit
    IdleShutdown,    \* config.idle_shutdown_s
    Second,          \* ticks per second
    Wrap,            \* 2^64: unsigned differences of times wrap here
    None,            \* no value
    MaxTime          \* bound: ticks that pass with no deadline pending

Stream == INSTANCE CallStream WITH stream <- <<>>, asked <- FALSE, outcome <- ""

\* "Invalid" is an ExecuteCall that validate() refuses.
RpcKind == {"Health", "StreamAudio", "ExecuteCall", "Invalid"}

ASSUME ServiceAssumption ==
    /\ Kinds \subseteq RpcKind
    /\ Scripts \subseteq Seq(Stream!Item)
    /\ \A s \in Scripts : Stream!Legal(s) /\ Stream!Complete(s)
    /\ IdleShutdown \in Nat
    /\ Second \in Nat \ {0}
    /\ Wrap \in Nat \ {0}
    /\ MaxTime \in Nat
    /\ None \notin Nat \cup Rpcs

VARIABLES
    call_active, shutting_down, last_activity,   \* the service's atomics
    rpc,             \* each handler's thread: where it is, its registers
    call,            \* ExecuteCall's locals, shared with the executor's thread
    run,             \* the executor: what it emitted, cancelled_, how it ended
    recording,       \* whose audio the recording's file holds
    wd,              \* the watchdog loop: where it is, its registers
    server,          \* "down", "up", "closing", "exited" or "terminated"
    now              \* epochMs()

serviceVars == <<call_active, shutting_down, last_activity>>
callVars == <<call, run, recording>>
mainVars == <<wd, server, now>>
vars == <<serviceVars, rpc, callVars, mainVars>>

NoCall ==
    [queue |-> <<>>, batch |-> <<>>, written |-> <<>>, done |-> FALSE,
     finished |-> FALSE, started_at |-> 0, cancel_sent |-> FALSE,
     is_cancelled |-> FALSE]

NoRun == [emitted |-> <<>>, asked |-> FALSE, outcome |-> "none"]

WdAt(place) == [pc |-> place, clock |-> None, last |-> None]

Init ==
    /\ call_active = FALSE
    /\ shutting_down = FALSE
    /\ last_activity = 1
    /\ rpc = [h \in Rpcs |-> [pc |-> "none", kind |-> "none", clock |-> None,
                              last |-> None, stamp |-> None, code |-> "none",
                              state |-> "none", active |-> None]]
    /\ call = [h \in Rpcs |-> NoCall]
    /\ run = [h \in Rpcs |-> NoRun]
    /\ recording = None
    /\ wd = WdAt("start")
    /\ server = "down"
    /\ now = 1

Alive == server \in {"up", "closing"}
At(h, place) == Alive /\ rpc[h].pc = place
InProgress(h) == rpc[h].pc \notin {"none", "returned"}

\* A step that changes the handler's own registers only.
Local(h, registers) ==
    /\ rpc' = [rpc EXCEPT ![h] = registers]
    /\ UNCHANGED <<serviceVars, callVars, mainVars>>

Arrive(h) ==
    /\ server = "up"
    /\ rpc[h].pc = "none"
    /\ \E kind \in Kinds :
          Local(h, [rpc[h] EXCEPT !.kind = kind,
                                  !.pc = IF kind = "Health" THEN "idle" ELSE "touch"])

-----------------------------------------------------------------------------
(* touchActivity(): read the clock, store it.                              *)

TouchClock(h) ==
    /\ At(h, "touch")
    /\ Local(h, [rpc[h] EXCEPT !.stamp = now, !.pc = "store"])

\* Health goes on with its answer, ExecuteCall with its claim; StreamAudio
\* returns, and so does an ExecuteCall whose ActiveGuard has been here.
AfterTouch(r) ==
    CASE r.kind = "Health"      -> [r EXCEPT !.pc = "state"]
      [] r.kind = "StreamAudio" -> [r EXCEPT !.pc = "returned",
                                             !.code = "UNIMPLEMENTED"]
      [] OTHER -> [r EXCEPT !.pc = IF r.code = "none" THEN "claim" ELSE "returned"]

TouchStore(h) ==
    /\ At(h, "store")
    /\ last_activity' = rpc[h].stamp
    /\ rpc' = [rpc EXCEPT ![h] = [AfterTouch(rpc[h]) EXCEPT !.stamp = None]]
    /\ UNCHANGED <<call_active, shutting_down, callVars, mainVars>>

-----------------------------------------------------------------------------
(* Health.  The compiler may read the clock and last_activity_ms_ in       *)
(* either order.                                                           *)

\* The unsigned difference of two times, in seconds.
idleSeconds(clock, last) == ((clock - last) % Wrap) \div Second

HealthIdle(h) ==
    /\ At(h, "idle")
    /\ \/ rpc[h].clock = None /\ Local(h, [rpc[h] EXCEPT !.clock = now])
       \/ rpc[h].last = None /\ Local(h, [rpc[h] EXCEPT !.last = last_activity])
       \/ /\ rpc[h].clock # None /\ rpc[h].last # None
          /\ Local(h, [rpc[h] EXCEPT !.pc = "touch"])

\* shutting_down_, then call_active_, then call_active_ again for the count.
HealthState(h) ==
    \/ /\ At(h, "state")
       /\ Local(h, IF shutting_down
                   THEN [rpc[h] EXCEPT !.state = "SHUTTING_DOWN", !.pc = "count"]
                   ELSE [rpc[h] EXCEPT !.pc = "busy"])
    \/ /\ At(h, "busy")
       /\ Local(h, [rpc[h] EXCEPT !.state = IF call_active THEN "BUSY" ELSE "READY",
                                  !.pc = "count"])

HealthCount(h) ==
    /\ At(h, "count")
    /\ Local(h, [rpc[h] EXCEPT !.active = IF call_active THEN 1 ELSE 0,
                               !.code = "OK", !.pc = "returned"])

-----------------------------------------------------------------------------
(* ExecuteCall: the RPC's thread.                                          *)

\* The handler moves on and call_active_ is stored.
Flag(h, place, code, value) ==
    /\ rpc' = [rpc EXCEPT ![h].pc = place, ![h].code = code]
    /\ call_active' = value
    /\ UNCHANGED <<shutting_down, last_activity, mainVars>>

\* compare_exchange_strong on call_active_.
Claim(h) ==
    /\ At(h, "claim")
    /\ IF call_active THEN Flag(h, "returned", "ALREADY_EXISTS", TRUE)
                      ELSE Flag(h, "validate", "none", TRUE)
    /\ UNCHANGED callVars

\* The guard lives in a block that ends before the call (mutant).
BeginUnguarded(h) ==
    /\ At(h, "validate")
    /\ Flag(h, "wait", "none", FALSE)
    /\ run' = [run EXCEPT ![h].outcome = "open"]
    /\ UNCHANGED <<call, recording>>

\* validate(), then the executor and its thread are made.
Begin(h) ==
    /\ At(h, "validate")
    /\ IF rpc[h].kind = "Invalid"
       THEN Flag(h, "release", "INVALID_ARGUMENT", call_active) /\ UNCHANGED run
       ELSE /\ Flag(h, "wait", "none", call_active)
            /\ run' = [run EXCEPT ![h].outcome = "open"]
    /\ UNCHANGED <<call, recording>>

\* The test on the batch turned round (mutant).
FinishedWithBatch(h) == call[h].done /\ call[h].queue # <<>>

Finished(h) == call[h].done /\ call[h].queue = <<>>

\* wait_for returns, on a notification or after its 200 ms; batch.swap(queue)
\* and finished are in the same critical section.
Swap(h) ==
    /\ At(h, "wait")
    /\ call' = [call EXCEPT ![h].batch = call[h].queue, ![h].queue = <<>>,
                            ![h].finished = Finished(h)]
    /\ rpc' = [rpc EXCEPT ![h].pc = "write"]
    /\ UNCHANGED <<serviceVars, run, recording, mainVars>>

\* Any ANSWERED sets the start (mutant).
StartedAtAny(ev, started) == IF ev.status = "ANSWERED" THEN now ELSE started

StartedAt(ev, started) ==
    IF ev.status = "ANSWERED" /\ ~ ev.is_result THEN now ELSE started

Write(h) ==
    /\ At(h, "write")
    /\ call[h].batch # <<>>
    /\ LET ev == Head(call[h].batch)
           started == StartedAt(ev, call[h].started_at)
       IN  call' = [call EXCEPT ![h].batch = Tail(@), ![h].started_at = started,
                                ![h].written = Append(@, toProtoEvent(ev, started))]
    /\ UNCHANGED <<serviceVars, rpc, run, recording, mainVars>>

\* done as it is now, not as it was when the batch was taken (mutant).
LeaveLoopLate(h) == call[h].done

\* The loop's exit, on the value computed with the batch.
LeaveLoop(h) == call[h].finished

\* A client that goes away is not passed on to the executor (mutant).
CancelsNever(h) == FALSE

Cancels(h) == ~ call[h].cancel_sent /\ call[h].is_cancelled

\* The batch is written: break, or look at IsCancelled() and go round.
LoopEnd(h) ==
    /\ At(h, "write")
    /\ call[h].batch = <<>>
    /\ IF LeaveLoop(h)
       THEN rpc' = [rpc EXCEPT ![h].pc = "join"] /\ UNCHANGED <<call, run>>
       ELSE /\ rpc' = [rpc EXCEPT ![h].pc = "wait"]
            /\ call' = [call EXCEPT ![h].cancel_sent = @ \/ Cancels(h)]
            /\ run' = [run EXCEPT ![h].asked = @ \/ Cancels(h)]
    /\ UNCHANGED <<serviceVars, recording, mainVars>>

\* The guard goes before the executor does (mutant).
JoinUnguarded(h) ==
    At(h, "join") /\ call[h].done /\ Flag(h, "release", "OK", FALSE) /\ UNCHANGED callVars

\* join(), then the locals go in reverse order: the executor and with it the
\* SIP endpoint, the queue, and last the ActiveGuard.
Join(h) ==
    /\ At(h, "join")
    /\ call[h].done
    /\ Flag(h, "release", "OK", call_active)
    /\ run' = [run EXCEPT ![h].outcome = "destroyed"]
    /\ UNCHANGED <<call, recording>>

\* call_active_ stays set (mutant).
ReleasedValueForgotten == TRUE

ReleasedValue == FALSE

\* ~ActiveGuard: call_active_ first, then touchActivity().  The handler's
\* locals are gone.
Release(h) ==
    /\ At(h, "release")
    /\ Flag(h, "touch", rpc[h].code, ReleasedValue)
    /\ call' = [call EXCEPT ![h] = NoCall]
    /\ run' = [run EXCEPT ![h] = NoRun]
    /\ UNCHANGED recording

\* The client goes away.
ClientCancels(h) ==
    /\ Alive
    /\ rpc[h].pc \in {"validate", "wait", "write", "join"}
    /\ call' = [call EXCEPT ![h].is_cancelled = TRUE]
    /\ UNCHANGED <<serviceVars, rpc, run, recording, mainVars>>

Handler(h) ==
    \/ TouchClock(h) \/ TouchStore(h)
    \/ HealthIdle(h) \/ HealthState(h) \/ HealthCount(h)
    \/ Claim(h) \/ Begin(h) \/ Swap(h) \/ Write(h) \/ LoopEnd(h) \/ Join(h)
    \/ Release(h)

-----------------------------------------------------------------------------
(* The executor's thread.                                                  *)

Items(evs) ==
    [i \in DOMAIN evs |-> [status |-> evs[i].status, final |-> result_event(evs[i])]]

Running(h) == Alive /\ run[h].outcome = "open"

\* run() as the service sees it: what may come next in one of the scripts.  That
\* CallExecutor emits just the beginnings of scripts, and a whole one when it
\* returns a result, is RunsAreScripts in CallExecutorLegProofs.
NextItems(sent) ==
    {s[Len(sent) + 1] : s \in {t \in Scripts : /\ Len(sent) < Len(t)
                                              /\ SubSeq(t, 1, Len(sent)) = sent}}

\* The sink: push_back under mtx.  Results of an always-final status come
\* with and without the flag.  The recorder opens its file, the same for every
\* call to this destination, right before PLAYING.
Emit(h) ==
    /\ Running(h)
    /\ \E item \in NextItems(Items(run[h].emitted)), flag \in BOOLEAN :
          LET ev == MakeEvent(item.status, FALSE, 0, 0, flag)
          IN  /\ result_event(ev) = item.final
              /\ run' = [run EXCEPT ![h].emitted = Append(@, ev)]
              /\ call' = [call EXCEPT ![h].queue = Append(@, ev)]
              /\ recording' = IF ev.status = "PLAYING" THEN h ELSE recording
    /\ UNCHANGED <<serviceVars, rpc, mainVars>>

\* done is set before run() is over (mutant).
RunReturnsLater(h) ==
    /\ Running(h)
    /\ call' = [call EXCEPT ![h].done = TRUE]
    /\ UNCHANGED <<serviceVars, rpc, run, recording, mainVars>>

\* run() returns and the thread sets done.
RunReturns(h) ==
    /\ Running(h)
    /\ Stream!Complete(Items(run[h].emitted)) \/ run[h].asked
    /\ run' = [run EXCEPT ![h].outcome = "returned"]
    /\ call' = [call EXCEPT ![h].done = TRUE]
    /\ UNCHANGED <<serviceVars, rpc, recording, mainVars>>

\* An exception leaves run() on a thread of its own: the process is gone.
RunThrows(h) ==
    /\ Running(h)
    /\ ~ Stream!Complete(Items(run[h].emitted))
    /\ server' = "terminated"
    /\ UNCHANGED <<serviceVars, rpc, callVars, wd, now>>

-----------------------------------------------------------------------------
(* runGrpcServer: the main thread.                                         *)

\* BuildAndStart() may fail to listen.
Listen ==
    /\ wd.pc = "start"
    /\ \/ server' = "up" /\ wd' = WdAt("sleep")
       \/ server' = "exited" /\ wd' = WdAt("over")
    /\ UNCHANGED <<serviceVars, rpc, callVars, now>>

IdleEnough(clock, last) == idleSeconds(clock, last) >= IdleShutdown

\* The loop: 5 s later callActive(), then idleSeconds() with its two operands
\* in either order, then setShuttingDown().
Watch ==
    /\ Alive
    /\ \/ /\ wd.pc = "sleep"
          /\ wd' = WdAt(IF call_active THEN "sleep" ELSE "idle")
          /\ UNCHANGED shutting_down
       \/ /\ wd.pc = "idle"
          /\ \/ wd.clock = None /\ wd' = [wd EXCEPT !.clock = now]
             \/ wd.last = None /\ wd' = [wd EXCEPT !.last = last_activity]
          /\ UNCHANGED shutting_down
       \/ /\ wd.pc = "idle" /\ wd.clock # None /\ wd.last # None
          /\ shutting_down' = IdleEnough(wd.clock, wd.last)
          /\ wd' = WdAt(IF shutting_down' THEN "stop" ELSE "sleep")
    /\ UNCHANGED <<call_active, last_activity, rpc, callVars, server, now>>

\* The process ends with handlers at work (mutant).
DrainedAtOnce == TRUE

Drained == \A h \in Rpcs : ~ InProgress(h)

\* server->Shutdown() takes no RPC any more, and with Wait() returns when every
\* handler has.
Stop ==
    /\ Alive
    /\ \/ wd.pc = "stop" /\ server' = "closing" /\ wd' = WdAt("drain")
       \/ wd.pc = "drain" /\ Drained /\ server' = "exited" /\ wd' = WdAt("over")
    /\ UNCHANGED <<serviceVars, rpc, callVars, now>>

MainThread == Listen \/ Watch \/ Stop

Tick ==
    /\ Alive
    /\ now < MaxTime \/ now - last_activity < IdleShutdown * Second
    /\ now' = now + 1
    /\ UNCHANGED <<serviceVars, rpc, callVars, wd, server>>

Over == ~ Alive /\ wd.pc # "start" /\ UNCHANGED vars

Next ==
    \/ \E h \in Rpcs :
          Arrive(h) \/ Handler(h) \/ ClientCancels(h) \/ Emit(h) \/ RunReturns(h)
          \/ RunThrows(h)
    \/ MainThread
    \/ Tick
    \/ Over

Spec == Init /\ [][Next]_vars

\* The threads are scheduled, a Write returns since the client reads or goes
\* away, a cancelled run() returns (CallExecutor!CancelEnds), and time passes.
\* Nothing is assumed of clients, and run() need neither go on nor throw.
FairSpec ==
    /\ Spec
    /\ \A h \in Rpcs : WF_vars(Handler(h)) /\ WF_vars(RunReturns(h))
    /\ WF_vars(MainThread)
    /\ WF_vars(Tick)

-----------------------------------------------------------------------------
(* Properties.                                                             *)

\* Every variable has its C++ type, and last_activity_ms_ is never a time that
\* is still to come.
TypeOK ==
    /\ call_active \in BOOLEAN
    /\ shutting_down \in BOOLEAN
    /\ last_activity \in 1 .. now
    /\ \A h \in Rpcs :
          /\ rpc[h].kind \in RpcKind \cup {"none"}
          /\ {rpc[h].clock, rpc[h].last, rpc[h].stamp} \subseteq (1 .. now) \cup {None}
          /\ call[h].started_at \in 0 .. now
          /\ call[h].done <=> run[h].outcome \in {"returned", "destroyed"}
          /\ run[h].asked => call[h].cancel_sent
          /\ call[h].cancel_sent => call[h].is_cancelled
    /\ {wd.clock, wd.last} \subseteq (1 .. now) \cup {None}
    /\ recording \in Rpcs \cup {None}

\* Nothing the executor emits is lost, repeated or reordered on its way to the
\* wire: what is written, in the batch and in the queue is all of it, in
\* order, and when ExecuteCall leaves its loop all of it is written.
HandedOver ==
    \A h \in Rpcs :
        LET w == call[h].written
            rest == call[h].batch \o call[h].queue
        IN  /\ SubSeq(run[h].emitted, Len(w) + 1, Len(run[h].emitted)) = rest
            /\ \A i \in DOMAIN w :
                  \E t \in 0 .. now : w[i] = toProtoEvent(run[h].emitted[i], t)
            /\ rpc[h].pc \in {"join", "release"} => rest = <<>>

\* There is never a second executor, hence never a second pj::Endpoint, and
\* never a second writer of the shared audio files: not even while the first
\* is being destroyed.
OneExecutor ==
    \A g, h \in Rpcs :
        run[g].outcome \in {"open", "returned"}
        /\ run[h].outcome \in {"open", "returned"} => g = h

\* The started_at of a result is the time at which the call's ANSWERED state
\* was written: it is set if and only if the client has seen that state, and
\* nothing that follows, the ANSWERED result least of all, moves it.
StartedWhenAnswered ==
    /\ [](\A h \in Rpcs :
             (call[h].started_at # 0) <=>
                \E i \in DOMAIN call[h].written :
                    call[h].written[i] = [oneof |-> "state_change",
                                          state |-> "ANSWERED"])
    /\ [][\A h \in Rpcs :
             call[h].started_at # 0 /\ run'[h].outcome # "none" =>
                 call'[h].started_at = call[h].started_at]_vars

\* As long as the call that announced a recording has not returned, the file
\* holds that call's audio and no later call to the destination has opened it.
AnnouncedIsIntact ==
    \A h \in Rpcs :
        (\E i \in DOMAIN call[h].written :
            call[h].written[i].oneof = "recording_ready") => recording = h

\* What a client reads from a message.
Decoded(msg) ==
    CASE msg.oneof = "result"           -> Stream!Final(msg.status)
      [] msg.oneof = "silence_detected" -> Stream!State("SILENCE_DETECTED")
      [] msg.oneof = "recording_ready"  -> Stream!State("RECORDING_READY")
      [] OTHER                          -> Stream!State(msg.state)

\* The code of an ExecuteCall is settled when the call is refused or released.
Settled(h) ==
    /\ rpc[h].kind \in {"ExecuteCall", "Invalid"}
    /\ rpc[h].pc \in {"touch", "store", "returned"}
    /\ rpc[h].code # "none"

\* What the client of an ExecuteCall has: its stream, nothing once it is over.
ReceivedBy(h) ==
    IF Settled(h) /\ rpc[h].code # "ALREADY_EXISTS" THEN None
    ELSE [i \in DOMAIN call[h].written |-> Decoded(call[h].written[i])]

CodeFor(h) == IF Settled(h) THEN rpc[h].code ELSE "none"

OpenCalls ==
    {h \in Rpcs : rpc[h].pc \in {"validate", "wait", "write", "join", "release"}}

ServerSeen ==
    CASE server = "exited"     -> "stopped"
      [] server = "terminated" -> "crashed"
      [] OTHER                 -> "up"

Api == INSTANCE CallAgentApi WITH
    Calls <- Rpcs,
    Closed <- None,
    received <- [h \in Rpcs |-> ReceivedBy(h)],
    open <- OpenCalls,
    codes <- [h \in Rpcs |-> CodeFor(h)],
    gone <- {h \in Rpcs : call[h].is_cancelled},
    server <- ServerSeen

\* The service is a server with at most one call: it opens one only if there
\* is none, refuses one only if there is another, and what its client decodes
\* from the wire is a legal stream that ends with a result unless the client
\* went away.  It stops of itself only when no call is open.
ImplementsApi == Api!Spec

\* An ExecuteCall whose run() has returned comes to its end.
CallsEnd ==
    \A h \in Rpcs : call[h].done ~> rpc[h].pc = "returned" \/ ~ Alive

\* A client that goes away reaches cancel(), unless the run is over first.
CancelForwarded ==
    \A h \in Rpcs :
        (call[h].is_cancelled /\ run[h].outcome = "open")
            ~> (run[h].asked \/ call[h].done \/ ~ Alive)

\* When the clients are done, the watchdog ends the server, unless a run()
\* goes on for ever.
ServerStops ==
    (\A h \in Rpcs : []<>(~ Running(h))) => <>(server \in {"exited", "terminated"})
=============================================================================
