----------------------- MODULE CallAgentServiceProofs -----------------------
(***************************************************************************)
(* The service for any number of RPCs, any set of legal streams and every  *)
(* length of time: call_active_ tells the truth about the one call there   *)
(* may be, what its executor emits reaches the wire complete and in order, *)
(* and the service implements the API its clients are given.               *)
(***************************************************************************)
EXTENDS CallAgentService, SequenceTheorems, WellFoundedInduction, TLAPS

\* Where a handler's thread can be; where it holds the ActiveGuard, and where
\* it has an executor.
Opened == {"validate", "wait", "write", "join", "release"}
Working == {"wait", "write", "join"}
Places ==
    Opened \cup {"none", "idle", "touch", "store", "state", "busy", "count", "claim",
                 "returned"}

Codes == {"none", "OK", "UNIMPLEMENTED", "ALREADY_EXISTS", "INVALID_ARGUMENT"}

Messages == {toProtoEvent(ev, t) : ev \in AgentEvent, t \in Nat}

RpcType ==
    [pc : Places, kind : RpcKind \cup {"none"}, clock : Nat \cup {None},
     last : Nat \cup {None}, stamp : Nat \cup {None}, code : Codes,
     state : {"none", "SHUTTING_DOWN", "BUSY", "READY"}, active : {None, 0, 1}]

CallType ==
    [queue : Seq(AgentEvent), batch : Seq(AgentEvent), written : Seq(Messages),
     done : BOOLEAN, finished : BOOLEAN, started_at : Nat, cancel_sent : BOOLEAN,
     is_cancelled : BOOLEAN]

RunType ==
    [emitted : Seq(AgentEvent), asked : BOOLEAN,
     outcome : {"none", "open", "returned", "destroyed"}]

WdType ==
    [pc : {"start", "sleep", "idle", "stop", "drain", "over"},
     clock : Nat \cup {None}, last : Nat \cup {None}]

TypeInv ==
    /\ call_active \in BOOLEAN
    /\ shutting_down \in BOOLEAN
    /\ last_activity \in Nat
    /\ rpc \in [Rpcs -> RpcType]
    /\ call \in [Rpcs -> CallType]
    /\ run \in [Rpcs -> RunType]
    /\ recording \in Rpcs \cup {None}
    /\ wd \in WdType
    /\ server \in {"down", "up", "closing", "exited", "terminated"}
    /\ now \in Nat

\* A time in a register is one the clock has shown.
Past(t) == t # None => 1 <= t /\ t <= now

TimesInv ==
    /\ 1 <= last_activity /\ last_activity <= now
    /\ \A h \in Rpcs :
          /\ Past(rpc[h].clock) /\ Past(rpc[h].last) /\ Past(rpc[h].stamp)
          /\ rpc[h].pc = "store" => rpc[h].stamp # None
          /\ call[h].started_at <= now
    /\ Past(wd.clock) /\ Past(wd.last)

\* call_active_ is set exactly while one handler holds the ActiveGuard.
ClaimInv ==
    /\ call_active <=> \E h \in Rpcs : rpc[h].pc \in Opened
    /\ \A g, h \in Rpcs : rpc[g].pc \in Opened /\ rpc[h].pc \in Opened => g = h

\* There are handlers only once the server listens.
ServerInv ==
    /\ wd.pc = "start" <=> server = "down"
    /\ server = "down" => \A h \in Rpcs : rpc[h].pc = "none"

\* What a handler's place says of its kind, its code and its locals.
Untouched(h) ==
    /\ run[h] = NoRun
    /\ call[h] = [NoCall EXCEPT !.is_cancelled = call[h].is_cancelled]

PlaceInv(h) ==
    /\ rpc[h].pc # "none" => rpc[h].kind # "none"
    /\ rpc[h].pc \in Opened \cup {"claim"} => rpc[h].kind \in {"ExecuteCall", "Invalid"}
    /\ rpc[h].pc \in {"idle", "state", "busy", "count"} => rpc[h].kind = "Health"
    /\ rpc[h].pc \in Working \cup {"none", "claim", "validate"} => rpc[h].code = "none"
    /\ rpc[h].pc = "release" => rpc[h].code \in {"INVALID_ARGUMENT", "OK"}
    /\ rpc[h].pc \notin Opened => call[h] = NoCall /\ run[h] = NoRun
    /\ rpc[h].pc = "validate" => Untouched(h)
    /\ rpc[h].pc \in Working <=> run[h].outcome \in {"open", "returned"}
    /\ rpc[h].pc = "release" /\ rpc[h].code = "INVALID_ARGUMENT" => Untouched(h)
    /\ rpc[h].pc = "release" /\ rpc[h].code = "OK" => run[h].outcome = "destroyed"

\* How a run ended, and what its thread and the handler know of it.
EndInv(h) ==
    /\ call[h].done <=> run[h].outcome \in {"returned", "destroyed"}
    /\ run[h].asked => call[h].cancel_sent
    /\ call[h].cancel_sent => call[h].is_cancelled
    /\ call[h].done => run[h].asked \/ Stream!Complete(Items(run[h].emitted))
    /\ call[h].finished => call[h].done /\ call[h].queue = <<>>
    /\ rpc[h].pc = "join" => call[h].finished
    /\ rpc[h].pc \in {"join", "release"} => call[h].queue = <<>>
    /\ rpc[h].pc \in {"wait", "join", "release"} => call[h].batch = <<>>

\* What was emitted is a legal stream; once the call was answered it never goes
\* back, and the recording's file is this call's from PLAYING on.
EarlyItems ==
    {Stream!State(s) : s \in {"REGISTERING", "REGISTERED", "DIALING", "RINGING"}}

RecorderItems ==
    {Stream!State(s) : s \in {"PLAYING", "PLAYED", "SILENCE_DETECTED", "HANGING_UP",
                              "RECORDING_READY"}}

EmittedInv(h) ==
    LET items == Items(run[h].emitted)
    IN  /\ Stream!Legal(items)
        /\ \A i, j \in DOMAIN items :
              i < j /\ items[j] \in EarlyItems \cup {Stream!State("ANSWERED")} =>
                  items[i] \in EarlyItems
        /\ \A i \in DOMAIN items : items[i] \in RecorderItems => recording = h

\* Written, in the batch, in the queue: all that was emitted, in order.
WireInv(h) ==
    LET w == call[h].written
        n == Len(run[h].emitted)
    IN  /\ Len(w) <= n
        /\ SubSeq(run[h].emitted, Len(w) + 1, n) = call[h].batch \o call[h].queue
        /\ \A i \in DOMAIN w :
              \E t \in 0 .. now : w[i] = toProtoEvent(run[h].emitted[i], t)

\* started_at is set when the ANSWERED state has been written.
StartInv(h) ==
    (call[h].started_at # 0) <=>
        \E i \in DOMAIN call[h].written :
            Items(run[h].emitted)[i] = Stream!State("ANSWERED")

ServiceInv ==
    /\ TypeInv /\ TimesInv /\ ClaimInv /\ ServerInv
    /\ \A h \in Rpcs :
          PlaceInv(h) /\ EndInv(h) /\ EmittedInv(h) /\ WireInv(h) /\ StartInv(h)

-----------------------------------------------------------------------------
(* Lemmas on events, items and messages.                                   *)

\* The service and the stream contract mean the same statuses.
LEMMA SameWords ==
    /\ Stream!CallStatus = CallStatus
    /\ Stream!Item = [status : CallStatus, final : BOOLEAN]
BY DEF Stream!CallStatus, CallStatus, Stream!AlwaysResult, AlwaysResult, Stream!Item

\* Items() keeps the length of a stream and looks at each event by itself.
LEMMA ItemsOf ==
    ASSUME NEW evs \in Seq(AgentEvent)
    PROVE  /\ Items(evs) \in Seq(Stream!Item)
           /\ Len(Items(evs)) = Len(evs)
           /\ DOMAIN Items(evs) = 1 .. Len(evs)
           /\ \A i \in 1 .. Len(evs) :
                 Items(evs)[i] = [status |-> evs[i].status, final |-> result_event(evs[i])]
<1>1. DOMAIN evs = 1 .. Len(evs) /\ Len(evs) \in Nat
    OBVIOUS
<1>2. \A i \in 1 .. Len(evs) : evs[i] \in AgentEvent
    BY ElementOfSeq
<1>3. \A ev \in AgentEvent :
          [status |-> ev.status, final |-> result_event(ev)] \in Stream!Item
    BY SameWords DEF AgentEvent, result_event
<1>4. Items(evs) = [i \in 1 .. Len(evs) |->
                       [status |-> evs[i].status, final |-> result_event(evs[i])]]
    BY <1>1 DEF Items
<1>5. Items(evs) \in [1 .. Len(evs) -> Stream!Item]
    BY <1>2, <1>3, <1>4
<1>6. Items(evs) \in Seq(Stream!Item)
    BY <1>1, <1>5
<1>7. Len(Items(evs)) = Len(evs)
    BY <1>1, <1>5, <1>6
<1> QED BY <1>4, <1>6, <1>7

\* One more event is one more item.
LEMMA ItemsAppend ==
    ASSUME NEW evs \in Seq(AgentEvent), NEW ev \in AgentEvent
    PROVE  Items(Append(evs, ev)) =
               Append(Items(evs), [status |-> ev.status, final |-> result_event(ev)])
<1> DEFINE more == Append(evs, ev)
           item == [status |-> ev.status, final |-> result_event(ev)]
<1>1. more \in Seq(AgentEvent) /\ Len(more) = Len(evs) + 1 /\ more[Len(evs) + 1] = ev
      /\ \A i \in 1 .. Len(evs) : more[i] = evs[i]
    BY AppendProperties
<1>2. item \in Stream!Item
    BY SameWords DEF AgentEvent, result_event
<1>3. Append(Items(evs), item) \in Seq(Stream!Item)
      /\ Len(Append(Items(evs), item)) = Len(evs) + 1
      /\ Append(Items(evs), item)[Len(evs) + 1] = item
      /\ \A i \in 1 .. Len(evs) : Append(Items(evs), item)[i] = Items(evs)[i]
    BY <1>2, ItemsOf, AppendProperties
<1>4. Items(more) \in Seq(Stream!Item) /\ Len(Items(more)) = Len(evs) + 1
    BY <1>1, ItemsOf
<1>5. ASSUME NEW i \in 1 .. Len(evs) + 1
      PROVE  Items(more)[i] = Append(Items(evs), item)[i]
  <2>1. Items(more)[i] = [status |-> more[i].status, final |-> result_event(more[i])]
      BY <1>1, ItemsOf
  <2>2. CASE i = Len(evs) + 1
      BY <2>1, <2>2, <1>1, <1>3
  <2>3. CASE i # Len(evs) + 1
    <3>1. i \in 1 .. Len(evs)
        BY <2>3
    <3>2. Items(evs)[i] = [status |-> evs[i].status, final |-> result_event(evs[i])]
        BY <3>1, ItemsOf
    <3> QED BY <2>1, <3>1, <3>2, <1>1, <1>3
  <2> QED BY <2>2, <2>3
<1> QED BY <1>3, <1>4, <1>5, SeqEqual

\* What run() may emit next continues one of the scripts.
LEMMA NextItem ==
    ASSUME NEW sent \in Seq(Stream!Item), NEW item \in NextItems(sent)
    PROVE  \E s \in Scripts :
               /\ s \in Seq(Stream!Item) /\ Stream!Legal(s)
               /\ Len(sent) < Len(s) /\ item = s[Len(sent) + 1] /\ item \in Stream!Item
               /\ \A i \in 1 .. Len(sent) : s[i] = sent[i]
<1>1. PICK s \in Scripts : /\ Len(sent) < Len(s)
                           /\ SubSeq(s, 1, Len(sent)) = sent
                           /\ item = s[Len(sent) + 1]
    BY DEF NextItems
<1>2. s \in Seq(Stream!Item) /\ Stream!Legal(s)
    BY ServiceAssumption
<1>3. item \in Stream!Item
    BY <1>1, <1>2, ElementOfSeq
<1>4. \A i \in 1 .. Len(sent) : s[i] = sent[i]
    BY <1>1, <1>2, SubSeqProperties
<1> QED BY <1>1, <1>2, <1>3, <1>4

-----------------------------------------------------------------------------
(* The types.                                                              *)

\* The service starts in a state that satisfies its invariant.
LEMMA InitService == Init => ServiceInv
<1> SUFFICES ASSUME Init PROVE ServiceInv
    OBVIOUS
<1>1. TypeInv
  <2>1. NoCall \in CallType
      BY DEF NoCall, CallType
  <2>2. NoRun \in RunType
      BY DEF NoRun, RunType
  <2>3. wd \in WdType
      BY DEF Init, WdAt, WdType
  <2>4. rpc \in [Rpcs -> RpcType]
      BY DEF Init, RpcType, Places, Codes
  <2> QED BY <2>1, <2>2, <2>3, <2>4 DEF Init, TypeInv
<1>2. TimesInv /\ ClaimInv /\ ServerInv
  <2>1. \A h \in Rpcs : rpc[h].pc = "none"
      BY DEF Init
  <2>2. TimesInv
      BY DEF Init, TimesInv, Past, NoCall, WdAt
  <2>3. ClaimInv
      BY <2>1 DEF Init, ClaimInv, Opened
  <2> QED BY <2>1, <2>2, <2>3 DEF Init, ServerInv, WdAt
<1>3. ASSUME NEW h \in Rpcs
      PROVE  PlaceInv(h) /\ EndInv(h) /\ EmittedInv(h) /\ WireInv(h) /\ StartInv(h)
  <2>1. rpc[h].pc = "none" /\ rpc[h].code = "none" /\ call[h] = NoCall /\ run[h] = NoRun
      BY DEF Init
  <2>2. PlaceInv(h)
      BY <2>1 DEF PlaceInv, Opened, Working, NoCall, NoRun
  <2>3. EndInv(h)
      BY <2>1 DEF EndInv, NoCall, NoRun
  <2>4. Items(<<>>) = <<>>
      BY DEF Items
  <2>5. EmittedInv(h)
      BY <2>1, <2>4 DEF EmittedInv, NoRun, Stream!Legal
  <2>6. WireInv(h)
      BY <2>1 DEF WireInv, NoRun, NoCall
  <2>7. StartInv(h)
      BY <2>1 DEF StartInv, NoRun, NoCall
  <2> QED BY <2>2, <2>3, <2>5, <2>6, <2>7
<1> QED BY <1>1, <1>2, <1>3 DEF ServiceInv

\* A handler's step outside a call changes its own registers only.
Aside(h) == TouchClock(h) \/ HealthIdle(h) \/ HealthState(h) \/ HealthCount(h) \/ Arrive(h)

\* Such a step leads from a place without the ActiveGuard to another, and
\* neither its kind nor its code makes it a settled call.
LEMMA AsideStep ==
    ASSUME TypeInv, TimesInv, NEW h \in Rpcs, PlaceInv(h), Aside(h)
    PROVE  /\ Alive
           /\ rpc' \in [Rpcs -> RpcType]
           /\ rpc' = [rpc EXCEPT ![h] = rpc'[h]]
           /\ rpc[h].pc \notin Opened \cup {"claim", "returned"}
           /\ rpc'[h].pc \notin Opened \cup {"claim", "none"}
           /\ rpc'[h].pc \in {"idle", "state", "busy", "count"} => rpc'[h].kind = "Health"
           /\ rpc'[h].pc \in {"store", "returned"} =>
                 rpc[h].pc = "touch" \/ rpc'[h].kind = "Health"
           /\ rpc[h].pc = "touch" => rpc'[h].pc = "store"
           /\ rpc[h].pc # "none" => rpc'[h].kind = rpc[h].kind
           /\ rpc'[h].kind # "none"
           /\ rpc'[h].code = rpc[h].code \/ rpc'[h].kind = "Health"
           /\ Past(rpc'[h].clock) /\ Past(rpc'[h].last) /\ Past(rpc'[h].stamp)
           /\ rpc'[h].pc = "store" => rpc'[h].stamp # None
           /\ UNCHANGED <<serviceVars, callVars, mainVars>>
<1>a. rpc[h] \in RpcType /\ now \in Nat /\ last_activity \in Nat /\ call_active \in BOOLEAN
      /\ shutting_down \in BOOLEAN /\ 1 <= last_activity /\ last_activity <= now
      /\ Past(rpc[h].clock) /\ Past(rpc[h].last) /\ Past(rpc[h].stamp)
    BY DEF TypeInv, TimesInv
<1>b. /\ rpc[h].pc \in {"idle", "state", "busy", "count"} => rpc[h].kind = "Health"
      /\ rpc[h].pc # "none" => rpc[h].kind # "none"
    BY DEF PlaceInv
<1>c. ASSUME NEW r \in RpcType, Local(h, r)
      PROVE  /\ rpc' \in [Rpcs -> RpcType] /\ rpc'[h] = r /\ rpc' = [rpc EXCEPT ![h] = rpc'[h]]
             /\ UNCHANGED <<serviceVars, callVars, mainVars>>
    BY <1>c DEF Local, TypeInv
<1> USE DEF At, Alive, Opened, RpcType, Places, Codes, Past
<1>1. CASE TouchClock(h)
  <2> DEFINE r == [rpc[h] EXCEPT !.stamp = now, !.pc = "store"]
  <2>1. r \in RpcType /\ Local(h, r) /\ Alive /\ rpc[h].pc = "touch"
      BY <1>a, <1>1 DEF TouchClock
  <2>2. r.pc = "store" /\ r.stamp = now /\ r.kind = rpc[h].kind /\ r.code = rpc[h].code
        /\ r.clock = rpc[h].clock /\ r.last = rpc[h].last
      BY <1>a
  <2> HIDE DEF r
  <2> QED BY <1>a, <1>b, <1>c, <2>1, <2>2, ServiceAssumption DEF mainVars
<1>2. CASE HealthIdle(h)
  <2>1. PICK r \in {[rpc[h] EXCEPT !.clock = now], [rpc[h] EXCEPT !.last = last_activity],
                    [rpc[h] EXCEPT !.pc = "touch"]} : Local(h, r)
      BY <1>2 DEF HealthIdle
  <2>2. Alive /\ rpc[h].pc = "idle"
      BY <1>2 DEF HealthIdle
  <2>3. /\ r \in RpcType /\ r.pc \in {"idle", "touch"} /\ r.kind = "Health"
        /\ r.code = rpc[h].code /\ r.stamp = rpc[h].stamp
        /\ r.clock = rpc[h].clock \/ r.clock = now
        /\ r.last = rpc[h].last \/ r.last = last_activity
      BY <1>a, <1>b, <2>1, <2>2
  <2> QED BY <1>a, <1>b, <1>c, <2>1, <2>2, <2>3, ServiceAssumption
<1>3. CASE HealthState(h) \/ HealthCount(h)
  <2>1. PICK r \in {[rpc[h] EXCEPT !.state = "SHUTTING_DOWN", !.pc = "count"],
                    [rpc[h] EXCEPT !.pc = "busy"],
                    [rpc[h] EXCEPT !.state = "BUSY", !.pc = "count"],
                    [rpc[h] EXCEPT !.state = "READY", !.pc = "count"],
                    [rpc[h] EXCEPT !.active = 0, !.code = "OK", !.pc = "returned"],
                    [rpc[h] EXCEPT !.active = 1, !.code = "OK", !.pc = "returned"]} :
            Local(h, r)
      BY <1>3, <1>a DEF HealthState, HealthCount
  <2>2. Alive /\ rpc[h].pc \in {"state", "busy", "count"}
      BY <1>3 DEF HealthState, HealthCount
  <2>3. /\ r \in RpcType /\ r.pc \in {"busy", "count", "returned"} /\ r.kind = "Health"
        /\ r.stamp = rpc[h].stamp /\ r.clock = rpc[h].clock /\ r.last = rpc[h].last
      BY <1>a, <1>b, <2>1, <2>2
  <2> QED BY <1>a, <1>b, <1>c, <2>1, <2>2, <2>3
<1>4. CASE Arrive(h)
  <2>1. PICK kind \in Kinds, place \in {"idle", "touch"} :
          /\ place = "idle" => kind = "Health"
          /\ Local(h, [rpc[h] EXCEPT !.kind = kind, !.pc = place])
      BY <1>4 DEF Arrive
  <2> DEFINE r == [rpc[h] EXCEPT !.kind = kind, !.pc = place]
  <2>2. kind \in RpcKind
      BY ServiceAssumption
  <2>a. kind # "none"
      BY <2>2 DEF RpcKind
  <2>3. Alive /\ rpc[h].pc = "none"
      BY <1>4 DEF Arrive
  <2>4. /\ r \in RpcType /\ r.pc \in {"idle", "touch"}
        /\ r.pc = "idle" => r.kind = "Health"
        /\ r.kind # "none" /\ r.code = rpc[h].code
        /\ r.stamp = rpc[h].stamp /\ r.clock = rpc[h].clock /\ r.last = rpc[h].last
      BY <1>a, <2>1, <2>2, <2>a
  <2>5. Local(h, r)
      BY <2>1
  <2> HIDE DEF r
  <2> QED BY <1>a, <1>b, <1>c, <2>3, <2>4, <2>5
<1> QED BY <1>1, <1>2, <1>3, <1>4 DEF Aside

\* touchActivity() stores a time the clock has shown and goes on, to the claim
\* if the call is still to be made.
LEMMA StoreStep ==
    ASSUME TypeInv, TimesInv, NEW h \in Rpcs, PlaceInv(h), TouchStore(h)
    PROVE  /\ Alive
           /\ rpc' \in [Rpcs -> RpcType]
           /\ rpc' = [rpc EXCEPT ![h] = rpc'[h]]
           /\ rpc[h].pc = "store" /\ rpc'[h].kind = rpc[h].kind
           /\ rpc'[h].pc \in {"state", "returned", "claim"}
           /\ rpc'[h].pc = "state" => rpc[h].kind = "Health"
           /\ rpc'[h].pc = "claim" =>
                 rpc[h].kind \notin {"Health", "StreamAudio"} /\ rpc[h].code = "none"
           /\ rpc'[h].code = rpc[h].code \/ rpc[h].kind = "StreamAudio"
           /\ rpc'[h].pc = "returned" => rpc'[h].code # "none"
           /\ rpc'[h].clock = rpc[h].clock /\ rpc'[h].last = rpc[h].last
           /\ rpc'[h].stamp = None
           /\ last_activity' = rpc[h].stamp
           /\ last_activity' \in Nat /\ 1 <= last_activity' /\ last_activity' <= now
           /\ UNCHANGED <<call_active, shutting_down, callVars, mainVars>>
<1> DEFINE r == [AfterTouch(rpc[h]) EXCEPT !.stamp = None]
<1>a. rpc[h] \in RpcType /\ now \in Nat /\ Past(rpc[h].stamp)
      /\ (rpc[h].pc = "store" => rpc[h].stamp # None)
    BY DEF TypeInv, TimesInv
<1>b. rpc[h].pc = "store" /\ Alive /\ rpc' = [rpc EXCEPT ![h] = r]
      /\ last_activity' = rpc[h].stamp
      /\ UNCHANGED <<call_active, shutting_down, callVars, mainVars>>
    BY DEF TouchStore, At
<1>1. PICK place \in {"state", "returned", "claim"}, code \in Codes :
          /\ AfterTouch(rpc[h]) = [rpc[h] EXCEPT !.pc = place, !.code = code]
          /\ place = "state" => rpc[h].kind = "Health"
          /\ place = "claim" =>
                 rpc[h].kind \notin {"Health", "StreamAudio"} /\ rpc[h].code = "none"
          /\ code = rpc[h].code \/ rpc[h].kind = "StreamAudio"
          /\ place = "returned" => code # "none"
  <2>1. CASE rpc[h].kind = "Health"
      BY <1>a, <2>1 DEF AfterTouch, RpcType
  <2>2. CASE rpc[h].kind = "StreamAudio"
      BY <1>a, <2>2 DEF AfterTouch, RpcType, Codes
  <2>3. CASE rpc[h].kind \notin {"Health", "StreamAudio"}
    <3>1. CASE rpc[h].code = "none"
        BY <1>a, <2>3, <3>1 DEF AfterTouch, RpcType
    <3>2. CASE rpc[h].code # "none"
        BY <1>a, <2>3, <3>2 DEF AfterTouch, RpcType
    <3> QED BY <3>1, <3>2
  <2> QED BY <2>1, <2>2, <2>3
<1>2. r = [rpc[h] EXCEPT !.pc = place, !.code = code, !.stamp = None]
    BY <1>1, <1>a DEF RpcType
<1>3. /\ r \in RpcType /\ r.pc = place /\ r.code = code /\ r.stamp = None
      /\ r.kind = rpc[h].kind /\ r.clock = rpc[h].clock /\ r.last = rpc[h].last
    BY <1>a, <1>2 DEF RpcType, Places, Opened
<1>4. rpc' \in [Rpcs -> RpcType] /\ rpc'[h] = r
    BY <1>b, <1>3 DEF TypeInv
<1>5. last_activity' \in Nat /\ 1 <= last_activity' /\ last_activity' <= now
    BY <1>a, <1>b DEF Past, RpcType
<1> HIDE DEF r
<1> QED BY <1>b, <1>1, <1>3, <1>4, <1>5

\* A store to call_active_ moves the handler and leaves its other registers,
\* the other handlers, the clock and the main thread alone.
LEMMA FlagStep ==
    ASSUME TypeInv, NEW h \in Rpcs, NEW place \in Places, NEW code \in Codes,
           NEW value \in BOOLEAN, Flag(h, place, code, value)
    PROVE  /\ rpc' \in [Rpcs -> RpcType]
           /\ rpc' = [rpc EXCEPT ![h] = rpc'[h]]
           /\ rpc'[h].pc = place /\ rpc'[h].code = code
           /\ rpc'[h].kind = rpc[h].kind /\ rpc'[h].clock = rpc[h].clock
           /\ rpc'[h].last = rpc[h].last /\ rpc'[h].stamp = rpc[h].stamp
           /\ call_active' = value /\ call_active' \in BOOLEAN
           /\ UNCHANGED <<shutting_down, last_activity, mainVars>>
<1> DEFINE r == [rpc[h] EXCEPT !.pc = place, !.code = code]
<1>1. rpc[h] \in RpcType
    BY DEF TypeInv
<1>2. /\ r \in RpcType /\ r.pc = place /\ r.code = code /\ r.kind = rpc[h].kind
      /\ r.clock = rpc[h].clock /\ r.last = rpc[h].last /\ r.stamp = rpc[h].stamp
    BY <1>1 DEF RpcType
<1>3. rpc' = [rpc EXCEPT ![h] = r]
    BY DEF Flag, TypeInv
<1>4. rpc' \in [Rpcs -> RpcType] /\ rpc'[h] = r
    BY <1>2, <1>3 DEF TypeInv
<1> HIDE DEF r
<1> QED BY <1>2, <1>3, <1>4 DEF Flag

\* A step in which only the place of one handler changes.
LEMMA PlaceStep ==
    ASSUME TypeInv, NEW h \in Rpcs, NEW place \in Places,
           rpc' = [rpc EXCEPT ![h].pc = place]
    PROVE  /\ rpc' \in [Rpcs -> RpcType]
           /\ rpc' = [rpc EXCEPT ![h] = rpc'[h]]
           /\ rpc'[h].pc = place /\ rpc'[h].code = rpc[h].code
           /\ rpc'[h].kind = rpc[h].kind /\ rpc'[h].clock = rpc[h].clock
           /\ rpc'[h].last = rpc[h].last /\ rpc'[h].stamp = rpc[h].stamp
<1> DEFINE r == [rpc[h] EXCEPT !.pc = place]
<1>1. rpc[h] \in RpcType
    BY DEF TypeInv
<1>2. /\ r \in RpcType /\ r.pc = place /\ r.code = rpc[h].code /\ r.kind = rpc[h].kind
      /\ r.clock = rpc[h].clock /\ r.last = rpc[h].last /\ r.stamp = rpc[h].stamp
    BY <1>1 DEF RpcType
<1>3. rpc' = [rpc EXCEPT ![h] = r]
    BY DEF TypeInv
<1>4. rpc' \in [Rpcs -> RpcType] /\ rpc'[h] = r
    BY <1>2, <1>3 DEF TypeInv
<1> HIDE DEF r
<1> QED BY <1>2, <1>3, <1>4

\* The event the executor hands to its sink: one item more of a script.
LEMMA EmitStep ==
    ASSUME TypeInv, NEW h \in Rpcs, Emit(h)
    PROVE  \E ev \in AgentEvent :
               LET item == [status |-> ev.status, final |-> result_event(ev)]
               IN  /\ item \in NextItems(Items(run[h].emitted))
                   /\ run' = [run EXCEPT ![h] = run'[h]] /\ run'[h] \in RunType
                   /\ run'[h] = [run[h] EXCEPT !.emitted = Append(run[h].emitted, ev)]
                   /\ call' = [call EXCEPT ![h] = call'[h]] /\ call'[h] \in CallType
                   /\ call'[h] = [call[h] EXCEPT !.queue = Append(call[h].queue, ev)]
                   /\ recording' = IF ev.status = "PLAYING" THEN h ELSE recording
                   /\ run[h].outcome = "open" /\ Alive
                   /\ UNCHANGED <<serviceVars, rpc, mainVars>>
<1>1. PICK item \in NextItems(Items(run[h].emitted)), flag \in BOOLEAN :
          LET ev == MakeEvent(item.status, FALSE, 0, 0, flag)
          IN  /\ result_event(ev) = item.final
              /\ run' = [run EXCEPT ![h].emitted = Append(@, ev)]
              /\ call' = [call EXCEPT ![h].queue = Append(@, ev)]
              /\ recording' = IF ev.status = "PLAYING" THEN h ELSE recording
    BY DEF Emit
<1> DEFINE ev == MakeEvent(item.status, FALSE, 0, 0, flag)
<1>2. run[h].emitted \in Seq(AgentEvent)
    BY DEF TypeInv, RunType
<1>3. item \in Stream!Item
    BY <1>1, <1>2, ItemsOf, NextItem
<1>4. ev \in AgentEvent /\ ev.status = item.status
    BY <1>3, SameWords DEF AgentEvent, MakeEvent
<1>5. item = [status |-> ev.status, final |-> result_event(ev)]
    BY <1>1, <1>3, <1>4, SameWords
<1>6. run[h].outcome = "open" /\ Alive /\ UNCHANGED <<serviceVars, rpc, mainVars>>
    BY DEF Emit, Running
<1> DEFINE r == [run[h] EXCEPT !.emitted = Append(run[h].emitted, ev)]
           c == [call[h] EXCEPT !.queue = Append(call[h].queue, ev)]
<1>7. run' = [run EXCEPT ![h] = r] /\ call' = [call EXCEPT ![h] = c]
      /\ recording' = IF ev.status = "PLAYING" THEN h ELSE recording
    BY <1>1 DEF TypeInv
<1> HIDE DEF ev
<1>8. Append(run[h].emitted, ev) \in Seq(AgentEvent)
      /\ Append(call[h].queue, ev) \in Seq(AgentEvent)
    BY <1>2, <1>4, AppendProperties DEF TypeInv, CallType
<1>9. r \in RunType /\ c \in CallType
    BY <1>8 DEF TypeInv, RunType, CallType
<1>10. run'[h] = r /\ call'[h] = c
    BY <1>7 DEF TypeInv
<1> QED BY <1>1, <1>4, <1>5, <1>6, <1>7, <1>9, <1>10

\* One Write: the oldest event of the batch goes to the wire.
LEMMA WriteStep ==
    ASSUME TypeInv, TimesInv, NEW h \in Rpcs, Write(h)
    PROVE  LET ev == Head(call[h].batch)
               started == StartedAt(ev, call[h].started_at)
           IN  /\ rpc[h].pc = "write" /\ Alive
               /\ ev \in AgentEvent /\ started \in Nat /\ started <= now
               /\ call[h].batch # <<>>
               /\ call' = [call EXCEPT ![h] = call'[h]]
               /\ call'[h] = [call[h] EXCEPT
                                 !.batch = Tail(call[h].batch), !.started_at = started,
                                 !.written = Append(call[h].written,
                                                    toProtoEvent(ev, started))]
               /\ call'[h] \in CallType
               /\ UNCHANGED <<serviceVars, rpc, run, recording, mainVars>>
<1> DEFINE ev == Head(call[h].batch)
           started == StartedAt(ev, call[h].started_at)
           msg == toProtoEvent(ev, started)
           c == [call[h] EXCEPT !.batch = Tail(call[h].batch), !.started_at = started,
                                !.written = Append(call[h].written, msg)]
<1>1. call[h] \in CallType /\ call[h].batch # <<>> /\ call[h].batch \in Seq(AgentEvent)
      /\ call[h].written \in Seq(Messages) /\ call[h].started_at \in Nat
    BY DEF TypeInv, CallType, Write
<1>2. ev \in AgentEvent /\ Tail(call[h].batch) \in Seq(AgentEvent)
    BY <1>1, HeadTailProperties
<1>3. now \in Nat /\ call[h].started_at <= now
    BY DEF TypeInv, TimesInv
<1>4. started \in Nat /\ started <= now
    BY <1>1, <1>3 DEF StartedAt
<1> HIDE DEF ev, started
<1>5. msg \in Messages
    BY <1>2, <1>4 DEF Messages
<1> HIDE DEF msg
<1>6. Append(call[h].written, msg) \in Seq(Messages)
    BY <1>1, <1>5, AppendProperties
<1>7. c \in CallType
    BY <1>1, <1>2, <1>4, <1>6 DEF CallType
<1>8. call' = [call EXCEPT ![h] = c]
    BY DEF Write, TypeInv, ev, started, msg
<1>9. call'[h] = c
    BY <1>8 DEF TypeInv
<1>10. rpc[h].pc = "write" /\ Alive /\ UNCHANGED <<serviceVars, rpc, run, recording, mainVars>>
    BY DEF Write, At
<1> QED BY <1>1, <1>2, <1>4, <1>7, <1>8, <1>9, <1>10 DEF ev, started, msg

\* Swap empties the queue into the batch and settles finished with it.
LEMMA SwapStep ==
    ASSUME TypeInv, NEW h \in Rpcs, Swap(h)
    PROVE  /\ rpc[h].pc = "wait" /\ Alive
           /\ rpc' = [rpc EXCEPT ![h].pc = "write"]
           /\ call' = [call EXCEPT ![h] = call'[h]]
           /\ call'[h] = [call[h] EXCEPT !.batch = call[h].queue, !.queue = <<>>,
                                         !.finished = Finished(h)]
           /\ call'[h] \in CallType
           /\ UNCHANGED <<serviceVars, run, recording, mainVars>>
<1> DEFINE c == [call[h] EXCEPT !.batch = call[h].queue, !.queue = <<>>,
                                !.finished = Finished(h)]
<1>1. call[h] \in CallType
    BY DEF TypeInv
<1>2. Finished(h) \in BOOLEAN
    BY DEF Finished
<1>3. <<>> \in Seq(AgentEvent)
    OBVIOUS
<1>4. c \in CallType
    BY <1>1, <1>2, <1>3 DEF CallType
<1>5. call' = [call EXCEPT ![h] = c]
    BY DEF Swap, TypeInv
<1>6. call'[h] = c
    BY <1>5 DEF TypeInv
<1> QED BY <1>4, <1>5, <1>6 DEF Swap, At

\* The end of the loop's body: the handler leaves, or passes a cancellation on
\* and goes round.
LEMMA LoopStep ==
    ASSUME TypeInv, NEW h \in Rpcs, LoopEnd(h)
    PROVE  /\ rpc[h].pc = "write" /\ Alive /\ call[h].batch = <<>>
           /\ call' = [call EXCEPT ![h] = call'[h]] /\ call'[h] \in CallType
           /\ run' = [run EXCEPT ![h] = run'[h]] /\ run'[h] \in RunType
           /\ run'[h].emitted = run[h].emitted /\ run'[h].outcome = run[h].outcome
           /\ call'[h].queue = call[h].queue /\ call'[h].batch = call[h].batch
           /\ call'[h].written = call[h].written /\ call'[h].started_at = call[h].started_at
           /\ call'[h].is_cancelled = call[h].is_cancelled
           /\ \/ /\ call[h].finished /\ rpc' = [rpc EXCEPT ![h].pc = "join"]
                 /\ UNCHANGED <<call, run>>
              \/ /\ ~ call[h].finished /\ rpc' = [rpc EXCEPT ![h].pc = "wait"]
                 /\ \E sent, asked \in BOOLEAN :
                       /\ sent = (call[h].cancel_sent \/ Cancels(h))
                       /\ asked = (run[h].asked \/ Cancels(h))
                       /\ call'[h] = [call[h] EXCEPT !.cancel_sent = sent]
                       /\ run'[h] = [run[h] EXCEPT !.asked = asked]
           /\ UNCHANGED <<serviceVars, recording, mainVars>>
<1>1. call[h] \in CallType /\ run[h] \in RunType
    BY DEF TypeInv
<1>2. /\ rpc[h].pc = "write" /\ Alive /\ call[h].batch = <<>>
      /\ UNCHANGED <<serviceVars, recording, mainVars>>
    BY DEF LoopEnd, At
<1>3. CASE LeaveLoop(h)
    BY <1>1, <1>2, <1>3 DEF LoopEnd, LeaveLoop, TypeInv
<1>4. CASE ~ LeaveLoop(h)
  <2> DEFINE sent == (call[h].cancel_sent \/ Cancels(h))
             asked == (run[h].asked \/ Cancels(h))
             c == [call[h] EXCEPT !.cancel_sent = sent]
             r == [run[h] EXCEPT !.asked = asked]
  <2>1. sent \in BOOLEAN /\ asked \in BOOLEAN
      OBVIOUS
  <2>2. call' = [call EXCEPT ![h] = c] /\ run' = [run EXCEPT ![h] = r]
      BY <1>4 DEF LoopEnd, TypeInv
  <2>3. rpc' = [rpc EXCEPT ![h].pc = "wait"] /\ ~ call[h].finished
      BY <1>4 DEF LoopEnd, LeaveLoop
  <2> HIDE DEF sent, asked
  <2>4. c \in CallType /\ r \in RunType
      BY <1>1, <2>1 DEF CallType, RunType
  <2>5. call'[h] = c /\ run'[h] = r
      BY <2>2 DEF TypeInv
  <2>7. /\ c.queue = call[h].queue /\ c.batch = call[h].batch /\ c.written = call[h].written
        /\ c.started_at = call[h].started_at /\ c.is_cancelled = call[h].is_cancelled
        /\ r.emitted = run[h].emitted /\ r.outcome = run[h].outcome
      BY <1>1 DEF CallType, RunType
  <2> HIDE DEF c, r
  <2>6. \E x, y \in BOOLEAN :
            /\ x = (call[h].cancel_sent \/ Cancels(h)) /\ y = (run[h].asked \/ Cancels(h))
            /\ call'[h] = [call[h] EXCEPT !.cancel_sent = x]
            /\ run'[h] = [run[h] EXCEPT !.asked = y]
    <3> WITNESS sent \in BOOLEAN, asked \in BOOLEAN
    <3> QED BY <2>5 DEF sent, asked, c, r
  <2> QED BY <1>2, <2>2, <2>3, <2>4, <2>5, <2>6, <2>7
<1> QED BY <1>3, <1>4

\* Every step keeps the types and the order of the times.
LEMMA NextTypes ==
    ASSUME TypeInv, TimesInv, \A h \in Rpcs : PlaceInv(h), [Next]_vars
    PROVE  TypeInv' /\ TimesInv'
<1> USE DEF serviceVars, callVars, mainVars
<1>a. ASSUME NEW h \in Rpcs, Aside(h) PROVE TypeInv' /\ TimesInv'
  <2>1. /\ rpc' \in [Rpcs -> RpcType] /\ rpc' = [rpc EXCEPT ![h] = rpc'[h]]
        /\ Past(rpc'[h].clock) /\ Past(rpc'[h].last) /\ Past(rpc'[h].stamp)
        /\ rpc'[h].pc = "store" => rpc'[h].stamp # None
        /\ UNCHANGED <<serviceVars, callVars, mainVars>>
      BY <1>a, AsideStep
  <2>2. TypeInv'
      BY <2>1 DEF TypeInv
  <2> QED BY <2>1, <2>2 DEF TimesInv, Past, TypeInv
<1>b. ASSUME NEW h \in Rpcs, TouchStore(h) PROVE TypeInv' /\ TimesInv'
  <2>1. /\ rpc' \in [Rpcs -> RpcType] /\ rpc' = [rpc EXCEPT ![h] = rpc'[h]]
        /\ rpc'[h].clock = rpc[h].clock /\ rpc'[h].last = rpc[h].last
        /\ rpc'[h].stamp = None /\ rpc'[h].pc # "store"
        /\ last_activity' \in Nat /\ 1 <= last_activity' /\ last_activity' <= now
        /\ UNCHANGED <<call_active, shutting_down, callVars, mainVars>>
      BY <1>b, StoreStep
  <2>2. TypeInv'
      BY <2>1 DEF TypeInv
  <2> QED BY <2>1, <2>2 DEF TimesInv, Past, TypeInv
<1>c. ASSUME NEW h \in Rpcs, NEW place \in Places \ {"store"}, NEW code \in Codes,
             NEW value \in BOOLEAN, Flag(h, place, code, value),
             call' \in [Rpcs -> CallType], run' \in [Rpcs -> RunType],
             \A g \in Rpcs : call'[g].started_at <= now,
             UNCHANGED recording
      PROVE  TypeInv' /\ TimesInv'
  <2>1. /\ rpc' \in [Rpcs -> RpcType] /\ rpc' = [rpc EXCEPT ![h] = rpc'[h]]
        /\ rpc'[h].pc = place
        /\ rpc'[h].clock = rpc[h].clock /\ rpc'[h].last = rpc[h].last
        /\ rpc'[h].stamp = rpc[h].stamp /\ call_active' \in BOOLEAN
        /\ UNCHANGED <<shutting_down, last_activity, mainVars>>
      BY <1>c, FlagStep
  <2>2. TypeInv'
      BY <1>c, <2>1 DEF TypeInv
  <2> QED BY <1>c, <2>1, <2>2 DEF TimesInv, Past, TypeInv
<1>d. ASSUME NEW h \in Rpcs, Claim(h) PROVE TypeInv' /\ TimesInv'
  <2>1. \A g \in Rpcs : call[g].started_at <= now
      BY DEF TimesInv
  <2> QED BY <1>c, <1>d, <2>1 DEF Claim, TypeInv, Places, Opened, Codes
<1>e. ASSUME NEW h \in Rpcs, Begin(h) PROVE TypeInv' /\ TimesInv'
  <2>1. \A g \in Rpcs : call[g].started_at <= now
      BY DEF TimesInv
  <2>2. run' \in [Rpcs -> RunType] /\ call' = call /\ recording' = recording
      BY <1>e DEF Begin, TypeInv, RunType
  <2> QED BY <1>c, <1>e, <2>1, <2>2 DEF Begin, TypeInv, Places, Opened, Codes
<1>f. ASSUME NEW h \in Rpcs, Join(h) PROVE TypeInv' /\ TimesInv'
  <2>1. \A g \in Rpcs : call[g].started_at <= now
      BY DEF TimesInv
  <2>2. run' \in [Rpcs -> RunType] /\ call' = call /\ recording' = recording
      BY <1>f DEF Join, TypeInv, RunType
  <2> QED BY <1>c, <1>f, <2>1, <2>2 DEF Join, TypeInv, Places, Opened, Codes
<1>g. ASSUME NEW h \in Rpcs, Release(h) PROVE TypeInv' /\ TimesInv'
  <2>1. NoRun \in RunType /\ NoCall \in CallType /\ NoCall.started_at = 0
      BY DEF NoRun, RunType, NoCall, CallType
  <2>2. run' \in [Rpcs -> RunType] /\ call' \in [Rpcs -> CallType] /\ recording' = recording
      BY <1>g, <2>1 DEF Release, TypeInv
  <2>3. \A g \in Rpcs : call'[g].started_at <= now
      BY <1>g, <2>1 DEF Release, TypeInv, TimesInv
  <2>4. rpc[h].code \in Codes
      BY DEF TypeInv, RpcType
  <2> QED BY <1>c, <1>g, <2>2, <2>3, <2>4 DEF Release, ReleasedValue, Places, Opened
<1>h. ASSUME rpc' \in [Rpcs -> RpcType],
             \A g \in Rpcs : /\ rpc'[g].clock = rpc[g].clock /\ rpc'[g].last = rpc[g].last
                             /\ rpc'[g].stamp = rpc[g].stamp
                             /\ rpc'[g].pc = "store" => rpc[g].pc = "store",
             call' \in [Rpcs -> CallType], run' \in [Rpcs -> RunType],
             \A g \in Rpcs : call'[g].started_at <= now,
             recording' \in Rpcs \cup {None}, UNCHANGED <<serviceVars, mainVars>>
      PROVE  TypeInv' /\ TimesInv'
  <2>1. TypeInv'
      BY <1>h DEF TypeInv
  <2> QED BY <1>h, <2>1 DEF TimesInv, Past, TypeInv
<1>i. ASSUME NEW h \in Rpcs, Swap(h) PROVE TypeInv' /\ TimesInv'
  <2>1. rpc' = [rpc EXCEPT ![h].pc = "write"] /\ "write" \in Places
      BY <1>i DEF Swap, Places, Opened
  <2>2. /\ call' = [call EXCEPT ![h] = call'[h]] /\ call'[h] \in CallType
        /\ call'[h].started_at = call[h].started_at
      BY <1>i, SwapStep DEF TypeInv, CallType
  <2>3. UNCHANGED <<run, recording, serviceVars, mainVars>>
      BY <1>i DEF Swap
  <2>4. call' \in [Rpcs -> CallType] /\ \A g \in Rpcs : call'[g].started_at <= now
      BY <2>2 DEF TypeInv, TimesInv
  <2> QED BY <1>h, <2>1, <2>3, <2>4, PlaceStep DEF TypeInv
<1>j. ASSUME NEW h \in Rpcs, Write(h) PROVE TypeInv' /\ TimesInv'
  <2> DEFINE ev == Head(call[h].batch)
             started == StartedAt(ev, call[h].started_at)
             msg == toProtoEvent(ev, started)
  <2>1. /\ started \in Nat /\ started <= now /\ call' = [call EXCEPT ![h] = call'[h]]
        /\ call'[h] = [call[h] EXCEPT
                                 !.batch = Tail(call[h].batch), !.started_at = started,
                                 !.written = Append(call[h].written, msg)]
        /\ call'[h] \in CallType
        /\ UNCHANGED <<serviceVars, rpc, run, recording, mainVars>>
      BY <1>j, WriteStep
  <2> HIDE DEF started, msg
  <2>2. call[h] \in CallType
      BY DEF TypeInv
  <2>3. call'[h].started_at = started
      BY <2>1, <2>2 DEF CallType
  <2>4. call' \in [Rpcs -> CallType] /\ \A g \in Rpcs : call'[g].started_at <= now
      BY <2>1, <2>3 DEF TypeInv, TimesInv
  <2> QED BY <1>h, <2>1, <2>4 DEF TypeInv
<1>k. ASSUME NEW h \in Rpcs, LoopEnd(h) PROVE TypeInv' /\ TimesInv'
  <2>1. PICK place \in {"join", "wait"} : rpc' = [rpc EXCEPT ![h].pc = place]
      BY <1>k DEF LoopEnd
  <2>2. place \in Places /\ place # "store"
      BY <2>1 DEF Places, Opened
  <2>3. /\ call' = [call EXCEPT ![h] = call'[h]] /\ call'[h] \in CallType
        /\ run' = [run EXCEPT ![h] = run'[h]] /\ run'[h] \in RunType
        /\ call'[h].started_at = call[h].started_at
      BY <1>k, LoopStep DEF TypeInv, CallType
  <2>4. call' \in [Rpcs -> CallType] /\ \A g \in Rpcs : call'[g].started_at <= now
      BY <2>3 DEF TypeInv, TimesInv
  <2>5. run' \in [Rpcs -> RunType]
      BY <2>3 DEF TypeInv
  <2>6. UNCHANGED <<recording, serviceVars, mainVars>>
      BY <1>k DEF LoopEnd
  <2> QED BY <1>h, <2>1, <2>2, <2>4, <2>5, <2>6, PlaceStep DEF TypeInv
<1>l. ASSUME NEW h \in Rpcs, ClientCancels(h) PROVE TypeInv' /\ TimesInv'
  <2>1. call' \in [Rpcs -> CallType] /\ \A g \in Rpcs : call'[g].started_at <= now
      BY <1>l DEF ClientCancels, TypeInv, TimesInv, CallType
  <2> QED BY <1>h, <1>l, <2>1 DEF ClientCancels, TypeInv
<1>m. ASSUME NEW h \in Rpcs, Emit(h) PROVE TypeInv' /\ TimesInv'
  <2>1. PICK ev \in AgentEvent :
            /\ run' = [run EXCEPT ![h] = run'[h]] /\ run'[h] \in RunType
            /\ call' = [call EXCEPT ![h] = call'[h]] /\ call'[h] \in CallType
            /\ call'[h] = [call[h] EXCEPT !.queue = Append(call[h].queue, ev)]
            /\ recording' = IF ev.status = "PLAYING" THEN h ELSE recording
            /\ UNCHANGED <<serviceVars, rpc, mainVars>>
      BY <1>m, EmitStep
  <2>2. call'[h].started_at = call[h].started_at
      BY <2>1 DEF TypeInv, CallType
  <2>3. /\ run' \in [Rpcs -> RunType] /\ call' \in [Rpcs -> CallType]
        /\ \A g \in Rpcs : call'[g].started_at <= now
      BY <2>1, <2>2 DEF TypeInv, TimesInv
  <2>4. recording' \in Rpcs \cup {None}
      BY <2>1 DEF TypeInv
  <2> QED BY <1>h, <2>1, <2>3, <2>4 DEF TypeInv
<1>n. ASSUME NEW h \in Rpcs, RunReturns(h) PROVE TypeInv' /\ TimesInv'
  <2>1. call' \in [Rpcs -> CallType] /\ \A g \in Rpcs : call'[g].started_at <= now
      BY <1>n DEF RunReturns, TypeInv, TimesInv, CallType
  <2>2. run' \in [Rpcs -> RunType]
      BY <1>n DEF RunReturns, TypeInv, RunType
  <2> QED BY <1>h, <1>n, <2>1, <2>2 DEF RunReturns, TypeInv
<1>o. ASSUME NEW h \in Rpcs, RunThrows(h) PROVE TypeInv' /\ TimesInv'
    BY <1>o DEF RunThrows, TypeInv, TimesInv, Past
<1>p. CASE Listen
    BY <1>p DEF Listen, TypeInv, TimesInv, Past, WdAt, WdType
<1>q. CASE Watch
  <2>a. IdleEnough(wd.clock, wd.last) \in BOOLEAN
      BY DEF IdleEnough
  <2>1. wd' \in WdType /\ shutting_down' \in BOOLEAN
    <3>1. CASE wd.pc = "sleep"
        BY <1>q, <3>1 DEF Watch, TypeInv, WdAt, WdType
    <3>2. CASE wd.pc = "idle"
        BY <1>q, <2>a, <3>2 DEF Watch, TypeInv, WdAt, WdType
    <3> QED BY <1>q, <3>1, <3>2 DEF Watch
  <2>2. Past(wd'.clock) /\ Past(wd'.last)
      BY <1>q DEF Watch, TypeInv, TimesInv, Past, WdAt, WdType
  <2>3. UNCHANGED <<call_active, last_activity, rpc, callVars, server, now>>
      BY <1>q DEF Watch
  <2> QED BY <2>1, <2>2, <2>3 DEF TypeInv, TimesInv, Past
<1>r. CASE Stop
    BY <1>r DEF Stop, TypeInv, TimesInv, Past, WdAt, WdType
<1>s. CASE Tick
  <2>1. TypeInv'
      BY <1>s DEF Tick, TypeInv
  <2>3. now' = now + 1 /\ UNCHANGED <<serviceVars, rpc, callVars, wd, server>> /\ now \in Nat
      BY <1>s DEF Tick, TypeInv
  <2>4. \A h \in Rpcs : /\ {rpc[h].clock, rpc[h].last, rpc[h].stamp} \subseteq Nat \cup {None}
                         /\ call[h].started_at \in Nat
      BY DEF TypeInv, RpcType, CallType
  <2>5. wd.clock \in Nat \cup {None} /\ wd.last \in Nat \cup {None} /\ last_activity \in Nat
      BY DEF TypeInv, WdType
  <2>6. ASSUME NEW h \in Rpcs
        PROVE  /\ Past(rpc[h].clock)' /\ Past(rpc[h].last)' /\ Past(rpc[h].stamp)'
               /\ rpc'[h].pc = "store" => rpc'[h].stamp # None
               /\ call'[h].started_at <= now'
      BY <2>3, <2>4 DEF TimesInv, Past
  <2>7. Past(wd.clock)' /\ Past(wd.last)' /\ 1 <= last_activity' /\ last_activity' <= now'
      BY <2>3, <2>5 DEF TimesInv, Past
  <2> QED BY <2>1, <2>6, <2>7 DEF TimesInv
<1>t. CASE UNCHANGED vars
    BY <1>t DEF vars, TypeInv, TimesInv, Past
<1> QED BY <1>a, <1>b, <1>d, <1>e, <1>f, <1>g, <1>i, <1>j, <1>k, <1>l, <1>m, <1>n, <1>o,
           <1>p, <1>q, <1>r, <1>s, <1>t
        DEF Next, Handler, Aside, MainThread, Over

-----------------------------------------------------------------------------
(* Who changes what.                                                       *)

\* A step of the RPC h: its handler's, its client's or its executor's.
StepOf(h) ==
    Arrive(h) \/ Handler(h) \/ ClientCancels(h) \/ Emit(h) \/ RunReturns(h) \/ RunThrows(h)

\* A step of an RPC leaves the registers, the locals and the executors of the
\* others alone, and the time.
LEMMA Apart ==
    ASSUME TypeInv, TimesInv, NEW h \in Rpcs, PlaceInv(h), StepOf(h),
           NEW g \in Rpcs, g # h
    PROVE  rpc'[g] = rpc[g] /\ call'[g] = call[g] /\ run'[g] = run[g] /\ now' = now
<1> USE DEF serviceVars, callVars, mainVars
<1>1. CASE Aside(h) \/ TouchStore(h)
    BY <1>1, AsideStep, StoreStep DEF TypeInv
<1>2. CASE Claim(h) \/ Begin(h) \/ Join(h) \/ Release(h)
    BY <1>2 DEF Claim, Begin, Join, Release, Flag, TypeInv
<1>3. CASE Swap(h)
    BY <1>3 DEF Swap, TypeInv
<1>4. CASE Write(h)
    BY <1>4, WriteStep DEF TypeInv
<1>5. CASE LoopEnd(h)
    BY <1>5, LoopStep DEF TypeInv
<1>6. CASE ClientCancels(h) \/ RunReturns(h) \/ RunThrows(h)
    BY <1>6 DEF ClientCancels, RunReturns, RunThrows, TypeInv
<1>7. CASE Emit(h)
    BY <1>7, EmitStep DEF TypeInv
<1> QED BY <1>1, <1>2, <1>3, <1>4, <1>5, <1>6, <1>7 DEF StepOf, Handler, Aside

\* A step of the main thread, of time, or none.
Elsewhere == MainThread \/ Tick \/ UNCHANGED vars

\* Such a step changes nothing of any call, and time never goes back.
LEMMA ElsewhereStep ==
    ASSUME TypeInv, Elsewhere
    PROVE  UNCHANGED <<call_active, rpc, call, run, recording>> /\ now <= now'
<1> USE DEF serviceVars, callVars, mainVars
<1>1. now \in Nat
    BY DEF TypeInv
<1>2. CASE Listen
    BY <1>1, <1>2 DEF Listen
<1>3. CASE Watch
    BY <1>1, <1>3 DEF Watch
<1>4. CASE Stop
    BY <1>1, <1>4 DEF Stop
<1>5. CASE Tick \/ UNCHANGED vars
    BY <1>1, <1>5 DEF Tick, vars
<1> QED BY <1>2, <1>3, <1>4, <1>5 DEF Elsewhere, MainThread

\* There are no other steps.
LEMMA Steps ==
    ASSUME [Next]_vars
    PROVE  (\E h \in Rpcs : StepOf(h)) \/ Elsewhere
BY DEF Next, StepOf, Elsewhere, Over

\* Where a step of an RPC may lead: into a call only by the claim, out of it
\* only by the release.
LEMMA PathOf ==
    ASSUME TypeInv, TimesInv, NEW h \in Rpcs, PlaceInv(h), StepOf(h)
    PROVE  /\ Alive
           /\ rpc' \in [Rpcs -> RpcType]
           /\ \/ /\ rpc[h].pc = "claim" /\ ~ call_active /\ rpc'[h].pc = "validate"
                 /\ call_active' = TRUE
              \/ /\ rpc[h].pc = "release" /\ rpc'[h].pc = "touch" /\ call_active' = FALSE
              \/ /\ rpc'[h].pc \in Opened <=> rpc[h].pc \in Opened
                 /\ call_active' = call_active
<1> USE DEF serviceVars, callVars, mainVars
<1>1. CASE Aside(h)
    BY <1>1, AsideStep
<1>2. CASE TouchStore(h)
    BY <1>2, StoreStep DEF Opened
<1>3. CASE Claim(h)
  <2>1. CASE call_active
    <3>1. Flag(h, "returned", "ALREADY_EXISTS", TRUE) /\ At(h, "claim") /\ call_active = TRUE
        BY <1>3, <2>1 DEF Claim, TypeInv
    <3>2. "returned" \in Places /\ "ALREADY_EXISTS" \in Codes /\ TRUE \in BOOLEAN
        BY DEF Places, Codes
    <3> QED BY <3>1, <3>2, FlagStep DEF At, Opened
  <2>2. CASE ~ call_active
      BY <1>3, <2>2, FlagStep DEF Claim, At, Places, Opened, Codes
  <2> QED BY <2>1, <2>2
<1>4. CASE Begin(h)
  <2>1. PICK place \in {"release", "wait"}, code \in {"INVALID_ARGUMENT", "none"} :
            Flag(h, place, code, call_active)
      BY <1>4 DEF Begin
  <2>2. place \in Places /\ code \in Codes /\ call_active \in BOOLEAN
      BY <2>1 DEF Places, Opened, Codes, TypeInv
  <2> QED BY <1>4, <2>1, <2>2, FlagStep DEF Begin, At, Opened
<1>5. CASE Join(h)
  <2>1. Flag(h, "release", "OK", call_active) /\ At(h, "join")
      BY <1>5 DEF Join
  <2>2. "release" \in Places /\ "OK" \in Codes /\ call_active \in BOOLEAN
      BY DEF Places, Opened, Codes, TypeInv
  <2> QED BY <2>1, <2>2, FlagStep DEF At, Opened
<1>6. CASE Release(h)
  <2>1. Flag(h, "touch", rpc[h].code, FALSE) /\ At(h, "release")
      BY <1>6 DEF Release, ReleasedValue
  <2>2. "touch" \in Places /\ rpc[h].code \in Codes
      BY DEF Places, Opened, TypeInv, RpcType
  <2> QED BY <2>1, <2>2, FlagStep DEF At
<1>7. CASE Swap(h)
    BY <1>7, SwapStep, PlaceStep DEF Places, Opened
<1>8. CASE LoopEnd(h)
  <2>1. PICK place \in {"join", "wait"} : rpc' = [rpc EXCEPT ![h].pc = place]
      BY <1>8, LoopStep
  <2>2. place \in Places
      BY <2>1 DEF Places, Opened
  <2> QED BY <1>8, <2>1, <2>2, LoopStep, PlaceStep DEF Opened
<1>9. CASE Write(h) \/ Emit(h)
    BY <1>9, WriteStep, EmitStep DEF TypeInv
<1>10. CASE ClientCancels(h) \/ RunReturns(h) \/ RunThrows(h)
    BY <1>10 DEF ClientCancels, RunReturns, RunThrows, Running, TypeInv
<1> QED BY <1>1, <1>2, <1>3, <1>4, <1>5, <1>6, <1>7, <1>8, <1>9, <1>10
        DEF StepOf, Handler, Aside

-----------------------------------------------------------------------------
(* call_active_ and the server.                                            *)

\* The compare-and-exchange lets a handler in only if none is there, and the
\* ActiveGuard goes with the handler that holds it.
LEMMA NextClaim ==
    ASSUME ServiceInv, [Next]_vars
    PROVE  ClaimInv' /\ ServerInv'
<1> USE DEF ServiceInv
<1>0. TypeInv'
    BY NextTypes
<1>1. ASSUME NEW h \in Rpcs, StepOf(h) PROVE ClaimInv' /\ ServerInv'
  <2>1. \A g \in Rpcs : g # h => rpc'[g] = rpc[g]
      BY <1>1, Apart
  <2>2. Alive /\ wd' = wd /\ server' \in {server, "terminated"}
    <3>1. Alive
        BY <1>1, PathOf
    <3>2. CASE Aside(h) \/ TouchStore(h)
        BY <3>1, <3>2, AsideStep, StoreStep DEF mainVars
    <3>3. CASE RunThrows(h)
        BY <3>1, <3>3 DEF RunThrows
    <3>4. CASE Claim(h) \/ Begin(h) \/ Join(h) \/ Release(h) \/ Swap(h) \/ Write(h)
               \/ LoopEnd(h)
        BY <3>1, <3>4 DEF Claim, Begin, Join, Release, Swap, Write, LoopEnd, Flag, mainVars
    <3>5. CASE ClientCancels(h) \/ Emit(h) \/ RunReturns(h)
        BY <3>1, <3>5 DEF ClientCancels, Emit, RunReturns, mainVars
    <3> QED BY <1>1, <3>2, <3>3, <3>4, <3>5 DEF StepOf, Handler, Aside
  <2>3. ServerInv'
      BY <2>2 DEF ServerInv, Alive
  <2>4. CASE rpc[h].pc = "claim" /\ ~ call_active /\ rpc'[h].pc = "validate"
             /\ call_active' = TRUE
      BY <2>1, <2>3, <2>4 DEF ClaimInv, Opened
  <2>5. CASE rpc[h].pc = "release" /\ rpc'[h].pc = "touch" /\ call_active' = FALSE
    <3>1. \A g \in Rpcs : rpc'[g].pc \notin Opened
        BY <2>1, <2>5 DEF ClaimInv, Opened
    <3> QED BY <2>3, <3>1, <2>5 DEF ClaimInv
  <2>6. CASE (rpc'[h].pc \in Opened <=> rpc[h].pc \in Opened) /\ call_active' = call_active
    <3>1. \A g \in Rpcs : rpc'[g].pc \in Opened <=> rpc[g].pc \in Opened
        BY <2>1, <2>6
    <3> QED BY <2>3, <3>1, <2>6 DEF ClaimInv
  <2> QED BY <1>1, <2>3, <2>4, <2>5, <2>6, PathOf
<1>2. CASE Elsewhere
  <2>1. ClaimInv'
      BY <1>2, ElsewhereStep DEF ClaimInv
  <2>2. rpc' = rpc
      BY <1>2, ElsewhereStep
  <2>3. CASE Listen
      BY <2>1, <2>2, <2>3 DEF Listen, ServerInv, WdAt
  <2>4. CASE Watch
    <3>1. wd'.pc # "start" /\ wd.pc # "start" /\ server' = server
        BY <2>4 DEF Watch, WdAt, TypeInv, WdType
    <3> QED BY <2>1, <2>2, <3>1 DEF ServerInv
  <2>5. CASE Stop
      BY <2>1, <2>2, <2>5 DEF Stop, ServerInv, WdAt
  <2>6. CASE Tick \/ UNCHANGED vars
      BY <2>1, <2>2, <2>6 DEF Tick, vars, mainVars, ServerInv
  <2> QED BY <1>2, <2>1, <2>3, <2>4, <2>5, <2>6 DEF Elsewhere, MainThread
<1> QED BY <1>1, <1>2, Steps

-----------------------------------------------------------------------------
(* Places, codes and ends of a call.                                       *)

\* A call that has returned is refused nothing and owns nothing: the locals go
\* with the handler, the executor before the ActiveGuard.
LEMMA NextPlace ==
    ASSUME ServiceInv, NEW h \in Rpcs, StepOf(h)
    PROVE  PlaceInv(h)'
<1>a. TypeInv /\ TimesInv /\ PlaceInv(h) /\ EndInv(h)
    BY DEF ServiceInv
<1>b. rpc[h] \in RpcType /\ call[h] \in CallType /\ run[h] \in RunType
      /\ rpc'[h] \in RpcType
    BY <1>a, PathOf DEF TypeInv
<1> USE DEF serviceVars, callVars, mainVars
<1>c. ASSUME rpc[h].pc \notin Opened, rpc'[h].pc \notin Opened, UNCHANGED callVars,
             rpc'[h].kind # "none",
             rpc'[h].pc = "claim" => rpc'[h].kind \in {"ExecuteCall", "Invalid"},
             rpc'[h].pc \in {"idle", "state", "busy", "count"} => rpc'[h].kind = "Health",
             rpc'[h].pc \in {"none", "claim"} => rpc'[h].code = "none"
      PROVE  PlaceInv(h)'
  <2>1. call[h] = NoCall /\ run[h] = NoRun
      BY <1>a, <1>c DEF PlaceInv
  <2>2. call'[h] = NoCall /\ run'[h] = NoRun /\ NoRun.outcome = "none"
      BY <1>c, <2>1 DEF NoRun
  <2> QED BY <1>c, <2>2 DEF PlaceInv, Opened, Working
<1>1. CASE Aside(h)
  <2>1. /\ rpc[h].pc \notin Opened /\ rpc'[h].pc \notin Opened \cup {"claim", "none"}
        /\ rpc'[h].pc \in {"idle", "state", "busy", "count"} => rpc'[h].kind = "Health"
        /\ rpc'[h].kind # "none" /\ UNCHANGED callVars
      BY <1>a, <1>1, AsideStep
  <2> QED BY <1>c, <2>1
<1>2. CASE TouchStore(h)
  <2>1. /\ rpc[h].pc = "store" /\ rpc'[h].kind = rpc[h].kind
        /\ rpc'[h].pc \in {"state", "returned", "claim"}
        /\ rpc'[h].pc = "state" => rpc[h].kind = "Health"
        /\ rpc'[h].pc = "claim" =>
                 rpc[h].kind \notin {"Health", "StreamAudio"} /\ rpc[h].code = "none"
        /\ rpc'[h].code = rpc[h].code \/ rpc[h].kind = "StreamAudio"
        /\ UNCHANGED callVars
      BY <1>a, <1>2, StoreStep
  <2>2. rpc[h].kind # "none"
      BY <1>a, <2>1 DEF PlaceInv
  <2> QED BY <1>b, <1>c, <2>1, <2>2 DEF RpcType, RpcKind, Opened
<1>3. CASE Claim(h)
  <2>0. rpc[h].pc = "claim" /\ UNCHANGED callVars
      BY <1>3 DEF Claim, At
  <2>1. rpc[h].kind \in {"ExecuteCall", "Invalid"} /\ call[h] = NoCall /\ run[h] = NoRun
      BY <1>a, <2>0 DEF PlaceInv, Opened
  <2>2. CASE call_active
    <3>1. Flag(h, "returned", "ALREADY_EXISTS", TRUE)
        BY <1>3, <2>2 DEF Claim
    <3>2. rpc'[h].pc = "returned" /\ rpc'[h].kind = rpc[h].kind
        BY <1>a, <3>1, FlagStep DEF Places, Codes
    <3> QED BY <1>c, <2>0, <2>1, <3>2 DEF Opened
  <2>3. CASE ~ call_active
    <3>1. Flag(h, "validate", "none", TRUE)
        BY <1>3, <2>3 DEF Claim
    <3>2. rpc'[h].pc = "validate" /\ rpc'[h].kind = rpc[h].kind /\ rpc'[h].code = "none"
        BY <1>a, <3>1, FlagStep DEF Places, Opened, Codes
    <3>3. call'[h] = NoCall /\ run'[h] = NoRun
        BY <2>0, <2>1
    <3>4. Untouched(h)'
        BY <3>3 DEF Untouched, NoCall
    <3>5. run'[h].outcome = "none"
        BY <3>3 DEF NoRun
    <3> QED BY <2>1, <3>2, <3>4, <3>5 DEF PlaceInv, Opened, Working
  <2> QED BY <2>2, <2>3
<1>4. CASE Begin(h)
  <2>0. rpc[h].pc = "validate" /\ call' = call
      BY <1>4 DEF Begin, At
  <2>1. rpc[h].kind \in {"ExecuteCall", "Invalid"} /\ Untouched(h) /\ call_active \in BOOLEAN
      BY <1>a, <2>0 DEF PlaceInv, Opened, TypeInv
  <2>2. CASE rpc[h].kind = "Invalid"
    <3>1. Flag(h, "release", "INVALID_ARGUMENT", call_active) /\ run' = run
        BY <1>4, <2>2 DEF Begin
    <3>2. rpc'[h].pc = "release" /\ rpc'[h].kind = rpc[h].kind
          /\ rpc'[h].code = "INVALID_ARGUMENT"
        BY <1>a, <2>1, <3>1, FlagStep DEF Places, Opened, Codes
    <3>3. Untouched(h)'
        BY <2>0, <2>1, <3>1 DEF Untouched
    <3>4. run'[h].outcome = "none"
        BY <3>3 DEF Untouched, NoRun
    <3> QED BY <2>1, <3>2, <3>3, <3>4 DEF PlaceInv, Opened, Working
  <2>3. CASE rpc[h].kind # "Invalid"
    <3>1. Flag(h, "wait", "none", call_active) /\ run' = [run EXCEPT ![h].outcome = "open"]
        BY <1>4, <2>3 DEF Begin
    <3>2. rpc'[h].pc = "wait" /\ rpc'[h].kind = rpc[h].kind /\ rpc'[h].code = "none"
        BY <1>a, <2>1, <3>1, FlagStep DEF Places, Opened, Codes
    <3>3. run'[h].outcome = "open"
        BY <1>a, <1>b, <3>1 DEF TypeInv, RunType
    <3> QED BY <2>1, <3>2, <3>3 DEF PlaceInv, Opened, Working
  <2> QED BY <2>2, <2>3
<1>5. CASE Join(h)
  <2>1. /\ rpc[h].pc = "join" /\ Flag(h, "release", "OK", call_active)
        /\ run' = [run EXCEPT ![h].outcome = "destroyed"]
      BY <1>5 DEF Join, At
  <2>2. rpc[h].kind \in {"ExecuteCall", "Invalid"} /\ call_active \in BOOLEAN
      BY <1>a, <2>1 DEF PlaceInv, Opened, TypeInv
  <2>3. rpc'[h].pc = "release" /\ rpc'[h].kind = rpc[h].kind /\ rpc'[h].code = "OK"
      BY <1>a, <2>1, <2>2, FlagStep DEF Places, Opened, Codes
  <2>4. run'[h].outcome = "destroyed"
      BY <1>a, <1>b, <2>1 DEF TypeInv, RunType
  <2> QED BY <2>2, <2>3, <2>4 DEF PlaceInv, Opened, Working
<1>6. CASE Release(h)
  <2>1. /\ rpc[h].pc = "release" /\ Flag(h, "touch", rpc[h].code, FALSE)
        /\ call' = [call EXCEPT ![h] = NoCall] /\ run' = [run EXCEPT ![h] = NoRun]
      BY <1>6 DEF Release, At, ReleasedValue
  <2>2. rpc[h].kind \in {"ExecuteCall", "Invalid"} /\ rpc[h].code \in Codes
      BY <1>a, <1>b, <2>1 DEF PlaceInv, Opened, RpcType
  <2>3. rpc'[h].pc = "touch" /\ rpc'[h].kind = rpc[h].kind
      BY <1>a, <2>1, <2>2, FlagStep DEF Places
  <2>4. call'[h] = NoCall /\ run'[h] = NoRun /\ NoRun.outcome = "none"
      BY <1>a, <2>1 DEF TypeInv, NoRun
  <2> QED BY <2>2, <2>3, <2>4 DEF PlaceInv, Opened, Working
<1>7. CASE Swap(h) \/ LoopEnd(h)
  <2>1. PICK place \in Working : rpc' = [rpc EXCEPT ![h].pc = place]
      BY <1>a, <1>7, SwapStep, LoopStep DEF Working
  <2>2. rpc[h].pc \in Working
      BY <1>a, <1>7, SwapStep, LoopStep DEF Working
  <2>3. place \in Places
      BY <2>1 DEF Places, Opened, Working
  <2>4. rpc'[h].pc = place /\ rpc'[h].kind = rpc[h].kind /\ rpc'[h].code = rpc[h].code
      BY <1>a, <2>1, <2>3, PlaceStep
  <2>5. run'[h].outcome = run[h].outcome
    <3>1. CASE Swap(h)
        BY <1>a, <3>1, SwapStep
    <3>2. CASE LoopEnd(h)
        BY <1>a, <1>b, <3>2, LoopStep DEF RunType
    <3> QED BY <1>7, <3>1, <3>2
  <2>6. /\ rpc[h].kind \in {"ExecuteCall", "Invalid"} /\ rpc[h].code = "none"
        /\ run[h].outcome \in {"open", "returned"}
      BY <1>a, <2>2 DEF PlaceInv, Opened, Working
  <2> QED BY <2>1, <2>4, <2>5, <2>6 DEF PlaceInv, Opened, Working
<1>8. ASSUME rpc[h].pc \in Working, rpc' = rpc, run'[h].outcome \in {"open", "returned"}
      PROVE  PlaceInv(h)'
  <2>1. /\ rpc[h].kind \in {"ExecuteCall", "Invalid"} /\ rpc[h].code = "none"
      BY <1>a, <1>8 DEF PlaceInv, Opened, Working
  <2> QED BY <1>8, <2>1 DEF PlaceInv, Opened, Working
<1>9. CASE Write(h)
  <2>1. rpc[h].pc = "write" /\ rpc' = rpc /\ run' = run
      BY <1>a, <1>9, WriteStep
  <2>2. run[h].outcome \in {"open", "returned"}
      BY <1>a, <2>1 DEF PlaceInv, Working
  <2> QED BY <1>8, <2>1, <2>2 DEF Working
<1>10. CASE Emit(h)
  <2>1. rpc' = rpc /\ run[h].outcome = "open" /\ run'[h].outcome = "open"
      BY <1>a, <1>b, <1>10, EmitStep DEF RunType
  <2>2. rpc[h].pc \in Working
      BY <1>a, <2>1 DEF PlaceInv
  <2> QED BY <1>8, <2>1, <2>2
<1>11. CASE RunReturns(h)
  <2>1. rpc' = rpc /\ run[h].outcome = "open" /\ run'[h].outcome = "returned"
      BY <1>a, <1>b, <1>11 DEF RunReturns, Running, TypeInv, RunType
  <2>2. rpc[h].pc \in Working
      BY <1>a, <2>1 DEF PlaceInv
  <2> QED BY <1>8, <2>1, <2>2
<1>12. CASE RunThrows(h)
    BY <1>a, <1>12 DEF RunThrows, PlaceInv, Untouched
<1>13. CASE ClientCancels(h)
  <2>1. /\ rpc[h].pc \in {"validate", "wait", "write", "join"} /\ rpc' = rpc /\ run' = run
        /\ call' = [call EXCEPT ![h].is_cancelled = TRUE]
      BY <1>13 DEF ClientCancels
  <2>2. CASE rpc[h].pc = "validate"
    <3>1. Untouched(h) /\ rpc[h].kind \in {"ExecuteCall", "Invalid"} /\ rpc[h].code = "none"
        BY <1>a, <2>2 DEF PlaceInv, Opened
    <3>2. call'[h] = [call[h] EXCEPT !.is_cancelled = TRUE] /\ run'[h] = NoRun
        BY <1>a, <2>1, <3>1 DEF TypeInv, Untouched
    <3>3. Untouched(h)'
        BY <3>1, <3>2 DEF Untouched, NoCall
    <3>4. run'[h].outcome = "none"
        BY <3>2 DEF NoRun
    <3> QED BY <2>1, <2>2, <3>1, <3>3, <3>4 DEF PlaceInv, Opened, Working
  <2>3. CASE rpc[h].pc # "validate"
    <3>1. rpc[h].pc \in Working
        BY <2>1, <2>3 DEF Working
    <3>2. run[h].outcome \in {"open", "returned"}
        BY <1>a, <3>1 DEF PlaceInv
    <3> QED BY <1>8, <2>1, <3>1, <3>2
  <2> QED BY <2>2, <2>3
<1> QED BY <1>1, <1>2, <1>3, <1>4, <1>5, <1>6, <1>7, <1>9, <1>10, <1>11, <1>12, <1>13
        DEF StepOf, Handler, Aside

\* done is what run()'s end makes of it, finished is settled with the last batch
\* and never taken back, and a run ends complete or because the client left.
LEMMA NextEnd ==
    ASSUME ServiceInv, NEW h \in Rpcs, StepOf(h)
    PROVE  EndInv(h)'
<1>a. TypeInv /\ TimesInv /\ PlaceInv(h) /\ EndInv(h)
    BY DEF ServiceInv
<1>b. rpc[h] \in RpcType /\ call[h] \in CallType /\ run[h] \in RunType
      /\ rpc'[h] \in RpcType
    BY <1>a, PathOf DEF TypeInv
<1> USE DEF serviceVars, callVars, mainVars
<1>1. CASE Aside(h) \/ TouchStore(h)
  <2>1. rpc'[h].pc \notin {"wait", "join", "release"} /\ UNCHANGED callVars
      BY <1>a, <1>1, AsideStep, StoreStep DEF Opened
  <2> QED BY <1>a, <2>1 DEF EndInv
<1>2. CASE Claim(h)
  <2>1. PICK place \in {"returned", "validate"}, code \in Codes :
            Flag(h, place, code, TRUE) /\ UNCHANGED callVars
      BY <1>2 DEF Claim, Codes
  <2>2. rpc'[h].pc = place
      BY <1>a, <2>1, FlagStep DEF Places, Opened
  <2> QED BY <1>a, <2>1, <2>2 DEF EndInv
<1>3. CASE Begin(h)
  <2>0. rpc[h].pc = "validate" /\ call' = call
      BY <1>3 DEF Begin, At
  <2>1. Untouched(h) /\ call_active \in BOOLEAN
      BY <1>a, <2>0 DEF PlaceInv, TypeInv
  <2>2. /\ ~ call[h].done /\ ~ call[h].finished /\ ~ run[h].asked
        /\ call[h].batch = <<>> /\ call[h].queue = <<>>
      BY <2>1 DEF Untouched, NoCall, NoRun
  <2>3. CASE rpc[h].kind = "Invalid"
    <3>1. Flag(h, "release", "INVALID_ARGUMENT", call_active) /\ run' = run
        BY <1>3, <2>3 DEF Begin
    <3>2. rpc'[h].pc = "release"
        BY <1>a, <2>1, <3>1, FlagStep DEF Places, Opened, Codes
    <3> QED BY <1>a, <2>0, <2>2, <3>1, <3>2 DEF EndInv
  <2>4. CASE rpc[h].kind # "Invalid"
    <3>1. Flag(h, "wait", "none", call_active) /\ run' = [run EXCEPT ![h].outcome = "open"]
        BY <1>3, <2>4 DEF Begin
    <3>2. rpc'[h].pc = "wait"
        BY <1>a, <2>1, <3>1, FlagStep DEF Places, Opened, Codes
    <3>3. run'[h].outcome = "open" /\ run'[h].asked = run[h].asked
        BY <1>a, <1>b, <3>1 DEF TypeInv, RunType
    <3> QED BY <1>a, <2>0, <2>2, <3>2, <3>3 DEF EndInv
  <2> QED BY <2>3, <2>4
<1>4. CASE Swap(h)
  <2>1. rpc'[h].pc = "write"
      BY <1>a, <1>4, SwapStep, PlaceStep DEF Places, Opened
  <2>2. /\ call'[h] = [call[h] EXCEPT !.batch = call[h].queue, !.queue = <<>>,
                                      !.finished = Finished(h)]
        /\ run' = run
      BY <1>a, <1>4, SwapStep
  <2>3. /\ call'[h].queue = <<>> /\ call'[h].finished = Finished(h)
        /\ call'[h].done = call[h].done /\ call'[h].cancel_sent = call[h].cancel_sent
        /\ call'[h].is_cancelled = call[h].is_cancelled
      BY <1>b, <2>2 DEF CallType
  <2> QED BY <1>a, <2>1, <2>2, <2>3 DEF EndInv, Finished
<1>5. CASE Write(h)
  <2> DEFINE started == StartedAt(Head(call[h].batch), call[h].started_at)
             msg == toProtoEvent(Head(call[h].batch), started)
  <2>0. /\ rpc[h].pc = "write" /\ rpc' = rpc /\ run' = run
        /\ call'[h] = [call[h] EXCEPT
                           !.batch = Tail(call[h].batch), !.started_at = started,
                           !.written = Append(call[h].written, msg)]
      BY <1>a, <1>5, WriteStep
  <2> HIDE DEF started, msg
  <2>1. /\ call'[h].queue = call[h].queue /\ call'[h].finished = call[h].finished
        /\ call'[h].done = call[h].done /\ call'[h].cancel_sent = call[h].cancel_sent
        /\ call'[h].is_cancelled = call[h].is_cancelled
      BY <1>b, <2>0 DEF CallType
  <2> QED BY <1>a, <2>0, <2>1 DEF EndInv
<1>6. CASE LoopEnd(h)
  <2>0. call[h].batch = <<>>
      BY <1>a, <1>6, LoopStep
  <2>1. CASE call[h].finished
    <3>1. rpc'[h].pc = "join" /\ UNCHANGED <<call, run>>
        BY <1>a, <1>6, <2>1, LoopStep, PlaceStep DEF Places, Opened
    <3> QED BY <1>a, <2>0, <2>1, <3>1 DEF EndInv
  <2>2. CASE ~ call[h].finished
    <3>1. rpc' = [rpc EXCEPT ![h].pc = "wait"]
          /\ \E sent, asked \in BOOLEAN :
                       /\ sent = (call[h].cancel_sent \/ Cancels(h))
                       /\ asked = (run[h].asked \/ Cancels(h))
                       /\ call'[h] = [call[h] EXCEPT !.cancel_sent = sent]
                       /\ run'[h] = [run[h] EXCEPT !.asked = asked]
        BY <1>a, <1>6, <2>2, LoopStep
    <3>2. PICK sent, asked \in BOOLEAN :
                       /\ sent = (call[h].cancel_sent \/ Cancels(h))
                       /\ asked = (run[h].asked \/ Cancels(h))
                       /\ call'[h] = [call[h] EXCEPT !.cancel_sent = sent]
                       /\ run'[h] = [run[h] EXCEPT !.asked = asked]
        BY <3>1
    <3>3. rpc'[h].pc = "wait"
        BY <1>a, <3>1, PlaceStep DEF Places, Opened
    <3>4. /\ call'[h].queue = call[h].queue /\ call'[h].finished = call[h].finished
          /\ call'[h].done = call[h].done /\ call'[h].cancel_sent = sent
          /\ call'[h].is_cancelled = call[h].is_cancelled /\ call'[h].batch = call[h].batch
        BY <1>b, <3>2 DEF CallType
    <3>5. run'[h].asked = asked /\ run'[h].outcome = run[h].outcome
          /\ run'[h].emitted = run[h].emitted
        BY <1>b, <3>2 DEF RunType
    <3> QED BY <1>a, <2>0, <2>2, <3>2, <3>3, <3>4, <3>5 DEF EndInv, Cancels
  <2> QED BY <2>1, <2>2
<1>7. CASE Join(h)
  <2>1. /\ rpc[h].pc = "join" /\ call[h].done /\ Flag(h, "release", "OK", call_active)
        /\ run' = [run EXCEPT ![h].outcome = "destroyed"] /\ call' = call
      BY <1>7 DEF Join, At
  <2>2. rpc'[h].pc = "release"
      BY <1>a, <2>1, FlagStep DEF Places, Opened, Codes, TypeInv
  <2>3. run'[h].outcome = "destroyed" /\ run'[h].asked = run[h].asked
        /\ run'[h].emitted = run[h].emitted
      BY <1>a, <1>b, <2>1 DEF TypeInv, RunType
  <2> QED BY <1>a, <2>1, <2>2, <2>3 DEF EndInv
<1>8. CASE Release(h)
  <2>1. /\ Flag(h, "touch", rpc[h].code, FALSE)
        /\ call' = [call EXCEPT ![h] = NoCall] /\ run' = [run EXCEPT ![h] = NoRun]
      BY <1>8 DEF Release, ReleasedValue
  <2>2. rpc'[h].pc = "touch"
      BY <1>a, <1>b, <2>1, FlagStep DEF Places, RpcType
  <2>3. call'[h] = NoCall /\ run'[h] = NoRun
      BY <1>a, <2>1 DEF TypeInv
  <2> QED BY <2>2, <2>3 DEF EndInv, NoCall, NoRun
<1>9. CASE ClientCancels(h)
  <2>1. rpc' = rpc /\ run' = run /\ call'[h] = [call[h] EXCEPT !.is_cancelled = TRUE]
      BY <1>a, <1>9 DEF ClientCancels, TypeInv
  <2>2. /\ call'[h].queue = call[h].queue /\ call'[h].finished = call[h].finished
        /\ call'[h].done = call[h].done /\ call'[h].cancel_sent = call[h].cancel_sent
        /\ call'[h].is_cancelled /\ call'[h].batch = call[h].batch
      BY <1>b, <2>1 DEF CallType
  <2> QED BY <1>a, <2>1, <2>2 DEF EndInv
<1>10. CASE Emit(h)
  <2>1. PICK ev \in AgentEvent :
            /\ run'[h] = [run[h] EXCEPT !.emitted = Append(run[h].emitted, ev)]
            /\ call'[h] = [call[h] EXCEPT !.queue = Append(call[h].queue, ev)]
            /\ run[h].outcome = "open" /\ rpc' = rpc
      BY <1>a, <1>10, EmitStep
  <2>2. rpc[h].pc \in Working /\ ~ call[h].done
      BY <1>a, <2>1 DEF PlaceInv, EndInv
  <2>3. rpc[h].pc \notin {"join", "release"}
      BY <1>a, <2>2 DEF EndInv, Working
  <2>4. /\ call'[h].finished = call[h].finished
        /\ call'[h].done = call[h].done /\ call'[h].cancel_sent = call[h].cancel_sent
        /\ call'[h].is_cancelled = call[h].is_cancelled /\ call'[h].batch = call[h].batch
      BY <1>b, <2>1 DEF CallType
  <2>5. run'[h].asked = run[h].asked /\ run'[h].outcome = run[h].outcome
      BY <1>b, <2>1 DEF RunType
  <2> QED BY <1>a, <2>1, <2>2, <2>3, <2>4, <2>5 DEF EndInv
<1>11. CASE RunReturns(h)
  <2>1. /\ run[h].outcome = "open" /\ rpc' = rpc
        /\ Stream!Complete(Items(run[h].emitted)) \/ run[h].asked
        /\ run'[h] = [run[h] EXCEPT !.outcome = "returned"]
        /\ call'[h] = [call[h] EXCEPT !.done = TRUE]
      BY <1>a, <1>11 DEF RunReturns, Running, TypeInv
  <2>2. /\ call'[h].queue = call[h].queue /\ call'[h].finished = call[h].finished
        /\ call'[h].done = TRUE /\ call'[h].cancel_sent = call[h].cancel_sent
        /\ call'[h].is_cancelled = call[h].is_cancelled /\ call'[h].batch = call[h].batch
      BY <1>b, <2>1 DEF CallType
  <2>3. run'[h].asked = run[h].asked /\ run'[h].outcome = "returned"
        /\ run'[h].emitted = run[h].emitted
      BY <1>b, <2>1 DEF RunType
  <2> QED BY <1>a, <2>1, <2>2, <2>3 DEF EndInv
<1>12. CASE RunThrows(h)
    BY <1>a, <1>12 DEF RunThrows, EndInv
<1> QED BY <1>1, <1>2, <1>3, <1>4, <1>5, <1>6, <1>7, <1>8, <1>9, <1>10, <1>11, <1>12
        DEF StepOf, Handler, Aside

-----------------------------------------------------------------------------
(* What the executor emits, and how it reaches the wire.                   *)

\* The items of a legal stream.
LegalItems ==
    EarlyItems \cup RecorderItems \cup {Stream!State("ANSWERED")}
        \cup {Stream!Final(s) : s \in {"ANSWERED", "BUSY", "NO_ANSWER", "FAILED"}}

\* A stream enters the early states, and ANSWERED, from an early state only, and
\* the states with a recorder from each other or by PLAYING.
LEMMA AfterItem ==
    ASSUME NEW item, NEW next \in Stream!After(item)
    PROVE  /\ next \in LegalItems
           /\ next \in EarlyItems \cup {Stream!State("ANSWERED")} => item \in EarlyItems
           /\ next \in RecorderItems => next = Stream!State("PLAYING") \/ item \in RecorderItems
<1> USE DEF EarlyItems, RecorderItems, LegalItems, Stream!State, Stream!Final
<1>1. CASE item = Stream!State("REGISTERING")
    BY <1>1 DEF Stream!After
<1>2. CASE item = Stream!State("REGISTERED")
    BY <1>2 DEF Stream!After
<1>3. CASE item \in {Stream!State("DIALING"), Stream!State("RINGING")}
    BY <1>3 DEF Stream!After
<1>4. CASE item = Stream!State("ANSWERED")
    BY <1>4 DEF Stream!After
<1>5. CASE item = Stream!State("PLAYING")
    BY <1>5 DEF Stream!After
<1>6. CASE item = Stream!State("PLAYED")
    BY <1>6 DEF Stream!After
<1>7. CASE item = Stream!State("SILENCE_DETECTED")
    BY <1>7 DEF Stream!After
<1>8. CASE item = Stream!State("HANGING_UP")
    BY <1>8 DEF Stream!After
<1>9. CASE item = Stream!State("RECORDING_READY")
    BY <1>9 DEF Stream!After
<1> QED BY <1>1, <1>2, <1>3, <1>4, <1>5, <1>6, <1>7, <1>8, <1>9 DEF Stream!After

\* Every item of a legal stream is one of LegalItems.
LEMMA LegalStream ==
    ASSUME NEW s \in Seq(Stream!Item), Stream!Legal(s), NEW i \in 1 .. Len(s)
    PROVE  s[i] \in LegalItems
<1>1. CASE i = 1
  <2>1. s[1] = Stream!State("REGISTERING")
      BY <1>1 DEF Stream!Legal
  <2> QED BY <1>1, <2>1 DEF LegalItems, EarlyItems
<1>2. CASE i > 1
  <2>1. i - 1 \in 1 .. (Len(s) - 1) /\ (i - 1) + 1 = i
      BY <1>2
  <2>2. s[(i - 1) + 1] \in Stream!After(s[i - 1])
      BY <2>1 DEF Stream!Legal
  <2> QED BY <2>1, <2>2, AfterItem
<1> QED BY <1>1, <1>2

\* What a stream has so far, and one item more that a script goes on with: still
\* legal, and not back to an early state.
LEMMA GrowLegal ==
    ASSUME NEW sent \in Seq(Stream!Item), Stream!Legal(sent), NEW item \in NextItems(sent),
           \A i, j \in 1 .. Len(sent) :
              i < j /\ sent[j] \in EarlyItems \cup {Stream!State("ANSWERED")} =>
                  sent[i] \in EarlyItems
    PROVE  LET more == Append(sent, item)
           IN  /\ Stream!Legal(more)
               /\ \A i, j \in 1 .. Len(more) :
                     i < j /\ more[j] \in EarlyItems \cup {Stream!State("ANSWERED")} =>
                         more[i] \in EarlyItems
               /\ item \in RecorderItems =>
                     item = Stream!State("PLAYING") \/
                     \E i \in 1 .. Len(sent) : sent[i] \in RecorderItems
<1> DEFINE more == Append(sent, item)
           n == Len(sent)
<1>1. PICK s \in Scripts :
               /\ s \in Seq(Stream!Item) /\ Stream!Legal(s)
               /\ n < Len(s) /\ item = s[n + 1] /\ item \in Stream!Item
               /\ \A i \in 1 .. n : s[i] = sent[i]
    BY NextItem
<1>2. /\ more \in Seq(Stream!Item) /\ Len(more) = n + 1 /\ more[n + 1] = item
      /\ \A i \in 1 .. n : more[i] = sent[i]
    BY <1>1, AppendProperties
<1>3. n \in Nat /\ Len(s) \in Nat
    BY <1>1
<1> HIDE DEF more, n
<1>4. n = 0 => item = Stream!State("REGISTERING")
    BY <1>1, <1>3 DEF Stream!Legal
<1>5. n > 0 => item \in Stream!After(sent[n])
  <2> HAVE n > 0
  <2>1. n \in 1 .. (Len(s) - 1) /\ n \in 1 .. n
      BY <1>1, <1>3
  <2>2. s[n + 1] \in Stream!After(s[n])
      BY <1>1, <2>1 DEF Stream!Legal
  <2> QED BY <1>1, <2>1, <2>2
<1>6. Stream!Legal(more)
  <2>1. more[1] = Stream!State("REGISTERING")
    <3>1. CASE n = 0
        BY <1>2, <1>4, <3>1
    <3>2. CASE n > 0
        BY <1>2, <1>3, <3>2 DEF Stream!Legal, n
    <3> QED BY <1>3, <3>1, <3>2
  <2>2. ASSUME NEW i \in 1 .. (Len(more) - 1) PROVE more[i + 1] \in Stream!After(more[i])
    <3>1. CASE i = n
        BY <1>2, <1>3, <1>5, <3>1
    <3>2. CASE i # n
      <4>1. i \in 1 .. n /\ i + 1 \in 1 .. n /\ i \in 1 .. (n - 1)
          BY <1>2, <1>3, <3>2
      <4>2. sent[i + 1] \in Stream!After(sent[i])
          BY <4>1 DEF Stream!Legal, n
      <4> QED BY <1>2, <4>1, <4>2
    <3> QED BY <3>1, <3>2
  <2> QED BY <2>1, <2>2 DEF Stream!Legal
<1>7. ASSUME NEW i \in 1 .. Len(more), NEW j \in 1 .. Len(more), i < j,
             more[j] \in EarlyItems \cup {Stream!State("ANSWERED")}
      PROVE  more[i] \in EarlyItems
  <2>1. i \in 1 .. n
      BY <1>2, <1>3, <1>7
  <2>2. CASE j # n + 1
      BY <1>2, <1>3, <1>7, <2>1, <2>2 DEF n
  <2>3. CASE j = n + 1
    <3>1. sent[n] \in EarlyItems /\ n \in 1 .. n
        BY <1>2, <1>3, <1>5, <1>7, <2>1, <2>3, AfterItem
    <3> QED BY <1>2, <1>3, <2>1, <3>1 DEF n
  <2> QED BY <2>2, <2>3
<1>8. ASSUME item \in RecorderItems
      PROVE  item = Stream!State("PLAYING") \/ \E i \in 1 .. n : sent[i] \in RecorderItems
  <2>1. Stream!State("REGISTERING") \notin RecorderItems
      BY DEF RecorderItems, Stream!State
  <2>2. n \in 1 .. n /\ item \in Stream!After(sent[n])
      BY <1>3, <1>4, <1>5, <1>8, <2>1
  <2> QED BY <1>8, <2>2, AfterItem
<1> QED BY <1>6, <1>7, <1>8 DEF more, n

\* run() emits a legal stream, and from its PLAYING on the recording's file is
\* its own: nobody else is running.
LEMMA NextEmitted ==
    ASSUME ServiceInv, [Next]_vars, NEW g \in Rpcs
    PROVE  EmittedInv(g)'
<1>a. TypeInv /\ TimesInv /\ ClaimInv /\ PlaceInv(g) /\ EndInv(g) /\ EmittedInv(g)
      /\ \A h \in Rpcs : PlaceInv(h) /\ EndInv(h)
    BY DEF ServiceInv
<1> USE DEF serviceVars, callVars, mainVars
<1>1. ASSUME run'[g].emitted = run[g].emitted, recording' = recording
      PROVE  EmittedInv(g)'
    BY <1>a, <1>1 DEF EmittedInv
<1>2. ASSUME run'[g] = NoRun PROVE EmittedInv(g)'
  <2>1. Items(<<>>) = <<>>
      BY DEF Items
  <2> QED BY <1>2, <2>1 DEF EmittedInv, NoRun, Stream!Legal
<1>3. CASE Elsewhere
    BY <1>1, <1>3, <1>a, ElsewhereStep
<1>4. ASSUME NEW h \in Rpcs, Emit(h) PROVE EmittedInv(g)'
  <2>1. PICK ev \in AgentEvent :
            /\ [status |-> ev.status, final |-> result_event(ev)]
                   \in NextItems(Items(run[h].emitted))
            /\ run'[h] = [run[h] EXCEPT !.emitted = Append(run[h].emitted, ev)]
            /\ recording' = IF ev.status = "PLAYING" THEN h ELSE recording
            /\ run[h].outcome = "open"
      BY <1>a, <1>4, EmitStep
  <2>2. rpc[h].pc \in Opened
      BY <1>a, <2>1 DEF PlaceInv, Opened, Working
  <2>3. CASE g # h
    <3>1. run[g] = NoRun
        BY <1>a, <2>2, <2>3 DEF ClaimInv, PlaceInv
    <3>2. run'[g] = run[g]
        BY <1>a, <1>4, <2>3, Apart DEF StepOf
    <3> QED BY <1>2, <3>1, <3>2
  <2>4. CASE g = h
    <3> DEFINE sent == Items(run[g].emitted)
               item == [status |-> ev.status, final |-> result_event(ev)]
               more == Append(sent, item)
    <3>1. run[g].emitted \in Seq(AgentEvent)
        BY <1>a DEF TypeInv, RunType
    <3>2. sent \in Seq(Stream!Item) /\ Len(sent) = Len(run[g].emitted)
          /\ DOMAIN sent = 1 .. Len(sent)
        BY <3>1, ItemsOf
    <3>3. run'[g].emitted = Append(run[g].emitted, ev)
        BY <1>a, <2>1, <2>4 DEF TypeInv, RunType
    <3>4. Items(run'[g].emitted) = more
        BY <3>1, <3>3, ItemsAppend
    <3>5. item \in NextItems(sent)
        BY <2>1, <2>4
    <3>6. item \in Stream!Item
        BY SameWords DEF AgentEvent, result_event
    <3>7. /\ more \in Seq(Stream!Item) /\ Len(more) = Len(sent) + 1
          /\ DOMAIN more = 1 .. Len(more) /\ more[Len(sent) + 1] = item
          /\ \A i \in 1 .. Len(sent) : more[i] = sent[i]
        BY <3>2, <3>6, AppendProperties
    <3>8. /\ Stream!Legal(sent)
          /\ \A i, j \in 1 .. Len(sent) :
              i < j /\ sent[j] \in EarlyItems \cup {Stream!State("ANSWERED")} =>
                  sent[i] \in EarlyItems
          /\ \A i \in 1 .. Len(sent) : sent[i] \in RecorderItems => recording = g
        BY <1>a, <3>2 DEF EmittedInv
    <3>9. item = Stream!State("PLAYING") => ev.status = "PLAYING"
      <4>1. item.status = ev.status /\ Stream!State("PLAYING").status = "PLAYING"
          BY DEF Stream!State
      <4> QED BY <4>1
    <3> HIDE DEF sent, item
    <3>10. /\ Stream!Legal(more)
           /\ \A i, j \in 1 .. Len(more) :
                     i < j /\ more[j] \in EarlyItems \cup {Stream!State("ANSWERED")} =>
                         more[i] \in EarlyItems
           /\ item \in RecorderItems =>
                     item = Stream!State("PLAYING") \/
                     \E i \in 1 .. Len(sent) : sent[i] \in RecorderItems
        BY <3>2, <3>5, <3>8, GrowLegal
    <3>11. \A i \in 1 .. Len(more) : more[i] \in RecorderItems => recording' = g
      <4> TAKE i \in 1 .. Len(more)
      <4> HAVE more[i] \in RecorderItems
      <4>1. CASE \E k \in 1 .. Len(sent) : sent[k] \in RecorderItems
          BY <2>1, <2>4, <3>8, <4>1
      <4>2. CASE ~ \E k \in 1 .. Len(sent) : sent[k] \in RecorderItems
        <5>1. item \in RecorderItems
            BY <3>2, <3>7, <4>2
        <5> QED BY <2>1, <2>4, <3>9, <3>10, <4>2, <5>1
      <4> QED BY <4>1, <4>2
    <3> HIDE DEF more
    <3> QED BY <3>4, <3>7, <3>10, <3>11 DEF EmittedInv
  <2> QED BY <2>3, <2>4
<1>5. ASSUME NEW h \in Rpcs, StepOf(h), ~ Emit(h) PROVE EmittedInv(g)'
  <2>1. recording' = recording
    <3>1. CASE Aside(h) \/ TouchStore(h) \/ Write(h) \/ LoopEnd(h)
        BY <1>a, <3>1, AsideStep, StoreStep, WriteStep, LoopStep
    <3>2. CASE Claim(h) \/ Begin(h) \/ Join(h) \/ Release(h) \/ Swap(h)
               \/ ClientCancels(h) \/ RunReturns(h) \/ RunThrows(h)
        BY <3>2 DEF Claim, Begin, Join, Release, Swap, ClientCancels, RunReturns, RunThrows
    <3> QED BY <1>5, <3>1, <3>2 DEF StepOf, Handler, Aside
  <2>2. CASE g # h
      BY <1>a, <1>1, <1>5, <2>1, <2>2, Apart
  <2>3. CASE g = h
    <3>0. run \in [Rpcs -> RunType] /\ run[g] \in RunType
        BY <1>a DEF TypeInv
    <3>1. CASE Release(h)
        BY <1>2, <2>3, <3>0, <3>1 DEF Release
    <3>2. CASE Begin(h) \/ Join(h) \/ RunReturns(h)
      <4>1. run'[g].emitted = run[g].emitted
          BY <2>3, <3>0, <3>2 DEF Begin, Join, RunReturns, RunType
      <4> QED BY <1>1, <2>1, <4>1
    <3>3. CASE LoopEnd(h)
      <4>1. run'[g].emitted = run[g].emitted
          BY <1>a, <2>3, <3>3, LoopStep
      <4> QED BY <1>1, <2>1, <4>1
    <3>4. CASE Aside(h) \/ TouchStore(h) \/ Write(h)
        BY <1>a, <1>1, <2>1, <3>4, AsideStep, StoreStep, WriteStep
    <3>5. CASE Claim(h) \/ Swap(h) \/ ClientCancels(h) \/ RunThrows(h)
        BY <1>1, <2>1, <3>5 DEF Claim, Swap, ClientCancels, RunThrows
    <3> QED BY <1>5, <3>1, <3>2, <3>3, <3>4, <3>5 DEF StepOf, Handler, Aside
  <2> QED BY <2>2, <2>3
<1> QED BY <1>3, <1>4, <1>5, Steps

\* What is left of a sequence after its first k elements is b and then q.
LeftIs(e, k, b, q) == k <= Len(e) /\ SubSeq(e, k + 1, Len(e)) = b \o q

\* The head of what is not yet written is the next event, and its tail what is
\* left after that.
LEMMA DropHead ==
    ASSUME NEW e \in Seq(AgentEvent), NEW b \in Seq(AgentEvent),
           NEW q \in Seq(AgentEvent), NEW k \in Nat, LeftIs(e, k, b, q), b # <<>>
    PROVE  k + 1 <= Len(e) /\ e[k + 1] = Head(b) /\ LeftIs(e, k + 1, Tail(b), q)
<1>0. k <= Len(e) /\ SubSeq(e, k + 1, Len(e)) = b \o q
    BY DEF LeftIs
<1> DEFINE r == SubSeq(e, k + 1, Len(e))
<1>1. Len(b) \in Nat /\ Len(b) > 0 /\ Head(b) = b[1] /\ Len(q) \in Nat /\ Len(e) \in Nat
    BY EmptySeq
<1>2. r \in Seq(AgentEvent) /\ Len(r) = Len(e) - k /\ \A i \in 1 .. Len(r) : r[i] = e[k + i]
  <2>1. \A i \in (k + 1) .. Len(e) : e[i] \in AgentEvent
      BY ElementOfSeq
  <2> QED BY <1>0, <1>1, <2>1, SubSeqProperties
<1>3. b \o q \in Seq(AgentEvent) /\ Len(b \o q) = Len(b) + Len(q) /\ (b \o q)[1] = b[1]
    BY <1>1
<1>4. k + 1 <= Len(e) /\ e[k + 1] = Head(b)
    BY <1>0, <1>1, <1>2, <1>3
<1> DEFINE t == SubSeq(e, (k + 1) + 1, Len(e))
<1>5. t \in Seq(AgentEvent) /\ Len(t) = Len(e) - (k + 1) /\ \A i \in 1 .. Len(t) : t[i] = e[(k + 1) + i]
  <2>1. \A i \in ((k + 1) + 1) .. Len(e) : e[i] \in AgentEvent
      BY ElementOfSeq
  <2> QED BY <1>1, <1>4, <2>1, SubSeqProperties
<1>6. Tail(b) \in Seq(AgentEvent) /\ Len(Tail(b)) = Len(b) - 1
      /\ \A i \in 1 .. Len(Tail(b)) : Tail(b)[i] = b[i + 1]
    BY <1>1, HeadTailProperties
<1>7. Tail(b) \o q \in Seq(AgentEvent) /\ Len(Tail(b) \o q) = Len(t)
    BY <1>0, <1>1, <1>2, <1>3, <1>5, <1>6
<1>8. ASSUME NEW i \in 1 .. Len(t) PROVE t[i] = (Tail(b) \o q)[i]
  <2>1. i + 1 \in 1 .. Len(r) /\ t[i] = r[i + 1]
    <3> HIDE DEF r, t
    <3>1. i \in Nat /\ i + 1 \in 1 .. Len(r) /\ (k + 1) + i = k + (i + 1)
        BY <1>1, <1>2, <1>4, <1>5
    <3>2. t[i] = e[(k + 1) + i] /\ r[i + 1] = e[k + (i + 1)]
        BY <1>2, <1>5, <3>1
    <3> QED BY <3>1, <3>2
  <2>2. r[i + 1] = (b \o q)[i + 1]
      BY <1>0
  <2>3. (b \o q)[i + 1] = (Tail(b) \o q)[i]
      BY <1>1, <1>2, <1>3, <1>5, <1>6, <1>7, <2>1
  <2> QED BY <2>1, <2>2, <2>3
<1>9. t = Tail(b) \o q
    BY <1>5, <1>7, <1>8, SeqEqual
<1> QED BY <1>4, <1>9 DEF LeftIs

\* When nothing is left, all has been written.
LEMMA NothingLeft ==
    ASSUME NEW e \in Seq(AgentEvent), NEW k \in Nat, LeftIs(e, k, <<>>, <<>>)
    PROVE  k = Len(e)
<1> DEFINE r == SubSeq(e, k + 1, Len(e))
<1>1. k <= Len(e) /\ r = <<>> \o <<>> /\ Len(e) \in Nat
    BY DEF LeftIs
<1>2. \A i \in (k + 1) .. Len(e) : e[i] \in AgentEvent
    BY ElementOfSeq
<1>3. Len(r) = IF k + 1 <= Len(e) THEN Len(e) - (k + 1) + 1 ELSE 0
    BY <1>1, <1>2, SubSeqProperties
<1> HIDE DEF r
<1>4. Len(r) = 0
  <2>1. <<>> \o <<>> = <<>>
      OBVIOUS
  <2>2. r = <<>>
      BY <1>1, <2>1
  <2> QED BY <2>2
<1> QED BY <1>1, <1>3, <1>4

\* One more event emitted is one more at the end of what is not yet written.
LEMMA AddLast ==
    ASSUME NEW S, NEW e \in Seq(S), NEW b \in Seq(S), NEW q \in Seq(S), NEW k \in Nat,
           NEW ev \in S, k <= Len(e), SubSeq(e, k + 1, Len(e)) = b \o q
    PROVE  SubSeq(Append(e, ev), k + 1, Len(e) + 1) = b \o Append(q, ev)
<1> DEFINE r == SubSeq(e, k + 1, Len(e))
           f == Append(e, ev)
           t == SubSeq(f, k + 1, Len(e) + 1)
           u == b \o Append(q, ev)
<1>1. Len(b) \in Nat /\ Len(q) \in Nat /\ Len(e) \in Nat
    OBVIOUS
<1>2. r \in Seq(S) /\ Len(r) = Len(e) - k /\ \A i \in 1 .. Len(r) : r[i] = e[k + i]
  <2>1. \A i \in (k + 1) .. Len(e) : e[i] \in S
      BY ElementOfSeq
  <2> QED BY <1>1, <2>1, SubSeqProperties
<1>3. b \o q \in Seq(S) /\ Len(b \o q) = Len(b) + Len(q)
      /\ \A i \in 1 .. Len(b) + Len(q) :
            (b \o q)[i] = IF i <= Len(b) THEN b[i] ELSE q[i - Len(b)]
    BY <1>1
<1>4. f \in Seq(S) /\ Len(f) = Len(e) + 1 /\ f[Len(e) + 1] = ev
      /\ \A i \in 1 .. Len(e) : f[i] = e[i]
    BY AppendProperties
<1>5. Append(q, ev) \in Seq(S) /\ Len(Append(q, ev)) = Len(q) + 1
      /\ Append(q, ev)[Len(q) + 1] = ev
      /\ \A i \in 1 .. Len(q) : Append(q, ev)[i] = q[i]
    BY AppendProperties
<1>6. u \in Seq(S) /\ Len(u) = Len(b) + Len(q) + 1
      /\ \A i \in 1 .. Len(b) + Len(q) + 1 :
            u[i] = IF i <= Len(b) THEN b[i] ELSE Append(q, ev)[i - Len(b)]
    BY <1>1, <1>5
<1>7. t \in Seq(S) /\ Len(t) = Len(e) + 1 - k /\ \A i \in 1 .. Len(t) : t[i] = f[k + i]
  <2>1. \A i \in (k + 1) .. (Len(e) + 1) : f[i] \in S
      BY <1>4, ElementOfSeq
  <2> HIDE DEF f
  <2>2. k + 1 \in 1 .. Len(f) + 1 /\ Len(e) + 1 \in ((k + 1) - 1) .. Len(f)
      BY <1>1, <1>4
  <2>3. Len(t) = (Len(e) + 1) - (k + 1) + 1
      BY <1>4, <2>2, SubSeqProperties
  <2>4. t \in Seq(S) /\ \A i \in 1 .. Len(t) : t[i] = f[(k + 1) + i - 1]
      BY <1>4, <2>2, <2>3, SubSeqProperties
  <2> HIDE DEF t
  <2>5. \A i \in 1 .. Len(t) : (k + 1) + i - 1 = k + i
      BY <1>1
  <2>6. Len(t) = Len(e) + 1 - k
      BY <1>1, <2>3
  <2> QED BY <2>4, <2>5, <2>6
<1>8. Len(b) + Len(q) = Len(e) - k
    BY <1>2, <1>3
<1>9. ASSUME NEW i \in 1 .. Len(t) PROVE t[i] = u[i]
  <2>1. CASE i = Len(t)
    <3>1. t[i] = ev
        BY <1>1, <1>4, <1>7, <2>1
    <3>2. i = Len(b) + (Len(q) + 1) /\ ~ (i <= Len(b)) /\ i - Len(b) = Len(q) + 1
        BY <1>1, <1>7, <1>8, <2>1
    <3>3. u[i] = Append(q, ev)[i - Len(b)]
        BY <1>1, <1>6, <3>2
    <3> QED BY <1>5, <3>1, <3>2, <3>3
  <2>2. CASE i # Len(t)
    <3>1. i \in 1 .. Len(r) /\ k + i \in 1 .. Len(e) /\ i \in 1 .. Len(b) + Len(q)
        BY <1>1, <1>2, <1>7, <1>8, <2>2
    <3>2. t[i] = e[k + i] /\ r[i] = e[k + i] /\ r[i] = (b \o q)[i]
        BY <1>2, <1>4, <1>7, <3>1
    <3>3. (b \o q)[i] = u[i]
      <4>1. CASE i <= Len(b)
          BY <1>1, <1>3, <1>6, <3>1, <4>1
      <4>2. CASE ~ (i <= Len(b))
        <5>1. i - Len(b) \in 1 .. Len(q)
            BY <1>1, <3>1, <4>2
        <5>2. (b \o q)[i] = q[i - Len(b)]
            BY <1>3, <3>1, <4>2
        <5>3. u[i] = Append(q, ev)[i - Len(b)]
          <6>1. i \in 1 .. Len(b) + Len(q) + 1
              BY <1>1, <3>1
          <6> QED BY <1>6, <4>2, <6>1
        <5> QED BY <1>5, <5>1, <5>2, <5>3
      <4> QED BY <4>1, <4>2
    <3> QED BY <3>2, <3>3
  <2> QED BY <2>1, <2>2
<1>10. Len(t) = Len(u)
  <2> HIDE DEF t, u
  <2> QED BY <1>1, <1>6, <1>7, <1>8
<1>11. t = u
    BY <1>6, <1>7, <1>9, <1>10, SeqEqual
<1> QED BY <1>11

\* A Write with the start it may set: the start is set with the ANSWERED state
\* and only then.
LEMMA StartedWith ==
    ASSUME NEW ev \in AgentEvent, NEW started
    PROVE  StartedAt(ev, started) =
               IF [status |-> ev.status, final |-> result_event(ev)] = Stream!State("ANSWERED")
               THEN now ELSE started
<1>1. ev.is_result \in BOOLEAN
    BY DEF AgentEvent
<1>2. ev.status = "ANSWERED" => (result_event(ev) <=> ev.is_result)
    BY DEF result_event, AlwaysResult
<1>3. [status |-> ev.status, final |-> result_event(ev)] = Stream!State("ANSWERED")
        <=> ev.status = "ANSWERED" /\ ~ result_event(ev)
  <2>1. result_event(ev) \in BOOLEAN
      BY <1>1 DEF result_event
  <2> QED BY <2>1 DEF Stream!State
<1> QED BY <1>2, <1>3 DEF StartedAt

\* Nothing is lost between push_back and Write: neither by the swap, nor when
\* the executor pushes while a batch is being written.
LEMMA NextWire ==
    ASSUME ServiceInv, NEW h \in Rpcs, StepOf(h)
    PROVE  WireInv(h)' /\ StartInv(h)'
<1>a. /\ TypeInv /\ TimesInv /\ PlaceInv(h) /\ EndInv(h) /\ EmittedInv(h) /\ WireInv(h)
      /\ StartInv(h) /\ now \in Nat
    BY DEF ServiceInv, TypeInv
<1>b. /\ call[h] \in CallType /\ run[h] \in RunType
      /\ run[h].emitted \in Seq(AgentEvent) /\ call[h].written \in Seq(Messages)
      /\ call[h].batch \in Seq(AgentEvent) /\ call[h].queue \in Seq(AgentEvent)
    BY <1>a DEF TypeInv, CallType, RunType
<1>n. now' = now
  <2> USE DEF serviceVars, callVars, mainVars
  <2>1. CASE Aside(h) \/ TouchStore(h) \/ Write(h) \/ LoopEnd(h)
      BY <1>a, <2>1, AsideStep, StoreStep, WriteStep, LoopStep
  <2>2. CASE Claim(h) \/ Begin(h) \/ Join(h) \/ Release(h) \/ Swap(h)
      BY <2>2 DEF Claim, Begin, Join, Release, Swap, Flag
  <2>3. CASE ClientCancels(h) \/ RunReturns(h) \/ RunThrows(h) \/ Emit(h)
      BY <2>3 DEF ClientCancels, RunReturns, RunThrows, Emit
  <2> QED BY <2>1, <2>2, <2>3 DEF StepOf, Handler, Aside
<1>c. ASSUME run'[h].emitted = run[h].emitted, call'[h].written = call[h].written,
             call'[h].batch \o call'[h].queue = call[h].batch \o call[h].queue,
             call'[h].started_at = call[h].started_at
      PROVE  WireInv(h)' /\ StartInv(h)'
  <2>1. WireInv(h)'
      BY <1>a, <1>c, <1>n DEF WireInv
  <2>2. StartInv(h)'
      BY <1>a, <1>c DEF StartInv
  <2> QED BY <2>1, <2>2
<1> USE DEF serviceVars, callVars, mainVars
<1>1. CASE Aside(h) \/ TouchStore(h)
    BY <1>a, <1>c, <1>1, AsideStep, StoreStep
<1>2. CASE Claim(h) \/ RunThrows(h)
    BY <1>c, <1>2 DEF Claim, RunThrows
<1>3. CASE Begin(h) \/ Join(h)
  <2>1. run'[h].emitted = run[h].emitted /\ call' = call
      BY <1>a, <1>b, <1>3 DEF Begin, Join, TypeInv, RunType
  <2> QED BY <1>c, <2>1
<1>4. CASE RunReturns(h) \/ ClientCancels(h)
  <2>1. run'[h].emitted = run[h].emitted
      BY <1>a, <1>b, <1>4 DEF RunReturns, ClientCancels, TypeInv, RunType
  <2>2. /\ call'[h].written = call[h].written /\ call'[h].batch = call[h].batch
        /\ call'[h].queue = call[h].queue /\ call'[h].started_at = call[h].started_at
      BY <1>a, <1>b, <1>4 DEF RunReturns, ClientCancels, TypeInv, CallType
  <2> QED BY <1>c, <2>1, <2>2
<1>5. CASE LoopEnd(h)
    BY <1>a, <1>c, <1>5, LoopStep
<1>6. CASE Swap(h)
  <2>1. /\ rpc[h].pc = "wait" /\ run' = run
        /\ call'[h] = [call[h] EXCEPT !.batch = call[h].queue, !.queue = <<>>,
                                      !.finished = Finished(h)]
      BY <1>a, <1>6, SwapStep
  <2>2. /\ call'[h].written = call[h].written /\ call'[h].batch = call[h].queue
        /\ call'[h].queue = <<>> /\ call'[h].started_at = call[h].started_at
      BY <1>b, <2>1 DEF CallType
  <2>3. call[h].batch = <<>>
      BY <1>a, <2>1 DEF EndInv
  <2>4. call[h].queue \o <<>> = <<>> \o call[h].queue
      BY <1>b
  <2> QED BY <1>c, <2>1, <2>2, <2>3, <2>4
<1>7. CASE Release(h)
  <2>1. call'[h] = NoCall /\ run'[h] = NoRun
      BY <1>a, <1>7 DEF Release, TypeInv
  <2>2. WireInv(h)'
      BY <2>1 DEF WireInv, NoCall, NoRun
  <2>3. StartInv(h)'
      BY <2>1 DEF StartInv, NoCall, NoRun
  <2> QED BY <2>2, <2>3
<1>8. CASE Emit(h)
  <2>1. PICK ev \in AgentEvent :
            /\ run'[h] = [run[h] EXCEPT !.emitted = Append(run[h].emitted, ev)]
            /\ call'[h] = [call[h] EXCEPT !.queue = Append(call[h].queue, ev)]
      BY <1>a, <1>8, EmitStep
  <2> DEFINE e == run[h].emitted
             w == call[h].written
             f == Append(e, ev)
  <2>2. /\ call'[h].written = w /\ call'[h].batch = call[h].batch
        /\ call'[h].queue = Append(call[h].queue, ev)
        /\ call'[h].started_at = call[h].started_at /\ run'[h].emitted = f
      BY <1>b, <2>1 DEF CallType, RunType
  <2>3. /\ f \in Seq(AgentEvent) /\ Len(f) = Len(e) + 1
        /\ \A i \in 1 .. Len(e) : f[i] = e[i]
      BY <1>b, AppendProperties
  <2>4. Len(w) \in Nat /\ Len(e) \in Nat /\ Len(w) <= Len(e) /\ DOMAIN w = 1 .. Len(w)
      BY <1>a, <1>b DEF WireInv
  <2>5. SubSeq(f, Len(w) + 1, Len(e) + 1) = call[h].batch \o Append(call[h].queue, ev)
    <3>1. SubSeq(e, Len(w) + 1, Len(e)) = call[h].batch \o call[h].queue
        BY <1>a DEF WireInv
    <3> QED BY <1>b, <2>4, <3>1, AddLast
  <2>6. \A i \in DOMAIN w : \E t \in 0 .. now' : w[i] = toProtoEvent(f[i], t)
    <3>1. \A i \in DOMAIN w : \E t \in 0 .. now : w[i] = toProtoEvent(e[i], t)
        BY <1>a DEF WireInv
    <3>2. \A i \in DOMAIN w : f[i] = e[i]
        BY <2>3, <2>4
    <3> HIDE DEF f, e, w
    <3> QED BY <1>n, <3>1, <3>2
  <2>7. WireInv(h)'
    <3> HIDE DEF f, e, w
    <3>1. Len(w) <= Len(f)
        BY <2>3, <2>4
    <3>2. SubSeq(f, Len(w) + 1, Len(f)) = call[h].batch \o Append(call[h].queue, ev)
        BY <2>3, <2>5
    <3> QED BY <2>2, <2>6, <3>1, <3>2 DEF WireInv
  <2>8. \A i \in DOMAIN w : Items(f)[i] = Items(e)[i]
    <3>1. \A i \in DOMAIN w : i \in 1 .. Len(e) /\ i \in 1 .. Len(f)
        BY <2>3, <2>4
    <3>2. \A i \in 1 .. Len(e) :
              Items(e)[i] = [status |-> e[i].status, final |-> result_event(e[i])]
        BY <1>b, ItemsOf
    <3>3. \A i \in 1 .. Len(f) :
              Items(f)[i] = [status |-> f[i].status, final |-> result_event(f[i])]
        BY <2>3, ItemsOf
    <3> HIDE DEF f, e, w
    <3> QED BY <2>3, <3>1, <3>2, <3>3
  <2>9. StartInv(h)'
    <3> HIDE DEF f
    <3> QED BY <1>a, <2>2, <2>8 DEF StartInv
  <2> QED BY <2>7, <2>9
<1>9. CASE Write(h)
  <2> DEFINE ev == Head(call[h].batch)
             started == StartedAt(ev, call[h].started_at)
             msg == toProtoEvent(ev, started)
             e == run[h].emitted
             w == call[h].written
             x == Append(w, msg)
             k == Len(w)
  <2>1. /\ ev \in AgentEvent /\ started \in Nat /\ started <= now /\ run' = run
        /\ call[h].batch # <<>>
        /\ call'[h] = [call[h] EXCEPT
                           !.batch = Tail(call[h].batch), !.started_at = started,
                           !.written = x]
      BY <1>a, <1>9, WriteStep
  <2>s. started = IF [status |-> ev.status, final |-> result_event(ev)]
                         = Stream!State("ANSWERED")
                  THEN now ELSE call[h].started_at
      BY <2>1, StartedWith
  <2>m. msg \in Messages
      BY <2>1 DEF Messages
  <2> HIDE DEF ev, started
  <2>2. /\ call'[h].written = x /\ call'[h].batch = Tail(call[h].batch)
        /\ call'[h].queue = call[h].queue /\ call'[h].started_at = started
        /\ run'[h].emitted = e
      BY <1>b, <2>1 DEF CallType
  <2>3. k \in Nat /\ Len(e) \in Nat /\ k <= Len(e) /\ DOMAIN w = 1 .. k
      BY <1>a, <1>b DEF WireInv
  <2>4. /\ k + 1 <= Len(e) /\ e[k + 1] = ev
        /\ SubSeq(e, (k + 1) + 1, Len(e)) = Tail(call[h].batch) \o call[h].queue
    <3> DEFINE b == call[h].batch
               q == call[h].queue
    <3>1. LeftIs(e, k, b, q)
        BY <1>a DEF WireInv, LeftIs
    <3>2. e \in Seq(AgentEvent) /\ b \in Seq(AgentEvent) /\ q \in Seq(AgentEvent) /\ b # <<>>
          /\ ev = Head(b)
        BY <1>b, <2>1 DEF ev
    <3> HIDE DEF e, k, b, q
    <3>3. k + 1 <= Len(e) /\ e[k + 1] = Head(b) /\ LeftIs(e, k + 1, Tail(b), q)
        BY <2>3, <3>1, <3>2, DropHead
    <3> QED BY <3>2, <3>3 DEF b, q, LeftIs
  <2>5. /\ x \in Seq(Messages) /\ Len(x) = k + 1 /\ x[k + 1] = msg
        /\ DOMAIN x = 1 .. (k + 1) /\ \A i \in 1 .. k : x[i] = w[i]
      BY <1>b, <2>m, AppendProperties
  <2>6. ASSUME NEW i \in DOMAIN x PROVE \E t \in 0 .. now' : x[i] = toProtoEvent(e[i], t)
    <3>1. CASE i = k + 1
      <4>1. started \in 0 .. now' /\ x[i] = toProtoEvent(e[i], started)
          BY <1>a, <1>n, <2>1, <2>4, <2>5, <3>1
      <4> QED BY <4>1
    <3>2. CASE i # k + 1
      <4>1. i \in DOMAIN w /\ x[i] = w[i]
          BY <2>3, <2>5, <3>2
      <4>2. \E t \in 0 .. now : w[i] = toProtoEvent(e[i], t)
          BY <1>a, <4>1 DEF WireInv
      <4> HIDE DEF x
      <4> QED BY <1>n, <4>1, <4>2
    <3> QED BY <3>1, <3>2
  <2> HIDE DEF x, msg, k
  <2>7. WireInv(h)'
    <3> HIDE DEF e, w
    <3> QED BY <2>2, <2>3, <2>4, <2>5, <2>6 DEF WireInv
  <2>8. Items(e)[k + 1] = [status |-> ev.status, final |-> result_event(ev)]
    <3>1. k + 1 \in 1 .. Len(e)
        BY <2>3, <2>4
    <3> QED BY <1>b, <2>4, <3>1, ItemsOf
  <2>9. StartInv(h)'
    <3>1. 1 <= now
        BY <1>a DEF TimesInv, TypeInv
    <3>2. (call[h].started_at # 0) <=>
              \E i \in 1 .. k : Items(e)[i] = Stream!State("ANSWERED")
        BY <1>a, <2>3 DEF StartInv
    <3>3. (started # 0) <=>
              \E i \in 1 .. (k + 1) : Items(e)[i] = Stream!State("ANSWERED")
      <4>1. CASE Items(e)[k + 1] = Stream!State("ANSWERED")
        <5>1. started # 0
            BY <1>a, <2>s, <2>8, <3>1, <4>1
        <5>2. k + 1 \in 1 .. (k + 1)
            BY <2>3
        <5> QED BY <4>1, <5>1, <5>2
      <4>2. CASE Items(e)[k + 1] # Stream!State("ANSWERED")
        <5>1. started = call[h].started_at
            BY <2>s, <2>8, <4>2
        <5>2. \A i \in 1 .. (k + 1) : i # k + 1 => i \in 1 .. k
            BY <2>3
        <5>3. \A i \in 1 .. k : i \in 1 .. (k + 1)
            BY <2>3
        <5> HIDE DEF e
        <5> QED BY <3>2, <4>2, <5>1, <5>2, <5>3
      <4> QED BY <4>1, <4>2
    <3> HIDE DEF e
    <3> QED BY <2>2, <2>5, <3>3 DEF StartInv
  <2> QED BY <2>7, <2>9
<1> QED BY <1>1, <1>2, <1>3, <1>4, <1>5, <1>6, <1>7, <1>8, <1>9
        DEF StepOf, Handler, Aside

\* Every step of every thread keeps the invariant.
LEMMA NextService ==
    ASSUME ServiceInv, [Next]_vars
    PROVE  ServiceInv'
<1>a. TypeInv /\ TimesInv /\ \A h \in Rpcs : PlaceInv(h)
    BY DEF ServiceInv
<1>1. TypeInv' /\ TimesInv'
    BY <1>a, NextTypes
<1>2. ClaimInv' /\ ServerInv'
    BY NextClaim
<1>3. ASSUME NEW g \in Rpcs
      PROVE  PlaceInv(g)' /\ EndInv(g)' /\ EmittedInv(g)' /\ WireInv(g)' /\ StartInv(g)'
  <2>0. PlaceInv(g) /\ EndInv(g) /\ WireInv(g) /\ StartInv(g)
      BY DEF ServiceInv
  <2>1. EmittedInv(g)'
      BY NextEmitted
  <2>2. ASSUME rpc'[g] = rpc[g], call'[g] = call[g], run'[g] = run[g], now <= now'
        PROVE  PlaceInv(g)' /\ EndInv(g)' /\ WireInv(g)' /\ StartInv(g)'
    <3>1. PlaceInv(g)' /\ EndInv(g)' /\ StartInv(g)'
        BY <2>0, <2>2 DEF PlaceInv, EndInv, StartInv, Untouched
    <3>2. \A t \in 0 .. now : t \in 0 .. now'
        BY <1>a, <1>1, <2>2 DEF TypeInv
    <3>3. WireInv(g)'
        BY <2>0, <2>2, <3>2 DEF WireInv
    <3> QED BY <3>1, <3>3
  <2>3. CASE Elsewhere
      BY <1>a, <2>1, <2>2, <2>3, ElsewhereStep
  <2>4. ASSUME NEW h \in Rpcs, StepOf(h)
        PROVE  PlaceInv(g)' /\ EndInv(g)' /\ WireInv(g)' /\ StartInv(g)'
    <3>1. CASE g = h
        BY <2>4, <3>1, NextPlace, NextEnd, NextWire
    <3>2. CASE g # h
      <4>1. rpc'[g] = rpc[g] /\ call'[g] = call[g] /\ run'[g] = run[g] /\ now' = now
          BY <1>a, <2>4, <3>2, Apart
      <4>2. now <= now'
          BY <1>a, <4>1 DEF TypeInv
      <4> QED BY <2>2, <4>1, <4>2
    <3> QED BY <3>1, <3>2
  <2> QED BY <2>1, <2>3, <2>4, Steps
<1> QED BY <1>1, <1>2, <1>3 DEF ServiceInv

\* The atomics, the handlers, the executors and the wire agree in every
\* reachable state.
THEOREM ServiceInvariant == Spec => []ServiceInv
<1>1. ServiceInv /\ [Next]_vars => ServiceInv'
    BY NextService
<1> QED BY <1>1, InitService, PTL DEF Spec

-----------------------------------------------------------------------------
(* The properties.                                                         *)

\* Every variable keeps its C++ type, no time is of the future, done tells that
\* run() is over, and cancel() reaches a run only for a client that left.
THEOREM ServiceTypes == Spec => []TypeOK
<1>1. ServiceInv => TypeOK
  <2> SUFFICES ASSUME ServiceInv PROVE TypeOK
      OBVIOUS
  <2>1. TypeInv /\ TimesInv /\ now \in Nat
      BY DEF ServiceInv, TypeInv
  <2>2. \A t \in Nat \cup {None} : Past(t) => t \in (1 .. now) \cup {None}
      BY <2>1 DEF Past
  <2>3. last_activity \in 1 .. now
      BY <2>1 DEF TypeInv, TimesInv
  <2>4. ASSUME NEW h \in Rpcs
        PROVE  /\ rpc[h].kind \in RpcKind \cup {"none"}
               /\ {rpc[h].clock, rpc[h].last, rpc[h].stamp} \subseteq (1 .. now) \cup {None}
               /\ call[h].started_at \in 0 .. now
               /\ call[h].done <=> run[h].outcome \in {"returned", "destroyed"}
               /\ run[h].asked => call[h].cancel_sent
               /\ call[h].cancel_sent => call[h].is_cancelled
    <3>1. rpc[h] \in RpcType /\ call[h] \in CallType /\ EndInv(h)
        BY <2>1 DEF ServiceInv, TypeInv
    <3>2. /\ rpc[h].kind \in RpcKind \cup {"none"} /\ rpc[h].clock \in Nat \cup {None}
          /\ rpc[h].last \in Nat \cup {None} /\ rpc[h].stamp \in Nat \cup {None}
        BY <3>1 DEF RpcType
    <3>3. Past(rpc[h].clock) /\ Past(rpc[h].last) /\ Past(rpc[h].stamp)
        BY <2>1 DEF TimesInv
    <3>4. call[h].started_at \in 0 .. now
        BY <2>1, <3>1 DEF TimesInv, CallType
    <3> QED BY <2>2, <3>1, <3>2, <3>3, <3>4 DEF EndInv
  <2>5. {wd.clock, wd.last} \subseteq (1 .. now) \cup {None}
      BY <2>1, <2>2 DEF TypeInv, TimesInv, WdType
  <2> QED BY <2>1, <2>3, <2>4, <2>5 DEF TypeOK, TypeInv
<1> QED BY <1>1, ServiceInvariant, PTL

\* However many clients call, at most one executor lives: call_active_ goes up
\* before it is made and comes down after it is destroyed.
THEOREM OnlyOneExecutor == Spec => []OneExecutor
<1>1. ServiceInv => OneExecutor
  <2> SUFFICES ASSUME ServiceInv, NEW g \in Rpcs, NEW h \in Rpcs,
                      run[g].outcome \in {"open", "returned"},
                      run[h].outcome \in {"open", "returned"}
               PROVE  g = h
      BY DEF OneExecutor
  <2>1. rpc[g].pc \in Opened /\ rpc[h].pc \in Opened
      BY DEF ServiceInv, PlaceInv, Working, Opened
  <2> QED BY <2>1 DEF ServiceInv, ClaimInv
<1> QED BY <1>1, ServiceInvariant, PTL

\* Whatever the executor emits and whenever, all of it reaches the wire in its
\* order, and ExecuteCall does not leave its loop before.
THEOREM AllHandedOver == Spec => []HandedOver
<1>1. ServiceInv => HandedOver
  <2> SUFFICES ASSUME ServiceInv, NEW h \in Rpcs
               PROVE  LET w == call[h].written
                          rest == call[h].batch \o call[h].queue
                      IN  /\ SubSeq(run[h].emitted, Len(w) + 1, Len(run[h].emitted)) = rest
                          /\ \A i \in DOMAIN w :
                                \E t \in 0 .. now : w[i] = toProtoEvent(run[h].emitted[i], t)
                          /\ rpc[h].pc \in {"join", "release"} => rest = <<>>
      BY DEF HandedOver
  <2>1. WireInv(h) /\ EndInv(h)
      BY DEF ServiceInv
  <2>2. rpc[h].pc \in {"join", "release"} => call[h].batch \o call[h].queue = <<>>
      BY <2>1 DEF EndInv
  <2> QED BY <2>1, <2>2 DEF WireInv
<1> QED BY <1>1, ServiceInvariant, PTL

\* The message of a legal item: its client decodes the item, only the ANSWERED
\* state is the state ANSWERED on the wire, and only RECORDING_READY announces
\* a recording.
LEMMA MessageOf ==
    ASSUME NEW ev \in AgentEvent, NEW t, NEW item \in LegalItems,
           item = [status |-> ev.status, final |-> result_event(ev)]
    PROVE  /\ Decoded(toProtoEvent(ev, t)) = item
           /\ toProtoEvent(ev, t) = [oneof |-> "state_change", state |-> "ANSWERED"]
                 <=> item = Stream!State("ANSWERED")
           /\ toProtoEvent(ev, t).oneof = "recording_ready" => item \in RecorderItems
<1>0. item.status = ev.status /\ item.final = result_event(ev)
    OBVIOUS
<1>1. CASE item \in {Stream!Final(s) : s \in {"ANSWERED", "BUSY", "NO_ANSWER", "FAILED"}}
  <2>1. result_event(ev) /\ ev.status \in {"ANSWERED", "BUSY", "NO_ANSWER", "FAILED"}
        /\ item = Stream!Final(ev.status)
      BY <1>0, <1>1 DEF Stream!Final
  <2>2. toProtoEvent(ev, t) =
            [oneof |-> "result", status |-> ev.status,
             billing_seconds |-> ev.billing_seconds, sip_code |-> ev.sip_code,
             recording_uri |-> ev.recording, started |-> t]
      BY <2>1 DEF toProtoEvent, toProtoResultStatus
  <2>3. Decoded(toProtoEvent(ev, t)) = Stream!Final(ev.status)
      BY <2>2 DEF Decoded
  <2>4. toProtoEvent(ev, t).oneof = "result"
      BY <2>2
  <2>5. item # Stream!State("ANSWERED")
      BY <2>1 DEF Stream!Final, Stream!State
  <2>6. toProtoEvent(ev, t) # [oneof |-> "state_change", state |-> "ANSWERED"]
      BY <2>4
  <2> QED BY <2>1, <2>3, <2>4, <2>5, <2>6
<1>2. CASE item = Stream!State("SILENCE_DETECTED") \/ item = Stream!State("RECORDING_READY")
  <2>1. ~ result_event(ev) /\ ev.status \in {"SILENCE_DETECTED", "RECORDING_READY"}
        /\ item = Stream!State(ev.status)
      BY <1>0, <1>2 DEF Stream!State
  <2>2. toProtoEvent(ev, t) =
            IF ev.status = "SILENCE_DETECTED"
            THEN [oneof |-> "silence_detected", silence_seconds |-> ev.billing_seconds]
            ELSE [oneof |-> "recording_ready", recording_uri |-> ev.recording,
                  duration_seconds |-> ev.billing_seconds]
      BY <2>1 DEF toProtoEvent
  <2>3. toProtoEvent(ev, t).oneof \in {"silence_detected", "recording_ready"}
        /\ (toProtoEvent(ev, t).oneof = "silence_detected" <=> ev.status = "SILENCE_DETECTED")
      BY <2>1, <2>2
  <2>4. Decoded(toProtoEvent(ev, t)) = item
      BY <2>1, <2>3 DEF Decoded
  <2>5. item # Stream!State("ANSWERED")
      BY <1>2 DEF Stream!State
  <2>6. toProtoEvent(ev, t) # [oneof |-> "state_change", state |-> "ANSWERED"]
      BY <2>3
  <2>7. item \in RecorderItems
      BY <1>2 DEF RecorderItems
  <2> QED BY <2>4, <2>5, <2>6, <2>7
<1>3. CASE \E s \in {"REGISTERING", "REGISTERED", "DIALING", "RINGING", "ANSWERED",
                     "PLAYING", "PLAYED", "HANGING_UP"} : item = Stream!State(s)
  <2>1. /\ ~ result_event(ev) /\ item = Stream!State(ev.status)
        /\ ev.status \in {"REGISTERING", "REGISTERED", "DIALING", "RINGING", "ANSWERED",
                          "PLAYING", "PLAYED", "HANGING_UP"}
      BY <1>0, <1>3 DEF Stream!State
  <2>2. toProtoEvent(ev, t) = [oneof |-> "state_change", state |-> ev.status]
      BY <2>1 DEF toProtoEvent, toProtoState
  <2>3. toProtoEvent(ev, t).oneof = "state_change" /\ toProtoEvent(ev, t).state = ev.status
      BY <2>2
  <2>4. Decoded(toProtoEvent(ev, t)) = item
      BY <2>1, <2>3 DEF Decoded
  <2>5. item = Stream!State("ANSWERED") <=> ev.status = "ANSWERED"
    <3>1. Stream!State("ANSWERED").status = "ANSWERED"
        BY DEF Stream!State
    <3> QED BY <1>0, <2>1, <3>1
  <2> QED BY <2>2, <2>3, <2>4, <2>5
<1>4. \/ item \in {Stream!Final(s) : s \in {"ANSWERED", "BUSY", "NO_ANSWER", "FAILED"}}
      \/ item = Stream!State("SILENCE_DETECTED") \/ item = Stream!State("RECORDING_READY")
      \/ \E s \in {"REGISTERING", "REGISTERED", "DIALING", "RINGING", "ANSWERED",
                   "PLAYING", "PLAYED", "HANGING_UP"} : item = Stream!State(s)
    BY DEF LegalItems, EarlyItems, RecorderItems
<1> QED BY <1>1, <1>2, <1>3, <1>4

\* What has been written decodes to what was emitted.
LEMMA WrittenItems ==
    ASSUME ServiceInv, NEW h \in Rpcs
    PROVE  LET w == call[h].written
               items == Items(run[h].emitted)
           IN  /\ Len(w) \in Nat /\ DOMAIN w = 1 .. Len(w) /\ Len(w) <= Len(items)
               /\ items \in Seq(Stream!Item) /\ DOMAIN items = 1 .. Len(items)
               /\ Len(items) = Len(run[h].emitted) /\ Stream!Legal(items)
               /\ \A i \in 1 .. Len(w) :
                     /\ Decoded(w[i]) = items[i]
                     /\ w[i] = [oneof |-> "state_change", state |-> "ANSWERED"]
                           <=> items[i] = Stream!State("ANSWERED")
                     /\ w[i].oneof = "recording_ready" => items[i] \in RecorderItems
<1> DEFINE e == run[h].emitted
           w == call[h].written
           items == Items(e)
<1>1. e \in Seq(AgentEvent) /\ w \in Seq(Messages)
    BY DEF ServiceInv, TypeInv, RunType, CallType
<1>2. /\ items \in Seq(Stream!Item) /\ Len(items) = Len(e) /\ DOMAIN items = 1 .. Len(e)
      /\ \A i \in 1 .. Len(e) :
            items[i] = [status |-> e[i].status, final |-> result_event(e[i])]
    BY <1>1, ItemsOf
<1>3. Stream!Legal(items)
    BY DEF ServiceInv, EmittedInv
<1>4. /\ Len(w) \in Nat /\ Len(e) \in Nat /\ DOMAIN w = 1 .. Len(w) /\ Len(w) <= Len(e)
      /\ \A i \in DOMAIN w : \E t \in 0 .. now : w[i] = toProtoEvent(e[i], t)
  <2>1. WireInv(h)
      BY DEF ServiceInv
  <2> QED BY <1>1, <2>1 DEF WireInv
<1>5. ASSUME NEW i \in 1 .. Len(w)
      PROVE  /\ Decoded(w[i]) = items[i]
             /\ w[i] = [oneof |-> "state_change", state |-> "ANSWERED"]
                   <=> items[i] = Stream!State("ANSWERED")
             /\ w[i].oneof = "recording_ready" => items[i] \in RecorderItems
  <2>1. i \in 1 .. Len(e) /\ i \in DOMAIN w
      BY <1>4
  <2>2. e[i] \in AgentEvent
      BY <1>1, <2>1, ElementOfSeq
  <2>3. items[i] \in LegalItems
      BY <1>2, <1>3, <2>1, LegalStream
  <2>4. PICK t \in 0 .. now : w[i] = toProtoEvent(e[i], t)
      BY <1>4, <2>1
  <2>5. items[i] = [status |-> e[i].status, final |-> result_event(e[i])]
      BY <1>2, <2>1
  <2> HIDE DEF e, w, items
  <2> QED BY <2>2, <2>3, <2>4, <2>5, MessageOf
<1> HIDE DEF e, items, w
<1>6. /\ Len(w) \in Nat /\ DOMAIN w = 1 .. Len(w) /\ Len(w) <= Len(items)
      /\ items \in Seq(Stream!Item) /\ DOMAIN items = 1 .. Len(items)
      /\ Len(items) = Len(e) /\ Stream!Legal(items)
    BY <1>2, <1>3, <1>4
<1> QED BY <1>5, <1>6 DEF e, items, w

\* No later call opens the file while the call that announced it is there.
THEOREM AnnouncedStaysIntact == Spec => []AnnouncedIsIntact
<1>1. ServiceInv => AnnouncedIsIntact
  <2> SUFFICES ASSUME ServiceInv, NEW h \in Rpcs, NEW i \in DOMAIN call[h].written,
                      call[h].written[i].oneof = "recording_ready"
               PROVE  recording = h
      BY DEF AnnouncedIsIntact
  <2>1. i \in DOMAIN Items(run[h].emitted) /\ Items(run[h].emitted)[i] \in RecorderItems
      BY WrittenItems
  <2> QED BY <2>1 DEF ServiceInv, EmittedInv
<1> QED BY <1>1, ServiceInvariant, PTL

\* started_at is the time of the ANSWERED state: a legal stream has one, and the
\* ANSWERED result leaves it alone.
THEOREM StartedOnce == Spec => StartedWhenAnswered
<1> DEFINE Set == \A h \in Rpcs :
                     (call[h].started_at # 0) <=>
                        \E i \in DOMAIN call[h].written :
                            call[h].written[i] = [oneof |-> "state_change",
                                                  state |-> "ANSWERED"]
           Kept == \A h \in Rpcs :
                     call[h].started_at # 0 /\ run'[h].outcome # "none" =>
                         call'[h].started_at = call[h].started_at
<1>1. ServiceInv => Set
  <2> SUFFICES ASSUME ServiceInv, NEW h \in Rpcs
               PROVE  (call[h].started_at # 0) <=>
                        \E i \in DOMAIN call[h].written :
                            call[h].written[i] = [oneof |-> "state_change",
                                                  state |-> "ANSWERED"]
      OBVIOUS
  <2>1. StartInv(h)
      BY DEF ServiceInv
  <2>2. \A i \in DOMAIN call[h].written :
            call[h].written[i] = [oneof |-> "state_change", state |-> "ANSWERED"]
                <=> Items(run[h].emitted)[i] = Stream!State("ANSWERED")
      BY WrittenItems
  <2> QED BY <2>1, <2>2 DEF StartInv
<1>2. ServiceInv /\ [Next]_vars => [Kept]_vars
  <2> SUFFICES ASSUME ServiceInv, Next, NEW g \in Rpcs,
                      call[g].started_at # 0, run'[g].outcome # "none"
               PROVE  call'[g].started_at = call[g].started_at
      OBVIOUS
  <2>0. TypeInv /\ TimesInv /\ PlaceInv(g) /\ StartInv(g) /\ EmittedInv(g) /\ WireInv(g)
        /\ \A h \in Rpcs : PlaceInv(h)
      BY DEF ServiceInv
  <2>c. call[g] \in CallType
      BY <2>0 DEF TypeInv
  <2> USE DEF serviceVars, callVars, mainVars
  <2>1. CASE Elsewhere
      BY <2>0, <2>1, ElsewhereStep
  <2>2. ASSUME NEW h \in Rpcs, StepOf(h)
        PROVE  call'[g].started_at = call[g].started_at
    <3>1. CASE g # h
        BY <2>0, <2>2, <3>1, Apart
    <3>2. CASE g = h
      <4>1. CASE Aside(g) \/ TouchStore(g)
          BY <2>0, <4>1, AsideStep, StoreStep
      <4>2. CASE Claim(g) \/ Begin(g) \/ Join(g) \/ RunThrows(g)
          BY <4>2 DEF Claim, Begin, Join, RunThrows
      <4>3. CASE RunReturns(g) \/ ClientCancels(g)
          BY <2>0, <2>c, <4>3 DEF RunReturns, ClientCancels, TypeInv, CallType
      <4>4. CASE Swap(g)
          BY <2>0, <2>c, <4>4, SwapStep DEF CallType
      <4>5. CASE LoopEnd(g)
          BY <2>0, <4>5, LoopStep
      <4>6. CASE Emit(g)
        <5>1. PICK ev \in AgentEvent :
                  call'[g] = [call[g] EXCEPT !.queue = Append(call[g].queue, ev)]
            BY <2>0, <4>6, EmitStep
        <5> QED BY <2>c, <5>1 DEF CallType
      <4>7. CASE Release(g)
          BY <2>0, <4>7 DEF Release, TypeInv, NoRun
      <4>8. CASE Write(g)
        <5> DEFINE ev == Head(call[g].batch)
                   started == StartedAt(ev, call[g].started_at)
                   msg == toProtoEvent(ev, started)
                   e == run[g].emitted
                   w == call[g].written
                   k == Len(w)
                   items == Items(e)
        <5>1. /\ ev \in AgentEvent /\ call[g].batch # <<>>
              /\ call'[g] = [call[g] EXCEPT
                                !.batch = Tail(call[g].batch), !.started_at = started,
                                !.written = Append(w, msg)]
            BY <2>0, <4>8, WriteStep
        <5>2. started = IF [status |-> ev.status, final |-> result_event(ev)]
                               = Stream!State("ANSWERED")
                        THEN now ELSE call[g].started_at
            BY <5>1, StartedWith
        <5> HIDE DEF started, msg
        <5>3. call'[g].started_at = started
            BY <2>c, <5>1 DEF CallType
        <5>4. k \in Nat /\ DOMAIN w = 1 .. k /\ k <= Len(e) /\ Len(e) \in Nat
              /\ e \in Seq(AgentEvent)
            BY <2>0 DEF WireInv, TypeInv, CallType, RunType
        <5>5. k + 1 <= Len(e) /\ e[k + 1] = ev
          <6> DEFINE b == call[g].batch
                     q == call[g].queue
          <6>1. LeftIs(e, k, b, q) /\ b \in Seq(AgentEvent) /\ q \in Seq(AgentEvent)
                /\ b # <<>> /\ ev = Head(b)
              BY <2>0, <2>c, <5>1 DEF WireInv, LeftIs, CallType
          <6> HIDE DEF e, k, b, q
          <6> QED BY <5>4, <6>1, DropHead
        <5>6. items[k + 1] = [status |-> ev.status, final |-> result_event(ev)]
              /\ DOMAIN items = 1 .. Len(e)
          <6>1. k + 1 \in 1 .. Len(e)
              BY <5>4, <5>5
          <6> QED BY <5>4, <5>5, <6>1, ItemsOf
        <5>7. PICK i \in 1 .. k : items[i] = Stream!State("ANSWERED")
            BY <2>0, <5>4 DEF StartInv
        <5>8. Stream!State("ANSWERED") \notin EarlyItems
            BY DEF EarlyItems, Stream!State
        <5>9. items[k + 1] # Stream!State("ANSWERED")
          <6>1. i \in DOMAIN items /\ k + 1 \in DOMAIN items /\ i < k + 1
              BY <5>4, <5>5, <5>6
          <6>2. items[k + 1] \in EarlyItems \cup {Stream!State("ANSWERED")} =>
                    items[i] \in EarlyItems
              BY <2>0, <6>1 DEF EmittedInv
          <6> QED BY <5>7, <5>8, <6>2
        <5> QED BY <5>2, <5>3, <5>6, <5>9
      <4> QED BY <2>2, <3>2, <4>1, <4>2, <4>3, <4>4, <4>5, <4>6, <4>7, <4>8
              DEF StepOf, Handler, Aside
    <3> QED BY <3>1, <3>2
  <2> QED BY <2>1, <2>2, Steps
<1> QED BY <1>1, <1>2, ServiceInvariant, PTL DEF Spec, StartedWhenAnswered

-----------------------------------------------------------------------------
(* The service implements the API.                                         *)

\* The API's streams are the executor's.
LEMMA SameStream ==
    /\ \A s : Api!Stream!State(s) = Stream!State(s)
    /\ \A item : Api!Stream!After(item) = Stream!After(item)
    /\ \A s : Api!Stream!Complete(s) = Stream!Complete(s)
<1>1. \A s : Api!Stream!State(s) = Stream!State(s) /\ Api!Stream!Final(s) = Stream!Final(s)
    BY DEF Api!Stream!State, Stream!State, Api!Stream!Final, Stream!Final
<1>2. \A item : Api!Stream!After(item) = Stream!After(item)
    BY <1>1 DEF Api!Stream!After, Stream!After
<1>3. \A s : Api!Stream!Complete(s) = Stream!Complete(s)
    BY DEF Api!Stream!Complete, Stream!Complete
<1> QED BY <1>1, <1>2, <1>3

\* What the clients can see.
Received == [h \in Rpcs |-> ReceivedBy(h)]
CodesSeen == [h \in Rpcs |-> CodeFor(h)]
GoneClients == {h \in Rpcs : call[h].is_cancelled}

\* A step that does not change what one client sees, nor another one, is none of
\* the API's.
LEMMA UnseenStep ==
    ASSUME NEW h \in Rpcs,
           \A g \in Rpcs : g # h => rpc'[g] = rpc[g] /\ call'[g] = call[g],
           ReceivedBy(h)' = ReceivedBy(h), CodeFor(h)' = CodeFor(h),
           rpc'[h].pc \in Opened <=> rpc[h].pc \in Opened,
           call'[h].is_cancelled = call[h].is_cancelled
    PROVE  UNCHANGED <<Received, CodesSeen, OpenCalls, GoneClients>>
<1>1. \A g \in Rpcs : ReceivedBy(g)' = ReceivedBy(g) /\ CodeFor(g)' = CodeFor(g)
  <2> TAKE g \in Rpcs
  <2>1. CASE g # h
      BY <2>1 DEF ReceivedBy, CodeFor, Settled
  <2> QED BY <2>1
<1>2. \A g \in Rpcs : rpc'[g].pc \in Opened <=> rpc[g].pc \in Opened
    OBVIOUS
<1>3. \A g \in Rpcs : call'[g].is_cancelled = call[g].is_cancelled
    OBVIOUS
<1> QED BY <1>1, <1>2, <1>3 DEF Received, CodesSeen, OpenCalls, GoneClients, Opened

\* A call without a written event has nothing to show.
LEMMA NothingReceived ==
    ASSUME NEW h \in Rpcs, call[h].written = <<>>, ~ Settled(h)
    PROVE  ReceivedBy(h) = <<>>
BY DEF ReceivedBy

\* A client whose call goes on has the stream it was written, item by item.
LEMMA StreamReceived ==
    ASSUME ServiceInv, NEW h \in Rpcs, rpc[h].pc \in Opened
    PROVE  LET k == Len(call[h].written)
               items == Items(run[h].emitted)
           IN  /\ ~ Settled(h)
               /\ ReceivedBy(h) = [i \in DOMAIN call[h].written |-> Decoded(call[h].written[i])]
               /\ ReceivedBy(h) \in Seq(Stream!Item) /\ Len(ReceivedBy(h)) = k
               /\ k \in Nat /\ k <= Len(items)
               /\ \A i \in 1 .. k : ReceivedBy(h)[i] = items[i]
<1> DEFINE w == call[h].written
           k == Len(w)
           items == Items(run[h].emitted)
           r == [i \in DOMAIN w |-> Decoded(w[i])]
<1>1. ~ Settled(h)
    BY DEF Settled, Opened
<1>2. ReceivedBy(h) = r
    BY <1>1 DEF ReceivedBy
<1>3. /\ k \in Nat /\ DOMAIN w = 1 .. k /\ k <= Len(items) /\ items \in Seq(Stream!Item)
      /\ \A i \in 1 .. k : Decoded(w[i]) = items[i]
    BY WrittenItems
<1> HIDE DEF items, w, k
<1>4. \A i \in 1 .. k : r[i] = items[i] /\ items[i] \in Stream!Item
  <2> TAKE i \in 1 .. k
  <2>1. i \in 1 .. Len(items)
      BY <1>3
  <2> QED BY <1>3, <2>1, ElementOfSeq
<1>5. r \in [1 .. k -> Stream!Item]
    BY <1>3, <1>4
<1>6. r \in Seq(Stream!Item) /\ Len(r) = k
    BY <1>3, <1>5
<1> HIDE DEF r
<1> QED BY <1>1, <1>2, <1>3, <1>4, <1>6 DEF r, w, k, items

\* A Write of the service is a Send of the API: the next item of a legal stream.
LEMMA WriteSends ==
    ASSUME ServiceInv, NEW h \in Rpcs, Write(h), ServerSeen = "up"
    PROVE  Api!Send(h)
<1>0. TypeInv /\ TimesInv /\ PlaceInv(h) /\ WireInv(h) /\ EmittedInv(h)
    BY DEF ServiceInv
<1> USE DEF serviceVars, callVars, mainVars
<1> DEFINE ev == Head(call[h].batch)
           started == StartedAt(ev, call[h].started_at)
           msg == toProtoEvent(ev, started)
           e == run[h].emitted
           w == call[h].written
           k == Len(w)
           items == Items(e)
           x == Append(w, msg)
           r == ReceivedBy(h)
           item == items[k + 1]
<1>1. /\ ev \in AgentEvent /\ call[h].batch # <<>> /\ rpc[h].pc = "write"
      /\ call'[h] = [call[h] EXCEPT !.batch = Tail(call[h].batch), !.started_at = started,
                                    !.written = x]
      /\ started \in Nat /\ call' = [call EXCEPT ![h] = call'[h]]
      /\ UNCHANGED <<serviceVars, rpc, run, recording, mainVars>>
    BY <1>0, WriteStep
<1>m. msg \in Messages
    BY <1>1 DEF Messages
<1>2. call[h] \in CallType /\ e \in Seq(AgentEvent) /\ w \in Seq(Messages)
    BY <1>0 DEF TypeInv, CallType, RunType
<1> HIDE DEF started
<1>3. call'[h].written = x /\ call'[h].is_cancelled = call[h].is_cancelled
    BY <1>1, <1>2 DEF CallType
<1>4. rpc[h].pc \in Opened
    BY <1>1 DEF Opened
<1>5. /\ ~ Settled(h) /\ r \in Seq(Stream!Item) /\ Len(r) = k /\ k \in Nat
      /\ k <= Len(items) /\ \A i \in 1 .. k : r[i] = items[i]
      /\ r = [i \in DOMAIN w |-> Decoded(w[i])]
    BY <1>4, StreamReceived
<1>6. k + 1 <= Len(e) /\ e[k + 1] = ev
  <2> DEFINE b == call[h].batch
             q == call[h].queue
  <2>1. LeftIs(e, k, b, q) /\ b \in Seq(AgentEvent) /\ q \in Seq(AgentEvent)
        /\ b # <<>> /\ ev = Head(b)
      BY <1>0, <1>1, <1>2 DEF WireInv, LeftIs, CallType
  <2>2. k \in Nat
      BY <1>5
  <2> HIDE DEF e, k, b, q
  <2> QED BY <1>2, <2>1, <2>2, DropHead
<1>7. /\ items \in Seq(Stream!Item) /\ Len(items) = Len(e)
      /\ item = [status |-> ev.status, final |-> result_event(ev)]
      /\ k + 1 \in 1 .. Len(items)
  <2>1. k + 1 \in 1 .. Len(e)
      BY <1>2, <1>5, <1>6
  <2> QED BY <1>2, <1>6, <2>1, ItemsOf
<1>8. Stream!Legal(items)
    BY <1>0 DEF EmittedInv
<1>9. item \in LegalItems /\ item \in Stream!Item
    BY <1>7, <1>8, LegalStream, ElementOfSeq
<1>10. Decoded(msg) = item
    BY <1>1, <1>7, <1>9, MessageOf
<1>11. /\ Len(x) = k + 1 /\ DOMAIN x = 1 .. (k + 1) /\ x[k + 1] = msg
       /\ DOMAIN w = 1 .. k /\ \A i \in 1 .. k : x[i] = w[i]
    BY <1>2, <1>m, AppendProperties
<1> HIDE DEF msg, ev, e, items, item, x
<1>12. ReceivedBy(h)' = Append(r, item)
  <2> DEFINE y == [i \in 1 .. (k + 1) |-> Decoded(x[i])]
             z == Append(r, item)
  <2>1. ReceivedBy(h)' = y
    <3>1. ~ Settled(h)'
        BY <1>1 DEF Settled
    <3> QED BY <1>3, <1>11, <3>1 DEF ReceivedBy, Decoded, Stream!State, Stream!Final
  <2> HIDE DEF r, w, k
  <2>2. z \in Seq(Stream!Item) /\ Len(z) = k + 1 /\ z[k + 1] = item
        /\ \A i \in 1 .. k : z[i] = r[i]
      BY <1>5, <1>9, AppendProperties
  <2>3. \A i \in 1 .. (k + 1) : y[i] = z[i]
    <3> TAKE i \in 1 .. (k + 1)
    <3>1. CASE i = k + 1
        BY <1>10, <1>11, <2>2, <3>1
    <3>2. CASE i # k + 1
      <4>1. i \in 1 .. k /\ i \in DOMAIN w
          BY <1>5, <1>11, <3>2
      <4>2. y[i] = Decoded(w[i]) /\ r[i] = Decoded(w[i])
          BY <1>5, <1>11, <4>1
      <4> QED BY <2>2, <4>1, <4>2
    <3> QED BY <3>1, <3>2
  <2>4. z \in [1 .. (k + 1) -> Stream!Item]
    <3> HIDE DEF z
    <3>1. z \in [1 .. Len(z) -> Stream!Item]
        BY <2>2, LenProperties
    <3> QED BY <2>2, <3>1
  <2>5. y = z
      BY <2>3, <2>4
  <2> QED BY <2>1, <2>5
<1>13. item \in IF r = <<>> THEN {Stream!State("REGISTERING")} ELSE Stream!After(r[Len(r)])
  <2> HIDE DEF r, k
  <2>1. CASE k = 0
    <3>1. items[1] = Stream!State("REGISTERING")
        BY <1>5, <1>7, <1>8, <2>1 DEF Stream!Legal
    <3>2. r = <<>>
        BY <1>5, <2>1, EmptySeq
    <3> QED BY <2>1, <3>1, <3>2 DEF item
  <2>2. CASE k # 0
    <3>1. k \in 1 .. (Len(items) - 1) /\ k \in 1 .. k
        BY <1>5, <1>7, <2>2
    <3>2. items[k + 1] \in Stream!After(items[k])
        BY <1>8, <3>1 DEF Stream!Legal
    <3>3. r # <<>> /\ r[Len(r)] = items[k]
        BY <1>5, <2>2, <3>1
    <3> QED BY <3>2, <3>3 DEF item
  <2> QED BY <2>1, <2>2
<1>14. CodeFor(h)' = CodeFor(h)
    BY <1>1 DEF CodeFor, Settled
<1>15. \A g \in Rpcs : g # h => rpc'[g] = rpc[g] /\ call'[g] = call[g]
    BY <1>0, <1>1 DEF TypeInv
<1>16. \A g \in Rpcs : g # h => ReceivedBy(g)' = ReceivedBy(g) /\ CodeFor(g)' = CodeFor(g)
    BY <1>15 DEF ReceivedBy, CodeFor, Settled
<1>17. Received' = [Received EXCEPT ![h] = Append(@, item)]
  <2> HIDE DEF r
  <2> QED BY <1>12, <1>16 DEF Received, r
<1>18. CodesSeen' = CodesSeen /\ OpenCalls' = OpenCalls /\ GoneClients' = GoneClients
  <2>1. CodesSeen' = CodesSeen
      BY <1>14, <1>16 DEF CodesSeen
  <2>2. OpenCalls' = OpenCalls
      BY <1>1 DEF OpenCalls
  <2>3. GoneClients' = GoneClients
      BY <1>3, <1>15 DEF GoneClients
  <2> QED BY <2>1, <2>2, <2>3
<1>19. ServerSeen' = ServerSeen
    BY <1>1 DEF ServerSeen
<1>20. h \in OpenCalls
    BY <1>4 DEF OpenCalls, Opened
<1>21. Received[h] = r
    BY DEF Received
<1> HIDE DEF r
<1>22. item \in IF Received[h] = <<>> THEN {Api!Stream!State("REGISTERING")}
                ELSE Api!Stream!After(Received[h][Len(Received[h])])
    BY <1>13, <1>21, SameStream
<1> QED BY <1>17, <1>18, <1>19, <1>20, <1>22
        DEF Api!Send, Received, CodesSeen, GoneClients

\* A handler that takes the ActiveGuard opens a call, and one that does not get
\* it is refused.
LEMMA ClaimOpens ==
    ASSUME ServiceInv, NEW h \in Rpcs, Claim(h), ServerSeen = "up"
    PROVE  Api!Open(h) \/ Api!Refuse(h)
<1>0. TypeInv /\ PlaceInv(h) /\ ClaimInv
    BY DEF ServiceInv
<1> USE DEF serviceVars, callVars, mainVars
<1>1. rpc[h].pc = "claim" /\ UNCHANGED callVars
    BY DEF Claim, At
<1>2. call[h] = NoCall /\ rpc[h].code = "none" /\ call[h].written = <<>>
      /\ rpc[h].kind \in {"ExecuteCall", "Invalid"} /\ h \notin OpenCalls
    BY <1>0, <1>1 DEF PlaceInv, Opened, NoCall, OpenCalls
<1>3. ~ Settled(h) /\ ReceivedBy(h) = <<>> /\ CodeFor(h) = "none"
    BY <1>1, <1>2 DEF Settled, CodeFor, ReceivedBy
<1>4. (\A g \in Rpcs : g # h => rpc'[g] = rpc[g]) /\ server' = server
    BY <1>0 DEF Claim, Flag, TypeInv
<1>5. \A g \in Rpcs : g # h => ReceivedBy(g)' = ReceivedBy(g) /\ CodeFor(g)' = CodeFor(g)
    BY <1>1, <1>4 DEF ReceivedBy, CodeFor, Settled
<1>6. GoneClients' = GoneClients
    BY <1>1 DEF GoneClients
<1>7. ServerSeen' = ServerSeen
    BY <1>4 DEF ServerSeen
<1>8. CASE call_active
  <2>1. Flag(h, "returned", "ALREADY_EXISTS", TRUE)
      BY <1>8 DEF Claim
  <2>2. rpc'[h].pc = "returned" /\ rpc'[h].code = "ALREADY_EXISTS" /\ rpc'[h].kind = rpc[h].kind
      BY <1>0, <2>1, FlagStep DEF Places, Codes
  <2>3. CodeFor(h)' = "ALREADY_EXISTS" /\ ReceivedBy(h)' = <<>>
      BY <1>1, <1>2, <2>2 DEF CodeFor, Settled, ReceivedBy
  <2>4. Received' = Received
      BY <1>3, <1>5, <2>3 DEF Received
  <2>5. CodesSeen' = [CodesSeen EXCEPT ![h] = "ALREADY_EXISTS"]
      BY <1>5, <2>3 DEF CodesSeen
  <2>6. OpenCalls' = OpenCalls /\ OpenCalls # {}
    <3>1. \A g \in Rpcs : rpc'[g].pc \in Opened <=> rpc[g].pc \in Opened
        BY <1>1, <1>4, <2>2 DEF Opened
    <3> QED BY <1>0, <1>8, <3>1 DEF OpenCalls, ClaimInv, Opened
  <2>7. CodesSeen[h] = "none"
      BY <1>3 DEF CodesSeen
  <2> QED BY <1>2, <1>6, <1>7, <2>4, <2>5, <2>6, <2>7
          DEF Api!Refuse, Received, CodesSeen, GoneClients
<1>9. CASE ~ call_active
  <2>1. Flag(h, "validate", "none", TRUE)
      BY <1>9 DEF Claim
  <2>2. rpc'[h].pc = "validate" /\ rpc'[h].code = "none" /\ rpc'[h].kind = rpc[h].kind
      BY <1>0, <2>1, FlagStep DEF Places, Opened, Codes
  <2>3. CodeFor(h)' = "none" /\ ReceivedBy(h)' = <<>>
      BY <1>1, <1>2, <2>2 DEF CodeFor, Settled, ReceivedBy
  <2>4. Received' = Received /\ CodesSeen' = CodesSeen
      BY <1>3, <1>5, <2>3 DEF Received, CodesSeen
  <2>5. \A g \in Rpcs : rpc[g].pc \notin Opened
      BY <1>0, <1>9 DEF ClaimInv
  <2>6. OpenCalls = {} /\ OpenCalls' = {h}
      BY <1>4, <2>2, <2>5 DEF OpenCalls, Opened
  <2>7. CodesSeen[h] = "none"
      BY <1>3 DEF CodesSeen
  <2> QED BY <1>6, <1>7, <2>4, <2>6, <2>7
          DEF Api!Open, Received, CodesSeen, GoneClients
<1> QED BY <1>8, <1>9

\* ~ActiveGuard closes the call: refused before its first event, or over with a
\* result unless its client left.
LEMMA ReleaseCloses ==
    ASSUME ServiceInv, NEW h \in Rpcs, Release(h), ServerSeen = "up"
    PROVE  Api!Close(h)
<1>0. TypeInv /\ PlaceInv(h) /\ ClaimInv /\ EndInv(h) /\ WireInv(h)
    BY DEF ServiceInv
<1> USE DEF serviceVars, callVars, mainVars
<1>1. /\ rpc[h].pc = "release" /\ Flag(h, "touch", rpc[h].code, FALSE)
      /\ call' = [call EXCEPT ![h] = NoCall]
    BY DEF Release, At, ReleasedValue
<1>2. rpc[h].code \in {"INVALID_ARGUMENT", "OK"} /\ rpc[h].kind \in {"ExecuteCall", "Invalid"}
      /\ rpc[h].pc \in Opened
    BY <1>0, <1>1 DEF PlaceInv, Opened
<1>3. /\ rpc'[h].pc = "touch" /\ rpc'[h].code = rpc[h].code /\ rpc'[h].kind = rpc[h].kind
      /\ server' = server /\ \A g \in Rpcs : g # h => rpc'[g] = rpc[g]
  <2>1. \A g \in Rpcs : g # h => rpc'[g] = rpc[g]
      BY <1>0, <1>1 DEF Flag, TypeInv
  <2>2. "touch" \in Places /\ rpc[h].code \in Codes
      BY <1>2 DEF Places, Codes
  <2> QED BY <1>0, <1>1, <2>1, <2>2, FlagStep
<1>4. \A g \in Rpcs : g # h => call'[g] = call[g]
    BY <1>0, <1>1 DEF TypeInv
<1>5. call'[h] = NoCall /\ ~ NoCall.is_cancelled
    BY <1>0, <1>1 DEF TypeInv, NoCall
<1>6. \A g \in Rpcs : g # h => ReceivedBy(g)' = ReceivedBy(g) /\ CodeFor(g)' = CodeFor(g)
    BY <1>3, <1>4 DEF ReceivedBy, CodeFor, Settled
<1>7. ReceivedBy(h)' = None /\ CodeFor(h)' = rpc[h].code
    BY <1>2, <1>3 DEF ReceivedBy, CodeFor, Settled
<1>8. Received' = [Received EXCEPT ![h] = None]
      /\ CodesSeen' = [CodesSeen EXCEPT ![h] = rpc[h].code]
    BY <1>6, <1>7 DEF Received, CodesSeen
<1>9. GoneClients' = GoneClients \ {h}
    BY <1>4, <1>5 DEF GoneClients
<1>10. h \in OpenCalls /\ OpenCalls' = {}
  <2>1. \A g \in Rpcs : g # h => rpc'[g].pc \notin Opened
      BY <1>0, <1>2, <1>3 DEF ClaimInv
  <2>2. \A g \in Rpcs : rpc'[g].pc \notin Opened
      BY <1>3, <2>1 DEF Opened
  <2> QED BY <1>2, <2>2 DEF OpenCalls, Opened
<1>11. ServerSeen' = ServerSeen
    BY <1>3 DEF ServerSeen
<1>12. Received[h] = ReceivedBy(h)
    BY DEF Received
<1>13. CASE rpc[h].code = "INVALID_ARGUMENT"
  <2>1. Untouched(h)
      BY <1>0, <1>1, <1>13 DEF PlaceInv
  <2>2. call[h].written = <<>>
      BY <2>1 DEF Untouched, NoCall
  <2>3. Received[h] = <<>>
      BY <1>2, <1>12, <2>2, StreamReceived, NothingReceived
  <2> QED BY <1>8, <1>9, <1>10, <1>11, <1>13, <2>3
          DEF Api!Close, Received, CodesSeen, GoneClients
<1>14. CASE rpc[h].code = "OK"
  <2>1. h \in GoneClients \/ Stream!Complete(Received[h])
    <3> DEFINE k == Len(call[h].written)
               items == Items(run[h].emitted)
               r == ReceivedBy(h)
    <3>1. call[h].done /\ call[h].batch = <<>> /\ call[h].queue = <<>>
        BY <1>0, <1>1, <1>14 DEF PlaceInv, EndInv
    <3>2. CASE run[h].asked
        BY <1>0, <3>2 DEF EndInv, GoneClients
    <3>3. CASE Stream!Complete(items)
      <4>1. /\ r \in Seq(Stream!Item) /\ Len(r) = k /\ k \in Nat /\ k <= Len(items)
            /\ \A i \in 1 .. k : r[i] = items[i]
          BY <1>2, StreamReceived
      <4>2. run[h].emitted \in Seq(AgentEvent)
          BY <1>0 DEF TypeInv, RunType
      <4>3. Len(items) = Len(run[h].emitted) /\ items \in Seq(Stream!Item)
          BY <4>2, ItemsOf
      <4>4. LeftIs(run[h].emitted, k, <<>>, <<>>)
          BY <1>0, <3>1 DEF WireInv, LeftIs
      <4>5. k = Len(run[h].emitted)
          BY <4>1, <4>2, <4>4, NothingLeft
      <4> HIDE DEF items, r, k
      <4>6. Len(items) > 0 /\ items[Len(items)].final
          BY <3>3, <4>3 DEF Stream!Complete
      <4>7. r # <<>> /\ r[Len(r)].final
          BY <4>1, <4>3, <4>5, <4>6
      <4> QED BY <1>12, <4>7 DEF Stream!Complete, r
    <3> QED BY <1>0, <3>1, <3>2, <3>3 DEF EndInv
  <2>2. h \in GoneClients \/ Api!Stream!Complete(Received[h])
      BY <2>1, SameStream
  <2> QED BY <1>8, <1>9, <1>10, <1>11, <1>14, <2>2
          DEF Api!Close, Received, CodesSeen, GoneClients
<1> QED BY <1>2, <1>13, <1>14

\* A client that goes away leaves an open call.
LEMMA CancelLeaves ==
    ASSUME ServiceInv, NEW h \in Rpcs, ClientCancels(h), ServerSeen = "up"
    PROVE  Api!Leave(h)
<1>0. TypeInv
    BY DEF ServiceInv
<1> USE DEF serviceVars, callVars, mainVars
<1>1. /\ rpc[h].pc \in {"validate", "wait", "write", "join"} /\ rpc' = rpc
      /\ server' = server /\ call' = [call EXCEPT ![h].is_cancelled = TRUE]
    BY DEF ClientCancels
<1>2. /\ \A g \in Rpcs : call'[g].written = call[g].written
      /\ \A g \in Rpcs : g # h => call'[g].is_cancelled = call[g].is_cancelled
      /\ call'[h].is_cancelled = TRUE
    BY <1>0, <1>1 DEF TypeInv, CallType
<1>3. \A g \in Rpcs : ReceivedBy(g)' = ReceivedBy(g) /\ CodeFor(g)' = CodeFor(g)
    BY <1>1, <1>2 DEF ReceivedBy, CodeFor, Settled
<1>4. Received' = Received /\ CodesSeen' = CodesSeen
    BY <1>3 DEF Received, CodesSeen
<1>5. OpenCalls' = OpenCalls /\ h \in OpenCalls /\ ServerSeen' = ServerSeen
    BY <1>1 DEF OpenCalls, ServerSeen
<1>6. GoneClients' = GoneClients \cup {h}
    BY <1>2 DEF GoneClients
<1> QED BY <1>4, <1>5, <1>6 DEF Api!Leave, Received, CodesSeen, GoneClients

\* The registers of a handler outside a call, its loop, the executor's pushes and
\* its return show a client nothing.
LEMMA Unseen ==
    ASSUME ServiceInv, NEW h \in Rpcs,
           Aside(h) \/ TouchStore(h) \/ Begin(h) \/ Swap(h) \/ LoopEnd(h) \/ Join(h)
           \/ Emit(h) \/ RunReturns(h)
    PROVE  UNCHANGED <<Received, CodesSeen, OpenCalls, GoneClients, ServerSeen>>
<1>0. TypeInv /\ TimesInv /\ PlaceInv(h) /\ StepOf(h)
    BY DEF ServiceInv, StepOf, Handler, Aside
<1>a. rpc[h] \in RpcType /\ call[h] \in CallType
    BY <1>0 DEF TypeInv
<1> USE DEF serviceVars, callVars, mainVars
<1>1. \A g \in Rpcs : g # h => rpc'[g] = rpc[g] /\ call'[g] = call[g]
    BY <1>0, Apart
<1>2. /\ server' = server
      /\ call'[h].written = call[h].written
      /\ call'[h].is_cancelled = call[h].is_cancelled
  <2>1. CASE Aside(h) \/ TouchStore(h)
      BY <1>0, <2>1, AsideStep, StoreStep
  <2>2. CASE Begin(h) \/ Join(h)
      BY <2>2 DEF Begin, Join, Flag
  <2>3. CASE Swap(h)
    <3>1. /\ call'[h] = [call[h] EXCEPT !.batch = call[h].queue, !.queue = <<>>,
                                        !.finished = Finished(h)]
          /\ UNCHANGED mainVars
        BY <1>0, <2>3, SwapStep
    <3>2. /\ call'[h].written = call[h].written
          /\ call'[h].is_cancelled = call[h].is_cancelled
        BY <1>a, <3>1 DEF CallType
    <3>3. server' = server
        BY <3>1
    <3> QED BY <3>2, <3>3
  <2>4. CASE LoopEnd(h)
      BY <1>0, <2>4, LoopStep
  <2>5. CASE Emit(h)
    <3>1. PICK ev \in AgentEvent :
              /\ call'[h] = [call[h] EXCEPT !.queue = Append(call[h].queue, ev)]
              /\ UNCHANGED mainVars
        BY <1>0, <2>5, EmitStep
    <3> QED BY <1>a, <3>1 DEF CallType
  <2>6. CASE RunReturns(h)
      BY <1>0, <1>a, <2>6 DEF RunReturns, TypeInv, CallType
  <2> QED BY <2>1, <2>2, <2>3, <2>4, <2>5, <2>6
<1>3. /\ Settled(h)' <=> Settled(h)
      /\ Settled(h) => rpc'[h].code = rpc[h].code
      /\ rpc'[h].pc \in Opened <=> rpc[h].pc \in Opened
  <2>1. CASE Aside(h)
    <3>1. /\ rpc[h].pc \notin Opened \cup {"claim", "returned"}
          /\ rpc'[h].pc \notin Opened \cup {"claim", "none"}
          /\ rpc'[h].pc \in {"store", "returned"} =>
                rpc[h].pc = "touch" \/ rpc'[h].kind = "Health"
          /\ rpc[h].pc = "touch" => rpc'[h].pc = "store"
          /\ rpc[h].pc # "none" => rpc'[h].kind = rpc[h].kind
          /\ rpc'[h].code = rpc[h].code \/ rpc'[h].kind = "Health"
        BY <1>0, <2>1, AsideStep
    <3>2. rpc[h].pc = "none" => rpc[h].code = "none"
        BY <1>0 DEF PlaceInv
    <3>3. rpc[h].pc = "store" => FALSE
        BY <2>1 DEF Aside, TouchClock, HealthIdle, HealthState, HealthCount, Arrive, At
    <3>4. rpc[h].pc \in {"idle", "state", "busy", "count"} => rpc[h].kind = "Health"
        BY <1>0 DEF PlaceInv
    <3> QED BY <1>a, <3>1, <3>2, <3>3, <3>4 DEF Settled, RpcType, Places, Opened
  <2>2. CASE TouchStore(h)
    <3>1. /\ rpc[h].pc = "store" /\ rpc'[h].kind = rpc[h].kind
          /\ rpc'[h].pc \in {"state", "returned", "claim"}
          /\ rpc'[h].pc = "state" => rpc[h].kind = "Health"
          /\ rpc'[h].pc = "claim" =>
                 rpc[h].kind \notin {"Health", "StreamAudio"} /\ rpc[h].code = "none"
          /\ rpc'[h].code = rpc[h].code \/ rpc[h].kind = "StreamAudio"
        BY <1>0, <2>2, StoreStep
    <3> QED BY <3>1 DEF Settled, Opened
  <2>3. CASE Begin(h) \/ Swap(h) \/ LoopEnd(h) \/ Join(h) \/ Emit(h) \/ RunReturns(h)
    <3>1. rpc[h].pc \in Opened /\ rpc[h].pc \notin {"claim", "release"}
      <4>1. CASE Begin(h) \/ Swap(h) \/ LoopEnd(h) \/ Join(h)
          BY <4>1 DEF Begin, Swap, LoopEnd, Join, At, Opened
      <4>2. CASE Emit(h) \/ RunReturns(h)
          BY <1>0, <4>2 DEF Emit, RunReturns, Running, PlaceInv, Working, Opened
      <4> QED BY <2>3, <4>1, <4>2
    <3>2. rpc'[h].pc \in Opened
        BY <1>0, <3>1, PathOf
    <3> QED BY <3>1, <3>2 DEF Settled, Opened
  <2> QED BY <2>1, <2>2, <2>3
<1>4. ReceivedBy(h)' = ReceivedBy(h) /\ CodeFor(h)' = CodeFor(h)
  <2>1. CASE Settled(h)
      BY <1>2, <1>3, <2>1 DEF ReceivedBy, CodeFor
  <2>2. CASE ~ Settled(h)
      BY <1>2, <1>3, <2>2 DEF ReceivedBy, CodeFor
  <2> QED BY <2>1, <2>2
<1>5. UNCHANGED <<Received, CodesSeen, OpenCalls, GoneClients>>
    BY <1>1, <1>2, <1>3, <1>4, UnseenStep
<1>6. ServerSeen' = ServerSeen
    BY <1>2 DEF ServerSeen
<1> QED BY <1>5, <1>6

\* The service implements the API it offers, for any number of clients: every
\* step of its threads opens, refuses, feeds, closes or abandons a call, stops
\* the server, or shows the clients nothing.
THEOREM ServiceImplementsApi == Spec => ImplementsApi
<1>1. Init => Api!Init
  <2> SUFFICES ASSUME Init PROVE Api!Init
      OBVIOUS
  <2>1. \A h \in Rpcs : rpc[h].pc = "none" /\ call[h] = NoCall /\ rpc[h].code = "none"
      BY DEF Init
  <2>2. \A h \in Rpcs : ReceivedBy(h) = <<>> /\ CodeFor(h) = "none"
                        /\ ~ call[h].is_cancelled
      BY <2>1 DEF ReceivedBy, CodeFor, Settled, NoCall
  <2>3. OpenCalls = {} /\ ServerSeen = "up"
      BY <2>1 DEF OpenCalls, ServerSeen, Init
  <2> QED BY <2>2, <2>3 DEF Api!Init
<1>2. ServiceInv /\ [Next]_vars => [Api!Next]_(Api!apiVars)
  <2> SUFFICES ASSUME ServiceInv, [Next]_vars
               PROVE  \/ Api!Next
                      \/ UNCHANGED <<Received, CodesSeen, OpenCalls, GoneClients, ServerSeen>>
      BY DEF Api!apiVars, Received, CodesSeen, GoneClients
  <2>0. TypeInv /\ TimesInv /\ ServerInv /\ ClaimInv /\ \A h \in Rpcs : PlaceInv(h)
      BY DEF ServiceInv
  <2> USE DEF serviceVars, callVars, mainVars
  <2>u. Alive => ServerSeen = "up"
      BY DEF Alive, ServerSeen
  <2>1. ASSUME NEW h \in Rpcs, StepOf(h)
        PROVE  \/ Api!Next
               \/ UNCHANGED <<Received, CodesSeen, OpenCalls, GoneClients, ServerSeen>>
    <3>0. ServerSeen = "up"
        BY <2>0, <2>1, <2>u, PathOf
    <3>1. CASE Claim(h)
        BY <3>0, <3>1, ClaimOpens DEF Api!Next
    <3>2. CASE Release(h)
        BY <3>0, <3>2, ReleaseCloses DEF Api!Next
    <3>3. CASE Write(h)
        BY <3>0, <3>3, WriteSends DEF Api!Next
    <3>4. CASE ClientCancels(h)
        BY <3>0, <3>4, CancelLeaves DEF Api!Next
    <3>5. CASE RunThrows(h)
      <4>1. /\ run[h].outcome = "open" /\ server' = "terminated"
            /\ UNCHANGED <<rpc, callVars>>
          BY <3>5 DEF RunThrows, Running
      <4>2. h \in OpenCalls
          BY <2>0, <4>1 DEF PlaceInv, Working, OpenCalls
      <4>3. UNCHANGED <<Received, CodesSeen, OpenCalls, GoneClients>>
          BY <4>1 DEF Received, CodesSeen, OpenCalls, GoneClients, ReceivedBy, CodeFor,
                      Settled
      <4>4. ServerSeen' = "crashed"
          BY <4>1 DEF ServerSeen
      <4>5. Api!Stop
          BY <3>0, <4>2, <4>3, <4>4 DEF Api!Stop, Received, CodesSeen, GoneClients
      <4> QED BY <4>5 DEF Api!Next
    <3>6. CASE Aside(h) \/ TouchStore(h) \/ Begin(h) \/ Swap(h) \/ LoopEnd(h) \/ Join(h)
               \/ Emit(h) \/ RunReturns(h)
        BY <3>6, Unseen
    <3> QED BY <2>1, <3>1, <3>2, <3>3, <3>4, <3>5, <3>6 DEF StepOf, Handler, Aside
  <2>2. CASE Elsewhere
    <3>1. UNCHANGED <<call_active, rpc, call, run, recording>>
        BY <2>0, <2>2, ElsewhereStep
    <3>2. UNCHANGED <<Received, CodesSeen, OpenCalls, GoneClients>>
        BY <3>1 DEF Received, CodesSeen, OpenCalls, GoneClients, ReceivedBy, CodeFor,
                    Settled
    <3>3. CASE ServerSeen' = ServerSeen
        BY <3>2, <3>3
    <3>4. ASSUME ServerSeen = "up", ServerSeen' = "stopped", OpenCalls = {}
          PROVE  Api!Next
      <4>1. Api!Stop
          BY <3>2, <3>4 DEF Api!Stop, Received, CodesSeen, GoneClients
      <4> QED BY <4>1 DEF Api!Next
    <3>5. CASE Listen
      <4>1. ServerSeen = "up"
          BY <2>0, <3>5 DEF Listen, ServerInv, ServerSeen
      <4>2. CASE server' = "up"
          BY <3>3, <4>1, <4>2 DEF ServerSeen
      <4>3. CASE server' = "exited"
        <5>1. OpenCalls = {}
            BY <2>0, <3>5 DEF Listen, ServerInv, OpenCalls
        <5>2. ServerSeen' = "stopped"
            BY <4>3 DEF ServerSeen
        <5> QED BY <3>4, <4>1, <5>1, <5>2
      <4> QED BY <3>5, <4>2, <4>3 DEF Listen
    <3>6. CASE Stop
      <4>1. ServerSeen = "up"
          BY <2>u, <3>6 DEF Stop
      <4>2. CASE server' = "closing"
          BY <3>3, <4>1, <4>2 DEF ServerSeen
      <4>3. CASE server' = "exited" /\ Drained
        <5>1. OpenCalls = {}
            BY <4>3 DEF Drained, InProgress, OpenCalls
        <5>2. ServerSeen' = "stopped"
            BY <4>3 DEF ServerSeen
        <5> QED BY <3>4, <4>1, <5>1, <5>2
      <4> QED BY <3>6, <4>2, <4>3 DEF Stop
    <3>7. CASE Watch \/ Tick \/ UNCHANGED vars
      <4>1. server' = server
          BY <3>7 DEF Watch, Tick, vars
      <4> QED BY <3>3, <4>1 DEF ServerSeen
    <3> QED BY <2>2, <3>5, <3>6, <3>7 DEF Elsewhere, MainThread
  <2> QED BY <2>1, <2>2, Steps
<1> QED BY <1>1, <1>2, ServiceInvariant, PTL DEF Spec, ImplementsApi, Api!Spec

-----------------------------------------------------------------------------
(* The phases of a call on the wire.                                       *)

\* A set of naturals that is not empty has a least element.
LEMMA LeastNatural ==
    ASSUME NEW T, T \subseteq Nat, T # {}
    PROVE  \E x \in T : \A y \in T : x <= y
<1>1. IsWellFoundedOn(OpToRel(<, Nat), Nat)
  BY NatLessThanWellFounded
<1> DEFINE R == OpToRel(<, Nat)
<1>2. R = {ss \in Nat \X Nat : ss[1] < ss[2]}
  BY DEF OpToRel
<1> HIDE DEF R
<1>3. PICK x \in T : \A y \in T : ~ (<<y, x>> \in R)
  <2>1. \E x \in T : \A y \in T : ~ (<<y, x>> \in R)
    BY <1>1, WFMin DEF R
  <2> QED BY <2>1
<1>4. \A y \in T : x <= y
  <2> TAKE y \in T
  <2>1. x \in Nat /\ y \in Nat
    OBVIOUS
  <2>2. ~ (<<y, x>> \in R)
    BY <1>3
  <2> QED BY <2>1, <2>2, <1>2
<1> QED BY <1>4

\* A set of naturals with 0 and with the successor of each member is all of Nat.
LEMMA NaturalInduction ==
    ASSUME NEW T, T \subseteq Nat, 0 \in T, \A n \in T : n + 1 \in T
    PROVE  T = Nat
<1> SUFFICES ASSUME Nat \ T # {} PROVE FALSE
  OBVIOUS
<1>1. PICK x \in Nat \ T : \A y \in Nat \ T : x <= y
  BY LeastNatural
<1>2. x > 0
  BY <1>1
<1>3. x - 1 \in T
  BY <1>1, <1>2
<1> QED BY <1>1, <1>3

\* How far a call is when an item is sent.
Phase(item) ==
    IF item.final THEN 11
    ELSE CASE item.status = "REGISTERING"      -> 1
           [] item.status = "REGISTERED"       -> 2
           [] item.status = "DIALING"          -> 3
           [] item.status = "RINGING"          -> 4
           [] item.status = "ANSWERED"         -> 5
           [] item.status = "PLAYING"          -> 6
           [] item.status = "PLAYED"           -> 7
           [] item.status = "SILENCE_DETECTED" -> 8
           [] item.status = "HANGING_UP"       -> 9
           [] item.status = "RECORDING_READY"  -> 10
           [] OTHER                            -> 0

\* A later phase, or one more ringing.
Onward(item, next) ==
    \/ Phase(item) < Phase(next)
    \/ item = Stream!State("RINGING") /\ next = Stream!State("RINGING")

\* What may come right after an item is onward.
LEMMA AfterOnward ==
    ASSUME NEW item, NEW next \in Stream!After(item)
    PROVE  Onward(item, next)
<1> USE DEF Onward, Phase, Stream!State, Stream!Final
<1>1. CASE item = Stream!State("REGISTERING")
    BY <1>1 DEF Stream!After
<1>2. CASE item = Stream!State("REGISTERED")
    BY <1>2 DEF Stream!After
<1>3. CASE item = Stream!State("DIALING")
    BY <1>3 DEF Stream!After
<1>4. CASE item = Stream!State("RINGING")
    BY <1>4 DEF Stream!After
<1>5. CASE item = Stream!State("ANSWERED")
    BY <1>5 DEF Stream!After
<1>6. CASE item = Stream!State("PLAYING")
    BY <1>6 DEF Stream!After
<1>7. CASE item = Stream!State("PLAYED")
    BY <1>7 DEF Stream!After
<1>8. CASE item = Stream!State("SILENCE_DETECTED")
    BY <1>8 DEF Stream!After
<1>9. CASE item = Stream!State("HANGING_UP")
    BY <1>9 DEF Stream!After
<1>10. CASE item = Stream!State("RECORDING_READY")
    BY <1>10 DEF Stream!After
<1> QED BY <1>1, <1>2, <1>3, <1>4, <1>5, <1>6, <1>7, <1>8, <1>9, <1>10 DEF Stream!After

\* Onward and onward is onward.
LEMMA OnwardTransitive ==
    ASSUME NEW a, NEW b, NEW c, Onward(a, b), Onward(b, c)
    PROVE  Onward(a, c)
<1>1. Phase(a) \in Nat /\ Phase(b) \in Nat /\ Phase(c) \in Nat
    BY DEF Phase
<1> QED BY <1>1 DEF Onward

\* A legal stream never goes back, and repeats nothing but the ringing.
LEMMA LegalOnward ==
    ASSUME NEW s \in Seq(Stream!Item), Stream!Legal(s),
           NEW i \in 1 .. Len(s), NEW j \in 1 .. Len(s), i < j
    PROVE  Onward(s[i], s[j])
<1> DEFINE T == {d \in Nat : i + d + 1 <= Len(s) => Onward(s[i], s[i + d + 1])}
<1>0. Len(s) \in Nat
    OBVIOUS
<1>1. ASSUME NEW k \in 1 .. Len(s), k + 1 <= Len(s) PROVE Onward(s[k], s[k + 1])
  <2>1. k \in 1 .. (Len(s) - 1)
      BY <1>0, <1>1
  <2>2. s[k + 1] \in Stream!After(s[k])
      BY <2>1 DEF Stream!Legal
  <2> QED BY <2>2, AfterOnward
<1>2. 0 \in T
  <2>1. i + 0 + 1 = i + 1
      OBVIOUS
  <2> QED BY <1>1, <2>1
<1>3. ASSUME NEW d \in T PROVE d + 1 \in T
  <2> SUFFICES ASSUME i + (d + 1) + 1 <= Len(s) PROVE Onward(s[i], s[i + (d + 1) + 1])
      OBVIOUS
  <2>1. /\ i + d + 1 <= Len(s) /\ i + d + 1 \in 1 .. Len(s)
        /\ i + (d + 1) + 1 = (i + d + 1) + 1
      BY <1>0
  <2>2. Onward(s[i], s[i + d + 1])
      BY <2>1
  <2>3. Onward(s[i + d + 1], s[(i + d + 1) + 1])
      BY <1>1, <2>1
  <2> QED BY <2>1, <2>2, <2>3, OnwardTransitive
<1>4. T \subseteq Nat
    OBVIOUS
<1> HIDE DEF T
<1>5. T = Nat
    BY <1>2, <1>3, <1>4, NaturalInduction
<1>6. j - i - 1 \in T /\ i + (j - i - 1) + 1 = j
    BY <1>5
<1> QED BY <1>6 DEF T

\* What the client of an ExecuteCall has received, decoded, is in the order of
\* the phases of a call: no state comes back, none but RINGING comes twice, and
\* nothing follows the result.
WrittenInPhases ==
    \A h \in Rpcs : \A i, j \in DOMAIN call[h].written :
        i < j => Onward(Decoded(call[h].written[i]), Decoded(call[h].written[j]))

\* It holds for every script of the executor, however the batches of the
\* hand-over fall.
THEOREM ReceivedInPhases == Spec => []WrittenInPhases
<1>1. ServiceInv => WrittenInPhases
  <2> SUFFICES ASSUME ServiceInv, NEW h \in Rpcs, NEW i \in DOMAIN call[h].written,
                      NEW j \in DOMAIN call[h].written, i < j
               PROVE  Onward(Decoded(call[h].written[i]), Decoded(call[h].written[j]))
      BY DEF WrittenInPhases
  <2> DEFINE items == Items(run[h].emitted)
             w == call[h].written
  <2>1. /\ Len(w) \in Nat /\ DOMAIN w = 1 .. Len(w) /\ Len(w) <= Len(items)
        /\ items \in Seq(Stream!Item) /\ Stream!Legal(items)
        /\ \A k \in 1 .. Len(w) : Decoded(w[k]) = items[k]
      BY WrittenItems
  <2> HIDE DEF items, w
  <2>2. /\ i \in 1 .. Len(items) /\ j \in 1 .. Len(items)
        /\ Decoded(w[i]) = items[i] /\ Decoded(w[j]) = items[j]
      BY <2>1 DEF w
  <2>3. Onward(items[i], items[j])
      BY <2>1, <2>2, LegalOnward
  <2> QED BY <2>2, <2>3 DEF w
<1> QED BY <1>1, ServiceInvariant, PTL

=============================================================================
