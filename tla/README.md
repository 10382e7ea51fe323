# Formal model of pjcppagent

TLA+ modules, TLC configurations and TLAPS proofs for `pjcppagent`, the headless
agent that places one outbound SIP call, plays a message, listens until the
callee is silent, records, and reports what happened as a stream of events.
Paths below are relative to the repository (`src/call_executor.cpp` and so on).

## The system

| Component | Source | State | Operations |
|---|---|---|---|
| Call executor | `src/call_executor.cpp` | `result_`, `cancelled_`, `call_connected_ms_`, the locals of `run()` | `run()`, `handleDisconnect()`, `cancel()` |
| SIP agent | `src/sip_agent.cpp` | event queue, `dispatcher_wake_`, account, call, player, recorder | `waitEvent`, `pushEvent`, `wakeDispatcher`, `placeCall`, `hangup`, `startPlayer`, `startRecorder`, `stopRecorder`, `getRxLevel`, destructor; the PJSIP callbacks |
| Silence detector | `src/silence.cpp` | `armed_`, `started_`, `silence_start_` | `arm`, `feed`, `getCurrentSilenceMs` |
| Events | `src/events.cpp` | none | `sipCodeToCallStatus`, `statusToExitCode`, `toJson` |
| gRPC service | `src/grpc_server.cpp` | `call_active_`, `shutting_down_`, `last_activity_ms_`, the hand-over queue of a call | `ExecuteCall`, `Health`, `StreamAudio`, the idle watchdog |
| Event mapping | `src/grpc_server.cpp` | none | `toProtoState`, `toProtoResultStatus`, `toProtoEvent` |
| Configuration | `src/args.cpp`, `src/grpc_server.cpp` | `Config` | `parse`, `validate`, `makeCallConfig` |
| TTS stub | `src/tts_stub.cpp` | `tts_stub.wav` | `synth`, `writeWav` |
| Entry point | `src/main.cpp` | none | `isServerMode`, standard input, the printed lines, the exit code |

Three threads meet in one call. The *executor thread* runs `run()`, a sequence of
loops around `waitEvent`. The *PJSIP worker thread* runs the callbacks, which only
push an event. The *RPC thread* (server mode) drains the sink's queue and calls
`cancel()` when the client goes away, and destroys the executor after `run()` has
returned. The queue is the only way from the callbacks to the executor;
`cancelled_` and `dispatcher_wake_` are the only way from the RPC thread.

In server mode the handlers of several RPCs and the watchdog on the main thread
share three atomics and nothing else; `ExecuteCall` and its executor share a queue
and `done` under a mutex of their own. Agents started in one directory share the
audio files.

What is hard about it:

- callbacks come in any order the network likes: early media before the answer,
  the answer after our CANCEL, the end of the leg during the answer delay, when
  nobody reads the queue;
- the wake-up of `cancel()` can be lost, because `waitEvent` clears the flag on
  entry;
- `run()` has many exits, and each must leave the stream, the returned result,
  the leg and the recorder in agreement;
- deadlines are looked at in some iterations only, and two loops have none;
- exceptions of PJSIP leave `run()` and nothing catches them;
- the service's atomics are read one at a time: what `Health` and the watchdog put
  together from several reads need not have been true at any time;
- times are differences of unsigned wall clock readings, which wrap when the clock
  is set back or the readings come in the wrong order;
- the mode is read by two pieces of code, a call is described by two front ends,
  and an event has two encodings, which must agree.

`PROJECT.json` lists these as hazards, line by line.

What makes each component correct:

- executor: one result at most, last in the stream, equal to what is returned;
  ANSWERED, a bill and a recording only after an answer; no event of the leg
  lost; a leg is never left up unasked; every run ends;
- SIP agent: first in, first out; a cancelled wait returns;
- silence detector: fires for exactly the quiet stretches of the timeout's length;
- gRPC service: one call at a time, legal streams of which every event is written
  before the stream closes, a stop only without a call, an end for every call;
- configuration: what reaches the executor is complete, and is what was asked for,
  whichever front end it came through;
- entry point: the mode that decides about standard input is the parser's;
- TTS stub: a well-formed file with a beep for each word.

## Modules

| Module | Models |
|---|---|
| `CallEvents` | `events.h`, `events.cpp`: statuses, the two event records, the tables |
| `Silence` | `silence.cpp` as pure operators |
| `SipAgent` | the queue, the wake flag, the leg, player and recorder; one action per callback or move of the leg; one operator per operation that the executor calls |
| `CallExecutor` | `run()` against `SipAgent`, `cancel()`, the clock and the destructor; properties |
| `CallStream` | the abstract contract: which streams of events a client may see |
| `CallExecutorTimed` | `CallExecutor` on a machine that keeps up with the clock; deadlines, billing, hanging up on silence, a claim of the documentation |
| `CallClock` | the deadlines and the bill of `run()` on a wall clock that is set meanwhile |
| `EventQueue` | inside `waitEvent`, `pushEvent`, `wakeDispatcher`: mutex, condition variable, timeout |
| `EventHandover` | the abstract hand-over that `CallExecutor` takes `waitEvent` for |
| `SilenceDetector` | the detector in use, with a log of what it was fed |
| `EventMapping` | `toProtoEvent` and its tables, `toJson` |
| `CallAgentService` | the RPC handlers, the hand-over of events, the watchdog and the shutdown, with `CallStream` in the place of the executor |
| `CallAgentApi` | the abstract server with at most one call |
| `CallAgentClaims` | a claim of the documentation about the service, with a history variable |
| `AgentConfig` | `isServerMode`, `parse`, `validate`, `makeCallConfig`, as operators |
| `AgentMain` | `main()` in both modes, from the command line to the exit code |
| `TtsStub` | `synth`, `writeWav`, and the file between writing and playing |
| `MCCallExecutor`, `MCCallExecutorTimed`, `MCCallAgentService`, `MCAgentMain` | inputs of the small instances |
| `CallExecutorProofs`, `CallExecutorLegProofs`, `SilenceDetectorProofs`, `EventQueueProofs`, `CallAgentServiceProofs`, `CallClockProofs`, `AgentMainProofs`, `TtsStubProofs` | theorems about the module in the name; the second also about `CallExecutorTimed` |

### How `CallExecutor` corresponds to `run()`

`pc` names the statement `run()` is at: `start` (steps 1 and 2 up to the loop),
`reg`, `place`, `call` (step 4), `setup` (recorder), `delay`, `eof` (step 6),
`drain` (the loop of the 600 s cap), `arm`, `listen` (step 7), `hangup`, `bye`
(step 8). In the loops `stage` tells apart the test of `cancelled_` (`head`), the
gap before `waitEvent` takes its lock (`enter`), and the wait (`blocked`). From the
return of `waitEvent` to the next test an iteration is one step: the other threads
reach the executor only through the queue and `cancelled_`, which it does not look
at in between, and the sink of the model has no reader that could.

`TakeCancel` stands for every test of `cancelled_`: a loop's test and the `if` after
it cannot be told apart, since the flag never goes back. `HangsUpIfCancelled` lists
the places whose `if` calls `hangup()`. `...Throws` actions are the exceptions of
PJSIP, which end the process (`crashed`). `Setup` and `Arm` keep the status checks
of lines 154 and 231; `AnsweredInside` shows that they never fire.

Abstractions: texts, ids and time stamps are left out; `recording_path` is a
Boolean; time is counted in ticks with `Second` of them to a second; `synth()` is
the question whether the audio source is playable. `init()` either succeeds or
throws: its `return false` does not exist, so lines 43-48 have no action.

PJSIP is external. Assumed of it, from how the code uses it: a session only moves
forward through CALLING, EARLY, CONNECTING, CONFIRMED, DISCONNECTED; each move
calls `onCallState` once; a 200 OK may cross our CANCEL; a leg may end at any time
with a rejection code, 200 (confirmed and ended by the callee), 603 (our hangup) or
0 (the "call destroyed" branch); a player runs only while it transmits; `hangup()` of a
leg that is up is accepted, so the `catch (...)` of `SipAgent::hangup` matters for an
ended leg only.

`handleDisconnect()` is one step. The file is closed (line 322) before the sink is called
(line 324), on the same thread, so whoever sees RECORDING_READY sees a closed file; the
order of the two statements themselves is taken from the code and is not an object of
`RecordingComplete`.

`CallExecutorTimed` adds three history variables: whether the loop under way has polled
since the clock moved, when the leg ended, and `loud_at`, when the callee was last heard or
listening began. `loud_at` comes from the sampled levels, not from the detector's fields.

### How the other modules correspond to the code

`CallAgentService`: `rpc[h]` is a handler's thread, `pc` its place and the other
fields its registers; `call[h]` holds the locals of `ExecuteCall`, `run[h]` its
executor. `touchActivity()` is two steps, the clock and the store. `Health` and
`idleSeconds()` read the clock and `last_activity_ms_` in either order, which C++
leaves open. `Swap` is the critical section of the loop (the wait ends by
notification or by its 200 ms, so it needs no guard), `Write` writes one event of
the batch and reads the clock for it, `LoopEnd` breaks or polls `IsCancelled()`.
`Join` is `join()` with the destructors that follow, in their order; `Release` and
the `touchActivity()` after it are `~ActiveGuard`. An exception that leaves the
executor's thread ends the process. gRPC is external: an RPC gets a thread, and
`Shutdown()` without a deadline and `Wait()` let handlers finish. All calls go to
one destination, so that they share the recording's path. The refinement to
`CallAgentApi` decodes what was written; a call is open from its claim to its
release, and its code is settled when it is refused or released.

`AgentMain`: an input is a list of words (those of `--mode` and `--version`,
"--caller-id" for the options whose value is the next word, "other" for an option and its
value in one word), the parsed options, the environment and the line on standard input.
CLI11 is external: an option at most once, its value is the next word whatever that looks
like, stray words are errors. `request` is a `CallRequest` that reaches
`makeCallConfig()`. `run()` is one of `Runs`, a stream of `CallStream` with the result that
is returned behind it (`RunsAreScripts`, `ReturnMatchesStream`), and nobody cancels it; the
exit code is that of the returned result. Widths are kept: `U16`, `U32` are constants, 16 and 256 in the instance.

`EventQueue`: the wait of `wait_for` is its loop: test, release the mutex and sleep in
one step, wake (notified, spuriously or late), take the mutex, and test again unless
late. `notify_one` wakes the receiver only if it sleeps. `CallExecutor` uses the
atomic steps of `EventHandover`: `WaitEnter` is `Enter`, `Receives` is `Take`,
`WaitFails` is `GiveUp`.

`CallClock`: `wall` is `epochMs()`, `mark` the instant that the loop under way compares
it with, `watch` a stopwatch since, `shift` the steps of the clock since. The silence
detector's own times are not repeated here.

`TtsStub`: a sample is "tone" or "quiet", a text its number of words. `Open` truncates
the file, `Write` fills it, `Play` is the opening of the player after the answer delay. A
text of no words has no file: `synth()` returns an empty path, and the player throws.
The constant header fields and the sine are left out.

## Runs

| Run | Configuration | Shows |
|---|---|---|
| `executor` | `MCCallExecutor.cfg` | the safety invariants over all interleavings; `CallExecutor` implements `CallStream` |
| `liveness` | `CallLiveness.cfg` | a cancelled run ends; every run ends or is parked, under `FairSpec` |
| `timed` | `CallExecutorTimed.cfg` | deadlines are served, the bill is bounded, the agent hangs up on silence and in time |
| `silence` | `SilenceDetector.cfg` | the detector against the definition of silence |
| `service` | `CallAgentService.cfg` | two calls, their executors, clients and the watchdog: the safety invariants; `CallAgentService` implements `CallAgentApi` |
| `service_liveness` | `CallAgentLiveness.cfg` | calls end, cancellations arrive, the server stops, under `FairSpec` |
| `main` | `AgentMain.cfg` | the two front ends and the two readings of the mode |
| `queue` | `EventQueue.cfg` | `EventQueue` implements `EventHandover`; no lost wake-up; promptness |
| `clock` | `CallClock.cfg` | what setting the clock may cost |
| `tts` | `TtsStub.cfg` | well-formed files, text after text, with another agent about |
| `claim_AnsweredStaysAnswered`, `claim_CallCountsAsActivity` | `Claim*.cfg` | two claims of the documentation that the code does not keep |

Properties, in `CallExecutor` unless said otherwise:

- `TypeOK`: types, and no recorded time in the future;
- `OneResult`, `ReturnMatchesStream`: the stream's result and the returned one;
- `AnsweredEarned`: no ANSWERED result, bill or recording without an answer;
- `NothingDropped`: the end of the leg stays in the queue until it is acted on, and
  so does the end of the playback while `run()` waits for it;
- `LegOwned`: a leg alive when `run()` returns has been hung up, except by the
  cancellation between PLAYED and HANGING_UP (line 271), which leaves it to the
  destructor;
- `AnsweredInside`: past step 4 the call is answered and has had audio;
- `RecordingComplete`: RECORDING_READY comes after the file is closed, right
  before the result;
- `ImplementsStream`: the refinement, with the events' status and result mark as
  `stream`, `cancelled_` as `asked` and the way `run()` ended as `outcome`;
- `CancelEnds`, `RunEnds`: liveness;
- `DeadlinesKept`, `BillingBounded` (of every answered call, a bill of 0 included),
  `HangsUpOnSilence` (`CallExecutorTimed`): short of the cap the listening loop is left for
  the hang-up only if the callee was not heard for the whole silence timeout, and time never
  goes on beyond that; the quiet stretch begins with the first quiet sample, up to a tick
  after the last loud one;
- `FiresExactly`, `KnowsTheStretch` (`SilenceDetector`);
- `HandedOver`, `OneExecutor`, `StartedWhenAnswered`, `AnnouncedIsIntact`,
  `ImplementsApi`, `CallsEnd`, `CancelForwarded`, `ServerStops` (`CallAgentService`):
  events reach the wire complete and in order; executors never overlap; `started_at`
  and the announced recording are those of the call itself; the refinement; liveness;
- `ModeAgrees` (where no option's value is spelled like `--mode`), `CallsAreComplete`, `FlagsBeatEnvironment` (as non-interference: an
  overridden variable changes nothing, even if it cannot be parsed),
  `SameCallEitherWay` (the `Config` of a request is that of the command line that says
  the same) (`AgentMain`);
- `NoLostWakeup`, `InOrderOnce`, `ImplementsHandover`, `Prompt` (`EventQueue`);
- `InstantsMoveByTheStep`, `DifferencesMoveByTheStep` (`CallClock`): a step of the
  clock costs at most the step, except where a difference goes below zero;
- `HeaderFits`, `OneBeepPerWord` (`TtsStub`), of the agent that opened and wrote the file
  last; `sole` records who did.

### Bounds

One registration result, at most one provisional answer and two media updates: a
second media update makes hold, resume and audio before and after the answer all
happen. Two rejection codes, one that the table maps and one that it does not. All
timeouts are one or two ticks, different enough that each can run out while another
is pending; a second is two ticks, so rounding matters. Time stops at `MaxTime`
when no deadline is pending, so that every deadline can still run out. The
liveness run uses smaller bounds, because a liveness check costs more for each state:
one media update (hold and resume change no event and no exit) and no ringing, which
changes neither a deadline nor a wait. In the timed run the cap
is six ticks, well beyond the answer delay, the playback and a silence timeout of two, so
that silence comes before the cap as well as after it. In `SilenceDetector` the timeout is three ticks
and the samples are one or two apart, so that a stretch takes several samples, may
end between two of them and may overshoot.

The service has two RPCs: a call with another that is refused, follows it, or comes
while it is being torn down. `service` runs two `ExecuteCall`s, valid or not, with a
stream that fails early and one that is answered, and takes states that differ only in
the names of the RPCs for one; `Health` and `StreamAudio` write `last_activity_ms_` only,
on which nothing depends there (see the idle time below), and come with liveness, which
has one RPC of any kind and streams of all shapes. An idle time of 0 lets the watchdog decide at any moment, which is every
decision a longer one could make; liveness uses 1, so that time must pass. `main`
takes every command line of up to three words with one environment, and every
combination of four options with every environment of the set for one command line:
the words of `--mode` and the other options meet only in the checks of `parse()`, each
of which is failed by some input. `queue` has two pushing threads and one that wakes,
two calls each: an event of one thread can meet the notification of another. `clock`
sets the clock once, by steps shorter and longer than each timeout. `tts` has texts
whose bytes do and do not fit the width, two for each of two agents, so that a file can
be longer or shorter than the one before and another agent's steps fall in between.

### Fairness

`FairSpec` lets the executor's thread and the thread inside `cancel()` go on: plain
threads that nothing blocks for ever, since `waitEvent` has a timeout. `RunEnds`
has the antecedent `WorldGoesOn`: time passes and a leg that was hung up ends, which
PJSIP's transaction timers see to. `CancelEnds` does without. Nothing is assumed of the callee, the registrar or the
media. `RunEnds` therefore has its one exception: step 4 has no deadline for a call
that is answered, never gets audio and is never hung up (`Parked`).

`CallAgentService!FairSpec`: the threads of the handlers and the main thread are
scheduled, a `Write` returns (the client reads or goes away), a run that is cancelled
returns (`CancelEnds`), and time passes. No fairness for the executor's events:
`ServerStops` speaks only of runs that do not go on for ever. In `EventQueue` the
executor calls `waitEvent` again and the holders of the mutex go on; timeouts and
spurious wake-ups are not relied on.

`CallExecutorTimed` assumes more, and says so: a tick is longer than a `waitEvent`,
and the executor does what it can before the clock moves on.

## What the documentation says and the code does not do

Two claims are runs that TLC refutes; `PROJECT.json` quotes the lines.

- `AnsweredStaysAnswered`: an answer that crosses the CANCEL and gets no audio within
  10 s ends as NO_ANSWER, unbilled.
- `CallCountsAsActivity`: between the two statements of `~ActiveGuard` the watchdog takes
  the length of the call for idle time and ends the server.

Other differences met while modelling. The model does what the code does, and the
property or definition named says what that is.

| The code | says otherwise | in the model |
|---|---|---|
| a cancelled run emits no result | `call_agent.proto:20` | `ReturnMatchesStream`, `CallStream` |
| the 600 s cap is reported as SILENCE_DETECTED | `README.md:141` | `Listen`, `HangUp`; `HangsUpOnSilence` is about the time before the cap |
| `record = false` is ignored | `call_agent.proto:93` | `startRecorder` has no such guard |
| a hangup during the answer delay is billed to the end of the delay | `call_agent.proto:148` | `BillingBounded` |
| an audio file that cannot be opened ends the process | `grpc_server.cpp:195` | `PlayThrows`, `CallStream` |
| a call that comes between `setShuttingDown()` and `Shutdown()` is started | `call_agent.proto:41` | `Claim`; `ImplementsApi` shows that it is served to its end |
| an RPC between the two reads of an idle time makes it wrap | `call_agent.proto:45` | `idleSeconds`; `ImplementsApi` shows that no open call is cut off by it |
| `Health` may say BUSY with no active call, or READY with one | `call_agent.proto:40` | `HealthState`, `HealthCount` |
| a silence timeout of more than 4294967 s wraps to a shorter one; a negative threshold is a huge one | `call_agent.proto:90`, `args.cpp:110` | not modelled: `SilenceTimeout` and `Threshold` are the converted values |
| `--caller-id --mode=server` is taken for server mode, so standard input is not read and the call has no audio source; so is every other value spelled like `--mode` | `main.cpp:8` | `isServerMode`, `IsValue`; `ModeAgrees` excludes it |
| a request's port beyond 65535 is cut, to 0 among others, while `parse()` refuses it | `call_agent.proto:58` | `SameCallEitherWay` |
| the JSON line of SILENCE_DETECTED has no seconds | `README.md:79` | `toJson` |
| a clock set back to before the answer ends the call at once and bills an arbitrary number of seconds | `call_executor.cpp:263`, `call_agent.proto:148` | `DifferencesMoveByTheStep` excludes it |
| agents in one directory overwrite each other's `tts_stub.wav` between `synth()` and the player, and a failed write plays an older text | `README.md:67` | `sole`, `WriteFails` |

A variable `AGENT_SIP_PORT` that is no number ends the process with an uncaught
exception (`Verdict`, "abort"); no document says otherwise.

## Proofs

Every safety property that a run checks is a theorem as well, for all values of the
constants: any number of callbacks, RPCs, pushing threads, agents, words and inputs, all
timeouts and widths. The theorem is named in `PROJECT.json`
under "theorems"; here is what each group rests on.

### Assumptions

They are named where the constants are declared, and TLC evaluates them on its
instances.

- `SipAssumption`, `TimeAssumption`, `ConfigAssumption`, `DetectorAssumption`: codes are
  SIP codes, timeouts and bounds are naturals, a second has at least one tick.
- `ServiceAssumption`: the scripts of the executor are legal and complete streams of
  `CallStream`, which is what `RunsAreScripts` shows of `run()`; times are naturals.
- `TtsAssumption`: words and pauses have samples, and `U32`, which stands for 2^32, is even.
- `QueueAssumption`: the receiver and the other threads are different threads.
- `CallClock`: `ClockAssumption`, and `WidthAssumption`: 2^32 seconds fit into 2^64 ms,
  and a call with one step of the clock is shorter than 2^32 seconds, 136 years. Without
  it the bill would be cut to its 32 bits, and the bounds of the bill would be false.
- `AgentConfig`: `WidthAssumption` (the defaults fit into an `int`) and `AbsentAssumption` (what is not given differs from every text, number and
  truth value). `AgentMain`: `InputAssumption`, that options, environments and requests
  have the C++ and protobuf types of their fields; CLI11 and protobuf see to that.

### The executor

- `TypeCorrect`: inductive as it stands. The part that matters is
  `call_connected <= now`, without which a bill would not be a natural number.
- `AnsweredInsideCorrect`: strengthened to `Underway`: while `run()` is under way the
  result has neither bill nor code, no recording before step 5, and status ANSWERED
  once CONFIRMED was read; past step 4 the call is answered and has had audio.
- `OneResultCorrect`, `ReturnMatchesStreamCorrect`: the two support each other.
  `StepKind` shows from `Underway` that every step rests (says nothing), goes on
  (with events that are no results), returns cancelled (saying nothing) or finishes
  (its last event is a result equal to what is returned); `StreamStep` shows that
  each kind keeps both. `Underway` is needed because two of the four places that
  produce a result emit zeros instead of the fields of `result_`.
- `NothingDroppedCorrect`, `AnsweredEarnedCorrect`, `RecordingCompleteCorrect`,
  `LegOwnedCorrect` (`CallExecutorLegProofs`): none is inductive, because each depends on
  what is in the queue. `QueueOrder` says that the queue holds moves of the leg in their
  order and none that the leg has not made; `AnswerSeen`, that CONFIRMED is in the queue
  until `run()` has read it, and that a DISCONNECTED with code 200 comes behind one;
  `LegInv`, that there is no leg before the INVITE and that a leg `run()` is done with is
  hung up; `RecorderInv`, that a recorder is open only where `result_` says so. Every
  step is one of four kinds for the queue (`LegStepKind`: it stands, an event is read,
  one is pushed, the destructor ends the leg), and the invariants are shown for the
  kinds. `Said` adds which event was said last at each statement.
- `RunImplementsStream`: with these, a step that says something is a `Send` of
  `CallStream`, the end of a run that says nothing an `Abandon`, `CancelSet` an `Ask`,
  and everything else a stutter.
- `RunsAreScripts`: what `CallAgentService` and `AgentMain` take the executor for. No legal
  stream is a dead end (`LegalCanEnd`: a way to a result is shown from each state), so
  what `run()` has said is at every moment the beginning of a script; a script is whole
  just when a result is returned (`OneResult`, `ReturnMatchesStream`), and a run returns
  without one only if it was asked to stop.
- `TimedSpec`: a timed behaviour is a behaviour (`TimedRun`), so all of the
  above holds in it. `DeadlinesKeptCorrect` needs `PollInv`: a loop whose `waitEvent` has
  timed out at this instant has compared the clock with its deadline at this instant.
  `BillingBoundedCorrect` needs `BillInv`: between the end of the leg and the reading of
  its DISCONNECTED no time passes but that of the answer delay, which follows from
  `NothingDropped` (the queue is not empty, so `run()` is not waiting) and from `PollInv`
  (the delay is not over); a bill implies that the leg has ended, which is `QueueOrder`;
  and rounding up is monotone.
  `HangsUpOnSilenceCorrect` needs `HeardInv`: while `run()` listens the detector is armed, a
  stretch that it has started began after `loud_at` (so a stretch of the timeout's length
  is silence) and no later than the first instant after it (so that silence is noticed
  when it is due).

### The other components

- `FiresExactlyCorrect`, `KnowsTheStretchCorrect`: an inductive invariant ties `started`
  and `silence_start` to the first sample of the quiet tail of the log.
- `EventQueueProofs`: `QueueInv` ties the mutex to the places of the threads and the
  notification that is still due to the thread that holds the mutex (`NoLostWakeup` is
  a part of it, inductive with the others). `OrderKept` and, step by step,
  `QueueImplementsHandover` follow.
- `CallAgentServiceProofs`: `ServiceInv` says which handler owns `call_active_`, in which
  order executor, queue, `done` and handler go through their places, that what was
  emitted is what was written, then the batch, then the queue, and that an emitted stream
  is a legal one. `OnlyOneExecutor`, `AllHandedOver`, `AnnouncedStaysIntact` and
  `StartedOnce` follow; the last needs that a legal stream has one ANSWERED state.
  `ServiceImplementsApi` maps every step to one of `CallAgentApi` or to a stutter.
  `ReceivedInPhases` is about any two messages on the wire, where `CallStream` is about
  two that follow each other: `LegalOnward` goes from one to the other by induction over
  their distance.
- `CallClockProofs`: `ClockInv` says that the clock shows the mark, the stopwatch and the
  steps together, and how far the stopwatch can have come in each phase; the arithmetic
  modulo 2^64 and 2^32 is in three lemmas about `%` and `\div`.
- `AgentMainProofs`: `AgentInv` says where `config` came from at each place of `main()`,
  and when standard input was read. The properties about the two
  front ends are then facts about the operators of `AgentConfig`. The proof of
  `ModeAgreesCorrect` is why `cliMode` and `Verdict` are chains of `IF`: as a `CASE` with
  guards that overlap they did not say which answer comes first, as the code does.

- `TtsStubProofs`: `samples` is the recursion of the loop over the words. `Wave`, a closed
  form in which a sample sounds if it lies in the first part of a word's period, satisfies
  the equation of the recursion (`WaveStep`), so there is such a function at all, and
  induction over the turns of the loop shows that it is `Wave` (`SamplesAre`). From there
  on the beeps are arithmetic: they begin at the multiples of the period, which are as
  many as the words, by a bijection (`BeepsOf`, `BeepCount`). `DataBytes` shows that
  cutting to 32 bits cuts between two samples, which needs that `U32` is even. `FileInv`
  says that a file only its writer has touched is empty until it is written and is the
  writer's afterwards; it is inductive because whoever opens or writes the file takes
  `sole` away from the others.

Induction over the naturals is used in the form of sets: a set of naturals that holds 0
and the successor of each member is `Nat` (`NaturalInduction`), because its complement
would have a least element (`LeastNatural`, from the library's well-founded relations).
The library's own induction theorems take an operator as a parameter, which the installed
provers cannot instantiate.

### Only model-checked

Liveness: `CancelEnds`, `RunEnds`, `CallsEnd`, `CancelForwarded`, `ServerStops` and
`Prompt` need fairness and `ENABLED`, which are out of the prover's reach.

## Not modelled

- `libRegisterThread` and the options that `init()` sets on the PJSIP endpoint: the
  first only matters inside PJSIP, the second has no state of the program's own.
- `Config::toString()`, the texts of errors and logs, time stamps, the text of JSON and
  the names of statuses: formatting that no decision depends on.
- The bytes of the WAV header that are constants, and the sine.
- `onTimeout()`, `CallResult` and the internal event types TIMEOUT, CANCEL and
  HANGUP_DONE: declared, and used by nothing.

## Plan

1. Done: the executor with its agent and its abstract specification; the service and
   its abstract specification; configuration and entry point; the event queue and its
   abstract specification; the clock; the TTS stub.
2. Done: proofs of all safety properties and refinements, and that the executor keeps
   what the service and `main()` assume of it.
3. Open: the liveness properties for every value of the constants, which takes a prover
   with `ENABLED`; the executor and the event queue in one specification, without the
   hand-over between them.
