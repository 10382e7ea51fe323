----------------------------- MODULE AgentMain ------------------------------
(***************************************************************************)
(* The process: main() in its two modes, up to the Config with which a     *)
(* call is made, and in cli mode on to the last line it prints and its     *)
(* exit code.  In server mode the RPCs' side is the module                 *)
(* CallAgentService; here a request only has to become a Config.  run() is *)
(* the stream contract of the module CallStream, and nobody cancels it.    *)
(***************************************************************************)
EXTENDS AgentConfig, EventMapping

CONSTANTS
    Inputs,      \* the command lines, environments and lines to start with
    Envs,        \* the environments among them
    Requests,    \* CallRequests that clients send
    Runs         \* what a run() may emit, and what it then returns

Stream == INSTANCE CallStream WITH stream <- <<>>, asked <- FALSE, outcome <- ""

ASSUME InputAssumption ==
    /\ Inputs \subseteq [argv : Seq(STRING), flags : Flags, env : Environments, line : Lines]
    /\ Envs \subseteq Environments
    /\ Requests \subseteq CallRequests
    /\ Runs \subseteq [stream : Seq(Stream!Item), returned : CallStatus]

VARIABLES
    input,       \* [argv, flags, env, line]
    phase,       \* where main() is
    stdin_read,  \* has std::getline been called?
    request,     \* the CallRequest the call comes from; None: none
    config,      \* the Config of the process, then of the call
    printed,     \* the lines on standard output
    exit         \* exit code; None: still running

vars == <<input, phase, stdin_read, request, config, printed, exit>>

Init ==
    /\ input \in Inputs
    /\ phase = "main"
    /\ stdin_read = FALSE
    /\ request = None
    /\ config = None
    /\ printed = <<>>
    /\ exit = None

\* CLI11's own codes are all above 99; std::terminate is signal 6.
CLI11 == 100
Aborted == 128 + 6

Exit(code) ==
    /\ phase' = "over"
    /\ exit' = code

\* A lone --version is answered before anything else; the audio source is
\* read unless the command line looks like server mode.
Main ==
    /\ phase = "main"
    /\ IF input.argv = <<"--version">>
       THEN Exit(0) /\ UNCHANGED stdin_read
       ELSE /\ phase' = "parse"
            /\ stdin_read' = ~ isServerMode(input.argv)
            /\ UNCHANGED exit
    /\ UNCHANGED <<input, request, config, printed>>

Line == IF stdin_read THEN input.line ELSE [type |-> Empty, text |-> Empty]

Parse ==
    /\ phase = "parse"
    /\ LET verdict == Verdict(input.argv, input.flags, input.env, Line)
           result == Parsed(input.argv, input.flags, input.env, Line)
       IN  CASE verdict = "config" ->
                    /\ config' = result
                    /\ phase' = IF result.mode = "server" THEN "serve" ELSE "call"
                    /\ UNCHANGED exit
             [] verdict = "error" -> Exit(2) /\ UNCHANGED config
             [] verdict = "usage" -> Exit(CLI11) /\ UNCHANGED config
             [] verdict = "version" -> Exit(0) /\ UNCHANGED config
             [] OTHER -> Exit(Aborted) /\ UNCHANGED config
    /\ UNCHANGED <<input, stdin_read, request, printed>>

\* ExecuteCall: an invalid request changes nothing.
Request ==
    /\ phase = "serve"
    /\ \E req \in Requests :
          /\ validate(req)
          /\ request' = req
          /\ config' = makeCallConfig(config, req)
    /\ phase' = "called"
    /\ UNCHANGED <<input, stdin_read, printed, exit>>

\* The run has emitted what is printed.
Emitted(run) ==
    /\ Len(printed) <= Len(run.stream)
    /\ \A i \in DOMAIN printed : printed[i].item = run.stream[i]

\* cli mode: the sink prints.
SinkPrints ==
    /\ phase = "call"
    /\ \E run \in Runs, flag \in BOOLEAN :
          /\ Emitted(run)
          /\ Len(printed) < Len(run.stream)
          /\ LET item == run.stream[Len(printed) + 1]
                 ev == MakeEvent(item.status, FALSE, 0, 0, flag)
             IN  /\ result_event(ev) = item.final
                 /\ printed' = Append(printed, [item |-> item, json |-> toJson(ev)])
    /\ UNCHANGED <<input, phase, stdin_read, request, config, exit>>

\* run() returns, and the process with the code of what it returned.
Return ==
    /\ phase = "call"
    /\ \E run \in Runs :
          /\ Emitted(run)
          /\ Len(printed) = Len(run.stream)
          /\ Exit(statusToExitCode(run.returned))
    /\ UNCHANGED <<input, stdin_read, request, config, printed>>

\* An exception leaves run().
Throw ==
    /\ phase = "call"
    /\ ~ (printed # <<>> /\ printed[Len(printed)].item.final)
    /\ Exit(Aborted)
    /\ UNCHANGED <<input, stdin_read, request, config, printed>>

Over == phase \in {"over", "serve", "called"} /\ UNCHANGED vars

Next == Main \/ Parse \/ Request \/ SinkPrints \/ Return \/ Throw \/ Over

Spec == Init /\ [][Next]_vars
-----------------------------------------------------------------------------
(* Correctness.                                                            *)

\* The value of an option is not spelled like --mode.
Unmistaken(argv) ==
    \A i \in DOMAIN argv : IsValue(argv, i) => argv[i] \notin ModeWords

\* Two pieces of code read --mode, isServerMode() and the parser, and main()
\* acts on both: a server has not waited for standard input, a cli call has
\* read its line (the comment at main.cpp:8).  isServerMode() does not know
\* which words are values, so this needs values that do not look like --mode.
ModeAgrees ==
    Unmistaken(input.argv) =>
        /\ phase \in {"serve", "called"} => ~ stdin_read
        /\ phase = "call" => stdin_read

\* Whatever the source of the Config, a command line with its environment or a
\* CallRequest, no call starts without a server, an account, a password and a
\* destination.
CallsAreComplete ==
    phase \in {"call", "called"} =>
        \A name \in {"host", "user", "pass", "dest"} : config[name] \notin {Empty, None}

\* "CLI flag beats ENV" (args.cpp:124), as non-interference: what the variables
\* say of options that are on the command line changes neither how parse() ends
\* nor the Config, even if the variable cannot be parsed.
FlagsBeatEnvironment ==
    phase # "main" =>
        \A env \in Envs :
            LET Asked(name) == /\ input.flags[name] # None
                               /\ name # "port" => input.flags[name] # Empty
                How(e) == Verdict(input.argv, input.flags, e, Line)
                What(e) == Parsed(input.argv, input.flags, e, Line)
            IN  (\A name \in {"host", "user", "dest", "port"} :
                    ~ Asked(name) => env[name] = input.env[name])
                /\ env.pass = input.env.pass
                => /\ How(env) = How(input.env)
                   /\ How(env) = "config" => What(env) = What(input.env)

\* The command line that asks for what a CallRequest asks for.
FlagsOf(req) ==
    LET Given(value) == IF value = 0 THEN None ELSE value
    IN  [host |-> req.host, user |-> req.user, dest |-> req.dest,
         port |-> Given(req.port), answer_delay_s |-> Given(req.answer_delay_s),
         transport |-> IF req.transport = Empty THEN None ELSE req.transport,
         silence_s |-> Given(req.silence_s), record |-> req.record,
         threshold |-> config.threshold, log_level |-> None]

EnvOf(req) ==
    [host |-> None, user |-> None, dest |-> None, port |-> None, pass |-> req.pass]

\* The two front ends make the same call of the same wishes: the Config of a
\* CallRequest is the one parse() makes of the command line that says the same,
\* defaults included, and parse() refuses only a port beyond 16 bits (a port
\* that no int holds is refused by CLI11 before that).
SameCallEitherWay ==
    phase = "called" =>
        LET how == Verdict(<<>>, FlagsOf(request), EnvOf(request), request.audio)
            what == Parsed(<<>>, FlagsOf(request), EnvOf(request), request.audio)
        IN  IF request.port < U16 THEN how = "config" /\ what = config
            ELSE how = "error"
=============================================================================
