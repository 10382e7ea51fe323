--------------------------- MODULE AgentMainProofs ---------------------------
(***************************************************************************)
(* The properties of AgentMain for every command line, environment, line   *)
(* on standard input, request and run.  The invariant keeps where the      *)
(* Config of a call comes from; what it says then follows from lemmas      *)
(* about the operators of AgentConfig, of which the agreement of the two   *)
(* readers of --mode is the one with an argument of its own.               *)
(***************************************************************************)
EXTENDS AgentMain, TLAPS

-----------------------------------------------------------------------------
(* --mode, read twice.                                                     *)

\* The positions at which CLI11 sees --mode.
Given(argv) == {i \in DOMAIN argv : ~ IsValue(argv, i) /\ argv[i] \in ModeWords}

\* The positions that isServerMode() stops at.
Words(argv, i) == argv[i] = "--mode" /\ i < Len(argv)
Decides(argv, i) == Words(argv, i) \/ argv[i] = "--mode=server"

ModeValue(argv, i) ==
    CASE argv[i] = "--mode=cli"    -> "cli"
      [] argv[i] = "--mode=server" -> "server"
      [] OTHER                     -> argv[i + 1]

\* A command line that CLI11 makes a mode of either has no --mode, or exactly
\* one and a value for it.
LEMMA ModeIsUnique ==
    ASSUME NEW argv \in Seq(STRING), cliMode(argv) \in {"cli", "server"}
    PROVE  \/ Given(argv) = {} /\ cliMode(argv) = "cli"
           \/ \E g \in Given(argv) :
                 /\ \A i \in Given(argv) : i = g
                 /\ argv[g] = "--mode" => g + 1 \in DOMAIN argv
                 /\ cliMode(argv) = ModeValue(argv, g)
<1> DEFINE Options == {i \in DOMAIN argv : ~ IsValue(argv, i)}
           Valueless == \E i \in Options : i = Len(argv) /\ Takes(argv[i])
           Stray == \E i \in Options : argv[i] \in {"cli", "server", "fax"}
           Version == \E i \in Options : argv[i] = "--version"
           Twice == \/ \E i, j \in Given(argv) : i # j
                    \/ \E i, j \in Options :
                          i # j /\ argv[i] = "--caller-id" /\ argv[j] = "--caller-id"
<1>0. Given(argv) = {i \in Options : argv[i] \in ModeWords}
  BY DEF Given
<1>1. cliMode(argv) =
        IF Valueless THEN "usage"
        ELSE IF Version THEN "version"
        ELSE IF Stray \/ Twice THEN "usage"
        ELSE IF Given(argv) = {} THEN "cli"
        ELSE ModeValue(argv, CHOOSE i \in Given(argv) : TRUE)
  BY <1>0 DEF cliMode, ModeValue
<1> HIDE DEF Valueless, Version, Stray, Twice
<1>2. ~ Valueless /\ ~ Version /\ ~ Stray /\ ~ Twice
  BY <1>1
<1>3. cliMode(argv) = IF Given(argv) = {} THEN "cli"
                      ELSE ModeValue(argv, CHOOSE i \in Given(argv) : TRUE)
  BY <1>1, <1>2
<1>4. CASE Given(argv) = {}
  BY <1>3, <1>4
<1>5. CASE Given(argv) # {}
  <2> DEFINE g == CHOOSE i \in Given(argv) : TRUE
  <2>1. g \in Given(argv)
    BY <1>5
  <2>2. cliMode(argv) = ModeValue(argv, g)
    BY <1>3, <1>5
  <2> HIDE DEF g
  <2>3. \A i \in Given(argv) : i = g
    BY <1>2, <2>1 DEF Twice
  <2>4. argv[g] = "--mode" => g + 1 \in DOMAIN argv
    <3>1. g \in Options /\ g \in 1 .. Len(argv) /\ Len(argv) \in Nat
      BY <2>1 DEF Given
    <3>2. argv[g] = "--mode" => g # Len(argv)
      BY <1>2, <3>1 DEF Valueless, Takes
    <3> QED BY <3>1, <3>2
  <2> QED BY <2>1, <2>2, <2>3, <2>4
<1> QED BY <1>4, <1>5

\* isServerMode() and CLI11 agree on every command line that CLI11 accepts and in
\* which no value is spelled like --mode.
LEMMA ModesAgree ==
    ASSUME NEW argv \in Seq(STRING), cliMode(argv) \in {"cli", "server"},
           Unmistaken(argv)
    PROVE  isServerMode(argv) <=> cliMode(argv) = "server"
<1>1. isServerMode(argv) <=>
        \E i \in DOMAIN argv :
            /\ Decides(argv, i)
            /\ \A j \in 1 .. (i - 1) : ~ Decides(argv, j)
            /\ Words(argv, i) => argv[i + 1] = "server"
  BY DEF isServerMode, Decides, Words
<1>2. \A i \in DOMAIN argv : Decides(argv, i) => i \in Given(argv)
  BY DEF Decides, Words, Given, Unmistaken, ModeWords
<1>3. CASE Given(argv) = {} /\ cliMode(argv) = "cli"
  <2>1. ~ isServerMode(argv)
    BY <1>1, <1>2, <1>3
  <2> QED BY <1>3, <2>1
<1>4. CASE \E g \in Given(argv) :
              /\ \A i \in Given(argv) : i = g
              /\ argv[g] = "--mode" => g + 1 \in DOMAIN argv
              /\ cliMode(argv) = ModeValue(argv, g)
  <2>1. PICK g \in Given(argv) :
              /\ \A i \in Given(argv) : i = g
              /\ argv[g] = "--mode" => g + 1 \in DOMAIN argv
              /\ cliMode(argv) = ModeValue(argv, g)
    BY <1>4
  <2>2. g \in DOMAIN argv /\ argv[g] \in {"--mode", "--mode=cli", "--mode=server"}
    BY DEF Given, ModeWords
  <2>3. \A j \in 1 .. (g - 1) : ~ Decides(argv, j)
    <3>1. \A j \in 1 .. (g - 1) : j \in DOMAIN argv /\ j # g
      BY <2>2
    <3> QED BY <1>2, <2>1, <3>1
  <2>4. isServerMode(argv) <=>
           Decides(argv, g) /\ (Words(argv, g) => argv[g + 1] = "server")
    BY <1>1, <1>2, <2>1, <2>2, <2>3
  <2>5. CASE argv[g] = "--mode=cli"
    BY <2>1, <2>4, <2>5 DEF Decides, Words, ModeValue
  <2>6. CASE argv[g] = "--mode=server"
    BY <2>1, <2>4, <2>6 DEF Decides, Words, ModeValue
  <2>7. CASE argv[g] = "--mode"
    <3>1. g < Len(argv)
      BY <2>1, <2>2, <2>7
    <3>2. cliMode(argv) = argv[g + 1]
      BY <2>1, <2>7 DEF ModeValue
    <3> QED BY <2>4, <2>7, <3>1, <3>2 DEF Decides, Words
  <2> QED BY <2>2, <2>5, <2>6, <2>7
<1> QED BY <1>3, <1>4, ModeIsUnique

-----------------------------------------------------------------------------
(* parse().                                                                *)

\* A Config comes back only when the mode exists, the port is one, the enums
\* are known and, in cli mode, nothing that is needed is missing.
LEMMA VerdictIsConfig ==
    ASSUME NEW argv, NEW flags, NEW env, NEW line
    PROVE  Verdict(argv, flags, env, line) = "config"
           => /\ cliMode(argv) \in {"cli", "server"}
              /\ cliMode(argv) = "cli" => ~ Missing(flags, env)
<1> DEFINE v == Verdict(argv, flags, env, line)
           mode == cliMode(argv)
<1>1. CASE mode \in {"version", "usage"}
  BY <1>1 DEF Verdict
<1>2. CASE mode \notin {"version", "usage"} /\ mode \notin {"cli", "server"}
  BY <1>2 DEF Verdict
<1>3. CASE mode \in {"cli", "server"}
  BY <1>3 DEF Verdict
<1> QED BY <1>1, <1>2, <1>3

\* Two environments that differ only in what the command line overrides lead
\* to the same texts and the same port.
LEMMA OverriddenIsUnread ==
    ASSUME NEW flags, NEW env, NEW other,
           \A name \in {"host", "user", "dest", "port"} :
              ~ (/\ flags[name] # None
                 /\ name # "port" => flags[name] # Empty) => other[name] = env[name],
           other.pass = env.pass
    PROVE  /\ FlagOrEnv(flags.host, other.host) = FlagOrEnv(flags.host, env.host)
           /\ FlagOrEnv(flags.user, other.user) = FlagOrEnv(flags.user, env.user)
           /\ FlagOrEnv(flags.dest, other.dest) = FlagOrEnv(flags.dest, env.dest)
           /\ FlagOrEnv(None, other.pass) = FlagOrEnv(None, env.pass)
           /\ PortFrom(flags, other) = PortFrom(flags, env)
<1>1. ~ (flags.host # None /\ flags.host # Empty) => other.host = env.host
  OBVIOUS
<1>2. ~ (flags.user # None /\ flags.user # Empty) => other.user = env.user
  OBVIOUS
<1>3. ~ (flags.dest # None /\ flags.dest # Empty) => other.dest = env.dest
  OBVIOUS
<1>4. flags.port = None => other.port = env.port
  OBVIOUS
<1> QED BY <1>1, <1>2, <1>3, <1>4 DEF FlagOrEnv, PortFrom

\* ... and so to the same end of parse() and the same Config.
LEMMA SameTextsSameConfig ==
    ASSUME NEW argv, NEW flags, NEW env, NEW other, NEW line,
           FlagOrEnv(flags.host, other.host) = FlagOrEnv(flags.host, env.host),
           FlagOrEnv(flags.user, other.user) = FlagOrEnv(flags.user, env.user),
           FlagOrEnv(flags.dest, other.dest) = FlagOrEnv(flags.dest, env.dest),
           FlagOrEnv(None, other.pass) = FlagOrEnv(None, env.pass),
           PortFrom(flags, other) = PortFrom(flags, env)
    PROVE  /\ Verdict(argv, flags, other, line) = Verdict(argv, flags, env, line)
           /\ Parsed(argv, flags, other, line) = Parsed(argv, flags, env, line)
<1>1. Missing(flags, other) <=> Missing(flags, env)
  BY DEF Missing
<1>2. Verdict(argv, flags, other, line) = Verdict(argv, flags, env, line)
  BY <1>1 DEF Verdict
<1>3. Parsed(argv, flags, other, line) = Parsed(argv, flags, env, line)
  BY DEF Parsed
<1> QED BY <1>2, <1>3

-----------------------------------------------------------------------------
(* The process.                                                            *)

HowParsed == Verdict(input.argv, input.flags, input.env, Line)
WhatParsed == Parsed(input.argv, input.flags, input.env, Line)

\* main() is at one of its places, and has its arguments.
PlaceInv ==
    /\ input \in Inputs
    /\ phase \in {"main", "parse", "serve", "call", "called", "over"}

\* The audio source was read on isServerMode()'s word.
StdinInv ==
    phase \in {"parse", "serve", "call", "called"} =>
        (stdin_read <=> ~ isServerMode(input.argv))

\* Where a Config comes from.
ConfigInv ==
    /\ phase \in {"serve", "call", "called"} => HowParsed = "config"
    /\ phase = "serve" => config = WhatParsed /\ cliMode(input.argv) = "server"
    /\ phase = "call" => config = WhatParsed /\ cliMode(input.argv) = "cli"
    /\ phase = "called" =>
          /\ request \in Requests /\ validate(request)
          /\ config = makeCallConfig(WhatParsed, request)
          /\ cliMode(input.argv) = "server"

AgentInv == PlaceInv /\ StdinInv /\ ConfigInv

\* The arguments have their types.
LEMMA InputTypes ==
    ASSUME input \in Inputs
    PROVE  /\ input.argv \in Seq(STRING)
           /\ input.flags \in Flags
           /\ input.env \in Environments
           /\ input.line \in Lines
BY InputAssumption

\* Nothing is configured when main() begins.
LEMMA AgentInit == Init => AgentInv
BY DEF Init, AgentInv, PlaceInv, StdinInv, ConfigInv

\* main() up to parse().
LEMMA MainKeeps == AgentInv /\ Main => AgentInv'
<1> SUFFICES ASSUME AgentInv, Main PROVE AgentInv'
  OBVIOUS
<1>1. /\ phase = "main" /\ input' = input
      /\ \/ phase' = "over"
         \/ phase' = "parse" /\ (stdin_read' <=> ~ isServerMode(input.argv))
  BY DEF Main, Exit
<1> QED BY <1>1 DEF AgentInv, PlaceInv, StdinInv, ConfigInv

\* parse(): a Config and a mode, or an exit code.
LEMMA ParseKeeps == AgentInv /\ Parse => AgentInv'
<1> SUFFICES ASSUME AgentInv, Parse PROVE AgentInv'
  OBVIOUS
<1>1. phase = "parse" /\ UNCHANGED <<input, stdin_read, request>>
  BY DEF Parse
<1>2. Line' = Line /\ HowParsed' = HowParsed /\ WhatParsed' = WhatParsed
  BY <1>1 DEF Line, HowParsed, WhatParsed
<1>3. \/ phase' = "over"
      \/ /\ HowParsed = "config" /\ config' = WhatParsed
         /\ phase' = IF WhatParsed.mode = "server" THEN "serve" ELSE "call"
  BY DEF Parse, Exit, HowParsed, WhatParsed
<1>4. CASE phase' = "over"
  BY <1>1, <1>4 DEF AgentInv, PlaceInv, StdinInv, ConfigInv
<1>5. CASE /\ HowParsed = "config" /\ config' = WhatParsed
           /\ phase' = IF WhatParsed.mode = "server" THEN "serve" ELSE "call"
  <2>1. WhatParsed.mode = cliMode(input.argv)
    BY DEF WhatParsed, Parsed
  <2>2. cliMode(input.argv) \in {"cli", "server"}
    BY <1>5, VerdictIsConfig DEF HowParsed
  <2>3. \/ phase' = "serve" /\ cliMode(input.argv) = "server"
        \/ phase' = "call" /\ cliMode(input.argv) = "cli"
    BY <1>5, <2>1, <2>2
  <2>4. PlaceInv' /\ StdinInv'
    BY <1>1, <2>3 DEF AgentInv, PlaceInv, StdinInv
  <2>5. ConfigInv'
    BY <1>1, <1>2, <1>5, <2>3 DEF ConfigInv
  <2> QED BY <2>4, <2>5 DEF AgentInv
<1> QED BY <1>3, <1>4, <1>5

\* A request becomes the Config of a call.
LEMMA RequestKeeps == AgentInv /\ Request => AgentInv'
<1> SUFFICES ASSUME AgentInv, Request PROVE AgentInv'
  OBVIOUS
<1>1. phase = "serve" /\ phase' = "called" /\ UNCHANGED <<input, stdin_read>>
  BY DEF Request
<1>2. PICK req \in Requests :
         validate(req) /\ request' = req /\ config' = makeCallConfig(config, req)
  BY DEF Request
<1>3. Line' = Line /\ HowParsed' = HowParsed /\ WhatParsed' = WhatParsed
  BY <1>1 DEF Line, HowParsed, WhatParsed
<1>4. PlaceInv' /\ StdinInv'
  BY <1>1 DEF AgentInv, PlaceInv, StdinInv
<1>5. ConfigInv'
  <2>1. config = WhatParsed /\ HowParsed = "config" /\ cliMode(input.argv) = "server"
    BY <1>1 DEF AgentInv, ConfigInv
  <2> QED BY <1>1, <1>2, <1>3, <2>1 DEF ConfigInv
<1> QED BY <1>4, <1>5 DEF AgentInv

\* The steps of a cli call leave the Config alone.
LEMMA CallKeeps == AgentInv /\ (SinkPrints \/ Return \/ Throw) => AgentInv'
<1> SUFFICES ASSUME AgentInv, SinkPrints \/ Return \/ Throw PROVE AgentInv'
  OBVIOUS
<1>1. /\ phase = "call" /\ phase' \in {"call", "over"}
      /\ UNCHANGED <<input, stdin_read, request, config>>
  BY DEF SinkPrints, Return, Throw, Exit
<1>2. Line' = Line /\ HowParsed' = HowParsed /\ WhatParsed' = WhatParsed
  BY <1>1 DEF Line, HowParsed, WhatParsed
<1>3. PlaceInv' /\ StdinInv'
  BY <1>1 DEF AgentInv, PlaceInv, StdinInv
<1>4. ConfigInv'
  BY <1>1, <1>2 DEF AgentInv, ConfigInv
<1> QED BY <1>3, <1>4 DEF AgentInv

\* Every behaviour of the process keeps the invariant.
THEOREM AgentInvariant == Spec => []AgentInv
<1>1. AgentInv /\ UNCHANGED vars => AgentInv'
  <2> SUFFICES ASSUME AgentInv, UNCHANGED vars PROVE AgentInv'
    OBVIOUS
  <2>0. UNCHANGED <<input, phase, stdin_read, request, config, printed, exit>>
    BY DEF vars
  <2>1. Line' = Line /\ HowParsed' = HowParsed /\ WhatParsed' = WhatParsed
    BY <2>0 DEF Line, HowParsed, WhatParsed
  <2>2. PlaceInv' /\ StdinInv' /\ ConfigInv'
    BY <2>0, <2>1 DEF AgentInv, PlaceInv, StdinInv, ConfigInv
  <2> QED BY <2>2 DEF AgentInv
<1>2. AgentInv /\ [Next]_vars => AgentInv'
  BY <1>1, MainKeeps, ParseKeeps, RequestKeeps, CallKeeps DEF Next, Over
<1> QED BY AgentInit, <1>2, PTL DEF Spec

\* The two readers of --mode in main() never disagree about a process that goes
\* on, unless an option's value is spelled like --mode: a server has not touched
\* standard input, a cli call has read its line.
THEOREM ModeAgreesCorrect == Spec => []ModeAgrees
<1>1. AgentInv => ModeAgrees
  <2> SUFFICES ASSUME AgentInv, Unmistaken(input.argv) PROVE ModeAgrees
    BY DEF ModeAgrees
  <2>1. input.argv \in Seq(STRING)
    BY InputTypes DEF AgentInv, PlaceInv
  <2>2. CASE phase \in {"serve", "called"}
    <3>1. cliMode(input.argv) = "server" /\ (stdin_read <=> ~ isServerMode(input.argv))
      BY <2>2 DEF AgentInv, ConfigInv, StdinInv
    <3>2. isServerMode(input.argv)
      BY <2>1, <3>1, ModesAgree
    <3> QED BY <2>2, <3>1, <3>2 DEF ModeAgrees
  <2>3. CASE phase = "call"
    <3>1. cliMode(input.argv) = "cli" /\ (stdin_read <=> ~ isServerMode(input.argv))
      BY <2>3 DEF AgentInv, ConfigInv, StdinInv
    <3>2. ~ isServerMode(input.argv)
      BY <2>1, <3>1, ModesAgree
    <3> QED BY <2>3, <3>1, <3>2 DEF ModeAgrees
  <2> QED BY <2>2, <2>3 DEF ModeAgrees
<1> QED BY AgentInvariant, <1>1, PTL

\* A variable of the environment that a flag overrides has no influence on
\* parse(), whatever it holds.
THEOREM FlagsBeatEnvironmentCorrect == Spec => []FlagsBeatEnvironment
<1>1. FlagsBeatEnvironment
  <2> SUFFICES ASSUME NEW env \in Envs,
                      \A name \in {"host", "user", "dest", "port"} :
                         ~ (/\ input.flags[name] # None
                            /\ name # "port" => input.flags[name] # Empty)
                         => env[name] = input.env[name],
                      env.pass = input.env.pass
               PROVE  /\ Verdict(input.argv, input.flags, env, Line)
                            = Verdict(input.argv, input.flags, input.env, Line)
                      /\ Parsed(input.argv, input.flags, env, Line)
                            = Parsed(input.argv, input.flags, input.env, Line)
    BY DEF FlagsBeatEnvironment
  <2> QED BY OverriddenIsUnread, SameTextsSameConfig
<1> QED BY <1>1, PTL

-----------------------------------------------------------------------------
(* The Config of a call.                                                   *)

\* What the empty text is not.
LEMMA EmptyIsNone ==
    /\ Empty # "udp" /\ Empty # "tcp" /\ Empty # "tls"
    /\ Empty # "wav" /\ Empty # "text"
BY Zenon DEF Empty

\* A text that was looked for on the command line and in the environment is
\* never absent: at worst it is empty.
LEMMA TextIsThere ==
    ASSUME NEW flag, NEW env PROVE FlagOrEnv(flag, env) # None
BY AbsentAssumption DEF FlagOrEnv

\* The fields of the Config that parse() returns.
LEMMA ParsedFields ==
    ASSUME NEW argv, NEW flags, NEW env, NEW line, NEW c,
           c = Parsed(argv, flags, env, line)
    PROVE  /\ c.host = FlagOrEnv(flags.host, env.host)
           /\ c.user = FlagOrEnv(flags.user, env.user)
           /\ c.pass = FlagOrEnv(None, env.pass)
           /\ c.dest = FlagOrEnv(flags.dest, env.dest)
           /\ c.silence_s = OrDefault(flags.silence_s, 10)
           /\ c.threshold = OrDefault(flags.threshold, 10)
BY DEF Parsed

\* No call starts without a server, an account, a password and a destination,
\* whether its Config comes from parse() or from a CallRequest.
THEOREM CallsAreCompleteCorrect == Spec => []CallsAreComplete
<1>1. AgentInv => CallsAreComplete
  <2> SUFFICES ASSUME AgentInv, phase \in {"call", "called"}
               PROVE  \A name \in {"host", "user", "pass", "dest"} :
                         config[name] \notin {Empty, None}
    BY DEF CallsAreComplete
  <2>1. CASE phase = "call"
    <3>1. config = WhatParsed /\ HowParsed = "config" /\ cliMode(input.argv) = "cli"
      BY <2>1 DEF AgentInv, ConfigInv
    <3>2. ~ Missing(input.flags, input.env)
      BY <3>1, VerdictIsConfig DEF HowParsed
    <3>3. /\ config.host = FlagOrEnv(input.flags.host, input.env.host)
          /\ config.user = FlagOrEnv(input.flags.user, input.env.user)
          /\ config.pass = FlagOrEnv(None, input.env.pass)
          /\ config.dest = FlagOrEnv(input.flags.dest, input.env.dest)
      BY <3>1, ParsedFields DEF WhatParsed
    <3>4. config.host # None /\ config.user # None /\ config.pass # None /\ config.dest # None
      BY <3>3, TextIsThere
    <3>5. config.host # Empty /\ config.user # Empty /\ config.pass # Empty
          /\ config.dest # Empty
      BY <3>2, <3>3 DEF Missing
    <3> QED BY <3>4, <3>5
  <2>2. CASE phase = "called"
    <3>1. request \in Requests /\ validate(request)
          /\ config = makeCallConfig(WhatParsed, request)
      BY <2>2 DEF AgentInv, ConfigInv
    <3>3. config.host = request.host /\ config.user = request.user
          /\ config.pass = request.pass /\ config.dest = request.dest
      BY <3>1 DEF makeCallConfig
    <3>4. request \in CallRequests
      BY <3>1, InputAssumption
    <3>5. request.host \in STRING /\ request.user \in STRING
          /\ request.pass \in STRING /\ request.dest \in STRING
      BY <3>4 DEF CallRequests
    <3>6. request.host # None /\ request.user # None
          /\ request.pass # None /\ request.dest # None
      BY <3>5, AbsentAssumption
    <3>7. request.host # Empty /\ request.user # Empty
          /\ request.pass # Empty /\ request.dest # Empty
      BY <3>1 DEF validate
    <3> QED BY <3>3, <3>6, <3>7
  <2> QED BY <2>1, <2>2
<1> QED BY AgentInvariant, <1>1, PTL

-----------------------------------------------------------------------------
(* The two front ends.                                                     *)

\* An option with a default has the option's type.
LEMMA DefaultTyped ==
    ASSUME NEW T, NEW value \in Option(T), NEW default \in T
    PROVE  OrDefault(value, default) \in T
BY DEF OrDefault, Option

\* No words, no mode: cli.
LEMMA NoWordsIsCli == cliMode(<<>>) = "cli"
BY DEF cliMode

\* The port that parse() takes over from the flags of a request.
LEMMA SamePort ==
    ASSUME NEW req \in CallRequests
    PROVE  LET port == PortFrom(FlagsOf(req), EnvOf(req))
           IN  /\ port \in Int /\ port # NaN
               /\ req.port < U16 => /\ ~ (port < 1 \/ port >= U16)
                                    /\ port % U16 = RequestPort(req)
               /\ req.port >= U16 => port >= U16
<1>1. U16 \in Nat \ {0} /\ DefaultPort \in 1 .. (U16 - 1) /\ None \notin Int /\ NaN \notin Int
  BY WidthAssumption, AbsentAssumption
<1>2. req.port \in Nat
  BY WidthAssumption DEF CallRequests, UInt32
<1> DEFINE port == PortFrom(FlagsOf(req), EnvOf(req))
<1>3. FlagsOf(req).port = IF req.port = 0 THEN None ELSE req.port
  BY DEF FlagsOf
<1>4. EnvOf(req).port = None
  BY DEF EnvOf
<1>5. port = IF req.port = 0 THEN DefaultPort ELSE req.port
  BY <1>1, <1>2, <1>3, <1>4 DEF PortFrom
<1> HIDE DEF port
<1>6. port \in Int /\ port # NaN
  BY <1>1, <1>2, <1>5
<1>7. ASSUME req.port < U16
      PROVE  ~ (port < 1 \/ port >= U16) /\ port % U16 = RequestPort(req)
  <2>1. CASE req.port = 0
    <3>1. port = DefaultPort /\ RequestPort(req) = DefaultPort
      BY <1>5, <2>1 DEF RequestPort
    <3>2. DefaultPort % U16 = DefaultPort
      BY <1>1
    <3> QED BY <1>1, <3>1, <3>2
  <2>2. CASE req.port # 0
    <3>1. port = req.port /\ RequestPort(req) = req.port % U16
      BY <1>5, <2>2 DEF RequestPort
    <3> QED BY <1>1, <1>2, <1>7, <2>2, <3>1
  <2> QED BY <2>1, <2>2
<1>8. ASSUME req.port >= U16 PROVE port >= U16
  BY <1>1, <1>2, <1>5, <1>8
<1> QED BY <1>6, <1>7, <1>8 DEF port

\* The texts that parse() takes over from the flags of a valid request.
LEMMA SameTexts ==
    ASSUME NEW req \in CallRequests, validate(req)
    PROVE  /\ FlagOrEnv(FlagsOf(req).host, EnvOf(req).host) = req.host
           /\ FlagOrEnv(FlagsOf(req).user, EnvOf(req).user) = req.user
           /\ FlagOrEnv(FlagsOf(req).dest, EnvOf(req).dest) = req.dest
           /\ FlagOrEnv(None, EnvOf(req).pass) = req.pass
           /\ ~ Missing(FlagsOf(req), EnvOf(req))
<1>1. req.host \in STRING /\ req.user \in STRING /\ req.dest \in STRING /\ req.pass \in STRING
  BY DEF CallRequests
<1>2. req.host # None /\ req.user # None /\ req.dest # None /\ req.pass # None
  BY <1>1, AbsentAssumption
<1>3. req.host # Empty /\ req.user # Empty /\ req.dest # Empty /\ req.pass # Empty
  BY DEF validate
<1>4. FlagsOf(req).host = req.host /\ FlagsOf(req).user = req.user /\ FlagsOf(req).dest = req.dest
  BY DEF FlagsOf
<1>5. EnvOf(req).pass = req.pass
  BY DEF EnvOf
<1>6. /\ FlagOrEnv(FlagsOf(req).host, EnvOf(req).host) = req.host
      /\ FlagOrEnv(FlagsOf(req).user, EnvOf(req).user) = req.user
      /\ FlagOrEnv(FlagsOf(req).dest, EnvOf(req).dest) = req.dest
      /\ FlagOrEnv(None, EnvOf(req).pass) = req.pass
  BY <1>2, <1>3, <1>4, <1>5 DEF FlagOrEnv
<1> QED BY <1>3, <1>6 DEF Missing

\* The transport, the numbers and the recording flag, absent or defaulted.
LEMMA SameOptions ==
    ASSUME NEW req \in CallRequests, config.threshold # None
    PROVE  /\ OrDefault(FlagsOf(req).transport, "udp") =
                 IF req.transport \in {"tcp", "tls"} THEN req.transport ELSE "udp"
           /\ FlagsOf(req).transport \in {None, "udp", "tcp", "tls"}
           /\ OrDefault(FlagsOf(req).answer_delay_s, 1) =
                 IF req.answer_delay_s = 0 THEN 1 ELSE req.answer_delay_s
           /\ OrDefault(FlagsOf(req).silence_s, 10) =
                 IF req.silence_s = 0 THEN 10 ELSE req.silence_s
           /\ OrDefault(FlagsOf(req).record, TRUE) = req.record
           /\ OrDefault(FlagsOf(req).threshold, 10) = config.threshold
           /\ FlagsOf(req).log_level = None
<1>1. /\ FlagsOf(req).transport = IF req.transport = Empty THEN None ELSE req.transport
      /\ FlagsOf(req).answer_delay_s = IF req.answer_delay_s = 0 THEN None ELSE req.answer_delay_s
      /\ FlagsOf(req).silence_s = IF req.silence_s = 0 THEN None ELSE req.silence_s
      /\ FlagsOf(req).record = req.record
      /\ FlagsOf(req).threshold = config.threshold
      /\ FlagsOf(req).log_level = None
  BY DEF FlagsOf
<1>2. req.transport \in {Empty, "udp", "tcp", "tls"} /\ req.record \in BOOLEAN
      /\ req.answer_delay_s \in Int /\ req.silence_s \in Int
  BY WidthAssumption DEF CallRequests, UInt32
<1>3. "udp" # None /\ "tcp" # None /\ "tls" # None
  BY AbsentAssumption
<1>4. req.record # None /\ req.answer_delay_s # None /\ req.silence_s # None
  BY <1>2, AbsentAssumption
<1>5. /\ OrDefault(FlagsOf(req).transport, "udp") =
            IF req.transport \in {"tcp", "tls"} THEN req.transport ELSE "udp"
      /\ FlagsOf(req).transport \in {None, "udp", "tcp", "tls"}
  BY <1>1, <1>2, <1>3, EmptyIsNone DEF OrDefault
<1>6. /\ OrDefault(FlagsOf(req).answer_delay_s, 1) =
            IF req.answer_delay_s = 0 THEN 1 ELSE req.answer_delay_s
      /\ OrDefault(FlagsOf(req).silence_s, 10) =
            IF req.silence_s = 0 THEN 10 ELSE req.silence_s
  BY <1>1, <1>4 DEF OrDefault
<1>7. OrDefault(FlagsOf(req).record, TRUE) = req.record
  BY <1>1, <1>4, Zenon DEF OrDefault
<1>8. OrDefault(FlagsOf(req).threshold, 10) = config.threshold
  BY <1>1 DEF OrDefault
<1> QED BY <1>1, <1>5, <1>6, <1>7, <1>8

\* A CallRequest and the command line that asks for the same make the same
\* call: the Configs of makeCallConfig() and of parse() are equal.
THEOREM SameCallEitherWayCorrect == Spec => []SameCallEitherWay
<1>0. 10 \in Int32
  <2>1. U32 \in Nat /\ U32 \div 2 \in Int /\ 10 < U32 \div 2
    BY WidthAssumption
  <2> QED BY <2>1 DEF Int32
<1>1. AgentInv => SameCallEitherWay
  <2> SUFFICES ASSUME AgentInv, phase = "called" PROVE SameCallEitherWay
    BY DEF SameCallEitherWay
  <2> DEFINE flags == FlagsOf(request)
             env == EnvOf(request)
             how == Verdict(<<>>, flags, env, request.audio)
             what == Parsed(<<>>, flags, env, request.audio)
  <2>1. request \in Requests /\ validate(request)
        /\ config = makeCallConfig(WhatParsed, request)
    BY DEF AgentInv, ConfigInv
  <2>2. request \in CallRequests
    BY <2>1, InputAssumption
  <2>3. config.threshold # None
    <3>1. config.threshold = OrDefault(input.flags.threshold, 10)
      BY <2>1, ParsedFields DEF makeCallConfig, WhatParsed
    <3>2. input.flags.threshold \in Option(Int32)
      BY InputTypes DEF AgentInv, PlaceInv, Flags
    <3>3. config.threshold \in Int32
      BY <1>0, <3>1, <3>2, DefaultTyped
    <3>4. config.threshold \in Int
      BY <3>3, WidthAssumption DEF Int32
    <3> QED BY <3>4, AbsentAssumption
  <2>4. request.audio.type \in {Empty, "wav", "text"}
    BY <2>2 DEF CallRequests
  <2>5. U16 \in Nat /\ request.port \in Nat
    BY <2>2, WidthAssumption DEF CallRequests, UInt32
  <2> DEFINE port == PortFrom(flags, env)
  <2>6. /\ port \in Int /\ port # NaN
        /\ request.port < U16 => /\ ~ (port < 1 \/ port >= U16)
                                 /\ port % U16 = RequestPort(request)
        /\ request.port >= U16 => port >= U16
    BY <2>2, SamePort
  <2>7. ~ Missing(flags, env)
    BY <2>1, <2>2, SameTexts
  <2>8. flags.transport \in {None, "udp", "tcp", "tls"} /\ flags.log_level = None
    BY <2>2, <2>3, SameOptions
  <2>9. how = IF port < 1 \/ port >= U16 THEN "error" ELSE "config"
    <3> HIDE DEF flags, env, port
    <3> QED BY <2>4, <2>6, <2>7, <2>8, NoWordsIsCli DEF Verdict, port
  <2>10. ASSUME request.port < U16 PROVE what = config
    <3>1. /\ FlagOrEnv(flags.host, env.host) = request.host
          /\ FlagOrEnv(flags.user, env.user) = request.user
          /\ FlagOrEnv(flags.dest, env.dest) = request.dest
          /\ FlagOrEnv(None, env.pass) = request.pass
      BY <2>1, <2>2, SameTexts
    <3>2. PortFrom(flags, env) % U16 = RequestPort(request)
      BY <2>6, <2>10
    <3>3. /\ OrDefault(flags.transport, "udp") =
                 IF request.transport \in {"tcp", "tls"} THEN request.transport ELSE "udp"
          /\ OrDefault(flags.answer_delay_s, 1) =
                 IF request.answer_delay_s = 0 THEN 1 ELSE request.answer_delay_s
          /\ OrDefault(flags.silence_s, 10) =
                 IF request.silence_s = 0 THEN 10 ELSE request.silence_s
          /\ OrDefault(flags.record, TRUE) = request.record
          /\ OrDefault(flags.threshold, 10) = config.threshold
      BY <2>2, <2>3, SameOptions
    <3>4. config.threshold = WhatParsed.threshold
      BY <2>1 DEF makeCallConfig
    <3> HIDE DEF flags, env
    <3> QED BY <2>1, <3>1, <3>2, <3>3, <3>4, NoWordsIsCli DEF Parsed, makeCallConfig
  <2> HIDE DEF port
  <2>11. CASE request.port < U16
    <3>1. how = "config" /\ what = config
      BY <2>6, <2>9, <2>10, <2>11
    <3> QED BY <2>11, <3>1 DEF SameCallEitherWay
  <2>12. CASE request.port >= U16
    <3>1. how = "error" /\ ~ (request.port < U16)
      BY <2>5, <2>6, <2>9, <2>12
    <3> QED BY <3>1 DEF SameCallEitherWay
  <2> QED BY <2>5, <2>11, <2>12
<1> QED BY AgentInvariant, <1>1, PTL
=============================================================================
