---------------------------- MODULE AgentConfig -----------------------------
(***************************************************************************)
(* From a command line, an environment and a line on standard input, or    *)
(* from a CallRequest, to the Config of one call: args.cpp, validate() and *)
(* makeCallConfig() of grpc_server.cpp, isServerMode() of main.cpp, as     *)
(* operators.  A text is one of a few values, Empty where it is empty; None*)
(* stands for an option, a variable or a field that is not there.  Numbers *)
(* keep the width of their C++ types.                                      *)
(***************************************************************************)
EXTENDS Integers, Sequences

CONSTANTS
    U16, U32,        \* 2^16 and 2^32
    DefaultPort,     \* 5060
    None,            \* not there
    NaN              \* text where a number should be

ASSUME WidthAssumption ==
    /\ U16 \in Nat \ {0}
    /\ U32 \in Nat \ {0}
    /\ DefaultPort \in 1 .. (U16 - 1)
    /\ 10 < U32 \div 2      \* the defaults fit

Empty == ""

\* What is not there is no text, not even the empty one, and no number.
ASSUME AbsentAssumption ==
    /\ None \notin STRING /\ None \notin Int /\ None \notin BOOLEAN
    /\ None \notin {Empty, "udp", "tcp", "tls"}
    /\ NaN \notin Int /\ NaN # None

-----------------------------------------------------------------------------
(* What comes from outside, with the C++ and protobuf types of its fields. *)

UInt32 == 0 .. (U32 - 1)
Int32  == (-(U32 \div 2)) .. (U32 \div 2 - 1)

Option(type) == type \cup {None}

Flags ==
    [host : Option(STRING), user : Option(STRING), dest : Option(STRING),
     port : Option(Int32), transport : Option(STRING),
     answer_delay_s : Option(UInt32), silence_s : Option(UInt32),
     record : Option(BOOLEAN), threshold : Option(Int32), log_level : Option(Int32)]

Environments ==
    [host : Option(STRING), user : Option(STRING), pass : Option(STRING),
     dest : Option(STRING), port : Option(Int32 \cup {NaN})]

Lines == [type : STRING, text : STRING]

CallRequests ==
    [call_id : STRING, has_sip : BOOLEAN, user : STRING, pass : STRING,
     host : STRING, dest : STRING, port : UInt32,
     transport : {Empty, "udp", "tcp", "tls"},
     answer_delay_s : UInt32, silence_s : UInt32, record : BOOLEAN,
     audio : [type : {Empty, "wav", "text"}, text : STRING]]

-----------------------------------------------------------------------------
(* The command line: the words of --mode and --version; --caller-id, which *)
(* is in no Config below, for the options with a value of their own word;  *)
(* "other" for an option with its value in one word; "fax" is a mode that  *)
(* does not exist.  What the other options say is a record of its own,     *)
(* flags.                                                                  *)

\* Only the two-word form is recognised (mutant).
isServerModeWordsOnly(argv) ==
    \E i \in DOMAIN argv :
        argv[i] = "--mode" /\ i < Len(argv) /\ argv[i + 1] = "server"

\* main.cpp: the first --mode decides, before the parser has seen anything.
isServerMode(argv) ==
    LET Words(i) == argv[i] = "--mode" /\ i < Len(argv)
        Decides(i) == Words(i) \/ argv[i] = "--mode=server"
    IN  \E i \in DOMAIN argv :
            /\ Decides(i)
            /\ \A j \in 1 .. (i - 1) : ~ Decides(j)
            /\ Words(i) => argv[i + 1] = "server"

ModeWords == {"--mode", "--mode=cli", "--mode=server"}

\* The options whose value is the next word, whatever that looks like.
Takes(word) == word \in {"--mode", "--caller-id"}

\* Is the i-th word such a value?  Of several such options in a row every second
\* one is the value of the one before it.
IsValue(argv, i) ==
    \E k \in 1 .. (i - 1) :
        /\ \A j \in k .. (i - 1) : Takes(argv[j])
        /\ k > 1 => ~ Takes(argv[k - 1])
        /\ (i - k) % 2 = 1

\* CLI11's answer: an option is given at most once and has its value; a word that
\* is neither an option nor a value is an error; --version only counts on a line
\* that could be split into options.
cliMode(argv) ==
    LET Options == {i \in DOMAIN argv : ~ IsValue(argv, i)}
        Given == {i \in Options : argv[i] \in ModeWords}
        Valueless == \E i \in Options : i = Len(argv) /\ Takes(argv[i])
        Stray == \E i \in Options : argv[i] \in {"cli", "server", "fax"}
        Twice == \/ \E i, j \in Given : i # j
                 \/ \E i, j \in Options :
                       i # j /\ argv[i] = "--caller-id" /\ argv[j] = "--caller-id"
        Value(i) == CASE argv[i] = "--mode=cli"    -> "cli"
                      [] argv[i] = "--mode=server" -> "server"
                      [] OTHER                     -> argv[i + 1]
    IN  IF Valueless THEN "usage"
        ELSE IF \E i \in Options : argv[i] = "--version" THEN "version"
        ELSE IF Stray \/ Twice THEN "usage"
        ELSE IF Given = {} THEN "cli"
        ELSE Value(CHOOSE i \in Given : TRUE)

-----------------------------------------------------------------------------
(* ArgParser::parse.                                                       *)

\* An empty option counts as not given, an empty variable does not.
FlagOrEnv(flag, env) ==
    IF flag \notin {None, Empty} THEN flag ELSE IF env # None THEN env ELSE Empty

\* The variable wins over a flag that repeats the default (mutant).
PortFromByValue(flags, env) ==
    IF flags.port \in {None, DefaultPort} /\ env.port # None THEN env.port
    ELSE IF flags.port = None THEN DefaultPort ELSE flags.port

\* --sip-port if it was given, else AGENT_SIP_PORT, else the default.
PortFrom(flags, env) ==
    IF flags.port # None THEN flags.port
    ELSE IF env.port # None THEN env.port ELSE DefaultPort

\* The required texts are looked for on the command line only (mutant).
MissingByFlag(flags, env) ==
    flags.host = None \/ flags.user = None \/ flags.dest = None

\* The four texts that cli mode cannot do without; the password comes from
\* the environment only.
Missing(flags, env) ==
    \/ FlagOrEnv(flags.host, env.host) = Empty
    \/ FlagOrEnv(flags.user, env.user) = Empty
    \/ FlagOrEnv(None, env.pass) = Empty
    \/ FlagOrEnv(flags.dest, env.dest) = Empty

\* What parse() does: "config" (it returns one), "error" (the process exits
\* with 2), "usage" (with CLI11's code), "version", or "abort" (std::stoi
\* throws on AGENT_SIP_PORT and nothing catches it).
Verdict(argv, flags, env, line) ==
    LET mode == cliMode(argv)
        port == PortFrom(flags, env)
    IN  IF mode \in {"version", "usage"} THEN mode
        ELSE IF mode \notin {"cli", "server"} THEN "error"
        ELSE IF port = NaN THEN "abort"
        ELSE IF \/ mode = "cli" /\ Missing(flags, env)
                \/ port < 1 \/ port >= U16
                \/ flags.transport \notin {None, "udp", "tcp", "tls"}
                \/ flags.log_level # None /\ flags.log_level \notin 0 .. 5
                \/ line.type \notin {Empty, "wav", "text"}
             THEN "error"
        ELSE "config"

OrDefault(value, default) == IF value = None THEN default ELSE value

\* The Config that parse() returns.  Options that are only handed on
\* (caller_id, record_dir, answer_timeout_s, the server's) are left out.
Parsed(argv, flags, env, line) ==
    [mode |-> cliMode(argv),
     host |-> FlagOrEnv(flags.host, env.host),
     user |-> FlagOrEnv(flags.user, env.user),
     pass |-> FlagOrEnv(None, env.pass),
     dest |-> FlagOrEnv(flags.dest, env.dest),
     port |-> PortFrom(flags, env) % U16,
     transport |-> OrDefault(flags.transport, "udp"),
     answer_delay_s |-> OrDefault(flags.answer_delay_s, 1),
     silence_s |-> OrDefault(flags.silence_s, 10),
     record |-> OrDefault(flags.record, TRUE),
     threshold |-> OrDefault(flags.threshold, 10),
     audio |-> line]

-----------------------------------------------------------------------------
(* CallAgentServiceImpl.                                                   *)

\* An empty audio source is not looked into: only that there is one.
validate(req) ==
    /\ req.call_id # Empty /\ req.has_sip
    /\ req.user # Empty /\ req.pass # Empty /\ req.host # Empty /\ req.dest # Empty
    /\ req.audio.type # Empty

\* The port is taken over as it comes (mutant).
RequestPortAsItIs(req) == req.port % U16

RequestPort(req) == IF req.port = 0 THEN DefaultPort ELSE req.port % U16

\* A copy of the server's Config in which everything about the call is
\* replaced: its threshold stays.
makeCallConfig(base, req) ==
    [mode |-> "cli", host |-> req.host, user |-> req.user, pass |-> req.pass,
     dest |-> req.dest, port |-> RequestPort(req),
     transport |-> IF req.transport \in {"tcp", "tls"} THEN req.transport ELSE "udp",
     answer_delay_s |-> IF req.answer_delay_s = 0 THEN 1 ELSE req.answer_delay_s,
     silence_s |-> IF req.silence_s = 0 THEN 10 ELSE req.silence_s,
     record |-> req.record,
     threshold |-> base.threshold,
     audio |-> req.audio]
=============================================================================
