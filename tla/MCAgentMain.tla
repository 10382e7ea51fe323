---------------------------- MODULE MCAgentMain -----------------------------
(* A small instance of AgentMain for TLC: 4-bit ports, 8-bit unsigned.      *)
EXTENDS AgentMain

Words == {"--mode", "--mode=cli", "--mode=server", "cli", "server", "fax",
          "--version", "--caller-id", "other"}

Argvs == UNION {[1 .. n -> Words] : n \in 0 .. 3}

NoFlags ==
    [host |-> None, user |-> None, dest |-> None, port |-> None,
     transport |-> None, answer_delay_s |-> None, silence_s |-> None,
     record |-> None, threshold |-> None, log_level |-> None]

\* Flags that decide on their own whether and how the call is made.
SomeFlags ==
    {[NoFlags EXCEPT !.transport = t] : t \in {"tcp", "fax"}}
    \cup {[NoFlags EXCEPT !.threshold = n] : n \in {-1, 3}}
    \cup {[NoFlags EXCEPT !.log_level = n] : n \in {-1, 0, 5, 6}}
    \cup {[NoFlags EXCEPT !.silence_s = 30, !.record = FALSE, !.answer_delay_s = 0]}

\* Flags that compete with the environment.
TextFlags ==
    {[NoFlags EXCEPT !.host = h, !.user = u, !.dest = d, !.port = p] :
        h \in {None, "", "pbx"}, u \in {None, "agent"}, d \in {None, "100"},
        p \in {None, 0, DefaultPort, U16 - 1, U16}}

MCEnvs ==
    [host : {None, "", "env"}, user : {None, "env"}, pass : {None, "secret"},
     dest : {None, "env"}, port : {None, 7, U16, NaN}]

FullEnv == [host |-> "env", user |-> "env", pass |-> "secret", dest |-> "env", port |-> None]

MCLines ==
    {[type |-> "", text |-> ""], [type |-> "text", text |-> "hello"],
     [type |-> "wav", text |-> "a.wav"], [type |-> "fax", text |-> ""]}

TextLine == [type |-> "text", text |-> "hello"]

MCInputs ==
    [argv : Argvs, flags : {NoFlags}, env : {FullEnv}, line : {TextLine}]
    \cup [argv : {<<>>}, flags : TextFlags, env : MCEnvs, line : {TextLine}]
    \cup [argv : {<<"other">>, <<"--mode", "server">>}, flags : SomeFlags,
          env : {FullEnv}, line : MCLines]

MCRequests ==
    [call_id : {"c1"}, has_sip : {TRUE}, user : {"", "agent"}, pass : {"secret"},
     host : {"pbx"}, dest : {"", "100"}, port : {0, 7, U16 - 1, U16 + 7},
     transport : {"", "udp", "tls"}, answer_delay_s : {0, 2}, silence_s : {0, 3, 30},
     record : BOOLEAN, audio : {TextLine, [type |-> "", text |-> ""]}]

Streams ==
    LET States(names) == [i \in DOMAIN names |-> Stream!State(names[i])]
        Dialled == <<"REGISTERING", "REGISTERED", "DIALING", "RINGING">>
        Final(status) == <<Stream!Final(status)>>
    IN  {States(<<"REGISTERING">>) \o Final("FAILED")}
        \cup {States(Dialled) \o Final(s) : s \in {"BUSY", "NO_ANSWER", "FAILED"}}
        \cup {States(Dialled \o <<"ANSWERED", "PLAYING", "PLAYED", "SILENCE_DETECTED",
                                  "HANGING_UP", "RECORDING_READY">>) \o Final("ANSWERED")}

\* run() returns what its result event said (CallExecutor!ReturnMatchesStream).
MCRuns == {[stream |-> s, returned |-> s[Len(s)].status] : s \in Streams}
=============================================================================
