------------------------ MODULE MCCallAgentService --------------------------
(* Small instances of CallAgentService for TLC.                            *)
EXTENDS CallAgentService, TLC

States(names) == [i \in DOMAIN names |-> Stream!State(names[i])]

Unregistered == <<Stream!State("REGISTERING"), Stream!Final("FAILED")>>

Dialled == States(<<"REGISTERING", "REGISTERED", "DIALING">>)

Busy == Append(Dialled, Stream!Final("BUSY"))

\* A callee who hangs up while the message plays.
CutShort ==
    Dialled \o States(<<"ANSWERED", "PLAYING", "RECORDING_READY">>)
            \o <<Stream!Final("ANSWERED")>>

\* The whole flow.
Full ==
    Dialled \o States(<<"RINGING", "ANSWERED", "PLAYING", "PLAYED",
                        "SILENCE_DETECTED", "HANGING_UP", "RECORDING_READY">>)
            \o <<Stream!Final("ANSWERED")>>

FewScripts == {Unregistered, CutShort}
AllScripts == {Unregistered, Busy, CutShort, Full}
ShortScripts == {Unregistered}

\* No definition tells one RPC from another.
RpcSymmetry == Permutations(Rpcs)
=============================================================================
