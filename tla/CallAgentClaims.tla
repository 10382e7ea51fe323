-------------------------- MODULE CallAgentClaims ---------------------------
(***************************************************************************)
(* What the documentation says of the service and the code does not do.    *)
(* The history variable records when a call last gave up call_active_.     *)
(***************************************************************************)
EXTENDS MCCallAgentService

VARIABLE call_end     \* when call_active_ last became false; 0: never

claimVars == <<vars, call_end>>

ClaimInit == Init /\ call_end = 0

ClaimNext ==
    /\ Next
    /\ call_end' = IF call_active /\ ~ call_active' THEN now ELSE call_end

ClaimSpec == ClaimInit /\ [][ClaimNext]_claimVars

\* "the agent self-terminates at 300" seconds "since the last RPC activity"
\* (protos/call_agent.proto:45): when the watchdog decides, the last call has
\* been over for that long.
CallCountsAsActivity ==
    [][shutting_down' # shutting_down =>
          call_end = 0 \/ wd.clock - call_end >= IdleShutdown * Second]_claimVars
=============================================================================
