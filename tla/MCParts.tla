------------------------------- MODULE MCParts -------------------------------
(***************************************************************************)
(* Five parts of the system that share no state with each other: the rate  *)
(* limiter, the locks of the state file, the OIDC key cache, the job       *)
(* poller and the SCP client.  Each behaviour moves one of them, so that   *)
(* one run covers the sum of their state spaces.                           *)
(***************************************************************************)
EXTENDS RateLimit, StateFile, KeyCache, JobPoll, Scp

VARIABLE part  \* the part that moves

Init ==
    /\ RateInit /\ FileInit /\ KeyInit /\ PollInit /\ ScpInit
    /\ part \in {"rate", "file", "key", "poll", "scp"}
    /\ part # "scp" => dest = NoFile

Next ==
    /\ UNCHANGED part
    /\ \/ part = "rate" /\ RateNext /\ UNCHANGED <<fileVars, keyVars, pollVars, scpVars>>
       \/ part = "file" /\ FileNext /\ UNCHANGED <<rateVars, keyVars, pollVars, scpVars>>
       \/ part = "key" /\ KeyNext /\ UNCHANGED <<rateVars, fileVars, pollVars, scpVars>>
       \/ part = "poll" /\ PollNext /\ UNCHANGED <<rateVars, fileVars, keyVars, scpVars>>
       \/ part = "scp" /\ ScpNext /\ UNCHANGED <<rateVars, fileVars, keyVars, pollVars>>

Spec == Init /\ [][Next]_<<part, rateVars, fileVars, keyVars, pollVars, scpVars>>
=============================================================================
