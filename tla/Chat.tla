-------------------------------- MODULE Chat --------------------------------
(***************************************************************************)
(* A chat exchange: the agent loop and its endpoint (Turn), the provider   *)
(* chain (Failover), the grounding validator (Grounding), the process-wide *)
(* limiter and cache (Limits), web research (Research) and the page that   *)
(* shows it all (Browser).  No part writes the state of another: what one  *)
(* relies on is a choice in it that the other is shown to keep to (Turn    *)
(* takes a model call to end in one answer or an exception, ModelCall;     *)
(* Browser takes a stream to end after an answer or an error, SettlesOnce).*)
(* So each is checked while the others rest; part is the one that moves.   *)
(***************************************************************************)
EXTENDS Turn, Failover, Grounding, Limits, Research, Browser

CONSTANT Parts

VARIABLE part

chatvars == <<part, tvars, fvars, gvars, lvars, rvars, bvars>>

\* The part at rest is in one representative state.
ChatInit ==
    /\ part \in Parts
    /\ TInit /\ FInit /\ GInit /\ LInit /\ RInit /\ BInit
    /\ part # "turn" => conf = [stream |-> TRUE, mode |-> "blocking",
                                breaker |-> 0, usage |-> FALSE]
    /\ part # "grounding" => whole /\ count = 1

TurnRests == UNCHANGED <<part, fvars, gvars, lvars, rvars, bvars>>

LoopStep == part = "turn" /\ Loop /\ TurnRests
ClientStep == part = "turn" /\ (Disconnect \/ Cancelled) /\ TurnRests
FailoverStep == part = "failover" /\ FNext /\ UNCHANGED <<part, tvars, gvars, lvars, rvars, bvars>>
GroundingStep == part = "grounding" /\ GNext /\ UNCHANGED <<part, tvars, fvars, lvars, rvars, bvars>>
ResearchStep == part = "research" /\ RNext /\ UNCHANGED <<part, tvars, fvars, gvars, lvars, bvars>>
BrowserStep == part = "browser" /\ BNext /\ UNCHANGED <<part, tvars, fvars, gvars, lvars, rvars>>

\* The limiter and the cache share nothing but the clock.
LimitsStep ==
    /\ part \in {"bucket", "names"}
    /\ LimitsTick \/ (part = "bucket" /\ BucketNext) \/ (part = "names" /\ NamesNext)
    /\ UNCHANGED <<part, tvars, fvars, gvars, rvars, bvars>>

ChatNext ==
    \/ LoopStep \/ ClientStep \/ FailoverStep \/ GroundingStep \/ LimitsStep
    \/ ResearchStep \/ BrowserStep

\* The loop runs in one asyncio task whose awaits all have timeouts: it goes
\* on as long as it can.  Nothing is assumed of the client.
ChatSpec == ChatInit /\ [][ChatNext]_chatvars /\ WF_chatvars(LoopStep)

\* Types of every part's state.
ChatTypeOK ==
    /\ TurnTypeOK /\ FailoverTypeOK /\ GroundingTypeOK /\ LimitsTypeOK
    /\ ResearchTypeOK /\ BrowserTypeOK
=============================================================================
