------------------------------- MODULE Limits ------------------------------
(***************************************************************************)
(* What the tool calls of all exchanges share in one wolf-server process:  *)
(* the rate limiter's bucket of each organization (guardrails/rate_limit)  *)
(* and the organization-scoped cache (caching/cache.py), in which the      *)
(* alert tools keep the agent id that a name stands for (tools/alerts.py). *)
(***************************************************************************)
EXTENDS Naturals

CONSTANTS
    Orgs,
    Lookups,      \* resolutions of one agent name that may run at once
    Burst, Rate,  \* of the bucket: its size, and tokens per tick
    TTL,          \* _AGENT_NAME_CACHE_TTL, in ticks
    Latency,      \* ticks a request to the Server API may take (its timeout)
    MaxNow        \* bound on the clock

ASSUME LimitsAssumption ==
    /\ Orgs # {}
    /\ Burst \in Nat /\ Rate \in Nat /\ MaxNow \in Nat
    /\ TTL \in Nat \ {0} /\ Latency \in Nat

VARIABLES
    clock,
    bucket,    \* tokens and last_refill of each organization; none at first
    taken,     \* history: calls let through before and in each tick
    agent,     \* the id the name has in each organization's Wazuh, by version
    held,      \* the time each version was last the agent's id
    store,     \* the cache entry of each organization: version and expiry
    look       \* lookups: their organization, what they read, and when

lvars == <<clock, bucket, taken, agent, held, store, look>>

Absent == [val |-> 0, expiry |-> 0]
NoLook == [st |-> "idle", org |-> CHOOSE o \in Orgs : TRUE, val |-> 0, at |-> 0]

LInit ==
    /\ clock = 0
    /\ bucket = [o \in Orgs |-> [tokens |-> Burst, last |-> 0]]
    /\ taken = [o \in Orgs |-> [t \in 0..MaxNow |-> 0]]
    /\ agent = [o \in Orgs |-> 1]
    /\ held = [o \in Orgs |-> [v \in 1..2 |-> 0]]
    /\ store = [o \in Orgs |-> Absent]
    /\ look = [l \in Lookups |-> NoLook]

-----------------------------------------------------------------------------
\* Mutant: the bucket is not capped.
refilled_uncapped(o) == bucket[o].tokens + (clock - bucket[o].last) * Rate

\* The tokens after the time since the last refill, at most Burst.
refilled(o) ==
    LET t == bucket[o].tokens + (clock - bucket[o].last) * Rate IN
    IF t > Burst THEN Burst ELSE t

\* Mutant: the time of the last refill is not moved when a token is taken.
take_again(o) ==
    /\ IF refilled(o) >= 1
       THEN /\ bucket' = [bucket EXCEPT ![o].tokens = refilled(o) - 1]
            /\ taken' = [taken EXCEPT ![o] = [t \in 0..MaxNow |-> @[t] + (IF t >= clock THEN 1 ELSE 0)]]
       ELSE bucket' = bucket /\ UNCHANGED taken
    /\ UNCHANGED <<clock, agent, held, store, look>>

\* One call of a tool: let through with a token, refused without one.
take(o) ==
    /\ IF refilled(o) >= 1
       THEN /\ bucket' = [bucket EXCEPT ![o] = [tokens |-> refilled(o) - 1, last |-> clock]]
            /\ taken' = [taken EXCEPT ![o] = [t \in 0..MaxNow |-> @[t] + (IF t >= clock THEN 1 ELSE 0)]]
       ELSE /\ bucket' = [bucket EXCEPT ![o] = [tokens |-> refilled(o), last |-> clock]]
            /\ UNCHANGED taken
    /\ UNCHANGED <<clock, agent, held, store, look>>

-----------------------------------------------------------------------------
\* Mutant: an entry is served whatever its age.
get_stale(o) == store[o].val

\* The value, unless its expiry has come.
get(o) == IF store[o].expiry <= clock THEN 0 ELSE store[o].val

\* _resolve_agent_name_to_id: a hit ends the lookup; a miss asks the Server
\* API, which answers with the id of that moment.
LookUp(l, o) ==
    /\ look[l].st = "idle"
    /\ look' = [look EXCEPT ![l] =
                  IF get(o) # 0
                  THEN [st |-> "hit", org |-> o, val |-> get(o), at |-> clock]
                  ELSE [st |-> "asked", org |-> o, val |-> agent[o], at |-> clock]]
    /\ UNCHANGED <<clock, bucket, taken, agent, held, store>>

\* The answer arrives and is cached from now on.
set(l) ==
    /\ look[l].st = "asked"
    /\ store' = [store EXCEPT ![look[l].org] = [val |-> look[l].val, expiry |-> clock + TTL]]
    /\ look' = [look EXCEPT ![l] = NoLook]
    /\ UNCHANGED <<clock, bucket, taken, agent, held>>

\* A hit is used, or a request fails.
LookupEnds(l) ==
    /\ look[l].st # "idle"
    /\ look' = [look EXCEPT ![l] = NoLook]
    /\ UNCHANGED <<clock, bucket, taken, agent, held, store>>

\* The agent is deleted and registered again under another id.
Reregistered(o) ==
    /\ agent[o] = 1 /\ agent' = [agent EXCEPT ![o] = 2]
    /\ held' = [held EXCEPT ![o] = [@ EXCEPT ![1] = clock, ![2] = clock]]
    /\ UNCHANGED <<clock, bucket, taken, store, look>>

LimitsTick ==
    /\ clock < MaxNow
    /\ \A l \in Lookups : look[l].st = "asked" => clock - look[l].at < Latency
    /\ \A l \in Lookups : look[l].st # "hit"
    /\ clock' = clock + 1
    /\ held' = [o \in Orgs |-> [held[o] EXCEPT ![agent[o]] = clock + 1]]
    /\ UNCHANGED <<bucket, taken, agent, store, look>>

BucketNext == \E o \in Orgs : take(o)

NamesNext ==
    \/ \E o \in Orgs : Reregistered(o)
    \/ \E l \in Lookups : set(l) \/ LookupEnds(l) \/ \E o \in Orgs : LookUp(l, o)

-----------------------------------------------------------------------------
LimitsTypeOK ==
    /\ clock \in 0..MaxNow
    /\ bucket \in [Orgs -> [tokens : 0..Burst, last : 0..MaxNow]]
    /\ agent \in [Orgs -> 1..2]
    /\ store \in [Orgs -> [val : 0..2, expiry : 0..MaxNow + TTL]]
    /\ look \in [Lookups -> [st : {"idle", "asked", "hit"}, org : Orgs,
                             val : 0..2, at : 0..MaxNow]]

\* An organization's tool calls stay within its share: over every stretch of
\* time no more of them run than the burst and what the stretch refills,
\* however the calls of its exchanges interleave.
ShareIsBounded ==
    \A o \in Orgs, b \in 0..MaxNow : \A a \in 0..b :
        taken[o][b] <= (IF a = 0 THEN 0 ELSE taken[o][a - 1]) + Burst + Rate * (b - a)

\* A cached id is one that the organization's own Wazuh gave to that agent no
\* longer ago than the TTL and the time the request took; a concurrent lookup
\* that read the old id cannot keep it alive.
StaleIsBounded ==
    \A l \in Lookups : look[l].st = "hit" =>
        clock - held[look[l].org][look[l].val] <= TTL + Latency
=============================================================================
