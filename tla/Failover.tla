----------------------------- MODULE Failover ------------------------------
(***************************************************************************)
(* The provider of one chat request: what agent/model_resolver.py builds   *)
(* from the settings, with the failover chain (models/failover.py) over    *)
(* the adapters of models/.  The callers are the calls in flight: the loop *)
(* makes one at a time, the incremental grounding judge several at once,   *)
(* all on the same chain and its circuit breaker.                          *)
(***************************************************************************)
EXTENDS Naturals, Sequences, FiniteSets

CONSTANTS
    Callers,
    Configured,     \* model entries of the settings: name, id and ref ("none",
                    \* "dangling" or "found": its API key reference), and native
                    \* (FALSE: the model has no native tool calling)
    Cooloff,        \* cooloff_seconds, in ticks
    None            \* a setting that is not set

MAX_RETRIES == 3    \* models/fallback.py

ASSUME FailoverAssumption ==
    /\ \A m \in Configured : /\ m.name \in {"anthropic", "openai", "ollama"}
                              /\ m.ref \in {"none", "dangling", "found"}
                              /\ m.native \in BOOLEAN
    /\ Cooloff \in Nat \ {0}
    /\ None \notin Configured

VARIABLES
    chain,     \* the links, primary first; <<>>: not built
    tripped,   \* ticks until tripped_until of each link; 0: healthy
    call       \* each call: the links left to try, the one being tried among them

fvars == <<chain, tripped, call>>

LinkIds == 1..2

NoCall == [st |-> "idle", stream |-> FALSE, left |-> {}, tries |-> 0,
           shown |-> 0, got |-> 0]

FInit ==
    /\ chain = <<>>
    /\ tripped = [l \in LinkIds |-> 0]
    /\ call = [c \in Callers |-> NoCall]

Trying(c) == call[c].st = "waiting"

\* The first of the links left, in chain order.
Link(c) == CHOOSE l \in call[c].left : \A x \in call[c].left : l <= x
Adapter(c) == chain[Link(c)].name

-----------------------------------------------------------------------------
(* agent/model_resolver.py.                                                *)

\* A key reference that is set must resolve; a hosted model must have one.
_build_provider(m) == m.ref # "dangling" /\ (m.name # "ollama" => m.ref = "found")

\* <<>> stands for ModelProviderUnconfiguredError.  A bare primary has no
\* circuit breaker; a chain of one that tries its link anyway is the same.
_build_with_optional_fallback(m, f) ==
    CASE ~_build_provider(m) -> <<>>
      [] _build_provider(m) /\ (f = None \/ (f.name = m.name /\ f.id = m.id)) -> <<m>>
      [] OTHER -> IF _build_provider(f) THEN <<m, f>> ELSE <<>>

\* d, f and j: the default, fallback and judge models of the settings.
get_model_for_organization(d, f) ==
    /\ chain = <<>> /\ chain' = _build_with_optional_fallback(d, f)
    /\ UNCHANGED <<tripped, call>>

\* Without a judge model, the judge's calls go to the chat provider.
get_grounding_judge_model(j, f) ==
    /\ j # None
    /\ chain = <<>> /\ chain' = _build_with_optional_fallback(j, f)
    /\ UNCHANGED <<tripped, call>>

-----------------------------------------------------------------------------
\* The healthy links in chain order; all of them when none is healthy.
order ==
    LET healthy == {l \in DOMAIN chain : tripped[l] = 0}
    IN IF healthy = {} THEN DOMAIN chain ELSE healthy

\* chat and chat_stream: the order is fixed when the call starts.
Start(c, s) ==
    /\ call[c].st = "idle" /\ chain # <<>>
    /\ call' = [call EXCEPT ![c] = [NoCall EXCEPT
                    !.st = "waiting", !.stream = s, !.left = order]]
    /\ UNCHANGED <<chain, tripped>>

\* chat_with_fallback: the tool schemas go in the prompt and the reply is
\* parsed as JSON.  The Ollama adapter does not do this when it streams.
Coaxing(c) == ~chain[Link(c)].native /\ ~(call[c].stream /\ Adapter(c) = "ollama")

Shows(c) ==
    /\ call[c].stream
    /\ call' = [call EXCEPT ![c].shown = Link(c)]
    /\ UNCHANGED <<chain, tripped>>

\* A piece of content.  Without native tool calling there is none; the
\* Anthropic adapter has no chat_stream at all.
OpenAIDelta(c) == Adapter(c) = "openai" /\ ~Coaxing(c) /\ Shows(c)
OllamaDelta(c) == Adapter(c) = "ollama" /\ Shows(c)

Answers(c) ==
    /\ call' = [call EXCEPT ![c].st = "ok", ![c].got = Link(c)]
    /\ UNCHANGED <<chain, tripped>>

\* The response of a blocking call...
OpenAIChat(c) == Adapter(c) = "openai" /\ ~call[c].stream /\ Answers(c)
OllamaChat(c) == Adapter(c) = "ollama" /\ ~call[c].stream /\ Answers(c)
AnthropicChat(c) == Adapter(c) = "anthropic" /\ Answers(c)

\* ...and the one assembled when a stream ends.  A stream that is cut off
\* without an error is taken for a complete one.
OpenAIDone(c) == Adapter(c) = "openai" /\ call[c].stream /\ Answers(c)
OllamaDone(c) == Adapter(c) = "ollama" /\ call[c].stream /\ Answers(c)

trip(c) == tripped' = [tripped EXCEPT ![Link(c)] = Cooloff]

\* Mutant: a link that fails in the middle of its stream is failed over too.
GiveUp_restarts(c) ==
    /\ trip(c)
    /\ call' = [call EXCEPT ![c].left = @ \ {Link(c)}, ![c].tries = 0,
                            ![c].st = IF call[c].left = {Link(c)} THEN "failed" ELSE @]

\* The link raised.  After a delta the exception goes to the caller and the
\* link is not tripped; before one, the next link is tried.
GiveUp(c) ==
    IF call[c].shown # 0
    THEN call' = [call EXCEPT ![c].st = "failed"] /\ UNCHANGED tripped
    ELSE /\ trip(c)
         /\ call' = [call EXCEPT ![c].left = @ \ {Link(c)}, ![c].tries = 0,
                                 ![c].st = IF call[c].left = {Link(c)} THEN "failed" ELSE @]

\* An HTTP error, a timeout or a dropped connection.
LinkRaises(c) == Trying(c) /\ GiveUp(c) /\ UNCHANGED chain

\* A model without native tool calling answered something that is not the
\* JSON asked for: it is asked again, MAX_RETRIES times in all.
Unparsable(c) ==
    /\ Trying(c) /\ Coaxing(c)
    /\ IF call[c].tries + 1 < MAX_RETRIES
       THEN call' = [call EXCEPT ![c].tries = @ + 1] /\ UNCHANGED tripped
       ELSE GiveUp(c)
    /\ UNCHANGED chain

CallerReturns(c) ==
    /\ call[c].st \in {"ok", "failed"}
    /\ call' = [call EXCEPT ![c] = NoCall]
    /\ UNCHANGED <<chain, tripped>>

CooloffTick ==
    /\ \E l \in LinkIds : tripped[l] > 0
    /\ tripped' = [l \in LinkIds |-> IF tripped[l] > 0 THEN tripped[l] - 1 ELSE 0]
    /\ UNCHANGED <<chain, call>>

CallNext(c) ==
    \/ \E s \in BOOLEAN : Start(c, s)
    \/ Trying(c) /\ (OpenAIDelta(c) \/ OllamaDelta(c))
    \/ Trying(c) /\ (OpenAIDone(c) \/ OllamaDone(c))
    \/ Trying(c) /\ (OpenAIChat(c) \/ OllamaChat(c) \/ AnthropicChat(c))
    \/ LinkRaises(c) \/ Unparsable(c) \/ CallerReturns(c)

FNext ==
    \/ \E m, f \in Configured \cup {None} :
          \/ m # None /\ get_model_for_organization(m, f)
          \/ get_grounding_judge_model(m, f)
    \/ CooloffTick
    \/ \E c \in Callers : CallNext(c)

-----------------------------------------------------------------------------
FailoverTypeOK ==
    /\ Len(chain) <= 2 /\ \A l \in DOMAIN chain : chain[l] \in Configured
    /\ tripped \in [LinkIds -> 0..Cooloff]
    /\ call \in [Callers -> [st : {"idle", "waiting", "ok", "failed"},
                             stream : BOOLEAN, left : SUBSET LinkIds,
                             tries : 0..MAX_RETRIES,
                             shown : 0..2, got : 0..2]]

Call(c) == INSTANCE ModelCall WITH
    Models <- LinkIds, None <- 0, st <- call[c].st, shown <- call[c].shown, got <- call[c].got

\* The chain is a provider like any other: whatever fails behind it, and
\* however the calls share its circuit breaker, a caller sees the deltas of
\* one model only and a final response of that model, or an exception
\* (chat_stream of FailoverProvider: no failover after a delta).
ChainIsAProvider ==
    /\ \A c \in Callers : Call(c)!CallInit
    /\ [][\A c \in Callers : Call(c)!CallNext \/ UNCHANGED Call(c)!cvars]_fvars
=============================================================================
