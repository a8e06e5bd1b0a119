------------------------------- MODULE Turn --------------------------------
(***************************************************************************)
(* One chat exchange: the agent loop (agent/loop.py), the dispatcher of    *)
(* its tool calls (tools/dispatcher.py) and the two endpoints that run it  *)
(* (api/chat.py), blocking or streaming, in one database transaction.      *)
(***************************************************************************)
EXTENDS Naturals

CONSTANTS
    Breakers,      \* values of agent_step_breaker; 0: none
    FitLimit,      \* context_fit_limit, in steps' worth of transcript
    MaxCalls,      \* bound: tool calls of one model response
    MaxSteps       \* bound: the step counter stays there

MAX_REDUNDANT_STREAK == 2

ASSUME TurnAssumption ==
    /\ Breakers \subseteq Nat /\ FitLimit \in Nat \ {0}
    /\ MaxCalls \in Nat \ {0} /\ MaxSteps \in Nat
    /\ \A b \in Breakers : b <= MaxSteps

VARIABLES
    conf,      \* the endpoint, the grounding mode, the breaker, and whether the
               \* provider reports token usage
    pc,        \* where the exchange is
    step, streak,
    size,      \* the transcript
    used,      \* input_tokens of the last response
    todo,      \* calls of the last response still to dispatch
    fresh,     \* step_had_new_call
    prose,     \* the last non-empty assistant text: "", "blank" or "text"
    seen,      \* evidence: what the answer rests on
    rows,      \* the audit rows: "none", "flushed", "committed", "lost"
    proposal,  \* the proposals of this exchange, like rows
    sent,      \* what the client received
    gone       \* the client has closed the stream

tvars == <<conf, pc, step, streak, size, used, todo, fresh, prose, seen, rows, proposal, sent, gone>>

Outcome == {"none", "flushed", "committed", "lost"}

TInit ==
    /\ conf \in [stream : BOOLEAN, mode : {"blocking", "deferred", "incremental"},
                 breaker : Breakers, usage : BOOLEAN]
    /\ conf.stream \/ conf.mode = "blocking"
    /\ pc = "setup"
    /\ step = 0 /\ streak = 0 /\ size = 0 /\ used = 0 /\ todo = 0
    /\ fresh = FALSE /\ prose = "" /\ seen = {}
    /\ rows = "none" /\ proposal = "none"
    /\ sent = [answer |-> 0, error |-> 0, verdicts |-> FALSE, done |-> FALSE]
    /\ gone = FALSE

Up(n) == IF n < MaxSteps THEN n + 1 ELSE n
Grown == IF size < FitLimit THEN size + 1 ELSE size

-----------------------------------------------------------------------------
(* The endpoint.                                                           *)

\* The model, its strategy, the Wazuh connection and the judge are resolved
\* before the response starts.
chat_stream ==
    /\ pc = "setup"
    /\ pc' = "run"
    /\ UNCHANGED <<conf, step, streak, size, used, todo, fresh, prose, seen, rows, proposal, sent, gone>>

\* The first transcript: the system prompt, the question, and a history that
\* may be empty or may fill the window by itself.
run ==
    /\ pc = "run"
    /\ pc' = "model" /\ size' \in {0, FitLimit}
    /\ UNCHANGED <<conf, step, streak, used, todo, fresh, prose, seen, rows,
                   proposal, sent, gone>>

\* No usable model or Wazuh configuration: an HTTP error, nothing was run.
SetupRefused ==
    /\ pc = "setup" /\ pc' = "over"
    /\ sent' = [sent EXCEPT !.error = 1, !.done = TRUE]
    /\ UNCHANGED <<conf, step, streak, size, used, todo, fresh, prose, seen, rows, proposal, gone>>

Saved(o) == IF o = "flushed" THEN "committed" ELSE o
Dropped(o) == IF o = "flushed" THEN "lost" ELSE o

commit == rows' = Saved(rows) /\ proposal' = Saved(proposal)

\* The loop returned: the transaction is committed, and the stream ended.
Commit ==
    /\ pc = "commit" /\ pc' = "over"
    /\ commit
    /\ sent' = [sent EXCEPT !.done = ~gone]
    /\ UNCHANGED <<conf, step, streak, size, used, todo, fresh, prose, seen, gone>>

\* An exception out of the loop or of the commit: nothing is committed.  The
\* runner sends an error event and the sentinel, the blocking endpoint
\* answers with an HTTP error.
Fails ==
    /\ pc' = "over"
    /\ rows' = Dropped(rows) /\ proposal' = Dropped(proposal)
    /\ sent' = [sent EXCEPT !.error = IF gone THEN @ ELSE 1, !.done = ~gone]
    /\ UNCHANGED <<conf, step, streak, size, used, todo, fresh, prose, seen, gone>>

\* The database fails at a flush or at the commit.
DatabaseFails ==
    /\ pc \in {"model", "tools", "judge", "commit"}
    /\ Fails

\* The browser closes the stream (Stop, a reload, a lost connection)...
Disconnect ==
    /\ conf.stream /\ ~gone /\ pc \notin {"setup", "over"}
    /\ gone' = TRUE
    /\ UNCHANGED <<conf, pc, step, streak, size, used, todo, fresh, prose, seen, rows, proposal, sent>>

\* ...and the server cancels the runner where it waits: CancelledError is not
\* an Exception, so nothing is sent and nothing is committed.
Cancelled ==
    /\ gone /\ pc # "over"
    /\ pc' = "over"
    /\ rows' = Dropped(rows) /\ proposal' = Dropped(proposal)
    /\ UNCHANGED <<conf, step, streak, size, used, todo, fresh, prose, seen, sent, gone>>

-----------------------------------------------------------------------------
(* The model's turn in a step.                                             *)

Emitted == IF gone THEN sent.answer ELSE sent.answer + 1

_audit_model_success == rows' = "flushed"
_audit_model_failure == rows' = "flushed"

\* The failure is audited and told in a settled answer.
_fail_gracefully ==
    /\ pc' = "commit" /\ _audit_model_failure
    /\ sent' = [sent EXCEPT !.answer = Emitted]
    /\ seen' = seen \cup {"loop_error"}
    /\ UNCHANGED <<conf, step, streak, size, used, todo, fresh, prose, proposal,
                   gone>>

\* The call raised; the blocking endpoint lets a WolfError out.
ModelFails(wolf) ==
    /\ pc = "model"
    /\ IF wolf /\ ~conf.stream THEN Fails ELSE _fail_gracefully

\* The response is audited, counted and put on the transcript.
Responds ==
    /\ pc = "model"
    /\ _audit_model_success
    /\ used' = IF conf.usage THEN size ELSE 0
    /\ size' = Grown
    /\ UNCHANGED <<conf, step, streak, proposal, sent, gone>>

\* No tool call: a written answer is final, an empty one is asked for again.
ModelAnswers(text) ==
    /\ Responds
    /\ pc' = IF text = "text" THEN "finalize" ELSE "again"
    /\ UNCHANGED <<todo, fresh, prose, seen>>

\* Of the n results that go back in one message, the ones each wire format
\* has a place for.
message_to_openai(n) == 1
message_to_ollama(n) == 1
build_anthropic_messages(n) == n

\* Tool calls.  The link that is asked next is shown their results.
ModelCalls(n, text) ==
    /\ Responds
    /\ pc' = "tools" /\ todo' = n /\ fresh' = FALSE
    /\ prose' = IF text = "" THEN prose ELSE text
    /\ \E shown \in {message_to_openai(n), message_to_ollama(n), build_anthropic_messages(n)} :
          seen' = IF shown < n THEN seen \cup {"unsent"} ELSE seen

-----------------------------------------------------------------------------
(* Tool calls.                                                             *)

Dispatched(new, found) ==
    /\ pc = "tools" /\ todo > 0
    /\ todo' = todo - 1 /\ fresh' = (fresh \/ new)
    /\ seen' = seen \cup found
    /\ rows' = "flushed"
    /\ UNCHANGED <<conf, pc, step, streak, size, used, prose, sent, gone>>

\* A read tool ran; its result is evidence, with or without a citation.
ReadSucceeds(new) ==
    \E cited \in BOOLEAN :
        Dispatched(new, IF cited THEN {"citation"} ELSE {}) /\ UNCHANGED proposal

\* A propose tool put a proposal on the queue, in this transaction.
ProposeSucceeds(new) == Dispatched(new, {"citation"}) /\ proposal' = "flushed"

\* Unknown or execute-tier tool, no runner, bad arguments, rate limit,
\* guardrail, degraded service, runtime error, bad output: audited, and fed
\* back as a failure.
CallRefused(new) == Dispatched(new, {"failure"}) /\ UNCHANGED proposal

\* A WolfError of the tool (a missing prerequisite, a foreign organization)
\* goes up through the loop.
CallBubbles ==
    /\ pc = "tools" /\ todo > 0
    /\ Fails

-----------------------------------------------------------------------------
(* The guards after a step, and the forced synthesis.                      *)

Repeats == IF fresh THEN 0 ELSE streak + 1

\* Mutant: the transcript may outgrow the model's window.
MustStop_noFit ==
    \/ Repeats >= MAX_REDUNDANT_STREAK
    \/ conf.breaker > 0 /\ step + 1 >= conf.breaker

\* No progress, the operator's breaker, or a transcript that fills the window.
MustStop ==
    \/ Repeats >= MAX_REDUNDANT_STREAK
    \/ conf.breaker > 0 /\ step + 1 >= conf.breaker
    \/ used >= FitLimit

StepEnds ==
    /\ pc = "tools" /\ todo = 0
    /\ streak' = Repeats
    /\ pc' = IF MustStop THEN "force" ELSE "model"
    /\ step' = IF MustStop THEN step ELSE Up(step)
    /\ UNCHANGED <<conf, size, used, todo, fresh, prose, seen, rows, proposal,
                   sent, gone>>

\* One call without tools.  Its failure is swallowed (no text), and neither
\* its success nor its failure is audited.
_synthesize_final(from) ==
    /\ pc = from
    /\ UNCHANGED <<conf, step, streak, size, used, todo, fresh, prose, seen, rows,
                   proposal, sent, gone>>

\* The empty answer is asked for again, or replaced by a fixed one.
AskAgain == _synthesize_final("again") /\ pc' = "finalize"

\* The forced stop: without a text the last assistant message is the answer,
\* be it blank, and a fixed one if there is none.
_synthesized_stop(text) ==
    /\ _synthesize_final("force")
    /\ pc' = IF text # "text" /\ prose = "blank" THEN "unjudged" ELSE "finalize"

-----------------------------------------------------------------------------
(* The answer.                                                             *)

\* A failed tool is evidence too: it is where a model makes things up.
Grounds == "citation" \in seen \/ "failure" \in seen

\* Nothing to judge (or nothing but blanks): the answer goes out as it is.
AnswerUnjudged ==
    /\ pc = "unjudged" \/ (pc = "finalize" /\ ~Grounds)
    /\ pc' = "commit"
    /\ sent' = [sent EXCEPT !.answer = Emitted]
    /\ UNCHANGED <<conf, step, streak, size, used, todo, fresh, prose, seen, rows, proposal, gone>>

\* In the deferred and incremental modes the raw answer goes out at once.
Early == conf.mode # "blocking"

StartJudge ==
    /\ pc = "finalize" /\ Grounds
    /\ pc' = "judge"
    /\ sent' = IF Early THEN [sent EXCEPT !.answer = Emitted] ELSE sent
    /\ UNCHANGED <<conf, step, streak, size, used, todo, fresh, prose, seen, rows, proposal, gone>>

\* Mutant: the annotated answer goes out whatever the mode.
LateAnswer_always == Emitted

LateAnswer == IF Early THEN sent.answer ELSE Emitted

\* The judge returns, with verdicts or without: it never raises.
JudgeReturns ==
    /\ pc = "judge" /\ pc' = "commit"
    /\ rows' = "flushed"
    /\ sent' = [sent EXCEPT !.answer = LateAnswer, !.verdicts = ~gone]
    /\ UNCHANGED <<conf, step, streak, size, used, todo, fresh, prose, seen,
                   proposal, gone>>

-----------------------------------------------------------------------------
Loop ==
    \/ chat_stream \/ SetupRefused \/ run
    \/ \E wolf \in BOOLEAN : ModelFails(wolf)
    \/ \E text \in {"", "blank", "text"} :
          \/ ModelAnswers(text) \/ _synthesized_stop(text)
          \/ \E n \in 1..MaxCalls : ModelCalls(n, text)
    \/ \E new \in BOOLEAN : ReadSucceeds(new) \/ ProposeSucceeds(new) \/ CallRefused(new)
    \/ CallBubbles \/ StepEnds \/ AskAgain
    \/ AnswerUnjudged \/ StartJudge \/ JudgeReturns
    \/ Commit \/ DatabaseFails

TNext == Loop \/ Disconnect \/ Cancelled

-----------------------------------------------------------------------------
TurnTypeOK ==
    /\ pc \in {"setup", "run", "model", "tools", "again", "force", "finalize", "unjudged",
              "judge", "commit", "over"}
    /\ step \in 0..MaxSteps /\ streak \in 0..MAX_REDUNDANT_STREAK
    /\ size \in 0..FitLimit /\ used \in 0..FitLimit /\ todo \in 0..MaxCalls
    /\ prose \in {"", "blank", "text"}
    /\ seen \subseteq {"citation", "failure", "loop_error", "unsent"}
    /\ rows \in Outcome /\ proposal \in Outcome
    /\ sent \in [answer : 0..2, error : 0..1, verdicts : BOOLEAN, done : BOOLEAN]

Finished == pc = "over" /\ ~gone

\* A client that stays connected is never left waiting or told twice: the
\* exchange ends with one answer, or with an error, and then done
\* (_finalize_answer: "Always emits exactly one `answer` event"; the runner's
\* except and finally clauses).  And what it was told is so: a proposal made in
\* an exchange that ended without an error is on the queue with its audit rows,
\* and one made in an exchange that ended in an error is not (they share one
\* transaction).
SettlesOnce ==
    /\ sent.answer <= 1
    /\ Finished =>
          /\ sent.done /\ sent.answer + sent.error >= 1
          /\ sent.error = 0 => proposal # "lost" /\ rows = "committed"
          /\ sent.error = 1 => proposal # "committed"

\* Every exchange ends, as long as the provider reports its token usage or
\* the operator set a breaker: no model can keep the loop going for ever.
TurnEnds == (conf.usage \/ conf.breaker > 0) => <>(pc = "over")

\* models/openai.py: "OpenAI expects one message per tool result": the model
\* is shown the result of every call it made.
ResultsReachTheModel == pc \in {"model", "force"} => "unsent" \notin seen
=============================================================================
