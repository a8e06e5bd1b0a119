----------------------------- MODULE ChatProofs -----------------------------
(***************************************************************************)
(* Proofs about the parts of a chat exchange: how a turn settles (Turn),   *)
(* that a failover chain is a provider (Failover), that every claim gets   *)
(* the verdict of a judge that saw it (Grounding), that a crawl is honest  *)
(* about what it met (Research), that an answer stays with its question    *)
(* (Browser), and, with what LimitsProofs shows, that all of it holds in   *)
(* Chat.                                                                   *)
(***************************************************************************)
EXTENDS Chat, LimitsProofs, FiniteSetTheorems, SequenceTheorems, NaturalsInduction

TSpec == TInit /\ [][TNext]_tvars

-----------------------------------------------------------------------------
(* The turn: its loop.                                                     *)

\* The loop's own state; while it goes on, the streak of repeated calls is
\* below the limit.
LoopShape ==
    /\ pc \in {"setup", "run", "model", "tools", "again", "force", "finalize", "unjudged",
              "judge", "commit", "over"}
    /\ step \in 0..MaxSteps /\ streak \in 0..MAX_REDUNDANT_STREAK
    /\ size \in 0..FitLimit /\ used \in 0..FitLimit /\ todo \in 0..MaxCalls
    /\ prose \in {"", "blank", "text"}
    /\ seen \subseteq {"citation", "failure", "loop_error", "unsent"}
    /\ pc \in {"setup", "run", "model", "tools"} => streak < MAX_REDUNDANT_STREAK

\* What the loop counts with.
LEMMA LoopNumbers ==
    ASSUME LoopShape
    PROVE  /\ FitLimit \in Nat \ {0} /\ MaxCalls \in Nat \ {0} /\ MaxSteps \in Nat
           /\ Up(step) \in 0..MaxSteps /\ Grown \in 0..FitLimit
           /\ 0 \in 0..FitLimit /\ FitLimit \in 0..FitLimit /\ 0 \in 0..MaxCalls
<1>1. FitLimit \in Nat \ {0} /\ MaxCalls \in Nat \ {0} /\ MaxSteps \in Nat
    BY TurnAssumption
<1>2. step \in 0..MaxSteps /\ size \in 0..FitLimit
    BY DEF LoopShape
<1>3. Up(step) \in 0..MaxSteps /\ Grown \in 0..FitLimit
    BY <1>1, <1>2 DEF Up, Grown
<1> QED BY <1>1, <1>3

\* An exchange that fails leaves the loop's state as it is.
LEMMA FailsShape == ASSUME LoopShape, Fails PROVE LoopShape'
    BY DEF LoopShape, Fails

\* Each step of the loop keeps its state in shape.
LEMMA LoopSteps == ASSUME LoopShape, [TNext]_tvars PROVE LoopShape'
<1>0. \A n \in 1..MaxCalls : n \in 0..MaxCalls
    BY TurnAssumption
<1>1. ASSUME chat_stream \/ SetupRefused PROVE LoopShape'
    BY <1>1 DEF LoopShape, chat_stream, SetupRefused
<1>2. ASSUME run PROVE LoopShape'
    BY <1>2, LoopNumbers DEF LoopShape, run
<1>3. ASSUME NEW wolf \in BOOLEAN, ModelFails(wolf) PROVE LoopShape'
  <2>1. CASE Fails
      BY <2>1, FailsShape
  <2>2. CASE _fail_gracefully
      BY <2>2 DEF LoopShape, _fail_gracefully
  <2> QED BY <1>3, <2>1, <2>2 DEF ModelFails
<1>4. ASSUME Responds
      PROVE  /\ size' \in 0..FitLimit /\ used' \in 0..FitLimit /\ pc = "model"
             /\ step' = step /\ streak' = streak
    BY <1>4, LoopNumbers DEF LoopShape, Responds
<1>5. ASSUME NEW text \in {"", "blank", "text"}, ModelAnswers(text) PROVE LoopShape'
  <2>1. /\ pc' \in {"finalize", "again"} /\ UNCHANGED <<todo, prose, seen>>
        /\ size' \in 0..FitLimit /\ used' \in 0..FitLimit /\ step' = step /\ streak' = streak
      BY <1>4, <1>5 DEF ModelAnswers
  <2> QED BY <2>1 DEF LoopShape
<1>6. ASSUME NEW text \in {"", "blank", "text"}, _synthesized_stop(text) PROVE LoopShape'
    BY <1>6 DEF LoopShape, _synthesized_stop, _synthesize_final
<1>7. ASSUME NEW text \in {"", "blank", "text"}, NEW n \in 1..MaxCalls, ModelCalls(n, text)
      PROVE  LoopShape'
  <2>1. Responds /\ pc' = "tools" /\ todo' = n /\ prose' \in {prose, text}
      BY <1>7 DEF ModelCalls
  <2>2. seen' \in {seen, seen \cup {"unsent"}}
      BY <1>7 DEF ModelCalls
  <2>3. n \in 0..MaxCalls
      BY <1>0, <1>7
  <2> QED BY <1>4, <2>1, <2>2, <2>3 DEF LoopShape
<1>8. ASSUME NEW new \in BOOLEAN, NEW found, found \subseteq {"citation", "failure"}, Dispatched(new, found)
      PROVE  LoopShape'
  <2>1. /\ pc = "tools" /\ todo > 0 /\ todo' = todo - 1 /\ seen' = seen \cup found
        /\ UNCHANGED <<pc, step, streak, size, used, prose>>
      BY <1>8 DEF Dispatched
  <2>2. todo \in 0..MaxCalls /\ MaxCalls \in Nat
      BY LoopNumbers DEF LoopShape
  <2>3. todo' \in 0..MaxCalls
      BY <2>1, <2>2
  <2>4. seen' \subseteq {"citation", "failure", "loop_error", "unsent"}
      BY <1>8, <2>1 DEF LoopShape
  <2> QED BY <2>1, <2>3, <2>4 DEF LoopShape
<1>9. ASSUME NEW new \in BOOLEAN, ReadSucceeds(new) \/ ProposeSucceeds(new) \/ CallRefused(new)
      PROVE  LoopShape'
  <2>1. \E found : found \subseteq {"citation", "failure"} /\ Dispatched(new, found)
    <3>1. CASE ReadSucceeds(new)
      <4>1. PICK cited \in BOOLEAN : Dispatched(new, IF cited THEN {"citation"} ELSE {})
          BY <3>1 DEF ReadSucceeds
      <4>2. (IF cited THEN {"citation"} ELSE {}) \subseteq {"citation", "failure"}
          OBVIOUS
      <4> QED BY <4>1, <4>2
    <3>2. CASE ProposeSucceeds(new)
        BY <3>2 DEF ProposeSucceeds
    <3>3. CASE CallRefused(new)
        BY <3>3 DEF CallRefused
    <3> QED BY <1>9, <3>1, <3>2, <3>3
  <2> QED BY <1>8, <2>1
<1>10. ASSUME CallBubbles \/ DatabaseFails PROVE LoopShape'
    BY <1>10, FailsShape DEF CallBubbles, DatabaseFails
<1>11. ASSUME StepEnds PROVE LoopShape'
  <2>1. /\ pc = "tools" /\ streak' = Repeats /\ pc' = (IF MustStop THEN "force" ELSE "model")
        /\ step' \in {step, Up(step)} /\ UNCHANGED <<size, used, todo, prose, seen>>
      BY <1>11 DEF StepEnds
  <2>2. streak \in Nat /\ streak < 2
    <3>1. streak \in 0..MAX_REDUNDANT_STREAK /\ streak < MAX_REDUNDANT_STREAK
        BY <2>1 DEF LoopShape
    <3> QED BY <3>1 DEF MAX_REDUNDANT_STREAK
  <2>3. Repeats \in 0..2 /\ (~MustStop => Repeats < 2)
      BY <2>2 DEF Repeats, MustStop, MAX_REDUNDANT_STREAK
  <2>4. step' \in 0..MaxSteps
      BY <2>1, LoopNumbers DEF LoopShape
  <2> QED BY <2>1, <2>3, <2>4 DEF LoopShape, MAX_REDUNDANT_STREAK
<1>12. ASSUME AskAgain PROVE LoopShape'
    BY <1>12 DEF LoopShape, AskAgain, _synthesize_final
<1>13. ASSUME AnswerUnjudged \/ StartJudge \/ JudgeReturns \/ Commit PROVE LoopShape'
    BY <1>13 DEF LoopShape, AnswerUnjudged, StartJudge, JudgeReturns, Commit
<1>14. ASSUME Disconnect \/ Cancelled PROVE LoopShape'
    BY <1>14 DEF LoopShape, Disconnect, Cancelled
<1>15. ASSUME UNCHANGED tvars PROVE LoopShape'
    BY <1>15 DEF LoopShape, tvars
<1> QED BY <1>1, <1>2, <1>3, <1>5, <1>6, <1>7, <1>9, <1>10, <1>11, <1>12, <1>13, <1>14, <1>15
        DEF TNext, Loop

-----------------------------------------------------------------------------
(* The turn: what the client is told.                                      *)

\* Until the judge starts, nothing has been told; an early answer is out when
\* it starts, the answer is out when the transaction is to be committed, and
\* the transaction is open until the exchange is over.
Settling ==
    /\ sent \in [answer : 0..2, error : 0..1, verdicts : BOOLEAN, done : BOOLEAN]
    /\ rows \in Outcome /\ proposal \in Outcome
    /\ sent.answer <= 1
    /\ pc # "over" => /\ sent.error = 0
                      /\ rows \in {"none", "flushed"} /\ proposal \in {"none", "flushed"}
    /\ pc \notin {"judge", "commit", "over"} => sent.answer = 0
    /\ pc = "judge" /\ Early => gone \/ sent.answer = 1
    /\ pc = "judge" /\ ~Early => sent.answer = 0
    /\ pc = "commit" => gone \/ sent.answer = 1
    /\ pc \in {"tools", "again", "force", "finalize", "unjudged", "judge", "commit"} => rows = "flushed"
    /\ SettlesOnce

\* A step that tells the client nothing and does not end the exchange.
LEMMA QuietStep ==
    ASSUME Settling, pc \notin {"judge", "commit", "over"}, pc' \notin {"judge", "commit", "over"},
           sent' = sent, conf' = conf, gone' = gone,
           rows' \in {"none", "flushed"}, proposal' \in {"none", "flushed"},
           pc' \in {"tools", "again", "force", "finalize", "unjudged"} => rows' = "flushed"
    PROVE  Settling'
    BY DEF Settling, SettlesOnce, Finished, Outcome

\* The records a step may send.
LEMMA SentShape ==
    ASSUME NEW s \in [answer : 0..2, error : 0..1, verdicts : BOOLEAN, done : BOOLEAN],
           NEW a \in 0..2, NEW e \in 0..1, NEW v \in BOOLEAN, NEW d \in BOOLEAN
    PROVE  /\ [s EXCEPT !.answer = a] = [answer |-> a, error |-> s.error, verdicts |-> s.verdicts, done |-> s.done]
           /\ [s EXCEPT !.answer = a, !.verdicts = v] = [answer |-> a, error |-> s.error, verdicts |-> v, done |-> s.done]
           /\ [s EXCEPT !.error = e, !.done = d] = [answer |-> s.answer, error |-> e, verdicts |-> s.verdicts, done |-> d]
           /\ [s EXCEPT !.done = d] = [answer |-> s.answer, error |-> s.error, verdicts |-> s.verdicts, done |-> d]
<1>1. [s EXCEPT !.answer = a] = [answer |-> a, error |-> s.error, verdicts |-> s.verdicts, done |-> s.done]
    OBVIOUS
<1>2. [s EXCEPT !.answer = a, !.verdicts = v] = [answer |-> a, error |-> s.error, verdicts |-> v, done |-> s.done]
  <2>1. PICK t \in [answer : 0..2, error : 0..1, verdicts : BOOLEAN, done : BOOLEAN] :
           t = [answer |-> a, error |-> s.error, verdicts |-> s.verdicts, done |-> s.done]
      OBVIOUS
  <2>2. [t EXCEPT !.verdicts = v] = [answer |-> a, error |-> s.error, verdicts |-> v, done |-> s.done]
      BY <2>1
  <2> QED BY <1>1, <2>1, <2>2
<1>3. [s EXCEPT !.error = e, !.done = d] = [answer |-> s.answer, error |-> e, verdicts |-> s.verdicts, done |-> d]
  <2>1. PICK t \in [answer : 0..2, error : 0..1, verdicts : BOOLEAN, done : BOOLEAN] :
           t = [answer |-> s.answer, error |-> e, verdicts |-> s.verdicts, done |-> s.done]
      OBVIOUS
  <2>2. [s EXCEPT !.error = e] = t
      BY <2>1
  <2>3. [t EXCEPT !.done = d] = [answer |-> s.answer, error |-> e, verdicts |-> s.verdicts, done |-> d]
      BY <2>1
  <2> QED BY <2>2, <2>3
<1>4. [s EXCEPT !.done = d] = [answer |-> s.answer, error |-> s.error, verdicts |-> s.verdicts, done |-> d]
    OBVIOUS
<1> QED BY <1>1, <1>2, <1>3, <1>4

\* An answer goes out before the exchange is over.
LEMMA AnswerStep ==
    ASSUME Settling, NEW a \in 0..1, NEW v \in BOOLEAN, pc # "over",
           pc' \in {"judge", "commit"}, rows' = "flushed",
           UNCHANGED <<proposal, conf, gone>>,
           \/ sent' = [sent EXCEPT !.answer = a] \/ sent' = [sent EXCEPT !.answer = a, !.verdicts = v],
           gone \/ a = 1, pc' = "judge" => Early
    PROVE  Settling'
<1>1. sent \in [answer : 0..2, error : 0..1, verdicts : BOOLEAN, done : BOOLEAN] /\ a \in 0..2
    BY DEF Settling
<1>2. PICK w \in BOOLEAN : sent' = [answer |-> a, error |-> sent.error, verdicts |-> w, done |-> sent.done]
    BY <1>1, SentShape
<1>3. /\ sent' \in [answer : 0..2, error : 0..1, verdicts : BOOLEAN, done : BOOLEAN]
      /\ sent'.answer = a /\ sent'.error = sent.error
    BY <1>1, <1>2
<1> QED BY <1>3 DEF Settling, SettlesOnce, Finished, Outcome, Early

\* The exchange ends and the client is told so.
LEMMA EndStep ==
    ASSUME Settling, NEW e \in 0..1, NEW d \in BOOLEAN, pc # "over", pc' = "over",
           UNCHANGED <<conf, gone>>, d \/ gone,
           \/ sent' = [sent EXCEPT !.error = e, !.done = d]
           \/ sent' = [sent EXCEPT !.done = d] /\ e = sent.error,
           rows' \in Outcome, proposal' \in Outcome,
           ~gone => /\ sent.answer + e >= 1
                    /\ e = 0 => proposal' # "lost" /\ rows' = "committed"
                    /\ e = 1 => proposal' # "committed"
    PROVE  Settling'
<1>1. sent \in [answer : 0..2, error : 0..1, verdicts : BOOLEAN, done : BOOLEAN]
    BY DEF Settling
<1>2. sent' = [answer |-> sent.answer, error |-> e, verdicts |-> sent.verdicts, done |-> d]
  <2>1. 0 \in 0..2 /\ TRUE \in BOOLEAN
      OBVIOUS
  <2> QED BY <1>1, <2>1, SentShape
<1>3. /\ sent' \in [answer : 0..2, error : 0..1, verdicts : BOOLEAN, done : BOOLEAN]
      /\ sent'.answer = sent.answer /\ sent'.error = e
    BY <1>1, <1>2
<1>4. sent'.done <=> d
    BY <1>2
<1> QED BY <1>3, <1>4 DEF Settling, SettlesOnce, Finished

\* An exception ends the exchange with an error, and the transaction is lost.
LEMMA FailsSettles == ASSUME Settling, pc # "over", Fails PROVE Settling'
<1>1. /\ pc' = "over" /\ UNCHANGED <<conf, gone>>
      /\ rows' = Dropped(rows) /\ proposal' = Dropped(proposal)
      /\ sent' = [sent EXCEPT !.error = IF gone THEN @ ELSE 1, !.done = ~gone]
    BY DEF Fails
<1>2. rows' \in Outcome /\ proposal' \in Outcome /\ proposal' # "committed"
    BY <1>1 DEF Settling, Dropped, Outcome
<1>3. /\ sent \in [answer : 0..2, error : 0..1, verdicts : BOOLEAN, done : BOOLEAN]
      /\ sent.answer \in 0..2
    BY DEF Settling
<1>4. CASE gone
  <2>1. sent' = [sent EXCEPT !.error = sent.error, !.done = FALSE] /\ sent.error \in 0..1
      BY <1>1, <1>3, <1>4
  <2> QED BY <1>1, <1>2, <1>4, <2>1, EndStep
<1>5. CASE ~gone
  <2>1. sent' = [sent EXCEPT !.error = 1, !.done = TRUE]
      BY <1>1, <1>5
  <2>2. 1 \in 0..1 /\ sent.answer + 1 >= 1 /\ TRUE \in BOOLEAN /\ 1 # 0
      BY <1>3
  <2> QED BY <1>1, <1>2, <2>1, <2>2, EndStep
<1> QED BY <1>4, <1>5

\* Each step of the loop and of the client keeps what the client was told.
LEMMA SettlingSteps == ASSUME Settling, [TNext]_tvars PROVE Settling'
<1>0. /\ sent \in [answer : 0..2, error : 0..1, verdicts : BOOLEAN, done : BOOLEAN]
      /\ sent.answer \in 0..1 /\ sent.answer <= 1
    BY DEF Settling
<1>1. ASSUME chat_stream \/ run PROVE Settling'
    BY <1>1, QuietStep DEF chat_stream, run, Settling
<1>2. ASSUME SetupRefused PROVE Settling'
  <2>1. /\ pc = "setup" /\ pc' = "over" /\ UNCHANGED <<conf, gone, rows, proposal>>
        /\ sent' = [sent EXCEPT !.error = 1, !.done = TRUE]
      BY <1>2 DEF SetupRefused
  <2>2. rows' \in Outcome /\ proposal' \in Outcome /\ proposal' # "committed"
      BY <2>1 DEF Settling
  <2>3. 1 \in 0..1 /\ sent.answer + 1 >= 1 /\ TRUE \in BOOLEAN /\ 1 # 0
      BY <1>0
  <2> QED BY <2>1, <2>2, <2>3, EndStep
<1>3. ASSUME NEW wolf \in BOOLEAN, ModelFails(wolf) PROVE Settling'
  <2>1. pc = "model"
      BY <1>3 DEF ModelFails
  <2>2. CASE Fails
      BY <2>1, <2>2, FailsSettles
  <2>3. CASE _fail_gracefully
    <3>1. /\ pc' = "commit" /\ rows' = "flushed" /\ UNCHANGED <<proposal, conf, gone>>
          /\ sent' = [sent EXCEPT !.answer = Emitted]
        BY <2>3 DEF _fail_gracefully, _audit_model_failure
    <3>2. Emitted \in 0..1 /\ (gone \/ Emitted = 1)
        BY <2>1 DEF Settling, Emitted
    <3> QED BY <2>1, <3>1, <3>2, AnswerStep
  <2> QED BY <1>3, <2>2, <2>3 DEF ModelFails
<1>4. ASSUME NEW text \in {"", "blank", "text"},
             \/ ModelAnswers(text) \/ _synthesized_stop(text)
             \/ \E n \in 1..MaxCalls : ModelCalls(n, text)
      PROVE  Settling'
  <2>1. /\ pc \in {"model", "force"} /\ UNCHANGED <<sent, conf, gone, proposal>>
        /\ pc' \in {"finalize", "again", "unjudged", "tools"} /\ rows' \in {rows, "flushed"}
        /\ pc = "model" => rows' = "flushed"
      BY <1>4 DEF ModelAnswers, _synthesized_stop, ModelCalls, Responds, _synthesize_final,
                  _audit_model_success
  <2>2. rows' = "flushed" /\ proposal' \in {"none", "flushed"}
      BY <2>1 DEF Settling
  <2> QED BY <2>1, <2>2, QuietStep
<1>5. ASSUME NEW new \in BOOLEAN, ReadSucceeds(new) \/ ProposeSucceeds(new) \/ CallRefused(new)
      PROVE  Settling'
  <2>1. /\ pc = "tools" /\ UNCHANGED <<pc, sent, conf, gone>> /\ rows' = "flushed"
        /\ proposal' \in {proposal, "flushed"}
      BY <1>5 DEF ReadSucceeds, ProposeSucceeds, CallRefused, Dispatched
  <2>2. proposal' \in {"none", "flushed"}
      BY <2>1 DEF Settling
  <2> QED BY <2>1, <2>2, QuietStep
<1>6. ASSUME CallBubbles \/ DatabaseFails PROVE Settling'
    BY <1>6, FailsSettles DEF CallBubbles, DatabaseFails
<1>7. ASSUME StepEnds \/ AskAgain PROVE Settling'
  <2>1. /\ pc \in {"tools", "again"} /\ UNCHANGED <<sent, conf, gone, rows, proposal>>
        /\ pc' \in {"force", "model", "finalize"}
      BY <1>7 DEF StepEnds, AskAgain, _synthesize_final
  <2>2. rows' = "flushed" /\ proposal' \in {"none", "flushed"}
      BY <2>1 DEF Settling
  <2> QED BY <2>1, <2>2, QuietStep
<1>8. ASSUME AnswerUnjudged PROVE Settling'
  <2>1. /\ pc \in {"unjudged", "finalize"} /\ pc' = "commit"
        /\ sent' = [sent EXCEPT !.answer = Emitted] /\ UNCHANGED <<conf, gone, rows, proposal>>
      BY <1>8 DEF AnswerUnjudged
  <2>2. Emitted \in 0..1 /\ (gone \/ Emitted = 1) /\ rows' = "flushed"
      BY <2>1 DEF Settling, Emitted
  <2> QED BY <2>1, <2>2, AnswerStep
<1>9. ASSUME StartJudge PROVE Settling'
  <2>1. /\ pc = "finalize" /\ pc' = "judge" /\ UNCHANGED <<conf, gone, rows, proposal>>
        /\ sent' = IF Early THEN [sent EXCEPT !.answer = Emitted] ELSE sent
      BY <1>9 DEF StartJudge
  <2>2. Emitted \in 0..1 /\ (gone \/ Emitted = 1) /\ rows' = "flushed"
      BY <2>1 DEF Settling, Emitted
  <2>3. CASE Early
      BY <2>1, <2>2, <2>3, AnswerStep
  <2>4. CASE ~Early
    <3>1. sent' = sent /\ ~Early'
        BY <2>1, <2>4 DEF Early
    <3> QED BY <2>1, <2>2, <3>1 DEF Settling, SettlesOnce, Finished, Outcome
  <2> QED BY <2>3, <2>4
<1>10. ASSUME JudgeReturns PROVE Settling'
  <2>1. /\ pc = "judge" /\ pc' = "commit" /\ rows' = "flushed" /\ UNCHANGED <<conf, gone, proposal>>
        /\ sent' = [sent EXCEPT !.answer = LateAnswer, !.verdicts = ~gone]
      BY <1>10 DEF JudgeReturns
  <2>2. LateAnswer \in 0..1 /\ (gone \/ LateAnswer = 1)
      BY <1>0, <2>1 DEF Settling, LateAnswer, Emitted
  <2>3. (~gone) \in BOOLEAN
      OBVIOUS
  <2> QED BY <2>1, <2>2, <2>3, AnswerStep
<1>11. ASSUME Commit PROVE Settling'
  <2>1. /\ pc = "commit" /\ pc' = "over" /\ UNCHANGED <<conf, gone>>
        /\ rows' = Saved(rows) /\ proposal' = Saved(proposal)
        /\ sent' = [sent EXCEPT !.done = ~gone]
      BY <1>11 DEF Commit, commit
  <2>2. /\ rows' = "committed" /\ rows' \in Outcome /\ proposal' \in Outcome /\ proposal' # "lost"
        /\ sent.error = 0 /\ (gone \/ sent.answer = 1)
      BY <2>1 DEF Settling, Saved, Outcome
  <2>3. (~gone) \in BOOLEAN /\ 0 \in 0..1 /\ (~gone => sent.answer + 0 >= 1) /\ 0 # 1
      BY <1>0, <2>2
  <2> QED BY <2>1, <2>2, <2>3, EndStep
<1>12. ASSUME Disconnect \/ UNCHANGED tvars PROVE Settling'
  <2>1. /\ UNCHANGED <<conf, pc, rows, proposal, sent>> /\ gone' \in {gone, TRUE}
        /\ (pc = "over" => gone' = gone)
      BY <1>12 DEF Disconnect, tvars
  <2>2. SettlesOnce'
      BY <2>1 DEF Settling, SettlesOnce, Finished
  <2>3. gone => gone'
      BY <1>12 DEF Disconnect, tvars
  <2>4. Early <=> Early'
      BY <2>1 DEF Early
  <2> QED BY <2>1, <2>2, <2>3, <2>4 DEF Settling
<1>13. ASSUME Cancelled PROVE Settling'
  <2>1. /\ gone /\ gone' = gone /\ sent' = sent /\ pc' = "over"
        /\ rows' = Dropped(rows) /\ proposal' = Dropped(proposal)
      BY <1>13 DEF Cancelled
  <2>2. rows' \in Outcome /\ proposal' \in Outcome
      BY <2>1 DEF Settling, Dropped, Outcome
  <2> QED BY <2>1, <2>2 DEF Settling, SettlesOnce, Finished
<1> QED BY <1>1, <1>2, <1>3, <1>4, <1>5, <1>6, <1>7, <1>8, <1>9, <1>10, <1>11, <1>12, <1>13
        DEF TNext, Loop

\* The two halves of a turn's state, at first and at every step.
LEMMA TurnInvariant == TSpec => [](LoopShape /\ Settling)
<1>1. TInit => LoopShape
  <2>1. 0 \in 0..MaxSteps /\ 0 \in 0..2 /\ 0 \in 0..FitLimit /\ 0 \in 0..MaxCalls /\ 0 < 2
      BY TurnAssumption
  <2> QED BY <2>1 DEF TInit, LoopShape, MAX_REDUNDANT_STREAK
<1>2. TInit => Settling
  <2> SUFFICES ASSUME TInit PROVE Settling
      OBVIOUS
  <2>1. /\ sent = [answer |-> 0, error |-> 0, verdicts |-> FALSE, done |-> FALSE]
        /\ rows = "none" /\ proposal = "none" /\ pc = "setup"
      BY DEF TInit
  <2>2. /\ sent \in [answer : 0..2, error : 0..1, verdicts : BOOLEAN, done : BOOLEAN]
        /\ sent.answer = 0 /\ sent.error = 0
      BY <2>1
  <2> QED BY <2>1, <2>2 DEF Settling, SettlesOnce, Finished, Outcome
<1>3. LoopShape /\ [TNext]_tvars => LoopShape'
    BY LoopSteps
<1>4. Settling /\ [TNext]_tvars => Settling'
    BY SettlingSteps
<1> QED BY <1>1, <1>2, <1>3, <1>4, PTL DEF TSpec

-----------------------------------------------------------------------------
(* The grounding validator.                                                *)

GSpec == GInit /\ [][GNext]_gvars

Verdict == [verdict : Verdicts \cup {"none"}, by : 0..max_claims]

\* A claim that has a verdict has it from a judge that was shown the claim.
Judged(pcm) ==
    /\ pcm \in [Claims -> Verdict]
    /\ \A i \in Claims : pcm[i] # Unjudged => i \in Slice(pcm[i].by)

GroundingInv ==
    /\ count \in Nat \ {0}
    /\ stage \in {"judge", "again", "retry", "done", "skipped"}
    /\ waiting \subseteq 0..max_claims
    /\ Judged(per_claim)
    /\ stage = "done" => Missing = {}

\* The claims are the first ones of the answer, max_claims at most.
LEMMA ClaimNumbers ==
    ASSUME count \in Nat \ {0}
    PROVE  /\ Prepared(count) \in Nat \ {0} /\ Prepared(count) <= max_claims
           /\ Prepared(count) <= count /\ max_claims \in Nat \ {0} /\ batch_size \in Nat \ {0}
           /\ \A i \in Claims : i \in Nat /\ i >= 1 /\ i <= Prepared(count)
    BY GroundingAssumption DEF Prepared, Claims

\* The remainder of a division.
LEMMA Remainder ==
    ASSUME NEW x \in Nat, NEW b \in Nat \ {0}
    PROVE  \E r \in Nat : r <= b - 1 /\ r <= x /\ (x - r) % b = 0
<1>1. x % b \in Nat /\ x % b <= b - 1 /\ x % b <= x
    OBVIOUS
<1>2. PICK r \in Nat : r = x % b
    BY <1>1
<1>3. (x - r) % b = 0
    BY <1>2
<1>4. r <= b - 1 /\ r <= x /\ (x - r) % b = 0
    BY <1>1, <1>2, <1>3
<1> QED BY <1>4

\* Every claim is in the list of some judge, and a judge whose list it is in
\* has an offset below it.
LEMMA EveryClaimHasASlice ==
    ASSUME count \in Nat \ {0}, NEW i \in Claims
    PROVE  /\ \E o \in Offsets(count) : i \in Slice(o)
           /\ \A o \in Offsets(count) : i \in Slice(o) => o \in 0..max_claims
<1>1. /\ i \in Nat /\ i >= 1 /\ i <= Prepared(count) /\ Prepared(count) \in Nat
      /\ Prepared(count) <= max_claims /\ Prepared(count) <= count /\ count \in Nat
      /\ max_claims \in Nat /\ batch_size \in Nat \ {0}
    BY ClaimNumbers
<1>2. CASE whole
    BY <1>1, <1>2 DEF Offsets, Slice
<1>3. CASE ~whole
  <2>1. PICK x \in Nat : x = i - 1
      BY <1>1
  <2>2. PICK r \in Nat : r <= batch_size - 1 /\ r <= x /\ (x - r) % batch_size = 0
      BY <1>1, Remainder
  <2>3. PICK o \in Nat : o = x - r
      BY <2>1, <2>2
  <2>4. o \in 0..count - 1 /\ o % batch_size = 0
      BY <1>1, <2>1, <2>2, <2>3
  <2>5. i > o /\ i <= o + batch_size
      BY <1>1, <2>1, <2>2, <2>3
  <2>6. o \in Offsets(count) /\ i \in Slice(o)
      BY <1>3, <2>4, <2>5 DEF Offsets, Slice
  <2>7. ASSUME NEW p \in Offsets(count), i \in Slice(p) PROVE p \in 0..max_claims
    <3>1. p \in 0..count - 1 /\ i > p
        BY <1>3, <2>7 DEF Offsets, Slice
    <3> QED BY <1>1, <3>1
  <2> QED BY <2>6, <2>7
<1> QED BY <1>2, <1>3

\* Filling in leaves no claim without a verdict.
LEMMA FilledShape ==
    ASSUME count \in Nat \ {0}, NEW pcm, Judged(pcm)
    PROVE  Judged(Filled(pcm)) /\ \A i \in Claims : Filled(pcm)[i] # Unjudged
<1> DEFINE o(i) == CHOOSE o \in Offsets(count) : i \in Slice(o)
           e(i) == [verdict |-> "uncertain", by |-> o(i)]
           f == Filled(pcm)
<1>1. ASSUME NEW i \in Claims PROVE o(i) \in 0..max_claims /\ i \in Slice(o(i))
    BY <1>1, EveryClaimHasASlice
<1>2. f = [i \in Claims |-> IF pcm[i] = Unjudged THEN e(i) ELSE pcm[i]]
    BY DEF Filled
<1> HIDE DEF o, f
<1>3. ASSUME NEW i \in Claims
      PROVE  e(i) \in Verdict /\ e(i) # Unjudged /\ i \in Slice(e(i).by)
    BY <1>1, <1>3 DEF Verdict, Verdicts, Unjudged
<1> HIDE DEF e
<1>4. \A i \in Claims : f[i] = IF pcm[i] = Unjudged THEN e(i) ELSE pcm[i]
    BY <1>2
<1>5. f \in [Claims -> Verdict]
    BY <1>2, <1>3 DEF Judged
<1>6. \A i \in Claims : f[i] # Unjudged /\ i \in Slice(f[i].by)
    BY <1>3, <1>4 DEF Judged
<1> QED BY <1>5, <1>6 DEF Judged, f

\* A reply gives verdicts to claims of its own list only.
LEMMA MergedShape ==
    ASSUME NEW o \in 0..max_claims, NEW reply, NEW v \in Verdicts, Judged(per_claim)
    PROVE  Judged(merge_verdicts(o, reply, v))
<1> DEFINE e == [verdict |-> v, by |-> o]
           f == merge_verdicts(o, reply, v)
<1>1. f = [i \in Claims |-> IF i \in reply /\ InRange(o, i) /\ Open(i) THEN e ELSE per_claim[i]]
    BY DEF merge_verdicts
<1>2. e \in Verdict /\ e.by = o
    BY DEF Verdict
<1> HIDE DEF e, f
<1>3. \A i \in Claims : f[i] = IF i \in reply /\ InRange(o, i) /\ Open(i) THEN e ELSE per_claim[i]
    BY <1>1
<1>4. f \in [Claims -> Verdict]
    BY <1>1, <1>2 DEF Judged
<1>5. \A i \in Claims : f[i] # Unjudged => i \in Slice(f[i].by)
    BY <1>2, <1>3 DEF Judged, InRange
<1> QED BY <1>4, <1>5 DEF Judged, f

\* A step that leaves the question and sets the verdicts.
LEMMA GroundingKept ==
    ASSUME GroundingInv, UNCHANGED <<whole, count>>,
           stage' \in {"judge", "again", "retry", "done", "skipped"}, waiting' \subseteq waiting,
           Judged(per_claim'),
           stage' = "done" => \A i \in Claims : per_claim'[i] # Unjudged
    PROVE  GroundingInv'
<1>1. Claims' = Claims /\ \A o : Slice(o)' = Slice(o)
    BY DEF Claims, Slice, Prepared
<1>2. Judged(per_claim)'
    BY <1>1 DEF Judged
<1>3. stage' = "done" => Missing' = {}
    BY <1>1 DEF Missing
<1> QED BY <1>2, <1>3 DEF GroundingInv

\* Every step of the validator.
LEMMA GroundingSteps == ASSUME GroundingInv, [GNext]_gvars PROVE GroundingInv'
<1>0. Judged(per_claim) /\ count \in Nat \ {0} /\ waiting \subseteq 0..max_claims /\ 0 \in 0..max_claims
    BY GroundingAssumption DEF GroundingInv
<1>1. ASSUME NEW v \in Verdicts, NEW reply, JudgeAnswers(reply, v) PROVE GroundingInv'
  <2>1. PICK m : m = merge_verdicts(0, reply, v)
      OBVIOUS
  <2>2. Judged(m)
      BY <1>0, <1>1, <2>1, MergedShape
  <2>3. UNCHANGED <<whole, count, waiting>>
      BY <1>1 DEF JudgeAnswers
  <2>4. \/ stage' = "retry" /\ per_claim' = m
        \/ stage' = "done" /\ per_claim' = Filled(m)
      BY <1>1, <2>1 DEF JudgeAnswers
  <2> QED BY <1>0, <2>2, <2>3, <2>4, FilledShape, GroundingKept
<1>2. ASSUME NEW v \in Verdicts, NEW o \in waiting, NEW reply, BatchAnswers(o, reply, v)
      PROVE  GroundingInv'
  <2>1. /\ per_claim' = merge_verdicts(o, reply, v) /\ waiting' = waiting \ {o}
        /\ UNCHANGED <<whole, count, stage>> /\ stage = "judge"
      BY <1>2 DEF BatchAnswers
  <2>2. Judged(per_claim')
      BY <1>0, <1>2, <2>1, MergedShape
  <2> QED BY <2>1, <2>2, GroundingKept
<1>3. ASSUME JudgeFails PROVE GroundingInv'
  <2>1. /\ UNCHANGED <<whole, count, waiting>>
        /\ \/ stage' \in {"again", "skipped"} /\ per_claim' = per_claim
           \/ stage' = "done" /\ per_claim' = Filled(per_claim)
      BY <1>3 DEF JudgeFails
  <2> QED BY <1>0, <2>1, FilledShape, GroundingKept
<1>4. ASSUME BatchesDone PROVE GroundingInv'
    BY <1>0, <1>4, FilledShape, GroundingKept DEF BatchesDone
<1>5. ASSUME NEW o \in waiting, BatchFails(o) PROVE GroundingInv'
    BY <1>0, <1>5, GroundingKept DEF BatchFails
<1>6. ASSUME UNCHANGED gvars PROVE GroundingInv'
    BY <1>6 DEF GroundingInv, gvars, Judged, Claims, Slice, Prepared, Missing
<1> QED BY <1>1, <1>2, <1>3, <1>4, <1>5, <1>6 DEF GNext

\* The validator's invariant.
LEMMA GroundingInvariant == GSpec => []GroundingInv
<1>1. ASSUME GInit PROVE GroundingInv
  <2>1. count \in Nat \ {0} /\ stage = "judge"
      BY <1>1, GroundingAssumption DEF GInit
  <2>2. waiting \subseteq 0..max_claims
    <3>1. Prepared(count) \in Nat \ {0} /\ Prepared(count) <= max_claims /\ max_claims \in Nat
        BY <2>1, ClaimNumbers
    <3>2. Offsets(Prepared(count)) \subseteq 0..max_claims
        BY <3>1 DEF Offsets
    <3> QED BY <1>1, <3>2 DEF GInit
  <2>3. Unjudged \in Verdict
      BY GroundingAssumption DEF Unjudged, Verdict
  <2>4. Judged(per_claim)
      BY <1>1, <2>3 DEF GInit, Judged
  <2> QED BY <2>1, <2>2, <2>4 DEF GroundingInv
<1>2. GroundingInv /\ [GNext]_gvars => GroundingInv'
    BY GroundingSteps
<1> QED BY <1>1, <1>2, PTL DEF GSpec

-----------------------------------------------------------------------------
(* The provider chain.                                                     *)

FSpec == FInit /\ [][FNext]_fvars

CallRec == [st : {"idle", "waiting", "ok", "failed"}, stream : BOOLEAN, left : SUBSET LinkIds,
            tries : 0..MAX_RETRIES, shown : 0..2, got : 0..2]

First(S) == CHOOSE l \in S : \A x \in S : l <= x

\* A call that waits has a link to try, and what it showed is that link's.
CallOK(r) ==
    /\ r.st = "idle" => r.shown = 0 /\ r.got = 0
    /\ r.st = "waiting" => r.left # {} /\ r.got = 0 /\ (r.shown # 0 => r.shown = First(r.left))

FailoverInv ==
    /\ chain \in Seq(Configured) /\ Len(chain) <= 2
    /\ tripped \in [LinkIds -> 0..Cooloff]
    /\ call \in [Callers -> CallRec]
    /\ \A c \in Callers : CallOK(call[c])

\* One step of a call, from r to s, as ModelCall has it.
Moves(r, s) ==
    \/ r.st = "idle" /\ s.st = "waiting" /\ s.shown = r.shown /\ s.got = r.got
    \/ r.st = "waiting" /\ s.st = r.st /\ r.shown = 0 /\ s.shown \in LinkIds /\ s.got = r.got
    \/ /\ r.st = "waiting" /\ s.st = "ok" /\ s.shown = r.shown
       /\ s.got \in IF r.shown = 0 THEN LinkIds ELSE {r.shown}
    \/ r.st = "waiting" /\ s.st = "failed" /\ s.shown = r.shown /\ s.got = r.got
    \/ r.st \in {"ok", "failed"} /\ s.st = "idle" /\ s.shown = 0 /\ s.got = 0
    \/ s.st = r.st /\ s.shown = r.shown /\ s.got = r.got

AllMove == \A c \in Callers : Call(c)!CallNext \/ UNCHANGED Call(c)!cvars

\* Such a step is one of ModelCall.
LEMMA MovesAreCalls ==
    ASSUME NEW c, Moves(call[c], call'[c]) PROVE Call(c)!CallNext \/ UNCHANGED Call(c)!cvars
<1>1. CASE call[c].st = "idle" /\ call'[c].st = "waiting" /\ call'[c].shown = call[c].shown
           /\ call'[c].got = call[c].got
    BY <1>1 DEF Call!CallNext, Call!Ask
<1>2. CASE call[c].st = "waiting" /\ call'[c].st = call[c].st /\ call[c].shown = 0
           /\ call'[c].shown \in LinkIds /\ call'[c].got = call[c].got
    BY <1>2 DEF Call!CallNext, Call!Delta
<1>3. CASE /\ call[c].st = "waiting" /\ call'[c].st = "ok" /\ call'[c].shown = call[c].shown
           /\ call'[c].got \in IF call[c].shown = 0 THEN LinkIds ELSE {call[c].shown}
    BY <1>3 DEF Call!CallNext, Call!Done
<1>4. CASE call[c].st = "waiting" /\ call'[c].st = "failed" /\ call'[c].shown = call[c].shown
           /\ call'[c].got = call[c].got
    BY <1>4 DEF Call!CallNext, Call!Raise
<1>5. CASE call[c].st \in {"ok", "failed"} /\ call'[c].st = "idle" /\ call'[c].shown = 0
           /\ call'[c].got = 0
    BY <1>5 DEF Call!CallNext, Call!Return
<1>6. CASE call'[c].st = call[c].st /\ call'[c].shown = call[c].shown /\ call'[c].got = call[c].got
    BY <1>6 DEF Call!cvars
<1> QED BY <1>1, <1>2, <1>3, <1>4, <1>5, <1>6 DEF Moves

\* The first of some links is one of them.
LEMMA FirstIsOne == ASSUME NEW S, S \subseteq LinkIds, S # {} PROVE First(S) \in S
<1>1. \E l \in S : \A x \in S : l <= x
  <2>1. CASE 1 \in S
      BY <2>1 DEF LinkIds
  <2>2. CASE 1 \notin S
    <3>1. \A x \in S : x = 2
        BY <2>2 DEF LinkIds
    <3>2. PICK l \in S : TRUE
        OBVIOUS
    <3>3. l <= 2
        BY <3>1, <3>2
    <3> QED BY <3>1, <3>2, <3>3
  <2> QED BY <2>1, <2>2
<1> QED BY <1>1 DEF First

\* The links a call starts with are links of the chain.
LEMMA OrderShape ==
    ASSUME FailoverInv, chain # <<>> PROVE order \subseteq LinkIds /\ order # {}
<1>1. chain \in Seq(Configured) /\ Len(chain) <= 2 /\ Len(chain) \in Nat
    BY DEF FailoverInv
<1>2. DOMAIN chain = 1..Len(chain) /\ Len(chain) # 0
    BY <1>1
<1>3. DOMAIN chain \subseteq LinkIds /\ DOMAIN chain # {}
  <2>1. PICK n \in Nat : n = Len(chain) /\ n <= 2 /\ n # 0 /\ DOMAIN chain = 1..n
      BY <1>1, <1>2
  <2>2. \A l \in 1..n : l \in 1..2
      BY <2>1
  <2>3. 1 \in 1..n
      BY <2>1
  <2> QED BY <2>1, <2>2, <2>3 DEF LinkIds
<1> QED BY <1>3 DEF order

\* A step of the call of c.
LEMMA CallKept ==
    ASSUME FailoverInv, NEW c \in Callers, NEW s \in CallRec, call' = [call EXCEPT ![c] = s],
           chain' = chain, tripped' \in [LinkIds -> 0..Cooloff], CallOK(s), Moves(call[c], s)
    PROVE  FailoverInv' /\ AllMove
<1>1. call \in [Callers -> CallRec] /\ \A d \in Callers : CallOK(call[d])
    BY DEF FailoverInv
<1>2. call'[c] = s /\ \A d \in Callers : d # c => call'[d] = call[d]
    BY <1>1
<1>3. call' \in [Callers -> CallRec] /\ \A d \in Callers : CallOK(call'[d])
    BY <1>1, <1>2
<1>4. ASSUME NEW d \in Callers PROVE Moves(call[d], call'[d])
  <2>1. CASE d = c
      BY <1>2, <2>1
  <2>2. CASE d # c
      BY <1>2, <1>4, <2>2 DEF Moves
  <2> QED BY <2>1, <2>2
<1>5. AllMove
    BY <1>4, MovesAreCalls DEF AllMove
<1> QED BY <1>3, <1>5 DEF FailoverInv

\* A call that is left alone, whatever happens to the chain and its breaker.
LEMMA CallsRest ==
    ASSUME FailoverInv, call' = call, chain' \in Seq(Configured), Len(chain') <= 2,
           tripped' \in [LinkIds -> 0..Cooloff]
    PROVE  FailoverInv' /\ AllMove
<1>1. \A c \in Callers : Moves(call[c], call'[c])
    BY DEF Moves
<1>2. AllMove
    BY <1>1, MovesAreCalls DEF AllMove
<1> QED BY <1>2 DEF FailoverInv

\* What one call and its link are.
LEMMA CallShape ==
    ASSUME FailoverInv, NEW c \in Callers
    PROVE  /\ call \in [Callers -> CallRec] /\ call[c] \in CallRec /\ CallOK(call[c])
           /\ Link(c) = First(call[c].left)
           /\ Trying(c) => Link(c) \in call[c].left /\ Link(c) \in LinkIds
<1>1. call \in [Callers -> CallRec] /\ call[c] \in CallRec /\ CallOK(call[c])
    BY DEF FailoverInv
<1>2. Link(c) = First(call[c].left)
    BY DEF Link, First
<1>3. call[c].left \subseteq LinkIds
    BY <1>1 DEF CallRec
<1>4. Trying(c) => call[c].left # {}
    BY <1>1 DEF Trying, CallOK
<1> QED BY <1>1, <1>2, <1>3, <1>4, FirstIsOne

\* A call's state after one field is set: what became of it...
LEMMA SetSt ==
    ASSUME NEW r \in CallRec, NEW t \in {"idle", "waiting", "ok", "failed"}
    PROVE  \E s \in CallRec :
              /\ s = [r EXCEPT !.st = t]
              /\ s.st = t /\ s.left = r.left /\ s.shown = r.shown /\ s.got = r.got
<1>1. [r EXCEPT !.st = t] \in CallRec
    BY DEF CallRec
<1>2. PICK s \in CallRec : s = [r EXCEPT !.st = t]
    BY <1>1
<1>3. s.st = t /\ s.left = r.left /\ s.shown = r.shown /\ s.got = r.got
    BY <1>2 DEF CallRec
<1> QED BY <1>2, <1>3

\* ...the links left to it...
LEMMA SetLeft ==
    ASSUME NEW r \in CallRec, NEW L \in SUBSET LinkIds
    PROVE  \E s \in CallRec :
              /\ s = [r EXCEPT !.left = L]
              /\ s.st = r.st /\ s.left = L /\ s.shown = r.shown /\ s.got = r.got
<1>1. [r EXCEPT !.left = L] \in CallRec
    BY DEF CallRec
<1>2. PICK s \in CallRec : s = [r EXCEPT !.left = L]
    BY <1>1
<1>3. s.st = r.st /\ s.left = L /\ s.shown = r.shown /\ s.got = r.got
    BY <1>2 DEF CallRec
<1> QED BY <1>2, <1>3

\* ...the replies it could not read...
LEMMA SetTries ==
    ASSUME NEW r \in CallRec, NEW n \in 0..MAX_RETRIES
    PROVE  \E s \in CallRec :
              /\ s = [r EXCEPT !.tries = n]
              /\ s.st = r.st /\ s.left = r.left /\ s.shown = r.shown /\ s.got = r.got
<1>1. [r EXCEPT !.tries = n] \in CallRec
    BY DEF CallRec
<1>2. PICK s \in CallRec : s = [r EXCEPT !.tries = n]
    BY <1>1
<1>3. s.st = r.st /\ s.left = r.left /\ s.shown = r.shown /\ s.got = r.got
    BY <1>2 DEF CallRec
<1> QED BY <1>2, <1>3

\* ...the link whose deltas it showed...
LEMMA SetShown ==
    ASSUME NEW r \in CallRec, NEW h \in 0..2
    PROVE  \E s \in CallRec :
              /\ s = [r EXCEPT !.shown = h]
              /\ s.st = r.st /\ s.left = r.left /\ s.shown = h /\ s.got = r.got
<1>1. [r EXCEPT !.shown = h] \in CallRec
    BY DEF CallRec
<1>2. PICK s \in CallRec : s = [r EXCEPT !.shown = h]
    BY <1>1
<1>3. s.st = r.st /\ s.left = r.left /\ s.shown = h /\ s.got = r.got
    BY <1>2 DEF CallRec
<1> QED BY <1>2, <1>3

\* ...the link whose response it got...
LEMMA SetGot ==
    ASSUME NEW r \in CallRec, NEW g \in 0..2
    PROVE  \E s \in CallRec :
              /\ s = [r EXCEPT !.got = g]
              /\ s.st = r.st /\ s.left = r.left /\ s.shown = r.shown /\ s.got = g
<1>1. [r EXCEPT !.got = g] \in CallRec
    BY DEF CallRec
<1>2. PICK s \in CallRec : s = [r EXCEPT !.got = g]
    BY <1>1
<1>3. s.st = r.st /\ s.left = r.left /\ s.shown = r.shown /\ s.got = g
    BY <1>2 DEF CallRec
<1> QED BY <1>2, <1>3

\* ...and whether it streams.
LEMMA SetStream ==
    ASSUME NEW r \in CallRec, NEW b \in BOOLEAN
    PROVE  \E s \in CallRec :
              /\ s = [r EXCEPT !.stream = b]
              /\ s.st = r.st /\ s.left = r.left /\ s.shown = r.shown /\ s.got = r.got
<1>1. [r EXCEPT !.stream = b] \in CallRec
    BY DEF CallRec
<1>2. PICK s \in CallRec : s = [r EXCEPT !.stream = b]
    BY <1>1
<1>3. s.st = r.st /\ s.left = r.left /\ s.shown = r.shown /\ s.got = r.got
    BY <1>2 DEF CallRec
<1> QED BY <1>2, <1>3

\* A call's state after the fields that an answer sets...
LEMMA SetOk ==
    ASSUME NEW r \in CallRec, NEW g \in 0..2
    PROVE  \E s \in CallRec : /\ s = [r EXCEPT !.st = "ok", !.got = g]
                              /\ s.st = "ok" /\ s.shown = r.shown /\ s.got = g
<1>1. PICK q \in CallRec : q = [r EXCEPT !.st = "ok"] /\ q.st = "ok" /\ q.shown = r.shown
    BY SetSt
<1>2. PICK s \in CallRec : s = [q EXCEPT !.got = g] /\ s.st = q.st /\ s.shown = q.shown /\ s.got = g
    BY SetGot
<1> QED BY <1>1, <1>2

Failing(r, L, t) == [r EXCEPT !.left = L, !.tries = 0, !.st = t]

\* ...that a failing link sets...
LEMMA SetFailing ==
    ASSUME NEW r \in CallRec, NEW L \in SUBSET LinkIds, NEW t \in {"waiting", "failed"}
    PROVE  /\ Failing(r, L, t) \in CallRec /\ Failing(r, L, t).st = t /\ Failing(r, L, t).left = L
           /\ Failing(r, L, t).shown = r.shown /\ Failing(r, L, t).got = r.got
<1>0. 0 \in 0..MAX_RETRIES /\ t \in {"idle", "waiting", "ok", "failed"}
    BY DEF MAX_RETRIES
<1>1. PICK q \in CallRec : q = [r EXCEPT !.left = L] /\ q.left = L /\ q.shown = r.shown /\ q.got = r.got
    BY SetLeft
<1>2. PICK w \in CallRec : /\ w = [q EXCEPT !.tries = 0]
                           /\ w.left = q.left /\ w.shown = q.shown /\ w.got = q.got
    BY <1>0, SetTries
<1>3. PICK s \in CallRec : /\ s = [w EXCEPT !.st = t]
                           /\ s.st = t /\ s.left = w.left /\ s.shown = w.shown /\ s.got = w.got
    BY <1>0, SetSt
<1>4. s = Failing(r, L, t)
    BY <1>1, <1>2, <1>3 DEF Failing
<1> QED BY <1>1, <1>2, <1>3, <1>4

\* No call.
LEMMA NoCallShape ==
    /\ NoCall \in CallRec /\ CallOK(NoCall)
    /\ NoCall.st = "idle" /\ NoCall.shown = 0 /\ NoCall.got = 0
    BY DEF NoCall, CallRec, CallOK, MAX_RETRIES

\* ...and that a new call sets.
LEMMA SetWaiting ==
    ASSUME NEW b \in BOOLEAN, NEW L \in SUBSET LinkIds
    PROVE  \E s \in CallRec : /\ s = [NoCall EXCEPT !.st = "waiting", !.stream = b, !.left = L]
                              /\ s.st = "waiting" /\ s.left = L /\ s.shown = 0 /\ s.got = 0
<1>0. PICK z \in CallRec : z = NoCall /\ z.shown = 0 /\ z.got = 0
    BY NoCallShape
<1>1. PICK q \in CallRec : q = [z EXCEPT !.st = "waiting"] /\ q.st = "waiting" /\ q.shown = z.shown /\ q.got = z.got
    BY SetSt
<1>2. PICK w \in CallRec : w = [q EXCEPT !.stream = b] /\ w.st = q.st /\ w.shown = q.shown /\ w.got = q.got
    BY SetStream
<1>3. PICK s \in CallRec : /\ s = [w EXCEPT !.left = L]
                           /\ s.st = w.st /\ s.left = L /\ s.shown = w.shown /\ s.got = w.got
    BY SetLeft
<1> QED BY <1>0, <1>1, <1>2, <1>3

\* The link that was asked raised.
LEMMA GiveUpStep ==
    ASSUME FailoverInv, NEW c \in Callers, Trying(c), GiveUp(c), chain' = chain
    PROVE  FailoverInv' /\ AllMove
<1>1. /\ call \in [Callers -> CallRec] /\ call[c] \in CallRec /\ CallOK(call[c])
      /\ Link(c) \in call[c].left /\ Link(c) \in LinkIds /\ call[c].st = "waiting"
    BY CallShape DEF Trying
<1>2. CASE call[c].shown # 0
  <2>1. PICK s \in CallRec : /\ s = [call[c] EXCEPT !.st = "failed"] /\ s.st = "failed"
                             /\ s.shown = call[c].shown /\ s.got = call[c].got
      BY <1>1, SetSt
  <2>2. call' = [call EXCEPT ![c] = s] /\ tripped' = tripped
      BY <1>2, <2>1 DEF GiveUp
  <2>3. CallOK(s) /\ Moves(call[c], s)
      BY <1>1, <2>1 DEF CallOK, Moves
  <2>4. tripped' \in [LinkIds -> 0..Cooloff]
      BY <2>2 DEF FailoverInv
  <2> QED BY <2>2, <2>3, <2>4, CallKept
<1>3. CASE ~(call[c].shown # 0)
  <2> DEFINE L == call[c].left \ {Link(c)}
             t == IF call[c].left = {Link(c)} THEN "failed" ELSE "waiting"
  <2>1. L \in SUBSET LinkIds /\ t \in {"waiting", "failed"} /\ (t = "waiting" => L # {})
      BY <1>1 DEF CallRec
  <2>2. /\ tripped' = [tripped EXCEPT ![Link(c)] = Cooloff]
        /\ call' = [call EXCEPT ![c] = Failing(call[c], L, t)]
      BY <1>1, <1>3 DEF GiveUp, trip, Failing
  <2> HIDE DEF L, t
  <2>3. PICK s \in CallRec : /\ s = Failing(call[c], L, t)
                             /\ s.st = t /\ s.left = L /\ s.shown = call[c].shown /\ s.got = call[c].got
      BY <1>1, <2>1, SetFailing
  <2>4. CallOK(s) /\ Moves(call[c], s)
      BY <1>1, <1>3, <2>1, <2>3 DEF CallOK, Moves
  <2>5. tripped' \in [LinkIds -> 0..Cooloff]
    <3>1. Cooloff \in 0..Cooloff
        BY FailoverAssumption
    <3> QED BY <1>1, <2>2, <3>1 DEF FailoverInv
  <2>6. call' = [call EXCEPT ![c] = s]
      BY <2>2, <2>3
  <2> QED BY <2>4, <2>5, <2>6, CallKept
<1> QED BY <1>2, <1>3

\* The steps of one call.
LEMMA CallSteps ==
    ASSUME FailoverInv, NEW c \in Callers, CallNext(c) PROVE FailoverInv' /\ AllMove
<1>0. /\ call \in [Callers -> CallRec] /\ call[c] \in CallRec /\ CallOK(call[c])
      /\ tripped \in [LinkIds -> 0..Cooloff]
      /\ Trying(c) => /\ Link(c) \in LinkIds /\ Link(c) \in 0..2 /\ call[c].st = "waiting"
                      /\ Link(c) = First(call[c].left)
    BY CallShape DEF Trying, FailoverInv, LinkIds
<1>1. ASSUME NEW b \in BOOLEAN, Start(c, b) PROVE FailoverInv' /\ AllMove
  <2>1. /\ call[c].st = "idle" /\ chain # <<>> /\ chain' = chain /\ tripped' = tripped
        /\ call' = [call EXCEPT ![c] = [NoCall EXCEPT !.st = "waiting", !.stream = b, !.left = order]]
      BY <1>1 DEF Start
  <2>2. PICK L \in SUBSET LinkIds : L = order /\ L # {}
      BY <2>1, OrderShape
  <2>3. PICK s \in CallRec : /\ s = [NoCall EXCEPT !.st = "waiting", !.stream = b, !.left = L]
                             /\ s.st = "waiting" /\ s.left = L /\ s.shown = 0 /\ s.got = 0
      BY <1>1, SetWaiting
  <2>4. call' = [call EXCEPT ![c] = s]
      BY <2>1, <2>2, <2>3
  <2>5. CallOK(s) /\ Moves(call[c], s)
      BY <1>0, <2>1, <2>2, <2>3 DEF CallOK, Moves
  <2> QED BY <1>0, <2>1, <2>4, <2>5, CallKept
<1>2. ASSUME Trying(c), Shows(c) PROVE FailoverInv' /\ AllMove
  <2>1. PICK s \in CallRec : /\ s = [call[c] EXCEPT !.shown = Link(c)] /\ s.shown = Link(c)
                             /\ s.st = call[c].st /\ s.left = call[c].left /\ s.got = call[c].got
      BY <1>0, <1>2, SetShown
  <2>2. call' = [call EXCEPT ![c] = s] /\ chain' = chain /\ tripped' = tripped
      BY <1>2, <2>1 DEF Shows
  <2>3. CallOK(s)
      BY <1>0, <1>2, <2>1 DEF CallOK
  <2>4. Moves(call[c], s)
      BY <1>0, <1>2, <2>1 DEF CallOK, Moves
  <2> QED BY <1>0, <2>2, <2>3, <2>4, CallKept
<1>3. ASSUME Trying(c), Answers(c) PROVE FailoverInv' /\ AllMove
  <2>1. PICK s \in CallRec : /\ s = [call[c] EXCEPT !.st = "ok", !.got = Link(c)]
                             /\ s.st = "ok" /\ s.shown = call[c].shown /\ s.got = Link(c)
      BY <1>0, <1>3, SetOk
  <2>2. call' = [call EXCEPT ![c] = s] /\ chain' = chain /\ tripped' = tripped
      BY <1>3, <2>1 DEF Answers
  <2>3. CallOK(s)
      BY <2>1 DEF CallOK
  <2>4. Moves(call[c], s)
      BY <1>0, <1>3, <2>1 DEF CallOK, Moves
  <2> QED BY <1>0, <2>2, <2>3, <2>4, CallKept
<1>4. ASSUME LinkRaises(c) PROVE FailoverInv' /\ AllMove
    BY <1>4, GiveUpStep DEF LinkRaises
<1>5. ASSUME Unparsable(c) PROVE FailoverInv' /\ AllMove
  <2>1. Trying(c) /\ chain' = chain
      BY <1>5 DEF Unparsable
  <2>2. CASE call[c].tries + 1 < MAX_RETRIES
    <3>1. call[c].tries + 1 \in 0..MAX_RETRIES
        BY <1>0, <2>2 DEF CallRec, MAX_RETRIES
    <3>2. PICK n \in 0..MAX_RETRIES : n = call[c].tries + 1
        BY <3>1
    <3>3. PICK s \in CallRec : /\ s = [call[c] EXCEPT !.tries = n] /\ s.st = call[c].st
                               /\ s.left = call[c].left /\ s.shown = call[c].shown /\ s.got = call[c].got
        BY <1>0, SetTries
    <3>4. call' = [call EXCEPT ![c] = s] /\ tripped' = tripped
        BY <1>5, <2>2, <3>2, <3>3 DEF Unparsable
    <3>5. CallOK(s) /\ Moves(call[c], s)
        BY <1>0, <3>3 DEF CallOK, Moves
    <3> QED BY <1>0, <2>1, <3>4, <3>5, CallKept
  <2>3. CASE ~(call[c].tries + 1 < MAX_RETRIES)
      BY <1>5, <2>1, <2>3, GiveUpStep DEF Unparsable
  <2> QED BY <2>2, <2>3
<1>6. ASSUME CallerReturns(c) PROVE FailoverInv' /\ AllMove
  <2>1. /\ call[c].st \in {"ok", "failed"} /\ call' = [call EXCEPT ![c] = NoCall]
        /\ chain' = chain /\ tripped' = tripped
      BY <1>6 DEF CallerReturns
  <2>2. Moves(call[c], NoCall)
      BY <2>1, NoCallShape DEF Moves
  <2> QED BY <1>0, <2>1, <2>2, NoCallShape, CallKept
<1>7. ASSUME Trying(c), OpenAIDelta(c) \/ OllamaDelta(c) PROVE FailoverInv' /\ AllMove
    BY <1>2, <1>7 DEF OpenAIDelta, OllamaDelta
<1>8. ASSUME Trying(c), \/ OpenAIDone(c) \/ OllamaDone(c)
                        \/ OpenAIChat(c) \/ OllamaChat(c) \/ AnthropicChat(c)
      PROVE  FailoverInv' /\ AllMove
    BY <1>3, <1>8 DEF OpenAIDone, OllamaDone, OpenAIChat, OllamaChat, AnthropicChat
<1> QED BY <1>1, <1>4, <1>5, <1>6, <1>7, <1>8 DEF CallNext

\* The chain that the settings give.
LEMMA BuiltShape ==
    ASSUME NEW m \in Configured, NEW f \in Configured \cup {None}
    PROVE  /\ _build_with_optional_fallback(m, f) \in Seq(Configured)
           /\ Len(_build_with_optional_fallback(m, f)) <= 2
<1> DEFINE built == _build_with_optional_fallback(m, f)
<1>0. << >> \in Seq(Configured) /\ Len(<< >>) = 0 /\ <<m>> \in Seq(Configured) /\ Len(<<m>>) = 1
    OBVIOUS
<1>1. CASE f \in Configured
  <2>1. built = << >> \/ built = <<m>> \/ built = <<m, f>>
      BY DEF _build_with_optional_fallback
  <2>2. <<m, f>> \in Seq(Configured) /\ Len(<<m, f>>) = 2
      BY <1>1
  <2> HIDE DEF built
  <2>3. built \in Seq(Configured) /\ Len(built) <= 2
    <3>1. CASE built = << >>
        BY <1>0, <3>1
    <3>2. CASE built = <<m>>
        BY <1>0, <3>2
    <3>3. CASE built = <<m, f>>
        BY <2>2, <3>3
    <3> QED BY <2>1, <3>1, <3>2, <3>3
  <2> QED BY <2>3 DEF built
<1>2. CASE f = None
  <2>1. built = << >> \/ built = <<m>>
      BY <1>2 DEF _build_with_optional_fallback
  <2> HIDE DEF built
  <2>2. built \in Seq(Configured) /\ Len(built) <= 2
    <3>1. CASE built = << >>
        BY <1>0, <3>1
    <3>2. CASE built = <<m>>
        BY <1>0, <3>2
    <3> QED BY <2>1, <3>1, <3>2
  <2> QED BY <2>2 DEF built
<1> QED BY <1>1, <1>2

\* Every step of the chain and its calls.
LEMMA FailoverSteps ==
    ASSUME FailoverInv, FNext \/ UNCHANGED fvars PROVE FailoverInv' /\ AllMove
<1>1. ASSUME NEW m \in Configured \cup {None}, NEW f \in Configured \cup {None},
             \/ m # None /\ get_model_for_organization(m, f)
             \/ get_grounding_judge_model(m, f)
      PROVE  FailoverInv' /\ AllMove
  <2>1. /\ m \in Configured /\ chain' = _build_with_optional_fallback(m, f)
        /\ call' = call /\ tripped' = tripped
      BY <1>1 DEF get_model_for_organization, get_grounding_judge_model
  <2>2. tripped' \in [LinkIds -> 0..Cooloff]
      BY <2>1 DEF FailoverInv
  <2> QED BY <1>1, <2>1, <2>2, BuiltShape, CallsRest
<1>2. ASSUME CooloffTick PROVE FailoverInv' /\ AllMove
  <2>1. /\ call' = call /\ chain' = chain
        /\ tripped' = [l \in LinkIds |-> IF tripped[l] > 0 THEN tripped[l] - 1 ELSE 0]
      BY <1>2 DEF CooloffTick
  <2>2. tripped \in [LinkIds -> 0..Cooloff] /\ Cooloff \in Nat
      BY FailoverAssumption DEF FailoverInv
  <2>3. tripped' \in [LinkIds -> 0..Cooloff]
      BY <2>1, <2>2
  <2> QED BY <2>1, <2>3, CallsRest DEF FailoverInv
<1>3. ASSUME NEW c \in Callers, CallNext(c) PROVE FailoverInv' /\ AllMove
    BY <1>3, CallSteps
<1>4. ASSUME UNCHANGED fvars PROVE FailoverInv' /\ AllMove
    BY <1>4, CallsRest DEF fvars, FailoverInv
<1> QED BY <1>1, <1>2, <1>3, <1>4 DEF FNext

\* The chain's invariant.
LEMMA FailoverInvariant == FSpec => []FailoverInv
<1>1. ASSUME FInit PROVE FailoverInv
  <2>2. call \in [Callers -> CallRec] /\ \A c \in Callers : CallOK(call[c])
      BY <1>1, NoCallShape DEF FInit
  <2>3. 0 \in 0..Cooloff
      BY FailoverAssumption
  <2>4. tripped \in [LinkIds -> 0..Cooloff]
      BY <1>1, <2>3 DEF FInit
  <2>5. chain \in Seq(Configured) /\ Len(chain) <= 2
      BY <1>1 DEF FInit
  <2> QED BY <2>2, <2>4, <2>5 DEF FailoverInv
<1>2. FailoverInv /\ [FNext]_fvars => FailoverInv'
    BY FailoverSteps
<1> QED BY <1>1, <1>2, PTL DEF FSpec

-----------------------------------------------------------------------------
(* The exchange: each part runs its own specification, so what is shown of *)
(* a part holds in Chat.                                                   *)

\* A step of the exchange is, for each part, one of its steps or none.
LEMMA StepOfParts ==
    ASSUME [ChatNext]_chatvars
    PROVE  [TNext]_tvars /\ [FNext]_fvars /\ [GNext]_gvars /\ [LNext]_lvars
<1>1. CASE LoopStep
    BY <1>1 DEF LoopStep, TurnRests, TNext
<1>2. CASE ClientStep
    BY <1>2 DEF ClientStep, TurnRests, TNext
<1>3. CASE FailoverStep
    BY <1>3 DEF FailoverStep
<1>4. CASE GroundingStep
    BY <1>4 DEF GroundingStep
<1>5. CASE LimitsStep
    BY <1>5 DEF LimitsStep, LNext
<1>6. CASE ResearchStep
    BY <1>6 DEF ResearchStep
<1>7. CASE BrowserStep
    BY <1>7 DEF BrowserStep
<1>8. CASE UNCHANGED chatvars
    BY <1>8 DEF chatvars
<1> QED BY <1>1, <1>2, <1>3, <1>4, <1>5, <1>6, <1>7, <1>8 DEF ChatNext

\* Chat composes the loop, the chain, the validator and the limits: a chat
\* exchange is a behaviour of each of their specifications.
THEOREM ExchangeComposed == ChatSpec => TSpec /\ FSpec /\ GSpec /\ LSpec
<1>1. ChatInit => TInit /\ FInit /\ GInit /\ LInit
    BY DEF ChatInit
<1>2. [ChatNext]_chatvars => [TNext]_tvars /\ [FNext]_fvars /\ [GNext]_gvars /\ [LNext]_lvars
    BY StepOfParts
<1> QED BY <1>1, <1>2, PTL DEF ChatSpec, TSpec, FSpec, GSpec, LSpec

\* The types of the parts whose state is not a tree or a crawl.
THEOREM ExchangeTypes ==
    ChatSpec => [](TurnTypeOK /\ FailoverTypeOK /\ GroundingTypeOK /\ LimitsTypeOK)
<1>1. LoopShape /\ Settling => TurnTypeOK
    BY DEF LoopShape, Settling, TurnTypeOK
<1>2. ASSUME FailoverInv PROVE FailoverTypeOK
  <2>1. chain \in Seq(Configured) /\ Len(chain) <= 2
      BY <1>2 DEF FailoverInv
  <2>2. \A l \in DOMAIN chain : chain[l] \in Configured
      BY <2>1
  <2> QED BY <1>2, <2>1, <2>2 DEF FailoverInv, FailoverTypeOK, CallRec
<1>3. GroundingInv => GroundingTypeOK
    BY DEF GroundingInv, GroundingTypeOK, Judged, Verdict
<1>4. LimitsInv => LimitsTypeOK
    BY DEF LimitsInv, LShapes, LimitsTypeOK, Lookup
<1> QED BY <1>1, <1>2, <1>3, <1>4, ExchangeComposed, TurnInvariant, FailoverInvariant,
           GroundingInvariant, LimitsInvariant, PTL

\* _finalize_answer and the runner of api/chat.py: whatever the model, the
\* tools, the database and the client do, a client that stays gets one answer
\* or an error, then done, and a proposal it was told of is committed.
THEOREM ExchangesSettleOnce == ChatSpec => []SettlesOnce
<1>1. Settling => SettlesOnce
    BY DEF Settling
<1> QED BY <1>1, ExchangeComposed, TurnInvariant, PTL

\* grounding/validator.py: whatever the judges reply, in whatever order the
\* batches come back, a claim's verdict is that of a judge that saw it, and a
\* finished validation leaves no claim without one, for every batch size.
THEOREM ClaimsGetTheirVerdict == ChatSpec => []EveryClaimItsVerdict
<1>1. GroundingInv => EveryClaimItsVerdict
    BY DEF GroundingInv, EveryClaimItsVerdict, Judged
<1> QED BY <1>1, ExchangeComposed, GroundingInvariant, PTL

\* models/failover.py implements ModelCall: each call, on the chain and the
\* breaker it shares with the others, shows the deltas of one model and ends
\* in that model's response or in an exception.
THEOREM ChainIsOneProvider == ChatSpec => ChainIsAProvider
<1>1. FInit => \A c \in Callers : Call(c)!CallInit
    BY DEF FInit, NoCall, Call!CallInit
<1>2. FailoverInv /\ [FNext]_fvars =>
         [\A c \in Callers : Call(c)!CallNext \/ UNCHANGED Call(c)!cvars]_fvars
    BY FailoverSteps DEF AllMove
<1>3. FSpec => ChainIsAProvider
    BY <1>1, <1>2, FailoverInvariant, PTL DEF FSpec, ChainIsAProvider
<1> QED BY <1>3, ExchangeComposed, PTL

\* The rate limiter and the agent-name cache, in the exchange they serve.
THEOREM ExchangeLimits == ChatSpec => []ShareIsBounded /\ []StaleIsBounded
    BY ExchangeComposed, ShareOfAnOrganization, CachedIdsAreFresh, PTL

-----------------------------------------------------------------------------
(* Induction over a list: a least number without a property is refuted by  *)
(* the number before it.                                                   *)

\* A set of numbers that is not empty has a least one.
LEMMA LeastNumber ==
    ASSUME NEW T, T \subseteq Nat, T # {}
    PROVE  \E n \in T : \A m \in T : n <= m
<1> DEFINE R == {p \in Nat \X Nat : p[1] < p[2]}
<1>1. IsWellFoundedOn(R, Nat)
    BY NatLessThanWellFounded DEF OpToRel
<1>2. \E n \in T : \A m \in T : ~(<<m, n>> \in R)
  <2> HIDE DEF R
  <2> QED BY <1>1, WFMin
<1>3. PICK n \in T : \A m \in T : ~(<<m, n>> \in R)
    BY <1>2
<1>4. ASSUME NEW m \in T PROVE n <= m
  <2>1. <<m, n>> \in Nat \X Nat /\ <<m, n>>[1] = m /\ <<m, n>>[2] = n
      OBVIOUS
  <2>2. ~(m < n)
      BY <1>3, <2>1
  <2> QED BY <2>2
<1> QED BY <1>4

-----------------------------------------------------------------------------
(* Web research.                                                           *)

Cand == [url : Urls, depth : Nat, score : Nat]
Counts(c) ==
    /\ c.skipped_robots \in Nat /\ c.skipped_offdomain \in Nat /\ c.fetch_errors \in Nat

CrawlShape(c) ==
    c = [st |-> c.st, seed |-> c.seed, caps |-> c.caps, frontier |-> c.frontier,
         visited |-> c.visited, popped |-> c.popped, pages |-> c.pages, robots |-> c.robots,
         skipped_robots |-> c.skipped_robots, skipped_offdomain |-> c.skipped_offdomain,
         fetch_errors |-> c.fetch_errors, hit_page_cap |-> c.hit_page_cap,
         hit_deadline |-> c.hit_deadline]

\* Each url met is in one place.
Handled(c) == Len(c.pages) + c.skipped_robots + c.skipped_offdomain + c.fetch_errors
Accounted(c) == Cardinality(c.visited) = Handled(c) + Len(c.frontier) + Len(c.popped)

CrawlCore(c) ==
    /\ CrawlShape(c)
    /\ c.st \in {"sitemap", "pop", "robots", "fetch", "done"} /\ c.seed \in Urls /\ c.caps \in Caps
    /\ c.frontier \in Seq(Cand) /\ c.visited \subseteq Urls /\ IsFiniteSet(c.visited)
    /\ c.popped \in Seq(Cand) /\ Len(c.popped) <= 1
    /\ c.st \in {"robots", "fetch"} => Len(c.popped) = 1
    /\ c.st \in {"sitemap", "pop"} => c.popped = <<>>
    /\ \E S : c.pages \in Seq(S)
    /\ Counts(c) /\ Accounted(c)
    /\ c.st = "done" /\ ~c.hit_page_cap /\ ~c.hit_deadline => c.frontier = <<>>

\* The links of every page read above the depth cap were met.
Linked(c) ==
    \A k \in DOMAIN c.pages : c.pages[k].depth < c.caps.depth =>
        \A j \in DOMAIN c.pages[k].links : c.pages[k].links[j] \in c.visited

ResearchInv ==
    /\ budget \in 0..BudgetPerRequest
    /\ crawl # NoCrawl => CrawlCore(crawl) /\ Linked(crawl)

\* What pushing leaves of a crawl c.
GrownTo(c, d) ==
    /\ CrawlCore(d) /\ c.visited \subseteq d.visited
    /\ d.st = c.st /\ d.caps = c.caps /\ d.pages = c.pages

\* A url pushed is met, once.
LEMMA PushedGrows ==
    ASSUME NEW c, CrawlCore(c), c.st # "done", NEW u \in Urls, NEW depth \in Nat
    PROVE  GrownTo(c, pushed(c, u, depth)) /\ u \in pushed(c, u, depth).visited
<1>1. CASE u \in c.visited
    BY <1>1 DEF pushed, GrownTo
<1>2. CASE u \notin c.visited
  <2> DEFINE e == [url |-> u, depth |-> depth, score |-> Relevance[u]]
             d == pushed(c, u, depth)
  <2>1. d = [c EXCEPT !.visited = c.visited \cup {u}, !.frontier = Append(c.frontier, e)]
      BY <1>2 DEF pushed
  <2>2. e \in Cand
      BY ResearchAssumption DEF Cand
  <2> HIDE DEF e, d
  <2>3. /\ CrawlShape(d) /\ d.st = c.st /\ d.seed = c.seed /\ d.caps = c.caps
        /\ d.frontier = Append(c.frontier, e) /\ d.visited = c.visited \cup {u}
        /\ d.popped = c.popped /\ d.pages = c.pages
        /\ d.skipped_robots = c.skipped_robots /\ d.skipped_offdomain = c.skipped_offdomain
        /\ d.fetch_errors = c.fetch_errors
      BY <2>1 DEF CrawlCore, CrawlShape
  <2>4. d.frontier \in Seq(Cand) /\ Len(d.frontier) = Len(c.frontier) + 1
      BY <2>2, <2>3 DEF CrawlCore
  <2>5. /\ IsFiniteSet(d.visited) /\ d.visited \subseteq Urls
        /\ Cardinality(d.visited) = Cardinality(c.visited) + 1
    <3>1. IsFiniteSet(c.visited) /\ c.visited \subseteq Urls
        BY DEF CrawlCore
    <3>2. /\ IsFiniteSet(c.visited \cup {u})
          /\ Cardinality(c.visited \cup {u}) = Cardinality(c.visited) + 1
        BY <1>2, <3>1, FS_AddElement
    <3> QED BY <2>3, <3>1, <3>2
  <2>6. Counts(d)
      BY <2>3 DEF CrawlCore, Counts
  <2>7. /\ Len(c.pages) \in Nat /\ Len(c.frontier) \in Nat /\ Len(c.popped) \in Nat
        /\ Cardinality(c.visited) \in Nat
      BY FS_CardinalityType DEF CrawlCore
  <2>8. Accounted(d)
    <3>1. Accounted(c) /\ Counts(c)
        BY DEF CrawlCore
    <3>2. Handled(d) = Handled(c) /\ Handled(c) \in Nat
        BY <2>3, <2>7, <3>1 DEF Handled, Counts
    <3>3. /\ Len(d.popped) = Len(c.popped) /\ Len(d.frontier) = Len(c.frontier) + 1
          /\ Cardinality(d.visited) = Cardinality(c.visited) + 1
        BY <2>3, <2>4, <2>5
    <3> QED BY <2>7, <3>1, <3>2, <3>3 DEF Accounted
  <2>9. CrawlCore(d)
      BY <2>3, <2>4, <2>5, <2>6, <2>8 DEF CrawlCore
  <2> QED BY <2>3, <2>9 DEF GrownTo, d
<1> QED BY <1>1, <1>2

\* PushAll is the last of the crawls that each url of the list leads to.
Pushes(after, c, urls, kept, depth) ==
    /\ PushAll(c, urls, kept, depth) = after[Len(urls)]
    /\ after[0] = c
    /\ \A n \in 1..Len(urls) :
          after[n] = IF urls[n] \in kept THEN pushed(after[n - 1], urls[n], depth)
                     ELSE after[n - 1]

\* PushAll is the last of the crawls that its urls lead to, one by one.
LEMMA PushSteps ==
    ASSUME NEW c, NEW urls, Len(urls) \in Nat, NEW kept, NEW depth
    PROVE  \E after : Pushes(after, c, urls, kept, depth)
<1> DEFINE Body(g, n) ==
               IF n = 0 THEN c
               ELSE IF urls[n] \in kept THEN pushed(g[n - 1], urls[n], depth) ELSE g[n - 1]
           T == {m \in Nat : ~ \E g : g = [n \in 0..m |-> Body(g, n)]}
<1>1. T = {}
  <2> SUFFICES ASSUME T # {} PROVE FALSE
      OBVIOUS
  <2>1. T \subseteq Nat
      OBVIOUS
  <2>2. PICK m \in T : \A k \in T : m <= k
    <3> HIDE DEF T
    <3> QED BY <2>1, LeastNumber
  <2>3. CASE m = 0
    <3> DEFINE g == [n \in 0..0 |-> c]
    <3>1. g = [n \in 0..m |-> Body(g, n)]
        BY <2>3
    <3> QED BY <3>1
  <2>4. CASE m # 0
    <3>1. m - 1 \in Nat /\ m - 1 \notin T
        BY <2>2, <2>4
    <3>2. PICK g : g = [n \in 0..(m - 1) |-> Body(g, n)]
        BY <3>1
    <3> DEFINE h == [n \in 0..m |-> IF n < m THEN g[n] ELSE Body(g, m)]
    <3>3. ASSUME NEW n \in 0..m PROVE h[n] = Body(h, n)
      <4>1. CASE n = 0
          BY <2>4, <3>2, <4>1
      <4>2. CASE n # 0 /\ n < m
        <5>1. h[n] = g[n] /\ h[n - 1] = g[n - 1] /\ n \in 0..(m - 1)
            BY <4>2
        <5>2. g[n] = Body(g, n)
            BY <3>2, <5>1
        <5> QED BY <4>2, <5>1, <5>2
      <4>3. CASE n # 0 /\ n = m
        <5>1. h[n] = Body(g, n) /\ h[n - 1] = g[n - 1]
            BY <4>3
        <5> QED BY <4>3, <5>1
      <4> QED BY <4>1, <4>2, <4>3
    <3>4. h = [n \in 0..m |-> Body(h, n)]
      <4>1. h = [n \in 0..m |-> h[n]]
          OBVIOUS
      <4> HIDE DEF h
      <4> QED BY <3>3, <4>1
    <3> QED BY <3>4
  <2> QED BY <2>3, <2>4
<1> DEFINE after == CHOOSE g : g = [n \in 0..Len(urls) |-> Body(g, n)]
<1>2. after = [n \in 0..Len(urls) |-> Body(after, n)]
  <2>1. \E g : g = [n \in 0..Len(urls) |-> Body(g, n)]
      BY <1>1
  <2> QED BY <2>1
<1>3. PushAll(c, urls, kept, depth) = after[Len(urls)]
    BY DEF PushAll
<1> HIDE DEF after
<1>4. after[0] = c
    BY <1>2
<1>5. \A n \in 1..Len(urls) :
         after[n] = IF urls[n] \in kept THEN pushed(after[n - 1], urls[n], depth) ELSE after[n - 1]
  <2> SUFFICES ASSUME NEW n \in 1..Len(urls) PROVE after[n] = Body(after, n) /\ n # 0
      OBVIOUS
  <2>1. n \in 0..Len(urls) /\ n # 0
      OBVIOUS
  <2> QED BY <1>2, <2>1
<1> QED BY <1>3, <1>4, <1>5 DEF Pushes

\* After PushAll every url of the list that is kept was met.
LEMMA PushAllGrows ==
    ASSUME NEW c, CrawlCore(c), c.st # "done", NEW urls \in Seq(Urls), NEW kept, NEW depth \in Nat
    PROVE  /\ GrownTo(c, PushAll(c, urls, kept, depth))
           /\ \A k \in DOMAIN urls : urls[k] \in kept =>
                 urls[k] \in PushAll(c, urls, kept, depth).visited
<1>1. Len(urls) \in Nat /\ DOMAIN urls = 1..Len(urls) /\ \A k \in 1..Len(urls) : urls[k] \in Urls
    OBVIOUS
<1>2. PICK after : Pushes(after, c, urls, kept, depth)
    BY <1>1, PushSteps
<1> DEFINE Good(n) == /\ GrownTo(c, after[n])
                      /\ \A k \in 1..n : urls[k] \in kept => urls[k] \in after[n].visited
           T == {n \in 0..Len(urls) : ~Good(n)}
<1>3. Good(0)
    BY <1>2 DEF GrownTo, Pushes
<1>4. ASSUME NEW n \in 1..Len(urls), Good(n - 1) PROVE Good(n)
  <2>1. CrawlCore(after[n - 1]) /\ after[n - 1].st # "done"
      BY <1>4 DEF GrownTo
  <2>2. GrownTo(after[n - 1], after[n]) /\ (urls[n] \in kept => urls[n] \in after[n].visited)
    <3>1. CASE urls[n] \in kept
        BY <1>1, <1>2, <2>1, <3>1, PushedGrows DEF Pushes
    <3>2. CASE urls[n] \notin kept
        BY <1>2, <2>1, <3>2 DEF GrownTo, Pushes
    <3> QED BY <3>1, <3>2
  <2>3. GrownTo(c, after[n])
      BY <1>4, <2>2 DEF GrownTo
  <2>4. after[n - 1].visited \subseteq after[n].visited
      BY <2>2 DEF GrownTo
  <2>5. \A k \in 1..n : k \in 1..(n - 1) \/ k = n
      OBVIOUS
  <2> QED BY <1>4, <2>2, <2>3, <2>4, <2>5
<1>5. T = {}
  <2> SUFFICES ASSUME T # {} PROVE FALSE
      OBVIOUS
  <2>1. T \subseteq Nat
      OBVIOUS
  <2>2. PICK n \in T : \A k \in T : n <= k
    <3> HIDE DEF T
    <3> QED BY <2>1, LeastNumber
  <2>3. n # 0 /\ n \in 0..Len(urls) /\ ~Good(n)
      BY <1>3, <2>2
  <2>4. n \in 1..Len(urls) /\ n - 1 \in 0..Len(urls) /\ n - 1 \notin T
      BY <1>1, <2>2, <2>3
  <2>5. Good(n - 1)
      BY <2>4
  <2> HIDE DEF Good
  <2> QED BY <1>4, <2>3, <2>4, <2>5
<1>6. Good(Len(urls))
    BY <1>1, <1>5
<1> QED BY <1>1, <1>2, <1>6 DEF Pushes

\* No crawl runs at first.
LEMMA ResearchInit == RInit => ResearchInv
BY ResearchAssumption DEF RInit, ResearchInv

\* What is in a list after an append.
LEMMA AppendAny ==
    ASSUME NEW S, NEW s \in Seq(S), NEW e
    PROVE  /\ Append(s, e) \in Seq(S \cup {e}) /\ Len(Append(s, e)) = Len(s) + 1
           /\ \A k \in DOMAIN Append(s, e) : k \in DOMAIN s \/ Append(s, e)[k] = e
           /\ \A k \in DOMAIN s : Append(s, e)[k] = s[k]
<1>1. s \in Seq(S \cup {e})
    OBVIOUS
<1> QED BY <1>1

\* A list without one of its elements is one shorter.
LEMMA RemovedAt ==
    ASSUME NEW S, NEW s \in Seq(S), NEW k \in DOMAIN s
    PROVE  RemoveAt(s, k) \in Seq(S) /\ Len(RemoveAt(s, k)) = Len(s) - 1
<1>1. k \in 1..Len(s) /\ Len(s) \in Nat
    OBVIOUS
<1> DEFINE a == SubSeq(s, 1, k - 1)
           b == SubSeq(s, k + 1, Len(s))
<1>2. a \in Seq(S) /\ Len(a) = k - 1
    BY <1>1, SubSeqProperties
<1>3. b \in Seq(S) /\ Len(b) = Len(s) - k
    BY <1>1, SubSeqProperties
<1>4. RemoveAt(s, k) = a \o b
    BY DEF RemoveAt
<1> HIDE DEF a, b
<1>5. a \o b \in Seq(S) /\ Len(a \o b) = Len(a) + Len(b)
    BY <1>2, <1>3, ConcatProperties
<1> QED BY <1>1, <1>2, <1>3, <1>4, <1>5

\* The counts and lengths of a crawl are numbers.
LEMMA CrawlNumbers ==
    ASSUME NEW c, CrawlCore(c)
    PROVE  /\ Len(c.pages) \in Nat /\ Len(c.frontier) \in Nat /\ Len(c.popped) \in Nat
           /\ Cardinality(c.visited) \in Nat /\ Handled(c) \in Nat
<1>1. /\ Len(c.pages) \in Nat /\ Len(c.frontier) \in Nat /\ Len(c.popped) \in Nat
      /\ Cardinality(c.visited) \in Nat
    BY FS_CardinalityType DEF CrawlCore
<1>2. Counts(c)
    BY DEF CrawlCore
<1>3. Handled(c) \in Nat
    BY <1>1, <1>2 DEF Handled, Counts
<1> QED BY <1>1, <1>3

\* A crawl d that differs from c in where the urls are, not in how many.
Moved(c, d) ==
    /\ CrawlShape(d) /\ d.st \in {"sitemap", "pop", "robots", "fetch", "done"}
    /\ d.seed = c.seed /\ d.caps = c.caps /\ d.visited = c.visited
    /\ d.frontier \in Seq(Cand) /\ d.popped \in Seq(Cand) /\ Len(d.popped) <= 1
    /\ d.st \in {"robots", "fetch"} => Len(d.popped) = 1
    /\ d.st \in {"sitemap", "pop"} => d.popped = <<>>
    /\ \E S : d.pages \in Seq(S)
    /\ Counts(d)
    /\ Handled(d) + Len(d.frontier) + Len(d.popped) = Handled(c) + Len(c.frontier) + Len(c.popped)
    /\ d.st = "done" /\ ~d.hit_page_cap /\ ~d.hit_deadline => d.frontier = <<>>

\* A url that moves from one place to another stays accounted for.
LEMMA CoreMoved ==
    ASSUME NEW c, NEW d, CrawlCore(c), Moved(c, d)
    PROVE  CrawlCore(d)
<1>1. Accounted(d)
    BY DEF CrawlCore, Accounted, Moved
<1>2. /\ d.seed \in Urls /\ d.caps \in Caps /\ d.visited \subseteq Urls /\ IsFiniteSet(d.visited)
    BY DEF CrawlCore, Moved
<1> QED BY <1>1, <1>2 DEF CrawlCore, Moved

\* A call takes one from the budget.
LEMMA BudgetSpent ==
    ASSUME budget \in 0..BudgetPerRequest, consume_budget
    PROVE  budget' \in 0..BudgetPerRequest
BY ResearchAssumption DEF consume_budget

\* A crawl starts with its seed waiting.
LEMMA CrawlStarts ==
    ASSUME NEW seed \in Seeds, NEW caps \in Caps
    PROVE  LET c == [st |-> "sitemap", seed |-> seed, caps |-> caps,
                     frontier |-> <<[url |-> seed, depth |-> 0, score |-> SeedScore]>>,
                     visited |-> {seed}, popped |-> <<>>, pages |-> <<>>, robots |-> {},
                     skipped_robots |-> 0, skipped_offdomain |-> 0, fetch_errors |-> 0,
                     hit_page_cap |-> FALSE, hit_deadline |-> FALSE]
           IN CrawlCore(c) /\ Linked(c)
<1> DEFINE e == [url |-> seed, depth |-> 0, score |-> SeedScore]
           c == [st |-> "sitemap", seed |-> seed, caps |-> caps, frontier |-> <<e>>,
                 visited |-> {seed}, popped |-> <<>>, pages |-> <<>>, robots |-> {},
                 skipped_robots |-> 0, skipped_offdomain |-> 0, fetch_errors |-> 0,
                 hit_page_cap |-> FALSE, hit_deadline |-> FALSE]
<1>1. seed \in Urls /\ e \in Cand
    BY ResearchAssumption DEF Cand, SeedScore
<1> HIDE DEF e
<1>2. /\ CrawlShape(c) /\ c.st = "sitemap" /\ c.seed = seed /\ c.caps = caps
      /\ c.frontier = <<e>> /\ c.visited = {seed} /\ c.popped = <<>> /\ c.pages = <<>>
      /\ c.skipped_robots = 0 /\ c.skipped_offdomain = 0 /\ c.fetch_errors = 0
    BY DEF CrawlShape
<1> HIDE DEF c
<1>3. c.frontier \in Seq(Cand) /\ Len(c.frontier) = 1 /\ c.popped \in Seq(Cand) /\ Len(c.popped) = 0
    BY <1>1, <1>2
<1>4. c.pages \in Seq({}) /\ Len(c.pages) = 0 /\ DOMAIN c.pages = {}
    BY <1>2
<1>5. IsFiniteSet(c.visited) /\ Cardinality(c.visited) = 1 /\ c.visited \subseteq Urls
    BY <1>1, <1>2, FS_Singleton
<1>6. Handled(c) = 0 /\ Counts(c)
    BY <1>2, <1>4 DEF Handled, Counts
<1>7. Accounted(c)
    BY <1>3, <1>5, <1>6 DEF Accounted
<1>8. \E S : c.pages \in Seq(S)
    BY <1>4
<1>9. CrawlCore(c)
    BY <1>1, <1>2, <1>3, <1>5, <1>6, <1>7, <1>8 DEF CrawlCore
<1>10. Linked(c)
    BY <1>4 DEF Linked
<1> QED BY <1>9, <1>10 DEF c, e

\* The crawl goes on with the first candidate, or after it.
LEMMA PopReady ==
    ASSUME NEW x, CrawlCore(x), x.st = "sitemap"
    PROVE  LET d == [x EXCEPT !.st = "pop"] IN
           /\ CrawlCore(d) /\ d.visited = x.visited /\ d.pages = x.pages /\ d.caps = x.caps
<1> DEFINE d == [x EXCEPT !.st = "pop"]
<1>0. CrawlShape(x)
    BY DEF CrawlCore
<1>1. /\ CrawlShape(d) /\ d.st = "pop" /\ d.seed = x.seed /\ d.caps = x.caps
      /\ d.visited = x.visited /\ d.frontier = x.frontier /\ d.popped = x.popped
      /\ d.pages = x.pages /\ d.skipped_robots = x.skipped_robots
      /\ d.skipped_offdomain = x.skipped_offdomain /\ d.fetch_errors = x.fetch_errors
    BY <1>0 DEF CrawlShape
<1> HIDE DEF d
<1>2. CrawlCore(d)
    BY <1>1 DEF CrawlCore, Counts, Accounted, Handled
<1> QED BY <1>1, <1>2 DEF d

\* The urls of the sitemap are met.
LEMMA SitemapKept ==
    ASSUME ResearchInv, _sitemap_candidates
    PROVE  ResearchInv'
<1>1. /\ CrawlCore(crawl) /\ Linked(crawl) /\ crawl.st = "sitemap" /\ budget' = budget
    BY DEF ResearchInv, _sitemap_candidates, Running
<1>2. PICK read \in BOOLEAN :
        LET found == IF read THEN Locs[HostOf[crawl.seed]] ELSE <<>>
            fit == {u \in Urls : same_registrable_domain(u, crawl.seed)}
        IN crawl' = [IF crawl.caps.depth >= 1 THEN PushAll(crawl, found, fit, 1) ELSE crawl
                        EXCEPT !.st = "pop"]
    BY DEF _sitemap_candidates
<1> DEFINE found == IF read THEN Locs[HostOf[crawl.seed]] ELSE <<>>
           fit == {u \in Urls : same_registrable_domain(u, crawl.seed)}
           x == IF crawl.caps.depth >= 1 THEN PushAll(crawl, found, fit, 1) ELSE crawl
<1>3. crawl' = [x EXCEPT !.st = "pop"]
    BY <1>2
<1>4. found \in Seq(Urls)
    BY <1>1, ResearchAssumption DEF CrawlCore
<1> HIDE DEF found, fit
<1>5. GrownTo(crawl, x)
  <2>1. GrownTo(crawl, PushAll(crawl, found, fit, 1))
      BY <1>1, <1>4, PushAllGrows
  <2>2. GrownTo(crawl, crawl)
      BY <1>1 DEF GrownTo
  <2> QED BY <2>1, <2>2
<1> HIDE DEF x
<1>6. CrawlCore(x) /\ x.st = "sitemap"
    BY <1>1, <1>5 DEF GrownTo
<1>7. /\ CrawlCore(crawl') /\ crawl'.visited = x.visited /\ crawl'.pages = x.pages
      /\ crawl'.caps = x.caps
    BY <1>3, <1>6, PopReady
<1>8. Linked(crawl')
    BY <1>1, <1>5, <1>7 DEF Linked, GrownTo
<1> QED BY <1>1, <1>7, <1>8 DEF ResearchInv

\* A candidate is taken in hand, or counted as off the domain.
LEMMA PopKept ==
    ASSUME ResearchInv, PopCandidate
    PROVE  ResearchInv'
<1>1. /\ CrawlCore(crawl) /\ Linked(crawl) /\ crawl.st = "pop" /\ budget' = budget
    BY DEF ResearchInv, PopCandidate, Running
<1>2. PICK k \in DOMAIN crawl.frontier :
        LET c == [crawl EXCEPT !.frontier = RemoveAt(@, k)] IN
        crawl' = IF same_registrable_domain(crawl.frontier[k].url, crawl.seed)
                 THEN [c EXCEPT !.st = "robots", !.popped = <<crawl.frontier[k]>>]
                 ELSE [c EXCEPT !.skipped_offdomain = @ + 1]
    BY DEF PopCandidate
<1> DEFINE e == crawl.frontier[k]
           rest == RemoveAt(crawl.frontier, k)
<1>a. /\ crawl.popped = <<>> /\ CrawlShape(crawl) /\ crawl.frontier \in Seq(Cand)
      /\ \E S : crawl.pages \in Seq(S)
    BY <1>1 DEF CrawlCore
<1>b. Counts(crawl)
    BY <1>1 DEF CrawlCore
<1>3. rest \in Seq(Cand) /\ Len(rest) = Len(crawl.frontier) - 1 /\ e \in Cand
  <2>1. k \in 1..Len(crawl.frontier) /\ crawl.frontier \in Seq(Cand)
      BY <1>a
  <2>2. e \in Cand
      BY <2>1
  <2>3. rest \in Seq(Cand) /\ Len(rest) = Len(crawl.frontier) - 1
      BY <1>a, RemovedAt
  <2> QED BY <2>2, <2>3
<1>4. /\ Len(crawl.pages) \in Nat /\ Len(crawl.frontier) \in Nat /\ Len(crawl.popped) = 0
      /\ Handled(crawl) \in Nat
    BY <1>1, <1>a, CrawlNumbers
<1>5. CASE same_registrable_domain(e.url, crawl.seed)
  <2>1. crawl' = [[crawl EXCEPT !.frontier = rest] EXCEPT !.st = "robots", !.popped = <<e>>]
      BY <1>2, <1>5
  <2> HIDE DEF e, rest
  <2>2. /\ CrawlShape(crawl') /\ crawl'.st = "robots" /\ crawl'.seed = crawl.seed
        /\ crawl'.caps = crawl.caps /\ crawl'.visited = crawl.visited /\ crawl'.pages = crawl.pages
        /\ crawl'.frontier = rest /\ crawl'.popped = <<e>>
        /\ crawl'.skipped_robots = crawl.skipped_robots
        /\ crawl'.skipped_offdomain = crawl.skipped_offdomain
        /\ crawl'.fetch_errors = crawl.fetch_errors
      BY <1>a, <2>1 DEF CrawlShape
  <2>3. crawl'.popped \in Seq(Cand) /\ Len(crawl'.popped) = 1
      BY <1>3, <2>2
  <2>4. Handled(crawl') = Handled(crawl) /\ Counts(crawl')
      BY <1>b, <2>2 DEF Handled, Counts
  <2>5. Handled(crawl') + Len(crawl'.frontier) + Len(crawl'.popped)
            = Handled(crawl) + Len(crawl.frontier) + Len(crawl.popped)
    <3>1. Len(crawl'.frontier) = Len(crawl.frontier) - 1
        BY <1>3, <2>2
    <3> QED BY <1>4, <2>3, <2>4, <3>1
  <2>6. CrawlCore(crawl')
    <3>1. Moved(crawl, crawl')
        BY <1>3, <1>a, <2>2, <2>3, <2>4, <2>5 DEF Moved
    <3> QED BY <1>1, <3>1, CoreMoved
  <2>7. Linked(crawl')
      BY <1>1, <2>2 DEF Linked
  <2> QED BY <1>1, <2>6, <2>7 DEF ResearchInv
<1>6. CASE ~same_registrable_domain(e.url, crawl.seed)
  <2>1. crawl' = [[crawl EXCEPT !.frontier = rest] EXCEPT !.skipped_offdomain = crawl.skipped_offdomain + 1]
      BY <1>2, <1>a, <1>6 DEF CrawlShape
  <2> HIDE DEF e, rest
  <2>2. /\ CrawlShape(crawl') /\ crawl'.st = "pop" /\ crawl'.seed = crawl.seed
        /\ crawl'.caps = crawl.caps /\ crawl'.visited = crawl.visited /\ crawl'.pages = crawl.pages
        /\ crawl'.frontier = rest /\ crawl'.popped = <<>>
        /\ crawl'.skipped_robots = crawl.skipped_robots
        /\ crawl'.skipped_offdomain = crawl.skipped_offdomain + 1
        /\ crawl'.fetch_errors = crawl.fetch_errors
      BY <1>1, <1>a, <2>1 DEF CrawlShape
  <2>3. crawl'.popped \in Seq(Cand) /\ Len(crawl'.popped) = 0
      BY <2>2
  <2>4. Handled(crawl') = Handled(crawl) + 1 /\ Counts(crawl')
    <3>1. /\ Len(crawl.pages) \in Nat /\ crawl.skipped_robots \in Nat
          /\ crawl.skipped_offdomain \in Nat /\ crawl.fetch_errors \in Nat
        BY <1>b, <1>4 DEF Counts
    <3>2. /\ Len(crawl'.pages) = Len(crawl.pages) /\ crawl'.skipped_robots = crawl.skipped_robots
          /\ crawl'.skipped_offdomain = crawl.skipped_offdomain + 1
          /\ crawl'.fetch_errors = crawl.fetch_errors
        BY <2>2
    <3>3. Handled(crawl') = Handled(crawl) + 1
      <4>1. PICK p \in Nat, r \in Nat, o \in Nat, e1 \in Nat :
              p = Len(crawl.pages) /\ r = crawl.skipped_robots /\ o = crawl.skipped_offdomain
                /\ e1 = crawl.fetch_errors
          BY <3>1
      <4>2. Handled(crawl) = p + r + o + e1 /\ Handled(crawl') = p + r + (o + 1) + e1
          BY <3>2, <4>1 DEF Handled
      <4> QED BY <4>2
    <3>4. Counts(crawl')
        BY <3>1, <3>2 DEF Counts
    <3> QED BY <3>3, <3>4
  <2>5. Handled(crawl') + Len(crawl'.frontier) + Len(crawl'.popped)
            = Handled(crawl) + Len(crawl.frontier) + Len(crawl.popped)
    <3>1. Len(crawl'.frontier) = Len(crawl.frontier) - 1
        BY <1>3, <2>2
    <3> QED BY <1>4, <2>3, <2>4, <3>1
  <2>6. CrawlCore(crawl')
    <3>1. Moved(crawl, crawl')
        BY <1>3, <1>a, <2>2, <2>3, <2>4, <2>5 DEF Moved
    <3> QED BY <1>1, <3>1, CoreMoved
  <2>7. Linked(crawl')
      BY <1>1, <2>2 DEF Linked
  <2> QED BY <1>1, <2>6, <2>7 DEF ResearchInv
<1> QED BY <1>5, <1>6

\* A candidate is fetched, or counted as disallowed.
LEMMA RobotsKept ==
    ASSUME ResearchInv, _load_robots
    PROVE  ResearchInv'
<1>1. /\ CrawlCore(crawl) /\ Linked(crawl) /\ crawl.st = "robots" /\ budget' = budget
    BY DEF ResearchInv, _load_robots, Running
<1>2. PICK known : \/ crawl' = [[crawl EXCEPT !.robots = known] EXCEPT !.st = "pop", !.popped = <<>>,
                                                        !.skipped_robots = crawl.skipped_robots + 1]
                   \/ crawl' = [[crawl EXCEPT !.robots = known] EXCEPT !.st = "fetch"]
  <2> DEFINE host == HostOf[crawl.popped[1].url]
             ask(c) == IF c.popped[1].url \in Disallowed /\ <<host, TRUE>> \in c.robots
                       THEN [c EXCEPT !.st = "pop", !.popped = <<>>, !.skipped_robots = @ + 1]
                       ELSE [c EXCEPT !.st = "fetch"]
  <2>0. CrawlShape(crawl)
      BY <1>1 DEF CrawlCore
  <2>1. crawl = [crawl EXCEPT !.robots = crawl.robots]
      BY <2>0 DEF CrawlShape
  <2>2. PICK known : crawl' = ask([crawl EXCEPT !.robots = known])
    <3>1. CASE crawl' = ask(crawl)
      <4> HIDE DEF ask
      <4> QED BY <2>1, <3>1
    <3>2. CASE \E read \in BOOLEAN : crawl' = ask([crawl EXCEPT !.robots = crawl.robots \cup {<<host, read>>}])
      <4> HIDE DEF ask, host
      <4> QED BY <3>2
    <3>3. \/ crawl' = ask(crawl)
          \/ \E read \in BOOLEAN : crawl' = ask([crawl EXCEPT !.robots = crawl.robots \cup {<<host, read>>}])
        BY DEF _load_robots
    <3> QED BY <3>1, <3>2, <3>3
  <2>3. [crawl EXCEPT !.robots = known].skipped_robots = crawl.skipped_robots
      BY <2>0 DEF CrawlShape
  <2> QED BY <2>2, <2>3
<1>b. Counts(crawl)
    BY <1>1 DEF CrawlCore
<1>3. /\ crawl.popped \in Seq(Cand) /\ CrawlShape(crawl)
      /\ crawl.frontier \in Seq(Cand) /\ \E S : crawl.pages \in Seq(S)
    BY <1>1 DEF CrawlCore
<1>4. /\ Len(crawl.pages) \in Nat /\ Len(crawl.frontier) \in Nat /\ Len(crawl.popped) = 1
      /\ Handled(crawl) \in Nat
    BY <1>1, CrawlNumbers DEF CrawlCore
<1>5. CASE crawl' = [[crawl EXCEPT !.robots = known] EXCEPT !.st = "pop", !.popped = <<>>,
                                                     !.skipped_robots = crawl.skipped_robots + 1]
  <2>2. /\ CrawlShape(crawl') /\ crawl'.st = "pop" /\ crawl'.seed = crawl.seed
        /\ crawl'.caps = crawl.caps /\ crawl'.visited = crawl.visited /\ crawl'.pages = crawl.pages
        /\ crawl'.frontier = crawl.frontier /\ crawl'.popped = <<>>
        /\ crawl'.skipped_robots = crawl.skipped_robots + 1
        /\ crawl'.skipped_offdomain = crawl.skipped_offdomain
        /\ crawl'.fetch_errors = crawl.fetch_errors
      BY <1>3, <1>5 DEF CrawlShape
  <2>3. crawl'.popped \in Seq(Cand) /\ Len(crawl'.popped) = 0
      BY <2>2
  <2>4. Handled(crawl') = Handled(crawl) + 1 /\ Counts(crawl')
    <3>1. /\ Len(crawl.pages) \in Nat /\ crawl.skipped_robots \in Nat
          /\ crawl.skipped_offdomain \in Nat /\ crawl.fetch_errors \in Nat
        BY <1>b, <1>4 DEF Counts
    <3>2. /\ Len(crawl'.pages) = Len(crawl.pages) /\ crawl'.skipped_robots = crawl.skipped_robots + 1
          /\ crawl'.skipped_offdomain = crawl.skipped_offdomain
          /\ crawl'.fetch_errors = crawl.fetch_errors
        BY <2>2
    <3>3. Handled(crawl') = Handled(crawl) + 1
      <4>1. PICK p \in Nat, r \in Nat, o \in Nat, e1 \in Nat :
              p = Len(crawl.pages) /\ r = crawl.skipped_robots /\ o = crawl.skipped_offdomain
                /\ e1 = crawl.fetch_errors
          BY <3>1
      <4>2. Handled(crawl) = p + r + o + e1 /\ Handled(crawl') = p + (r + 1) + o + e1
          BY <3>2, <4>1 DEF Handled
      <4> QED BY <4>2
    <3>4. Counts(crawl')
        BY <3>1, <3>2 DEF Counts
    <3> QED BY <3>3, <3>4
  <2>5. Handled(crawl') + Len(crawl'.frontier) + Len(crawl'.popped)
            = Handled(crawl) + Len(crawl.frontier) + Len(crawl.popped)
    <3>1. Len(crawl'.frontier) = Len(crawl.frontier)
        BY <2>2
    <3> QED BY <1>4, <2>3, <2>4, <3>1
  <2>6. CrawlCore(crawl')
    <3>1. Moved(crawl, crawl')
        BY <1>3, <2>2, <2>3, <2>4, <2>5 DEF Moved
    <3> QED BY <1>1, <3>1, CoreMoved
  <2>7. Linked(crawl')
      BY <1>1, <2>2 DEF Linked
  <2> QED BY <1>1, <2>6, <2>7 DEF ResearchInv
<1>6. CASE crawl' = [[crawl EXCEPT !.robots = known] EXCEPT !.st = "fetch"]
  <2>2. /\ CrawlShape(crawl') /\ crawl'.st = "fetch" /\ crawl'.seed = crawl.seed
        /\ crawl'.caps = crawl.caps /\ crawl'.visited = crawl.visited /\ crawl'.pages = crawl.pages
        /\ crawl'.frontier = crawl.frontier /\ crawl'.popped = crawl.popped
        /\ crawl'.skipped_robots = crawl.skipped_robots
        /\ crawl'.skipped_offdomain = crawl.skipped_offdomain
        /\ crawl'.fetch_errors = crawl.fetch_errors
      BY <1>3, <1>6 DEF CrawlShape
  <2>4. Handled(crawl') = Handled(crawl) /\ Counts(crawl')
      BY <1>b, <2>2 DEF Handled, Counts
  <2>6. CrawlCore(crawl')
    <3>1. Moved(crawl, crawl')
      <4>1. /\ crawl'.popped \in Seq(Cand) /\ Len(crawl'.popped) = 1
            /\ Len(crawl'.frontier) = Len(crawl.frontier)
          BY <1>3, <1>4, <2>2
      <4>2. Handled(crawl') + Len(crawl'.frontier) + Len(crawl'.popped)
                = Handled(crawl) + Len(crawl.frontier) + Len(crawl.popped)
          BY <1>4, <2>4, <4>1
      <4> QED BY <1>3, <2>2, <2>4, <4>1, <4>2 DEF Moved
    <3> QED BY <1>1, <3>1, CoreMoved
  <2>7. Linked(crawl')
      BY <1>1, <2>2 DEF Linked
  <2> QED BY <1>1, <2>6, <2>7 DEF ResearchInv
<1> QED BY <1>2, <1>5, <1>6

\* The page that was read joins the pages, and the candidate is out of hand.
Reads(c, page, d) ==
    /\ CrawlCore(d) /\ d.st = "pop" /\ d.caps = c.caps /\ d.visited = c.visited
    /\ d.pages = Append(c.pages, page)

\* A page read is the candidate that was in hand.
LEMMA PageRead ==
    ASSUME NEW c, CrawlCore(c), c.st = "fetch", NEW page,
           NEW d, d = [[c EXCEPT !.st = "pop", !.popped = <<>>] EXCEPT !.pages = Append(c.pages, page)]
    PROVE  Reads(c, page, d)
<1>a. /\ CrawlShape(c) /\ Counts(c) /\ c.frontier \in Seq(Cand) /\ Len(c.popped) = 1
    BY DEF CrawlCore
<1>b. PICK S : c.pages \in Seq(S)
    BY DEF CrawlCore
<1>1. /\ CrawlShape(d) /\ d.st = "pop" /\ d.seed = c.seed
      /\ d.caps = c.caps /\ d.visited = c.visited /\ d.pages = Append(c.pages, page)
      /\ d.frontier = c.frontier /\ d.popped = <<>>
      /\ d.skipped_robots = c.skipped_robots /\ d.skipped_offdomain = c.skipped_offdomain
      /\ d.fetch_errors = c.fetch_errors
    BY <1>a DEF CrawlShape
<1>2. d.pages \in Seq(S \cup {page}) /\ Len(d.pages) = Len(c.pages) + 1
    BY <1>b, <1>1, AppendAny
<1>3. d.popped \in Seq(Cand) /\ Len(d.popped) = 0 /\ Len(d.frontier) = Len(c.frontier)
    BY <1>1
<1>4. Counts(d)
    BY <1>a, <1>1 DEF Counts
<1>5. /\ Len(c.pages) \in Nat /\ Len(c.frontier) \in Nat /\ Handled(c) \in Nat
      /\ c.skipped_robots \in Nat /\ c.skipped_offdomain \in Nat /\ c.fetch_errors \in Nat
    BY <1>a, CrawlNumbers DEF Counts
<1>6. Handled(d) = Handled(c) + 1
  <2>1. PICK p \in Nat, r \in Nat, o \in Nat, e \in Nat :
          p = Len(c.pages) /\ r = c.skipped_robots /\ o = c.skipped_offdomain /\ e = c.fetch_errors
      BY <1>5
  <2>2. Handled(c) = p + r + o + e /\ Handled(d) = (p + 1) + r + o + e
      BY <1>1, <1>2, <2>1 DEF Handled
  <2> QED BY <2>2
<1>7. Handled(d) + Len(d.frontier) + Len(d.popped) = Handled(c) + Len(c.frontier) + Len(c.popped)
  <2>1. Len(c.popped) = 1
      BY <1>a
  <2> QED BY <1>3, <1>5, <1>6, <2>1
<1>8. \E U : d.pages \in Seq(U)
    BY <1>2
<1>9. Moved(c, d)
    BY <1>a, <1>1, <1>3, <1>4, <1>7, <1>8 DEF Moved
<1> QED BY <1>1, <1>9, CoreMoved DEF Reads

\* A fetch is counted as an error, or its page and links are met.
LEMMA FetchKept ==
    ASSUME ResearchInv, FetchPage
    PROVE  ResearchInv'
<1>1. /\ CrawlCore(crawl) /\ Linked(crawl) /\ crawl.st = "fetch" /\ budget' = budget
    BY DEF ResearchInv, FetchPage, Running
<1>a. /\ CrawlShape(crawl) /\ crawl.frontier \in Seq(Cand)
      /\ \E S : crawl.pages \in Seq(S)
    BY <1>1 DEF CrawlCore
<1>b. Counts(crawl)
    BY <1>1 DEF CrawlCore
<1>c. /\ Len(crawl.pages) \in Nat /\ Len(crawl.frontier) \in Nat /\ Len(crawl.popped) = 1
      /\ Handled(crawl) \in Nat
    BY <1>1, CrawlNumbers DEF CrawlCore
<1> DEFINE at == crawl.popped[1]
           c == [crawl EXCEPT !.st = "pop", !.popped = <<>>]
<1>d. at \in Cand /\ at.depth \in Nat
  <2>1. crawl.popped \in Seq(Cand) /\ 1 \in 1..Len(crawl.popped)
      BY <1>1, <1>c DEF CrawlCore
  <2>2. at \in Cand
      BY <2>1
  <2> HIDE DEF at
  <2> QED BY <2>2 DEF Cand
<1>2. CASE crawl' = [c EXCEPT !.fetch_errors = c.fetch_errors + 1]
  <2>1. crawl' = [[crawl EXCEPT !.st = "pop", !.popped = <<>>] EXCEPT !.fetch_errors = crawl.fetch_errors + 1]
      BY <1>2, <1>a DEF CrawlShape
  <2>2. /\ CrawlShape(crawl') /\ crawl'.st = "pop" /\ crawl'.seed = crawl.seed
        /\ crawl'.caps = crawl.caps /\ crawl'.visited = crawl.visited /\ crawl'.pages = crawl.pages
        /\ crawl'.frontier = crawl.frontier /\ crawl'.popped = <<>>
        /\ crawl'.skipped_robots = crawl.skipped_robots
        /\ crawl'.skipped_offdomain = crawl.skipped_offdomain
        /\ crawl'.fetch_errors = crawl.fetch_errors + 1
      BY <1>a, <2>1 DEF CrawlShape
  <2>3. crawl'.popped \in Seq(Cand) /\ Len(crawl'.popped) = 0 /\ Len(crawl'.frontier) = Len(crawl.frontier)
      BY <2>2
  <2>4. Counts(crawl')
      BY <1>b, <2>2 DEF Counts
  <2>5. Handled(crawl') = Handled(crawl) + 1
    <3>1. PICK p \in Nat, r \in Nat, o \in Nat, e \in Nat :
            p = Len(crawl.pages) /\ r = crawl.skipped_robots /\ o = crawl.skipped_offdomain
              /\ e = crawl.fetch_errors
        BY <1>b, <1>c DEF Counts
    <3>2. Handled(crawl) = p + r + o + e /\ Handled(crawl') = p + r + o + (e + 1)
        BY <2>2, <3>1 DEF Handled
    <3> QED BY <3>2
  <2>6. Handled(crawl') + Len(crawl'.frontier) + Len(crawl'.popped)
            = Handled(crawl) + Len(crawl.frontier) + Len(crawl.popped)
      BY <1>c, <2>3, <2>5
  <2>7. Moved(crawl, crawl')
      BY <1>a, <2>2, <2>3, <2>4, <2>6 DEF Moved
  <2>8. Linked(crawl')
      BY <1>1, <2>2 DEF Linked
  <2> QED BY <1>1, <2>7, <2>8, CoreMoved DEF ResearchInv
<1>3. ASSUME NEW final, NEW links \in Links,
             LET read == [c EXCEPT !.pages = Append(c.pages, [url |-> at.url, final |-> final,
                                                        depth |-> at.depth, links |-> links])]
             IN crawl' = IF at.depth < c.caps.depth
                         THEN PushAll(read, links, Urls, at.depth + 1) ELSE read
      PROVE  ResearchInv'
  <2> DEFINE page == [url |-> at.url, final |-> final, depth |-> at.depth, links |-> links]
             read == [c EXCEPT !.pages = Append(crawl.pages, page)]
  <2>1. c.caps = crawl.caps /\ c.pages = crawl.pages
      BY <1>a DEF CrawlShape
  <2>2. crawl' = IF at.depth < crawl.caps.depth THEN PushAll(read, links, Urls, at.depth + 1) ELSE read
      BY <1>3, <2>1
  <2>3. /\ CrawlCore(read) /\ read.st = "pop" /\ read.caps = crawl.caps
        /\ read.visited = crawl.visited /\ read.pages = Append(crawl.pages, page)
    <3>1. read = [[crawl EXCEPT !.st = "pop", !.popped = <<>>] EXCEPT !.pages = Append(crawl.pages, page)]
        OBVIOUS
    <3> HIDE DEF page, read
    <3>2. Reads(crawl, page, read)
        BY <1>1, <3>1, PageRead
    <3> QED BY <3>2 DEF Reads
  <2>4. page.depth = at.depth /\ page.links = links
      OBVIOUS
  <2>5. /\ links \in Seq(Urls) /\ crawl.caps.depth \in Nat
      BY <1>1, ResearchAssumption DEF CrawlCore
  <2> HIDE DEF page, read, c, at
  <2>6. PICK S : crawl.pages \in Seq(S)
      BY <1>a
  <2>7. /\ \A k \in DOMAIN read.pages : k \in DOMAIN crawl.pages \/ read.pages[k] = page
        /\ \A k \in DOMAIN crawl.pages : read.pages[k] = crawl.pages[k]
      BY <2>3, <2>6, AppendAny
  <2>8. CASE at.depth < crawl.caps.depth
    <3>1. /\ GrownTo(read, crawl')
          /\ \A k \in DOMAIN links : links[k] \in Urls => links[k] \in crawl'.visited
        BY <1>d, <2>2, <2>3, <2>5, <2>8, PushAllGrows
    <3>2. \A k \in DOMAIN links : links[k] \in crawl'.visited
        BY <2>5, <3>1
    <3>3. /\ crawl'.pages = read.pages /\ crawl'.caps = crawl.caps
          /\ crawl.visited \subseteq crawl'.visited /\ CrawlCore(crawl')
        BY <2>3, <3>1 DEF GrownTo
    <3>4. Linked(crawl')
        BY <1>1, <2>4, <2>7, <3>2, <3>3 DEF Linked
    <3> QED BY <1>1, <3>3, <3>4 DEF ResearchInv
  <2>9. CASE ~(at.depth < crawl.caps.depth)
    <3>1. crawl' = read
        BY <2>2, <2>9
    <3>2. /\ crawl'.pages = read.pages /\ crawl'.caps = crawl.caps
          /\ crawl.visited \subseteq crawl'.visited
        BY <2>3, <3>1
    <3>3. Linked(crawl')
        BY <1>1, <2>4, <2>7, <2>9, <3>2 DEF Linked
    <3> QED BY <1>1, <2>3, <3>1, <3>3 DEF ResearchInv
  <2> QED BY <2>8, <2>9
<1> QED BY <1>2, <1>3 DEF FetchPage

\* A crawl that ends with nothing to report has nothing waiting.
LEMMA CrawlEnds ==
    ASSUME ResearchInv, CrawlReturns \/ CrawlDeadline
    PROVE  ResearchInv'
<1>1. /\ CrawlCore(crawl) /\ Linked(crawl) /\ budget' = budget
    BY DEF ResearchInv, CrawlReturns, CrawlDeadline, Running
<1>a. CrawlShape(crawl)
    BY <1>1 DEF CrawlCore
<1>2. /\ CrawlShape(crawl') /\ crawl'.st = "done" /\ crawl'.seed = crawl.seed
      /\ crawl'.caps = crawl.caps /\ crawl'.visited = crawl.visited /\ crawl'.pages = crawl.pages
      /\ crawl'.frontier = crawl.frontier /\ crawl'.popped = crawl.popped
      /\ crawl'.skipped_robots = crawl.skipped_robots
      /\ crawl'.skipped_offdomain = crawl.skipped_offdomain
      /\ crawl'.fetch_errors = crawl.fetch_errors
    BY <1>a DEF CrawlShape, CrawlReturns, CrawlDeadline
<1>3. crawl'.hit_page_cap = (crawl.frontier # <<>>) \/ crawl'.hit_deadline = TRUE
  <2>1. CASE CrawlReturns
      BY <1>a, <2>1 DEF CrawlShape, CrawlReturns
  <2>2. CASE CrawlDeadline
      BY <1>a, <2>2 DEF CrawlShape, CrawlDeadline
  <2> QED BY <2>1, <2>2
<1>4. ~crawl'.hit_page_cap /\ ~crawl'.hit_deadline => crawl.frontier = <<>>
    BY <1>3
<1>5. CrawlCore(crawl')
    BY <1>1, <1>2, <1>4 DEF CrawlCore, Counts, Accounted, Handled
<1>6. Linked(crawl')
    BY <1>1, <1>2 DEF Linked
<1> QED BY <1>1, <1>5, <1>6 DEF ResearchInv

\* Every step of research keeps the invariant.
LEMMA ResearchKept == ResearchInv /\ [RNext]_rvars => ResearchInv'
<1> SUFFICES ASSUME ResearchInv, [RNext]_rvars PROVE ResearchInv'
    OBVIOUS
<1>1. CASE UNCHANGED rvars
    BY <1>1 DEF rvars, ResearchInv
<1>2. CASE SearchOrFetch
  <2>1. budget' \in 0..BudgetPerRequest /\ crawl' = crawl
      BY <1>2, BudgetSpent DEF SearchOrFetch, ResearchInv
  <2> QED BY <2>1 DEF ResearchInv
<1>3. ASSUME NEW seed \in Seeds, NEW caps \in Caps, web_crawl(seed, caps) PROVE ResearchInv'
  <2>1. budget' \in 0..BudgetPerRequest
      BY <1>3, BudgetSpent DEF web_crawl, ResearchInv
  <2>2. CASE crawl' = crawl
      BY <2>1, <2>2 DEF ResearchInv
  <2>3. CASE crawl' # crawl
    <3>1. CrawlCore(crawl') /\ Linked(crawl')
        BY <1>3, <2>3, CrawlStarts DEF web_crawl
    <3> QED BY <2>1, <3>1 DEF ResearchInv
  <2> QED BY <2>2, <2>3
<1> QED BY <1>1, <1>2, <1>3, SitemapKept, PopKept, RobotsKept, FetchKept, CrawlEnds DEF RNext

\* Chat runs the crawl and the page by their own steps.
LEMMA StepOfCrawlAndPage ==
    ASSUME [ChatNext]_chatvars
    PROVE  [RNext]_rvars /\ [BNext]_bvars
<1>1. CASE LoopStep \/ ClientStep
    BY <1>1 DEF LoopStep, ClientStep, TurnRests
<1>2. CASE FailoverStep \/ GroundingStep \/ LimitsStep
    BY <1>2 DEF FailoverStep, GroundingStep, LimitsStep
<1>3. CASE ResearchStep
    BY <1>3 DEF ResearchStep
<1>4. CASE BrowserStep
    BY <1>4 DEF BrowserStep
<1>5. CASE UNCHANGED chatvars
    BY <1>5 DEF chatvars
<1> QED BY <1>1, <1>2, <1>3, <1>4, <1>5 DEF ChatNext

\* The invariant holds in every state.
LEMMA ResearchInvariant == ChatSpec => []ResearchInv
<1>1. ChatInit => ResearchInv
    BY ResearchInit DEF ChatInit
<1>2. ResearchInv /\ [ChatNext]_chatvars => ResearchInv'
    BY ResearchKept, StepOfCrawlAndPage
<1> QED BY <1>1, <1>2, PTL DEF ChatSpec

\* research/crawler.py: whatever the pages link to, whichever fetches fail and
\* wherever the deadline strikes, the counts of a crawl cover every url it met
\* once, and a crawl that reports neither cap nor deadline left no link behind.
THEOREM CrawlsAreHonest == ChatSpec => []CrawlIsHonest
<1>1. ASSUME ResearchInv PROVE CrawlIsHonest
  <2>1. CASE crawl = NoCrawl
      BY <2>1 DEF CrawlIsHonest
  <2>2. CASE crawl # NoCrawl
    <3>1. CrawlCore(crawl) /\ Linked(crawl)
        BY <1>1, <2>2 DEF ResearchInv
    <3>2. Cardinality(crawl.visited) =
              Len(crawl.pages) + crawl.skipped_robots + crawl.skipped_offdomain
                + crawl.fetch_errors + Len(crawl.frontier) + Len(crawl.popped)
        BY <3>1 DEF CrawlCore, Accounted, Handled
    <3>3. crawl.st = "done" /\ ~crawl.hit_page_cap /\ ~crawl.hit_deadline => crawl.frontier = <<>>
        BY <3>1 DEF CrawlCore
    <3> QED BY <2>2, <3>1, <3>2, <3>3 DEF CrawlIsHonest, Linked
  <2> QED BY <2>1, <2>2
<1> QED BY <1>1, ResearchInvariant, PTL

-----------------------------------------------------------------------------
(* The page.                                                               *)

Node == [role : {"user", "assistant"}, parent : 0..MaxNodes, run : 0..MaxRuns,
         pending : BOOLEAN]
RunRec == [question : Nat, history : SUBSET Nat, retry : BOOLEAN]

\* A message is younger than the one it hangs under.
TreeSeq(ns) == Len(ns) \in Nat /\ \A i \in 1..Len(ns) : ns[i].parent \in 0..(i - 1)

BShapes ==
    /\ nodes \in Seq(Node) /\ Len(nodes) <= MaxNodes
    /\ selected \in [0..MaxNodes -> 0..MaxNodes]
    /\ phase \in {"idle", "running", "done", "error"}
    /\ controller \in {"none", "live", "aborted"}
    /\ served \in {"open", "pending", "settled", "failed"}
    /\ runs \in Seq(RunRec) /\ Len(runs) <= MaxRuns
    /\ deleted \in BOOLEAN

\* What the model was told is what the tree holds above the question.
Told(ns, r) ==
    /\ r.question \in 1..Len(ns)
    /\ r.history = ancestorsIn(ns, r.question) \ (IF r.retry THEN {} ELSE {r.question})

RunsOK == ~deleted => \A k \in 1..Len(runs) : Told(nodes, runs[k])

NodeOK(n, rs) ==
    \/ n.role = "user" /\ n.run = 0
    \/ n.role = "assistant" /\ n.run \in 1..Len(rs) /\ n.parent = rs[n.run].question

NodesOK ==
    /\ deleted => nodes = <<>>
    /\ \A i \in Ids : NodeOK(nodes[i], runs)
    /\ \A i, j \in Ids : nodes[i].run = nodes[j].run /\ nodes[i].run # 0 => i = j

\* There is room for the answer of the last run, which is not there yet.
FreeRun ==
    /\ Len(nodes) < MaxNodes /\ Len(runs) >= 1
    /\ \A i \in Ids : nodes[i].run # Len(runs)

\* An answer may still come, from the server or from an abort.
Awaited == ~deleted /\ ((controller = "live" /\ served = "open") \/ controller = "aborted")

StreamOK ==
    /\ completion # NoValue =>
          /\ ~deleted /\ FreeRun /\ completion.pending \in BOOLEAN
          /\ completion.run = Len(runs) /\ completion.parent = runs[Len(runs)].question
    /\ Awaited => phase = "running" /\ completion = NoValue /\ FreeRun
    /\ ~deleted /\ phase = "running" /\ controller = "live" => served = "open"

BrowserInv == BShapes /\ TreeSeq(nodes) /\ RunsOK /\ NodesOK /\ StreamOK

\* What ancestorsIn computes on such a list: the message and all above it.
Above(ns) ==
    /\ ancestorsIn(ns, 0) = {}
    /\ \A i \in 1..Len(ns) : ancestorsIn(ns, i) = {i} \cup ancestorsIn(ns, ns[i].parent)

\* The recursion has a value on every tree.
LEMMA AboveTree == ASSUME NEW ns, TreeSeq(ns) PROVE Above(ns)
<1> DEFINE Body(g, n) == IF n = 0 THEN {} ELSE {n} \cup g[ns[n].parent]
           T == {m \in 0..Len(ns) : ~ \E g : g = [n \in 0..m |-> Body(g, n)]}
<1>0. Len(ns) \in Nat /\ \A i \in 1..Len(ns) : ns[i].parent \in 0..(i - 1)
    BY DEF TreeSeq
<1>1. T = {}
  <2> SUFFICES ASSUME T # {} PROVE FALSE
      OBVIOUS
  <2>1. T \subseteq Nat
      OBVIOUS
  <2>2. PICK m \in T : \A k \in T : m <= k
    <3> HIDE DEF T
    <3> QED BY <2>1, LeastNumber
  <2>3. CASE m = 0
    <3> DEFINE g == [n \in 0..0 |-> {}]
    <3>1. g = [n \in 0..m |-> Body(g, n)]
        BY <2>3
    <3> QED BY <3>1
  <2>4. CASE m # 0
    <3>0. m \in 0..Len(ns)
        BY <2>2
    <3>1. m \in 1..Len(ns) /\ m - 1 \in 0..Len(ns) /\ m - 1 \notin T
      <4> HIDE DEF T
      <4> QED BY <1>0, <2>2, <2>4, <3>0
    <3>2. PICK g : g = [n \in 0..(m - 1) |-> Body(g, n)]
        BY <3>1
    <3> DEFINE h == [n \in 0..m |-> IF n < m THEN g[n] ELSE Body(g, m)]
    <3>3. ASSUME NEW n \in 0..m PROVE h[n] = Body(h, n)
      <4>1. CASE n = 0
          BY <2>4, <3>2, <4>1
      <4>2. CASE n # 0
        <5>1. ns[n].parent \in 0..(n - 1) /\ ns[n].parent \in 0..m /\ ns[n].parent < m
            BY <1>0, <3>1, <4>2
        <5>2. h[ns[n].parent] = g[ns[n].parent]
            BY <5>1
        <5>3. CASE n < m
          <6>1. h[n] = g[n] /\ n \in 0..(m - 1)
              BY <5>3
          <6>2. g[n] = Body(g, n)
              BY <3>2, <6>1
          <6> QED BY <4>2, <5>2, <6>1, <6>2
        <5>4. CASE n = m
          <6>1. h[n] = Body(g, n)
              BY <5>4
          <6> QED BY <4>2, <5>2, <6>1
        <5> QED BY <3>1, <5>3, <5>4
      <4> QED BY <4>1, <4>2
    <3>4. h = [n \in 0..m |-> Body(h, n)]
      <4>1. h = [n \in 0..m |-> h[n]]
          OBVIOUS
      <4> HIDE DEF h
      <4> QED BY <3>3, <4>1
    <3> QED BY <3>4
  <2> QED BY <2>3, <2>4
<1> DEFINE above == CHOOSE g : g = [n \in 0..Len(ns) |-> Body(g, n)]
<1>2. above = [n \in 0..Len(ns) |-> Body(above, n)]
  <2>0. Len(ns) \in 0..Len(ns)
      BY <1>0
  <2>1. \E g : g = [n \in 0..Len(ns) |-> Body(g, n)]
      BY <1>1, <2>0
  <2> QED BY <2>1
<1>3. \A i : ancestorsIn(ns, i) = above[i]
    BY DEF ancestorsIn
<1> HIDE DEF above
<1>4. above[0] = {}
    BY <1>0, <1>2
<1>5. \A i \in 1..Len(ns) : above[i] = {i} \cup above[ns[i].parent]
    BY <1>0, <1>2
<1> QED BY <1>3, <1>4, <1>5 DEF Above

\* The messages above i are older, those above them are above i, and each but
\* i, the root included, has one of them under it.
Chained(ns, i) ==
    /\ ancestorsIn(ns, i) \subseteq 1..i
    /\ \A j \in ancestorsIn(ns, i) : ancestorsIn(ns, j) \subseteq ancestorsIn(ns, i)
    /\ i # 0 => \A q \in (ancestorsIn(ns, i) \ {i}) \cup {0} :
                   \E c \in ancestorsIn(ns, i) : ns[c].parent = q

\* Every message of a tree has such a chain above it.
LEMMA ChainedTree ==
    ASSUME NEW ns, TreeSeq(ns)
    PROVE  \A i \in 0..Len(ns) : Chained(ns, i)
<1>0. /\ Len(ns) \in Nat /\ \A i \in 1..Len(ns) : ns[i].parent \in 0..(i - 1)
      /\ ancestorsIn(ns, 0) = {}
      /\ \A i \in 1..Len(ns) : ancestorsIn(ns, i) = {i} \cup ancestorsIn(ns, ns[i].parent)
    BY AboveTree DEF TreeSeq, Above
<1> DEFINE T == {i \in 0..Len(ns) : ~Chained(ns, i)}
<1> SUFFICES ASSUME T # {} PROVE FALSE
    OBVIOUS
<1>1. T \subseteq Nat
    BY <1>0
<1>2. PICK i \in T : \A k \in T : i <= k
  <2> HIDE DEF T
  <2> QED BY <1>1, LeastNumber
<1>3. i # 0
    BY <1>0, <1>2 DEF Chained
<1>4. PICK p \in 0..(i - 1) : p = ns[i].parent
    BY <1>0, <1>2, <1>3
<1>5. /\ i \in 1..Len(ns) /\ p \in 0..Len(ns) /\ p < i
      /\ ancestorsIn(ns, i) = {i} \cup ancestorsIn(ns, p)
    BY <1>0, <1>2, <1>3, <1>4
<1>6. Chained(ns, p)
    BY <1>2, <1>5
<1>7. ancestorsIn(ns, i) \subseteq 1..i
    BY <1>5, <1>6 DEF Chained
<1>8. \A j \in ancestorsIn(ns, i) : ancestorsIn(ns, j) \subseteq ancestorsIn(ns, i)
    BY <1>5, <1>6 DEF Chained
<1>9. ASSUME NEW q \in (ancestorsIn(ns, i) \ {i}) \cup {0}
      PROVE  \E c \in ancestorsIn(ns, i) : ns[c].parent = q
  <2>1. CASE q = p
      BY <1>4, <1>5, <2>1
  <2>2. CASE q # p
    <3>1. p # 0
        BY <1>0, <1>5, <2>2
    <3>2. q \in (ancestorsIn(ns, p) \ {p}) \cup {0}
        BY <1>5, <2>2
    <3>3. PICK c \in ancestorsIn(ns, p) : ns[c].parent = q
        BY <1>6, <3>1, <3>2 DEF Chained
    <3> QED BY <1>5, <3>3
  <2> QED BY <2>1, <2>2
<1>10. Chained(ns, i)
    BY <1>7, <1>8, <1>9 DEF Chained
<1> QED BY <1>2, <1>10

\* Messages appended to a conversation leave what is above the others.
SameAbove(ns, ms) == \A i \in 0..Len(ns) : ancestorsIn(ms, i) = ancestorsIn(ns, i)

\* More messages, or other contents, leave the chains.
LEMMA AboveKept ==
    ASSUME NEW ns, NEW ms, TreeSeq(ns), TreeSeq(ms), Len(ns) <= Len(ms),
           \A i \in 1..Len(ns) : ms[i].parent = ns[i].parent
    PROVE  SameAbove(ns, ms)
<1>0. /\ Len(ns) \in Nat /\ \A i \in 1..Len(ns) : ns[i].parent \in 0..(i - 1)
      /\ ancestorsIn(ns, 0) = {} /\ ancestorsIn(ms, 0) = {}
      /\ \A i \in 1..Len(ns) : ancestorsIn(ns, i) = {i} \cup ancestorsIn(ns, ns[i].parent)
      /\ \A i \in 1..Len(ns) : ancestorsIn(ms, i) = {i} \cup ancestorsIn(ms, ns[i].parent)
  <2>1. Above(ns) /\ Above(ms)
      BY AboveTree
  <2>2. Len(ns) \in Nat /\ Len(ms) \in Nat
      BY DEF TreeSeq
  <2>3. \A i \in 1..Len(ns) : i \in 1..Len(ms)
      BY <2>2
  <2> QED BY <2>1, <2>2, <2>3 DEF TreeSeq, Above
<1> DEFINE T == {i \in 0..Len(ns) : ancestorsIn(ms, i) # ancestorsIn(ns, i)}
<1>1. T = {}
  <2> SUFFICES ASSUME T # {} PROVE FALSE
      OBVIOUS
  <2>1. T \subseteq Nat
      BY <1>0
  <2>2. PICK i \in T : \A k \in T : i <= k
    <3> HIDE DEF T
    <3> QED BY <2>1, LeastNumber
  <2>3. i # 0
      BY <1>0, <2>2
  <2>4. PICK p \in 0..(i - 1) : p = ns[i].parent
      BY <1>0, <2>2, <2>3
  <2>5. p \in 0..Len(ns) /\ p < i /\ i \in 1..Len(ns)
      BY <1>0, <2>2, <2>3, <2>4
  <2>6. ancestorsIn(ms, p) = ancestorsIn(ns, p)
      BY <2>2, <2>5
  <2> QED BY <1>0, <2>2, <2>4, <2>5, <2>6
<1> QED BY <1>1 DEF SameAbove

\* Of two messages on the path shown, the older is above the younger: where
\* their branches part, the selection would lead to both.
LEMMA PathIsAChain ==
    ASSUME TreeSeq(nodes), NEW i \in activePathNodes
    PROVE  \A j \in activePathNodes : j <= i => j \in ancestors(i)
<1>0. /\ Len(nodes) \in Nat /\ \A k \in Ids : nodes[k].parent \in 0..(k - 1)
      /\ \A k \in Ids : ancestors(k) = {k} \cup ancestors(nodes[k].parent)
      /\ \A k \in 0..Len(nodes) : Chained(nodes, k)
    BY AboveTree, ChainedTree DEF TreeSeq, Above, Ids, ancestors
<1>1. /\ i \in Ids /\ i \in Nat /\ i # 0 /\ i \in 0..Len(nodes)
      /\ \A j \in ancestors(i) : selected[nodes[j].parent] = j
    BY <1>0 DEF activePathNodes, Ids
<1> DEFINE T == {j \in activePathNodes : j <= i /\ j \notin ancestors(i)}
<1> SUFFICES ASSUME T # {} PROVE FALSE
    OBVIOUS
<1>2. T \subseteq Nat
    BY <1>0 DEF activePathNodes, Ids
<1>3. PICK j \in T : \A k \in T : j <= k
  <2> HIDE DEF T
  <2> QED BY <1>2, LeastNumber
<1>4. j \in activePathNodes /\ j \in Ids /\ j <= i /\ j \notin ancestors(i)
    BY <1>3 DEF activePathNodes
<1>5. PICK q \in 0..(j - 1) : q = nodes[j].parent
    BY <1>0, <1>4
<1>6. q < j /\ q < i /\ j \in Nat /\ q \in Nat
    BY <1>0, <1>1, <1>4, <1>5 DEF Ids
<1>7. j \in ancestors(j) /\ ancestors(q) \subseteq ancestors(j)
    BY <1>0, <1>4, <1>5
<1>8. \A k \in ancestors(j) : selected[nodes[k].parent] = k
    BY <1>4 DEF activePathNodes
<1>9. selected[q] = j
    BY <1>5, <1>7, <1>8
<1>10. q # 0 => q \in ancestors(i)
  <2> SUFFICES ASSUME q # 0 PROVE q \in ancestors(i)
      OBVIOUS
  <2>1. q \in Ids
      BY <1>0, <1>4, <1>6 DEF Ids
  <2>2. q \in activePathNodes
      BY <1>7, <1>8, <2>1 DEF activePathNodes
  <2>3. q \notin T
    <3> HIDE DEF T
    <3> QED BY <1>3, <1>6
  <2> QED BY <1>1, <1>6, <2>2, <2>3
<1>11. q \in (ancestors(i) \ {i}) \cup {0}
    BY <1>6, <1>10, <1>1
<1>12. PICK c \in ancestors(i) : nodes[c].parent = q
    BY <1>0, <1>1, <1>11 DEF Chained, ancestors
<1>13. selected[q] = c
    BY <1>1, <1>12
<1> QED BY <1>4, <1>9, <1>12, <1>13

\* historyUpTo is the branch above the message that is replaced.
LEMMA HistoryIsTheBranch ==
    ASSUME TreeSeq(nodes), NEW i \in activePathNodes
    PROVE  historyUpTo(i) = ancestors(nodes[i].parent)
<1>0. /\ Len(nodes) \in Nat /\ i \in Ids /\ nodes[i].parent \in 0..(i - 1)
      /\ ancestors(i) = {i} \cup ancestors(nodes[i].parent)
      /\ \A k \in 0..Len(nodes) : Chained(nodes, k)
    BY AboveTree, ChainedTree DEF TreeSeq, Above, Ids, ancestors, activePathNodes
<1>1. PICK p \in 0..(i - 1) : p = nodes[i].parent
    BY <1>0
<1>2. p \in 0..Len(nodes) /\ i \in 0..Len(nodes) /\ i \in Nat
    BY <1>0, <1>1 DEF Ids
<1>3. ancestors(p) \subseteq 1..p /\ ancestors(i) \subseteq 1..i
    BY <1>0, <1>2 DEF Chained, ancestors
<1>4. ASSUME NEW j \in historyUpTo(i) PROVE j \in ancestors(p)
  <2>1. j \in activePathNodes /\ j < i /\ j \in Nat
      BY <1>0, <1>4 DEF historyUpTo, activePathNodes, Ids
  <2>2. j \in ancestors(i) /\ j # i
      BY <1>2, <2>1, PathIsAChain
  <2> QED BY <1>0, <1>1, <2>2
<1>5. ASSUME NEW j \in ancestors(p) PROVE j \in historyUpTo(i)
  <2>1. j \in ancestors(i) /\ j < i
      BY <1>0, <1>1, <1>2, <1>3, <1>5
  <2>2. ancestors(j) \subseteq ancestors(i)
      BY <1>0, <1>2, <2>1 DEF Chained, ancestors
  <2>3. j \in Ids
      BY <1>0, <1>2, <1>3, <2>1 DEF Ids
  <2> QED BY <2>1, <2>2, <2>3 DEF historyUpTo, activePathNodes
<1> QED BY <1>1, <1>4, <1>5

\* The path shown is the branch of its last message.
LEMMA LeafEndsThePath ==
    ASSUME TreeSeq(nodes)
    PROVE  activeLeaf \in 0..Len(nodes) /\ ancestors(activeLeaf) = activePathNodes
<1>0. Len(nodes) \in Nat /\ activePathNodes \subseteq 1..Len(nodes)
    BY DEF TreeSeq, activePathNodes, Ids
<1> DEFINE T == {n \in 0..Len(nodes) : \A j \in activePathNodes : j <= n}
<1>1. \E i \in activePathNodes \cup {0} : \A j \in activePathNodes : j <= i
  <2>1. T \subseteq Nat /\ Len(nodes) \in T
      BY <1>0
  <2>2. PICK n \in T : \A k \in T : n <= k
    <3> HIDE DEF T
    <3> QED BY <2>1, LeastNumber
  <2>3. n \in activePathNodes \cup {0}
    <3> SUFFICES ASSUME n \notin activePathNodes, n # 0 PROVE FALSE
        OBVIOUS
    <3>1. n \in 0..Len(nodes) /\ \A j \in activePathNodes : j <= n
        BY <2>2
    <3>2. \A j \in activePathNodes : j <= n - 1
        BY <1>0, <3>1
    <3>3. n - 1 \in 0..Len(nodes)
        BY <1>0, <3>1
    <3>4. n - 1 \in T
        BY <3>2, <3>3
    <3> HIDE DEF T
    <3> QED BY <2>1, <2>2, <3>4
  <2> QED BY <2>2, <2>3
<1>2. /\ activeLeaf \in activePathNodes \cup {0}
      /\ \A j \in activePathNodes : j <= activeLeaf
    BY <1>1 DEF activeLeaf
<1>3. PICK l : l = activeLeaf
    OBVIOUS
<1>4. l \in activePathNodes \cup {0} /\ \A j \in activePathNodes : j <= l
    BY <1>2, <1>3
<1>5. l \in 0..Len(nodes)
    BY <1>0, <1>4
<1>6. ancestors(l) = activePathNodes
  <2>1. CASE l = 0
    <3>1. ancestors(0) = {}
        BY AboveTree DEF Above, ancestors
    <3>2. activePathNodes = {}
        BY <1>0, <1>4, <2>1
    <3> QED BY <2>1, <3>1, <3>2
  <2>2. CASE l # 0
    <3>1. l \in activePathNodes
        BY <1>4, <2>2
    <3>2. \A j \in activePathNodes : j \in ancestors(l)
        BY <1>4, <3>1, PathIsAChain
    <3>3. ASSUME NEW j \in ancestors(l) PROVE j \in activePathNodes
      <4>1. /\ ancestors(l) \subseteq 1..l /\ ancestors(j) \subseteq ancestors(l)
        <5>1. Chained(nodes, l)
            BY <1>5, ChainedTree
        <5> QED BY <3>3, <5>1 DEF Chained, ancestors
      <4>2. j \in Ids
          BY <1>0, <1>5, <3>3, <4>1 DEF Ids
      <4> QED BY <3>1, <4>1, <4>2 DEF activePathNodes
    <3> QED BY <3>2, <3>3
  <2> QED BY <2>1, <2>2
<1> QED BY <1>3, <1>5, <1>6

\* What a message appended under p changes of the tree.
Hangs(p, n) ==
    /\ nodes' \in Seq(Node) /\ Len(nodes') = Len(nodes) + 1 /\ Len(nodes') <= MaxNodes
    /\ selected' \in [0..MaxNodes -> 0..MaxNodes]
    /\ \A i \in Ids : nodes'[i] = nodes[i]
    /\ nodes'[Len(nodes) + 1] = n
    /\ TreeSeq(nodes') /\ SameAbove(nodes, nodes')
    /\ ancestorsIn(nodes', Len(nodes) + 1) = {Len(nodes) + 1} \cup ancestors(p)

\* appendChildOf hangs its message there.
LEMMA AppendHangs ==
    ASSUME BShapes, TreeSeq(nodes), NEW p \in 0..Len(nodes), NEW n \in Node, n.parent = p,
           Len(nodes) < MaxNodes, appendChildOf(p, n)
    PROVE  Hangs(p, n)
<1>1. nodes \in Seq(Node) /\ Len(nodes) \in Nat /\ MaxNodes \in Nat /\ Len(nodes) <= MaxNodes
    BY BrowserAssumption DEF BShapes
<1>2. nodes' = Append(nodes, n)
    BY DEF appendChildOf
<1>3. /\ nodes' \in Seq(Node) /\ Len(nodes') = Len(nodes) + 1 /\ Len(nodes') <= MaxNodes
      /\ \A i \in Ids : nodes'[i] = nodes[i]
      /\ nodes'[Len(nodes) + 1] = n
    BY <1>1, <1>2 DEF Ids
<1>4. selected' \in [0..MaxNodes -> 0..MaxNodes]
  <2>1. selected' = [selected EXCEPT ![p] = Len(nodes) + 1]
      BY DEF appendChildOf
  <2>2. Len(nodes) + 1 \in 0..MaxNodes
      BY <1>1
  <2> QED BY <2>1, <2>2 DEF BShapes
<1>5. TreeSeq(nodes')
  <2>1. ASSUME NEW i \in 1..Len(nodes') PROVE nodes'[i].parent \in 0..(i - 1)
    <3>1. CASE i \in Ids
        BY <1>3, <3>1 DEF TreeSeq, Ids
    <3>2. CASE i = Len(nodes) + 1
        BY <1>1, <1>3, <3>2
    <3> QED BY <1>1, <1>3, <3>1, <3>2 DEF Ids
  <2> QED BY <1>1, <1>3, <2>1 DEF TreeSeq
<1>6. SameAbove(nodes, nodes')
  <2>1. \A i \in 1..Len(nodes) : nodes'[i].parent = nodes[i].parent
      BY <1>3 DEF Ids
  <2>2. Len(nodes) <= Len(nodes')
      BY <1>1, <1>3
  <2> QED BY <1>5, <2>1, <2>2, AboveKept
<1>7. ancestorsIn(nodes', Len(nodes) + 1) = {Len(nodes) + 1} \cup ancestors(p)
  <2>1. Above(nodes')
      BY <1>5, AboveTree
  <2>2. Len(nodes) + 1 \in 1..Len(nodes')
      BY <1>1, <1>3
  <2>3. ancestorsIn(nodes', Len(nodes) + 1) = {Len(nodes) + 1} \cup ancestorsIn(nodes', p)
      BY <1>3, <2>1, <2>2 DEF Above
  <2>4. ancestorsIn(nodes', p) = ancestorsIn(nodes, p)
      BY <1>6 DEF SameAbove
  <2> QED BY <2>3, <2>4 DEF ancestors
<1> QED BY <1>3, <1>4, <1>5, <1>6, <1>7 DEF Hangs

\* Told stays true of a run while the tree grows.
LEMMA ToldKept ==
    ASSUME NEW ns, NEW ms, Len(ns) \in Nat, Len(ms) \in Nat, Len(ns) <= Len(ms), SameAbove(ns, ms),
           NEW r, Told(ns, r)
    PROVE  Told(ms, r)
<1>1. r.question \in 0..Len(ns) /\ r.question \in 1..Len(ms)
    BY DEF Told
<1>2. ancestorsIn(ms, r.question) = ancestorsIn(ns, r.question)
    BY <1>1 DEF SameAbove
<1> QED BY <1>1, <1>2 DEF Told

\* The facts about the lists that every step uses.
LEMMA PageNumbers ==
    ASSUME BShapes
    PROVE  /\ MaxNodes \in Nat /\ MaxRuns \in Nat /\ Len(nodes) \in Nat /\ Len(runs) \in Nat
           /\ \A i \in Ids : nodes[i] \in Node /\ i \in Nat
           /\ \A k \in 1..Len(runs) : runs[k] \in RunRec
<1>1. nodes \in Seq(Node) /\ runs \in Seq(RunRec) /\ MaxNodes \in Nat /\ MaxRuns \in Nat
    BY BrowserAssumption DEF BShapes
<1>2. Len(nodes) \in Nat /\ Len(runs) \in Nat
    BY <1>1
<1>3. \A i \in Ids : nodes[i] \in Node /\ i \in Nat
    BY <1>1 DEF Ids
<1>4. \A k \in 1..Len(runs) : runs[k] \in RunRec
    BY <1>1
<1> QED BY <1>1, <1>2, <1>3, <1>4

\* A run appended leaves the others as they are.
Begins(r) ==
    /\ runs' \in Seq(RunRec) /\ Len(runs') = Len(runs) + 1 /\ Len(runs') <= MaxRuns
    /\ runs'[Len(runs) + 1] = r
    /\ \A k \in 1..Len(runs) : runs'[k] = runs[k]

\* submit begins its run.
LEMMA RunBegins ==
    ASSUME BShapes, Len(runs) < MaxRuns, NEW r \in RunRec, runs' = Append(runs, r)
    PROVE  Begins(r)
<1>1. runs \in Seq(RunRec) /\ Len(runs) \in Nat /\ MaxRuns \in Nat
    BY BrowserAssumption DEF BShapes
<1> QED BY <1>1 DEF Begins

\* A step that leaves the tree and the runs.
LEMMA StreamMoves ==
    ASSUME BrowserInv, UNCHANGED <<nodes, selected, runs, deleted>>,
           phase' \in {"idle", "running", "done", "error"},
           controller' \in {"none", "live", "aborted"},
           served' \in {"open", "pending", "settled", "failed"}, StreamOK'
    PROVE  BrowserInv'
<1>1. BShapes'
    BY DEF BrowserInv, BShapes
<1>2. TreeSeq(nodes') /\ RunsOK' /\ NodesOK'
    BY DEF BrowserInv, RunsOK, NodesOK, Ids
<1> QED BY <1>1, <1>2 DEF BrowserInv

\* A question appended under p, with the run it starts unless one is in flight.
LEMMA QuestionAsked ==
    ASSUME BrowserInv, Rendered, phase # "running", Room, NEW p \in 0..Len(nodes),
           appendChildOf(p, makeUserNode(p)), submit(Len(nodes) + 1, ancestors(p), FALSE),
           UNCHANGED deleted
    PROVE  BrowserInv'
<1>1. BShapes /\ TreeSeq(nodes) /\ RunsOK /\ NodesOK /\ StreamOK
    BY DEF BrowserInv
<1>2. /\ MaxNodes \in Nat /\ MaxRuns \in Nat /\ Len(nodes) \in Nat /\ Len(runs) \in Nat
      /\ Len(nodes) + 2 <= MaxNodes /\ Len(runs) < MaxRuns
    BY <1>1, PageNumbers DEF Room
<1> DEFINE n == makeUserNode(p)
<1>3. n \in Node /\ n.parent = p /\ n.role = "user" /\ n.run = 0
    BY <1>2 DEF makeUserNode, Node
<1>4. Hangs(p, n)
  <2> HIDE DEF n
  <2> QED BY <1>1, <1>2, <1>3, AppendHangs DEF n
<1> HIDE DEF n
<1>5. /\ Len(nodes') = Len(nodes) + 1 /\ TreeSeq(nodes') /\ SameAbove(nodes, nodes')
      /\ \A i \in Ids : nodes'[i] = nodes[i]
      /\ nodes'[Len(nodes) + 1] = n /\ Ids' = Ids \cup {Len(nodes) + 1}
  <2>1. /\ Len(nodes') = Len(nodes) + 1 /\ TreeSeq(nodes') /\ SameAbove(nodes, nodes')
        /\ \A i \in Ids : nodes'[i] = nodes[i]
        /\ nodes'[Len(nodes) + 1] = n
      BY <1>4 DEF Hangs
  <2>2. 1..(Len(nodes) + 1) = 1..Len(nodes) \cup {Len(nodes) + 1}
      BY <1>2
  <2> QED BY <2>1, <2>2 DEF Ids
<1>6. ~deleted /\ ~deleted' /\ completion = NoValue
    BY DEF Rendered
<1>7. \A r : Told(nodes, r) => Told(nodes', r)
    BY <1>2, <1>5, ToldKept
<1>8. CASE Busy
  <2>1. UNCHANGED <<phase, controller, completion, served, runs>>
      BY <1>8 DEF submit
  <2>2. BShapes'
      BY <1>1, <1>4, <1>6, <2>1 DEF BShapes, Hangs
  <2>3. RunsOK'
      BY <1>1, <1>6, <1>7, <2>1 DEF RunsOK
  <2>4. NodesOK'
    <3>1. \A i \in Ids' : NodeOK(nodes'[i], runs)
      <4>1. NodeOK(n, runs)
          BY <1>3 DEF NodeOK
      <4> QED BY <1>1, <1>5, <4>1 DEF NodesOK
    <3>2. \A i, j \in Ids' : nodes'[i].run = nodes'[j].run /\ nodes'[i].run # 0 => i = j
        BY <1>1, <1>3, <1>5 DEF NodesOK
    <3> QED BY <1>6, <2>1, <3>1, <3>2 DEF NodesOK
  <2>5. StreamOK'
      BY <1>1, <1>6, <2>1 DEF StreamOK, Awaited
  <2> QED BY <1>5, <2>2, <2>3, <2>4, <2>5 DEF BrowserInv
<1>9. CASE ~Busy
  <2> DEFINE r == [question |-> Len(nodes) + 1, history |-> ancestors(p), retry |-> FALSE]
  <2>1. /\ phase' = "running" /\ controller' = "live" /\ completion' = NoValue
        /\ served' = "open" /\ runs' = Append(runs, r)
      BY <1>9 DEF submit
  <2>2. ancestors(p) \subseteq 1..p
      BY <1>1, ChainedTree DEF Chained, ancestors
  <2>3. /\ r \in RunRec /\ r.question = Len(nodes) + 1 /\ r.history = ancestors(p)
        /\ r.retry = FALSE
      BY <1>2, <2>2 DEF RunRec
  <2> HIDE DEF r
  <2>4. Begins(r)
      BY <1>1, <1>2, <2>1, <2>3, RunBegins
  <2>5. BShapes'
      BY <1>1, <1>4, <1>6, <2>1, <2>4 DEF BShapes, Hangs, Begins
  <2>6. Told(nodes', r)
    <3>1. ancestorsIn(nodes', Len(nodes) + 1) = {Len(nodes) + 1} \cup ancestors(p)
        BY <1>4 DEF Hangs
    <3>2. Len(nodes) + 1 \notin ancestors(p)
        BY <1>2, <2>2
    <3> QED BY <1>2, <1>5, <2>3, <3>1, <3>2 DEF Told
  <2>7. \A k \in 1..Len(runs') : k \in 1..Len(runs) \/ k = Len(runs) + 1
      BY <1>2, <2>4 DEF Begins
  <2>8. RunsOK'
      BY <1>1, <1>6, <1>7, <2>4, <2>6, <2>7 DEF RunsOK, Begins
  <2>9. NodesOK'
    <3>1. ASSUME NEW i \in Ids' PROVE NodeOK(nodes'[i], runs')
      <4>1. CASE i = Len(nodes) + 1
          BY <1>3, <1>5, <4>1 DEF NodeOK
      <4>2. CASE i \in Ids
        <5>1. NodeOK(nodes[i], runs) /\ nodes'[i] = nodes[i]
            BY <1>1, <1>5, <4>2 DEF NodesOK
        <5>2. \A k \in 1..Len(runs) : k \in 1..Len(runs') /\ runs'[k] = runs[k]
            BY <1>2, <2>4 DEF Begins
        <5> QED BY <5>1, <5>2 DEF NodeOK
      <4> QED BY <1>5, <4>1, <4>2
    <3>2. \A i, j \in Ids' : nodes'[i].run = nodes'[j].run /\ nodes'[i].run # 0 => i = j
        BY <1>1, <1>3, <1>5 DEF NodesOK
    <3> QED BY <1>6, <3>1, <3>2 DEF NodesOK
  <2>10. FreeRun'
    <3>1. \A i \in Ids' : nodes'[i].run # Len(runs) + 1
      <4>1. ASSUME NEW i \in Ids PROVE nodes[i].run # Len(runs) + 1
        <5>1. NodeOK(nodes[i], runs)
            BY <1>1 DEF NodesOK
        <5> QED BY <1>2, <5>1 DEF NodeOK
      <4> QED BY <1>2, <1>3, <1>5, <4>1
    <3> QED BY <1>2, <1>5, <2>4, <3>1 DEF FreeRun, Begins
  <2>11. StreamOK'
      BY <2>1, <2>10 DEF StreamOK, Awaited
  <2> QED BY <1>5, <2>5, <2>8, <2>9, <2>11 DEF BrowserInv
<1> QED BY <1>8, <1>9

\* The question asked again.
LEMMA RetryKept ==
    ASSUME BrowserInv, NEW i \in Ids, handleRetryAssistant(i)
    PROVE  BrowserInv'
<1>1. BShapes /\ TreeSeq(nodes) /\ RunsOK /\ NodesOK /\ StreamOK
    BY DEF BrowserInv
<1>2. /\ MaxNodes \in Nat /\ MaxRuns \in Nat /\ Len(nodes) \in Nat /\ Len(runs) \in Nat
      /\ Len(nodes) + 2 <= MaxNodes /\ Len(runs) < MaxRuns
      /\ ~deleted /\ ~deleted' /\ completion = NoValue /\ phase # "running"
      /\ i \in activePathNodes /\ Role(i) = "assistant"
      /\ UNCHANGED <<nodes, selected, deleted>>
      /\ submit(nodes[i].parent, historyUpTo(i), TRUE)
    BY <1>1, PageNumbers DEF handleRetryAssistant, Rendered, Room
<1>3. historyUpTo(i) = ancestors(nodes[i].parent)
    BY <1>1, <1>2, HistoryIsTheBranch
<1>4. PICK q : q = nodes[i].parent
    OBVIOUS
<1>5. q \in 1..Len(nodes)
  <2>1. NodeOK(nodes[i], runs) /\ nodes[i].role = "assistant"
      BY <1>1, <1>2 DEF NodesOK, Role
  <2>2. nodes[i].run \in 1..Len(runs) /\ q = runs[nodes[i].run].question
      BY <1>4, <2>1 DEF NodeOK
  <2>3. Told(nodes, runs[nodes[i].run])
      BY <1>1, <1>2, <2>2 DEF RunsOK
  <2> QED BY <2>2, <2>3 DEF Told
<1>6. submit(q, ancestors(q), TRUE)
    BY <1>2, <1>3, <1>4
<1>7. CASE Busy
  <2>1. UNCHANGED <<phase, controller, completion, served, runs>>
      BY <1>6, <1>7 DEF submit
  <2>2. StreamOK'
      BY <1>1, <1>2, <2>1 DEF StreamOK, Awaited
  <2> QED BY <1>1, <1>2, <2>1, <2>2, StreamMoves DEF BShapes
<1>8. CASE ~Busy
  <2> DEFINE r == [question |-> q, history |-> ancestors(q), retry |-> TRUE]
  <2>1. /\ phase' = "running" /\ controller' = "live" /\ completion' = NoValue
        /\ served' = "open" /\ runs' = Append(runs, r)
      BY <1>6, <1>8 DEF submit
  <2>2. ancestors(q) \subseteq 1..q
      BY <1>1, <1>2, <1>5, ChainedTree DEF Chained, ancestors
  <2>3. r \in RunRec /\ r.question = q /\ r.history = ancestors(q) /\ r.retry = TRUE
      BY <1>2, <1>5, <2>2 DEF RunRec
  <2> HIDE DEF r
  <2>4. Begins(r)
      BY <1>1, <1>2, <2>1, <2>3, RunBegins
  <2>5. BShapes'
      BY <1>1, <1>2, <2>1, <2>4 DEF BShapes, Begins
  <2>6. Told(nodes, r)
      BY <1>5, <2>3 DEF Told, ancestors
  <2>7. \A k \in 1..Len(runs') : k \in 1..Len(runs) \/ k = Len(runs) + 1
      BY <1>2, <2>4 DEF Begins
  <2>8. RunsOK'
      BY <1>1, <1>2, <2>4, <2>6, <2>7 DEF RunsOK, Begins
  <2>9. NodesOK'
    <3>1. ASSUME NEW j \in Ids PROVE NodeOK(nodes[j], runs')
      <4>1. NodeOK(nodes[j], runs)
          BY <1>1 DEF NodesOK
      <4>2. \A k \in 1..Len(runs) : k \in 1..Len(runs') /\ runs'[k] = runs[k]
          BY <1>2, <2>4 DEF Begins
      <4> QED BY <4>1, <4>2 DEF NodeOK
    <3> QED BY <1>1, <1>2, <3>1 DEF NodesOK, Ids
  <2>10. FreeRun'
    <3>1. ASSUME NEW j \in Ids PROVE nodes[j].run # Len(runs) + 1
      <4>1. NodeOK(nodes[j], runs)
          BY <1>1 DEF NodesOK
      <4> QED BY <1>2, <4>1 DEF NodeOK
    <3> QED BY <1>2, <2>4, <3>1 DEF FreeRun, Begins, Ids
  <2>11. StreamOK'
      BY <2>1, <2>10 DEF StreamOK, Awaited
  <2>12. TreeSeq(nodes')
      BY <1>1, <1>2
  <2> QED BY <2>5, <2>8, <2>9, <2>11, <2>12 DEF BrowserInv
<1> QED BY <1>7, <1>8

\* The answer of the last run takes its place in the tree.
LEMMA ArchiveKept == ASSUME BrowserInv, ArchiveEffect PROVE BrowserInv'
<1>1. BShapes /\ TreeSeq(nodes) /\ RunsOK /\ NodesOK /\ StreamOK
    BY DEF BrowserInv
<1>2. /\ MaxNodes \in Nat /\ MaxRuns \in Nat /\ Len(nodes) \in Nat /\ Len(runs) \in Nat
      /\ completion # NoValue /\ ~deleted /\ ~deleted' /\ completion' = NoValue
      /\ appendChildOf(completion.parent, makeAssistantNode(completion))
      /\ UNCHANGED <<phase, controller, served, runs, deleted>>
    BY <1>1, PageNumbers DEF ArchiveEffect, clearCompletion
<1>3. /\ FreeRun /\ completion.pending \in BOOLEAN
      /\ completion.run = Len(runs) /\ completion.parent = runs[Len(runs)].question
    BY <1>1, <1>2 DEF StreamOK
<1>4. /\ Len(nodes) < MaxNodes /\ Len(runs) \in 1..Len(runs) /\ Len(runs) <= MaxRuns
      /\ \A j \in Ids : nodes[j].run # Len(runs)
    BY <1>1, <1>2, <1>3 DEF FreeRun, BShapes
<1>5. PICK p : p = completion.parent
    OBVIOUS
<1>6. p \in 1..Len(nodes) /\ p \in 0..Len(nodes) /\ p \in 0..MaxNodes
  <2>1. Told(nodes, runs[Len(runs)])
      BY <1>1, <1>2, <1>4 DEF RunsOK
  <2> QED BY <1>2, <1>3, <1>4, <1>5, <2>1 DEF Told
<1> DEFINE n == makeAssistantNode(completion)
<1>7. /\ n = [role |-> "assistant", parent |-> p, run |-> Len(runs), pending |-> completion.pending]
    BY <1>3, <1>5 DEF makeAssistantNode
<1>8. n \in Node /\ n.parent = p /\ n.role = "assistant" /\ n.run = Len(runs)
  <2> HIDE DEF n
  <2> QED BY <1>2, <1>3, <1>4, <1>6, <1>7 DEF Node
<1>9. appendChildOf(p, n)
    BY <1>2, <1>5
<1> HIDE DEF n
<1>10. Hangs(p, n)
    BY <1>1, <1>4, <1>6, <1>8, <1>9, AppendHangs
<1>11. /\ Len(nodes') = Len(nodes) + 1 /\ TreeSeq(nodes') /\ SameAbove(nodes, nodes')
       /\ \A i \in Ids : nodes'[i] = nodes[i]
       /\ nodes'[Len(nodes) + 1] = n /\ Ids' = Ids \cup {Len(nodes) + 1}
  <2>1. /\ Len(nodes') = Len(nodes) + 1 /\ TreeSeq(nodes') /\ SameAbove(nodes, nodes')
        /\ \A i \in Ids : nodes'[i] = nodes[i]
        /\ nodes'[Len(nodes) + 1] = n
      BY <1>10 DEF Hangs
  <2>2. 1..(Len(nodes) + 1) = 1..Len(nodes) \cup {Len(nodes) + 1}
      BY <1>2
  <2> QED BY <2>1, <2>2 DEF Ids
<1>12. BShapes'
    BY <1>1, <1>2, <1>10 DEF BShapes, Hangs
<1>13. RunsOK'
  <2>1. \A r : Told(nodes, r) => Told(nodes', r)
      BY <1>2, <1>11, ToldKept
  <2> QED BY <1>1, <1>2, <2>1 DEF RunsOK
<1>14. NodesOK'
  <2>1. NodeOK(n, runs)
      BY <1>3, <1>4, <1>5, <1>8 DEF NodeOK
  <2>2. \A i \in Ids' : NodeOK(nodes'[i], runs)
      BY <1>1, <1>11, <2>1 DEF NodesOK
  <2>3. \A i, j \in Ids' : nodes'[i].run = nodes'[j].run /\ nodes'[i].run # 0 => i = j
      BY <1>1, <1>4, <1>8, <1>11 DEF NodesOK
  <2> QED BY <1>2, <2>2, <2>3 DEF NodesOK
<1>15. StreamOK'
    BY <1>1, <1>2 DEF StreamOK, Awaited
<1> QED BY <1>11, <1>12, <1>13, <1>14, <1>15 DEF BrowserInv

\* The verdicts change nothing of the tree but what an answer shows.
LEMMA GroundingShown == ASSUME BrowserInv, GroundingEffect PROVE BrowserInv'
<1>1. BShapes /\ TreeSeq(nodes) /\ RunsOK /\ NodesOK /\ StreamOK
    BY DEF BrowserInv
<1>2. /\ MaxNodes \in Nat /\ MaxRuns \in Nat /\ Len(nodes) \in Nat /\ Len(runs) \in Nat
      /\ ~deleted /\ ~deleted' /\ completion = NoValue
      /\ updateAssistantGrounding(patch)
      /\ UNCHANGED <<selected, phase, controller, completion, served, runs, deleted>>
      /\ \A i \in Ids : nodes[i] \in Node
    BY <1>1, PageNumbers DEF GroundingEffect
<1>3. /\ nodes' \in Seq(Node) /\ Len(nodes') = Len(nodes)
      /\ \A i \in Ids : /\ nodes'[i].role = nodes[i].role /\ nodes'[i].parent = nodes[i].parent
                        /\ nodes'[i].run = nodes[i].run
  <2>1. \A i \in Ids : [nodes[i] EXCEPT !.pending = FALSE] \in Node
      BY <1>2 DEF Node
  <2>2. nodes' \in [1..Len(nodes) -> Node]
      BY <1>2, <2>1 DEF updateAssistantGrounding, Ids
  <2>3. nodes' \in Seq(Node) /\ Len(nodes') = Len(nodes)
      BY <1>2, <2>2
  <2>4. ASSUME NEW i \in Ids
        PROVE  /\ nodes'[i].role = nodes[i].role /\ nodes'[i].parent = nodes[i].parent
               /\ nodes'[i].run = nodes[i].run
    <3>1. nodes'[i] = nodes[i] \/ nodes'[i] = [nodes[i] EXCEPT !.pending = FALSE]
        BY <1>2 DEF updateAssistantGrounding
    <3> QED BY <1>2, <3>1 DEF Node
  <2> QED BY <2>3, <2>4
<1>4. Ids' = Ids
    BY <1>3 DEF Ids
<1>5. TreeSeq(nodes')
    BY <1>1, <1>3 DEF TreeSeq, Ids
<1>6. SameAbove(nodes, nodes')
  <2>1. \A i \in 1..Len(nodes) : nodes'[i].parent = nodes[i].parent
      BY <1>3 DEF Ids
  <2>2. Len(nodes) <= Len(nodes')
      BY <1>2, <1>3
  <2> QED BY <1>1, <1>5, <2>1, <2>2, AboveKept
<1>7. BShapes'
    BY <1>1, <1>2, <1>3 DEF BShapes
<1>8. RunsOK'
  <2>1. Len(nodes') \in Nat /\ Len(nodes) <= Len(nodes')
      BY <1>2, <1>3
  <2>2. \A r : Told(nodes, r) => Told(nodes', r)
      BY <1>2, <1>6, <2>1, ToldKept
  <2> QED BY <1>1, <1>2, <2>2 DEF RunsOK
<1>9. NodesOK'
    BY <1>1, <1>2, <1>3, <1>4 DEF NodesOK, NodeOK
<1>10. StreamOK'
  <2>1. FreeRun => FreeRun'
      BY <1>2, <1>3, <1>4 DEF FreeRun
  <2> QED BY <1>1, <1>2, <2>1 DEF StreamOK, Awaited
<1> QED BY <1>5, <1>7, <1>8, <1>9, <1>10 DEF BrowserInv

\* The tree is gone, and the stream aborted.
LEMMA DeleteKept == ASSUME BrowserInv, confirmPendingDelete PROVE BrowserInv'
<1>1. BShapes /\ StreamOK
    BY DEF BrowserInv
<1>2. /\ deleted' = TRUE /\ nodes' = <<>> /\ selected' = [i \in 0..MaxNodes |-> 0]
      /\ phase' = "idle" /\ controller' \in {"none", "live", "aborted"}
      /\ UNCHANGED <<completion, served, runs>> /\ completion = NoValue
    BY <1>1 DEF confirmPendingDelete, reset, Rendered, BShapes
<1>3. MaxNodes \in Nat
    BY BrowserAssumption
<1>4. /\ nodes' \in Seq(Node) /\ Len(nodes') = 0 /\ Ids' = {}
    BY <1>2 DEF Ids
<1>5. BShapes'
    BY <1>1, <1>2, <1>3, <1>4 DEF BShapes
<1>6. TreeSeq(nodes')
    BY <1>4 DEF TreeSeq
<1>7. RunsOK' /\ NodesOK' /\ StreamOK'
    BY <1>2, <1>4 DEF RunsOK, NodesOK, StreamOK, Awaited
<1> QED BY <1>5, <1>6, <1>7 DEF BrowserInv

\* Another branch is shown.
LEMMA BranchKept ==
    ASSUME BrowserInv, selected' \in [0..MaxNodes -> 0..MaxNodes],
           UNCHANGED <<nodes, phase, controller, completion, served, runs, deleted>>
    PROVE  BrowserInv'
<1>1. BShapes'
    BY DEF BrowserInv, BShapes
<1>2. TreeSeq(nodes') /\ RunsOK' /\ NodesOK' /\ StreamOK'
    BY DEF BrowserInv, RunsOK, NodesOK, StreamOK, FreeRun, Awaited, Ids
<1> QED BY <1>1, <1>2 DEF BrowserInv

\* The navigator and the history search only change the selection.
LEMMA BranchSelected ==
    ASSUME BrowserInv, NEW i \in Ids,
           handleSelectFromHistory(i) \/ \E s \in Ids : handleSwitchBranch(i, s)
    PROVE  BrowserInv'
<1>1. BShapes /\ TreeSeq(nodes)
    BY DEF BrowserInv
<1>2. /\ MaxNodes \in Nat /\ Len(nodes) \in Nat /\ Len(nodes) <= MaxNodes
      /\ \A j \in Ids : j \in 0..MaxNodes /\ j \in 0..Len(nodes)
    BY <1>1, PageNumbers DEF BShapes, Ids
<1>3. selected' \in [0..MaxNodes -> 0..MaxNodes]
  <2>1. CASE handleSelectFromHistory(i)
    <3> DEFINE next(p) == {j \in ancestors(i) : nodes[j].parent = p}
    <3>1. selected' = [p \in 0..MaxNodes |->
                          IF next(p) = {} THEN selected[p] ELSE CHOOSE j \in next(p) : TRUE]
        BY <2>1 DEF handleSelectFromHistory, selectPathTo
    <3>2. ancestors(i) \subseteq 0..MaxNodes
      <4>1. ancestors(i) \subseteq 1..i
          BY <1>1, <1>2, ChainedTree DEF Chained, ancestors
      <4> QED BY <1>2, <4>1 DEF Ids
    <3>3. ASSUME NEW p \in 0..MaxNodes
          PROVE  (IF next(p) = {} THEN selected[p] ELSE CHOOSE j \in next(p) : TRUE) \in 0..MaxNodes
        BY <1>1, <3>2 DEF BShapes
    <3> QED BY <3>1, <3>3
  <2>2. CASE \E s \in Ids : handleSwitchBranch(i, s)
      BY <1>1, <1>2, <2>2 DEF handleSwitchBranch, switchToSibling, BShapes
  <2> QED BY <2>1, <2>2
<1>4. UNCHANGED <<nodes, phase, controller, completion, served, runs, deleted>>
    BY DEF handleSelectFromHistory, handleSwitchBranch
<1> QED BY <1>3, <1>4, BranchKept

\* The events of a stream and its stop keep the invariant.
LEMMA StreamKept ==
    ASSUME BrowserInv,
           \/ \E b \in BOOLEAN : AnswerEvent(b) \/ GroundingEvent(b)
           \/ ErrorEvent \/ StreamEnds \/ StreamRejects \/ AbortCaught \/ handleStop
    PROVE  BrowserInv'
<1>1. BShapes /\ StreamOK
    BY DEF BrowserInv
<1>2. ASSUME NEW b \in BOOLEAN, AnswerEvent(b) PROVE BrowserInv'
  <2>1. /\ ~deleted /\ controller = "live" /\ served = "open"
        /\ completion' = [parent |-> runs[Len(runs)].question, run |-> Len(runs), pending |-> b]
        /\ phase' = "done" /\ served' \in {"pending", "settled"}
        /\ UNCHANGED <<nodes, selected, controller, runs, deleted>>
      BY <1>2 DEF AnswerEvent, Listening, Run
  <2>2. FreeRun
      BY <1>1, <2>1 DEF StreamOK, Awaited
  <2>3. FreeRun'
      BY <2>1, <2>2 DEF FreeRun, Ids
  <2>4. StreamOK'
      BY <2>1, <2>3 DEF StreamOK, Awaited
  <2> QED BY <1>1, <2>1, <2>4, StreamMoves DEF BShapes
<1>3. CASE AbortCaught
  <2>1. /\ controller = "aborted" /\ controller' = "none" /\ phase' = "done" /\ served' = "settled"
        /\ completion' = IF deleted THEN NoValue
                         ELSE [parent |-> runs[Len(runs)].question, run |-> Len(runs), pending |-> FALSE]
        /\ UNCHANGED <<nodes, selected, runs, deleted>>
      BY <1>3 DEF AbortCaught, Run
  <2>2. ~deleted => FreeRun
      BY <1>1, <2>1 DEF StreamOK, Awaited
  <2>3. ~deleted => FreeRun'
      BY <2>1, <2>2 DEF FreeRun, Ids
  <2>4. StreamOK'
      BY <2>1, <2>3 DEF StreamOK, Awaited
  <2> QED BY <1>1, <2>1, <2>4, StreamMoves DEF BShapes
<1>4. ASSUME \/ \E b \in BOOLEAN : GroundingEvent(b)
             \/ ErrorEvent \/ StreamEnds \/ StreamRejects \/ handleStop
      PROVE BrowserInv'
  <2>1. /\ ~deleted /\ controller = "live"
        /\ UNCHANGED <<nodes, selected, completion, runs, deleted>>
        /\ \/ served = "pending" /\ served' \in {"pending", "settled"} /\ UNCHANGED <<phase, controller>>
           \/ phase' = "error" /\ served' = "failed" /\ controller' \in {"none", "live"}
           \/ controller' = "none" /\ UNCHANGED <<phase, served>>
           \/ phase = "running" /\ controller' = "aborted" /\ UNCHANGED <<phase, served>>
      BY <1>4 DEF GroundingEvent, ErrorEvent, StreamEnds, StreamRejects, handleStop, Listening, Rendered
  <2>2. FreeRun' <=> FreeRun
      BY <2>1 DEF FreeRun, Ids
  <2>3. StreamOK'
      BY <1>1, <2>1, <2>2 DEF StreamOK, Awaited
  <2>4. /\ phase' \in {"idle", "running", "done", "error"}
        /\ controller' \in {"none", "live", "aborted"}
        /\ served' \in {"open", "pending", "settled", "failed"}
      BY <1>1, <2>1 DEF BShapes
  <2> QED BY <2>1, <2>3, <2>4, StreamMoves
<1> QED BY <1>2, <1>3, <1>4

\* Every handler, event and effect keeps the invariant.
LEMMA BrowserKept == BrowserInv /\ [BNext]_bvars => BrowserInv'
<1> SUFFICES ASSUME BrowserInv, [BNext]_bvars PROVE BrowserInv'
    OBVIOUS
<1>0. TreeSeq(nodes) /\ BShapes
    BY DEF BrowserInv
<1>1. CASE UNCHANGED bvars
  <2>1. UNCHANGED <<nodes, phase, controller, completion, served, runs, deleted>>
        /\ selected' \in [0..MaxNodes -> 0..MaxNodes]
      BY <1>0, <1>1 DEF bvars, BShapes
  <2> QED BY <2>1, BranchKept
<1>2. CASE handleSubmit
  <2>1. PICK p : p = activeLeaf
      OBVIOUS
  <2>2. p \in 0..Len(nodes) /\ ancestors(p) = activePathNodes
      BY <1>0, <2>1, LeafEndsThePath
  <2>3. /\ Rendered /\ phase # "running" /\ Room /\ appendChildOf(p, makeUserNode(p))
        /\ submit(Len(nodes) + 1, ancestors(p), FALSE) /\ UNCHANGED deleted
      BY <1>2, <2>1, <2>2 DEF handleSubmit
  <2> QED BY <2>2, <2>3, QuestionAsked
<1>3. ASSUME NEW i \in Ids, handleEditUserMessage(i) PROVE BrowserInv'
  <2>1. PICK p : p = nodes[i].parent
      OBVIOUS
  <2>2. p \in 0..Len(nodes) /\ historyUpTo(i) = ancestors(p)
    <3>1. i \in activePathNodes
        BY <1>3 DEF handleEditUserMessage
    <3>2. p \in 0..Len(nodes)
        BY <1>0, <2>1 DEF TreeSeq, Ids
    <3> QED BY <1>0, <2>1, <3>1, <3>2, HistoryIsTheBranch
  <2>3. /\ Rendered /\ phase # "running" /\ Room /\ appendChildOf(p, makeUserNode(p))
        /\ submit(Len(nodes) + 1, ancestors(p), FALSE) /\ UNCHANGED deleted
      BY <1>3, <2>1, <2>2 DEF handleEditUserMessage
  <2> QED BY <2>2, <2>3, QuestionAsked
<1> QED BY <1>1, <1>2, <1>3, RetryKept, BranchSelected, StreamKept, ArchiveKept, GroundingShown,
           DeleteKept DEF BNext

\* A conversation begins without a message.
LEMMA BrowserInit == BInit => BrowserInv
<1> SUFFICES ASSUME BInit PROVE BrowserInv
    OBVIOUS
<1>1. /\ nodes = <<>> /\ runs = <<>> /\ Len(nodes) = 0 /\ Len(runs) = 0 /\ Ids = {}
      /\ MaxNodes \in Nat /\ MaxRuns \in Nat
    BY BrowserAssumption DEF BInit, Ids
<1>2. BShapes
    BY <1>1 DEF BInit, BShapes
<1>3. TreeSeq(nodes)
    BY <1>1 DEF TreeSeq
<1>4. RunsOK /\ NodesOK
    BY <1>1 DEF BInit, RunsOK, NodesOK
<1>5. StreamOK
    BY DEF BInit, StreamOK, Awaited
<1> QED BY <1>2, <1>3, <1>4, <1>5 DEF BrowserInv

\* The invariant holds in every state.
LEMMA BrowserInvariant == ChatSpec => []BrowserInv
<1>1. ChatInit => BrowserInv
    BY BrowserInit DEF ChatInit
<1>2. BrowserInv /\ [ChatNext]_chatvars => BrowserInv'
    BY BrowserKept, StepOfCrawlAndPage
<1> QED BY <1>1, <1>2, PTL DEF ChatSpec

\* lib/branches.ts and chat-shell.tsx: however the user edits, retries,
\* switches branches, stops or deletes while answers and verdicts arrive, an
\* answer hangs under the question its run was asked, no run leaves two, and
\* the model was told the branch it is shown on, for conversations of any size.
THEOREM AnswersStayWithTheirQuestion == ChatSpec => []AnswersTheirQuestion
<1>1. ASSUME BrowserInv PROVE AnswersTheirQuestion
  <2> SUFFICES ASSUME NEW i \in Ids, Role(i) = "assistant"
               PROVE  LET r == runs[nodes[i].run] IN
                      /\ nodes[i].parent = r.question
                      /\ \A j \in Ids : nodes[j].run = nodes[i].run => j = i
                      /\ r.history = ancestors(r.question) \ (IF r.retry THEN {} ELSE {r.question})
      BY DEF AnswersTheirQuestion
  <2>1. RunsOK /\ NodesOK /\ Len(runs) \in Nat
      BY <1>1, PageNumbers DEF BrowserInv
  <2>2. ~deleted
    <3>1. nodes = <<>> => Ids = {}
        BY DEF Ids
    <3> QED BY <2>1, <3>1 DEF NodesOK
  <2>3. nodes[i].run \in 1..Len(runs) /\ nodes[i].parent = runs[nodes[i].run].question
      BY <2>1 DEF NodesOK, NodeOK, Role
  <2>4. nodes[i].run # 0
      BY <2>1, <2>3
  <2>5. \A j \in Ids : nodes[j].run = nodes[i].run => j = i
      BY <2>1, <2>4 DEF NodesOK
  <2>6. Told(nodes, runs[nodes[i].run])
      BY <2>1, <2>2, <2>3 DEF RunsOK
  <2> QED BY <2>3, <2>5, <2>6 DEF Told, ancestors
<1> QED BY <1>1, BrowserInvariant, PTL

\* The state of every part of an exchange keeps its type.
THEOREM ChatTypes == ChatSpec => []ChatTypeOK
<1>1. ASSUME ResearchInv PROVE ResearchTypeOK
    BY <1>1 DEF ResearchInv, CrawlCore, ResearchTypeOK
<1>2. BrowserInv => BrowserTypeOK
    BY DEF BrowserInv, BShapes, Node, BrowserTypeOK
<1>3. TurnTypeOK /\ FailoverTypeOK /\ GroundingTypeOK /\ LimitsTypeOK /\ ResearchTypeOK /\ BrowserTypeOK
         => ChatTypeOK
    BY DEF ChatTypeOK
<1> QED BY <1>1, <1>2, <1>3, ExchangeTypes, ResearchInvariant, BrowserInvariant, PTL
=============================================================================
